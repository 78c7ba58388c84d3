---------------------------- MODULE DeliveryGate ----------------------------
(***************************************************************************)
(* What the task workflow promises about the code it delivers, without     *)
(* commands, locks, worktrees or crashes: a tree is validated, then        *)
(* approved, then merged into the integration branch; the target branch    *)
(* receives whole integration heads that were verified as such.  What      *)
(* others commit to the target branch is no part of it.                    *)
(***************************************************************************)
CONSTANTS Task, Content, Commit, Manual

VARIABLES
    validated,    \* <<task, tree>> that passed validation
    granted,      \* <<task, tree>> an operator approved
    integrated,   \* task commits merged into the integration branch
    combined,     \* its heads that passed as committed, and whose checks ran
    main          \* the integration head that the target branch holds

gateVars == <<validated, granted, integrated, combined, main>>

GateInit ==
    /\ validated = {} /\ granted = {} /\ integrated = {}
    /\ combined = {} /\ main = {}

Validate(t, c) ==
    /\ validated' = validated \cup {<<t, c>>}
    /\ UNCHANGED <<granted, integrated, combined, main>>

\* Only a validated tree is put to the operator.
Grant(t, c) ==
    /\ <<t, c>> \in validated
    /\ granted' = granted \cup {<<t, c>>}
    /\ UNCHANGED <<validated, integrated, combined, main>>

Integrate(t, k) ==
    /\ <<t, k.tree>> \in validated
    /\ Manual => <<t, k.tree>> \in granted
    /\ integrated' = integrated \cup {[task |-> t, commit |-> k]}
    /\ UNCHANGED <<validated, granted, combined, main>>

\* The checks of some tasks pass on what the integration branch has committed.
VerifyHead(ran) ==
    /\ combined' = combined \cup {[head |-> integrated, ran |-> ran]}
    /\ UNCHANGED <<validated, granted, integrated, main>>

Promote(v) ==
    /\ v.head = integrated
    /\ main' = v.head
    /\ UNCHANGED <<validated, granted, integrated, combined>>

GateNext ==
    \/ \E t \in Task, c \in Content : Validate(t, c) \/ Grant(t, c)
    \/ \E t \in Task, k \in Commit : Integrate(t, k)
    \/ \E ran \in SUBSET Task : VerifyHead(ran)
    \/ \E v \in combined : Promote(v)

GateSpec == GateInit /\ [][GateNext]_gateVars

=============================================================================
