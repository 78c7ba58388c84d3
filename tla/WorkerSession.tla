---------------------------- MODULE WorkerSession ----------------------------
(***************************************************************************)
(* One model session of a worker: the budget governor lets it start, the   *)
(* codex process streams events that are recorded and counted, and the     *)
(* session is finished whichever way the stream ends.                      *)
(*                                                                         *)
(* The process leads a session of its own and may leave a descendant that  *)
(* holds its pipes.  The adapter is an async generator: when its consumer  *)
(* raises between two events, the generator is closed by the event loop,   *)
(* some time later ("orphaned").                                           *)
(*                                                                         *)
(* Seconds are left out: a session may time out whenever it runs, and the  *)
(* wall budget may be exhausted whenever one is to start.                  *)
(***************************************************************************)
EXTENDS Naturals, Sequences, FiniteSets

CONSTANTS
    MaxSessions,   \* Budget.max_worker_sessions, and the number of slots
    CostCap,       \* Budget.max_estimated_cost_usd, in units of usage
    MaxUsage,      \* bound on the usage events of a run
    MaxFaults      \* bound on the failures of the event store

ASSUME SessionAssumption ==
    /\ MaxSessions \in Nat \ {0}
    /\ CostCap \in Nat
    /\ MaxUsage \in Nat
    /\ MaxFaults \in Nat

VARIABLES
    session,    \* where the session under way is
    verdict,    \* how it ended, or is ending
    leader,     \* the codex process
    child,      \* a descendant that holds its pipes
    active,     \* whether the governor has an active session
    sessions,   \* sessions it has counted
    finished,   \* sessions whose elapsed time it has added
    usage,      \* Usage observed, by whose model it was
    rates,      \* the models whose rates are known
    faults      \* store failures so far

sessionVars == <<session, verdict, leader, child, active, sessions, finished, usage, rates, faults>>

\* A run has a planner's model and an executor's, which may be the same.
Model == {"planner", "executor"}

Verdict == {"none", "ok", "timeout", "infra", "error", "cancelled", "budget"}

SessionTypeOK ==
    /\ session \in {"none", "starting", "started", "streaming", "waiting", "stopping",
                    "draining", "orphaned", "ended"}
    /\ verdict \in Verdict
    /\ leader \in {"none", "alive", "dead"}
    /\ child \in {"none", "alive", "dead"}
    /\ active \in {"no", "yes"}
    /\ sessions \in 0..MaxSessions
    /\ finished \in 0..MaxSessions
    /\ usage \in [Model -> 0..MaxUsage]
    /\ rates \subseteq Model
    /\ faults \in 0..MaxFaults

SessionInit ==
    /\ session = "none" /\ verdict = "none"
    /\ leader = "none" /\ child = "none"
    /\ active = "no" /\ sessions = 0 /\ finished = 0
    /\ usage = [m \in Model |-> 0]
    /\ rates = Model
    /\ faults = 0

\* BudgetGovernor.estimated_cost_usd is an amount only if the rates of every model
\* observed are known, and of the executor's when none is.
Cost == usage["planner"] + usage["executor"]

Estimated ==
    IF Cost = 0 THEN "executor" \in rates ELSE \A m \in Model : usage[m] > 0 => m \in rates

\* An append to the event log raises.
StoreFails == faults < MaxFaults /\ faults' = faults + 1

\* BudgetGovernor.finish_session.
Finish == active' = "no" /\ finished' = finished + 1

\* The session is over: it is finished, and recording that may raise instead.
Ends(how) ==
    /\ Finish
    /\ session' = "ended"
    /\ \/ verdict' = how /\ UNCHANGED faults
       \/ verdict' = "error" /\ StoreFails

\* The pipes of the process are closed: nobody holds them any more.
PipesClosed == leader # "alive" /\ child # "alive"

\* SIGKILL to the process group, and the leader is reaped.
KillsGroup ==
    /\ leader' = "dead"
    /\ child' = IF child = "alive" THEN "dead" ELSE child

-----------------------------------------------------------------------------
(* Faulty variants of definitions below, each a slip the code could contain. *)

\* A consumer that does not wait for the process once stdout is closed.
ProcessEndsUnawaited ==
    /\ session = "waiting"
    /\ \E status \in {"ok", "infra"} : Ends(status)
    /\ UNCHANGED <<leader, child, sessions, usage, rates>>

-----------------------------------------------------------------------------
\* BudgetGovernor.start_session: the sessions, the wall and the cost, if it can be
\* estimated, allow it, or BudgetExceeded is raised.
Starts ==
    /\ session = "starting"
    /\ \/ /\ sessions < MaxSessions
          /\ Estimated => Cost < CostCap
          /\ session' = "started"
          /\ active' = "yes"
          /\ sessions' = sessions + 1
          /\ UNCHANGED verdict
       \/ /\ session' = "ended"
          /\ verdict' = "budget"
          /\ UNCHANGED <<active, sessions>>
    /\ UNCHANGED <<leader, child, finished, usage, rates, faults>>

\* The start is recorded and the process spawned; either may raise.  Only the
\* executor's session is finished when it is the recording that raises.
Spawns(model) ==
    /\ session = "started"
    /\ \/ /\ leader' = "alive"
          /\ session' = "streaming"
          /\ UNCHANGED <<verdict, child, active, finished, faults>>
       \/ /\ \E how \in {"error", "cancelled"} : Ends(how)
          /\ UNCHANGED <<leader, child>>
       \/ /\ StoreFails
          /\ session' = "ended" /\ verdict' = "error"
          /\ IF model = "executor" THEN Finish ELSE UNCHANGED <<active, finished>>
          /\ UNCHANGED <<leader, child>>
    /\ UNCHANGED <<sessions, usage, rates>>

\* An event is recorded, and its usage counted.
Streams(model) ==
    /\ session = "streaming"
    /\ Cost < MaxUsage
    /\ usage' = [usage EXCEPT ![model] = @ + 1]
    /\ UNCHANGED <<session, verdict, leader, child, active, sessions, finished, rates, faults>>

\* Recording it raises: the session is finished around a suspended generator.
StreamBreaks ==
    /\ session = "streaming"
    /\ StoreFails
    /\ Finish
    /\ session' = "orphaned" /\ verdict' = "error"
    /\ UNCHANGED <<leader, child, sessions, usage, rates>>

\* The event loop closes the suspended generator, which stops the tree and then
\* waits for whoever still holds stderr.
OrphanClosed ==
    /\ session = "orphaned"
    /\ session' = "ended"
    /\ \/ leader = "alive" /\ KillsGroup
       \/ PipesClosed /\ UNCHANGED <<leader, child>>
    /\ UNCHANGED <<verdict, active, sessions, finished, usage, rates, faults>>

\* The process and its descendant come and go.
LeaderForks ==
    /\ session = "streaming"
    /\ leader = "alive" /\ child = "none"
    /\ child' = "alive"
    /\ UNCHANGED <<session, verdict, leader, active, sessions, finished, usage, rates, faults>>

LeaderExits ==
    /\ leader = "alive"
    /\ leader' = "dead"
    /\ UNCHANGED <<session, verdict, child, active, sessions, finished, usage, rates, faults>>

ChildExits ==
    /\ child = "alive"
    /\ child' = "dead"
    /\ UNCHANGED <<session, verdict, leader, active, sessions, finished, usage, rates, faults>>

\* stdout ends, though the process may live and a descendant hold stderr.
StdoutEnds ==
    /\ session = "streaming"
    /\ session' = "waiting"
    /\ UNCHANGED <<verdict, leader, child, active, sessions, finished, usage, rates, faults>>

\* The process has exited and stderr ended; its status decides.
ProcessEnds ==
    /\ session = "waiting"
    /\ PipesClosed
    /\ \E status \in {"ok", "infra"} : Ends(status)
    /\ UNCHANGED <<leader, child, sessions, usage, rates>>

\* The timeout, a cancellation, an event that says the sandbox cannot start, or one
\* the generator itself fails on: a line beyond the reader's limit, or JSON that is
\* not an object.
Interrupted ==
    /\ \/ session = "streaming" /\ verdict' \in {"timeout", "cancelled", "infra", "error"}
       \/ session = "waiting" /\ leader = "alive" /\ verdict' \in {"timeout", "cancelled"}
    /\ session' = "stopping"
    /\ UNCHANGED <<leader, child, active, sessions, finished, usage, rates, faults>>

\* The timeout or a cancellation finds it awaiting stderr after the exit: that
\* cancels the drain, and awaiting the drain again raises CancelledError.
DrainCancelled ==
    /\ session = "waiting"
    /\ leader = "dead"
    /\ Ends("cancelled")
    /\ UNCHANGED <<leader, child, sessions, usage, rates>>

\* _stop_process_tree: the group is killed unless the leader has exited.
StopTree ==
    /\ session = "stopping"
    /\ session' = "draining"
    /\ IF leader = "alive" THEN KillsGroup ELSE UNCHANGED <<leader, child>>
    /\ UNCHANGED <<verdict, active, sessions, finished, usage, rates, faults>>

\* stderr has ended, and the exception is raised; or a cancellation, or the deadline
\* in the case of the sandbox, cancels the wait for whoever holds stderr.
Stopped ==
    /\ session = "draining"
    /\ \/ PipesClosed /\ Ends(verdict)
       \/ Ends("cancelled")
    /\ UNCHANGED <<leader, child, sessions, usage, rates>>

WorkerStep(model) ==
    \/ Starts \/ Spawns(model) \/ Streams(model) \/ StreamBreaks \/ OrphanClosed
    \/ LeaderForks \/ LeaderExits \/ ChildExits \/ StdoutEnds \/ ProcessEnds
    \/ Interrupted \/ DrainCancelled \/ StopTree \/ Stopped

=============================================================================
