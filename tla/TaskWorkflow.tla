---------------------------- MODULE TaskWorkflow ----------------------------
(***************************************************************************)
(* The life of the tasks of one meeting: the task-* commands of the CLI,   *)
(* the meeting state they read and append to, and the Git worktrees they   *)
(* act on.                                                                 *)
(*                                                                         *)
(* Every command holds the meeting lock from resume to exit, so at most    *)
(* one is in progress (pc # "idle").  It advances one durable append or    *)
(* one Git call at a time and may stop between any two of them: an         *)
(* exception and a killed process leave the same thing behind, what the    *)
(* log and Git hold.  The lock does not cover the task worktrees: a        *)
(* worker that outlives its command, the validation commands, or a person  *)
(* may change them while a command runs.                                   *)
(*                                                                         *)
(* Simplifications.                                                        *)
(*  - The meeting state is the replay of the event log (module EventStore  *)
(*    shows that the two agree), so an appended event is its effect.       *)
(*  - A Git tree is a member of Content, Clean being the tree of the base  *)
(*    revision; any other content stands for one set of changed files.     *)
(*  - A commit is its tree and its position on its branch; branches are    *)
(*    not rewritten, and nobody commits by hand on the integration branch. *)
(*  - The head of the integration branch is the set of task commits merged *)
(*    into it: the branch only grows, so the set names the commit.         *)
(*  - The target branch is the set of commits it has gained since the      *)
(*    integration branch was cut from it: those of this meeting, and those *)
(*    of other meetings and of people, whom no lock of ours keeps out.     *)
(***************************************************************************)
EXTENDS Naturals, MeetingTables

CONSTANTS
    Task,             \* task ids
    Content,          \* Git trees a task worktree may hold
    Clean,            \* the tree of the base revision
    InScope,          \* changed contents that stay within allowed_paths
    Reports,          \* the reports a worker may hand in
    Other,            \* commits others may add to the target branch
    Manual,           \* merge_policy is "manual" (TRUE) or "auto" (FALSE)
    Exposed,          \* program points at which the worktree of the command's
                      \* own task may be changed from outside
    Disturbances,     \* kinds of change made from outside
    Commands,         \* the CLI commands the operator gives
    OperatorPhases,   \* phases the operator's "phase" command is given
    MaxCommits,       \* bound on the commits of one task branch
    None              \* an absent value

ProgramPoint ==
    {"idle", "assign", "prep_integration", "prep_worktree", "prep_accept",
     "prep_record", "submit", "block", "scope", "checks", "ready", "confirm",
     "snapshot", "source", "tree", "merge", "record", "combine",
     "merge_main", "close_tasks"}

Operation ==
    {"none", "create", "prepare", "report", "execute", "integrate", "promote"}

Disturbance == {"edit", "commit", "branch", "integration", "main"}

CLICommand ==
    {"run", "phase", "create", "prepare", "retry", "report", "execute", "ready",
     "request", "approve", "reject", "integrate", "promote"}

ASSUME WorkflowAssumption ==
    /\ Clean \in Content
    /\ InScope \subseteq Content \ {Clean}
    /\ Reports \subseteq [declared : SUBSET Content, human : BOOLEAN]
    /\ Manual \in BOOLEAN
    /\ Exposed \subseteq ProgramPoint
    /\ Disturbances \subseteq Disturbance
    /\ Commands \subseteq CLICommand
    /\ OperatorPhases \subseteq MeetingPhase
    /\ MaxCommits \in Nat

-----------------------------------------------------------------------------
(* Values. *)

Commit == [n : 0..MaxCommits, tree : Content]

\* A task worktree, and GitIdentity: the branch checked out (its own or
\* another one), HEAD, and the tree of the tracked and untracked files.
Identity == [own : BOOLEAN, head : Commit, tree : Content]

Source == [task : Task, commit : Commit]

Report == [declared : SUBSET Content, human : BOOLEAN]

\* ValidationResult; "report" remembers which report it was compared with.
Validation == [passed : BOOLEAN, id : Identity, report : Report]

\* The ValidationResult of the integration worktree: the head and whether the
\* worktree was clean, and the tasks whose checks ran.
CombinedValidation ==
    [passed : BOOLEAN, head : SUBSET Source, clean : BOOLEAN, ran : SUBSET Task]

ASSUME NoneAssumption ==
    /\ None \notin Task
    /\ None \notin Identity
    /\ None \notin Report
    /\ None \notin Validation
    /\ None \notin CombinedValidation
    /\ None \notin Commit
    /\ None \notin ApprovalDecision
    /\ Other \cap Source = {}

UntouchedWorktree ==
    [own |-> TRUE, head |-> [n |-> 0, tree |-> Clean], tree |-> Clean]

-----------------------------------------------------------------------------
(* State. *)

VARIABLES
    \* MeetingState, as a resume would rebuild it from the log
    phase, status, report, valid, approval, approvedId, base, mergeCommit,
    combinedValid,
    \* Git
    wt, integ, main,
    \* the command in progress: its operation, program point and locals
    op, pc, cur, scopeOk, source,
    \* what the log says ever happened (read by the properties only)
    validated, granted, combined

meetingVars == <<phase, status, report, valid, approval, approvedId, base,
                 mergeCommit, combinedValid>>
gitVars     == <<wt, integ, main>>
localVars   == <<op, pc, cur, scopeOk, source>>
pastVars    == <<validated, granted, combined>>
vars        == <<meetingVars, gitVars, localVars, pastVars>>

Init ==
    /\ phase = "preparing"
    /\ status = [t \in Task |-> Absent]
    /\ report = [t \in Task |-> None]
    /\ valid = [t \in Task |-> None]
    /\ approval = [t \in Task |-> None]
    /\ approvedId = [t \in Task |-> None]
    /\ base = [t \in Task |-> FALSE]
    /\ mergeCommit = [t \in Task |-> {}]
    /\ combinedValid = None
    /\ wt = [t \in Task |-> None]
    /\ integ = [exists |-> FALSE, head |-> {}]
    /\ main = {}
    /\ op = "none" /\ pc = "idle" /\ cur = None
    /\ scopeOk = FALSE /\ source = None
    /\ validated = {} /\ granted = {} /\ combined = {}

TypeOK ==
    /\ phase \in MeetingPhase
    /\ status \in [Task -> TaskStatus \cup {Absent}]
    /\ report \in [Task -> Report \cup {None}]
    /\ valid \in [Task -> Validation \cup {None}]
    /\ approval \in [Task -> ApprovalDecision \cup {None}]
    /\ approvedId \in [Task -> Identity \cup {None}]
    /\ base \in [Task -> BOOLEAN]
    /\ mergeCommit \in [Task -> SUBSET Source]
    /\ combinedValid \in CombinedValidation \cup {None}
    /\ wt \in [Task -> Identity \cup {None}]
    /\ integ \in [exists : BOOLEAN, head : SUBSET Source]
    /\ main \in SUBSET (Source \cup Other)
    /\ op \in Operation
    /\ pc \in ProgramPoint
    /\ cur \in Task \cup {None}
    /\ scopeOk \in BOOLEAN
    /\ source \in Commit \cup {None}
    /\ validated \in SUBSET (Task \X Content)
    /\ granted \in SUBSET (Task \X Content)
    /\ combined \in SUBSET [head : SUBSET Source, ran : SUBSET Task]

-----------------------------------------------------------------------------
(* Control flow of a command. *)

\* The lock is taken (resume) and the command's first step done.
Begin(o, p, t) ==
    /\ op' = o /\ pc' = p /\ cur' = t
    /\ scopeOk' = FALSE /\ source' = None

Goto(p) == pc' = p /\ UNCHANGED <<op, cur, scopeOk, source>>

\* The command is over and the lock released (close, or process exit).
Finish == Begin("none", "idle", None)

Idle == pc = "idle"

\* A command that is a single append.
Atomic == Idle /\ UNCHANGED localVars

\* transition_task: the one place that consults the table.
MayBecome(t, s) == status[t] # Absent /\ s \in TaskTransitions[status[t]]

SetStatus(t, s) == status' = [status EXCEPT ![t] = s]

\* An exception or a crash ends the command between two of its steps.
Stop ==
    /\ ~Idle
    /\ Finish
    /\ UNCHANGED <<meetingVars, gitVars, pastVars>>

-----------------------------------------------------------------------------
(* Faulty variants of definitions below, each a slip the code could contain;  *)
(* a property is worth checking when one of them breaks it.                   *)

\* mark_task_ready that does not look at the report.
HasPassed(t) == valid[t] # None /\ valid[t].passed

\* changed_files that only sees what is not committed.
ChangedSinceHead(t) ==
    IF wt[t].tree # wt[t].head.tree THEN {wt[t].tree} \ {Clean} ELSE {}

\* record_task_integration that accepts any task.
Known(t) == status[t] # Absent

\* An approval that holds for the task, whatever it has become.
AnyApproval(t) == TRUE

\* task-integrate that takes the last recorded validation for its own.
BeginIntegrateUnverified(t) ==
    /\ Idle
    /\ Manual => approval[t] = "approved"
    /\ integ' = [integ EXCEPT !.exists = TRUE]
    /\ IF wt[t] # None /\ report[t] # None
         THEN Begin("integrate", "confirm", t)
         ELSE Finish
    /\ UNCHANGED <<meetingVars, wt, main, pastVars>>

\* integrate that trusts its own snapshot commit.
SnapshotIsOnBranch(t) == wt[t].own

\* integrate that does not notice a merge conflict.
MergeTaskUnnoticed ==
    /\ pc = "merge"
    /\ \/ integ' = [integ EXCEPT !.head = @ \cup {[task |-> cur, commit |-> source]}]
       \/ UNCHANGED integ
    /\ Goto("record")
    /\ UNCHANGED <<meetingVars, wt, main, pastVars>>

\* An integration event that leaves the combined result in force.
RecordIntegrationOnly ==
    /\ pc = "record"
    /\ status[cur] \in {"ready_for_report", "in_review"}
    /\ HasPassed(cur)
    /\ SetStatus(cur, "integrated")
    /\ mergeCommit' = [mergeCommit EXCEPT ![cur] = integ.head]
    /\ Finish
    /\ UNCHANGED <<phase, report, valid, approval, approvedId, base,
                   combinedValid, gitVars, pastVars>>

\* integrated_validation_commands that asks for the tasks already closed.
ChecksOfClosedTasks == {t \in Task : status[t] = "merged"}

\* A combined result that passes when a command failed.
VerifyCombinationAnyhow(ok, clean) ==
    /\ pc = "combine"
    /\ combinedValid' = [passed |-> TRUE, head |-> integ.head, clean |-> clean,
                         ran |-> {t \in Task : status[t] = "integrated"}]
    /\ combined' = IF ok /\ clean
                   THEN combined \cup {[head |-> integ.head,
                                        ran |-> {t \in Task : status[t] = "integrated"}]}
                   ELSE combined
    /\ Goto("merge_main")
    /\ UNCHANGED <<phase, status, report, valid, approval, approvedId, base,
                   mergeCommit, gitVars, validated, granted>>

\* promote that compares commits and not the working tree.
CombinationHeadIsCurrent ==
    combinedValid.passed /\ integ.head = combinedValid.head

\* task-promote that writes the status of the tasks into the phase.
MergeMeeting ==
    /\ pc = "close_tasks"
    /\ \A t \in Task : status[t] # "integrated"
    /\ phase' = "merged"
    /\ Finish
    /\ UNCHANGED <<status, report, valid, approval, approvedId, base,
                   mergeCommit, combinedValid, gitVars, pastVars>>

-----------------------------------------------------------------------------
(* start and phase. *)

StartMeeting ==
    /\ Atomic
    /\ phase = "preparing"
    /\ phase' = "discussing"
    /\ UNCHANGED <<status, report, valid, approval, approvedId, base,
                   mergeCommit, combinedValid, gitVars, pastVars>>

ChangePhase(p) ==
    /\ Atomic
    /\ p \in PhaseTransitions[phase]
    /\ phase' = p
    /\ UNCHANGED <<status, report, valid, approval, approvedId, base,
                   mergeCommit, combinedValid, gitVars, pastVars>>

-----------------------------------------------------------------------------
(* task-create: two appends. *)

ProposeTask(t) ==
    /\ Idle
    /\ status[t] = Absent
    /\ SetStatus(t, "proposed")
    /\ Begin("create", "assign", t)
    /\ UNCHANGED <<phase, report, valid, approval, approvedId, base,
                   mergeCommit, combinedValid, gitVars, pastVars>>

AssignTask ==
    /\ pc = "assign"
    /\ MayBecome(cur, "assigned")
    /\ SetStatus(cur, "assigned")
    /\ Finish
    /\ UNCHANGED <<phase, report, valid, approval, approvedId, base,
                   mergeCommit, combinedValid, gitVars, pastVars>>

-----------------------------------------------------------------------------
(* task-prepare: the integration worktree, the task worktree, then the log. *)

MayPrepare(t) == base[t] \/ status[t] \in {"assigned", "accepted"}

BeginPrepare(t) ==
    /\ Idle
    /\ status[t] # Absent
    /\ MayPrepare(t)
    /\ Begin("prepare", "prep_integration", t)
    /\ UNCHANGED <<meetingVars, gitVars, pastVars>>

PrepareIntegration ==
    /\ pc = "prep_integration"
    /\ integ' = [integ EXCEPT !.exists = TRUE]
    /\ Goto("prep_worktree")
    /\ UNCHANGED <<meetingVars, wt, main, pastVars>>

\* get_or_create_task: create it, or accept the one that is there.  A
\* worktree the log does not know must be as its creation left it.
MayReuse(t) ==
    /\ wt[t] # None
    /\ wt[t].own
    /\ base[t] \/ wt[t] = UntouchedWorktree

PrepareWorktree ==
    /\ pc = "prep_worktree"
    /\ \/ /\ wt[cur] = None
          /\ ~base[cur]
          /\ wt' = [wt EXCEPT ![cur] = UntouchedWorktree]
       \/ /\ MayReuse(cur)
          /\ UNCHANGED wt
    /\ Goto("prep_accept")
    /\ UNCHANGED <<meetingVars, integ, main, pastVars>>

PrepareAccept ==
    /\ pc = "prep_accept"
    /\ IF status[cur] = "assigned"
         THEN SetStatus(cur, "accepted")
         ELSE UNCHANGED status
    /\ Goto("prep_record")
    /\ UNCHANGED <<phase, report, valid, approval, approvedId, base,
                   mergeCommit, combinedValid, gitVars, pastVars>>

\* record_task_worktree, unless the log has the record already.
PrepareRecord ==
    /\ pc = "prep_record"
    /\ base' = [base EXCEPT ![cur] = TRUE]
    /\ Finish
    /\ UNCHANGED <<phase, status, report, valid, approval, approvedId,
                   mergeCommit, combinedValid, gitVars, pastVars>>

RetryTask(t) ==
    /\ Atomic
    /\ status[t] \in {"blocked", "failed"}
    /\ base[t]
    /\ wt[t] # None
    /\ MayBecome(t, "accepted")
    /\ SetStatus(t, "accepted")
    /\ UNCHANGED <<phase, report, valid, approval, approvedId, base,
                   mergeCommit, combinedValid, gitVars, pastVars>>

-----------------------------------------------------------------------------
(* task-report and task-execute: run, report, verify, mark ready. *)

BeginReport(t) ==
    /\ Idle
    /\ wt[t] # None
    /\ status[t] \in {"accepted", "running"}
    /\ SetStatus(t, "running")
    /\ Begin("report", "submit", t)
    /\ UNCHANGED <<phase, report, valid, approval, approvedId, base,
                   mergeCommit, combinedValid, gitVars, pastVars>>

BeginExecute(t) ==
    /\ Idle
    /\ wt[t] # None
    /\ status[t] = "accepted"
    /\ SetStatus(t, "running")
    /\ Begin("execute", "submit", t)
    /\ UNCHANGED <<phase, report, valid, approval, approvedId, base,
                   mergeCommit, combinedValid, gitVars, pastVars>>

\* task-report stops here when no base is recorded; task-execute goes on and
\* compares with HEAD.
AfterReport(r) ==
    IF r.human THEN "block"
    ELSE IF base[cur] \/ op = "execute" THEN "scope" ELSE "idle"

SubmitReport(r) ==
    /\ pc = "submit"
    /\ report' = [report EXCEPT ![cur] = r]
    /\ IF AfterReport(r) = "idle" THEN Finish ELSE Goto(AfterReport(r))
    /\ UNCHANGED <<phase, status, valid, approval, approvedId, base,
                   mergeCommit, combinedValid, gitVars, pastVars>>

\* The second append of submit_task_report.
BlockOnHuman ==
    /\ pc = "block"
    /\ MayBecome(cur, "blocked")
    /\ SetStatus(cur, "blocked")
    /\ Finish
    /\ UNCHANGED <<phase, report, valid, approval, approvedId, base,
                   mergeCommit, combinedValid, gitVars, pastVars>>

\* The worker fails, or its report or validation does: worker.failed, and the
\* task is failed unless it has left the running status.
WorkerFails ==
    /\ op = "execute"
    /\ IF status[cur] = "running"
         THEN SetStatus(cur, "failed")
         ELSE UNCHANGED status
    /\ Finish
    /\ UNCHANGED <<phase, report, valid, approval, approvedId, base,
                   mergeCommit, combinedValid, gitVars, pastVars>>

\* changed_files: since the recorded base, else since HEAD.
Changed(t) ==
    IF base[t] \/ wt[t].tree # wt[t].head.tree
    THEN {wt[t].tree, wt[t].head.tree} \ {Clean}
    ELSE {}

\* verify_task, first half: the changed files against scope and report.
CheckScope ==
    /\ pc = "scope"
    /\ scopeOk' = (/\ Changed(cur) \subseteq InScope
                   /\ report[cur].declared = Changed(cur))
    /\ pc' = "checks"
    /\ UNCHANGED <<op, cur, source, meetingVars, gitVars, pastVars>>

\* verify_task, second half: the commands have run, the identity is taken,
\* and record_validation appends the result.
RunChecks(ok) ==
    /\ pc = "checks"
    /\ LET passed == ok /\ scopeOk
       IN  /\ valid' = [valid EXCEPT ![cur] =
                  [passed |-> passed, id |-> wt[cur], report |-> report[cur]]]
           /\ validated' = IF passed
                           THEN validated \cup {<<cur, wt[cur].tree>>}
                           ELSE validated
    /\ Goto(IF op = "integrate" THEN "confirm" ELSE "ready")
    /\ UNCHANGED <<phase, status, report, approval, approvedId, base,
                   mergeCommit, combinedValid, gitVars, granted, combined>>

\* assert_task_verified
Verified(t) == valid[t] # None /\ valid[t].passed

\* The guards of mark_task_ready.
HasReadyEvidence(t) ==
    /\ report[t] # None
    /\ ~report[t].human
    /\ Verified(t)

MarkReady(t) ==
    /\ HasReadyEvidence(t)
    /\ MayBecome(t, "ready_for_report")
    /\ SetStatus(t, "ready_for_report")
    /\ UNCHANGED <<phase, report, valid, approval, approvedId, base,
                   mergeCommit, combinedValid, gitVars, pastVars>>

FinishReady == pc = "ready" /\ MarkReady(cur) /\ Finish

\* task-ready
TaskReady(t) == Atomic /\ MarkReady(t)

-----------------------------------------------------------------------------
(* task-request-approval, approve, reject: one append each. *)

Reviewable(t) == status[t] \in {"ready_for_report", "in_review"}

RequestApproval(t) ==
    /\ Atomic
    /\ Reviewable(t)
    /\ approval' = [approval EXCEPT ![t] = "pending"]
    /\ UNCHANGED <<phase, status, report, valid, approvedId, base,
                   mergeCommit, combinedValid, gitVars, pastVars>>

\* The decision binds the identity of the last recorded validation, whatever
\* the worktree has become since.
Approve(t) ==
    /\ Atomic
    /\ approval[t] = "pending"
    /\ Verified(t)
    /\ approval' = [approval EXCEPT ![t] = "approved"]
    /\ approvedId' = [approvedId EXCEPT ![t] = valid[t].id]
    /\ granted' = granted \cup {<<t, valid[t].id.tree>>}
    /\ UNCHANGED <<phase, status, report, valid, base, mergeCommit,
                   combinedValid, gitVars, validated, combined>>

Reject(t) ==
    /\ Atomic
    /\ approval[t] = "pending"
    /\ approval' = [approval EXCEPT ![t] = "rejected"]
    /\ approvedId' = [approvedId EXCEPT ![t] = None]
    /\ UNCHANGED <<phase, status, report, valid, base, mergeCommit,
                   combinedValid, gitVars, pastVars>>

-----------------------------------------------------------------------------
(* task-integrate: verify again, check the approval, snapshot, merge, record. *)

PolicyAllows(t) == Manual => approval[t] = "approved"

BeginIntegrate(t) ==
    /\ Idle
    /\ PolicyAllows(t)
    /\ integ' = [integ EXCEPT !.exists = TRUE]
    /\ IF wt[t] # None /\ report[t] # None /\ base[t]
         THEN Begin("integrate", "scope", t)
         ELSE Finish
    /\ UNCHANGED <<meetingVars, wt, main, pastVars>>

\* The approval binds an identity, not a task.
ApprovalBinds(t) == Manual => approvedId[t] = valid[t].id

\* integrate: _assert_identity on the task worktree.
ConfirmIdentity ==
    /\ pc = "confirm"
    /\ Verified(cur)
    /\ Reviewable(cur)
    /\ ApprovalBinds(cur)
    /\ wt[cur] = valid[cur].id
    /\ wt[cur].own
    /\ Goto("snapshot")
    /\ UNCHANGED <<meetingVars, gitVars, pastVars>>

\* What the task branch looks like once the worktree is committed.
Committed(w) ==
    IF w.tree = w.head.tree
    THEN w
    ELSE [w EXCEPT !.head = [n |-> w.head.n + 1, tree |-> w.tree]]

\* Uncommitted work is committed on the branch that is checked out.
Snapshot ==
    /\ pc = "snapshot"
    /\ Committed(wt[cur]).head.n <= MaxCommits
    /\ wt' = [wt EXCEPT ![cur] = Committed(@)]
    /\ Goto("source")
    /\ UNCHANGED <<meetingVars, integ, main, pastVars>>

\* rev-parse HEAD: the commit that will be merged.
ReadSource ==
    /\ pc = "source"
    /\ source' = wt[cur].head
    /\ pc' = "tree"
    /\ UNCHANGED <<op, cur, scopeOk, meetingVars, gitVars, pastVars>>

\* rev-parse HEAD^{tree} and the branch, read by later Git calls.
SnapshotIsValidated(t) ==
    /\ wt[t].head.tree = valid[t].id.tree
    /\ wt[t].own

CheckSource ==
    /\ pc = "tree"
    /\ SnapshotIsValidated(cur)
    /\ Goto("merge")
    /\ UNCHANGED <<meetingVars, gitVars, pastVars>>

\* git merge --no-ff of that commit.  A conflict aborts the merge (Stop).
MergeTask ==
    /\ pc = "merge"
    /\ integ' = [integ EXCEPT !.head = @ \cup {[task |-> cur, commit |-> source]}]
    /\ Goto("record")
    /\ UNCHANGED <<meetingVars, wt, main, pastVars>>

\* record_task_integration: the event also voids the combined result.
RecordIntegration ==
    /\ pc = "record"
    /\ Reviewable(cur)
    /\ Verified(cur)
    /\ SetStatus(cur, "integrated")
    /\ mergeCommit' = [mergeCommit EXCEPT ![cur] = integ.head]
    /\ combinedValid' = None
    /\ Finish
    /\ UNCHANGED <<phase, report, valid, approval, approvedId, base, gitVars,
                   pastVars>>

-----------------------------------------------------------------------------
(* task-promote: verify the combination, merge it into main, close tasks. *)

\* integrated_validation_commands: whose checks the promotion runs.
ChecksOfPromotion == {t \in Task : status[t] = "integrated"}

BeginPromote ==
    /\ Idle
    /\ integ' = [integ EXCEPT !.exists = TRUE]
    /\ Begin("promote", "combine", None)
    /\ UNCHANGED <<meetingVars, wt, main, pastVars>>

\* verify_integration and record_integration_validation.  Without commands
\* there is nothing to fail; the commands, or somebody, may have left files in
\* the worktree that are not committed.
VerifyCombination(ok, clean) ==
    /\ pc = "combine"
    /\ ChecksOfPromotion = {} => ok
    /\ clean \/ "integration" \in Disturbances
    /\ combinedValid' = [passed |-> ok, head |-> integ.head,
                         clean |-> clean, ran |-> ChecksOfPromotion]
    /\ combined' = IF ok /\ clean
                   THEN combined \cup {[head |-> integ.head, ran |-> ChecksOfPromotion]}
                   ELSE combined
    /\ Goto("merge_main")
    /\ UNCHANGED <<phase, status, report, valid, approval, approvedId, base,
                   mergeCommit, gitVars, validated, granted>>

\* The identity check of promote: the verified head, still checked out, and a
\* tree that is the committed one.  When the worktree has changed since, the
\* check raises (Stop).  Nothing is asked of the target branch but that its
\* checkout is clean.
CombinationIsCurrent ==
    /\ combinedValid.passed
    /\ integ.head = combinedValid.head
    /\ combinedValid.clean

\* git merge --no-ff of the verified head into whatever the target branch has
\* become.  A conflict aborts the merge (Stop).
MergeMain ==
    /\ pc = "merge_main"
    /\ CombinationIsCurrent
    /\ main' = main \cup combinedValid.head
    /\ Goto("close_tasks")
    /\ UNCHANGED <<meetingVars, wt, integ, pastVars>>

CloseTask(t) ==
    /\ pc = "close_tasks"
    /\ status[t] = "integrated"
    /\ SetStatus(t, "merged")
    /\ UNCHANGED <<phase, report, valid, approval, approvedId, base,
                   mergeCommit, combinedValid, gitVars, localVars, pastVars>>

\* The meeting completes if its phase may; otherwise transition_phase raises,
\* after the merge.
CompleteMeeting ==
    /\ pc = "close_tasks"
    /\ ChecksOfPromotion = {}
    /\ phase' = IF "completed" \in PhaseTransitions[phase]
                THEN "completed" ELSE phase
    /\ Finish
    /\ UNCHANGED <<status, report, valid, approval, approvedId, base,
                   mergeCommit, combinedValid, gitVars, pastVars>>

-----------------------------------------------------------------------------
(* What happens to the worktrees outside the commands' control. *)

\* Somebody changes, commits or leaves the branch of a task worktree.
Disturb(t) ==
    /\ wt[t] # None
    /\ t = cur => pc \in Exposed
    /\ \/ /\ "edit" \in Disturbances
          /\ \E c \in Content : wt' = [wt EXCEPT ![t].tree = c]
       \/ /\ "commit" \in Disturbances
          /\ wt[t].head.n < MaxCommits
          /\ wt' = [wt EXCEPT ![t] = Committed(@)]
       \/ /\ "branch" \in Disturbances
          /\ wt' = [wt EXCEPT ![t].own = ~@]
    /\ UNCHANGED <<integ, main, meetingVars, localVars, pastVars>>

\* Another meeting or a person adds a commit to the target branch, which the
\* integration branch does not have.
AdvanceMain ==
    /\ "main" \in Disturbances
    /\ integ.exists
    /\ \E o \in Other : main' = main \cup {o}
    /\ UNCHANGED <<wt, integ, meetingVars, localVars, pastVars>>

-----------------------------------------------------------------------------

Command ==
    \/ "run" \in Commands /\ StartMeeting
    \/ "phase" \in Commands /\ \E p \in OperatorPhases : ChangePhase(p)
    \/ \E t \in Task :
          \/ "create"    \in Commands /\ ProposeTask(t)
          \/ "prepare"   \in Commands /\ BeginPrepare(t)
          \/ "retry"     \in Commands /\ RetryTask(t)
          \/ "report"    \in Commands /\ BeginReport(t)
          \/ "execute"   \in Commands /\ BeginExecute(t)
          \/ "ready"     \in Commands /\ TaskReady(t)
          \/ "request"   \in Commands /\ RequestApproval(t)
          \/ "approve"   \in Commands /\ Approve(t)
          \/ "reject"    \in Commands /\ Reject(t)
          \/ "integrate" \in Commands /\ BeginIntegrate(t)
    \/ "promote" \in Commands /\ BeginPromote

Progress ==
    \/ AssignTask
    \/ PrepareIntegration \/ PrepareWorktree \/ PrepareAccept \/ PrepareRecord
    \/ \E r \in Reports : SubmitReport(r)
    \/ BlockOnHuman \/ WorkerFails
    \/ CheckScope
    \/ \E ok \in BOOLEAN : RunChecks(ok)
    \/ FinishReady
    \/ ConfirmIdentity \/ Snapshot \/ ReadSource \/ CheckSource
    \/ MergeTask \/ RecordIntegration
    \/ \E ok, clean \in BOOLEAN : VerifyCombination(ok, clean)
    \/ MergeMain
    \/ \E t \in Task : CloseTask(t)
    \/ CompleteMeeting

Outside == (\E t \in Task : Disturb(t)) \/ AdvanceMain

Next == Command \/ Progress \/ Stop \/ Outside

Spec == Init /\ [][Next]_vars

-----------------------------------------------------------------------------
(* Properties. *)

\* A task's status changes only along _TASK_TRANSITIONS, whichever of the
\* commands, of the worker's failure path or of the integration record (which
\* does not consult the table) makes the change.
StatusFollowsTable ==
    [][\A t \in Task : status'[t] # status[t] =>
          IF status[t] = Absent
          THEN status'[t] = "proposed"
          ELSE status'[t] \in TaskTransitions[status[t]]]_status

\* What the target branch holds of this meeting.
Delivered == main \ Other

\* The log never claims a merge that Git does not have: an integrated task is
\* on the integration branch and a merged one on main, wherever a crash fell.
LogNeverAheadOfGit ==
    \A t \in Task :
        /\ status[t] \in {"integrated", "merged"} =>
              /\ mergeCommit[t] \subseteq integ.head
              /\ \E s \in mergeCommit[t] : s.task = t
        /\ status[t] = "merged" => \E s \in Delivered : s.task = t

\* Every task commit on the integration branch has a tree that a passing
\* validation of that task observed.
MergedIsValidated ==
    \A s \in integ.head : <<s.task, s.commit.tree>> \in validated

\* Under the manual policy every task commit on the integration branch has a
\* tree the operator approved for that task.
MergedIsApproved ==
    Manual => \A s \in integ.head : <<s.task, s.commit.tree>> \in granted

\* What the target branch holds of this meeting is one head of the integration
\* branch that passed the combined validation as a whole, in a worktree with
\* nothing uncommitted.  It says nothing of the commits of others: promote merges
\* that head into whatever the branch has become, and nobody runs the checks on
\* the result.
MainHoldsVerifiedHead ==
    Delivered # {} => \E v \in combined : v.head = Delivered

\* A task is closed only after its own checks passed on a combination that
\* contains it and that main contains.
ClosedTaskWasChecked ==
    \A t \in Task : status[t] = "merged" =>
        \E v \in combined :
            /\ t \in v.ran
            /\ v.head \subseteq Delivered
            /\ \E s \in v.head : s.task = t

\* A task past the ready gate has a report that asks nothing of a human: the
\* blocked status is not left through the side door.
ReadyTaskIsAnswered ==
    \A t \in Task : status[t] \in {"ready_for_report", "integrated", "merged"} =>
        /\ report[t] # None
        /\ ~report[t].human

\* A commit that enters the integration branch rests on what the log has in
\* force at that moment, not on what once held: the task's validation passed, saw
\* that tree, and was compared with the report now on record, although task-ready
\* accepts an older one; and under the manual policy the task's approval is
\* granted for that tree, although a new request leaves the identity of an
\* earlier approval in the state.
MergeRestsOnRecordInForce ==
    [][\A s \in integ.head' \ integ.head :
          LET t == s.task
          IN  /\ Verified(t)
              /\ valid[t].id.tree = s.commit.tree
              /\ valid[t].report = report[t]
              /\ Manual => /\ approval[t] = "approved"
                           /\ approvedId[t] # None
                           /\ approvedId[t].tree = s.commit.tree]_integ

\* A recorded combined result covers every task recorded as integrated: one
\* taken before a later integration is void.
CombinedResultIsCurrent ==
    combinedValid # None => ChecksOfPromotion \subseteq combinedValid.ran

\* A passing validation of a prepared task observed a tree within its
\* allowed paths.
ValidatedIsInScope ==
    \A t \in Task : base[t] /\ Verified(t) =>
        valid[t].id.tree \in InScope \cup {Clean}

\* The workflow implements the delivery gate: each step validates, approves,
\* integrates or promotes as the gate allows, or leaves it alone.
Gate == INSTANCE DeliveryGate WITH integrated <- integ.head, main <- Delivered

ImplementsGate == Gate!GateSpec

\* The phase changes only along _PHASE_TRANSITIONS, and a promotion does not
\* reopen or override a meeting that is over.
PhaseFollowsTable ==
    [][phase' # phase => phase' \in PhaseTransitions[phase]]_phase

\* docs/audit.md: promotion reruns the checks of every integrated task.
PromotionRunsEveryCheck ==
    \A s \in Delivered : \E v \in combined : v.head = Delivered /\ s.task \in v.ran

\* docs/audit.md: approval rechecks the Git identity that was validated before it
\* acts.
ApprovalRechecksWorktree ==
    [][\A t \in Task : approval[t] = "pending" /\ approval'[t] = "approved" =>
          wt[t] = valid[t].id]_approval

=============================================================================
