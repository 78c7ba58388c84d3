------------------------------ MODULE Experiment ------------------------------
(***************************************************************************)
(* The comparative experiment: a preflight, then runs of the arms of one   *)
(* block.  A run has three slots, an analyst, a second deliberation and an *)
(* executor whose report is verified and whose work is scored; it ends     *)
(* with a manifest of one execution status.  The five-arm command runs     *)
(* every arm once, in some order, and writes what became of the block; a   *)
(* single run may be added to it under the same pair.  The analysis        *)
(* compares two arms over the manifests of the block.                      *)
(*                                                                         *)
(* The runner is one coroutine: it can be cancelled where it awaits a      *)
(* session, any append to its event log may raise, and the process may be  *)
(* killed, which leaves a manifest that says it is running.                *)
(***************************************************************************)
EXTENDS WorkerSession, MeetingTables, SandboxPreflight

CONSTANTS
    Arm,          \* the conditions of the block
    Baseline,     \* the two that are compared
    Comparison,
    MaxRuns       \* bound on the runs of the block

ASSUME ArmAssumption == Baseline \in Arm /\ Comparison \in Arm /\ Baseline # Comparison
ASSUME RunsAssumption == MaxRuns \in Nat

VARIABLES
    sandbox,    \* what codex's sandbox really does
    pc,         \* where the experiment is
    slot,       \* the slot of the run under way
    failure,    \* the exception it is handling
    task, phase, validation, score,   \* its meeting
    status, execution, success,       \* its outcome so far
    runs,       \* the manifests, in the order they were created
    block,      \* the five-arm command and the block file it writes
    todo        \* the arms it has still to run

runVars == <<slot, failure, task, phase, validation, score, status, execution, success>>
blockVars == <<block, todo>>
vars == <<sessionVars, sandbox, pc, runVars, runs, blockVars>>

ExecutionStatus ==
    {"infra_error", "budget_timeout", "validation_failure", "protocol_failure",
     "human_input_required", "scorer_error", "valid_submission", "valid_noop"}

Valid == {"valid_submission", "valid_noop"}

\* What a manifest holds of the run for the analysis.
Manifest ==
    [arm |-> runs[Len(runs)].arm, status |-> status, execution |-> execution,
     validation |-> validation, score |-> score]

Run == [arm : Arm, status : {"running"}]
         \cup [arm : Arm, status : {"failed", "completed"}, execution : ExecutionStatus,
               validation : {"none", "passed", "failed"}, score : {"none", "invalid", "bad", "good"}]

RunInit ==
    /\ slot = 0 /\ failure = "none" /\ task = Absent /\ phase = "preparing"
    /\ validation = "none" /\ score = "none"
    /\ status = "failed" /\ execution = "infra_error" /\ success = "no"

TypeOK ==
    /\ SessionTypeOK
    /\ sandbox \in Sandbox
    /\ pc \in {"preflight", "refused", "between", "setup", "slot", "verifying", "scoring",
              "costing", "failing", "closing"}
    /\ slot \in 0..MaxSessions
    /\ failure \in (Verdict \ {"ok"}) \cup {"protocol", "human", "validation", "handled"}
    /\ task \in TaskStatus \cup {Absent}
    /\ phase \in MeetingPhase
    /\ validation \in {"none", "passed", "failed"}
    /\ score \in {"none", "invalid", "bad", "good"}
    /\ status \in {"failed", "completed"}
    /\ execution \in ExecutionStatus
    /\ success \in {"no", "yes"}
    /\ runs \in Seq(Run)
    /\ block \in {"none", "open", "abandoned", "invalid", "completed"}
    /\ todo \subseteq Arm

Init ==
    /\ SessionInit
    /\ sandbox \in Sandbox
    /\ pc = "preflight"
    /\ RunInit
    /\ runs = <<>>
    /\ block = "none" /\ todo = {}

-----------------------------------------------------------------------------
(* Faulty variants of definitions below, each a slip the code could contain. *)

\* A scorer's output that is taken at its word.
ScoresAnything ==
    /\ pc = "scoring"
    /\ pc' = "costing"
    /\ score' \in {"invalid", "bad", "good"}
    /\ success' = IF score' = "bad" THEN "no" ELSE "yes"
    /\ execution' \in Valid
    /\ UNCHANGED <<sessionVars, sandbox, slot, failure, task, phase, validation, status, runs,
                   blockVars>>

\* A five-arm command that goes on with the next arm.
CarriesOn == UNCHANGED block

\* An analysis that looks for failures among the failed runs.
FailedRunIsInvalid == \E i \in DOMAIN runs : runs[i].status = "failed" /\ runs[i].execution = "infra_error"

-----------------------------------------------------------------------------
\* The preflight passes, or the command ends with exit status 2.
Preflight ==
    /\ pc = "preflight"
    /\ \E reports \in {{}, Probe} :
          pc' = IF WorkerReady(sandbox, reports) THEN "between" ELSE "refused"
    /\ UNCHANGED <<sessionVars, sandbox, runVars, runs, blockVars>>

\* experiment-five-arm shuffles the arms.
StartsBlock ==
    /\ pc = "between"
    /\ block = "none"
    /\ block' = "open" /\ todo' = Arm
    /\ UNCHANGED <<sessionVars, sandbox, pc, runVars, runs>>

\* A run: governor, manifest and outcome are created anew.
NewRun(arm) ==
    /\ pc = "between"
    /\ Len(runs) < MaxRuns
    /\ session \in {"none", "ended"}
    /\ IF block = "open" THEN arm \in todo /\ todo' = todo \ {arm} ELSE UNCHANGED todo
    /\ pc' = "setup"
    /\ slot' = 0 /\ failure' = "none" /\ task' = Absent /\ phase' = "preparing"
    /\ validation' = "none" /\ score' = "none"
    /\ status' = "failed" /\ execution' = "infra_error" /\ success' = "no"
    /\ session' = "none" /\ verdict' = "none" /\ leader' = "none" /\ child' = "none"
    /\ active' = "no" /\ sessions' = 0 /\ finished' = 0
    /\ usage' = [m \in Model |-> 0] /\ rates' \in SUBSET Model
    /\ runs' = Append(runs, [arm |-> arm, status |-> "running"])
    /\ UNCHANGED <<sandbox, faults, block>>

\* The clone, the meeting and the accepted task; anything may raise.
SetsUp ==
    /\ pc = "setup"
    /\ \/ /\ pc' = "slot"
          /\ slot' = 1
          /\ session' = "starting"
          /\ task' = "accepted" /\ phase' = "discussing"
          /\ UNCHANGED failure
       \/ /\ pc' = "failing"
          /\ failure' = "error"
          /\ phase' \in {"preparing", "discussing"}
          /\ UNCHANGED <<slot, session, task>>
    /\ UNCHANGED <<verdict, leader, child, active, sessions, finished, usage, rates, faults, sandbox,
                   validation, score, status, execution, success, runs, blockVars>>

\* The model of the slot: the planner's deliberate, the executor's works.
SlotModel == IF slot = MaxSessions THEN "executor" ELSE "planner"

SessionStep ==
    /\ WorkerStep(SlotModel)
    /\ UNCHANGED <<sandbox, pc, runVars, runs, blockVars>>

\* An exception: execute_worker_task fails a running task on its way out.
Raises(kind) ==
    /\ pc' = "failing"
    /\ failure' = kind
    /\ task' = IF task = "running" THEN "failed" ELSE task

\* A deliberation ended with a memo, which is shared, and the next slot starts;
\* before the executor's the meeting starts executing and the task runs.
NextSlot ==
    /\ pc = "slot"
    /\ session = "ended" /\ verdict = "ok"
    /\ slot < MaxSessions
    /\ \/ /\ slot' = slot + 1
          /\ session' = "starting" /\ verdict' = "none"
          /\ leader' = "none" /\ child' = "none"
          /\ phase' = IF slot' = MaxSessions THEN "executing" ELSE phase
          /\ task' = IF slot' = MaxSessions THEN "running" ELSE task
          /\ UNCHANGED <<pc, failure, faults>>
       \/ Raises("protocol") /\ UNCHANGED <<slot, session, verdict, leader, child, phase, faults>>
       \/ StoreFails /\ Raises("error") /\ UNCHANGED <<slot, session, verdict, leader, child, phase>>
    /\ UNCHANGED <<active, sessions, finished, usage, rates, sandbox, validation, score, status,
                   execution, success, runs, blockVars>>

\* The executor ended with a report: the task is blocked on it, or verified.
Reports ==
    /\ pc = "slot"
    /\ session = "ended" /\ verdict = "ok"
    /\ slot = MaxSessions
    /\ \/ Raises("protocol")
       \/ task' = "blocked" /\ pc' = "failing" /\ failure' = "human"
       \/ pc' = "verifying" /\ UNCHANGED <<task, failure>>
    /\ UNCHANGED <<sessionVars, sandbox, slot, phase, validation, score, status, execution,
                   success, runs, blockVars>>

\* The session's exception, unless recording worker.failed raises another one
\* and leaves the task running.
SessionRaises ==
    /\ pc = "slot"
    /\ session \in {"ended", "orphaned"}
    /\ verdict \notin {"none", "ok"}
    /\ \/ Raises(verdict) /\ UNCHANGED faults
       \/ /\ StoreFails
          /\ slot = MaxSessions
          /\ pc' = "failing" /\ failure' = "error"
          /\ UNCHANGED task
    /\ UNCHANGED <<session, verdict, leader, child, active, sessions, finished, usage, rates, sandbox,
                   slot, phase, validation, score, status, execution, success, runs, blockVars>>

\* verify_task, mark_task_ready and the phase; a record that raises hides the
\* validation from the outcome until the task is ready.
Verifies ==
    /\ pc = "verifying"
    /\ \/ /\ validation' = "passed"
          /\ task' = "ready_for_report"
          /\ \/ phase' = "reporting" /\ pc' = "scoring" /\ UNCHANGED <<failure, faults>>
             \/ StoreFails /\ pc' = "failing" /\ failure' = "error" /\ UNCHANGED phase
       \/ /\ validation' = "failed"
          /\ Raises("validation")
          /\ UNCHANGED <<phase, faults>>
       \/ /\ StoreFails
          /\ Raises("error")
          /\ UNCHANGED <<validation, phase>>
    /\ UNCHANGED <<session, verdict, leader, child, active, sessions, finished, usage, rates, sandbox,
                   slot, score, status, execution, success, runs, blockVars>>

\* The scorer's verdict and what it makes of the run, or an exception out of _score.
Scores ==
    /\ pc = "scoring"
    /\ \/ /\ pc' = "costing"
          /\ score' \in {"invalid", "bad", "good"}
          /\ success' = IF score' = "good" THEN "yes" ELSE "no"
          /\ IF score' = "invalid" THEN execution' = "scorer_error" ELSE execution' \in Valid
          /\ UNCHANGED <<failure, task>>
       \/ Raises("error") /\ UNCHANGED <<score, success, execution>>
    /\ UNCHANGED <<sessionVars, sandbox, slot, phase, validation, status, runs, blockVars>>

\* The cost, if it can be estimated, is beyond its cap.
OverCap == Estimated /\ Cost > CostCap

\* The post-hoc cost cap decides; the status is set before the phase moves.
ChecksCost ==
    /\ pc = "costing"
    /\ IF OverCap
       THEN /\ execution' = "budget_timeout" /\ success' = "no"
            /\ UNCHANGED status
       ELSE /\ status' = "completed"
            /\ UNCHANGED <<execution, success>>
    /\ \/ /\ phase' = IF OverCap THEN "budget_exhausted" ELSE "deciding"
          /\ pc' = "closing"
          /\ UNCHANGED <<failure, task, faults>>
       \/ StoreFails /\ Raises("error") /\ UNCHANGED phase
    /\ UNCHANGED <<session, verdict, leader, child, active, sessions, finished, usage, rates, sandbox,
                   slot, validation, score, runs, blockVars>>

\* The except clauses of run: the execution status of each kind of exception,
\* and the phase; recording that may raise out of the clause.  A cancellation
\* has no clause and is raised as well.
Handles ==
    /\ pc = "failing"
    /\ pc' = "closing"
    /\ execution' = CASE failure \in {"timeout", "budget"} -> "budget_timeout"
                      [] failure = "validation" -> "validation_failure"
                      [] failure = "protocol" -> "protocol_failure"
                      [] failure = "human" -> "human_input_required"
                      [] failure \in {"infra", "error"} -> "infra_error"
                      [] failure = "cancelled" -> execution
    /\ LET to == IF failure \in {"timeout", "budget"} THEN "budget_exhausted" ELSE "failed"
       IN \/ /\ failure # "cancelled"
             /\ to \in PhaseTransitions[phase]
             /\ phase' = to
             /\ failure' = "handled"
             /\ UNCHANGED faults
          \/ failure # "cancelled" /\ StoreFails /\ UNCHANGED <<failure, phase>>
          \/ failure = "cancelled" /\ UNCHANGED <<failure, phase, faults>>
    /\ UNCHANGED <<session, verdict, leader, child, active, sessions, finished, usage, rates, sandbox,
                   slot, task, validation, score, status, success, runs, blockVars>>

\* The command of an aborted run ends, and the block with it.
Abandon == block' = IF block = "open" THEN "abandoned" ELSE block

\* The manifest is completed and written, whatever is being raised.
Closes ==
    /\ pc = "closing"
    /\ pc' = "between"
    /\ runs' = [runs EXCEPT ![Len(runs)] = Manifest]
    /\ IF failure \in {"none", "handled"} THEN UNCHANGED block ELSE Abandon
    /\ UNCHANGED <<sessionVars, sandbox, runVars, todo>>

\* The process is killed, or closing the event store raises: the manifest is
\* left as it was created.  The worker lives on.
Crashes ==
    /\ pc \notin {"preflight", "refused", "between"}
    /\ pc' = "between"
    /\ session' = "ended"
    /\ Abandon
    /\ UNCHANGED <<verdict, leader, child, active, sessions, finished, usage, rates, faults, sandbox,
                   runVars, runs, todo>>

\* Infrastructure and scorer failures, which invalidate a block.
Invalidating == {"infra_error", "scorer_error"}

\* Every arm of the command has a manifest: the block file is written.
WritesBlock ==
    /\ pc = "between"
    /\ block = "open" /\ todo = {}
    /\ LET first == Len(runs) - Cardinality(Arm) + 1
           bad == \E i \in first..Len(runs) : runs[i].status # "running" /\ runs[i].execution \in Invalidating
       IN block' = IF bad THEN "invalid" ELSE "completed"
    /\ UNCHANGED <<sessionVars, sandbox, pc, runVars, runs, todo>>

Next ==
    \/ Preflight \/ StartsBlock \/ WritesBlock
    \/ \E arm \in Arm : NewRun(arm)
    \/ SetsUp \/ SessionStep \/ NextSlot \/ Reports \/ SessionRaises
    \/ Verifies \/ Scores \/ ChecksCost \/ Handles \/ Closes \/ Crashes

Spec == Init /\ [][Next]_vars

-----------------------------------------------------------------------------
(* analyze_manifests over the manifests of the block. *)

\* A manifest without an outcome names no pair, and analysing it raises.
Analysed == \A i \in DOMAIN runs : runs[i].status # "running"

BlockInvalid == \E i \in DOMAIN runs : runs[i].execution \in Invalidating

\* The runs of two arms are matched in the order of their creation.
Earlier(i) == {j \in 1..i : runs[j].arm = runs[i].arm}

Matched ==
    {pair \in (DOMAIN runs) \X (DOMAIN runs) :
        /\ runs[pair[1]].arm = Baseline /\ runs[pair[2]].arm = Comparison
        /\ Cardinality(Earlier(pair[1])) = Cardinality(Earlier(pair[2]))}

Scorable(i) ==
    /\ runs[i].status = "completed"
    /\ runs[i].validation = "passed"
    /\ runs[i].score \in {"bad", "good"}

ScoredPairs ==
    IF Analysed /\ ~ BlockInvalid
    THEN {pair \in Matched : Scorable(pair[1]) /\ Scorable(pair[2])}
    ELSE {}

-----------------------------------------------------------------------------
(* A model is given only a sandbox that keeps every promise of both profiles, where
   the probe script ran and reported what it saw or did not report at all: a sandbox
   that hides a write from the host is found out on the host. *)
ModelsRunInSoundSandbox == session # "none" => Sound(sandbox)

(* A manifest that claims a valid run is written of a run that consumed all three
   slots and finished each, whose task was verified, whose scorer answered and
   whose cost stayed in its cap if the rates of its models are known; it claims the
   objective only if that was met. *)
ValidRunIsWhole ==
    pc = "closing" /\ execution \in Valid =>
        /\ status = "completed"
        /\ sessions = MaxSessions /\ finished = MaxSessions
        /\ task = "ready_for_report" /\ validation = "passed"
        /\ Estimated => Cost <= CostCap
        /\ score = IF success = "yes" THEN "good" ELSE "bad"

(* Only runs that are valid submissions enter a quality comparison, although a
   run may still fail after it was scored and called completed. *)
QualityComparesValidRuns ==
    \A p \in ScoredPairs :
        runs[p[1]].execution \in Valid /\ runs[p[2]].execution \in Valid

(* A block file that says completed is about a block in which every arm ran to
   its end and none failed for the infrastructure or the scorer, so that the
   analysis of those runs matches every one: an arm that was cancelled or killed
   leaves the block without a file. *)
CompletedBlockIsWhole ==
    block = "completed" =>
        \A arm \in Arm : \E i \in DOMAIN runs :
            /\ runs[i].arm = arm /\ runs[i].status # "running"
            /\ runs[i].execution \notin Invalidating

(* Verification and scoring look at a worktree in which the worker process has
   come to its end, and with it everything that held its output. *)
WorktreeIsQuiet == pc \in {"verifying", "scoring"} => PipesClosed

(* docs/audit.md: cancellation kills the process tree. *)
StoppedTreeIsDead == session = "draining" => leader # "alive" /\ child # "alive"

=============================================================================
