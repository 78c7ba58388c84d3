------------------------------- MODULE DirectRun -------------------------------
(***************************************************************************)
(* One direct stage-two run: the gate script starts the runner, which      *)
(* drives one arm through its model slots inside an app-server trial and   *)
(* writes the agent's result; the script discards a failed agent's work or *)
(* stops its container and runs the hidden verifier on what it left; the   *)
(* reward goes into a score file, from which the result is finalized.      *)
(*                                                                         *)
(* A model slot is seen from outside: it returns a typed output or raises, *)
(* and either way may leave a remote command running in the container, for *)
(* ending ssh ends no docker exec.  The script may be stopped between any  *)
(* two steps, and finalize may be run again by hand.                       *)
(***************************************************************************)
EXTENDS Naturals, Sequences, MeetingTables

CONSTANT
    MaxFinalize     \* bound on the runs of the finalize command

ASSUME FinalizeAssumption == MaxFinalize \in Nat

Slots(arm) == IF arm = "congress" THEN <<"analyst", "critic", "executor">> ELSE <<"executor">>

VARIABLES
    strategy,   \* of the arm
    slot,       \* slots started
    runner,     \* the runner process
    agent,      \* agent_status, held by the runner
    task, phase, verifications,   \* the meeting's state
    log,        \* events.db: open once a runtime is constructed over it
    container,  \* the agent's container
    remote,     \* whether a command runs in it
    gate,       \* where the script is
    score,      \* the score file
    verdict,    \* what the hidden verifier said
    result,     \* agent-result.json
    finalize,   \* where a finalize command is
    reward,     \* the reward it has read
    finalized   \* finalize commands started

meetingVars == <<task, phase, verifications, log>>
vmVars == <<container, remote>>
finalizeVars == <<finalize, reward, finalized>>
vars == <<strategy, slot, runner, agent, meetingVars, vmVars, gate, score, verdict, result, finalizeVars>>

AgentStatus == {"agent_failed", "agent_completed", "human_input_required"}
Reward == {0, 1}
Unscored == 2

\* A result that is absent has not been written, one that is none not finalized.
Result(status, objective) == [agent |-> agent, status |-> status, objective |-> objective]

TypeOK ==
    /\ strategy \in {"standalone", "congress"}
    /\ slot \in 0..3
    /\ runner \in {"none", "slot", "waiting", "failing", "closing", "exited", "raised"}
    /\ agent \in AgentStatus
    /\ task \in {Absent, "accepted", "running", "blocked", "failed"}
    /\ phase \in MeetingPhase
    /\ verifications \in Seq(Reward)
    /\ log \in {"absent", "empty", "open"}
    /\ container \in {"up", "stopped", "gone"}
    /\ remote \in {"none", "running"}
    /\ gate \in {"running", "stopping", "verifying", "scored", "finalizing", "done", "aborted"}
    /\ score \in Reward \cup {Unscored}
    /\ verdict \in Reward \cup {Unscored}
    /\ result \in [agent : AgentStatus, objective : {"no", "yes"},
                   status : {"absent", "none", "valid_submission", "valid_failure"} \cup AgentStatus]
    /\ finalize \in {"none", "recording", "failing", "deciding", "completing", "writing"}
    /\ reward \in Reward \cup {Unscored}
    /\ finalized \in 0..MaxFinalize

Init ==
    /\ strategy \in {"standalone", "congress"}
    /\ slot = 0 /\ runner = "none" /\ agent = "agent_failed"
    /\ task = Absent /\ phase = "preparing" /\ verifications = <<>> /\ log = "absent"
    /\ container = "up" /\ remote = "none"
    /\ gate = "running" /\ score = Unscored /\ verdict = Unscored
    /\ result = Result("absent", "no")
    /\ finalize = "none" /\ reward = Unscored /\ finalized = 0

-----------------------------------------------------------------------------
(* Faulty variants of definitions below, each a slip the code could contain. *)

\* A finalize that believes the reward whatever became of the agent.
ByReward == [agent |-> result.agent,
             status |-> IF reward = 1 THEN "valid_submission" ELSE "valid_failure",
             objective |-> IF reward = 1 THEN "yes" ELSE "no"]

\* A script that starts the verifier beside the agent's container.
StopsNothing ==
    /\ gate = "stopping"
    /\ gate' = "verifying"
    /\ UNCHANGED <<strategy, slot, runner, agent, meetingVars, vmVars, score, verdict, result,
                   finalizeVars>>

\* A finalize that writes its result before it records the verification.
ReadsAndWrites ==
    /\ finalize = "none"
    /\ finalized < MaxFinalize
    /\ result.status # "absent" /\ score # Unscored
    /\ finalized' = finalized + 1
    /\ reward' = score
    /\ finalize' = "writing"

-----------------------------------------------------------------------------
(* execute_arm inside the trial. *)

\* The trial is open; a congress arm constructs its runtime, starts its meeting and
\* accepts the task, or one of the appends, or the construction, raises.
StartsArm ==
    /\ gate = "running" /\ runner = "none"
    /\ \/ runner' = "slot" /\ strategy = "standalone" /\ UNCHANGED <<task, phase, log>>
       \/ /\ runner' = "slot" /\ strategy = "congress"
          /\ task' = "accepted" /\ phase' = "discussing" /\ log' = "open"
       \/ /\ runner' = "failing" /\ strategy = "congress"
          /\ phase' \in {"preparing", "discussing"} /\ log' = "open"
          /\ UNCHANGED task
       \/ /\ runner' = "failing" /\ strategy = "congress"
          /\ log' \in {"absent", "empty"}
          /\ UNCHANGED <<task, phase>>
    /\ UNCHANGED <<strategy, slot, agent, verifications, vmVars, gate, score, verdict, result,
                   finalizeVars>>

\* The next slot is awaited; the executor's task runs.
StartsSlot ==
    /\ runner = "slot"
    /\ slot < Len(Slots(strategy))
    /\ slot' = slot + 1
    /\ runner' = "waiting"
    /\ IF strategy = "congress" /\ slot' = 3 THEN task' = "running" /\ phase' = "executing"
       ELSE UNCHANGED <<task, phase>>
    /\ UNCHANGED <<strategy, agent, verifications, log, vmVars, gate, score, verdict, result,
                   finalizeVars>>

\* A slot's tool starts a command in the container, and a command ends there.
CommandStarts ==
    /\ runner = "waiting" /\ container = "up"
    /\ remote = "none"
    /\ remote' = "running"
    /\ UNCHANGED <<strategy, slot, runner, agent, meetingVars, container, gate, score, verdict,
                   result, finalizeVars>>

CommandEnds ==
    /\ remote = "running"
    /\ remote' = "none"
    /\ UNCHANGED <<strategy, slot, runner, agent, meetingVars, container, gate, score, verdict,
                   result, finalizeVars>>

\* The slot returns: a memo or a critic's report is shared, the executor's
\* report is submitted, which blocks a task that needs human input.
SlotReturns ==
    /\ runner = "waiting"
    /\ IF slot < Len(Slots(strategy))
       THEN runner' = "slot" /\ UNCHANGED <<agent, task, phase>>
       ELSE /\ runner' = "closing"
            /\ agent' \in {"agent_completed", "human_input_required"}
            /\ task' = IF strategy = "congress" /\ agent' # "agent_completed" THEN "blocked" ELSE task
            /\ phase' = IF strategy = "congress" THEN "reporting" ELSE phase
    /\ UNCHANGED <<strategy, slot, verifications, log, vmVars, gate, score, verdict, result,
                   finalizeVars>>

\* The slot raises, a cancellation included, what it returned is refused, or an
\* append raises, the one that leaves executing after the report among them.
SlotRaises ==
    /\ runner = "waiting"
    /\ runner' = "failing"
    /\ task' \in {task} \cup (IF strategy = "congress" /\ slot = 3 THEN {"blocked"} ELSE {})
    /\ UNCHANGED <<strategy, slot, agent, phase, verifications, log, vmVars, gate, score, verdict, result,
                   finalizeVars>>

\* The except clause: it fails the running task and the phase if there is a runtime,
\* and returns.
SwallowsFailure ==
    /\ runner = "failing"
    /\ runner' = "closing"
    /\ task' = IF task = "running" THEN "failed" ELSE task
    /\ phase' = IF "failed" \in PhaseTransitions[phase] /\ log = "open" THEN "failed" ELSE phase
    /\ UNCHANGED <<strategy, slot, agent, verifications, log, vmVars, gate, score, verdict, result,
                   finalizeVars>>

\* The log is exported and the trial closed, and the result is written; or one
\* of them raises and there is no result.
RunnerEnds ==
    /\ runner = "closing"
    /\ \/ runner' = "exited" /\ result' = Result("none", "no")
       \/ runner' = "raised" /\ UNCHANGED result
    /\ UNCHANGED <<strategy, slot, agent, meetingVars, vmVars, gate, score, verdict, finalizeVars>>

-----------------------------------------------------------------------------
(* The gate script. *)

\* A failed agent's container is removed and its score is 0.
DiscardsAgent ==
    /\ gate = "running" /\ runner = "exited"
    /\ result.agent # "agent_completed"
    /\ container' = "gone" /\ remote' = "none"
    /\ score' = 0
    /\ gate' = "scored"
    /\ UNCHANGED <<strategy, slot, runner, agent, meetingVars, verdict, result, finalizeVars>>

KeepsAgent ==
    /\ gate = "running" /\ runner = "exited"
    /\ result.agent = "agent_completed"
    /\ gate' = "stopping"
    /\ UNCHANGED <<strategy, slot, runner, agent, meetingVars, vmVars, score, verdict, result,
                   finalizeVars>>

\* docker stop ends every process of the container.
StopsContainer ==
    /\ gate = "stopping"
    /\ container' = "stopped" /\ remote' = "none"
    /\ gate' = "verifying"
    /\ UNCHANGED <<strategy, slot, runner, agent, meetingVars, score, verdict, result, finalizeVars>>

\* The verifier's reward; the trial's container is removed.
Verifies ==
    /\ gate = "verifying"
    /\ verdict' \in Reward
    /\ score' = verdict'
    /\ container' = "gone" /\ remote' = "none"
    /\ gate' = "scored"
    /\ UNCHANGED <<strategy, slot, runner, agent, meetingVars, result, finalizeVars>>

\* The script fails or is stopped: its cleanup kills the machine, and a runner
\* or finalize it had started dies with it.
Aborts ==
    /\ gate \notin {"done", "aborted"}
    /\ gate' = "aborted"
    /\ runner' = IF runner = "exited" THEN runner ELSE "raised"
    /\ container' = "gone" /\ remote' = "none"
    /\ finalize' = "none"
    /\ UNCHANGED <<strategy, slot, agent, meetingVars, score, verdict, result, reward, finalized>>

-----------------------------------------------------------------------------
(* finalize_run, started by the script or, once that has ended, by hand. *)

\* It reads the result and the score before it writes anything, and goes on to the
\* meeting if that has an events.db.
Reads ==
    /\ finalize = "none"
    /\ finalized < MaxFinalize
    /\ result.status # "absent" /\ score # Unscored
    /\ finalized' = finalized + 1
    /\ reward' = score
    /\ finalize' = IF strategy = "congress" /\ log # "absent" THEN "recording" ELSE "writing"

FinalizeStarts ==
    /\ gate \in {"scored", "done", "aborted"}
    /\ gate' = IF gate = "scored" THEN "finalizing" ELSE gate
    /\ Reads
    /\ UNCHANGED <<strategy, slot, runner, agent, meetingVars, vmVars, score, verdict, result>>

\* Each event is an append of its own.
FinalizeRecords ==
    /\ finalize = "recording"
    /\ verifications' = Append(verifications, reward)
    /\ finalize' = "failing"
    /\ UNCHANGED <<strategy, slot, runner, agent, task, phase, log, vmVars, gate, score, verdict, result,
                   reward, finalized>>

FinalizeFailsTask ==
    /\ finalize = "failing"
    /\ task' = IF task = "running" /\ reward = 0 THEN "failed" ELSE task
    /\ finalize' = IF phase = "reporting" THEN "deciding" ELSE "writing"
    /\ UNCHANGED <<strategy, slot, runner, agent, phase, verifications, log, vmVars, gate, score, verdict,
                   result, reward, finalized>>

FinalizeDecides ==
    /\ finalize = "deciding"
    /\ phase' = "deciding" /\ finalize' = "completing"
    /\ UNCHANGED <<strategy, slot, runner, agent, task, verifications, log, vmVars, gate, score, verdict,
                   result, reward, finalized>>

FinalizeCompletes ==
    /\ finalize = "completing"
    /\ phase' = "completed" /\ finalize' = "writing"
    /\ UNCHANGED <<strategy, slot, runner, agent, task, verifications, log, vmVars, gate, score, verdict,
                   result, reward, finalized>>

\* What the reward makes of the agent's result.
Outcome ==
    [agent |-> result.agent,
     status |-> IF result.agent # "agent_completed" THEN result.agent
                ELSE IF reward = 1 THEN "valid_submission" ELSE "valid_failure",
     objective |-> IF reward = 1 /\ result.agent = "agent_completed" THEN "yes" ELSE "no"]

FinalizeWrites ==
    /\ finalize = "writing"
    /\ result' = Outcome
    /\ finalize' = "none"
    /\ gate' = IF gate = "finalizing" THEN "done" ELSE gate
    /\ UNCHANGED <<strategy, slot, runner, agent, meetingVars, vmVars, score, verdict, reward, finalized>>

\* A finalize run by hand is killed.
FinalizeKilled ==
    /\ gate \in {"done", "aborted"}
    /\ finalize # "none"
    /\ finalize' = "none"
    /\ UNCHANGED <<strategy, slot, runner, agent, meetingVars, vmVars, gate, score, verdict, result,
                   reward, finalized>>

Next ==
    \/ StartsArm \/ StartsSlot \/ CommandStarts \/ CommandEnds
    \/ SlotReturns \/ SlotRaises \/ SwallowsFailure \/ RunnerEnds
    \/ DiscardsAgent \/ KeepsAgent \/ StopsContainer \/ Verifies \/ Aborts
    \/ FinalizeStarts \/ FinalizeRecords \/ FinalizeFailsTask \/ FinalizeDecides
    \/ FinalizeCompletes \/ FinalizeWrites \/ FinalizeKilled

Spec == Init /\ [][Next]_vars

-----------------------------------------------------------------------------
Final == result.status \notin {"absent", "none"}

(* The hidden verifier judges work that nothing is changing any more, although
   a slot that was cut short leaves its command running in the container. *)
VerifierRunsAlone == gate = "verifying" => remote = "none"

(* A result claims the objective only if the hidden verifier passed the work of
   an agent that completed, whatever was interrupted and finalized again. *)
ObjectiveIsVerified ==
    /\ result.objective = "yes" => verdict = 1 /\ result.agent = "agent_completed"
    /\ result.status \in {"valid_submission", "valid_failure"} => verdict \in Reward

(* A final result of a congress arm has its reward on the meeting's log, if the
   runner came as far as to create one, where every verification recorded tells of
   the same reward, and a task that the verifier refused is not left running. *)
ResultIsOnRecord ==
    Final /\ strategy = "congress" /\ log # "absent" =>
        /\ verifications # <<>>
        /\ \A i \in DOMAIN verifications : verifications[i] = score
        /\ score = 0 => task # "running"

=============================================================================
