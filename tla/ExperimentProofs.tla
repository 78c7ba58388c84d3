--------------------------- MODULE ExperimentProofs ---------------------------
(***************************************************************************)
(* Proofs about Experiment, for any arms, slots, cost cap and number of    *)
(* runs.                                                                   *)
(***************************************************************************)
EXTENDS Experiment, FiniteSetTheorems, TLAPS

\* What the counters, the process and the runner's place say of the session.
SlotInv ==
    /\ slot \in Nat /\ sessions \in Nat /\ finished \in Nat /\ usage \in [Model -> Nat]
    /\ pc \in {"preflight", "refused", "setup"} => session = "none"
    /\ pc \in {"failing", "closing", "between"} => session \in {"none", "orphaned", "ended"}
    /\ pc = "setup" => slot = 0 /\ sessions = 0 /\ finished = 0 /\ verdict = "none"
    /\ pc = "slot" => session # "none" /\ slot <= MaxSessions
    /\ pc = "slot" /\ session = "starting" => sessions + 1 = slot /\ finished + 1 = slot
    /\ pc = "slot" /\ session \in {"started", "streaming", "waiting", "stopping", "draining"} =>
          sessions = slot /\ finished + 1 = slot
    /\ pc = "slot" /\ session = "ended" /\ verdict = "ok" => sessions = slot /\ finished = slot
    /\ session \in {"starting", "started", "streaming", "waiting"} => verdict = "none"
    /\ session \in {"stopping", "draining"} => verdict \in {"timeout", "cancelled", "infra", "error"}
    /\ session = "orphaned" => verdict = "error"
    /\ session = "ended" /\ pc \notin {"failing", "closing", "between"} => verdict # "none"
    /\ verdict \in Verdict
    /\ pc \in {"verifying", "scoring", "costing"} =>
          /\ session = "ended" /\ verdict = "ok"
          /\ sessions = MaxSessions /\ finished = MaxSessions
          /\ PipesClosed
    /\ pc = "slot" /\ session = "ended" /\ verdict = "ok" => PipesClosed

\* What the outcome may say at each place of the runner.
OutcomeInv ==
    /\ pc \in {"scoring", "costing"} => task = "ready_for_report" /\ validation = "passed"
    /\ pc \in {"setup", "slot", "verifying", "scoring"} => execution = "infra_error"
    /\ pc = "costing" => \/ execution = "scorer_error"
                         \/ execution \in Valid /\ score = IF success = "yes" THEN "good" ELSE "bad"
    /\ pc = "failing" => failure \in {"timeout", "budget", "validation", "protocol", "human",
                                      "infra", "error", "cancelled"}
    /\ pc = "failing" /\ failure # "error" => execution = "infra_error"
    /\ pc \in {"setup", "slot", "verifying", "scoring", "costing"} => status = "failed"
    /\ status = "completed" => /\ pc = "failing" => failure = "error"
                               /\ execution \in Valid \cup Invalidating
    /\ ValidRunIsWhole

RunsInv ==
    /\ runs \in Seq(Run)
    /\ pc \in {"setup", "slot", "verifying", "scoring", "costing", "failing", "closing"} => runs # <<>>
    /\ validation \in {"none", "passed", "failed"}
    /\ score \in {"none", "invalid", "bad", "good"}
    /\ status \in {"failed", "completed"}
    /\ execution \in ExecutionStatus
    /\ \A i \in DOMAIN runs :
          runs[i].status = "completed" => runs[i].execution \in Valid \cup Invalidating

SandboxInv ==
    /\ sandbox \in Sandbox
    /\ pc \notin {"preflight", "refused"} => Sound(sandbox)

ExperimentInv == SlotInv /\ OutcomeInv /\ RunsInv /\ SandboxInv

-----------------------------------------------------------------------------
\* The preflight passes no sandbox that breaks a promise of either profile.
LEMMA ReadyIsSound ==
    ASSUME NEW s \in Sandbox, NEW reports, WorkerReady(s, reports)
    PROVE  Sound(s)
<1> SUFFICES ASSUME NEW profile \in Profile, NEW probe \in Probe
             PROVE  s[profile][probe] = IF probe \in Denied(profile) THEN "denied" ELSE "works"
  BY DEF Sound
<1>1. s[profile][probe] \in {"works", "denied", "private"}
  BY DEF Sandbox, Behaviour
<1>2. ProfileReady(s, profile, reports)
  BY DEF WorkerReady
<1>3. (s[profile][probe] = "denied") <=> (probe \in Denied(profile))
  BY <1>2 DEF ProfileReady, Reported
<1>4. ASSUME probe \notin Denied(profile) PROVE s[profile][probe] # "private"
  <2>1. CASE probe = "workspace_write"
    BY <1>2, <1>4, <2>1 DEF ProfileReady
  <2>2. CASE probe = "outside_workspace_write"
    BY <1>4, <2>2 DEF Denied
  <2>3. CASE probe \in Probe \ Writes
    BY <2>3 DEF Sandbox
  <2> QED
    BY <2>1, <2>2, <2>3 DEF Writes
<1> QED
  BY <1>1, <1>3, <1>4

LEMMA SandboxStep == ASSUME SandboxInv, [Next]_vars PROVE SandboxInv'
<1> USE DEF SandboxInv
<1>1. CASE Preflight
  BY <1>1, ReadyIsSound DEF Preflight
<1>2. CASE sandbox' = sandbox /\ pc \notin {"preflight", "refused"}
  BY <1>2
<1>3. CASE UNCHANGED vars
  BY <1>3 DEF vars
<1>4. ASSUME SessionStep PROVE SandboxInv'
  BY <1>4 DEF SessionStep
<1>5. ASSUME Next, ~ Preflight, ~ SessionStep
      PROVE  sandbox' = sandbox /\ pc \notin {"preflight", "refused"}
  BY <1>5 DEF Next, StartsBlock, WritesBlock, NewRun, SetsUp, NextSlot, Reports, SessionRaises,
     Verifies, Scores, ChecksCost, Handles, Closes, Crashes
<1> QED
  BY <1>1, <1>2, <1>3, <1>4, <1>5

-----------------------------------------------------------------------------
\* A step of the session keeps the counts, and ends it as its verdict says.
LEMMA SlotSession == ASSUME SlotInv, SessionStep PROVE SlotInv'
<1> USE SessionAssumption DEF SlotInv, SessionStep, WorkerStep, Verdict, Finish, StoreFails, PipesClosed
<1>0. UNCHANGED <<pc, slot>>
  BY DEF runVars
<1>1. CASE Starts
  BY <1>0, <1>1 DEF Starts
<1>2. CASE Spawns(SlotModel)
  BY <1>0, <1>2 DEF Spawns, Ends
<1>3. CASE Streams(SlotModel) \/ StreamBreaks
  <2>1. SlotModel \in Model
    BY DEF SlotModel, Model
  <2> QED
    BY <1>0, <1>3, <2>1 DEF Streams, StreamBreaks
<1>4. CASE OrphanClosed
  BY <1>0, <1>4 DEF OrphanClosed, KillsGroup
<1>5. CASE LeaderForks \/ LeaderExits \/ ChildExits
  BY <1>0, <1>5 DEF LeaderForks, LeaderExits, ChildExits
<1>6. CASE StdoutEnds \/ Interrupted
  BY <1>0, <1>6 DEF StdoutEnds, Interrupted
<1>7. CASE ProcessEnds \/ DrainCancelled \/ Stopped
  BY <1>0, <1>7 DEF ProcessEnds, DrainCancelled, Stopped, Ends
<1>8. CASE StopTree
  BY <1>0, <1>8 DEF StopTree, KillsGroup
<1> QED
  BY <1>1, <1>2, <1>3, <1>4, <1>5, <1>6, <1>7, <1>8

LEMMA SlotStep == ASSUME SlotInv, OutcomeInv, [Next]_vars PROVE SlotInv'
<1> USE SessionAssumption DEF SlotInv, PipesClosed, Verdict
<1>1. CASE SessionStep
  BY <1>1, SlotSession
<1>2. CASE Preflight \/ StartsBlock \/ WritesBlock
  BY <1>2 DEF Preflight, StartsBlock, WritesBlock, sessionVars, runVars
<1>3. ASSUME NEW arm \in Arm, NewRun(arm) PROVE SlotInv'
  BY <1>3 DEF NewRun
<1>4. CASE SetsUp
  BY <1>4 DEF SetsUp
<1>5. CASE NextSlot
  BY <1>5 DEF NextSlot, Raises, StoreFails
<1>6. CASE Reports \/ SessionRaises
  BY <1>6 DEF Reports, SessionRaises, Raises, StoreFails, sessionVars
<1>7. CASE Verifies \/ Scores \/ ChecksCost
  BY <1>7 DEF Verifies, Scores, ChecksCost, Raises, StoreFails, sessionVars
<1>8. CASE Handles \/ Closes \/ Crashes
  BY <1>8 DEF Handles, Closes, Crashes, sessionVars, runVars
<1>9. CASE UNCHANGED vars
  BY <1>9 DEF vars, sessionVars, runVars
<1> QED
  BY <1>1, <1>2, <1>3, <1>4, <1>5, <1>6, <1>7, <1>8, <1>9 DEF Next

LEMMA OutcomeStep == ASSUME SlotInv, OutcomeInv, [Next]_vars PROVE OutcomeInv'
<1> USE SessionAssumption DEF SlotInv, OutcomeInv, ValidRunIsWhole, Valid, Invalidating, Verdict,
       Estimated, Cost
<1>1. CASE SessionStep
  <2>1. UNCHANGED <<pc, runVars>>
    BY <1>1 DEF SessionStep
  <2>2. pc = "closing" => UNCHANGED <<sessions, finished, usage, rates>>
    BY <1>1 DEF SessionStep, WorkerStep, Starts, Spawns, Streams, StreamBreaks, OrphanClosed,
       LeaderForks, LeaderExits, ChildExits, StdoutEnds, ProcessEnds, Interrupted, DrainCancelled,
       StopTree, Stopped
  <2> QED
    BY <2>1, <2>2 DEF runVars
<1>2. CASE Preflight \/ StartsBlock \/ WritesBlock
  BY <1>2 DEF Preflight, StartsBlock, WritesBlock, sessionVars, runVars
<1>3. ASSUME NEW arm \in Arm, NewRun(arm) PROVE OutcomeInv'
  BY <1>3 DEF NewRun
<1>4. CASE SetsUp
  BY <1>4 DEF SetsUp
<1>5. CASE NextSlot
  BY <1>5 DEF NextSlot, Raises, StoreFails
<1>6. CASE Reports \/ SessionRaises
  BY <1>6 DEF Reports, SessionRaises, Raises, StoreFails, sessionVars
<1>7. CASE Verifies
  BY <1>7 DEF Verifies, Raises
<1>8. CASE Scores
  BY <1>8 DEF Scores, Raises, sessionVars
<1>9. CASE ChecksCost
  <2>1. Cost \in Nat
    BY DEF Model
  <2> QED
    BY <1>9, <2>1 DEF ChecksCost, OverCap, Raises
<1>10. CASE Handles
  BY <1>10 DEF Handles
<1>11. CASE Closes \/ Crashes
  BY <1>11 DEF Closes, Crashes, sessionVars, runVars
<1>12. CASE UNCHANGED vars
  BY <1>12 DEF vars, sessionVars, runVars
<1> QED
  BY <1>1, <1>2, <1>3, <1>4, <1>5, <1>6, <1>7, <1>8, <1>9, <1>10, <1>11, <1>12 DEF Next

\* A manifest is created running and completed from the outcome.
LEMMA RunsStep == ASSUME RunsInv, OutcomeInv, [Next]_vars PROVE RunsInv'
<1> USE DEF RunsInv
<1>1. ASSUME NEW arm \in Arm, NewRun(arm) PROVE RunsInv'
  <2> DEFINE new == [arm |-> arm, status |-> "running"]
  <2>1. new \in Run
    BY DEF Run
  <2>2. runs' = Append(runs, new)
    BY <1>1 DEF NewRun
  <2>3. /\ runs' \in Seq(Run) /\ runs' # <<>>
        /\ \A i \in DOMAIN runs' : runs'[i] = IF i \in DOMAIN runs THEN runs[i] ELSE new
    BY <2>1, <2>2
  <2>4. new.status # "completed"
    OBVIOUS
  <2> HIDE DEF new
  <2>5. \A i \in DOMAIN runs' :
          runs'[i].status = "completed" => runs'[i].execution \in Valid \cup Invalidating
    BY <2>3, <2>4
  <2> QED
    BY <1>1, <2>3, <2>5 DEF NewRun, ExecutionStatus
<1>2. CASE Closes
  <2>1. Len(runs) \in DOMAIN runs
    BY <1>2 DEF Closes
  <2>2. runs[Len(runs)].arm \in Arm
    BY <2>1 DEF Run
  <2>3. Manifest \in Run
    BY <2>2 DEF Manifest, Run
  <2>4. Manifest.status = "completed" => Manifest.execution \in Valid \cup Invalidating
    BY DEF Manifest, OutcomeInv
  <2>5. runs' = [runs EXCEPT ![Len(runs)] = Manifest]
    BY <1>2 DEF Closes
  <2>6. /\ runs' \in Seq(Run) /\ runs' # <<>>
        /\ \A i \in DOMAIN runs' : runs'[i] = IF i = Len(runs) THEN Manifest ELSE runs[i]
    BY <2>1, <2>3, <2>5
  <2>7. \A i \in DOMAIN runs' :
          runs'[i].status = "completed" => runs'[i].execution \in Valid \cup Invalidating
    BY <2>4, <2>6, <2>5
  <2> QED
    BY <1>2, <2>6, <2>7 DEF Closes, runVars
<1>3. CASE Preflight \/ StartsBlock \/ WritesBlock \/ SessionStep
  BY <1>3 DEF Preflight, StartsBlock, WritesBlock, SessionStep, runVars
<1>4. CASE SetsUp \/ NextSlot \/ Reports \/ SessionRaises
  BY <1>4 DEF SetsUp, NextSlot, Reports, SessionRaises, Raises, sessionVars
<1>5. CASE Verifies
  BY <1>5 DEF Verifies, Raises
<1>6. CASE Scores
  BY <1>6 DEF Scores, Raises, sessionVars, Valid, ExecutionStatus
<1>7. CASE ChecksCost
  BY <1>7 DEF ChecksCost, Raises, ExecutionStatus
<1>8. CASE Handles
  BY <1>8 DEF Handles, OutcomeInv, ExecutionStatus
<1>9. CASE Crashes
  BY <1>9 DEF Crashes, runVars
<1>10. CASE UNCHANGED vars
  BY <1>10 DEF vars, runVars
<1> QED
  BY <1>1, <1>2, <1>3, <1>4, <1>5, <1>6, <1>7, <1>8, <1>9, <1>10 DEF Next

LEMMA ExperimentInit == Init => ExperimentInv
<1> SUFFICES ASSUME Init PROVE ExperimentInv
  OBVIOUS
<1>1. SlotInv
  BY DEF Init, SessionInit, RunInit, SlotInv, Verdict, PipesClosed
<1>2. OutcomeInv
  BY DEF Init, RunInit, OutcomeInv, ValidRunIsWhole
<1>3. RunsInv
  BY DEF Init, RunInit, RunsInv, ExecutionStatus
<1>4. SandboxInv
  BY DEF Init, SandboxInv
<1> QED
  BY <1>1, <1>2, <1>3, <1>4 DEF ExperimentInv

\* The invariant holds of every reachable state.
LEMMA ExperimentCorrect == Spec => []ExperimentInv
<1>1. ExperimentInv /\ [Next]_vars => ExperimentInv'
  BY SlotStep, OutcomeStep, RunsStep, SandboxStep DEF ExperimentInv
<1> QED
  BY ExperimentInit, <1>1, PTL DEF Spec

-----------------------------------------------------------------------------
(* Types. *)

\* The counters of a session stay in their bounds: the governor refuses a session
\* too many, and none is finished that was not started.
LEMMA SessionTypes ==
    ASSUME SessionTypeOK, SlotInv, SessionStep,
           pc \in {"preflight", "refused", "between", "setup", "slot", "verifying", "scoring",
                  "costing", "failing", "closing"}
    PROVE  SessionTypeOK'
<1> USE SessionAssumption
    DEF SessionTypeOK, SlotInv, SessionStep, WorkerStep, Verdict, Finish, StoreFails
<1>0. session \in {"starting", "started", "streaming", "waiting", "stopping", "draining"} =>
         pc = "slot"
  OBVIOUS
<1>1. CASE Starts
  BY <1>1 DEF Starts
<1>2. CASE Spawns(SlotModel)
  BY <1>0, <1>2 DEF Spawns, Ends
<1>3. CASE Streams(SlotModel)
  <2>1. /\ SlotModel \in Model /\ usage' = [usage EXCEPT ![SlotModel] = @ + 1]
        /\ UNCHANGED <<session, verdict, leader, child, active, sessions, finished, rates, faults>>
    BY <1>3 DEF Streams, SlotModel, Model
  <2>2. usage["planner"] \in Nat /\ usage["executor"] \in Nat /\ Cost < MaxUsage
    BY <1>3 DEF Streams, Model
  <2>3. \A m \in Model : usage[m] + 1 \in 0..MaxUsage
    BY <2>2 DEF Cost, Model
  <2>4. usage' \in [Model -> 0..MaxUsage]
    BY <2>1, <2>3
  <2> QED
    BY <2>1, <2>4
<1>4. CASE StreamBreaks \/ OrphanClosed
  BY <1>0, <1>4 DEF StreamBreaks, OrphanClosed, KillsGroup
<1>5. CASE LeaderForks \/ LeaderExits \/ ChildExits \/ StdoutEnds
  BY <1>5 DEF LeaderForks, LeaderExits, ChildExits, StdoutEnds
<1>6. CASE ProcessEnds \/ DrainCancelled
  BY <1>0, <1>6 DEF ProcessEnds, DrainCancelled, Ends
<1>7. CASE Interrupted \/ StopTree
  BY <1>7 DEF Interrupted, StopTree, KillsGroup
<1>8. CASE Stopped
  BY <1>0, <1>8 DEF Stopped, Ends
<1> QED
  BY <1>1, <1>2, <1>3, <1>4, <1>5, <1>6, <1>7, <1>8

LEMMA TypesStep ==
    ASSUME TypeOK, SlotInv, OutcomeInv, RunsInv, RunsInv', [Next]_vars PROVE TypeOK'
<1> USE SessionAssumption DEF TypeOK, Verdict, TaskStatus, MeetingPhase, Absent
<1>1. CASE SessionStep
  BY <1>1, SessionTypes DEF SessionStep, runVars, blockVars, RunsInv
<1>2. CASE Preflight \/ StartsBlock \/ WritesBlock
  BY <1>2 DEF Preflight, StartsBlock, WritesBlock, sessionVars, runVars, blockVars, RunsInv, SessionTypeOK
<1>3. ASSUME NEW arm \in Arm, NewRun(arm) PROVE TypeOK'
  BY <1>3 DEF NewRun, RunsInv, SessionTypeOK
<1>4. CASE SetsUp
  BY <1>4 DEF SetsUp, blockVars, RunsInv, SessionTypeOK
<1>5. CASE NextSlot
  BY <1>5 DEF NextSlot, Raises, StoreFails, blockVars, RunsInv, SessionTypeOK, SlotInv
<1>6. CASE Reports \/ SessionRaises
  BY <1>6 DEF Reports, SessionRaises, Raises, StoreFails, sessionVars, blockVars, RunsInv,
     SessionTypeOK
<1>7. CASE Verifies \/ Scores \/ ChecksCost
  BY <1>7 DEF Verifies, Scores, ChecksCost, Raises, StoreFails, sessionVars, blockVars, RunsInv,
     SessionTypeOK
<1>8. CASE Handles
  <2>1. failure' \in {failure, "handled"} /\ phase' \in {phase, "failed", "budget_exhausted"}
    BY <1>8 DEF Handles
  <2>2. faults' \in 0..MaxFaults
    BY <1>8 DEF Handles, StoreFails, SessionTypeOK
  <2>3. /\ pc' = "closing"
        /\ UNCHANGED <<session, verdict, leader, child, active, sessions, finished, usage, rates, sandbox,
                       slot, task, validation, score, status, success, runs, blockVars>>
    BY <1>8 DEF Handles
  <2> QED
    BY <2>1, <2>2, <2>3 DEF blockVars, RunsInv, SessionTypeOK
<1>9. CASE Closes \/ Crashes
  BY <1>9 DEF Closes, Crashes, Abandon, sessionVars, runVars, RunsInv, SessionTypeOK
<1>10. CASE UNCHANGED vars
  BY <1>10 DEF vars, sessionVars, runVars, blockVars, RunsInv, SessionTypeOK
<1> QED
  BY <1>1, <1>2, <1>3, <1>4, <1>5, <1>6, <1>7, <1>8, <1>9, <1>10 DEF Next

(* The state of the experiment is always of its type. *)
THEOREM ExperimentTyped == Spec => []TypeOK
<1>1. Init => TypeOK
  BY SessionAssumption DEF Init, SessionInit, RunInit, TypeOK, SessionTypeOK, Verdict,
     MeetingPhase, ExecutionStatus, Absent
<1>2. ExperimentInv /\ ExperimentInv' /\ TypeOK /\ [Next]_vars => TypeOK'
  BY TypesStep DEF ExperimentInv
<1> QED
  BY <1>1, <1>2, ExperimentCorrect, PTL DEF Spec

-----------------------------------------------------------------------------
(* No session is started before a preflight that only a sound sandbox passes. *)
THEOREM SessionsAreSandboxed == Spec => []ModelsRunInSoundSandbox
<1>1. ExperimentInv => ModelsRunInSoundSandbox
  BY DEF ExperimentInv, SlotInv, SandboxInv, ModelsRunInSoundSandbox
<1> QED
  BY <1>1, ExperimentCorrect, PTL

(* A manifest that claims a valid run is written of a run that did everything
   a valid run must do. *)
THEOREM ValidRunsAreWhole == Spec => []ValidRunIsWhole
<1>1. ExperimentInv => ValidRunIsWhole
  BY DEF ExperimentInv, OutcomeInv
<1> QED
  BY <1>1, ExperimentCorrect, PTL

(* The verifier and the scorer read a worktree whose worker process has ended
   with everything that held its output. *)
THEOREM ScoredWorktreeIsQuiet == Spec => []WorktreeIsQuiet
<1>1. ExperimentInv => WorktreeIsQuiet
  BY DEF ExperimentInv, SlotInv, WorktreeIsQuiet
<1> QED
  BY <1>1, ExperimentCorrect, PTL

(* The runs of a scored pair are valid ones: a completed run that failed later
   says so in its execution status, which makes the block invalid. *)
THEOREM ComparedRunsAreValid == Spec => []QualityComparesValidRuns
<1>1. ASSUME RunsInv, NEW p \in ScoredPairs
      PROVE  runs[p[1]].execution \in Valid /\ runs[p[2]].execution \in Valid
  <2>1. /\ p \in Matched /\ Scorable(p[1]) /\ Scorable(p[2]) /\ ~ BlockInvalid
    BY <1>1 DEF ScoredPairs
  <2>2. p[1] \in DOMAIN runs /\ p[2] \in DOMAIN runs
    BY <2>1 DEF Matched
  <2> QED
    BY <1>1, <2>1, <2>2 DEF RunsInv, Scorable, BlockInvalid
<1>2. ExperimentInv => QualityComparesValidRuns
  BY <1>1 DEF ExperimentInv, QualityComparesValidRuns
<1> QED
  BY <1>2, ExperimentCorrect, PTL

-----------------------------------------------------------------------------
(* The block. *)

Active == {"setup", "slot", "verifying", "scoring", "costing", "failing", "closing"}

\* The runs after the first n are the block's: one for each arm that is not to do
\* any more, each with an outcome unless it is under way.
BlockOf(n) ==
    /\ n <= Len(runs)
    /\ \A i \in n + 1..Len(runs) : pc \notin Active \/ i # Len(runs) => runs[i].status # "running"
    /\ \A arm \in Arm \ todo : \E i \in n + 1..Len(runs) : runs[i].arm = arm
    /\ IsFiniteSet(Arm \ todo)
    /\ Cardinality(Arm \ todo) = Len(runs) - n

BlockInv ==
    /\ pc \in Active => runs # <<>> /\ runs[Len(runs)].status = "running"
    /\ block = "open" => \E n \in Nat : BlockOf(n)
    /\ CompletedBlockIsWhole

\* No block is open.
LEMMA BlockInit == Init => BlockInv
BY DEF Init, BlockInv, Active, CompletedBlockIsWhole

\* A step within a run, or between runs, that leaves manifests and block alone.
LEMMA SameBlock ==
    ASSUME BlockInv, UNCHANGED <<runs, todo>>, block' \in {block, "abandoned"},
           pc' \in Active => pc \in Active,
           pc \in Active /\ pc' \notin Active => block' # "open"
    PROVE  BlockInv'
<1>1. block' = "open" => \E n \in Nat : BlockOf(n)'
  BY DEF BlockInv, BlockOf
<1>2. CompletedBlockIsWhole'
  BY DEF BlockInv, CompletedBlockIsWhole
<1> QED
  BY <1>1, <1>2 DEF BlockInv

\* The command begins with every arm to do.
LEMMA BlockStarts ==
    ASSUME BlockInv, RunsInv, StartsBlock
    PROVE  BlockInv'
<1>1. /\ UNCHANGED <<runs, pc>> /\ block' = "open" /\ todo' = Arm /\ pc \notin Active
      /\ Len(runs) \in Nat
  BY DEF StartsBlock, RunsInv, Active
<1>2. Arm \ todo' = {} /\ Cardinality({}) = 0 /\ IsFiniteSet({})
  BY <1>1, FS_EmptySet
<1>a. PICK len \in Nat : len = Len(runs)
  BY <1>1
<1>f. Len(runs') = len
  BY <1>1, <1>a
<1>b. len + 1..len = {} /\ len - len = 0 /\ len <= len
  BY <1>a
<1>c. \A i \in len + 1..len : FALSE
  BY <1>b
<1>d. \A arm \in Arm \ todo' : FALSE
  BY <1>2
<1>e. IsFiniteSet(Arm \ todo') /\ Cardinality(Arm \ todo') = 0
  BY <1>2
<1>3. BlockOf(len)'
  BY <1>b, <1>f, <1>c, <1>d, <1>e DEF BlockOf
<1> QED
  BY <1>1, <1>a, <1>3 DEF BlockInv, CompletedBlockIsWhole, Active

\* A run of an arm of the block, or beside it.
LEMMA BlockGrows ==
    ASSUME BlockInv, RunsInv, NEW arm \in Arm, NewRun(arm)
    PROVE  BlockInv'
<1> DEFINE new == [arm |-> arm, status |-> "running"]
           len == Len(runs)
<1>1. /\ pc \notin Active /\ pc' \in Active /\ block' = block
      /\ runs' = Append(runs, new)
      /\ IF block = "open" THEN arm \in todo /\ todo' = todo \ {arm} ELSE UNCHANGED todo
  BY DEF NewRun, Active
<1>2. new \in Run /\ new.arm = arm /\ new.status = "running"
  BY DEF Run
<1> HIDE DEF new
<1>3. /\ len \in Nat /\ DOMAIN runs = 1..len
      /\ Len(runs') = len + 1 /\ DOMAIN runs' = 1..(len + 1) /\ runs' # <<>>
      /\ runs'[len + 1] = new
      /\ \A i \in 1..len : runs'[i] = runs[i]
  BY <1>1, <1>2 DEF RunsInv
<1> HIDE DEF len
<1>4. ASSUME block = "open" PROVE \E n \in Nat : BlockOf(n)'
  <2>1. PICK n \in Nat : BlockOf(n)
    BY <1>4 DEF BlockInv
  <2>2. arm \in todo /\ arm \notin Arm \ todo /\ Arm \ todo' = (Arm \ todo) \cup {arm}
    BY <1>1, <1>4
  <2>3. /\ IsFiniteSet(Arm \ todo')
        /\ Cardinality(Arm \ todo') = Cardinality(Arm \ todo) + 1
    BY <2>1, <2>2, FS_AddElement DEF BlockOf
  <2>a. Cardinality(Arm \ todo) = len - n /\ n <= len
    BY <2>1 DEF BlockOf, len
  <2>b. (len - n) + 1 = (len + 1) - n /\ n <= len + 1 /\ len + 1 \in n + 1..len + 1
    BY <1>3, <2>a
  <2>4. Cardinality(Arm \ todo') = Len(runs') - n /\ n <= Len(runs')
    BY <1>3, <2>a, <2>b, <2>3
  <2>5. \A i \in n + 1..Len(runs') : i # Len(runs') => runs'[i].status # "running"
    <3> TAKE i \in n + 1..Len(runs')
    <3> HAVE i # Len(runs')
    <3>1. i \in n + 1..len /\ i \in 1..len
      BY <1>3
    <3> QED
      BY <1>1, <1>3, <2>1, <3>1 DEF BlockOf, len
  <2>6. \A a \in Arm \ todo' : \E i \in n + 1..Len(runs') : runs'[i].arm = a
    <3> TAKE a \in Arm \ todo'
    <3>1. CASE a = arm
      <4>1. len + 1 \in n + 1..Len(runs')
        BY <1>3, <2>b
      <4> QED
        BY <1>2, <1>3, <3>1, <4>1
    <3>2. CASE a # arm
      <4>1. PICK i \in n + 1..len : runs[i].arm = a
        BY <2>1, <2>2, <3>2 DEF BlockOf, len
      <4>2. i \in 1..len /\ i \in n + 1..Len(runs')
        BY <1>3
      <4> QED
        BY <1>3, <4>1, <4>2
    <3> QED
      BY <3>1, <3>2
  <2>7. BlockOf(n)'
    BY <1>1, <2>3, <2>4, <2>5, <2>6 DEF BlockOf
  <2> QED
    BY <2>7
<1>5. CompletedBlockIsWhole'
  <2> SUFFICES ASSUME block = "completed", NEW a \in Arm
               PROVE  \E i \in DOMAIN runs' : /\ runs'[i].arm = a /\ runs'[i].status # "running"
                                              /\ runs'[i].execution \notin Invalidating
    BY <1>1 DEF CompletedBlockIsWhole
  <2>1. PICK i \in DOMAIN runs : /\ runs[i].arm = a /\ runs[i].status # "running"
                                 /\ runs[i].execution \notin Invalidating
    BY DEF BlockInv, CompletedBlockIsWhole
  <2>2. i \in DOMAIN runs' /\ runs'[i] = runs[i]
    BY <1>3
  <2> QED
    BY <2>1, <2>2
<1> QED
  BY <1>1, <1>2, <1>3, <1>4, <1>5 DEF BlockInv

\* The manifest of the run under way gets its outcome.
LEMMA BlockCloses ==
    ASSUME BlockInv, RunsInv, Closes
    PROVE  BlockInv'
<1> DEFINE len == Len(runs)
<1>1. /\ pc \in Active /\ pc' \notin Active /\ block' \in {block, "abandoned"} /\ todo' = todo
      /\ runs' = [runs EXCEPT ![len] = Manifest]
  BY DEF Closes, Active, Abandon
<1>2. /\ Manifest.arm = runs[len].arm /\ Manifest.status # "running"
  BY DEF Manifest, RunsInv
<1>3. /\ len \in Nat /\ len \in 1..len /\ DOMAIN runs = 1..len /\ runs \in Seq(Run)
  BY <1>1 DEF RunsInv, Active
<1>4. /\ Len(runs') = len /\ DOMAIN runs' = 1..len
      /\ \A i \in 1..len : runs'[i] = IF i = len THEN Manifest ELSE runs[i]
  <2>1. Manifest \in Run
    <3>1. runs[len].arm \in Arm
      BY <1>3 DEF Run
    <3> QED
      BY <3>1 DEF Manifest, Run, RunsInv
  <2> QED
    BY <1>1, <1>3, <2>1
<1>5. runs[len].status = "running"
  BY <1>1 DEF BlockInv
<1> HIDE DEF len
<1>6. \A i \in 1..len : runs'[i].arm = runs[i].arm /\ (i # len => runs'[i] = runs[i])
  BY <1>2, <1>4
<1>7. ASSUME block' = "open" PROVE \E n \in Nat : BlockOf(n)'
  <2>1. PICK n \in Nat : BlockOf(n)
    BY <1>1, <1>7 DEF BlockInv
  <2>2. n + 1..len \subseteq 1..len
    BY <1>3
  <2>3. \A i \in n + 1..len : runs'[i].status # "running"
    BY <1>2, <1>4, <2>1, <2>2 DEF BlockOf, len
  <2>4. \A a \in Arm \ todo' : \E i \in n + 1..len : runs'[i].arm = a
    BY <1>1, <1>6, <2>1, <2>2 DEF BlockOf, len
  <2>5. BlockOf(n)'
    BY <1>1, <1>4, <2>1, <2>3, <2>4 DEF BlockOf, len
  <2> QED
    BY <2>5
<1>8. CompletedBlockIsWhole'
  <2> SUFFICES ASSUME block' = "completed", NEW a \in Arm
               PROVE  \E i \in DOMAIN runs' : /\ runs'[i].arm = a /\ runs'[i].status # "running"
                                              /\ runs'[i].execution \notin Invalidating
    BY DEF CompletedBlockIsWhole
  <2>1. PICK i \in DOMAIN runs : /\ runs[i].arm = a /\ runs[i].status # "running"
                                 /\ runs[i].execution \notin Invalidating
    BY <1>1 DEF BlockInv, CompletedBlockIsWhole
  <2>2. i \in DOMAIN runs' /\ runs'[i] = runs[i]
    BY <1>3, <1>4, <1>5, <2>1
  <2> QED
    BY <2>1, <2>2
<1> QED
  BY <1>1, <1>7, <1>8 DEF BlockInv

\* The block file: as many manifests as there are arms are those of the block.
LEMMA BlockWritten ==
    ASSUME BlockInv, RunsInv, WritesBlock
    PROVE  BlockInv'
<1>1. /\ block = "open" /\ todo = {} /\ pc \notin Active /\ pc' = pc /\ runs' = runs
      /\ block' \in {"invalid", "completed"}
  BY DEF WritesBlock, Active
<1>2. PICK n \in Nat : BlockOf(n)
  BY <1>1 DEF BlockInv
<1>3. Arm \ todo = Arm
  BY <1>1
<1>4. runs \in Seq(Run) /\ Len(runs) \in Nat /\ DOMAIN runs = 1..Len(runs)
  <2>1. runs \in Seq(Run)
    BY DEF RunsInv
  <2> QED
    BY <2>1
<1>5. Len(runs) - Cardinality(Arm) + 1 = n + 1
  <2>1. Cardinality(Arm) = Len(runs) - n
    BY <1>2, <1>3 DEF BlockOf
  <2> DEFINE len == Len(runs)
  <2>2. len \in Nat
    BY <1>4
  <2> HIDE DEF len
  <2>3. len - (len - n) + 1 = n + 1
    BY <2>2
  <2> QED
    BY <2>1, <2>3 DEF len
<1>6. ASSUME block' = "completed", NEW arm \in Arm
      PROVE  \E i \in DOMAIN runs : /\ runs[i].arm = arm /\ runs[i].status # "running"
                                    /\ runs[i].execution \notin Invalidating
  <2>1. PICK i \in n + 1..Len(runs) : runs[i].arm = arm
    BY <1>2, <1>3 DEF BlockOf
  <2>2. runs[i].status # "running"
    BY <1>1, <1>2 DEF BlockOf
  <2>3. runs[i].execution \notin Invalidating
    BY <1>5, <1>6, <2>2 DEF WritesBlock
  <2>4. i \in DOMAIN runs
    BY <1>4
  <2> QED
    BY <2>1, <2>2, <2>3, <2>4
<1>7. CompletedBlockIsWhole'
  BY <1>1, <1>6 DEF CompletedBlockIsWhole
<1> QED
  BY <1>1, <1>7 DEF BlockInv

\* Every step keeps BlockInv.
LEMMA BlockStep == ASSUME BlockInv, RunsInv, [Next]_vars PROVE BlockInv'
<1>1. CASE Preflight \/ SessionStep
  BY <1>1, SameBlock DEF Preflight, SessionStep, Active, blockVars
<1>2. CASE SetsUp \/ NextSlot \/ Reports \/ SessionRaises
  BY <1>2, SameBlock DEF SetsUp, NextSlot, Reports, SessionRaises, Raises, Active, blockVars
<1>3. CASE Verifies \/ Scores \/ ChecksCost \/ Handles
  BY <1>3, SameBlock DEF Verifies, Scores, ChecksCost, Handles, Raises, Active, blockVars
<1>4. CASE Crashes
  BY <1>4, SameBlock DEF Crashes, Abandon, Active
<1>5. CASE UNCHANGED vars
  BY <1>5, SameBlock DEF vars, blockVars
<1> QED
  BY <1>1, <1>2, <1>3, <1>4, <1>5, BlockStarts, BlockGrows, BlockCloses, BlockWritten DEF Next

(* A block file that says completed is about a block that is whole, for any arms
   and whatever ran, failed or was killed before it or beside it
   (experiment-five-arm and write_block). *)
THEOREM CompletedBlocksAreWhole == Spec => []CompletedBlockIsWhole
<1>1. Init => BlockInv /\ ExperimentInv
  BY BlockInit, ExperimentInit
<1>2. ExperimentInv /\ BlockInv /\ [Next]_vars => BlockInv'
  BY BlockStep DEF ExperimentInv
<1>3. BlockInv => CompletedBlockIsWhole
  BY DEF BlockInv
<1> QED
  BY <1>1, <1>2, <1>3, ExperimentCorrect, PTL DEF Spec

=============================================================================
