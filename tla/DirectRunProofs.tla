---------------------------- MODULE DirectRunProofs ----------------------------
(***************************************************************************)
(* Proofs about DirectRun, for any number of finalize commands.            *)
(***************************************************************************)
EXTENDS DirectRun, TLAPS

\* The runner works, and nothing is judged or finalized, until the script goes
\* on with a written result; a kept agent completed.
Phases ==
    /\ runner \in {"slot", "waiting", "failing", "closing"} => gate = "running"
    /\ runner # "exited" => result.status = "absent"
    /\ gate \in {"running", "stopping", "verifying"} =>
          /\ score = Unscored
          /\ finalize = "none"
          /\ verifications = <<>>
          /\ result.status \in {"absent", "none"}
    /\ result.status \in {"absent", "none"} => result.objective = "no"
    /\ gate \in {"stopping", "verifying"} =>
          runner = "exited" /\ result.agent = "agent_completed"
    /\ gate = "verifying" => container = "stopped"

\* The score file says what the verifier said, and finalize what that file says.
Scored ==
    /\ score # Unscored /\ result.agent = "agent_completed" => verdict = score
    /\ finalize # "none" => reward = score /\ score # Unscored /\ result.status # "absent"
    /\ runner = "exited" \/ score = Unscored

\* What finalize has recorded by the time it writes.
Recorded ==
    /\ \A i \in DOMAIN verifications : verifications[i] = score
    /\ strategy = "congress" /\ log # "absent" /\ finalize \in {"failing", "deciding", "completing", "writing"} =>
          verifications # <<>>
    /\ strategy = "congress" /\ log # "absent" /\ score = 0
       /\ finalize \in {"deciding", "completing", "writing"} => task # "running"

DirectInv ==
    /\ TypeOK
    /\ Phases
    /\ Scored
    /\ Recorded
    /\ VerifierRunsAlone
    /\ ObjectiveIsVerified
    /\ ResultIsOnRecord

LEMMA DirectInit == Init => DirectInv
<1> SUFFICES ASSUME Init PROVE DirectInv
  OBVIOUS
<1> USE FinalizeAssumption DEF Init, Result, AgentStatus, Reward, Unscored
<1>1. TypeOK
  BY DEF TypeOK, Slots, MeetingPhase, Absent
<1>2. Phases /\ Scored /\ Recorded
  BY DEF Phases, Scored, Recorded
<1>3. VerifierRunsAlone /\ ObjectiveIsVerified /\ ResultIsOnRecord
  BY DEF VerifierRunsAlone, ObjectiveIsVerified, ResultIsOnRecord, Final
<1> QED
  BY <1>1, <1>2, <1>3 DEF DirectInv

\* The runner inside the trial.
RunnerStep ==
    \/ StartsArm \/ StartsSlot \/ CommandStarts \/ CommandEnds
    \/ SlotReturns \/ SlotRaises \/ SwallowsFailure \/ RunnerEnds

\* The script.
GateStep == DiscardsAgent \/ KeepsAgent \/ StopsContainer \/ Verifies \/ Aborts

FinalizeStep ==
    \/ FinalizeStarts \/ FinalizeRecords \/ FinalizeFailsTask \/ FinalizeDecides
    \/ FinalizeCompletes \/ FinalizeWrites \/ FinalizeKilled

LEMMA Typed == ASSUME TypeOK, Scored, [Next]_vars PROVE TypeOK'
<1> USE FinalizeAssumption DEF TypeOK, AgentStatus, Reward, Unscored, Absent
<1>1. CASE StartsArm \/ CommandStarts \/ CommandEnds \/ SlotReturns \/ SlotRaises
  BY <1>1 DEF StartsArm, CommandStarts, CommandEnds, SlotReturns, SlotRaises, meetingVars,
     vmVars, finalizeVars, MeetingPhase, Slots
<1>2. CASE StartsSlot
  BY <1>2 DEF StartsSlot, vmVars, finalizeVars, MeetingPhase, Slots
<1>3. CASE SwallowsFailure
  BY <1>3 DEF SwallowsFailure, vmVars, finalizeVars, MeetingPhase, Slots
<1>4. CASE RunnerEnds
  BY <1>4 DEF RunnerEnds, meetingVars, vmVars, finalizeVars, Result
<1>5. CASE GateStep
  BY <1>5 DEF GateStep, DiscardsAgent, KeepsAgent, StopsContainer, Verifies, Aborts, meetingVars,
     vmVars, finalizeVars
<1>6. CASE FinalizeStarts \/ FinalizeKilled
  BY <1>6 DEF FinalizeStarts, FinalizeKilled, Reads, meetingVars, vmVars
<1>7. CASE FinalizeRecords
  <2>1. reward \in Reward
    BY <1>7 DEF FinalizeRecords, Scored
  <2>2. Append(verifications, reward) \in Seq(Reward)
    BY <2>1
  <2> QED
    BY <1>7, <2>2 DEF FinalizeRecords, vmVars
<1>8. CASE FinalizeFailsTask \/ FinalizeDecides \/ FinalizeCompletes
  BY <1>8 DEF FinalizeFailsTask, FinalizeDecides, FinalizeCompletes, vmVars, MeetingPhase
<1>9. CASE FinalizeWrites
  BY <1>9 DEF FinalizeWrites, Outcome, meetingVars, vmVars
<1>10. CASE UNCHANGED vars
  BY <1>10 DEF vars, meetingVars, vmVars, finalizeVars
<1> QED
  BY <1>1, <1>2, <1>3, <1>4, <1>5, <1>6, <1>7, <1>8, <1>9, <1>10 DEF Next, GateStep

LEMMA PhasesStep == ASSUME TypeOK, Phases, Scored, [Next]_vars PROVE Phases'
<1> USE DEF TypeOK, Phases, Scored, Unscored, AgentStatus, Reward
<1>1. CASE RunnerStep
  BY <1>1 DEF RunnerStep, StartsArm, StartsSlot, CommandStarts, CommandEnds, SlotReturns, SlotRaises,
     SwallowsFailure, RunnerEnds, Result, meetingVars, vmVars, finalizeVars
<1>2. CASE GateStep
  BY <1>2 DEF GateStep, DiscardsAgent, KeepsAgent, StopsContainer, Verifies, Aborts, meetingVars,
     vmVars, finalizeVars
<1>3. CASE FinalizeStarts \/ FinalizeRecords \/ FinalizeFailsTask \/ FinalizeDecides
           \/ FinalizeCompletes \/ FinalizeKilled
  BY <1>3 DEF FinalizeStarts, Reads, FinalizeRecords, FinalizeFailsTask, FinalizeDecides,
     FinalizeCompletes, FinalizeKilled, meetingVars, vmVars
<1>4. CASE FinalizeWrites
  BY <1>4 DEF FinalizeWrites, Outcome, meetingVars, vmVars
<1>5. CASE UNCHANGED vars
  BY <1>5 DEF vars, meetingVars, vmVars, finalizeVars
<1> QED
  BY <1>1, <1>2, <1>3, <1>4, <1>5 DEF Next, RunnerStep, GateStep

LEMMA ScoredStep == ASSUME TypeOK, Phases, Scored, [Next]_vars PROVE Scored'
<1> USE DEF TypeOK, Phases, Scored, Unscored, AgentStatus, Reward
<1>1. CASE RunnerStep
  BY <1>1 DEF RunnerStep, StartsArm, StartsSlot, CommandStarts, CommandEnds, SlotReturns, SlotRaises,
     SwallowsFailure, RunnerEnds, Result, meetingVars, vmVars, finalizeVars
<1>2. CASE GateStep
  BY <1>2 DEF GateStep, DiscardsAgent, KeepsAgent, StopsContainer, Verifies, Aborts, meetingVars,
     vmVars, finalizeVars
<1>3. CASE FinalizeStarts \/ FinalizeRecords \/ FinalizeFailsTask \/ FinalizeDecides
           \/ FinalizeCompletes \/ FinalizeKilled
  BY <1>3 DEF FinalizeStarts, Reads, FinalizeRecords, FinalizeFailsTask, FinalizeDecides,
     FinalizeCompletes, FinalizeKilled, meetingVars, vmVars
<1>4. CASE FinalizeWrites
  BY <1>4 DEF FinalizeWrites, Outcome, meetingVars, vmVars
<1>5. CASE UNCHANGED vars
  BY <1>5 DEF vars, meetingVars, vmVars, finalizeVars
<1> QED
  BY <1>1, <1>2, <1>3, <1>4, <1>5 DEF Next, RunnerStep, GateStep

LEMMA RecordedStep ==
    ASSUME TypeOK, Phases, Scored, Recorded, [Next]_vars PROVE Recorded'
<1> USE DEF TypeOK, Phases, Scored, Recorded, Unscored, Reward
<1>1. CASE RunnerStep
  BY <1>1 DEF RunnerStep, StartsArm, StartsSlot, CommandStarts, CommandEnds, SlotReturns, SlotRaises,
     SwallowsFailure, RunnerEnds, meetingVars, vmVars, finalizeVars
<1>2. CASE GateStep
  BY <1>2 DEF GateStep, DiscardsAgent, KeepsAgent, StopsContainer, Verifies, Aborts, meetingVars,
     vmVars, finalizeVars
<1>3. CASE FinalizeStarts \/ FinalizeFailsTask \/ FinalizeDecides \/ FinalizeCompletes
           \/ FinalizeWrites \/ FinalizeKilled
  BY <1>3 DEF FinalizeStarts, Reads, FinalizeFailsTask, FinalizeDecides, FinalizeCompletes,
     FinalizeWrites, FinalizeKilled, meetingVars, vmVars
<1>4. CASE FinalizeRecords
  <2>1. reward = score /\ reward \in Reward
    BY <1>4 DEF FinalizeRecords
  <2>2. verifications' = Append(verifications, reward)
    BY <1>4 DEF FinalizeRecords
  <2>3. /\ verifications' # <<>>
        /\ \A i \in DOMAIN verifications' : verifications'[i] = score
    BY <2>1, <2>2
  <2> QED
    BY <1>4, <2>3 DEF FinalizeRecords, vmVars
<1>5. CASE UNCHANGED vars
  BY <1>5 DEF vars, meetingVars, vmVars, finalizeVars
<1> QED
  BY <1>1, <1>2, <1>3, <1>4, <1>5 DEF Next, RunnerStep, GateStep

\* The three properties of a judged run, from what holds before the step.
LEMMA JudgedStep ==
    ASSUME DirectInv, TypeOK', Phases', Scored', Recorded', [Next]_vars
    PROVE  (VerifierRunsAlone /\ ObjectiveIsVerified /\ ResultIsOnRecord)'
<1> USE DEF DirectInv, TypeOK, Phases, Scored, Recorded, VerifierRunsAlone, ObjectiveIsVerified,
        ResultIsOnRecord, Final, Unscored, Reward, AgentStatus
<1>1. CASE RunnerStep
  BY <1>1 DEF RunnerStep, StartsArm, StartsSlot, CommandStarts, CommandEnds, SlotReturns, SlotRaises,
     SwallowsFailure, RunnerEnds, Result, meetingVars, vmVars, finalizeVars
<1>2. CASE GateStep
  BY <1>2 DEF GateStep, DiscardsAgent, KeepsAgent, StopsContainer, Verifies, Aborts, meetingVars,
     vmVars, finalizeVars
<1>3. CASE FinalizeStarts \/ FinalizeRecords \/ FinalizeFailsTask \/ FinalizeDecides
           \/ FinalizeCompletes \/ FinalizeKilled
  BY <1>3 DEF FinalizeStarts, Reads, FinalizeRecords, FinalizeFailsTask, FinalizeDecides,
     FinalizeCompletes, FinalizeKilled, meetingVars, vmVars
<1>4. CASE FinalizeWrites
  BY <1>4 DEF FinalizeWrites, Outcome, meetingVars, vmVars
<1>5. CASE UNCHANGED vars
  BY <1>5 DEF vars, meetingVars, vmVars, finalizeVars
<1> QED
  BY <1>1, <1>2, <1>3, <1>4, <1>5 DEF Next, RunnerStep, GateStep

LEMMA DirectStep == DirectInv /\ [Next]_vars => DirectInv'
<1> SUFFICES ASSUME DirectInv, [Next]_vars PROVE DirectInv'
  OBVIOUS
<1>1. TypeOK' /\ Phases' /\ Scored' /\ Recorded'
  BY Typed, PhasesStep, ScoredStep, RecordedStep DEF DirectInv
<1> QED
  BY <1>1, JudgedStep DEF DirectInv

(* execute_arm, the gate script and finalize_run: the verifier never judges a
   container in which a command still runs, a result claims the objective only
   when the verifier passed the work of an agent that completed, and a final
   result has its reward on the log of a meeting that has one, however often the
   run is stopped and finalized again. *)
THEOREM DirectRunCorrect ==
    Spec => [](VerifierRunsAlone /\ ObjectiveIsVerified /\ ResultIsOnRecord)
<1>1. DirectInv => VerifierRunsAlone /\ ObjectiveIsVerified /\ ResultIsOnRecord
  BY DEF DirectInv
<1> QED
  BY DirectInit, DirectStep, <1>1, PTL DEF Spec

(* The gate script: the hidden verifier runs when nothing else does. *)
THEOREM VerifierIsAlone == Spec => []VerifierRunsAlone
BY DirectRunCorrect, PTL

(* finalize_run: an objective is claimed only of verified work. *)
THEOREM ObjectivesAreVerified == Spec => []ObjectiveIsVerified
BY DirectRunCorrect, PTL


=============================================================================
