------------------------- MODULE TaskWorkflowProofs -------------------------
(***************************************************************************)
(* Proofs about TaskWorkflow, for every set of tasks, contents, reports,   *)
(* commands and outside changes.                                           *)
(***************************************************************************)
EXTENDS TaskWorkflow, TLAPS

\* The program points at which the command works on a task, on the worktree of
\* that task, and on its report.
OnTask ==
    ProgramPoint \ {"idle", "combine", "merge_main", "close_tasks"}
OnWorktree ==
    {"submit", "block", "scope", "checks", "ready", "confirm", "snapshot",
     "source", "tree", "merge", "record"}
OnReport == {"scope", "checks"}

\* What the locals of a command hold at each program point.
LocalsOK ==
    /\ pc \in OnTask => cur \in Task
    /\ pc \in OnWorktree => wt[cur] # None
    /\ pc \in OnReport => report[cur] # None
    /\ pc \in {"tree", "merge"} => source # None
    /\ pc = "merge_main" => combinedValid # None

Typed == TypeOK /\ LocalsOK

LEMMA TypedInit == Init => Typed
<1> SUFFICES ASSUME Init PROVE Typed
  OBVIOUS
<1> USE DEF Init
<1>1. TypeOK
  <2>1. phase \in MeetingPhase /\ op \in Operation /\ pc \in ProgramPoint
    BY DEF MeetingPhase, Operation, ProgramPoint
  <2>2. status \in [Task -> TaskStatus \cup {Absent}]
    BY DEF TaskStatus, Absent
  <2>3. integ \in [exists : BOOLEAN, head : SUBSET Source]
    OBVIOUS
  <2> QED
    BY <2>1, <2>2, <2>3 DEF TypeOK
<1>2. LocalsOK
  BY DEF LocalsOK, OnTask, OnWorktree, OnReport
<1> QED
  BY <1>1, <1>2 DEF Typed

LEMMA TypedStep == Typed /\ [Next]_vars => Typed'
<1> SUFFICES ASSUME Typed, [Next]_vars PROVE Typed'
  OBVIOUS
<1> USE WorkflowAssumption, NoneAssumption
    DEF Typed, Begin, Goto, Finish, Idle, Atomic, SetStatus, meetingVars, gitVars,
        localVars, pastVars
<1>1. ASSUME StartMeeting PROVE Typed'
  BY <1>1 DEF TypeOK, LocalsOK, StartMeeting, MeetingPhase,
     ProgramPoint, Operation, TaskStatus, OnTask, OnWorktree, OnReport
<1>2. ASSUME NEW p \in OperatorPhases, ChangePhase(p) PROVE Typed'
  BY <1>2 DEF TypeOK, LocalsOK, ChangePhase,
     ProgramPoint, Operation, TaskStatus, OnTask, OnWorktree, OnReport
<1>3. ASSUME NEW t \in Task, ProposeTask(t) PROVE Typed'
  BY <1>3 DEF TypeOK, LocalsOK, ProposeTask,
     ProgramPoint, Operation, TaskStatus, OnTask, OnWorktree, OnReport
<1>4. ASSUME AssignTask PROVE Typed'
  BY <1>4 DEF TypeOK, LocalsOK, AssignTask, MayBecome,
     ProgramPoint, Operation, TaskStatus, OnTask, OnWorktree, OnReport
<1>5. ASSUME NEW t \in Task, BeginPrepare(t) PROVE Typed'
  BY <1>5 DEF TypeOK, LocalsOK, BeginPrepare,
     ProgramPoint, Operation, TaskStatus, OnTask, OnWorktree, OnReport
<1>6. ASSUME PrepareIntegration PROVE Typed'
  BY <1>6 DEF TypeOK, LocalsOK, PrepareIntegration,
     ProgramPoint, Operation, TaskStatus, OnTask, OnWorktree, OnReport
<1>7. ASSUME PrepareWorktree PROVE Typed'
  <2>1. wt' \in [Task -> Identity \cup {None}] /\ wt'[cur] # None
    <3>1. UntouchedWorktree \in Identity
      BY DEF UntouchedWorktree, Identity, Commit
    <3>2. cur \in Task
      BY <1>7 DEF PrepareWorktree, LocalsOK, OnTask, ProgramPoint
    <3> QED
      BY <3>1, <3>2, <1>7 DEF PrepareWorktree, TypeOK, MayReuse
  <2> QED
    BY <2>1, <1>7 DEF PrepareWorktree, TypeOK, LocalsOK, OnTask, OnWorktree, OnReport, ProgramPoint, Operation
<1>8. ASSUME PrepareAccept PROVE Typed'
  BY <1>8 DEF TypeOK, LocalsOK, PrepareAccept,
     ProgramPoint, Operation, TaskStatus, OnTask, OnWorktree, OnReport
<1>9. ASSUME PrepareRecord PROVE Typed'
  BY <1>9 DEF TypeOK, LocalsOK, PrepareRecord,
     ProgramPoint, Operation, TaskStatus, OnTask, OnWorktree, OnReport
<1>10. ASSUME NEW t \in Task, RetryTask(t) PROVE Typed'
  BY <1>10 DEF TypeOK, LocalsOK, RetryTask,
     ProgramPoint, Operation, TaskStatus, OnTask, OnWorktree, OnReport
<1>11. ASSUME NEW t \in Task, BeginReport(t) PROVE Typed'
  BY <1>11 DEF TypeOK, LocalsOK, BeginReport,
     ProgramPoint, Operation, TaskStatus, OnTask, OnWorktree, OnReport
<1>12. ASSUME NEW t \in Task, BeginExecute(t) PROVE Typed'
  BY <1>12 DEF TypeOK, LocalsOK, BeginExecute,
     ProgramPoint, Operation, TaskStatus, OnTask, OnWorktree, OnReport
<1>13. ASSUME NEW r \in Reports, SubmitReport(r) PROVE Typed'
  <2>1. /\ cur \in Task /\ wt[cur] # None
        /\ r \in Report /\ r # None
        /\ AfterReport(r) \in {"block", "scope", "idle"}
    BY <1>13 DEF SubmitReport, LocalsOK, OnTask, OnWorktree, ProgramPoint, AfterReport, Report
  <2>2. TypeOK'
    BY <2>1, <1>13 DEF SubmitReport, TypeOK, ProgramPoint, Operation
  <2>3. LocalsOK'
    BY <2>1, <1>13 DEF SubmitReport, TypeOK, LocalsOK, ProgramPoint, OnTask, OnWorktree, OnReport
  <2> QED
    BY <2>2, <2>3
<1>14. ASSUME BlockOnHuman PROVE Typed'
  BY <1>14 DEF TypeOK, LocalsOK, BlockOnHuman,
     ProgramPoint, Operation, TaskStatus, OnTask, OnWorktree, OnReport
<1>15. ASSUME WorkerFails PROVE Typed'
  BY <1>15 DEF TypeOK, LocalsOK, WorkerFails,
     ProgramPoint, Operation, TaskStatus, OnTask, OnWorktree, OnReport
<1>16. ASSUME CheckScope PROVE Typed'
  BY <1>16 DEF TypeOK, LocalsOK, CheckScope,
     ProgramPoint, Operation, TaskStatus, OnTask, OnWorktree, OnReport
<1>17. ASSUME NEW ok \in BOOLEAN, RunChecks(ok) PROVE Typed'
  BY <1>17 DEF TypeOK, LocalsOK, RunChecks, Validation, Identity,
     ProgramPoint, Operation, TaskStatus, OnTask, OnWorktree, OnReport
<1>18. ASSUME FinishReady PROVE Typed'
  BY <1>18 DEF TypeOK, LocalsOK, FinishReady, MarkReady,
     ProgramPoint, Operation, TaskStatus, OnTask, OnWorktree, OnReport
<1>19. ASSUME NEW t \in Task, TaskReady(t) PROVE Typed'
  BY <1>19 DEF TypeOK, LocalsOK, TaskReady, MarkReady,
     ProgramPoint, Operation, TaskStatus, OnTask, OnWorktree, OnReport
<1>20. ASSUME NEW t \in Task, RequestApproval(t) PROVE Typed'
  BY <1>20 DEF TypeOK, LocalsOK, RequestApproval, ApprovalDecision,
     ProgramPoint, Operation, TaskStatus, OnTask, OnWorktree, OnReport
<1>21. ASSUME NEW t \in Task, Approve(t) PROVE Typed'
  BY <1>21 DEF TypeOK, LocalsOK, Approve, ApprovalDecision, Verified, Validation, Identity,
     ProgramPoint, Operation, TaskStatus, OnTask, OnWorktree, OnReport
<1>22. ASSUME NEW t \in Task, Reject(t) PROVE Typed'
  BY <1>22 DEF TypeOK, LocalsOK, Reject, ApprovalDecision,
     ProgramPoint, Operation, TaskStatus, OnTask, OnWorktree, OnReport
<1>23. ASSUME NEW t \in Task, BeginIntegrate(t) PROVE Typed'
  BY <1>23 DEF TypeOK, LocalsOK, BeginIntegrate,
     ProgramPoint, Operation, TaskStatus, OnTask, OnWorktree, OnReport
<1>24. ASSUME ConfirmIdentity PROVE Typed'
  BY <1>24 DEF TypeOK, LocalsOK, ConfirmIdentity,
     ProgramPoint, Operation, TaskStatus, OnTask, OnWorktree, OnReport
<1>25. ASSUME Snapshot PROVE Typed'
  BY <1>25 DEF TypeOK, LocalsOK, Snapshot, Committed, Identity, Commit,
     ProgramPoint, Operation, TaskStatus, OnTask, OnWorktree, OnReport
<1>26. ASSUME ReadSource PROVE Typed'
  BY <1>26 DEF TypeOK, LocalsOK, ReadSource, Identity,
     ProgramPoint, Operation, TaskStatus, OnTask, OnWorktree, OnReport
<1>27. ASSUME CheckSource PROVE Typed'
  BY <1>27 DEF TypeOK, LocalsOK, CheckSource,
     ProgramPoint, Operation, TaskStatus, OnTask, OnWorktree, OnReport
<1>28. ASSUME MergeTask PROVE Typed'
  BY <1>28 DEF TypeOK, LocalsOK, MergeTask, Source,
     ProgramPoint, Operation, TaskStatus, OnTask, OnWorktree, OnReport
<1>29. ASSUME RecordIntegration PROVE Typed'
  BY <1>29 DEF TypeOK, LocalsOK, RecordIntegration, Source,
     ProgramPoint, Operation, TaskStatus, OnTask, OnWorktree, OnReport
<1>30. ASSUME BeginPromote PROVE Typed'
  BY <1>30 DEF TypeOK, LocalsOK, BeginPromote,
     ProgramPoint, Operation, TaskStatus, OnTask, OnWorktree, OnReport
<1>31. ASSUME NEW ok \in BOOLEAN, NEW clean \in BOOLEAN, VerifyCombination(ok, clean) PROVE Typed'
  <2>1. combinedValid' \in CombinedValidation
    BY <1>31 DEF VerifyCombination, TypeOK, CombinedValidation, ChecksOfPromotion
  <2>2. combined' \in SUBSET [head : SUBSET Source, ran : SUBSET Task]
    <3> DEFINE R == [head : SUBSET Source, ran : SUBSET Task]
               v == [head |-> integ.head, ran |-> ChecksOfPromotion]
    <3>1. v \in R
      BY DEF TypeOK, ChecksOfPromotion
    <3>2. combined' = combined \/ combined' = combined \cup {v}
      BY <1>31 DEF VerifyCombination
    <3>3. combined \in SUBSET R
      BY DEF TypeOK
    <3> HIDE DEF R, v
    <3>4. combined' \in SUBSET R
      BY <3>1, <3>2, <3>3
    <3> QED
      BY <3>4 DEF R
  <2> QED
    BY <2>1, <2>2, <1>31 DEF VerifyCombination, TypeOK, LocalsOK, OnTask, OnWorktree, OnReport, ProgramPoint, Operation
<1>32. ASSUME MergeMain PROVE Typed'
  BY <1>32 DEF TypeOK, LocalsOK, MergeMain, CombinedValidation,
     ProgramPoint, Operation, TaskStatus, OnTask, OnWorktree, OnReport
<1>33. ASSUME NEW t \in Task, CloseTask(t) PROVE Typed'
  BY <1>33 DEF TypeOK, LocalsOK, CloseTask,
     ProgramPoint, Operation, TaskStatus, OnTask, OnWorktree, OnReport
<1>34. ASSUME CompleteMeeting PROVE Typed'
  BY <1>34 DEF TypeOK, LocalsOK, CompleteMeeting, MeetingPhase,
     ProgramPoint, Operation, TaskStatus, OnTask, OnWorktree, OnReport
<1>35. ASSUME NEW t \in Task, Disturb(t) PROVE Typed'
  <2>1. wt[t] \in Identity /\ wt[t] # None
    BY <1>35 DEF Disturb, TypeOK
  <2>2. PICK w \in Identity : wt' = [wt EXCEPT ![t] = w]
    <3>1. CASE \E c \in Content : wt' = [wt EXCEPT ![t].tree = c]
      <4>1. PICK c \in Content : wt' = [wt EXCEPT ![t].tree = c]
        BY <3>1
      <4>2. [wt[t] EXCEPT !.tree = c] \in Identity
        BY <2>1 DEF Identity
      <4> QED
        BY <4>1, <4>2
    <3>2. CASE /\ wt[t].head.n < MaxCommits
               /\ wt' = [wt EXCEPT ![t] = Committed(@)]
      <4>1. Committed(wt[t]) \in Identity
        BY <2>1, <3>2 DEF Committed, Identity, Commit
      <4> QED
        BY <3>2, <4>1
    <3>3. CASE wt' = [wt EXCEPT ![t].own = ~@]
      <4>1. [wt[t] EXCEPT !.own = ~@] \in Identity
        BY <2>1 DEF Identity
      <4> QED
        BY <3>3, <4>1
    <3> QED
      BY <1>35, <3>1, <3>2, <3>3 DEF Disturb
  <2>3. /\ wt' \in [Task -> Identity \cup {None}]
        /\ \A u \in Task : wt[u] # None => wt'[u] # None
    BY <2>2 DEF TypeOK
  <2> QED
    BY <2>3, <1>35 DEF Disturb, TypeOK, LocalsOK, OnTask, OnWorktree, OnReport, ProgramPoint
<1>36. ASSUME Stop PROVE Typed'
  BY <1>36 DEF TypeOK, LocalsOK, Stop,
     ProgramPoint, Operation, TaskStatus, OnTask, OnWorktree, OnReport
<1>37. CASE UNCHANGED vars
  BY <1>37 DEF vars, TypeOK, LocalsOK
<1>38. ASSUME AdvanceMain PROVE Typed'
  BY <1>38 DEF TypeOK, LocalsOK, AdvanceMain
<1> QED
  BY <1>1, <1>2, <1>3, <1>4, <1>5, <1>6, <1>7, <1>8, <1>9, <1>10, <1>11,
     <1>12, <1>13, <1>14, <1>15, <1>16, <1>17, <1>18, <1>19, <1>20, <1>21,
     <1>22, <1>23, <1>24, <1>25, <1>26, <1>27, <1>28, <1>29, <1>30, <1>31,
     <1>32, <1>33, <1>34, <1>35, <1>36, <1>37, <1>38
     DEF Next, Command, Progress, Outside

\* TypeOK holds: every state of the workflow is well typed.
THEOREM TypeCorrect == Spec => []TypeOK
<1>1. Spec => []Typed
  BY TypedInit, TypedStep, PTL DEF Spec
<1>2. Typed => TypeOK
  BY DEF Typed
<1> QED
  BY <1>1, <1>2, PTL

-----------------------------------------------------------------------------
(* What is merged was validated and, under the manual policy, approved. *)

\* The recorded results, the approvals, and what the log says of both.
EvidenceVars == <<valid, approval, approvedId, validated, granted>>

LEMMA EvidenceFrame ==
    ASSUME [Next]_vars
    PROVE  \/ UNCHANGED EvidenceVars
           \/ \E ok \in BOOLEAN : RunChecks(ok)
           \/ \E t \in Task : RequestApproval(t) \/ Approve(t) \/ Reject(t)
<1> USE DEF EvidenceVars, meetingVars, pastVars
<1>1. CASE Command
  BY <1>1 DEF Command, StartMeeting, ChangePhase, ProposeTask, BeginPrepare, RetryTask,
     BeginReport, BeginExecute, TaskReady, MarkReady, BeginIntegrate, BeginPromote
<1>2. CASE Progress
  BY <1>2 DEF Progress, AssignTask, PrepareIntegration, PrepareWorktree, PrepareAccept,
     PrepareRecord, SubmitReport, BlockOnHuman, WorkerFails, CheckScope, FinishReady,
     MarkReady, ConfirmIdentity, Snapshot, ReadSource, CheckSource, MergeTask,
     RecordIntegration, VerifyCombination, MergeMain, CloseTask, CompleteMeeting
<1>3. CASE Outside \/ Stop \/ UNCHANGED vars
  BY <1>3 DEF Outside, Disturb, AdvanceMain, Stop, vars
<1> QED
  BY <1>1, <1>2, <1>3 DEF Next

\* A passing result names a tree that was observed to pass, an approval one that
\* was approved, and only observed trees were.
Evidence ==
    /\ \A t \in Task : Verified(t) => <<t, valid[t].id.tree>> \in validated
    /\ \A t \in Task : approvedId[t] # None => <<t, approvedId[t].tree>> \in granted
    /\ \A t \in Task : approval[t] = "approved" => approvedId[t] # None
    /\ granted \subseteq validated

LEMMA EvidenceStep ==
    ASSUME TypeOK, Evidence, LocalsOK, [Next]_vars
    PROVE  Evidence'
<1> USE NoneAssumption
<1>1. CASE UNCHANGED EvidenceVars
  BY <1>1 DEF EvidenceVars, Evidence, Verified
<1>2. ASSUME NEW ok \in BOOLEAN, RunChecks(ok) PROVE Evidence'
  <2>1. cur \in Task
    BY <1>2 DEF RunChecks, LocalsOK, OnTask, ProgramPoint
  <2>2. \A t \in Task : Verified(t)' => <<t, valid'[t].id.tree>> \in validated'
    BY <2>1, <1>2 DEF RunChecks, TypeOK, Evidence, Verified
  <2> QED
    BY <2>2, <1>2 DEF RunChecks, Evidence
<1>3. ASSUME NEW t \in Task, RequestApproval(t) PROVE Evidence'
  BY <1>3 DEF RequestApproval, TypeOK, Evidence, Verified, meetingVars, pastVars
<1>4. ASSUME NEW t \in Task, Approve(t) PROVE Evidence'
  <2>1. valid[t].id \in Identity
    BY <1>4 DEF Approve, Verified, TypeOK, Validation
  <2>2. valid[t].id # None
    BY <2>1
  <2> QED
    BY <2>2, <1>4 DEF Approve, TypeOK, Evidence, Verified
<1>5. ASSUME NEW t \in Task, Reject(t) PROVE Evidence'
  BY <1>5 DEF Reject, TypeOK, Evidence, Verified, pastVars
<1> QED
  BY EvidenceFrame, <1>1, <1>2, <1>3, <1>4, <1>5

\* The program points of task-integrate between the identity check and the end.
Flight == {"snapshot", "source", "tree", "merge", "record"}

\* What the checks made on the way keep true until the merge.
InFlight ==
    /\ pc \in Flight => Verified(cur) /\ ApprovalBinds(cur)
    /\ pc = "tree" => source = wt[cur].head
    /\ pc = "merge" => source.tree = valid[cur].id.tree

LEMMA FlightFrame ==
    ASSUME [Next]_vars
    PROVE  \/ pc' \notin Flight
           \/ UNCHANGED <<pc, cur, source, valid, approvedId, wt>>
           \/ \E t \in Task : Disturb(t)
           \/ ConfirmIdentity \/ Snapshot \/ ReadSource \/ CheckSource \/ MergeTask
<1> USE DEF Flight, Begin, Goto, Finish, Idle, Atomic, meetingVars, gitVars, localVars
<1>1. CASE Command
  BY <1>1 DEF Command, StartMeeting, ChangePhase, ProposeTask, BeginPrepare, RetryTask,
     BeginReport, BeginExecute, TaskReady, RequestApproval, Approve, Reject,
     BeginIntegrate, BeginPromote
<1>2. CASE Progress
  BY <1>2 DEF Progress, AssignTask, PrepareIntegration, PrepareWorktree, PrepareAccept,
     PrepareRecord, SubmitReport, AfterReport, BlockOnHuman, WorkerFails, CheckScope,
     RunChecks, FinishReady, RecordIntegration, VerifyCombination, MergeMain,
     CloseTask, CompleteMeeting
<1>3. CASE Outside \/ Stop \/ UNCHANGED vars
  BY <1>3 DEF Outside, AdvanceMain, Stop, vars
<1> QED
  BY <1>1, <1>2, <1>3 DEF Next

\* Here the proof needs that nobody touches the worktree between the two reads
\* of the source: a commit made there is compared and not merged.
LEMMA InFlightStep ==
    ASSUME "tree" \notin Exposed, TypeOK, LocalsOK, InFlight, [Next]_vars
    PROVE  InFlight'
<1> USE NoneAssumption DEF Flight
<1>1. CASE pc' \notin Flight
  BY <1>1 DEF InFlight
<1>2. CASE UNCHANGED <<pc, cur, source, valid, approvedId, wt>>
  BY <1>2 DEF InFlight, Verified, ApprovalBinds
<1>3. ASSUME NEW t \in Task, Disturb(t) PROVE InFlight'
  <2>1. UNCHANGED <<pc, cur, source, valid, approvedId>>
    BY <1>3 DEF Disturb, meetingVars, localVars
  <2>2. pc = "tree" => wt'[cur] = wt[cur]
    BY <1>3 DEF Disturb, TypeOK, LocalsOK, OnTask, ProgramPoint
  <2> QED
    BY <2>1, <2>2 DEF InFlight, Verified, ApprovalBinds
<1>4. CASE ConfirmIdentity
  BY <1>4 DEF ConfirmIdentity, Goto, meetingVars, InFlight, Verified, ApprovalBinds
<1>5. CASE Snapshot
  BY <1>5 DEF Snapshot, Goto, meetingVars, InFlight, Verified, ApprovalBinds
<1>6. CASE ReadSource
  BY <1>6 DEF ReadSource, meetingVars, gitVars, InFlight, Verified, ApprovalBinds
<1>7. CASE CheckSource
  BY <1>7 DEF CheckSource, SnapshotIsValidated, Goto, meetingVars, InFlight, Verified,
     ApprovalBinds
<1>8. CASE MergeTask
  BY <1>8 DEF MergeTask, Goto, meetingVars, InFlight, Verified, ApprovalBinds
<1> QED
  BY FlightFrame, <1>1, <1>2, <1>3, <1>4, <1>5, <1>6, <1>7, <1>8

LEMMA HeadFrame ==
    ASSUME TypeOK, [Next]_vars
    PROVE  integ'.head = integ.head \/ MergeTask
<1>0. integ \in [exists : BOOLEAN, head : SUBSET Source]
  BY DEF TypeOK
<1> USE <1>0 DEF gitVars
<1>1. CASE Command
  BY <1>1 DEF Command, StartMeeting, ChangePhase, ProposeTask, BeginPrepare, RetryTask,
     BeginReport, BeginExecute, TaskReady, MarkReady, RequestApproval, Approve, Reject,
     BeginIntegrate, BeginPromote
<1>2. CASE Progress
  BY <1>2 DEF Progress, AssignTask, PrepareIntegration, PrepareWorktree, PrepareAccept,
     PrepareRecord, SubmitReport, BlockOnHuman, WorkerFails, CheckScope, RunChecks,
     FinishReady, MarkReady, ConfirmIdentity, Snapshot, ReadSource, CheckSource,
     RecordIntegration, VerifyCombination, MergeMain, CloseTask, CompleteMeeting
<1>3. CASE Outside \/ Stop \/ UNCHANGED vars
  BY <1>3 DEF Outside, Disturb, AdvanceMain, Stop, vars
<1> QED
  BY <1>1, <1>2, <1>3 DEF Next

LEMMA DeliveredStep ==
    ASSUME TypeOK, LocalsOK, Evidence, InFlight, MergedIsValidated, MergedIsApproved,
           [Next]_vars
    PROVE  (MergedIsValidated /\ MergedIsApproved)'
<1>1. validated \subseteq validated' /\ granted \subseteq granted'
  BY EvidenceFrame DEF EvidenceVars, RunChecks, RequestApproval, Approve, Reject, pastVars
<1>2. CASE integ'.head = integ.head
  BY <1>1, <1>2 DEF MergedIsValidated, MergedIsApproved
<1>3. CASE MergeTask
  <2>1. /\ cur \in Task
        /\ <<cur, source.tree>> \in validated
        /\ Manual => <<cur, source.tree>> \in granted
    <3>1. cur \in Task /\ Verified(cur) /\ ApprovalBinds(cur)
      BY <1>3 DEF MergeTask, InFlight, Flight, LocalsOK, OnTask, ProgramPoint
    <3>2. source.tree = valid[cur].id.tree
      BY <1>3 DEF MergeTask, InFlight
    <3>3. valid[cur].id \in Identity
      BY <3>1 DEF Verified, TypeOK, Validation
    <3>4. valid[cur].id # None
      BY <3>3, NoneAssumption
    <3> QED
      BY <3>1, <3>2, <3>4 DEF Evidence, ApprovalBinds
  <2>2. integ'.head = integ.head \cup {[task |-> cur, commit |-> source]}
    BY <1>3 DEF MergeTask, TypeOK
  <2> QED
    BY <1>1, <2>1, <2>2 DEF MergedIsValidated, MergedIsApproved
<1> QED
  BY HeadFrame, <1>2, <1>3

\* The inductive invariant of the delivery argument.
DeliveryInv ==
    /\ Typed
    /\ Evidence
    /\ InFlight
    /\ MergedIsValidated
    /\ MergedIsApproved

LEMMA DeliveryInit == Init => DeliveryInv
<1> SUFFICES ASSUME Init PROVE DeliveryInv
  OBVIOUS
<1>1. Typed
  BY TypedInit
<1>2. Evidence
  BY NoneAssumption DEF Init, Evidence, Verified, ApprovalDecision
<1>3. InFlight
  BY DEF Init, InFlight, Flight
<1>4. MergedIsValidated /\ MergedIsApproved
  BY DEF Init, MergedIsValidated, MergedIsApproved
<1> QED
  BY <1>1, <1>2, <1>3, <1>4 DEF DeliveryInv

\* Whatever is on the integration branch was validated and, under the manual
\* policy, approved, as long as the worktree of the task being integrated is not
\* changed between the two reads of its source commit.
THEOREM DeliveryCorrect ==
    ASSUME "tree" \notin Exposed
    PROVE  Spec => [](MergedIsValidated /\ MergedIsApproved)
<1>1. DeliveryInv /\ [Next]_vars => DeliveryInv'
  BY TypedStep, EvidenceStep, InFlightStep, DeliveredStep DEF DeliveryInv, Typed
<1>2. DeliveryInv => MergedIsValidated /\ MergedIsApproved
  BY DEF DeliveryInv
<1> QED
  BY DeliveryInit, <1>1, <1>2, PTL DEF Spec

\* The part of it that is about the operator: under the manual policy every task
\* commit on the integration branch has a tree that was approved for its task.
THEOREM OnlyApprovedIsMerged ==
    ASSUME "tree" \notin Exposed
    PROVE  Spec => []MergedIsApproved
BY DeliveryCorrect, PTL

\* The steps of task-integrate from its start to the merge.
OnMerge == (op = "integrate" /\ pc \in OnReport) \/ pc \in Flight \cup {"confirm"}

\* What task-integrate found in force when it began is in force when it merges: it
\* holds the meeting lock, and no other command may append in between.
InForce ==
    /\ pc = "submit" => op # "integrate"
    /\ OnMerge /\ Manual => approval[cur] = "approved"
    /\ pc \in Flight \cup {"confirm"} => /\ valid[cur] # None
                                        /\ valid[cur].report = report[cur]

LEMMA InForceStep ==
    ASSUME TypeOK, LocalsOK, InForce, [Next]_vars
    PROVE  InForce'
<1>1. valid \in [Task -> Validation \cup {None}]
  BY DEF TypeOK
<1>2. pc \in OnTask => cur \in Task
  BY DEF LocalsOK
<1> USE <1>1, <1>2, NoneAssumption
    DEF InForce, OnMerge, Flight, OnReport, OnTask, ProgramPoint, Begin, Goto, Finish, Idle,
        Atomic, meetingVars, gitVars, localVars
<1>3. CASE Command
  <2>1. ASSUME NEW t \in Task, BeginIntegrate(t) PROVE InForce'
    BY <2>1 DEF BeginIntegrate, PolicyAllows
  <2> QED
    BY <1>3, <2>1 DEF Command, StartMeeting, ChangePhase, ProposeTask, BeginPrepare, RetryTask,
       BeginReport, BeginExecute, TaskReady, MarkReady, RequestApproval, Approve, Reject,
       BeginPromote
<1>4. CASE Progress
  <2>1. ASSUME NEW ok \in BOOLEAN, RunChecks(ok) PROVE InForce'
    <3> DEFINE result == [passed |-> ok /\ scopeOk, id |-> wt[cur], report |-> report[cur]]
    <3>1. /\ valid' = [valid EXCEPT ![cur] = result]
          /\ pc = "checks" /\ pc' = IF op = "integrate" THEN "confirm" ELSE "ready"
          /\ UNCHANGED <<op, cur, report, approval>>
      BY <2>1 DEF RunChecks
    <3>2. cur \in Task /\ result \in Validation /\ result.report = report[cur]
      <4>1. wt[cur] \in Identity /\ report[cur] \in Report /\ cur \in Task
        BY <3>1 DEF TypeOK, LocalsOK, OnWorktree
      <4>2. (ok /\ scopeOk) \in BOOLEAN
        BY DEF TypeOK
      <4> QED
        BY <4>1, <4>2 DEF Validation
    <3> HIDE DEF result
    <3>3. valid'[cur] = result /\ result # None
      BY <3>1, <3>2
    <3> QED
      BY <3>1, <3>2, <3>3
  <2>2. CASE CheckScope \/ \E r \in Reports : SubmitReport(r)
    BY <2>2 DEF CheckScope, SubmitReport, AfterReport
  <2>3. CASE ConfirmIdentity \/ Snapshot \/ ReadSource \/ CheckSource \/ MergeTask
    BY <2>3 DEF ConfirmIdentity, Snapshot, ReadSource, CheckSource, MergeTask
  <2> QED
    BY <1>4, <2>1, <2>2, <2>3 DEF Progress, AssignTask, PrepareIntegration, PrepareWorktree,
       PrepareAccept, PrepareRecord, BlockOnHuman, WorkerFails, FinishReady, MarkReady,
       RecordIntegration, VerifyCombination, MergeMain, CloseTask, CompleteMeeting
<1>5. CASE Outside \/ Stop \/ UNCHANGED vars
  BY <1>5 DEF Outside, Disturb, AdvanceMain, Stop, vars
<1> QED
  BY <1>3, <1>4, <1>5 DEF Next

\* A commit enters the integration branch on a validation that is compared with the
\* report on record and, under the manual policy, on an approval that has not been
\* withdrawn or asked for again, both of the merged tree; as long as the worktree
\* is not changed between the two reads of its source.
THEOREM MergesRestOnRecord ==
    ASSUME "tree" \notin Exposed
    PROVE  Spec => MergeRestsOnRecordInForce
<1> DEFINE Inv == Typed /\ Evidence /\ InFlight /\ InForce
           New == \A s \in integ.head' \ integ.head :
                    LET t == s.task
                    IN  /\ Verified(t)
                        /\ valid[t].id.tree = s.commit.tree
                        /\ valid[t].report = report[t]
                        /\ Manual => /\ approval[t] = "approved"
                                     /\ approvedId[t] # None
                                     /\ approvedId[t].tree = s.commit.tree
<1>1. Init => Inv
  BY DeliveryInit DEF DeliveryInv, Init, InForce, OnMerge, OnReport, Flight
<1>2. Inv /\ [Next]_vars => Inv'
  BY TypedStep, EvidenceStep, InFlightStep, InForceStep DEF Typed
<1>3. Inv /\ [Next]_vars => [New]_integ
  <2> SUFFICES ASSUME Inv, [Next]_vars PROVE New
    OBVIOUS
  <2>1. CASE integ'.head = integ.head
    BY <2>1
  <2>2. CASE MergeTask
    <3>1. /\ integ'.head = integ.head \cup {[task |-> cur, commit |-> source]}
          /\ pc = "merge" /\ cur \in Task
      BY <2>2 DEF MergeTask, Typed, TypeOK, LocalsOK, OnTask, ProgramPoint
    <3>2. /\ Verified(cur) /\ ApprovalBinds(cur)
          /\ source.tree = valid[cur].id.tree
          /\ valid[cur].report = report[cur]
          /\ Manual => approval[cur] = "approved"
      BY <3>1 DEF InFlight, InForce, OnMerge, Flight
    <3>3. valid[cur].id \in Identity
      BY <3>1, <3>2 DEF Verified, Typed, TypeOK, Validation
    <3>4. Manual => approvedId[cur] # None /\ approvedId[cur].tree = source.tree
      BY <3>2, <3>3, NoneAssumption DEF ApprovalBinds
    <3>5. \A s \in integ'.head \ integ.head : s.task = cur /\ s.commit = source
      BY <3>1
    <3> HIDE DEF Inv
    <3> QED
      BY <3>2, <3>4, <3>5
  <2> QED
    BY HeadFrame, <2>1, <2>2 DEF Typed
<1> QED
  BY <1>1, <1>2, <1>3, PTL DEF Spec, MergeRestsOnRecordInForce

-----------------------------------------------------------------------------
(* The status of a task, the log and Git. *)

\* A command changes the status of a task it was allowed to change.
LEMMA StatusStep ==
    ASSUME TypeOK, LocalsOK, [Next]_vars, NEW t \in Task, status'[t] # status[t]
    PROVE  IF status[t] = Absent
           THEN status'[t] = "proposed"
           ELSE status'[t] \in TaskTransitions[status[t]]
<1> USE DEF TypeOK, SetStatus, MayBecome, TaskTransitions, Absent, meetingVars
<1>1. CASE Command
  BY <1>1 DEF Command, StartMeeting, ChangePhase, ProposeTask, BeginPrepare, RetryTask,
     BeginReport, BeginExecute, TaskReady, MarkReady, RequestApproval, Approve, Reject,
     BeginIntegrate, BeginPromote
<1>2. CASE Progress
  <2>1. pc \notin {"idle", "combine", "merge_main", "close_tasks"} => cur \in Task
    BY DEF LocalsOK, OnTask
  <2>2. CASE AssignTask \/ PrepareAccept \/ BlockOnHuman \/ WorkerFails \/ FinishReady
    BY <2>1, <2>2 DEF AssignTask, PrepareAccept, BlockOnHuman, WorkerFails, FinishReady,
       MarkReady
  <2>3. CASE RecordIntegration \/ \E u \in Task : CloseTask(u)
    BY <2>1, <2>3 DEF RecordIntegration, Reviewable, CloseTask
  <2>4. CASE UNCHANGED status
    BY <2>4
  <2> QED
    BY <1>2, <2>2, <2>3, <2>4 DEF Progress, PrepareIntegration, PrepareWorktree,
       PrepareRecord, SubmitReport, CheckScope, RunChecks, ConfirmIdentity, Snapshot,
       ReadSource, CheckSource, MergeTask, VerifyCombination, MergeMain, CompleteMeeting
<1>3. CASE Outside \/ Stop \/ UNCHANGED vars
  BY <1>3 DEF Outside, Disturb, AdvanceMain, Stop, vars
<1> QED
  BY <1>1, <1>2, <1>3 DEF Next

\* Every change of a task's status is one the transition table has.
THEOREM StatusCorrect == Spec => StatusFollowsTable
<1>1. Typed /\ [Next]_vars =>
        [\A t \in Task : status'[t] # status[t] =>
          IF status[t] = Absent
          THEN status'[t] = "proposed"
          ELSE status'[t] \in TaskTransitions[status[t]]]_status
  BY StatusStep DEF Typed
<1> QED
  BY TypedInit, TypedStep, <1>1, PTL DEF Spec, StatusFollowsTable

-----------------------------------------------------------------------------
(* Integration, promotion and closing, wherever a crash falls. *)

Entry(v) == [head |-> v.head, ran |-> v.ran]

\* What main holds of this meeting is part of the integration branch; a passing
\* combined result is one the log has; and the commands know the merge behind what
\* they are about to record.
PromotionInv ==
    /\ Delivered \subseteq integ.head
    /\ combinedValid # None /\ combinedValid.passed /\ combinedValid.clean =>
          Entry(combinedValid) \in combined
    /\ pc = "record" => \E s \in integ.head : s.task = cur
    /\ pc = "close_tasks" =>
          /\ combinedValid # None
          /\ combinedValid.passed
          /\ combinedValid.clean
          /\ combinedValid.head = Delivered
          /\ integ.head = Delivered
    /\ MainHoldsVerifiedHead
    /\ CombinedResultIsCurrent
    /\ LogNeverAheadOfGit
    /\ ClosedTaskWasChecked

\* The actions that merge, record a merge, verify a combination or close a task
\* are the only ones this invariant depends on.
LEMMA PromotionFrame ==
    ASSUME TypeOK, LocalsOK, [Next]_vars
    PROVE  \/ MergeTask \/ RecordIntegration \/ MergeMain
           \/ \E ok, clean \in BOOLEAN : VerifyCombination(ok, clean)
           \/ \E t \in Task : CloseTask(t)
           \/ /\ UNCHANGED <<mergeCommit, combinedValid, Delivered, combined>>
              /\ integ'.head = integ.head
              /\ \A t \in Task : status'[t] \in {"integrated", "merged"} =>
                    status'[t] = status[t]
              /\ pc' \in {"record", "close_tasks"} => pc' = pc /\ cur' = cur
<1>1. /\ integ \in [exists : BOOLEAN, head : SUBSET Source]
      /\ status \in [Task -> TaskStatus \cup {Absent}]
  BY DEF TypeOK
<1> USE <1>1 DEF Delivered, SetStatus, Begin, Goto, Finish, Idle, Atomic, meetingVars, gitVars, localVars,
                 pastVars
<1>2. CASE Command
  BY <1>2 DEF Command, StartMeeting, ChangePhase, ProposeTask, BeginPrepare, RetryTask,
     BeginReport, BeginExecute, TaskReady, MarkReady, RequestApproval, Approve, Reject,
     BeginIntegrate, BeginPromote
<1>3. CASE Progress
  <2>1. CASE AssignTask \/ PrepareAccept \/ BlockOnHuman \/ WorkerFails \/ FinishReady
    BY <2>1 DEF AssignTask, PrepareAccept, BlockOnHuman, WorkerFails, FinishReady, MarkReady
  <2>2. CASE \/ PrepareIntegration \/ PrepareWorktree \/ PrepareRecord \/ CheckScope
             \/ \E r \in Reports : SubmitReport(r)
             \/ \E ok \in BOOLEAN : RunChecks(ok)
             \/ ConfirmIdentity \/ Snapshot \/ ReadSource \/ CheckSource
             \/ CompleteMeeting
    BY <2>2 DEF PrepareIntegration, PrepareWorktree, PrepareRecord, CheckScope, SubmitReport,
       AfterReport, RunChecks, ConfirmIdentity, Snapshot, ReadSource, CheckSource,
       CompleteMeeting
  <2> QED
    BY <1>3, <2>1, <2>2 DEF Progress
<1>4. CASE Outside \/ Stop \/ UNCHANGED vars
  BY <1>4 DEF Outside, Disturb, AdvanceMain, Stop, vars
<1> QED
  BY <1>2, <1>3, <1>4 DEF Next

\* A promotion adds the head of the integration branch, which holds all that main
\* had of this meeting.
LEMMA PromotionDelivers ==
    ASSUME TypeOK, Delivered \subseteq integ.head, MergeMain
    PROVE  Delivered' = integ.head
<1>1. integ.head \subseteq Source /\ Source \cap Other = {}
  BY NoneAssumption DEF TypeOK
<1>2. main' = main \cup integ.head
  BY DEF MergeMain, CombinationIsCurrent
<1> QED
  BY <1>1, <1>2 DEF Delivered

LEMMA PromotionStep ==
    ASSUME TypeOK, LocalsOK, PromotionInv, [Next]_vars
    PROVE  PromotionInv'
<1> USE NoneAssumption
    DEF PromotionInv, Delivered, MainHoldsVerifiedHead, CombinedResultIsCurrent,
        LogNeverAheadOfGit, ClosedTaskWasChecked, ChecksOfPromotion, Entry
<1>1. CASE MergeTask
  <2>1. integ'.head = integ.head \cup {[task |-> cur, commit |-> source]}
    BY <1>1 DEF MergeTask, TypeOK
  <2>2. /\ pc' = "record" /\ cur' = cur
        /\ UNCHANGED <<status, mergeCommit, combinedValid, Delivered, combined>>
    BY <1>1 DEF MergeTask, Goto, meetingVars, pastVars
  <2>3. \E s \in integ'.head : s.task = cur'
    <3> DEFINE k == [task |-> cur, commit |-> source]
    <3>1. k \in integ'.head
      BY <2>1
    <3>2. k.task = cur'
      BY <2>2
    <3> QED
      BY <3>1, <3>2
  <2>4. integ.head \subseteq integ'.head
    BY <2>1
  <2>5. LogNeverAheadOfGit' /\ ClosedTaskWasChecked'
    BY <2>2, <2>4
  <2>6. MainHoldsVerifiedHead' /\ CombinedResultIsCurrent'
    BY <2>2
  <2> QED
    BY <2>2, <2>3, <2>4, <2>5, <2>6
<1>2. CASE RecordIntegration
  <2>1. cur \in Task /\ \E s \in integ.head : s.task = cur
    BY <1>2 DEF RecordIntegration, LocalsOK, OnTask, ProgramPoint
  <2>2. /\ status' = [status EXCEPT ![cur] = "integrated"]
        /\ mergeCommit' = [mergeCommit EXCEPT ![cur] = integ.head]
        /\ combinedValid' = None /\ pc' = "idle"
        /\ UNCHANGED <<integ, Delivered, combined>>
    BY <1>2 DEF RecordIntegration, SetStatus, Finish, Begin, gitVars, pastVars
  <2> QED
    BY <2>1, <2>2 DEF TypeOK
<1>3. ASSUME NEW ok \in BOOLEAN, NEW clean \in BOOLEAN, VerifyCombination(ok, clean)
      PROVE  PromotionInv'
  <2>1. /\ combinedValid' = [passed |-> ok, head |-> integ.head,
                             clean |-> clean, ran |-> ChecksOfPromotion]
        /\ combined \subseteq combined'
        /\ ok /\ clean => [head |-> integ.head, ran |-> ChecksOfPromotion] \in combined'
        /\ pc' = "merge_main"
        /\ UNCHANGED <<status, mergeCommit, integ, Delivered>>
    BY <1>3 DEF VerifyCombination, Goto, gitVars
  <2>2. MainHoldsVerifiedHead' /\ CombinedResultIsCurrent' /\ LogNeverAheadOfGit'
    BY <2>1
  <2>3. ClosedTaskWasChecked'
    BY <2>1
  <2>4. combinedValid'.passed /\ combinedValid'.clean => Entry(combinedValid') \in combined'
    BY <2>1
  <2> QED
    BY <2>1, <2>2, <2>3, <2>4
<1>4. CASE MergeMain
  <2>1. /\ combinedValid # None
        /\ combinedValid.passed /\ combinedValid.clean
        /\ integ.head = combinedValid.head
        /\ Delivered' = integ.head
        /\ pc' = "close_tasks"
        /\ UNCHANGED <<status, mergeCommit, combinedValid, integ, combined>>
    BY <1>4, PromotionDelivers DEF MergeMain, CombinationIsCurrent, LocalsOK, Goto, meetingVars,
       pastVars
  <2> QED
    BY <2>1
<1>5. ASSUME NEW t \in Task, CloseTask(t) PROVE PromotionInv'
  <2>1. /\ status[t] = "integrated" /\ pc = "close_tasks" /\ pc' = pc
        /\ status' = [status EXCEPT ![t] = "merged"]
        /\ UNCHANGED <<mergeCommit, combinedValid, integ, Delivered, combined>>
    BY <1>5 DEF CloseTask, SetStatus, gitVars, localVars, pastVars
  <2>2. \E s \in Delivered : s.task = t
    BY <2>1
  <2>3. Entry(combinedValid) \in combined /\ t \in combinedValid.ran
    BY <2>1
  <2> QED
    BY <2>1, <2>2, <2>3 DEF TypeOK
<1>6. CASE /\ UNCHANGED <<mergeCommit, combinedValid, Delivered, combined>>
           /\ integ'.head = integ.head
           /\ \A t \in Task : status'[t] \in {"integrated", "merged"} =>
                 status'[t] = status[t]
           /\ pc' \in {"record", "close_tasks"} => pc' = pc /\ cur' = cur
  BY <1>6
<1> QED
  BY PromotionFrame, <1>1, <1>2, <1>3, <1>4, <1>5, <1>6

\* The log never claims a merge Git lacks, a task is closed only when its checks
\* passed on what was promoted, and what main holds of this meeting is one clean,
\* verified head, whatever others commit to main.
THEOREM PromotionCorrect ==
    Spec => [](LogNeverAheadOfGit /\ ClosedTaskWasChecked
               /\ MainHoldsVerifiedHead /\ CombinedResultIsCurrent)
<1> DEFINE Inv == Typed /\ PromotionInv
<1>1. Init => Inv
  BY TypedInit DEF Init, PromotionInv, Delivered, MainHoldsVerifiedHead,
     CombinedResultIsCurrent, LogNeverAheadOfGit, ClosedTaskWasChecked, Absent
<1>2. Inv /\ [Next]_vars => Inv'
  BY TypedStep, PromotionStep DEF Typed
<1>3. Inv => /\ LogNeverAheadOfGit /\ ClosedTaskWasChecked
             /\ MainHoldsVerifiedHead /\ CombinedResultIsCurrent
  BY DEF PromotionInv
<1> QED
  BY <1>1, <1>2, <1>3, PTL DEF Spec

\* The parts of it.  What the target branch holds of this meeting was verified as
\* a whole; nothing is claimed of the merged tree once others have committed there.
THEOREM DeliveredHeadIsVerified == Spec => []MainHoldsVerifiedHead
BY PromotionCorrect, PTL

(* task-promote closes a task only after the checks it owns have run. *)
THEOREM ClosedTasksWereChecked == Spec => []ClosedTaskWasChecked
BY PromotionCorrect, PTL

(* A combined result does not outlive the next recorded integration. *)
THEOREM CombinedResultsAreCurrent == Spec => []CombinedResultIsCurrent
BY PromotionCorrect, PTL

-----------------------------------------------------------------------------
(* The phase. *)

\* The phase moves along its table: the promotion, which may find the meeting in
\* any phase, consults it like the others.
THEOREM PhaseCorrect == Spec => PhaseFollowsTable
<1>1. Typed /\ [Next]_vars => [phase' # phase => phase' \in PhaseTransitions[phase]]_phase
  <2> SUFFICES ASSUME Typed, [Next]_vars, phase' # phase
               PROVE  phase' \in PhaseTransitions[phase]
    OBVIOUS
  <2>1. phase \in MeetingPhase
    BY DEF Typed, TypeOK
  <2>2. \/ StartMeeting \/ CompleteMeeting
        \/ \E p \in OperatorPhases : ChangePhase(p)
    BY DEF Next, Command, Progress, Outside, Stop, vars, meetingVars, pastVars, Disturb,
       AdvanceMain, ProposeTask, BeginPrepare, RetryTask, BeginReport, BeginExecute, TaskReady, MarkReady,
       RequestApproval, Approve, Reject, BeginIntegrate, BeginPromote, AssignTask,
       PrepareIntegration, PrepareWorktree, PrepareAccept, PrepareRecord, SubmitReport,
       BlockOnHuman, WorkerFails, CheckScope, RunChecks, FinishReady, ConfirmIdentity, Snapshot,
       ReadSource, CheckSource, MergeTask, RecordIntegration, VerifyCombination, MergeMain,
       CloseTask
  <2>3. CASE StartMeeting
    BY <2>3 DEF StartMeeting, PhaseTransitions
  <2>4. CASE CompleteMeeting
    BY <2>4 DEF CompleteMeeting
  <2>5. ASSUME NEW p \in OperatorPhases, ChangePhase(p)
        PROVE  phase' \in PhaseTransitions[phase]
    BY <2>5 DEF ChangePhase
  <2> QED
    BY <2>2, <2>3, <2>4, <2>5
<1>2. Spec => []Typed
  BY TypedInit, TypedStep, PTL DEF Spec
<1> QED
  BY <1>1, <1>2, PTL DEF Spec, PhaseFollowsTable

-----------------------------------------------------------------------------
(* The workflow implements the delivery gate. *)

LEMMA GateStep ==
    ASSUME TypeOK, LocalsOK, Evidence, InFlight, PromotionInv, [Next]_vars
    PROVE  [Gate!GateNext]_(Gate!gateVars)
<1> USE DEF Gate!gateVars, Delivered
<1>1. ASSUME NEW ok \in BOOLEAN, RunChecks(ok) PROVE Gate!GateNext \/ UNCHANGED Gate!gateVars
  <2>1. cur \in Task /\ wt[cur].tree \in Content
    BY <1>1 DEF RunChecks, LocalsOK, OnTask, OnWorktree, ProgramPoint, TypeOK, Identity
  <2>2. UNCHANGED Gate!gateVars \/ Gate!Validate(cur, wt[cur].tree)
    BY <1>1 DEF RunChecks, Gate!Validate, gitVars
  <2> QED
    BY <2>1, <2>2 DEF Gate!GateNext
<1>2. ASSUME NEW t \in Task, Approve(t) PROVE Gate!GateNext
  <2>1. valid[t].id.tree \in Content
    BY <1>2 DEF Approve, Verified, TypeOK, Validation, Identity
  <2>2. Gate!Grant(t, valid[t].id.tree)
    BY <1>2 DEF Approve, Evidence, Gate!Grant, gitVars
  <2> QED
    BY <2>1, <2>2 DEF Gate!GateNext
<1>3. CASE MergeTask
  <2>1. cur \in Task /\ source \in Commit
    BY <1>3 DEF MergeTask, LocalsOK, OnTask, ProgramPoint, TypeOK
  <2>2. /\ <<cur, source.tree>> \in validated
        /\ Manual => <<cur, source.tree>> \in granted
    <3>1. /\ Verified(cur) /\ ApprovalBinds(cur)
          /\ source.tree = valid[cur].id.tree
      BY <1>3 DEF MergeTask, InFlight, Flight
    <3>2. valid[cur].id \in Identity
      BY <2>1, <3>1 DEF Verified, TypeOK, Validation
    <3>3. valid[cur].id # None
      BY <3>2, NoneAssumption
    <3> QED
      BY <2>1, <3>1, <3>3 DEF Evidence, ApprovalBinds
  <2>3. integ'.head = integ.head \cup {[task |-> cur, commit |-> source]}
    BY <1>3 DEF MergeTask, TypeOK
  <2>4. Gate!Integrate(cur, source)
    BY <1>3, <2>2, <2>3 DEF MergeTask, Gate!Integrate, pastVars
  <2> QED
    BY <2>1, <2>4 DEF Gate!GateNext
<1>4. ASSUME NEW ok \in BOOLEAN, NEW clean \in BOOLEAN, VerifyCombination(ok, clean)
      PROVE  Gate!GateNext \/ UNCHANGED Gate!gateVars
  <2>1. ChecksOfPromotion \in SUBSET Task
    BY DEF ChecksOfPromotion
  <2>2. UNCHANGED Gate!gateVars \/ Gate!VerifyHead(ChecksOfPromotion)
    BY <1>4 DEF VerifyCombination, Gate!VerifyHead, gitVars
  <2> QED
    BY <2>1, <2>2 DEF Gate!GateNext
<1>5. CASE MergeMain
  <2>1. /\ Entry(combinedValid) \in combined
        /\ combinedValid.head = integ.head
        /\ combinedValid.clean
        /\ Delivered' = integ.head
        /\ UNCHANGED <<integ, validated, granted, combined>>
    BY <1>5, PromotionDelivers DEF MergeMain, CombinationIsCurrent, LocalsOK, PromotionInv, pastVars
  <2>2. Gate!Promote(Entry(combinedValid))
    BY <2>1 DEF Gate!Promote, Entry
  <2> QED
    BY <2>1, <2>2 DEF Gate!GateNext
<1>6. ASSUME NEW t \in Task, RequestApproval(t) \/ Reject(t) \/ CloseTask(t)
      PROVE  UNCHANGED Gate!gateVars
  BY <1>6 DEF RequestApproval, Reject, CloseTask, gitVars, pastVars
<1>7. CASE RecordIntegration
  BY <1>7 DEF RecordIntegration, gitVars, pastVars
<1> QED
  BY EvidenceFrame, PromotionFrame, <1>1, <1>2, <1>3, <1>4, <1>5, <1>6, <1>7 DEF EvidenceVars

\* Every step of the workflow is a step the delivery gate allows, as long as the
\* worktree being integrated is not changed between the two reads of its source.
THEOREM GateCorrect ==
    ASSUME "tree" \notin Exposed
    PROVE  Spec => ImplementsGate
<1> DEFINE Inv == DeliveryInv /\ PromotionInv
<1>1. Init => Inv
  BY DeliveryInit DEF Init, PromotionInv, Delivered, MainHoldsVerifiedHead,
     CombinedResultIsCurrent, LogNeverAheadOfGit, ClosedTaskWasChecked, Absent
<1>2. Inv /\ [Next]_vars => Inv'
  BY TypedStep, EvidenceStep, InFlightStep, DeliveredStep, PromotionStep
     DEF DeliveryInv, Typed
<1>3. Init => Gate!GateInit
  BY DEF Init, Gate!GateInit, Delivered
<1>4. Inv /\ [Next]_vars => [Gate!GateNext]_(Gate!gateVars)
  BY GateStep DEF DeliveryInv, Typed
<1> QED
  BY <1>1, <1>2, <1>3, <1>4, PTL DEF Spec, ImplementsGate, Gate!GateSpec

-----------------------------------------------------------------------------
(* What a task past the ready gate was asked, and what a validation saw. *)

\* A report is replaced only while its task runs, which is before the gate and
\* never again after it.
AnsweredInv ==
    /\ pc = "submit" => status[cur] = "running"
    /\ \A t \in Task : status[t] \in {"ready_for_report", "in_review", "integrated", "merged"} =>
          report[t] # None /\ ~report[t].human

\* The actions that mark a task ready or past it, or replace a report.
LEMMA AnsweredFrame ==
    ASSUME TypeOK, LocalsOK, [Next]_vars
    PROVE  \/ \E r \in Reports : SubmitReport(r)
           \/ FinishReady \/ RecordIntegration
           \/ \E t \in Task : TaskReady(t) \/ CloseTask(t)
           \/ \E t \in Task : BeginReport(t) \/ BeginExecute(t)
           \/ /\ report' = report
              /\ \A t \in Task : status'[t] \in {"ready_for_report", "in_review", "integrated", "merged"} =>
                    status'[t] = status[t]
              /\ pc' = "submit" => pc = "submit" /\ cur' = cur /\ status' = status
<1>1. status \in [Task -> TaskStatus \cup {Absent}]
  BY DEF TypeOK
<1> USE <1>1 DEF SetStatus, Begin, Goto, Finish, Idle, Atomic, meetingVars, gitVars, localVars,
                 pastVars
<1>2. CASE Command
  BY <1>2 DEF Command, StartMeeting, ChangePhase, ProposeTask, BeginPrepare, RetryTask,
     RequestApproval, Approve, Reject, BeginIntegrate, BeginPromote
<1>3. CASE Progress
  <2>1. CASE AssignTask \/ PrepareAccept \/ BlockOnHuman \/ WorkerFails
    BY <2>1 DEF AssignTask, PrepareAccept, BlockOnHuman, WorkerFails
  <2>2. CASE \/ PrepareIntegration \/ PrepareWorktree \/ PrepareRecord \/ CheckScope
             \/ \E ok \in BOOLEAN : RunChecks(ok)
             \/ ConfirmIdentity \/ Snapshot \/ ReadSource \/ CheckSource
             \/ MergeTask \/ MergeMain \/ CompleteMeeting
             \/ \E ok, clean \in BOOLEAN : VerifyCombination(ok, clean)
    BY <2>2 DEF PrepareIntegration, PrepareWorktree, PrepareRecord, CheckScope, RunChecks,
       ConfirmIdentity, Snapshot, ReadSource, CheckSource, MergeTask, MergeMain, CompleteMeeting,
       VerifyCombination
  <2> QED
    BY <1>3, <2>1, <2>2 DEF Progress
<1>4. CASE Outside \/ Stop \/ UNCHANGED vars
  BY <1>4 DEF Outside, Disturb, AdvanceMain, Stop, vars
<1> QED
  BY <1>2, <1>3, <1>4 DEF Next

LEMMA AnsweredStep ==
    ASSUME TypeOK, LocalsOK, AnsweredInv, [Next]_vars PROVE AnsweredInv'
<1>1. /\ status \in [Task -> TaskStatus \cup {Absent}]
      /\ report \in [Task -> Report \cup {None}]
  BY DEF TypeOK
<1> USE <1>1 DEF AnsweredInv, SetStatus, Begin, Goto, Finish, Idle, Atomic
<1>2. ASSUME NEW r \in Reports, SubmitReport(r) PROVE AnsweredInv'
  BY <1>2 DEF SubmitReport, AfterReport
<1>3. CASE FinishReady
  BY <1>3 DEF FinishReady, MarkReady, HasReadyEvidence
<1>4. CASE RecordIntegration
  BY <1>4 DEF RecordIntegration, Reviewable
<1>5. ASSUME NEW t \in Task, TaskReady(t) PROVE AnsweredInv'
  BY <1>5 DEF TaskReady, MarkReady, HasReadyEvidence, localVars
<1>6. ASSUME NEW t \in Task, CloseTask(t) PROVE AnsweredInv'
  BY <1>6 DEF CloseTask, localVars
<1>7. ASSUME NEW t \in Task, BeginReport(t) \/ BeginExecute(t) PROVE AnsweredInv'
  BY <1>7 DEF BeginReport, BeginExecute
<1> QED
  BY AnsweredFrame, <1>2, <1>3, <1>4, <1>5, <1>6, <1>7

\* A task that asks for a human does not get past the ready gate, by whichever of
\* the commands.
THEOREM ReadyTasksAreAnswered == Spec => []ReadyTaskIsAnswered
<1> DEFINE Inv == Typed /\ AnsweredInv
<1>1. Init => Inv
  BY TypedInit DEF Init, AnsweredInv, Absent
<1>2. Inv /\ [Next]_vars => Inv'
  BY TypedStep, AnsweredStep DEF Typed
<1>3. Inv => ReadyTaskIsAnswered
  BY DEF AnsweredInv, ReadyTaskIsAnswered
<1> QED
  BY <1>1, <1>2, <1>3, PTL DEF Spec

\* A validation of a task without a recorded base is no way around the base: such
\* a task is past the point where a base may still be recorded.
ScopeInv ==
    /\ pc = "submit" => status[cur] = "running"
    /\ pc \in {"scope", "checks"} => base[cur] \/ status[cur] = "running"
    /\ pc \in {"prep_integration", "prep_worktree", "prep_accept", "prep_record"} =>
          base[cur] \/ status[cur] \in {"assigned", "accepted"}
    /\ pc = "checks" /\ scopeOk /\ base[cur] => wt[cur].tree \in InScope \cup {Clean}
    /\ \A t \in Task : ~base[t] /\ valid[t] # None =>
          status[t] \notin {Absent, "proposed", "assigned", "accepted"}
    /\ ValidatedIsInScope

\* Unprepared: the statuses of a task that may still get its base.
Unprepared == {Absent, "proposed", "assigned", "accepted"}

ScopePoint == {"submit", "scope", "checks", "prep_integration", "prep_worktree", "prep_accept",
               "prep_record"}

\* Away from these points only a status that falls back could hurt it.
LEMMA ScopeFrame ==
    ASSUME ScopeInv, UNCHANGED <<base, valid>>, pc' \notin ScopePoint,
           \A t \in Task : status'[t] \in Unprepared => status[t] \in Unprepared \/ base[t]
    PROVE  ScopeInv'
BY DEF ScopeInv, ScopePoint, Unprepared, ValidatedIsInScope, Verified

LEMMA ScopeStep ==
    ASSUME "checks" \notin Exposed, TypeOK, LocalsOK, ScopeInv, [Next]_vars PROVE ScopeInv'
<1>1. /\ status \in [Task -> TaskStatus \cup {Absent}]
      /\ base \in [Task -> BOOLEAN]
      /\ valid \in [Task -> Validation \cup {None}]
      /\ wt \in [Task -> Identity \cup {None}]
      /\ scopeOk \in BOOLEAN
  BY DEF TypeOK
<1>2. pc \in OnTask => cur \in Task
  BY DEF LocalsOK
<1> USE <1>1, <1>2, NoneAssumption
    DEF SetStatus, Begin, Goto, Finish, Idle, Atomic, MayBecome, OnTask, ProgramPoint
<1>3. CASE UNCHANGED <<status, base, valid, wt, pc, cur, scopeOk>>
  BY <1>3 DEF ScopeInv, ValidatedIsInScope, Verified
<1>4. CASE Command
  <2>1. CASE \/ StartMeeting \/ \E p \in OperatorPhases : ChangePhase(p)
             \/ \E t \in Task : RequestApproval(t) \/ Approve(t) \/ Reject(t)
    BY <2>1, <1>3 DEF StartMeeting, ChangePhase, RequestApproval, Approve, Reject, localVars,
       gitVars
  <2>2. ASSUME NEW t \in Task, ProposeTask(t) \/ RetryTask(t) \/ TaskReady(t)
        PROVE  ScopeInv'
    <3>1. /\ UNCHANGED <<base, valid>> /\ pc' \in {"assign", "idle"}
          /\ \A u \in Task : status'[u] \in Unprepared => status[u] \in Unprepared \/ base[u]
      <4>1. CASE ProposeTask(t)
        BY <4>1 DEF ProposeTask, Unprepared
      <4>2. CASE RetryTask(t)
        <5>1. base[t] /\ UNCHANGED <<base, valid>> /\ pc' = "idle"
          BY <4>2 DEF RetryTask, localVars
        <5>2. status' = [status EXCEPT ![t] = "accepted"]
          BY <4>2 DEF RetryTask
        <5> QED
          BY <5>1, <5>2 DEF Unprepared
      <4>3. CASE TaskReady(t)
        BY <4>3 DEF TaskReady, MarkReady, Unprepared, Absent, localVars
      <4> QED
        BY <2>2, <4>1, <4>2, <4>3
    <3> QED
      BY <3>1, ScopeFrame DEF ScopePoint
  <2>3. ASSUME NEW t \in Task, BeginPrepare(t) PROVE ScopeInv'
    BY <2>3 DEF BeginPrepare, MayPrepare, meetingVars, gitVars, ScopeInv, ValidatedIsInScope,
       Verified
  <2>4. ASSUME NEW t \in Task, BeginReport(t) \/ BeginExecute(t) PROVE ScopeInv'
    <3>1. /\ UNCHANGED <<base, valid>> /\ pc' = "submit" /\ cur' = t
          /\ status' = [status EXCEPT ![t] = "running"]
      BY <2>4 DEF BeginReport, BeginExecute
    <3> QED
      BY <3>1 DEF ScopeInv, ValidatedIsInScope, Verified, Absent
  <2>5. ASSUME NEW t \in Task, BeginIntegrate(t) PROVE ScopeInv'
    <3>1. UNCHANGED <<status, base, valid>>
      BY <2>5 DEF BeginIntegrate, meetingVars
    <3>2. CASE base[t]
      <4>1. Begin("integrate", "scope", t) \/ Finish
        BY <2>5, Zenon DEF BeginIntegrate
      <4>2. (pc' = "scope" /\ cur' = t) \/ pc' = "idle"
        BY <4>1
      <4> QED
        BY <3>1, <3>2, <4>2 DEF ScopeInv, ValidatedIsInScope, Verified
    <3>3. CASE ~ base[t]
      <4>1. pc' = "idle"
        BY <2>5, <3>3, Zenon DEF BeginIntegrate
      <4> QED
        BY <3>1, <4>1, ScopeFrame DEF ScopePoint
    <3> QED
      BY <3>2, <3>3
  <2>6. CASE BeginPromote
    BY <2>6, ScopeFrame DEF BeginPromote, meetingVars, ScopePoint
  <2> QED
    BY <1>4, <2>1, <2>2, <2>3, <2>4, <2>5, <2>6 DEF Command
<1>5. ASSUME NEW ok \in BOOLEAN, RunChecks(ok) PROVE ScopeInv'
  <2> DEFINE result == [passed |-> ok /\ scopeOk, id |-> wt[cur], report |-> report[cur]]
  <2>1. /\ valid' = [valid EXCEPT ![cur] = result]
        /\ pc = "checks" /\ cur \in Task
        /\ UNCHANGED <<status, base, cur>> /\ pc' \notin ScopePoint
    BY <1>5 DEF RunChecks, ScopePoint
  <2>2. result.passed => scopeOk
    OBVIOUS
  <2>3. result.id = wt[cur]
    OBVIOUS
  <2> HIDE DEF result
  <2>4. result.passed /\ base[cur] => result.id.tree \in InScope \cup {Clean}
    BY <2>1, <2>2, <2>3 DEF ScopeInv
  <2>5. \A t \in Task : valid'[t] = IF t = cur THEN result ELSE valid[t]
    BY <2>1
  <2>6. ValidatedIsInScope'
    BY <2>1, <2>4, <2>5 DEF ScopeInv, ValidatedIsInScope, Verified
  <2>7. \A t \in Task : ~base'[t] /\ valid'[t] # None => status'[t] \notin Unprepared
    BY <2>1, <2>5 DEF ScopeInv, Unprepared, Absent
  <2> QED
    BY <2>1, <2>6, <2>7 DEF ScopeInv, ScopePoint, Unprepared
<1>6. CASE CheckScope
  <2>1. base[cur] /\ scopeOk' => wt[cur].tree \in InScope \cup {Clean}
    BY <1>6 DEF CheckScope, Changed
  <2> QED
    BY <1>6, <2>1 DEF CheckScope, meetingVars, gitVars, ScopeInv, ValidatedIsInScope, Verified
<1>7. CASE AssignTask \/ BlockOnHuman \/ FinishReady
  <2>1. /\ UNCHANGED <<base, valid>> /\ pc' = "idle"
        /\ \A u \in Task : status'[u] \in Unprepared => status[u] \in Unprepared \/ base[u]
    BY <1>7 DEF AssignTask, BlockOnHuman, FinishReady, MarkReady, TaskTransitions, TaskStatus,
       Unprepared, Absent
  <2> QED
    BY <2>1, ScopeFrame DEF ScopePoint
<1>8. CASE WorkerFails
  <2>1. /\ UNCHANGED <<base, valid>> /\ pc' = "idle"
        /\ status' = status \/ status' = [status EXCEPT ![cur] = "failed"]
    BY <1>8 DEF WorkerFails
  <2> QED
    BY <2>1, ScopeFrame DEF ScopePoint, Unprepared, Absent
<1>9. CASE PrepareAccept
  <2>1. /\ UNCHANGED <<base, valid, cur>> /\ pc = "prep_accept" /\ pc' = "prep_record" /\ cur \in Task
        /\ \/ status' = status
           \/ status[cur] = "assigned" /\ status' = [status EXCEPT ![cur] = "accepted"]
    BY <1>9 DEF PrepareAccept
  <2> QED
    BY <2>1 DEF ScopeInv, ValidatedIsInScope, Verified
<1>10. CASE PrepareRecord
  <2>1. /\ pc = "prep_record" /\ pc' = "idle" /\ cur \in Task
        /\ UNCHANGED <<status, valid>> /\ base' = [base EXCEPT ![cur] = TRUE]
    BY <1>10 DEF PrepareRecord
  <2> QED
    BY <2>1 DEF ScopeInv, ValidatedIsInScope, Verified
<1>11. ASSUME NEW r \in Reports, SubmitReport(r) PROVE ScopeInv'
  BY <1>11 DEF SubmitReport, AfterReport, ScopeInv, ValidatedIsInScope, Verified
<1>12. CASE PrepareIntegration \/ PrepareWorktree
  BY <1>12 DEF PrepareIntegration, PrepareWorktree, meetingVars, ScopeInv, ValidatedIsInScope,
     Verified
<1>13. CASE \/ ConfirmIdentity \/ Snapshot \/ ReadSource \/ CheckSource \/ MergeTask
            \/ MergeMain \/ CompleteMeeting
            \/ \E ok, clean \in BOOLEAN : VerifyCombination(ok, clean)
  BY <1>13, ScopeFrame DEF ConfirmIdentity, Snapshot, ReadSource, CheckSource, MergeTask,
     MergeMain, CompleteMeeting, VerifyCombination, meetingVars, ScopePoint
<1>14. CASE RecordIntegration \/ \E t \in Task : CloseTask(t)
  <2>1. /\ UNCHANGED <<base, valid>> /\ pc' \in {"idle", "close_tasks"}
        /\ \A u \in Task : status'[u] \in Unprepared => status[u] \in Unprepared \/ base[u]
    BY <1>14 DEF RecordIntegration, CloseTask, Unprepared, Absent, localVars
  <2> QED
    BY <2>1, ScopeFrame DEF ScopePoint
<1>15. CASE Outside
  <2>1. ASSUME NEW t \in Task, Disturb(t) PROVE ScopeInv'
    <3>1. /\ UNCHANGED <<status, base, valid, pc, cur, scopeOk>>
          /\ pc = "checks" => wt'[cur] = wt[cur]
      BY <2>1 DEF Disturb, meetingVars, localVars
    <3> QED
      BY <3>1 DEF ScopeInv, ValidatedIsInScope, Verified
  <2>2. CASE AdvanceMain
    BY <2>2, <1>3 DEF AdvanceMain, meetingVars, localVars
  <2> QED
    BY <1>15, <2>1, <2>2 DEF Outside
<1>16. CASE Stop \/ UNCHANGED vars
  BY <1>16, <1>3, ScopeFrame DEF Stop, vars, meetingVars, gitVars, localVars, ScopePoint
<1> QED
  BY <1>4, <1>5, <1>6, <1>7, <1>8, <1>9, <1>10, <1>11, <1>12, <1>13, <1>14, <1>15, <1>16
     DEF Next, Progress

\* A passing validation of a prepared task saw only allowed changes, as long as the
\* worktree is not changed while its checks run.
THEOREM ValidationsAreInScope ==
    ASSUME "checks" \notin Exposed
    PROVE  Spec => []ValidatedIsInScope
<1> DEFINE Inv == Typed /\ ScopeInv
<1>1. Init => Inv
  BY TypedInit DEF Init, ScopeInv, ValidatedIsInScope, Verified, Absent
<1>2. Inv /\ [Next]_vars => Inv'
  BY TypedStep, ScopeStep DEF Typed
<1>3. Inv => ValidatedIsInScope
  BY DEF ScopeInv
<1> QED
  BY <1>1, <1>2, <1>3, PTL DEF Spec

=============================================================================
