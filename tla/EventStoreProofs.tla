--------------------------- MODULE EventStoreProofs ---------------------------
(***************************************************************************)
(* Proofs about EventStore, for any number of processes and meetings.      *)
(***************************************************************************)
EXTENDS EventStore, TLAPS

\* Who holds which lock, and who writes.
Exclusive ==
    /\ \A p \in Process : pc[p] \in Holding <=> lock[meeting[p]] = p
    /\ \A p \in Process : pc[p] = "committing" <=> writer = p

\* An event about to be recorded was decided on the view it will extend.
DraftIsFresh ==
    \A p \in Process :
        /\ pc[p] \in {"inserting", "committing"} => draft[p].seen = Len(view[p])

StoreInv ==
    /\ TypeOK
    /\ Exclusive
    /\ DraftIsFresh
    /\ ViewIsReplay
    /\ DecidedOnWholeLog

LEMMA StoreInit == Init => StoreInv
<1> SUFFICES ASSUME Init PROVE StoreInv
  OBVIOUS
<1> USE EventStoreAssumption DEF Init
<1>1. TypeOK
  BY DEF TypeOK, Event, ProgramPoint
<1>2. Exclusive /\ DraftIsFresh /\ ViewIsReplay /\ DecidedOnWholeLog
  BY DEF Exclusive, Holding, ProgramPoint, DraftIsFresh, ViewIsReplay, DecidedOnWholeLog
<1> QED
  BY <1>1, <1>2 DEF StoreInv

LEMMA StoreTyped == ASSUME TypeOK, [Next]_vars PROVE TypeOK'
<1> USE EventStoreAssumption DEF TypeOK, Goto, ProgramPoint
<1>1. ASSUME NEW p \in Process, Acquire(p) \/ OpenStore(p) \/ OpenFails(p)
      PROVE  TypeOK'
  <2>1. CASE Acquire(p)
    BY <2>1 DEF Acquire
  <2>2. CASE OpenStore(p)
    BY <2>2 DEF OpenStore
  <2>3. CASE OpenFails(p)
    BY <2>3 DEF OpenFails
  <2> QED
    BY <1>1, <2>1, <2>2, <2>3
<1>8. ASSUME NEW p \in Process, Replay(p) PROVE TypeOK'
  <2>1. view' \in [Process -> Seq(Event)]
    BY <1>8 DEF Replay
  <2>2. pc' \in [Process -> ProgramPoint]
    BY <1>8 DEF Replay
  <2>3. UNCHANGED <<meeting, roster, draft, lock, writer, log>>
    BY <1>8 DEF Replay
  <2> QED
    BY <2>1, <2>2, <2>3
<1>2. ASSUME NEW p \in Process, NEW type \in {"meeting.started", "other"}, Decide(p, type)
      PROVE  TypeOK'
  <2>1. [type |-> type, roster |-> roster[p], seen |-> Len(view[p])] \in Event
    BY DEF Event
  <2>2. draft' \in [Process -> Event]
    BY <2>1, <1>2 DEF Decide
  <2> QED
    BY <2>2, <1>2 DEF Decide
<1>3. ASSUME NEW p \in Process, Insert(p) \/ DatabaseIsLocked(p) \/ Leave(p)
                                 \/ CloseStore(p) \/ Release(p)
      PROVE  TypeOK'
  BY <1>3 DEF Insert, DatabaseIsLocked, Leave, CloseStore, Release
<1>4. ASSUME NEW p \in Process, Commit(p) PROVE TypeOK'
  <2>1. /\ meeting[p] \in Meeting
        /\ Append(log[meeting[p]], draft[p]) \in Seq(Event)
    OBVIOUS
  <2>2. log' \in [Meeting -> Seq(Event)]
    BY <2>1, <1>4 DEF Commit
  <2> QED
    BY <2>2, <1>4 DEF Commit
<1>5. ASSUME NEW p \in Process, Apply(p) PROVE TypeOK'
  <2>1. Append(view[p], draft[p]) \in Seq(Event)
    OBVIOUS
  <2>2. view' \in [Process -> Seq(Event)]
    BY <2>1, <1>5 DEF Apply
  <2> QED
    BY <2>2, <1>5 DEF Apply
<1>6. ASSUME NEW p \in Process, Crash(p) PROVE TypeOK'
  BY <1>6 DEF Crash
<1>7. CASE UNCHANGED vars
  BY <1>7 DEF vars
<1> QED
  BY <1>1, <1>2, <1>3, <1>4, <1>5, <1>6, <1>7, <1>8 DEF Next, Step, Terminated

LEMMA StoreExclusive == ASSUME TypeOK, Exclusive, [Next]_vars PROVE Exclusive'
<1>0. /\ pc \in [Process -> ProgramPoint]
      /\ meeting \in [Process -> Meeting]
      /\ lock \in [Meeting -> Process \cup {NoProcess}]
  BY DEF TypeOK
<1> USE <1>0, EventStoreAssumption DEF Exclusive, Goto, ProgramPoint, Holding
<1>1. ASSUME NEW p \in Process, Acquire(p) \/ OpenStore(p) \/ OpenFails(p) \/ Replay(p)
      PROVE  Exclusive'
  BY <1>1 DEF Acquire, OpenStore, OpenFails, Replay
<1>2. ASSUME NEW p \in Process, NEW type \in {"meeting.started", "other"}, Decide(p, type)
      PROVE  Exclusive'
  BY <1>2 DEF Decide
<1>3. ASSUME NEW p \in Process, Insert(p) \/ DatabaseIsLocked(p) \/ Commit(p) \/ Apply(p)
      PROVE  Exclusive'
  BY <1>3 DEF Insert, DatabaseIsLocked, Commit, Apply
<1>4. ASSUME NEW p \in Process, Leave(p) \/ CloseStore(p) \/ Release(p) PROVE Exclusive'
  BY <1>4 DEF Leave, CloseStore, Release
<1>5. ASSUME NEW p \in Process, Crash(p) PROVE Exclusive'
  BY <1>5 DEF Crash
<1>6. CASE UNCHANGED vars
  BY <1>6 DEF vars
<1> QED
  BY <1>1, <1>2, <1>3, <1>4, <1>5, <1>6 DEF Next, Step, Terminated

\* Another process that is past its replay works on another meeting.
LEMMA OthersElsewhere ==
    ASSUME TypeOK, Exclusive, NEW p \in Process, NEW q \in Process, p # q,
           pc[p] \in Holding, pc[q] \in Holding
    PROVE  meeting[p] # meeting[q]
BY DEF Exclusive

LEMMA StoreFresh ==
    ASSUME TypeOK, DraftIsFresh, [Next]_vars
    PROVE  DraftIsFresh'
<1> USE DEF TypeOK, DraftIsFresh, Goto
<1>1. ASSUME NEW p \in Process, Acquire(p) \/ OpenStore(p) \/ OpenFails(p) \/ Replay(p)
      PROVE  DraftIsFresh'
  BY <1>1 DEF Acquire, OpenStore, OpenFails, Replay
<1>2. ASSUME NEW p \in Process, NEW type \in {"meeting.started", "other"}, Decide(p, type)
      PROVE  DraftIsFresh'
  BY <1>2 DEF Decide
<1>3. ASSUME NEW p \in Process, Insert(p) \/ DatabaseIsLocked(p) \/ Commit(p) \/ Apply(p)
      PROVE  DraftIsFresh'
  BY <1>3 DEF Insert, DatabaseIsLocked, Commit, Apply
<1>4. ASSUME NEW p \in Process, Leave(p) \/ CloseStore(p) \/ Release(p) \/ Crash(p)
      PROVE  DraftIsFresh'
  BY <1>4 DEF Leave, CloseStore, Release, Crash
<1>5. CASE UNCHANGED vars
  BY <1>5 DEF vars
<1> QED
  BY <1>1, <1>2, <1>3, <1>4, <1>5 DEF Next, Step, Terminated

LEMMA StoreReplay ==
    ASSUME TypeOK, Exclusive, ViewIsReplay, [Next]_vars
    PROVE  ViewIsReplay'
<1> USE DEF TypeOK, ViewIsReplay, Goto
<1>1. ASSUME NEW p \in Process, Acquire(p) \/ OpenStore(p) \/ OpenFails(p) \/ Replay(p)
      PROVE  ViewIsReplay'
  BY <1>1 DEF Acquire, OpenStore, OpenFails, Replay
<1>2. ASSUME NEW p \in Process, NEW type \in {"meeting.started", "other"}, Decide(p, type)
      PROVE  ViewIsReplay'
  BY <1>2 DEF Decide
<1>3. ASSUME NEW p \in Process, Insert(p) \/ DatabaseIsLocked(p) \/ Apply(p)
      PROVE  ViewIsReplay'
  BY <1>3 DEF Insert, DatabaseIsLocked, Apply
<1>4. ASSUME NEW p \in Process, Commit(p) PROVE ViewIsReplay'
  <2>1. \A q \in Process : q # p /\ pc[q] \in Holding => meeting[q] # meeting[p]
    BY <1>4, OthersElsewhere DEF Commit, Holding, ProgramPoint
  <2> QED
    BY <2>1, <1>4 DEF Commit, Holding, ProgramPoint
<1>5. ASSUME NEW p \in Process, Leave(p) \/ CloseStore(p) \/ Release(p) \/ Crash(p)
      PROVE  ViewIsReplay'
  BY <1>5 DEF Leave, CloseStore, Release, Crash
<1>6. CASE UNCHANGED vars
  BY <1>6 DEF vars
<1> QED
  BY <1>1, <1>2, <1>3, <1>4, <1>5, <1>6 DEF Next, Step, Terminated

LEMMA StoreDecided ==
    ASSUME TypeOK, ViewIsReplay, DraftIsFresh, DecidedOnWholeLog, [Next]_vars
    PROVE  DecidedOnWholeLog'
<1>1. ASSUME NEW p \in Process, Commit(p) PROVE DecidedOnWholeLog'
  <2>1. /\ meeting[p] \in Meeting
        /\ log[meeting[p]] \in Seq(Event)
        /\ draft[p] \in Event
        /\ draft[p].seen = Len(log[meeting[p]])
    BY <1>1 DEF Commit, TypeOK, ViewIsReplay, DraftIsFresh
  <2>2. log' = [log EXCEPT ![meeting[p]] = Append(@, draft[p])]
    BY <1>1 DEF Commit
  <2> QED
    BY <2>1, <2>2 DEF TypeOK, DecidedOnWholeLog
<1>2. CASE UNCHANGED log
  BY <1>2 DEF DecidedOnWholeLog
<1> QED
  BY <1>1, <1>2 DEF Next, Step, Terminated, Acquire, OpenStore, OpenFails, Replay, Decide,
     Insert, DatabaseIsLocked, Apply, Leave, CloseStore, Release, Crash, vars

\* No event is appended on a stale state, and the state in memory is the replay of
\* the log: for any number of processes, meetings and crashes.
THEOREM StoreCorrect == Spec => [](DecidedOnWholeLog /\ ViewIsReplay)
<1>1. StoreInv /\ [Next]_vars => StoreInv'
  BY StoreTyped, StoreExclusive, StoreFresh, StoreReplay, StoreDecided DEF StoreInv
<1>2. StoreInv => DecidedOnWholeLog /\ ViewIsReplay
  BY DEF StoreInv
<1> QED
  BY StoreInit, <1>1, <1>2, PTL DEF Spec

\* The events of a meeting are only ever added to.
THEOREM LogCorrect == Spec => LogOnlyGrows
<1>1. ASSUME TypeOK, [Next]_vars
      PROVE  [\A m \in Meeting :
                /\ Len(log'[m]) >= Len(log[m])
                /\ \A i \in DOMAIN log[m] : log'[m][i] = log[m][i]]_log
  <2>1. ASSUME NEW p \in Process, Commit(p)
        PROVE  \A m \in Meeting :
                 /\ Len(log'[m]) >= Len(log[m])
                 /\ \A i \in DOMAIN log[m] : log'[m][i] = log[m][i]
    BY <1>1, <2>1 DEF Commit, TypeOK
  <2> QED
    BY <1>1, <2>1 DEF Next, Step, Terminated, Acquire, OpenStore, OpenFails, Replay, Decide,
       Insert, DatabaseIsLocked, Apply, Leave, CloseStore, Release, Crash, vars
<1>2. Spec => []TypeOK
  BY StoreInit, StoreTyped, PTL DEF Spec, StoreInv
<1> QED
  BY <1>1, <1>2, PTL DEF Spec, LogOnlyGrows

(* SQLiteEventStore and MeetingFileLock: the state of the store, its lock and its
   invocations is of its type. *)
THEOREM StoreTypeCorrect == Spec => []TypeOK
BY StoreInit, StoreTyped, PTL DEF Spec, StoreInv

-----------------------------------------------------------------------------
(* The start of a meeting. *)

Recording == {"inserting", "committing", "applying"}

\* A process that records has the roster of the start it has applied, and is about
\* to record another start only if it has applied none.
RosterInv ==
    \A p \in Process :
        /\ pc[p] \in Recording \cup {"open"} =>
              \A i \in DOMAIN view[p] : view[p][i].type = "meeting.started" =>
                 view[p][i].roster = roster[p]
        /\ pc[p] \in Recording =>
              /\ draft[p].roster = roster[p]
              /\ draft[p].type = "meeting.started" => ~HasStarted(view[p])

LEMMA RosterStep == ASSUME TypeOK, RosterInv, [Next]_vars PROVE RosterInv'
<1> USE DEF TypeOK, RosterInv, Recording, Goto, HasStarted
<1>1. ASSUME NEW p \in Process, Acquire(p) \/ OpenStore(p) \/ OpenFails(p) PROVE RosterInv'
  <2>1. /\ UNCHANGED <<roster, view, draft>>
        /\ \E point \in {"opening", "replaying", "done"} : pc' = [pc EXCEPT ![p] = point]
    BY <1>1 DEF Acquire, OpenStore, OpenFails
  <2> QED
    BY <2>1
<1>2. ASSUME NEW p \in Process, Replay(p) PROVE RosterInv'
  <2>1. CASE RosterMatches(p)
    <3>1. /\ UNCHANGED <<roster, draft>> /\ pc' = [pc EXCEPT ![p] = "open"]
          /\ view' = [view EXCEPT ![p] = log[meeting[p]]]
      BY <1>2, <2>1 DEF Replay
    <3> QED
      BY <2>1, <3>1 DEF RosterMatches
  <2>2. CASE ~ RosterMatches(p)
    <3>1. pc' = [pc EXCEPT ![p] = "closing"] /\ UNCHANGED <<roster, view, draft>>
      BY <1>2, <2>2 DEF Replay
    <3> QED
      BY <3>1
  <2> QED
    BY <2>1, <2>2
<1>3. ASSUME NEW p \in Process, NEW type \in {"meeting.started", "other"}, Decide(p, type)
      PROVE  RosterInv'
  BY <1>3 DEF Decide, MayRecord
<1>4. ASSUME NEW p \in Process, Insert(p) \/ DatabaseIsLocked(p) \/ Commit(p) PROVE RosterInv'
  BY <1>4 DEF Insert, DatabaseIsLocked, Commit
<1>5. ASSUME NEW p \in Process, Apply(p) PROVE RosterInv'
  <2>1. /\ view' = [view EXCEPT ![p] = Append(view[p], draft[p])]
        /\ pc' = [pc EXCEPT ![p] = "open"] /\ pc[p] = "applying"
        /\ UNCHANGED <<roster, draft>>
    BY <1>5 DEF Apply
  <2>2. \A i \in DOMAIN view'[p] :
           view'[p][i] = IF i \in DOMAIN view[p] THEN view[p][i] ELSE draft[p]
    BY <2>1
  <2> QED
    BY <2>1, <2>2
<1>6. ASSUME NEW p \in Process, Leave(p) \/ CloseStore(p) \/ Release(p) \/ Crash(p)
      PROVE  RosterInv'
  BY <1>6 DEF Leave, CloseStore, Release, Crash
<1>7. CASE UNCHANGED vars
  BY <1>7 DEF vars
<1> QED
  BY <1>1, <1>2, <1>3, <1>4, <1>5, <1>6, <1>7 DEF Next, Step, Terminated

LEMMA StartStep ==
    ASSUME TypeOK, ViewIsReplay, RosterInv, StartIsFinal, [Next]_vars PROVE StartIsFinal'
<1>1. ASSUME NEW p \in Process, Commit(p) PROVE StartIsFinal'
  <2> DEFINE m == meeting[p]
  <2>1. /\ m \in Meeting /\ log[m] \in Seq(Event) /\ draft[p] \in Event
        /\ view[p] = log[m]
        /\ log' = [log EXCEPT ![m] = Append(log[m], draft[p])]
    BY <1>1 DEF Commit, TypeOK, ViewIsReplay
  <2>2. /\ \A i \in DOMAIN log[m] : log[m][i].type = "meeting.started" =>
              log[m][i].roster = draft[p].roster /\ draft[p].type # "meeting.started"
    BY <2>1, <1>1 DEF Commit, RosterInv, Recording, HasStarted
  <2>3. /\ Len(log'[m]) = Len(log[m]) + 1
        /\ \A i \in 1..Len(log[m]) : log'[m][i] = log[m][i]
        /\ log'[m][Len(log[m]) + 1] = draft[p]
    BY <2>1 DEF TypeOK
  <2>4. ASSUME NEW i \in DOMAIN log'[m], log'[m][i].type = "meeting.started",
               NEW j \in i+1..Len(log'[m])
        PROVE  log'[m][j].type # "meeting.started" /\ log'[m][j].roster = log'[m][i].roster
    <3>1. log'[m] \in Seq(Event)
      BY <2>1 DEF TypeOK
    <3>2. i \in 1..Len(log[m]) /\ log'[m][i] = log[m][i]
      BY <2>1, <2>3, <2>4, <3>1
    <3>3. CASE j = Len(log[m]) + 1
      BY <2>1, <2>2, <2>3, <2>4, <3>2, <3>3
    <3>4. CASE j # Len(log[m]) + 1
      <4>1. j \in i+1..Len(log[m]) /\ log'[m][j] = log[m][j]
        BY <2>1, <2>3, <2>4, <3>2, <3>4
      <4> QED
        BY <2>1, <2>4, <3>2, <4>1 DEF StartIsFinal
    <3> QED
      BY <3>3, <3>4
  <2>5. \A n \in Meeting \ {m} : log'[n] = log[n]
    BY <2>1 DEF TypeOK
  <2> HIDE DEF m
  <2> QED
    BY <2>4, <2>5 DEF StartIsFinal
<1>2. CASE UNCHANGED log
  BY <1>2 DEF StartIsFinal
<1> QED
  BY <1>1, <1>2 DEF Next, Step, Terminated, Acquire, OpenStore, OpenFails, Replay, Decide,
     Insert, DatabaseIsLocked, Apply, Leave, CloseStore, Release, Crash, vars

\* A meeting starts once, and is continued only by processes configured with
\* the roster it was started with.
THEOREM StartCorrect == Spec => []StartIsFinal
<1> DEFINE Inv == StoreInv /\ RosterInv /\ StartIsFinal
<1>1. Init => Inv
  <2> SUFFICES ASSUME Init PROVE RosterInv /\ StartIsFinal
    BY StoreInit
  <2> QED
    BY DEF Init, RosterInv, Recording, StartIsFinal
<1>2. Inv /\ [Next]_vars => Inv'
  BY StoreTyped, StoreExclusive, StoreFresh, StoreReplay, StoreDecided, RosterStep, StartStep
     DEF StoreInv
<1> QED
  BY <1>1, <1>2, PTL DEF Spec

-----------------------------------------------------------------------------
(* The refinement. *)

\* A commit records, in sight of the whole log, an event that may follow it.
LEMMA CommitRecords ==
    ASSUME StoreInv, RosterInv, NEW p \in Process, Commit(p)
    PROVE  Atomic!LogNext
<1> DEFINE m == meeting[p]
           e == draft[p]
<1>1. /\ m \in Meeting /\ log \in [Meeting -> Seq(Event)] /\ log[m] \in Seq(Event) /\ e \in Event
      /\ pc[p] = "committing" /\ view[p] = log[m] /\ e.seen = Len(view[p])
      /\ log' = [log EXCEPT ![m] = Append(log[m], e)]
  BY DEF Commit, StoreInv, TypeOK, ViewIsReplay, DraftIsFresh
<1>2. \A i \in DOMAIN log[m] : log[m][i].type = "meeting.started" =>
          e.type # "meeting.started" /\ e.roster = log[m][i].roster
  BY <1>1 DEF RosterInv, Recording, HasStarted
<1> HIDE DEF m, e
<1>3. Atomic!MayFollow(log[m], e.type, e.roster)
  BY <1>2 DEF Atomic!MayFollow
<1>4. e = [type |-> e.type, roster |-> e.roster, seen |-> Len(log[m])]
  BY <1>1 DEF Event
<1>5. Atomic!Record(m, e.type, e.roster)
  BY <1>1, <1>3, <1>4 DEF Atomic!Record
<1>6. e.type \in {"meeting.started", "other"} /\ e.roster \in Roster
  BY <1>1 DEF Event
<1> QED
  BY <1>1, <1>5, <1>6 DEF Atomic!LogNext

\* The store with its locks, processes, replays and crashes implements a log that
\* is decided on and written in single steps.
THEOREM AtomicLogCorrect == Spec => ImplementsAtomicLog
<1> DEFINE Inv == StoreInv /\ RosterInv
<1>1. Init => Inv /\ Atomic!LogInit
  BY StoreInit DEF Init, RosterInv, Recording, Atomic!LogInit
<1>2. Inv /\ [Next]_vars => Inv'
  BY StoreTyped, StoreExclusive, StoreFresh, StoreReplay, StoreDecided, RosterStep DEF StoreInv
<1>3. Inv /\ [Next]_vars => [Atomic!LogNext]_log
  <2> SUFFICES ASSUME Inv, [Next]_vars PROVE Atomic!LogNext \/ UNCHANGED log
    OBVIOUS
  <2>1. (\E p \in Process : Commit(p)) \/ UNCHANGED log
    BY DEF Next, Step, Terminated, Acquire, OpenStore, OpenFails, Replay, Decide,
       Insert, DatabaseIsLocked, Apply, Leave, CloseStore, Release, Crash, vars
  <2> QED
    BY <2>1, CommitRecords
<1> QED
  BY <1>1, <1>2, <1>3, PTL DEF Spec, ImplementsAtomicLog, Atomic!LogSpec

=============================================================================
