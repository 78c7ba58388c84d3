------------------------------ MODULE EventStore ------------------------------
(***************************************************************************)
(* The durable event log of the meetings and the file lock in front of it. *)
(*                                                                         *)
(* A process is one invocation of the CLI for one meeting.  It takes the   *)
(* meeting's lock, opens the SQLite store, replays the meeting's events,   *)
(* decides on what it replayed, appends and applies events one by one, and *)
(* closes.  It may raise or be killed at any point; the kernel then frees  *)
(* the lock and SQLite rolls an uncommitted row back.  Meetings have locks *)
(* of their own and may share one database, which has one writer at a time.*)
(*                                                                         *)
(* The in-memory MeetingState is a fold of apply over the events applied,  *)
(* so it is represented by their sequence.                                 *)
(***************************************************************************)
EXTENDS Naturals, Sequences

CONSTANTS
    Process,      \* invocations of the CLI
    Meeting,      \* meeting ids
    Roster,       \* rosters a configuration may name
    MaxEvents,    \* bound on the events of one meeting
    NoProcess     \* nobody

ASSUME EventStoreAssumption ==
    /\ MaxEvents \in Nat
    /\ NoProcess \notin Process

\* An event: its type as far as resume and start look at it, the roster of the
\* process that wrote it, and how many events that process had applied when it
\* decided to write it.
Event == [type : {"meeting.started", "other"}, roster : Roster, seen : Nat]

ProgramPoint ==
    {"locking", "opening", "replaying", "open", "inserting", "committing",
     "applying", "closing", "releasing", "done"}

\* The program points at which a process holds the lock of its meeting.
Holding == ProgramPoint \ {"locking", "done"}

VARIABLES
    meeting,   \* the meeting each process was invoked for
    roster,    \* the roster its configuration names
    pc,        \* its program point
    view,      \* the events it has applied
    draft,     \* the event it is recording
    lock,      \* the holder of each meeting's lock
    writer,    \* the process with a SQLite write transaction
    log        \* the committed events of each meeting, ORDER BY sequence

vars == <<meeting, roster, pc, view, draft, lock, writer, log>>

HasStarted(s) == \E i \in DOMAIN s : s[i].type = "meeting.started"

Init ==
    /\ meeting \in [Process -> Meeting]
    /\ roster \in [Process -> Roster]
    /\ pc = [p \in Process |-> "locking"]
    /\ view = [p \in Process |-> <<>>]
    /\ draft = [p \in Process |-> [type |-> "other", roster |-> roster[p], seen |-> 0]]
    /\ lock = [m \in Meeting |-> NoProcess]
    /\ writer = NoProcess
    /\ log = [m \in Meeting |-> <<>>]

TypeOK ==
    /\ meeting \in [Process -> Meeting]
    /\ roster \in [Process -> Roster]
    /\ pc \in [Process -> ProgramPoint]
    /\ view \in [Process -> Seq(Event)]
    /\ draft \in [Process -> Event]
    /\ lock \in [Meeting -> Process \cup {NoProcess}]
    /\ writer \in Process \cup {NoProcess}
    /\ log \in [Meeting -> Seq(Event)]

Goto(p, point) == pc' = [pc EXCEPT ![p] = point]

-----------------------------------------------------------------------------
(* Faulty variants of definitions below, each a slip the code could contain. *)

\* flock that is not exclusive.
AcquireShared(p) ==
    /\ pc[p] = "locking"
    /\ lock' = [lock EXCEPT ![meeting[p]] = p]
    /\ Goto(p, "opening")
    /\ UNCHANGED <<meeting, roster, view, draft, writer, log>>

\* resume that trusts whatever roster it was configured with.
AnyRoster(p) == TRUE

\* start that does not look at the phase.
AnyEvent(p, type) == TRUE

\* start that writes an event of a type apply does not know.
DecideUnknown(p, type) ==
    /\ pc[p] = "open"
    /\ Len(view[p]) < MaxEvents
    /\ draft' = [draft EXCEPT ![p] =
          [type |-> "started", roster |-> roster[p], seen |-> Len(view[p])]]
    /\ Goto(p, "inserting")
    /\ UNCHANGED <<meeting, roster, view, lock, writer, log>>

\* record that applies the event before it is durable and does not undo it.
InsertAndApply(p) ==
    /\ pc[p] = "inserting"
    /\ writer = NoProcess
    /\ writer' = p
    /\ view' = [view EXCEPT ![p] = Append(@, draft[p])]
    /\ Goto(p, "committing")
    /\ UNCHANGED <<meeting, roster, draft, lock, log>>

\* A constructor that leaves the lock taken when the store does not open.
OpenFailsLocked(p) ==
    /\ pc[p] = "opening"
    /\ Goto(p, "done")
    /\ UNCHANGED <<meeting, roster, view, draft, lock, writer, log>>

-----------------------------------------------------------------------------
(* CongressRuntime.resume *)

\* MeetingFileLock.acquire: flock(LOCK_EX) blocks until the lock is free.
Acquire(p) ==
    /\ pc[p] = "locking"
    /\ lock[meeting[p]] = NoProcess
    /\ lock' = [lock EXCEPT ![meeting[p]] = p]
    /\ Goto(p, "opening")
    /\ UNCHANGED <<meeting, roster, view, draft, writer, log>>

OpenStore(p) ==
    /\ pc[p] = "opening"
    /\ Goto(p, "replaying")
    /\ UNCHANGED <<meeting, roster, view, draft, lock, writer, log>>

\* The store does not open: the constructor releases the lock and raises.
OpenFails(p) ==
    /\ pc[p] = "opening"
    /\ lock' = [lock EXCEPT ![meeting[p]] = NoProcess]
    /\ Goto(p, "done")
    /\ UNCHANGED <<meeting, roster, view, draft, writer, log>>

\* The configured roster against the one the meeting was started with, if it
\* was started.
RosterMatches(p) ==
    \A i \in DOMAIN log[meeting[p]] :
        log[meeting[p]][i].type = "meeting.started" =>
            log[meeting[p]][i].roster = roster[p]

\* replay and apply; on a mismatch close and raise.
Replay(p) ==
    /\ pc[p] = "replaying"
    /\ IF RosterMatches(p)
         THEN /\ view' = [view EXCEPT ![p] = log[meeting[p]]]
              /\ Goto(p, "open")
         ELSE /\ Goto(p, "closing")
              /\ UNCHANGED view
    /\ UNCHANGED <<meeting, roster, draft, lock, writer, log>>

-----------------------------------------------------------------------------
(* record: append, then apply. *)

\* start needs the preparing phase; the other operations have guards of their
\* own over the same state.
MayRecord(p, type) == type = "meeting.started" => ~HasStarted(view[p])

Decide(p, type) ==
    /\ pc[p] = "open"
    /\ Len(view[p]) < MaxEvents
    /\ MayRecord(p, type)
    /\ draft' = [draft EXCEPT ![p] =
          [type |-> type, roster |-> roster[p], seen |-> Len(view[p])]]
    /\ Goto(p, "inserting")
    /\ UNCHANGED <<meeting, roster, view, lock, writer, log>>

\* INSERT opens the write transaction of the database.
Insert(p) ==
    /\ pc[p] = "inserting"
    /\ writer = NoProcess
    /\ writer' = p
    /\ Goto(p, "committing")
    /\ UNCHANGED <<meeting, roster, view, draft, lock, log>>

\* Another process keeps the database locked past SQLite's timeout.
DatabaseIsLocked(p) ==
    /\ pc[p] = "inserting"
    /\ writer # NoProcess
    /\ Goto(p, "closing")
    /\ UNCHANGED <<meeting, roster, view, draft, lock, writer, log>>

Commit(p) ==
    /\ pc[p] = "committing"
    /\ log' = [log EXCEPT ![meeting[p]] = Append(@, draft[p])]
    /\ writer' = NoProcess
    /\ Goto(p, "applying")
    /\ UNCHANGED <<meeting, roster, view, draft, lock>>

Apply(p) ==
    /\ pc[p] = "applying"
    /\ view' = [view EXCEPT ![p] = Append(@, draft[p])]
    /\ Goto(p, "open")
    /\ UNCHANGED <<meeting, roster, draft, lock, writer, log>>

-----------------------------------------------------------------------------
(* close, and being killed. *)

\* The command has done what it does, or an operation raised.
Leave(p) ==
    /\ pc[p] = "open"
    /\ Goto(p, "closing")
    /\ UNCHANGED <<meeting, roster, view, draft, lock, writer, log>>

CloseStore(p) ==
    /\ pc[p] = "closing"
    /\ Goto(p, "releasing")
    /\ UNCHANGED <<meeting, roster, view, draft, lock, writer, log>>

Release(p) ==
    /\ pc[p] = "releasing"
    /\ lock' = [lock EXCEPT ![meeting[p]] = NoProcess]
    /\ Goto(p, "done")
    /\ UNCHANGED <<meeting, roster, view, draft, writer, log>>

Crash(p) ==
    /\ pc[p] # "done"
    /\ Goto(p, "done")
    /\ lock' = IF pc[p] \in Holding
               THEN [lock EXCEPT ![meeting[p]] = NoProcess]
               ELSE lock
    /\ writer' = IF writer = p THEN NoProcess ELSE writer
    /\ UNCHANGED <<meeting, roster, view, draft, log>>

-----------------------------------------------------------------------------

Step(p) ==
    \/ Acquire(p) \/ OpenStore(p) \/ OpenFails(p) \/ Replay(p)
    \/ \E type \in {"meeting.started", "other"} : Decide(p, type)
    \/ Insert(p) \/ DatabaseIsLocked(p) \/ Commit(p) \/ Apply(p)
    \/ Leave(p) \/ CloseStore(p) \/ Release(p)

Terminated == (\A p \in Process : pc[p] = "done") /\ UNCHANGED vars

Next == (\E p \in Process : Step(p) \/ Crash(p)) \/ Terminated

\* A process that is not killed runs on: the scheduler runs it, flock wakes it
\* when the lock stays free, and every command ends.
Spec == Init /\ [][Next]_vars /\ \A p \in Process : WF_vars(Step(p))

-----------------------------------------------------------------------------
(* Properties. *)

\* The state in memory is the replay of the log, and lags behind it by exactly
\* the event being applied.
ViewIsReplay ==
    \A p \in Process :
        /\ pc[p] \in {"open", "inserting", "committing"} => view[p] = log[meeting[p]]
        /\ pc[p] = "applying" => log[meeting[p]] = Append(view[p], draft[p])

\* Every event was decided on by a process that had applied all the events of
\* its meeting before it: nothing is appended on a stale state.
DecidedOnWholeLog ==
    \A m \in Meeting : \A i \in DOMAIN log[m] : log[m][i].seen = i - 1

\* A meeting starts once, and from then on only processes configured with the
\* roster it was started with write to it.
StartIsFinal ==
    \A m \in Meeting : \A i \in DOMAIN log[m] :
        log[m][i].type = "meeting.started" =>
            \A j \in i+1..Len(log[m]) :
                /\ log[m][j].type # "meeting.started"
                /\ log[m][j].roster = log[m][i].roster

\* Committed events are never removed, changed or reordered.
LogOnlyGrows ==
    [][\A m \in Meeting :
          /\ Len(log'[m]) >= Len(log[m])
          /\ \A i \in DOMAIN log[m] : log'[m][i] = log[m][i]]_log

\* For the log, an invocation that records is a single step: whoever else runs,
\* waits or is killed, deciding, inserting, committing and applying an event look
\* like one step taken on the whole log.
Atomic == INSTANCE AtomicLog
ImplementsAtomicLog == Atomic!LogSpec

\* Every invocation ends: whichever way a process leaves, the lock is there
\* for those that wait for it.
EveryInvocationEnds == \A p \in Process : <>(pc[p] = "done")

=============================================================================
