------------------------------ MODULE AtomicLog ------------------------------
(***************************************************************************)
(* What the event store promises to the commands of a meeting: without     *)
(* processes, locks, memory or transactions, an event is decided on and    *)
(* recorded in one step, in sight of all the events before it.             *)
(***************************************************************************)
EXTENDS Naturals, Sequences

CONSTANTS Meeting, Roster

VARIABLE log      \* the events of each meeting

LogInit == log = [m \in Meeting |-> <<>>]

\* A started meeting is not started again, and it is continued by the roster it
\* was started with.
MayFollow(events, type, roster) ==
    \A i \in DOMAIN events : events[i].type = "meeting.started" =>
        type # "meeting.started" /\ roster = events[i].roster

Record(m, type, roster) ==
    /\ MayFollow(log[m], type, roster)
    /\ log' = [log EXCEPT ![m] =
          Append(@, [type |-> type, roster |-> roster, seen |-> Len(@)])]

LogNext ==
    \E m \in Meeting, type \in {"meeting.started", "other"}, roster \in Roster :
        Record(m, type, roster)

LogSpec == LogInit /\ [][LogNext]_log

=============================================================================
