----------------------------- MODULE MCEventStore -----------------------------
(* The TLC instance of EventStore. *)
EXTENDS EventStore

CONSTANTS firstProcess, firstMeeting, firstRoster

\* Meetings and rosters are interchangeable, so one process may be given either:
\* by their symmetry this leaves out no behaviour but a renaming of one it has.
\* (A SYMMETRY set would do the same for the safety properties only.)
MCInit ==
    /\ Init
    /\ meeting[firstProcess] = firstMeeting
    /\ roster[firstProcess] = firstRoster

MCSpec == MCInit /\ [][Next]_vars /\ \A p \in Process : WF_vars(Step(p))

=============================================================================
