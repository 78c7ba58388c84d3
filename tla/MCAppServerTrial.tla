---------------------------- MODULE MCAppServerTrial ----------------------------
(* The TLC instance of AppServerTrial: an investigating slot, then the executor. *)
EXTENDS AppServerTrial

MCPositions == <<1, 3>>
MCReadLimit == [p \in 1..2 |-> 1]

=============================================================================
