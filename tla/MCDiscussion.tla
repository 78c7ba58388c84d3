---------------------------- MODULE MCDiscussion ----------------------------
(* TLC instances of Discussion. *)
EXTENDS Discussion

\* The order of the configuration is not the order of the names.
MCRoster == <<2, 1, 3>>

\* A request for each intent, and two more that differ in merit: one that wins
\* over a weak one at once, one that needs the fairness bonus to reach the
\* threshold.
MCBids ==
    { [intent |-> "brief_interjection", merit |-> 4800],
      [intent |-> "replace_speaker",    merit |-> 4800],
      [intent |-> "replace_addressee",  merit |-> 4500],
      [intent |-> "replace_speaker",    merit |-> 3600] }

=============================================================================
