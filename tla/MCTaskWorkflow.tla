--------------------------- MODULE MCTaskWorkflow ---------------------------
(* TLC instances of TaskWorkflow. *)
EXTENDS TaskWorkflow, TLC

CONSTANTS clean, good, bad

\* Contents: the base tree, a change within the allowed paths, one outside.
MCContent == {clean, good, bad}
MCInScope == {good}

\* A truthful report of the good change, an empty one, and one that asks for
\* a human.
MCReports ==
    { [declared |-> {good}, human |-> FALSE],
      [declared |-> {},     human |-> FALSE],
      [declared |-> {good}, human |-> TRUE] }

MCReportsEmpty == {[declared |-> {}, human |-> FALSE]}

\* The program points where verify_task and integrate do not rely
\* on two reads of the worktree agreeing.
BetweenReads == ProgramPoint \ {"checks", "tree"}

TaskSymmetry == Permutations(Task)
=============================================================================
