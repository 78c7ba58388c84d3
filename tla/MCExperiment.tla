----------------------------- MODULE MCExperiment -----------------------------
(***************************************************************************)
(* A block of two arms of three slots each, one failure of the runner's  *)
(* own calls, models whose rates are known or not.                         *)
(***************************************************************************)
EXTENDS Experiment

=============================================================================
