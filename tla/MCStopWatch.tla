----------------------------- MODULE MCStopWatch -----------------------------
(***************************************************************************)
(* Instance of StopWatch for TLC.                                          *)
(***************************************************************************)
EXTENDS StopWatch, TLC

RunSymmetry == Permutations(Runs)
=============================================================================
