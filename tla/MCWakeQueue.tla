----------------------------- MODULE MCWakeQueue -----------------------------
(***************************************************************************)
(* Instances of WakeQueue for TLC.                                         *)
(***************************************************************************)
EXTENDS WakeQueue, TLC

\* Job 1 is one-shot, job 2 fires at most twice.
OneShotAndTwice == (1 :> 1) @@ (2 :> 2)

RunSymmetry == Permutations(Runs)
=============================================================================
