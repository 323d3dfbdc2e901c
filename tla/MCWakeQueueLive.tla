--------------------------- MODULE MCWakeQueueLive ---------------------------
(***************************************************************************)
(* Instance of WakeQueueLive for TLC.                                      *)
(***************************************************************************)
EXTENDS WakeQueueLive, TLC

\* The first job of the queue is never due, the second is one-shot and due.
EndlessAndOneShot == (1 :> 0) @@ (2 :> 1)
=============================================================================
