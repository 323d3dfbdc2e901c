----------------------------- MODULE MCStreams -----------------------------
(***************************************************************************)
(* Instance of StreamsLive for TLC.                                        *)
(***************************************************************************)
EXTENDS StreamsLive, TLC

CONSTANTS w1, w2, s1, s2, r1

TwoAndOne == (w1 :> 2) @@ (w2 :> 1)
SharedReader == (s1 :> r1) @@ (s2 :> r1)
=============================================================================
