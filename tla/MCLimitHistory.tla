---------------------------- MODULE MCLimitHistory ----------------------------
(***************************************************************************)
(* Instance of LimitHistory for TLC.                                       *)
(***************************************************************************)
EXTENDS LimitHistory
=============================================================================
