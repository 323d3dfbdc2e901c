--------------------------- MODULE MCRecoveryStore ---------------------------
(***************************************************************************)
(* Instances of RecoveryStore for TLC.                                     *)
(***************************************************************************)
EXTENDS RecoveryStore, TLC

CONSTANTS skills, window, model, x, y, key

\* Two supplementary settings and one that Codex records itself; a credential.
MCFiles == {(skills :> x), (skills :> y) @@ (model :> x), (window :> x), (window :> key)}

CallerSymmetry == Permutations(Callers)
=============================================================================
