----------------------------- MODULE MCGoalWatch -----------------------------
(***************************************************************************)
(* Instances of GoalWatch for TLC.                                         *)
(***************************************************************************)
EXTENDS GoalWatch, TLC

\* --tokens-used-every 1, alone and for a completed goal; --tokens-used-gte 1; a status
\* together with --tokens-left-lte.
Milestones == [wanted |-> {}, atLeast |-> 0, left |-> -1, every |-> 1]
CompletedMilestones == [Milestones EXCEPT !.wanted = {"complete"}]
Threshold == [Milestones EXCEPT !.every = 0, !.atLeast = 1]
NearlySpent == [Milestones EXCEPT !.every = 0, !.wanted = {"active"}, !.left = 1]

MCConditions == {Milestones, CompletedMilestones, Threshold, NearlySpent}

RunSymmetry == Permutations(Runs)
=============================================================================
