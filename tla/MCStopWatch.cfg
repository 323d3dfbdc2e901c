SPECIFICATION Spec
CONSTANTS
  Runs = {r1, r2}
  NoRun = NoRun
  PageSize = 2
  Repeat = TRUE
  MaxTurns = 4
SYMMETRY RunSymmetry
INVARIANTS TypeOK NoCompletionMissed FailedMeansGone
PROPERTY DeliversNews
CHECK_DEADLOCK FALSE
