SPECIFICATION ReadingSpec
CONSTANTS
  Runs = {r1, r2}
  NoRun = NoRun
  Conditions <- MCConditions
  MaxUsed = 2
  MaxSecond = 2
  Unused = Unused
  Threads = {t1, t2}
  MaxReports = 3
  MaxInherited = 1
  Missing = FALSE
  Tolerance = 2
  WindowLength = 5
  MaxSnapshots = 3
  MaxResets = 1
  GivenQueries <- MCQueries
  PageItems = 1
  MaxStart = 3
  MaxItems = 4
  MaxGlitches = 1
  Memories = {m1, m2}
  FirstLines = 2
  MaxLines = 3
  MaxMoves = 3
SYMMETRY ReadingSymmetry
INVARIANTS
  TypeOK MilestoneNotSwallowed OneGoal
  UsageSafe LimitsSafe PagesSafe ScanSafe
PROPERTY DeliversNews
CHECK_DEADLOCK FALSE
