SPECIFICATION Spec
CONSTANTS
  Threads = {t1, t2}
  Missing = TRUE
  Tolerance = 2
  WindowLength = 5
  MaxSnapshots = 3
  MaxUsed = 2
  MaxResets = 1
INVARIANT OlderBoundaryIgnored
CHECK_DEADLOCK FALSE
