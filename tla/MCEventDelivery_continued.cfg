SPECIFICATION Spec
CONSTANTS
  LeaseTimeouts = 10
  MaxTurns = 3
INVARIANT ContinuationIsAttended
CHECK_DEADLOCK FALSE
