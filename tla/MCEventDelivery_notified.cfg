SPECIFICATION Spec
CONSTANTS
  LeaseTimeouts = 10
  MaxTurns = 3
INVARIANT NotifiedIsAttended
CHECK_DEADLOCK FALSE
