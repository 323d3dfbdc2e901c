SPECIFICATION Spec
CONSTANTS
  LeaseTimeouts = 10
  MaxTurns = 3
INVARIANTS TypeOK ConfirmedIsAttended RetryMeansUnsent LeaseFits
PROPERTY NoTurnBesideContinuation
CHECK_DEADLOCK FALSE
