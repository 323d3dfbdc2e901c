SPECIFICATION Spec
CONSTANTS
  Jobs = {1, 2}
  Runs = {r1, r2}
  NoRun = NoRun
  FireLimit <- OneShotAndTwice
  Limit = 2
  LeaseSeconds = 2
  Window = 3
  MaxLag = 1
  MaxEvents = 2
SYMMETRY RunSymmetry
INVARIANTS TypeOK EventNumbers FireLimitKept DuplicateHasCause ClosedCountIsExact LeaseProtects
PROPERTY ImplementsLedger
