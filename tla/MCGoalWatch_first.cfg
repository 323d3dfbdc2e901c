SPECIFICATION Spec
CONSTANTS
  Runs = {r1}
  NoRun = NoRun
  Conditions <- MCConditions
  MaxUsed = 2
  MaxSecond = 2
INVARIANT BoundToFirstSeen
