SPECIFICATION LiveSpec
CONSTANTS
  Jobs = {1, 2}
  EverReady = {2}
  Runs = {r1, r2}
  NoRun = NoRun
  FireLimit <- EndlessAndOneShot
  Limit = 2
  LeaseSeconds = 1
  Window = 2
  MaxLag = 0
  MaxEvents = 1
PROPERTY DueJobIsSettled
