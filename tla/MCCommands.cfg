SPECIFICATION CommandSpec
CONSTANTS
  Callers = {c1, c2}
  skills = skills
  window = window
  model = model
  x = x
  y = y
  key = key
  Keys = {skills, window, model}
  Native = {model}
  Values = {x, y, key}
  Secret = key
  Files <- MCFiles
  MaxWrites = 3
  Unused = Unused
  MaxTurns = 3
  ConfirmTurns = 1
  Processes = 2
  MaxItems = 4
  Timeout = 2
  MaxRequests = 2
  MaxExtras = 2
  MaxGoals = 3
  LoadedPages = 2
  i1 = i1
  i2 = i2
  a = a
  Memories = {a}
  Injectors = {i1, i2}
  GivenOptions <- MCOptions
  Commands = {i1, i2}
  GivenOrders <- MCOrders
  Jobs = 1
  MaxAttempts = 2
  MaxCompactions = 3
SYMMETRY CallerSymmetry
INVARIANTS TypeOK InputSafe ClientSafe GoalSafe InjectSafe GenerationSafe ControlSafe
PROPERTIES LoadExtends NewerRetained OnlyServedSaved
CHECK_DEADLOCK FALSE
