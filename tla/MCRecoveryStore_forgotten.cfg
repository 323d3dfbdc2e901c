SPECIFICATION Spec
CONSTANTS
  Callers = {c1, c2}
  skills = skills
  window = window
  model = model
  x = x
  y = y
  key = key
  Keys = {skills, window, model}
  Native = {model}
  Values = {x, y, key}
  Secret = key
  Files <- MCFiles
  MaxWrites = 3
SYMMETRY CallerSymmetry
PROPERTY EditRetained
