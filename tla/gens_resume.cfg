CONSTANTS
  Procs = {p1, p2}
  Datasets = {daily, limits}
  Movable = {}
  Nowhere = Nowhere
  Semantics = {official}
  Official = official
  Window = 1
  MaxClock = 0
  MaxGenerations = 2
  MaxAttempts = 3
SPECIFICATION Spec
SYMMETRY Symmetric
CHECK_DEADLOCK FALSE
PROPERTIES FreshPartialResumes
