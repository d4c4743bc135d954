CONSTANTS
  Procs = {p1, p2}
  Datasets = {daily, limits}
  Movable = {}
  Nowhere = Nowhere
  Semantics = {official}
  Official = official
  Window = 0
  MaxClock = 1
  MaxGenerations = 2
  MaxAttempts = 4
SPECIFICATION Spec
SYMMETRY Symmetric
CHECK_DEADLOCK FALSE
INVARIANTS HeadIsNewest
PROPERTIES PublishedStays
