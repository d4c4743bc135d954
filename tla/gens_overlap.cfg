CONSTANTS
  Procs = {p1}
  Datasets = {listed, delisted}
  Movable = {listed, delisted}
  Nowhere = Nowhere
  Semantics = {official}
  Official = official
  Window = 1
  MaxClock = 0
  MaxGenerations = 1
  MaxAttempts = 2
SPECIFICATION Spec
CHECK_DEADLOCK FALSE
INVARIANTS CompleteIsPublishable
