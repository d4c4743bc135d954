CONSTANTS
  Procs = {p1}
  Datasets = {daily, limits}
  Movable = {daily, Nowhere}
  Nowhere = Nowhere
  Semantics = {official, jiaoch}
  Official = official
  Window = 0
  MaxClock = 1
  MaxGenerations = 2
  MaxAttempts = 3
SPECIFICATION Spec
CHECK_DEADLOCK FALSE
INVARIANTS NoConflict PublishedVerifies CompleteIsPublishable
PROPERTIES FreshPartialResumes
