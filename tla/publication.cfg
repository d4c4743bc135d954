CONSTANTS
  s1 = s1  s2 = s2  s3 = s3
  wide = wide  narrow = narrow
  d1 = d1  d2 = d2
  Runs = {r1, r2}
  Dates <- MCDates
  Symbols <- MCSymbols
  Pools <- MCPools
  Allowed <- MCAllowed
  Limit = 2
  Cap = 2
  NoPool = NoPool
  NoRun = NoRun
SPECIFICATION MCSpec
SYMMETRY Symmetry
INVARIANTS PublishedIsShown ShownIsRecorded
PROPERTIES KeepsDailyCap
CHECK_DEADLOCK FALSE
