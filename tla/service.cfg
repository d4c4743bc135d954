CONSTANTS
  Runs = {r1, r2}
  StaleAfter = 0
  MaxTime = 1
  NoFile = NoFile
  Dates = {d1}
  Symbols = {s1, s2}
  Pools = {p1}
  Allowed <- MCAllowed
  Limit = 1
  Cap = 1
  NoPool = NoPool
  NoRun = NoRun
SPECIFICATION Spec
INVARIANTS LockProtectsLedger
CHECK_DEADLOCK FALSE
