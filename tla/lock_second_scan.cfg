CONSTANTS
  Runs = {r1, r2, r3}
  StaleAfter = 1
  MaxTime = 1
  NoFile = NoFile
SPECIFICATION Spec
INVARIANTS NoSecondScan
CHECK_DEADLOCK FALSE
