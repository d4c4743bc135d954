CONSTANTS
  Runs = {r1, r2, r3}
  StaleAfter = 0
  MaxTime = 1
  NoFile = NoFile
SPECIFICATION FairSpec
INVARIANTS AtMostOneUnevicted NoLeakedLock
PROPERTIES WedgeIsPermanent EveryAttemptEnds StaleLockIsReclaimed
CHECK_DEADLOCK FALSE
