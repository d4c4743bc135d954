CONSTANTS
  Parents = {p1, p2}
  Quarantine = TRUE
  MaxFaults = 2
  Nobody = Nobody
  a = a  b = b  again = again  late = late  k1 = k1  k2 = k2
  Supervisors = {s1, s2}
  Runs = {a, b}
  Resumes = {again, late}
  Original <- MCOriginal
  Keys = {k1, k2}
  ReplayKey <- MCReplayKey
  Unwritten = Unwritten
  Symbols = {x1, x2, x3}
  Industries = {i1, i2}
  TopN = 2
  MaxActive = 2
  Cooldown = 2
  SameDayExit = TRUE
  IndustryCap = FALSE
  Correlated = TRUE
  LastDay = 3
  MaxHold = 2
SPECIFICATION MCSpec
INVARIANTS CompletedHasResult SealedIsQuiet UsedOnce HeldOnce BudgetAccepts
PROPERTIES OutcomeIsTrue LaunchIsClosed SpentStays
CHECK_DEADLOCK FALSE
