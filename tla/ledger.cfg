CONSTANTS
  Procs = {p1, p2}
  old = old
  own = own
  other = other
  sup = sup
  plain = plain
  Experiments <- MCExperiments
  Kind <- MCKind
  Quarantined <- MCQuarantined
  NoRow = NoRow
SYMMETRY ProcSymmetry
SPECIFICATION MCSpec
INVARIANTS LaunchKeepsTip OpenCanMoveOn
PROPERTIES KeepsLifecycle StrandedStays OrphanStays
CHECK_DEADLOCK FALSE
