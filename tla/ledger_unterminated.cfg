CONSTANTS
  Procs = {p1, p2}
  old = old
  own = own
  other = other
  sup = sup
  plain = plain
  Experiments <- MCExperiments
  Kind <- MCKind
  Quarantined <- MCQuarantined
  NoRow = NoRow
SPECIFICATION MCSpec
PROPERTIES AppendedIsReadable
CHECK_DEADLOCK FALSE
