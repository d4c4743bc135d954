CONSTANTS
  c1 = c1  c2 = c2  p1 = p1  p2 = p2
  Collectors = {c1, c2}
  Parts = {p1, p2}
  Plan <- MCPlan
  Bodies = {b1, b2}
  Refused = {b2}
  Lost = Lost
  Faulty = Faulty
  NoBody = NoBody
  MaxTries = 2
  MaxRuns = 2
  Monitors = {m1, m2}
  Alerts = {a1, a2}
  Window = 1
  MaxRows = 3
  Checks = {k1, k2}
  Problems = {slow, down}
  Healthy = Healthy
  Nothing = Nothing
  Reminder = 1
  MaxChanges = 2
  MaxFaults = 1
  Clients = {w1, w2}
  MaxFills = 2
  Publishers = {q1, q2}
  Audits = {new, newer}
  Linked = Linked
  Missing = Missing
  MaxPublications = 3
  Scans = {u1, u2}
  Symbols = {x1, x2}
  Life = 1
  MaxNews = 2
  MaxAsked = 2
SPECIFICATION MCSpec
INVARIANTS EventsMatchReceipts ReturnedMeansIndexed
INVARIANTS RepeatsAreUnseen QuietIsHeard
INVARIANTS BookExplainsFills TicketFitsBook PublishedSurvives
INVARIANTS FreshHidesNoOldNews AnswerIsNewestFetched
PROPERTIES RecoveryRepairs EveryRunEnds LastingProblemIsHeard
CHECK_DEADLOCK FALSE
