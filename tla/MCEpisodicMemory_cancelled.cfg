SPECIFICATION FairSpec
CONSTANTS
  p = p
  q = q
  r = r
  m1 = m1
  m2 = m2
  m3 = m3
  NoMessage = NoMessage
  Callers = {p, q}
  Messages = {m1}
  Checkers = {}
  Preemptive = FALSE
  MayFail = FALSE
  MayCancel = TRUE
  MaxNodes = 3
  MaxReloads = 0
PROPERTIES
  EverySummarySet
CHECK_DEADLOCK FALSE
