SPECIFICATION FairSpec
CONSTANTS
  p = p
  q = q
  r = r
  m1 = m1
  m2 = m2
  m3 = m3
  NoMessage = NoMessage
  Callers = {p, q}
  Messages = {m1}
  Checkers = {q}
  Preemptive = TRUE
  MayFail = TRUE
  MayCancel = FALSE
  MaxNodes = 4
  MaxReloads = 0
INVARIANTS
  IInv
PROPERTIES
  EverySummarySet
  ReadsEnd
CHECK_DEADLOCK FALSE
