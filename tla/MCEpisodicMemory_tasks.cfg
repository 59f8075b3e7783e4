SPECIFICATION Spec
CONSTANTS
  p = p
  q = q
  r = r
  m1 = m1
  m2 = m2
  m3 = m3
  NoMessage = NoMessage
  Callers = {p, q, r}
  Messages = {m1, m2}
  Checkers = {p, q, r}
  Preemptive = FALSE
  MayFail = TRUE
  MayCancel = TRUE
  MaxNodes = 4
  MaxReloads = 1
SYMMETRY Alike
INVARIANTS
  TaskInv
  NoMessageLost
  ContextComplete
PROPERTIES
  ClosedLeafFrozen
CHECK_DEADLOCK FALSE
