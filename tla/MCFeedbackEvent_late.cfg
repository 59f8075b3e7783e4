\* Two answers per request, from the loop and from threads, and a timeout.
SPECIFICATION Spec
CONSTANTS
  Requests = {r1, r2, r3}
  Caller <- Callers
  Limited = {r2}
  Values = {yes, no}
  NoValue = NoValue
  r1 = r1
  r2 = r2
  r3 = r3
  yes = yes
  no = no
CHECK_DEADLOCK FALSE
INVARIANT LateSendsSuppressed
