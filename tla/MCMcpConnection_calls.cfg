\* Calls time out, servers refuse, managers are shut down at any moment.
SPECIFICATION FairSpec
CONSTANTS
  Threads = {t1, t2}
  Managers = {d1, d2, d3, e1, e2}
  Names = {default, other}
  NameOf <- Named
  Default = default
  Conns = {c1, c2}
  ConnNames = {n1, n2}
  ConnName <- OwnNames
  NoOne = NoOne
  Users <- Owner
  Scripts <- Plans
  MayTimeout = TRUE
  t1 = t1
  t2 = t2
  c1 = c1
  c2 = c2
  d1 = d1
  d2 = d2
  d3 = d3
  e1 = e1
  e2 = e2
  n1 = n1
  n2 = n2
  default = default
  other = other
CHECK_DEADLOCK FALSE
INVARIANTS ConnInv OneManagerPerName RegistriesAgree RegistrationStays
INVARIANTS OwnStack SessionInItsLoop ConnectedIsAlive
PROPERTIES CallsEnd
