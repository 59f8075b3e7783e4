SPECIFICATION Spec
CONSTANTS
  a = a
  b = b
  c = c
  d = d
  Keys = {a, b, c, d}
  InitWorkers = {a, b, c, d}
  InitDeps <- Diamond
  Changes = {}
  StartKeys = {a}
  OutputKeys = {d}
  FerryTo <- NoFerry
  FaultyKeys = {}
  Questions <- BranchesAsk
  MaxRuns = 2
  MaxFerries = 0
  MaxChanges = 0
  MaxRestores = 1
INVARIANTS
  FixedInv
  NoBookkeepingError
  ResultOfThisRun
  ComputedOnce
PROPERTIES
  ImplementsDataflow
CHECK_DEADLOCK FALSE
