SPECIFICATION Spec
CONSTANTS
  a = a
  b = b
  c = c
  d = d
  Keys = {a, b, c, d}
  InitWorkers = {a, b, c, d}
  InitDeps <- Diamond
  Changes = {}
  StartKeys = {a}
  OutputKeys = {b}
  FerryTo <- NoFerry
  FaultyKeys = {}
  Questions <- BranchesAsk
  MaxRuns = 1
  MaxFerries = 0
  MaxChanges = 0
  MaxRestores = 0
INVARIANTS
  ResultOfThisRun
CHECK_DEADLOCK FALSE
