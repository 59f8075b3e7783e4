SPECIFICATION AnsweringSpec
CONSTANTS
  a = a
  b = b
  c = c
  d = d
  Keys = {a, b, c, d}
  InitWorkers = {a, b, c, d}
  InitDeps <- Fork
  Changes = {}
  StartKeys = {a}
  OutputKeys = {d}
  FerryTo <- ToD
  FaultyKeys = {b}
  Questions <- BranchesAsk
  MaxRuns = 2
  MaxFerries = 1
  MaxChanges = 0
  MaxRestores = 1
PROPERTIES
  ArunEnds
  AnsweredRunsComplete
CHECK_DEADLOCK FALSE
