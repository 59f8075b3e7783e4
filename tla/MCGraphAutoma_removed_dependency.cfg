SPECIFICATION Spec
CONSTANTS
  a = a
  b = b
  c = c
  d = d
  Keys = {a, b, c, d}
  InitWorkers = {a, b, c, d}
  InitDeps <- Late
  Changes <- DropB
  StartKeys = {a}
  OutputKeys = {c}
  FerryTo <- NoFerry
  FaultyKeys = {}
  Questions <- NoQuestions
  MaxRuns = 1
  MaxFerries = 0
  MaxChanges = 1
  MaxRestores = 0
INVARIANTS
  NoDueWorkerForgotten
CHECK_DEADLOCK FALSE
