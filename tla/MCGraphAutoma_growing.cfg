SPECIFICATION FairSpec
CONSTANTS
  a = a
  b = b
  c = c
  d = d
  Keys = {a, b, c, d}
  InitWorkers = {a, b, c}
  InitDeps <- Chain
  Changes <- Grow
  StartKeys = {a}
  OutputKeys = {c}
  FerryTo <- Branch
  FaultyKeys = {c}
  Questions <- NoQuestions
  MaxRuns = 2
  MaxFerries = 1
  MaxChanges = 2
  MaxRestores = 0
INVARIANTS
  NoDueWorkerForgotten
PROPERTIES
  FerryHonoured
CHECK_DEADLOCK FALSE
