SPECIFICATION Spec
CONSTANTS
  a = a
  b = b
  c = c
  d = d
  Keys = {a, b, c, d}
  InitWorkers = {a, b, c}
  InitDeps <- Chain
  Changes <- Rewire
  StartKeys = {a}
  OutputKeys = {c}
  FerryTo <- Branch
  FaultyKeys = {b}
  Questions <- NoQuestions
  MaxRuns = 2
  MaxFerries = 1
  MaxChanges = 2
  MaxRestores = 0
INVARIANTS
  IInv
  TriggersAreHonest
PROPERTIES
  DueStart
CHECK_DEADLOCK FALSE
