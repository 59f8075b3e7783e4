SPECIFICATION AnsweringSpec
CONSTANTS
  a = a
  b = b
  c = c
  d = d
  Keys = {a, b, c, d}
  InitWorkers = {a, b, c}
  InitDeps <- NoDeps
  Changes = {}
  StartKeys = {a, b}
  OutputKeys = {c}
  FerryTo <- ToC
  FaultyKeys = {}
  Questions <- OneAsks
  MaxRuns = 1
  MaxFerries = 1
  MaxChanges = 0
  MaxRestores = 0
PROPERTIES
  FerryHonoured
CHECK_DEADLOCK FALSE
