SPECIFICATION Spec
CONSTANTS
  a = a
  b = b
  c = c
  d = d
  Keys = {a, b, c, d}
  InitWorkers = {a, b, c}
  InitDeps <- Chain
  Changes = {}
  StartKeys = {a}
  OutputKeys = {c}
  FerryTo <- NoFerry
  FaultyKeys = {b}
  Questions <- NoQuestions
  MaxRuns = 2
  MaxFerries = 0
  MaxChanges = 0
  MaxRestores = 0
PROPERTIES
  RerunStartsFresh
CHECK_DEADLOCK FALSE
