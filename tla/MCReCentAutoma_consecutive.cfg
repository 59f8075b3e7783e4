\* Three runs of three iterations each; tools fail.
SPECIFICATION ReCentSpec
CONSTANTS
  Initialize = initialize_task_goal
  Observe = observe
  Select = select_tools
  Compress = compress_memory
  Finalize = finalize_answer
  search = search
  write = write
  g1 = g1
  ToolKeys = {search, write}
  CollectKeys = {g1}
  Selectable <- Selections
  MaxIteration = 3
  MaxNoTool = 2
  Keys <- AllKeys
  InitWorkers <- Steps
  InitDeps <- NoDeps
  Changes <- OneTimeWorkers
  StartKeys = {initialize_task_goal}
  OutputKeys = {finalize_answer}
  FerryTo <- Nobody
  FaultyKeys = {initialize_task_goal, write}
  Questions <- Never
  MaxRuns = 3
  MaxFerries = 0
  MaxChanges = 0
  MaxRestores = 0
CHECK_DEADLOCK FALSE
PROPERTY ConsecutiveOnly
