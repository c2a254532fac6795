SPECIFICATION SpecBoth
CONSTANTS
  t1 = t1
  t2 = t2
  s1 = s1
  None = None
  c1 = c1
  Bot = Bot
  Task <- TwoTasks
  Sheet <- OneSheet
  Caller = {c1}
  Daemon = {}
  SheetsOf <- SheetShared
  Rank <- RankOfTwo
  TypeOf <- TypesOfTwo
  TypeLimit <- WideLimit
  MaxRunning = 2
  PoolSize = 2
  MaxExec = 1
  SerialStarts = TRUE
  Faults = {}
  Requests <- OnlyCreate
INVARIANTS
  OneTaskPerSheet
CHECK_DEADLOCK FALSE
