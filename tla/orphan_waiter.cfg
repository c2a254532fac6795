SPECIFICATION Spec
CONSTANTS
  t1 = t1
  t2 = t2
  t3 = t3
  s1 = s1
  s2 = s2
  None = None
  c1 = c1
  c2 = c2
  Task <- ThreeTasks
  Sheet <- TwoSheets
  Caller = {c1}
  Daemon = {}
  SheetsOf <- SheetsOfThree
  Rank <- RankOfThree
  TypeOf <- TypesOfThree
  TypeLimit <- WideLimit
  MaxRunning = 3
  PoolSize = 3
  MaxExec = 1
  SerialStarts = TRUE
  Faults = {}
  Requests <- OnlyCreate
INVARIANT WaiterHasHolder
