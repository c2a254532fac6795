SPECIFICATION Spec
CONSTANTS
  t1 = t1
  t2 = t2
  t3 = t3
  s1 = s1
  s2 = s2
  None = None
  c1 = c1
  c2 = c2
  Task <- TwoTasks
  Sheet <- TwoSheets
  Caller = {c1, c2}
  Daemon = {}
  SheetsOf <- SheetsOfTwo
  Rank <- RankOfTwo
  TypeOf <- TypesOfTwo
  TypeLimit <- WideLimit
  MaxRunning = 2
  PoolSize = 2
  MaxExec = 2
  SerialStarts = FALSE
  Faults = {}
  Requests <- TwoStarters
INVARIANT SheetExclusive
