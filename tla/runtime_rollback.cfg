SPECIFICATION Spec
CONSTANTS
  t1 = t1
  t2 = t2
  t3 = t3
  s1 = s1
  s2 = s2
  None = None
  c1 = c1
  c2 = c2
  Task <- TwoTasks
  Sheet <- TwoSheets
  Caller = {c1, c2}
  Daemon = {}
  SheetsOf <- SheetsApart
  Rank <- RankOfTwo
  TypeOf <- TypesOfTwo
  TypeLimit <- WideLimit
  MaxRunning = 1
  PoolSize = 1
  MaxExec = 2
  SerialStarts = TRUE
  Faults <- StartFaults
  Requests <- EveryRequest
INVARIANTS
  NoLockLeak
  TokenAccounted
  RunningHasThread
CHECK_DEADLOCK FALSE
