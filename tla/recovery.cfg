SPECIFICATION FairRSpec
CONSTANTS
  t1 = t1
  t2 = t2
  t3 = t3
  s1 = s1
  None = None
  c1 = c1
  c2 = c2
  boot = boot
  Task <- ThreeTasks
  Sheet <- OneSheet
  Caller = {c1, c2}
  Daemon = {boot}
  Booter = boot
  MaxCrash = 1
  SheetsOf <- SheetShared
  Rank <- RankOfThree
  TypeOf <- TypesOfThree
  TypeLimit <- WideLimit
  MaxRunning = 3
  PoolSize = 2
  MaxExec = 1
  SerialStarts = TRUE
  Faults = {}
  Requests <- BothCreate
INVARIANTS
  RecoveryTypeOK
  LocksRecovered
  RunningRecovered
PROPERTIES
  QueuedServed
  LocksReleased
CHECK_DEADLOCK FALSE
