SPECIFICATION FairWSpec
CONSTANTS
  t1 = t1
  t2 = t2
  s1 = s1
  None = None
  c1 = c1
  dog = dog
  Task <- TwoTasks
  Sheet <- OneSheet
  Caller = {c1}
  Daemon = {dog}
  Watchdog = dog
  Recent = {t1}
  MaxAttempts = 1
  LateWake = FALSE
  SheetsOf <- SheetShared
  Rank <- RankOfTwo
  TypeOf <- TypesOfTwo
  TypeLimit <- WideLimit
  MaxRunning = 2
  PoolSize = 2
  MaxExec = 2
  SerialStarts = TRUE
  Faults = {}
  Requests <- Creates
INVARIANTS
  WatchdogTypeOK
  RestartsBounded
  OverlapIsEnding
PROPERTIES
  HungTaskSettles
CHECK_DEADLOCK FALSE
