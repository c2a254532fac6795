\* Every component beside the task runtime, one at a time.
SPECIFICATION Spec
CONSTANTS
  j1 = j1
  u1 = u1
  u2 = u2
  q1 = q1
  q2 = q2
  q3 = q3
  k1 = k1
  k2 = k2
  g1 = g1
  v1 = v1
  v2 = v2
  None = None
  Null = Null
  Job = {j1}
  Instance = {1, 2}
  MaxWorkers = 1
  SerialEdits = TRUE
  MaxUp = 1
  MaxFaults = 1
  IndexedTask = {u1, u2}
  Result = {1, 2, 3}
  Owner <- OwnerOf
  Period <- PeriodOf
  Metric <- MetricOf
  Date <- DateOf
  Rebuild = {b1}
  ResetIndex <- Both
  User = {q1, q2, q3}
  Token = {k1, k2}
  TokenOf <- TokenOfUser
  Limit <- LimitOf
  GlobalLimit = 2
  MaxStarts = 1
  Key = {g1}
  Value = {v1, v2}
  Missing = Missing
  Absent = Absent
  Request = {r1, r2}
  NetValue <- NavOf
  One = 2
  Month = {1, 2, 3, 4}
  YearOf <- YearOfMonth
  MaxRows = 5
  stockA = stockA
  Outers <- OutersOf
  Window = {1}
  Group = {1}
  Unset = Unset
  MaxVersion = 1
  MaxChanges = 1
  MaxClears = 1
  MaxThreads = 2
  Executions = {1, 2}
  Dates = {0, 1, 2, 3}
  Parameters <- PairsOf
  MinHistory = 1
  MinYear = 1
  Unplanned = Unplanned
  Day = {1, 2, 3, 4}
  Asker = {a1, a2}
  RowLimit = {2}
  Recent = 1
  LookedUp = 1
  NoRow = NoRow
  m1 = m1
  m2 = m2
  h1 = h1
  h2 = h2
  Chat = {h1, h2}
  ListedTask = {m1, m2}
  NameOf <- SameName
  PerPage = {1, 2}
  BatchLimit = 1
  NoList = NoList
  NoChat = NoChat
  x1 = x1
  x2 = x2
  Exporter = {x1, x2}
  ReportOf <- ReportTask
  Ttl = 1
  DefaultTtl = 1
  MaxMinute = 2
  MaxWrite = 2
  NoFile = NoFile
  RowEngine = {"c3", "c4", "c5", "c7", "c1_1", "training", "multi"}
  StockRows <- LengthsOf
  MaxRow = 4
  FewRows = 1
  Spare = 1
  NoCell = NoCell
  Foreign = Foreign
INVARIANTS
  TypeOK
  ExclusiveRuns
  ActiveIsScheduled
  IndexExact
  QuotaKept
  CountExact
  CacheCoherent
  FiguresAgree
  RowsRepeat
  FailureExplained
  PlanExact
  GapExplained
  NthOfLastList
  ReportServedWhole
  OwnRowsOnly
PROPERTIES
  LockRecovered
CHECK_DEADLOCK FALSE
