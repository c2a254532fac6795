SPECIFICATION FairSpec
CONSTANTS
  s1 = s1
  s2 = s2
  stockA = stockA
  stockB = stockB
  k1 = k1
  k2 = k2
  p1 = p1
  p2 = p2
  p3 = p3
  custom = custom
  before = before
  None = None
  Engine <- AllEngines
  Sheet <- Both
  PlanOf <- Plans
  Leftover <- PreviousUser
  CustomKline <- TheirKline
  PassesCheck <- Rounded
  LookAlike = {p2, p3}
  Collapsing = {p1}
  Fixed = {stockA}
  PollLimit = 3
  RefreshAt = {1}
  KlineRefresh = 1
  RetryLimit = 2
  MaxRuns = 2
  Faults = {"commit", "save", "push", "crash", "cancel", "cleanup", "scratch"}
INVARIANTS
  TypeOK
  ResultFromOwnInputs
  NothingLost
  SavedOnce
  PromptNeverTimesOut
PROPERTIES
  NotifiedWhenDone
  ExecutionEnds
CHECK_DEADLOCK FALSE
