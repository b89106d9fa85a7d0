SPECIFICATION MCSpec
CONSTANTS
  local = local
  hooked = hooked
  other = other
  quota = quota
  turn = turn
  t1 = t1
  t2 = t2
  NULL = NULL
  Fields <- MCFields
  Values = {t1, t2}
  UnknownTool = "unknown"
  McpTools = {}
  OtherTools = {}
  UnknownStatus = "unknown"
  KnownStatuses = {"ok"}
  Keys <- MCKeys
  KindOf <- MCKindOf
  LogicalOf <- MCLogicalOf
  EventRank <- MCEventRank
  QualityWeight <- MCWeight
  RawIds = {1, 2, 3}
  Requests <- SpanningRequests
  HoursPerDay = 1
  RetentionDays = 2
  PruneBatch = 1
  MaxPassDays = 1
  MaxDay = 4
  e1 = e1
  e2 = e2
  Events = {e1, p}
  Poison = {p}
  Oversized = {}
  Daemon = {"collect", "maint"}
  Hooks = {}
  CollectLimit = 1
  MaintLimit = 2
  BatchLimit = 2
  MaxAge = 0
  MaxFiles = 2
  Size <- MCSizes
  MaxBytes = 2
  MaxNow = 1
  MaxAppends = 2
  MaxCrashes = 1
INVARIANT
  LossIsBounded
PROPERTIES
  PrunedDaysAreSettled
  AggregateKept
  SettledDaysAreFinal
  BacklogIsPruned
  CleanupKeepsTheNewest
  BacklogIsDelivered
