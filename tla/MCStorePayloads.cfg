SPECIFICATION Spec
CONSTANTS
  local = local
  hooked = hooked
  other = other
  quota = quota
  turn = turn
  t1 = t1
  t2 = t2
  NULL = NULL
  Fields <- MCFields
  Values = {t1, t2}
  UnknownTool = "unknown"
  McpTools = {}
  OtherTools = {}
  UnknownStatus = "unknown"
  KnownStatuses = {"ok"}
  Keys <- MCKeys
  KindOf <- MCKindOf
  LogicalOf <- MCLogicalOf
  EventRank <- MCEventRank
  QualityWeight <- MCWeight
  RawIds = {1, 2, 3}
  Requests <- SnapshotRequests
  HoursPerDay = 24
  RetentionDays = 2
  PruneBatch = 1
  MaxPassDays = 1
  MaxDay = 2
PROPERTY
  PayloadsGoAfterAnHour
