SPECIFICATION Spec
CONSTANTS
  k1 = k1
  k2 = k2
  api = api
  jsonl = jsonl
  hook = hook
  hookLate = hookLate
  dbfile = dbfile
  NULL = NULL
  Fields <- MCFields
  Values <- MCValues
  UnknownTool = "unknown"
  McpTools = {"mcp__s__f"}
  OtherTools = {"read"}
  UnknownStatus = "unknown"
  KnownStatuses = {"ok", "error"}
  Keys <- MCKeys
  KindOf <- MCKindOf
  LogicalOf <- MCLogicalOf
  EventRank <- MCEventRank
  QualityWeight <- MCWeight
  RawIds = {r1, r2, r3}
  Requests <- MCRequests
  HoursPerDay = 1
  RetentionDays = 1
  PruneBatch = 1
  MaxPassDays = 0
  MaxDay = 3
INVARIANT
  HookPrecedence
