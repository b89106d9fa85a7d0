SPECIFICATION MCSpec
CONSTANTS
  k1 = k1
  k2 = k2
  api = api
  jsonl = jsonl
  hook = hook
  hookLate = hookLate
  dbfile = dbfile
  NULL = NULL
  Fields <- MCFields
  Values <- MCValues
  UnknownTool = "unknown"
  McpTools = {"mcp__s__f"}
  OtherTools = {"read"}
  UnknownStatus = "unknown"
  KnownStatuses = {"ok", "error"}
  Keys <- MCKeys
  KindOf <- MCKindOf
  LogicalOf <- MCLogicalOf
  EventRank <- MCEventRank
  QualityWeight <- MCWeight
  RawIds = {r1, r2}
  Requests <- MCRequests
  HoursPerDay = 2
  RetentionDays = 1
  PruneBatch = 1
  MaxPassDays = 0
  MaxDay = 3
  Events = {"e1", "e2"}
  Poison = {}
  Oversized = {}
  Daemon = {"collect", "maint"}
  Hooks = {"h1"}
  CollectLimit = 1
  MaintLimit = 2
  BatchLimit = 2
  MaxAge = 0
  MaxFiles = 1
  Size <- MCSize
  MaxBytes = 2
  MaxNow = 0
  MaxAppends = 2
  MaxCrashes = 0
  Processes = {"p1", "p2"}
  Legacy <- MCLegacy
  Incoming <- MCIncoming
  NewIds = {"n1"}
  MaxInodes = 2
  MaxDamages = 1
SYMMETRY MCSymmetry
INVARIANTS
  TypeOK
  EventsHaveTheirRaw
  OutrankingChannelWins
  NothingLost
  RecordedMeansRepaired
  HealthyFilesStay
PROPERTIES
  UsablePayloadSurvives
  DeliverySpec
