SPECIFICATION MCSpec
CONSTANTS
  Scripts = {"s1"}
  Plugins = {"p1"}
  Commands = {"c1"}
  Names = {1, 2}
  BatchLimit = 1
  MaxFiles = 1
  MaxAge = 0
  MaxNow = 1
  MaxCrashes = 1
  Daemons = {"d1", "d2"}
  Clients = {"c1"}
  NoFile = "no file"
  NotASocket = "not a socket"
  StaleSocket = "stale"
  Accounts <- MCAccounts
  Links <- MCLinks
  EventAccounts = {"a", "x"}
  EventProviders = {"q"}
  Windows = {0}
  Days = {0, 1}
  HotDay = 1
  MaxEntries = 1
  Readers = {"r1"}
  MaxRows = 2
  MaxSerial = 3
  HourLen = 2
  DayLen = 4
  Recent = 2
  Week = 5
  Horizon = 9
  Amounts = {1}
  Steps = {1, 5}
  MaxMinute = 12
  MaxObserved = 3
  MaxMoves = 3
  Machines = {"m1", "m2"}
  MaxData = 2
  StaleTimeout = 1
  MaxTimeouts = 1
  MaxFaults = 1
INVARIANTS
  LossIsExplained
  OneDaemonUnlessUnlinked
  SiblingsDoNotShare
  CacheIsBounded
  SpendNeverOverstates
PROPERTIES
  HookFilesAreConsumed
  SocketHeals
  HitsSeeInsertsAndPrunes
  AnchorsSurviveThinning
  OnlyLatePushesGoBack
  HubCatchesUp
CHECK_DEADLOCK FALSE
