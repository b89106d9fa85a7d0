SPECIFICATION MCSpec
CONSTANTS
  KeyAccounts = {"a"}
  BrowserAccounts = {"b"}
  Keys = {"k1", "k2"}
  Accepted <- MCAccepted
  MaxRunning = 1
  Ids = {1, 2, 3}
  Known <- MCKnown
  Texts = {"two"}
  Named <- MCNamed
  Contents <- MCContents
  Views = {"matrix"}
  Steps = {2}
  SavedAccounts = {"a"}
  Themes = {"t1", "t2"}
  Servers = {"web", "daemon"}
  MaxSaves = 2
  Windows = {"w1", "w2"}
  MaxData = 2
  Looks <- MCLooks
  WarmUps = 0
  MaxInFlight = 1
  MaxActs = 1
INVARIANTS
  CursorWithinTiles
  SavedKeysAreExplained
  AwaitedIsUnderWay
PROPERTIES
  FramesKeepSelection
  WaitingEnds
  SavesKeepOthers
  FramesCatchUp
CHECK_DEADLOCK FALSE
