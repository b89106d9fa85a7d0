SPECIFICATION FairSpec
CONSTANTS
  config = config
  window = window
  Keys <- MCKeys
  ConfigKey = config
  Clients = {c1}
  HooksOverHTTP = TRUE
  MaxEntries = 2
  MaxData = 1
  MaxFailures = 1
INVARIANT
  TypeOK
PROPERTIES
  RefreshesKeepOrder
  ViewsCatchUp
