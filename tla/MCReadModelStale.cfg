SPECIFICATION Spec
CONSTANTS
  config = config
  window = window
  Keys <- MCKeys
  ConfigKey = config
  Clients = {c1}
  HooksOverHTTP = FALSE
  MaxEntries = 2
  MaxData = 1
  MaxFailures = 0
INVARIANT
  ReadersCanTellStale
