SPECIFICATION NavSpec
CONSTANTS
  Ids = {1, 2}
  Known <- MCKnown
  Texts = {"none", "two"}
  Named <- MCNamed
  Contents <- MCContents
  Views = {"matrix"}
  Steps = {2}
INVARIANT
  CursorNotNegative
