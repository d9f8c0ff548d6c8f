SPECIFICATION HelpersSpec
CONSTANTS
  Loop = Loop
  f1 = f1
  f2 = f2
  k1 = k1
  k2 = k2
  NoOne = NoOne
  Process = {Loop, f1, f2}
  Settings <- Unhindered
  Operations = {"write", "invalid", "throws"}
  MaxDocs = 4
  FlushLines = 4
  Slot = {1, 2, 3, 4}
  MsearchSettings <- MCMsearchSettings
  MaxSearches = 3
  PerOperation = 2
  MaxPages = 3
  ScrollRetries = 1
  Clear = {k1, k2}
  MaxIds = 2
CHECK_DEADLOCK FALSE
INVARIANTS
  TypeOK
  SlotsCounted
  NoDocumentTwice
  AllAccounted
  QuietWhenResolved
  OwnAnswer
  NoneForgotten
  PagesComplete
  ContextCleared
PROPERTIES
  AllEnd
