SPECIFICATION FairSpec
CONSTANTS
  Loop = Loop
  f1 = f1
  f2 = f2
  NoOne = NoOne
  Process = {Loop, f1, f2}
  Settings <- SlowAndNarrow
  Operations = {"write"}
  MaxDocs = 4
  FlushLines = 4
  Slot = {1, 2, 3, 4}
CHECK_DEADLOCK FALSE
PROPERTIES
  Ends
