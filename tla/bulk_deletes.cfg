SPECIFICATION Spec
CONSTANTS
  Loop = Loop
  f1 = f1
  f2 = f2
  NoOne = NoOne
  Process = {Loop, f1, f2}
  Settings <- Narrow
  Operations = {"write", "delete"}
  MaxDocs = 4
  FlushLines = 4
  Slot = {1, 2, 3, 4}
CHECK_DEADLOCK FALSE
INVARIANTS
  AllAccounted
