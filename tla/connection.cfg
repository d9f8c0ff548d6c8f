SPECIFICATION FairSpec
CONSTANTS
  plain1 = plain1
  plain2 = plain2
  streamed = streamed
  unescaped = unescaped
  Request = {plain1, plain2, streamed, unescaped}
  Unescaped = {unescaped}
  Streamed = {streamed}
CHECK_DEADLOCK FALSE
INVARIANTS
  OpenCounted
  UncaughtOnlyInBody
PROPERTIES
  ClosedWhenIdle
  AllAnswered
