SPECIFICATION Spec
CONSTANTS
  n1 = n1
  n2 = n2
  u1 = u1
  u2 = u2
  c1 = c1
  c2 = c2
  r1 = r1
  r2 = r2
  Sniff = Sniff
  None = None
  Request = {r1}
  Conn = {c1, c2}
  NodeId = {n1, n2}
  Href = {u1, u2}
  UrlOf <- MCUrlOf
  MasterOnly = {}
  Cutoff = 0
  InitialIds = {u1, u2}
  Strategy = "ping"
  Views <- BothNodes
  Options <- AllOptions
  DefaultRetries = 1
  SniffInterval = TRUE
  SniffOnFault = TRUE
  MaySniff = TRUE
  MayAbort = TRUE
  Faults = {"connection", "timeout"}
  Contents = {"ok", "error", "gateway", "undecodable", "tooLarge"}
  MaxPings = 1
INVARIANTS
  TypeOK
  SniffExclusive
  NeverWithoutConnection
PROPERTIES
  FollowsLifecycle
  NoSendAfterAbort
  RetryAvoidsFailed
