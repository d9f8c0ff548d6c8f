SPECIFICATION FairSpec
CONSTANTS
  n1 = n1
  n2 = n2
  u1 = u1
  u2 = u2
  c1 = c1
  c2 = c2
  r1 = r1
  r2 = r2
  Sniff = Sniff
  None = None
  Request = {r1, r2}
  Conn = {c1}
  NodeId = {n1, n2}
  Href = {u1, u2}
  UrlOf <- MCUrlOf
  MasterOnly = {}
  Cutoff = 0
  InitialIds = {u1}
  Strategy = "optimistic"
  Views <- OneNode
  Options <- GzippedOnce
  DefaultRetries = 1
  SniffInterval = TRUE
  SniffOnFault = TRUE
  MaySniff = FALSE
  MayAbort = TRUE
  Faults = {"connection", "timeout"}
  Contents = {"ok", "gateway", "undecodable"}
  MaxPings = 1
INVARIANTS
  NeverWithoutConnection
PROPERTIES
  Answered
  SniffEnds
CHECK_DEADLOCK FALSE
