SPECIFICATION Spec
CONSTANTS
  n1 = n1
  n2 = n2
  u1 = u1
  u2 = u2
  c1 = c1
  c2 = c2
  r1 = r1
  r2 = r2
  Sniff = Sniff
  None = None
  Request = {r1}
  Conn = {c1}
  NodeId = {n1, n2}
  Href = {u1, u2}
  UrlOf <- MCUrlOf
  MasterOnly = {}
  Cutoff = 0
  InitialIds = {u1}
  Strategy = "none"
  Views <- OneNode
  Options <- NotRetried
  DefaultRetries = 1
  SniffInterval = FALSE
  SniffOnFault = TRUE
  MaySniff = FALSE
  MayAbort = TRUE
  Faults = {}
  Contents = {"ok"}
  MaxPings = 1
CHECK_DEADLOCK FALSE
INVARIANTS
  AbortedFailsAsAborted
