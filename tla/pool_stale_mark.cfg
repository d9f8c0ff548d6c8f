SPECIFICATION Spec
CONSTANTS
  n1 = n1
  n2 = n2
  n3 = n3
  u1 = u1
  u2 = u2
  c1 = c1
  c2 = c2
  c3 = c3
  c4 = c4
  Conn = {c1, c2, c3}
  NodeId = {n1, n2, n3}
  Href = {u1, u2}
  UrlOf <- MCUrlOf
  MasterOnly = {}
  Cutoff = 1
  InitialIds = {n1, n2}
  Views <- LeaveAndReturn
  Addable = {}
  Removable = {}
  InitStrategies = {"ping"}
  MaxCalls = 1
  MaxPings = 1
  MayEmpty = FALSE
SYMMETRY Symmetry
VIEW View
INVARIANTS
  AlwaysServes
