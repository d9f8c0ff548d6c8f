SPECIFICATION Spec
CONSTANTS
  root = root
  child1 = child1
  child2 = child2
  ClientId = {root, child1, child2}
  Root = root
  Api <- ESAPI
  Probe <- MCProbe
  Auth = {"A", "B"}
  NoAuth = "none"
  ExtensionName = {"search", "fresh"}
  Builtin = {"search"}
  Fn = {"f", "g"}
  MaxExtensions = 2
SYMMETRY Symmetry
INVARIANT
  OwnAuthorization
