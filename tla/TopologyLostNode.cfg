SPECIFICATION Spec
CONSTANTS
  Addr = {"a", "b", "c", "d"}
  SetName = {"rs", "other"}
  Deployments <- MCReadded
INVARIANT NodesAreFound
