SPECIFICATION FairSpec
CONSTANTS
  Addr = {"a", "b", "c"}
  SetName = {"rs", "other"}
  Deployments <- MCDeployments
INVARIANTS
  OnePrimary
  OneSet
  AssertionsHold
  ErrorsAreCurrent
PROPERTIES
  NeverBack
  Recovers
