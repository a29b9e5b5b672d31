SPECIFICATION FairSpec
CONSTANTS
  Path <- Paths
  Trees <- AllTrees
  Link <- Outside
  MaxOthers = 2
CHECK_DEADLOCK FALSE
INVARIANTS
  RemoveDirTellsTheTruth
  OnlyAsAsked
PROPERTY CallsEnd
