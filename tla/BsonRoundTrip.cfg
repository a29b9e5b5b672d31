SPECIFICATION Spec
CONSTANTS
  Documents <- SmallDocuments
  MaxStack = 5
  MaxTrips = 3
CHECK_DEADLOCK FALSE
INVARIANTS
  StandsForSent
  AcceptedAgain
  StableAfterOneTrip
