CONSTANTS
  N = 5
  PageMax = 3
  MaxCreated = 2
  MaxRemoved = 2
SPECIFICATION FairSpec
INVARIANTS
  TypeOK
  DriftBounded
PROPERTY ListingEnds
CHECK_DEADLOCK FALSE
