SPECIFICATION FairWalkSpec
CONSTANTS
  Id = {1, 2, 3, 4}
  Value = {1, 2}
  Limit = 2
  Ties = 4
  Ascending = FALSE
  MaxWrites = 2
INVARIANTS
  EachOnce
  InOrder
PROPERTIES
  WalkEnds
CHECK_DEADLOCK FALSE
