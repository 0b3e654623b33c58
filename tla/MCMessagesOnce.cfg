SPECIFICATION WalkSpec
CONSTANTS
  Id = {1, 2, 3, 4}
  Value = {1, 2}
  Limit = 3
  Ties = 2
  Ascending = TRUE
  MaxWrites = 0
INVARIANTS
  MessagesOnce
CHECK_DEADLOCK FALSE
