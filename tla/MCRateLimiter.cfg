SPECIFICATION Spec
CONSTANTS
  NumRequests = 4
  Limits = {1, 2}
  Window = 4
  Second = 2
  MaxTime = 5
INVARIANTS
  WindowBound
  RetryAfterHonest
PROPERTIES
  ImplementsWindow
CHECK_DEADLOCK FALSE
