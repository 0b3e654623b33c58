SPECIFICATION Spec
CONSTANTS
  Request = {r1, r2, r3, r4, r5}
  NoToken = NoToken
SYMMETRY MCSymmetry
INVARIANTS
  RotatedAgainOnlyAtOnce
  OldSessionsEnd
  ClosedAccountsGetNoSession
CHECK_DEADLOCK FALSE
