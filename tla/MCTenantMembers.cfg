SPECIFICATION Spec
CONSTANTS
  own = own
  adm = adm
  new = new
  Email = {own, adm, new}
  Founder = {own, adm}
  FounderRole <- MCOwned
  Request = {r1, r2, r3, r4}
  Asked = {"SUPER_ADMIN", "OWNER", "ADMIN", "MEMBER"}
  NoUser = NoUser
  NoInvitation = NoInvitation
  NoRequest = NoRequest
  NotBegun = NotBegun
  Over = Over
SYMMETRY MCSymmetry
INVARIANTS
  RoleCeiling
  FoundersKeepRank
  AcceptedHasAccount
