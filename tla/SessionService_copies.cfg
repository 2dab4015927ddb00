SPECIFICATION Spec
CONSTANTS
  Keys = {k1, k2}
  Users = {a, b}
  CreateData <- MCPlain
  UpdateData <- MCNaming
  Calls = {c1, c2}
  MaxDepth = 2
  AwaitsYield = TRUE
  Gone = Gone
  NoUser = NoUser
  NoId = NoId
  b = b
  k2 = k2
INVARIANTS OwnersKept
PROPERTIES ListingIsFaithful GoneStaysGoneUnlessHeld
SYMMETRY MCSymmetry
