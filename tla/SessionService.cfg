SPECIFICATION FairSpec
CONSTANTS
  Keys = {k1, k2}
  Users = {a}
  CreateData <- MCPlain
  UpdateData <- MCPlain
  Calls = {c1, c2}
  MaxDepth = 2
  AwaitsYield = TRUE
  Gone = Gone
  NoUser = NoUser
  NoId = NoId
  b = b
  k2 = k2
INVARIANTS TypeOK
PROPERTIES ImplementsSessionCheck GoneForGoodReturns OthersReturn
