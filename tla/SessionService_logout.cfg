SPECIFICATION FairSpec
CONSTANTS
  Keys = {k1, k2}
  Users = {a}
  CreateData <- MCPlain
  UpdateData <- MCPlain
  Calls = {c1}
  MaxDepth = 2
  AwaitsYield = FALSE
  Gone = Gone
  NoUser = NoUser
  NoId = NoId
  b = b
  k2 = k2
PROPERTIES LogoutAnswers
