SPECIFICATION FairSpec
CONSTANTS
  Requests = {r1}
  Users = {a}
  Ips = {i}
  Routes = {"health", "login", "logout", "create", "getUser"}
  Exemptions = {"no", "agent", "internal"}
  Limit = 2
  CreateLimit = 1
  Load = 2
  MissIsNull = TRUE
  NoSub = NoSub
  None = None
INVARIANTS TypeOK WindowBound AuthCountsKnown
PROPERTIES AdmittedIsEntitled ImplementsSessionCheck OnlySessionsHoldUp
