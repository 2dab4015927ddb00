SPECIFICATION Spec
CONSTANTS
  Requests = {r1}
  Users = {a}
  Ips = {i}
  Routes = {"sessions"}
  Exemptions = {"no"}
  Limit = 1
  CreateLimit = 1
  Load = 2
  MissIsNull = FALSE
  NoSub = NoSub
  None = None
PROPERTIES RefusedTokenIsBad
