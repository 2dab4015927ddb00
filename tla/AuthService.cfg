SPECIFICATION FairSpec
CONSTANTS
  Calls = {c1, c2}
  Emails = {e}
  Passwords = {p1, p2}
  Ips = {i}
  NoEmail = NoEmail
  NoRow = NoRow
  Limit = 1
  Ttl = 2
  MaxCount = 3
  AwaitsYield = FALSE
INVARIANTS TypeOK AnswersAreJustified CountIsExact OverrunIsBounded
PROPERTIES LockoutEnds
