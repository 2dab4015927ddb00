SPECIFICATION FairSpec
CONSTANTS
  Ids = {u1}
  e = e
  p1 = p1
  p2 = p2
  Emails = {e}
  Passwords = {p1, p2}
  CreateDtos <- MCCreateDtos
  UpdateDtos <- MCUpdateDtos
  Calls = {c1, c2}
  Objs = {o1, o2, o3}
  MaxCrashes = 1
  NoRow = NoRow
  Miss = Miss
  NoObj = NoObj
  NoId = NoId
  Blank = Blank
  Absent = Absent
INVARIANTS TypeOK UncommittedOnlyWhenOwed CreatedIsOwedAnEvent
PROPERTIES NotFoundIsJustified EveryCallReturns CreatedIsAnnounced
