SPECIFICATION AdminSpec
CONSTANTS
  p1 = p1
  p2 = p2
  t1 = t1
  t2 = t2
  t3 = t3
  r1 = r1
  r2 = r2
  k1 = k1
  c1 = c1
  c2 = c2
  People = {p1, p2}
  Tokens = {t1, t2, t3}
  Calls = {r1, r2}
  Limit = 1
  MaxCount = 2
  MaxSlips = 1
  NoOne = NoOne
  MaxRows = 3
  MaxChanges = 2
  MaxShown = 22
  MaxDay = 3
  MaxDaily = 2
  Keys = {k1}
  Options = {c1, c2}
  First = c1
  MaxQueue = 1
INVARIANTS
  AdminTypeOK
  OneTokenPerSession
  RevocationSweeps
  FiguresAgree
  CountsNested
  QuietMeansAnswered
  OwnChangesShown
PROPERTY BlockedRecovers
CHECK_DEADLOCK FALSE
