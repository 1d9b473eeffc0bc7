SPECIFICATION FairSpec
CONSTANTS
  p1 = p1
  p2 = p2
  p3 = p3
  t1 = t1
  t2 = t2
  t3 = t3
  none = none
  Parts = {p1, p2, p3}
  Amount <- MCAmount
  Sums = {1, 2}
  Calls = {t1, t2, t3}
  MaxEdits = 1
  Falling = {p1, p2}
CHECK_DEADLOCK FALSE
INVARIANTS
  LedgerTracksPaid
  TotalIsThePaidOnes
PROPERTIES
  CancelSeesTotal
  OverdueShows
