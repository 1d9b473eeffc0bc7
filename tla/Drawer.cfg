SPECIFICATION Spec
CONSTANTS
  ana = ana
  s1 = s1
  s2 = s2
  open1 = open1
  open2 = open2
  close1 = close1
  force1 = force1
  auto1 = auto1
  review1 = review1
  review2 = review2
  take1 = take1
  take2 = take2
  put1 = put1
  pay1 = pay1
  back1 = back1
  Users = {ana}
  Sessions = {s1, s2}
  Calls = {open1, open2, close1, force1, auto1, review1, review2, put1}
  Owner <- MCOwner
  Op <- MCOp
  Actor <- MCActor
  Amount <- MCAmount
INVARIANTS
  OperatorCountIsTrue
PROPERTIES
  ClosedIsFrozen
  FirstCloseStands
CHECK_DEADLOCK FALSE
