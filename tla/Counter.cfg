SPECIFICATION Spec
CONSTANTS
  s1 = s1
  s2 = s2
  u1 = u1
  g = g
  add1 = add1
  addMore1 = addMore1
  set1 = set1
  twoOf1 = twoOf1
  fin1 = fin1
  again1 = again1
  refund1 = refund1
  refund2 = refund2
  cancel1 = cancel1
  add2 = add2
  remove2 = remove2
  cancel2 = cancel2
  abandon2 = abandon2
  fin2 = fin2
  job = job
  Sales = {s1, s2}
  Seller <- MCSeller
  Units = {u1}
  Goods = g
  Devices = {}
  Price <- MCPrice
  Stock = 1
  MaxQty = 2
  Calls = {add1, addMore1, set1, twoOf1, fin1, again1, refund1, refund2, add2, remove2, cancel2, abandon2, fin2, job}
  Op <- MCOp
  SaleOf <- MCSaleOf
  LineOf <- MCLineOf
  Back <- MCBack
  Cash = {0}
  OneScreen = TRUE
CONSTRAINT OneWayOut
SYMMETRY Twice
INVARIANTS
  TypeOK
  NoOversell
  SoldMeansCharged
  KardexAgrees
  MoneyMatchesGoods
  NoLeakedReservation
CHECK_DEADLOCK FALSE
