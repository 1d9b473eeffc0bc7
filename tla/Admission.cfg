SPECIFICATION Spec
CONSTANTS
  p1 = p1
  q1 = q1
  p2 = p2
  o1 = o1
  o2 = o2
  k1 = k1
  same = same
  other = other
  NoKey = NoKey
  Requests = {p1, o1, o2}
  Kind <- MCKind
  Intent <- MCIntent
  Key <- MCKey
  Gross <- MCGross
  Quotes <- MCQuotes
  InitialBalance = 4
  DailyCap = 5
  Webhooks = FALSE
  Pollers = {}
  MaxAge = 0
  MaxUses = 1
SYMMETRY Sends
INVARIANTS
  TypeOK
  OpenWithinBalance
  WithinDailyCap
