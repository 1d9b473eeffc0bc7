SPECIFICATION Spec
CONSTANTS
  q1 = q1
  p1 = p1
  p2 = p2
  o1 = o1
  o2 = o2
  k1 = k1
  same = same
  other = other
  NoKey = NoKey
  Requests = {p1, p2}
  Kind <- MCKind
  Intent <- MCIntent
  Key <- MCKey
  Gross <- MCGross
  Quotes <- ExactQuotes
  InitialBalance = 5
  DailyCap = 9
  Webhooks = TRUE
  Pollers = {q1}
  MaxAge = 1
  MaxUses = 1
SYMMETRY Copies
INVARIANTS
  OneRowPerKey
  NotPaidIsTrue
  SentIsTraceable
PROPERTIES
  DuplicateGuardSound
