SPECIFICATION FairSpec
CONSTANTS
  a1 = a1
  a2 = a2
  a3 = a3
  o1 = o1
  o2 = o2
  t1 = t1
  t2 = t2
  x1 = x1
  x2 = x2
  none = none
  Actions = {a1, a2}
  Cashback = {a1}
  RewardLimit = 1
  Orders = {o1, o2}
  Calls = {t1, t2}
  Runs = {x1, x2}
  Fits = TRUE
  MaxDeaths = 1
  MaxLocks = 1
INVARIANTS
  CreditedOnce
  WithinLimit
  OneOrderPerReward
  SweptOnce
PROPERTIES
  OverdueLeaves
CHECK_DEADLOCK FALSE
