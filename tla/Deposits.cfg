SPECIFICATION FairSpec
CONSTANTS
  c1 = c1
  c2 = c2
  cron = cron
  Calls = {c1}
  MaxNews = 2
  Crowded = FALSE
CHECK_DEADLOCK FALSE
INVARIANTS
  CreditIsConfirmed
  ReleasedWasPaid
PROPERTIES
  KnownTransferIsCredited
  ReturnStands
