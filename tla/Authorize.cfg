SPECIFICATION FairSpec
CONSTANTS
  d1 = d1
  d3 = d3
  d2 = d2
  k1 = k1
  none = none
  Requests = {d1, d2}
  PartnerKey <- OneOrder
  s1 = s1
  s3 = s3
  s2 = s2
  Screens = {s1, s2, s3}
  MaxAttempts = 3
CHECK_DEADLOCK FALSE
INVARIANTS
  OnePaymentPerOrder
  ClaimIsExclusive
PROPERTIES
  StaleLeavesQueue
