SPECIFICATION FairSpec
CONSTANTS
  Webhooks = {w1}
  Operator = operator
  Liquid = liquid
  DefaultQuota = 2
  MaxQuota = 2
  Wanted = {0, 3}
  Requests = {q1, q2}
  MaxChanges = 1
INVARIANTS NoGaps
PROPERTIES LimesOwnsQuota ProjectGetsQuota QuotaConverges
CHECK_DEADLOCK FALSE
