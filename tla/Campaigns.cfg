\* Two requests of any kind, with two phones of one person, a plan that includes
\* one marketing message, one cent of credit and, if there is a quota, one recipient.
SPECIFICATION Spec
CONSTANTS
  p1 = p1  p2 = p2  k1 = k1  k2 = k2
  People = {p1, p2}
  Requests = {k1, k2}
  Nothing = Nothing
  Chunk = 1
  DailyQuota = 1
  Credit = 1
  Included = 1
  Categories = {"marketing", "utility"}
  Marketing = "marketing"
  PriceOf <- Prices
  Normal <- OnePerson
  MaxSurprises = 1
INVARIANTS OptOutHolds CancelStops QuotaHolds UnpaidOnlyIfExposed DuplicatesNeedMishap
SYMMETRY CampaignsSymmetry
CHECK_DEADLOCK FALSE
