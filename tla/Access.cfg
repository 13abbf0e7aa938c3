\* Two users behind one address, a subscription that is paid, falls due and ends.
SPECIFICATION Spec
CONSTANTS
  u1 = u1  u2 = u2
  Users = {u1, u2}
  Address = Address
  CacheTtl = 1
  Ttl = 2
  Limit = 1
  Month = 2
  Grace = 1
  MaxHandling = 1
  MaxTime = 4
  MaxEvents = 2
  MaxCalls = 3
  MaxRestarts = 1
INVARIANTS AccessFollowsPayment RefusedForOwnRequests
SYMMETRY AccessSymmetry
CHECK_DEADLOCK FALSE
