\* Two clicks, concurrent webhooks in any order, a late charge, a refund and
\* a cancellation.
SPECIFICATION Spec
CONSTANTS
  c1 = c1  c2 = c2  h1 = h1  h2 = h2
  Clients = {c1, c2}
  Hooks = {h1, h2}
  Charges <- TwoCharges
  Nobody = Nobody
  Late = {1}
  Refundable = {1}
  MaxRequests = 2
  MaxFailures = 1
INVARIANTS OneMonthPerCharge RefundedMovesNothing NoDuplicateAtProvider
PROPERTY CreditedOnce
SYMMETRY BillingSymmetry
CHECK_DEADLOCK FALSE
