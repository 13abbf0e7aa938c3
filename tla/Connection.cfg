\* Two organizations, two numbers, two requests and two calls at a time.
SPECIFICATION Spec
CONSTANTS
  o1 = o1  o2 = o2  n1 = n1  n2 = n2  h1 = h1  h2 = h2
  Orgs = {o1, o2}
  Phones = {n1, n2}
  Handlers = {h1, h2}
  Nobody = Nobody
  Requests <- TwoRequests
  MaxCodes = 2
  MaxSms = 2
  MaxBurned = 1
  PhoneCap = 2
  MaxSurprises = 1
INVARIANTS TypeOK ChannelIsReady SlotsBounded CodesAndPinAgree
PROPERTY OrphansStay
SYMMETRY ConnectionSymmetry
CHECK_DEADLOCK FALSE
