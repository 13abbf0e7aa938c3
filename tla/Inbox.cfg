\* Two customers, one handler, a screen that polls, and one mishap.
SPECIFICATION Spec
CONSTANTS
  p1 = p1  p2 = p2  h1 = h1  h2 = h2
  Phones = {p1, p2}
  Handlers = {h1}
  Nobody = Nobody
  WindowLength = 1
  MaxDelay = 1
  MaxTime = 2
  MaxContacts = 1
  MaxWrites = 1
  MaxLoads = 2
  MaxSends = 1
  MaxMishaps = 1
INVARIANTS RightConversation WindowFollowsCustomer KeywordIsNotLost
SYMMETRY InboxSymmetry
CHECK_DEADLOCK FALSE
