\* Two tabs, two requests and two calls of /auth at a time.
SPECIFICATION Spec
CONSTANTS
  t1 = t1  t2 = t2  c1 = c1  c2 = c2  h1 = h1  h2 = h2
  Tabs = {t1, t2}
  Calls = {c1, c2}
  Handlers = {h1, h2}
  Nobody = Nobody
  MaxKeys = 3
  MaxLinks = 1
  MaxMishaps = 1
INVARIANTS TypeOK EndedStayEnded SessionsSurvive
SYMMETRY SessionsSymmetry
CHECK_DEADLOCK FALSE
