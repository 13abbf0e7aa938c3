\* Two organizations and the platform, two calls at a time.
SPECIFICATION Spec
CONSTANTS
  o1 = o1  o2 = o2  h1 = h1  h2 = h2
  Orgs = {o1, o2}
  Zaplane = Zaplane
  Plain = Plain
  Handlers = {h1, h2}
  Nobody = Nobody
  MaxIds = 2
  MaxMoves = 3
  MaxMishaps = 1
INVARIANTS RowsAreOwned
SYMMETRY TemplatesSymmetry
CHECK_DEADLOCK FALSE
