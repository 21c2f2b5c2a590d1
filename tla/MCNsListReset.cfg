SPECIFICATION LSpec
CONSTANTS
  PA = {p1, p2}
  Cells = {c1, c2}
  NULL = NULL
  PostambleMayFail = TRUE
PROPERTIES AddedIsTracked
