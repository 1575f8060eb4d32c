\* A page opened twice and three calls, its own and other pages', that overlap and fail.
SPECIFICATION Spec
CONSTANTS
  p1 = p1
  c1 = c1
  c2 = c2
  c3 = c3
  Pages = {p1}
  Calls = {c1, c2, c3}
  MaxVisits = 2
SYMMETRY Symmetry
CHECK_DEADLOCK FALSE
INVARIANTS
  TypeOK
  PagesConverge
  RejectionTold
  NoSelfConflict
