\* Four calls from two browsers interleave freely.
SPECIFICATION Spec
CONSTANTS
  Requests = {r1, r2, r3, r4}
  Browsers = {b1, b2}
  Emails = {"ann"}
  NoToken = NoToken
SYMMETRY Symmetry
CHECK_DEADLOCK FALSE
INVARIANTS
  ParentsRevoked
  OneLiveUntilFork
  CookieUsable
