\* Handlers interleave freely, and two commits may share a millisecond.
SPECIFICATION Spec
CONSTANTS
  Requests = {r1, r2, r3}
  alice = alice
  bob = bob
  viewer = viewer
  Editors <- MemberAndViewer
  Writers <- Member
  Blank = Blank
  Steps <- AnySteps
SYMMETRY SymmetricCalls
CHECK_DEADLOCK FALSE
INVARIANTS
  HistoryGenuine
  ConflictGenuine
  LossNeedsOverlap
  OverwriteNeedsOverlap
PROPERTY
  ImplementsRegister
