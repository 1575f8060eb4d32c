\* Two users, three calls.
SPECIFICATION Spec
CONSTANTS
  Requests = {r1, r2, r3}
  Users = {ann, ben}
CHECK_DEADLOCK FALSE
SYMMETRY Symmetry
INVARIANTS
  OwnedUntilDemotion
  AuditTruthful
  SlugsContiguous
PROPERTY
  OwnershipNotForged
