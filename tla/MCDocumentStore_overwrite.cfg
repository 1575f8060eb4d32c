\* Handlers interleave between their read and their commit, on one clock that
\* tells every two commits apart.
SPECIFICATION Spec
CONSTANTS
  Requests = {r1, r2, r3}
  alice = alice
  bob = bob
  viewer = viewer
  Editors <- MCEditors
  Writers <- MCWriters
  Blank = Blank
  Steps <- DistinctSteps
SYMMETRY Symmetry
CHECK_DEADLOCK FALSE
INVARIANT
  NoSilentOverwrite
