\* Assignments that overlap, and jobs whose runs fail, die and stall.
SPECIFICATION FairSpec
CONSTANTS
  k1 = k1
  k2 = k2
  ann = ann
  ben = ben
  Calls = {k1, k2}
  Users = {ann, ben}
  Attempts = 2
  MaxStalls = 1
CHECK_DEADLOCK FALSE
INVARIANTS
  AssigneeTold
  DuplicatesHaveCause
PROPERTY
  JobsEnd
