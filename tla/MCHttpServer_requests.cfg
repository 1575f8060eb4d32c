\* Two requests of one client to two instances that fail, stop and start.
SPECIFICATION FairSpec
CONSTANTS
  i1 = i1
  i2 = i2
  Instances = {i1, i2}
  MaxRequests = 2
  Limit = 1
CHECK_DEADLOCK FALSE
INVARIANTS
  LimitHolds
  RowsHaveFiles
PROPERTY
  EveryRequestEnds
