\* Calls take any time, overlap and get lost; a lock lives three ticks.
SPECIFICATION FairSpec
CONSTANTS
  ann = ann
  ben = ben
  vic = vic
  a1 = a1
  b1 = b1
  v1 = v1
  NoOne = NoOne
  Users <- MCUsers
  Tabs <- MCTabs
  Owner <- MCOwner
  Writers <- MCWriters
  Handlers <- MCHandlers
  TTL = 3
INVARIANTS
  KeptWhileGranted
PROPERTIES
  AbandonedLockExpires
  LastEditorGetsLock
