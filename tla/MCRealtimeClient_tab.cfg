\* A tab whose sockets drop, reconnect and are remounted.
SPECIFICATION FairSpec
CONSTANTS
  board = board
  Rooms = {board}
  MaxSockets = 3
  MaxEvents = 2
  MaxFrames = 2
CHECK_DEADLOCK FALSE
INVARIANTS
  OneSocketUntilHasty
  TornDownUnlessLate
  RoomsReplayed
  HeardOnce
PROPERTY
  BackOnline
