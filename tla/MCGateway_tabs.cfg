\* Two tabs of one user; frames sent as soon as a socket opens, heartbeats, crashes.
SPECIFICATION FairSpec
CONSTANTS
  ann = ann
  c1 = c1
  c2 = c2
  room = room
  Conns = {c1, c2}
  Users = {ann}
  Rooms = {room}
  UserOf <- OneUser
  MaxFrames = 1
CHECK_DEADLOCK FALSE
INVARIANTS
  IndexMatchesRooms
  SubscriptionsHeld
  NothingUnasked
  OfflineWhenGone
PROPERTY
  DeadPeerReleased
