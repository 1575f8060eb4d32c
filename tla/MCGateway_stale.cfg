\* Two tabs of one user, and an access check that outlasts its connection.
SPECIFICATION Spec
CONSTANTS
  ann = ann
  c1 = c1
  c2 = c2
  room = room
  Conns = {c1, c2}
  Users = {ann}
  Rooms = {room}
  UserOf <- OneUser
  MaxFrames = 1
CHECK_DEADLOCK FALSE
INVARIANT
  NoStaleRooms
