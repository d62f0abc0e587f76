\* Each of five services alone: who hears a room, what a search finds of it,
\* whether bucket and rows agree, who is pushed.
CONSTANTS
  alice = alice
  bob = bob
  s1 = s1
  s2 = s2
  Users = {alice}
  Sockets = {s1, s2}
  UserOf <- OfAlice
  ChatRooms = {r1}
  GroupRooms = {g1}
  DmRooms = {d1, d2, d3}
  Pair = {p1, p2}
  DmRequests = {c1, c2}
  Names = {n1, n2}
  NoName = NoName
  NoRoom = NoRoom
  RoomRequests = {q1, q2}
  MaxRoomEvents = 2
  RoomIndexEnabled = TRUE
  MaxRoomLosses = 0
  Keys = {k1, k2, k3}
  k1 = k1
  ClientKeys <- Confirmable
  Extensionless = {k2, k3}
  NoExtension = NoExtension
  Uploaders = {alice}
  FileRequests = {f1, f2}
  NoUploader = NoUploader
  NoKey = NoKey
  Members = {alice, bob}
  Recipient = alice
  Devices = {e1, e2}
  Notices = {m1}
  NoOwner = NoOwner
SPECIFICATION Spec
CHECK_DEADLOCK FALSE
INVARIANTS TypeOK WhoHears StorageMatchesRows RoomIndexAgrees DmsBounded AwayIsPushed PushesAreRecorded
PROPERTIES TypingStops
