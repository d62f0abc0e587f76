\* Threads and deletes: nobody marks messages as read, all stay in the room.
CONSTANTS
  Users = {alice, bob}
  Admins = {bob}
  Posters = {alice, bob}
  Deleters = {alice, bob}
  Leavers = {}
  Readers = {}
  Messages = {m1, m2, m3}
  Requests = {r1, r2}
  ReadBatch = 1
  MaxFailures = 1
  NoMessage = NoMessage
  Nobody = Nobody
SPECIFICATION Spec
SYMMETRY Symmetry
CHECK_DEADLOCK FALSE
INVARIANTS TypeOK OneLevelThreads ReplyCountAccounted RedeletesBounded
PROPERTIES DeletedByRightUser
