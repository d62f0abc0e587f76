\* Unread counters: bob posts and reads, alice reads, leaves and comes back.
CONSTANTS
  Users = {alice, bob}
  Admins = {}
  Posters = {bob}
  Deleters = {bob}
  Leavers = {alice}
  Readers = {alice, bob}
  Messages = {m1, m2}
  Requests = {r1, r2}
  ReadBatch = 1
  MaxFailures = 1
  NoMessage = NoMessage
  Nobody = Nobody
SPECIFICATION Spec
SYMMETRY Symmetry
CHECK_DEADLOCK FALSE
INVARIANTS UnreadBacked
