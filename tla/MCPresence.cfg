SPECIFICATION Spec
CONSTANTS
  alice = alice
  s1 = s1
  s2 = s2
  Users = {alice}
  Sockets = {s1, s2}
  UserOf <- Owner
  Chosen = {"away"}
  Choosers = {s1}
  Patched = {"offline"}
  MaxCrashes = 1
INVARIANTS
  TypeOK
  SocketsCounted
  PresenceAgrees
PROPERTIES
  AwayIsNoticed
CHECK_DEADLOCK FALSE
