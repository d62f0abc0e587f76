\* Two requests in progress at once: does a room keep its owner?
CONSTANTS
  Users = {u1, u2, u3}
  Requests = {r1, r2}
  Invites = {i1}
  Limits = {1}
  RoleInputs = {"admin"}
  MuteInputs = {}
  UnlimitedBound = 1
  Nobody = Nobody
  NoInvite = NoInvite
SPECIFICATION Spec
CHECK_DEADLOCK FALSE
PROPERTIES OwnerNeverAbandons
