\* One request at a time: who may mute whom.
CONSTANTS
  Users = {u1, u2, u3}
  Requests = {r1}
  Invites = {i1}
  Limits = {1}
  RoleInputs = {"admin"}
  MuteInputs = {"muted"}
  UnlimitedBound = 1
  Nobody = Nobody
  NoInvite = NoInvite
SPECIFICATION Spec
CHECK_DEADLOCK FALSE
PROPERTIES MuteByAdminsOnly
