\* Two requests in progress at once: who gets in, and how often an invite is used.
CONSTANTS
  Users = {u1, u2, u3}
  Requests = {r1, r2}
  Invites = {i1}
  Limits = {1}
  RoleInputs = {}
  MuteInputs = {}
  UnlimitedBound = 1
  Nobody = Nobody
  NoInvite = NoInvite
SPECIFICATION Spec
SYMMETRY Symmetry
CHECK_DEADLOCK FALSE
INVARIANTS InviteOvershootBounded
PROPERTIES JoinsAsPlainMember AdmissionIsCounted
