\* One request at a time, with every input: do the rules of the roles hold?
CONSTANTS
  Users = {u1, u2, u3}
  Requests = {r1}
  Invites = {i1}
  Limits = {0, 1, 2}
  RoleInputs = {"owner", "admin", "member"}
  MuteInputs = {"muted"}
  UnlimitedBound = 2
  Nobody = Nobody
  NoInvite = NoInvite
SPECIFICATION Spec
SYMMETRY Symmetry
CHECK_DEADLOCK FALSE
INVARIANTS TypeOK
PROPERTIES OwnersGrowByPatchOnly OwnerNeverAbandons OnlyOwnerManagesAdmins MuteSurvivesRejoin EachUseAdmitsOne
