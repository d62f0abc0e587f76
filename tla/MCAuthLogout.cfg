SPECIFICATION Spec
CONSTANTS
  Users = {ann}
  Guest = Nobody
  Uses <- AgentsUsed
  Returning = {ann}
  Devices <- TwoAgents
  Tokens = {t1, t2, t3}
  Sessions = {s1, s2, s3}
  Requests = {r1}
  Nobody = Nobody
  NoToken = NoToken
  NoDevice = NoDevice
  NoAddress = NoAddress
  NoAgent = NoAgent
  NoSession = NoSession

PROPERTY LogoutOnlyThisDevice
SYMMETRY Symmetry
CHECK_DEADLOCK FALSE
