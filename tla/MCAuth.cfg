SPECIFICATION Spec
CONSTANTS
  Users = {ann, bob}
  Guest = bob
  Uses <- KindsUsed
  Returning = {ann}
  Devices <- AllKinds
  Tokens = {t1, t2, t3}
  Sessions = {s1, s2, s3}
  Requests = {r1, r2}
  Nobody = Nobody
  NoToken = NoToken
  NoDevice = NoDevice
  NoAddress = NoAddress
  NoAgent = NoAgent
  NoSession = NoSession
INVARIANTS TypeOK DeviceSessionsBounded RotationsBounded SessionKeepsItsUser
PROPERTY RevokedIsFinal
SYMMETRY Symmetry
CHECK_DEADLOCK FALSE
