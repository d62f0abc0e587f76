SPECIFICATION Spec
CONSTANTS
  Users = {ann, bob}
  Admins = {bob}
  Senders = {ann}
  Reactors = {bob}
  Messages = {m1}
  TextMessages = {m1}
  Contents = {c1, c2}
  Emojis = {e1}
  Requests = {r1, r2, r3}
  MaxEdits = 3
  NoContent = NoContent
  NoMessage = NoMessage
  Nobody = Nobody
  NoEmoji = NoEmoji
  Gone = Gone
  Enabled = FALSE
  MaxLosses = 0
INVARIANTS TypeOK OriginalKept
PROPERTIES DeletedIsFrozen KeepsPromise
CHECK_DEADLOCK FALSE
SYMMETRY Symmetry
