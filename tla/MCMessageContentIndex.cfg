SPECIFICATION LiveSpec
CONSTANTS
  Users = {ann, bob}
  Admins = {}
  Senders = {ann}
  Reactors = {bob}
  Messages = {m1}
  TextMessages = {m1}
  Contents = {c1, c2}
  Emojis = {}
  Requests = {r1, r2}
  MaxEdits = 1
  NoContent = NoContent
  NoMessage = NoMessage
  Nobody = Nobody
  NoEmoji = NoEmoji
  Gone = Gone
  Enabled = TRUE
  MaxLosses = 1
INVARIANT IndexAgrees
PROPERTIES EditsNeverResurface DeletedLeavesSearch
CHECK_DEADLOCK FALSE
