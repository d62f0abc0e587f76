--------------------------- MODULE Notifications ---------------------------
(***************************************************************************)
(* What a member learns of a message while not looking: the rows of        *)
(* NotificationsService and the web pushes of PushNotificationsService to  *)
(* the devices of a member who is away.                                    *)
(*                                                                         *)
(* A notice is the processing of one message for one recipient, started by *)
(* triggerNotifications, which nobody waits for: first for the message,    *)
(* then, if the recipient is mentioned, for the mention.  The recipients   *)
(* of a message do not disturb one another (Promise.allSettled); the       *)
(* mentions wait until all of them are done, which adds no behaviour here. *)
(* The presence key comes and goes as the module Presence says; here it    *)
(* does so at any time.                                                    *)
(***************************************************************************)
EXTENDS Naturals, FiniteSets

CONSTANTS
  Members,     \* users with devices
  Recipient,   \* the one the messages are for
  Devices,     \* push endpoints, one of each browser
  Notices,     \* the messages
  NoOwner

ASSUME NotificationsAssumption == Recipient \in Members /\ NoOwner \notin Members

VARIABLES
  notification,  \* the rows, for each notice and kind: "none", "unread", "read"
  pushSent,      \* the notices whose rows have pushSentAt
  owner,         \* of a push subscription: userId
  activeSub,     \* the devices whose subscription isActive
  away,          \* the recipient has no presence key
  expired,       \* devices of which the push service answers 404 or 410
  notice,        \* the processing of each notice
  accepted,      \* <<notice, kind, device>>: pushes a push service took
  excused        \* history: devices that lacked something while a notice was processed

notificationVars == <<notification, pushSent, owner, activeSub, away, expired, notice,
                      accepted, excused>>

-----------------------------------------------------------------------------
Kinds == {"message", "mention"}
NewNotice == [pc |-> "new", kind |-> "message", mentioned |-> FALSE, left |-> {}, sent |-> 0]

NotificationsInit ==
  /\ notification = [n \in Notices |-> [k \in Kinds |-> "none"]]
  /\ pushSent = {}
  /\ owner = [d \in Devices |-> NoOwner]
  /\ activeSub = {}
  /\ away = TRUE
  /\ expired = {}
  /\ notice = [n \in Notices |-> NewNotice]
  /\ accepted = {}
  /\ excused = [n \in Notices |-> Devices]

(* A device that could have had the push when the processing of a kind     *)
(* began, and of which nothing that matters has changed since.             *)
Ready == {d \in activeSub \ expired : owner[d] = Recipient}
Excuse(set) == excused' = [n \in Notices |-> excused[n] \cup set]

At(n, pc) == notice[n].pc = pc
Goto(n, pc) == notice' = [notice EXCEPT ![n].pc = pc]

-----------------------------------------------------------------------------
Begin(n, mentioned) ==
  /\ At(n, "new")
  /\ notice' = [notice EXCEPT ![n] = [@ EXCEPT !.pc = "create", !.mentioned = mentioned]]
  /\ UNCHANGED <<notification, pushSent, owner, activeSub, away, expired, accepted, excused>>

(* create, whatever comes of the push.                                     *)
CreateNotification(n) ==
  /\ At(n, "create")
  /\ notification' = [notification EXCEPT ![n][notice[n].kind] = "unread"]
  /\ excused' = [excused EXCEPT ![n] = IF away THEN Devices \ Ready ELSE Devices]
  /\ Goto(n, "check")
  /\ UNCHANGED <<pushSent, owner, activeSub, away, expired, accepted>>

(* isOnline: is there a presence key?                                      *)
CheckPresence(n) ==
  /\ At(n, "check")
  /\ Goto(n, IF away THEN "find" ELSE "settled")
  /\ UNCHANGED <<notification, pushSent, owner, activeSub, away, expired, accepted, excused>>

(* sendToUser: the active subscriptions are read and sent to, all at once. *)
FindSubscriptions(n) ==
  /\ At(n, "find")
  /\ notice' = [notice EXCEPT ![n] =
       [@ EXCEPT !.pc = "send", !.sent = 0,
                 !.left = {d \in activeSub : owner[d] = Recipient}]]
  /\ UNCHANGED <<notification, pushSent, owner, activeSub, away, expired, accepted, excused>>

(* What a failed call leaves to do: the other devices; and one that counts.*)
GiveUp(left, d) == {}
OthersOf(left, d) == left \ {d}
SentTo(q, d) == [q EXCEPT !.left = q.left \ {d}, !.sent = q.sent + 1]

Accept(n, d) ==
  /\ At(n, "send") /\ d \in notice[n].left \ expired
  /\ accepted' = accepted \cup {<<n, notice[n].kind, d>>}
  /\ notice' = [notice EXCEPT ![n] = SentTo(@, d)]
  /\ UNCHANGED <<notification, pushSent, owner, activeSub, away, expired, excused>>

(* 404 or 410: the subscription is deactivated, and the call counts as     *)
(* sent.  Its failure would be ignored.                                    *)
Deactivate(n, d) ==
  /\ At(n, "send") /\ d \in notice[n].left \cap expired
  /\ activeSub' = activeSub \ {d}
  /\ notice' = [notice EXCEPT ![n] = SentTo(@, d)]
  /\ UNCHANGED <<notification, pushSent, owner, away, expired, accepted, excused>>

Reject(n, d) ==
  /\ At(n, "send") /\ d \in notice[n].left
  /\ notice' = [notice EXCEPT ![n].left = OthersOf(@, d)]
  /\ excused' = [excused EXCEPT ![n] = @ \cup {d}]
  /\ UNCHANGED <<notification, pushSent, owner, activeSub, away, expired, accepted>>

Tried(n) == TRUE
AnySent(n) == notice[n].sent > 0

AllSent(n) ==
  /\ At(n, "send") /\ notice[n].left = {}
  /\ Goto(n, IF AnySent(n) /\ notice[n].kind = "message" THEN "mark" ELSE "settled")
  /\ UNCHANGED <<notification, pushSent, owner, activeSub, away, expired, accepted, excused>>

(* pushSentAt; a mention's row has none.                                   *)
MarkSent(n) ==
  /\ At(n, "mark")
  /\ pushSent' = pushSent \cup {n}
  /\ Goto(n, "settled")
  /\ UNCHANGED <<notification, owner, activeSub, away, expired, accepted, excused>>

(* A call of the database or of Redis fails: caught, logged, and the end   *)
(* of this kind of notification.                                           *)
NoticeFails(n) ==
  /\ notice[n].pc \in {"create", "check", "find", "mark"}
  /\ Goto(n, "settled")
  /\ excused' = [excused EXCEPT ![n] = IF At(n, "mark") THEN @ ELSE Devices]
  /\ UNCHANGED <<notification, pushSent, owner, activeSub, away, expired, accepted>>

NextKind(n) ==
  /\ At(n, "settled")
  /\ notice' = IF notice[n].mentioned /\ notice[n].kind = "message"
               THEN [notice EXCEPT ![n] = [@ EXCEPT !.pc = "create", !.kind = "mention",
                                                    !.sent = 0]]
               ELSE [notice EXCEPT ![n].pc = "done"]
  /\ UNCHANGED <<notification, pushSent, owner, activeSub, away, expired, accepted, excused>>

-----------------------------------------------------------------------------
(* What getNotifications lists, of which the badge counts those not read.  *)
Listed(n, kind) == notification[n][kind] # "none"

(* markAsRead, markAllAsRead: the recipient's rows are read.               *)
MarkRead(rows) ==
  /\ rows # {}
  /\ \A x \in rows : notification[x[1]][x[2]] = "unread"
  /\ notification' = [n \in Notices |-> [k \in Kinds |->
                        IF <<n, k>> \in rows THEN "read" ELSE notification[n][k]]]
  /\ UNCHANGED <<pushSent, owner, activeSub, away, expired, notice, accepted, excused>>

(* subscribe: an upsert by endpoint, which leaves the first user in place. *)
SubscribeUnowned(u, d) ==
  /\ activeSub' = activeSub \cup {d}
  /\ UNCHANGED <<notification, pushSent, owner, away, expired, notice, accepted, excused>>

Subscribe(u, d) ==
  /\ owner' = [owner EXCEPT ![d] = IF @ = NoOwner THEN u ELSE @]
  /\ activeSub' = activeSub \cup {d}
  /\ UNCHANGED <<notification, pushSent, away, expired, notice, accepted, excused>>

Unsubscribe(u, d) ==
  /\ owner[d] = u /\ d \in activeSub
  /\ activeSub' = activeSub \ {d}
  /\ Excuse({d})
  /\ UNCHANGED <<notification, pushSent, owner, away, expired, notice, accepted>>

UnsubscribeAll(u) ==
  LET mine == {d \in activeSub : owner[d] = u}
  IN /\ mine # {}
     /\ activeSub' = activeSub \ mine
     /\ Excuse(mine)
     /\ UNCHANGED <<notification, pushSent, owner, away, expired, notice, accepted>>

(* The world: the recipient comes and goes, a browser's endpoint expires.  *)
PresenceChanges ==
  /\ away' = ~away
  /\ Excuse(Devices)
  /\ UNCHANGED <<notification, pushSent, owner, activeSub, expired, notice, accepted>>

EndpointExpires(d) ==
  /\ d \notin expired
  /\ expired' = expired \cup {d}
  /\ Excuse({d})
  /\ UNCHANGED <<notification, pushSent, owner, activeSub, away, notice, accepted>>

-----------------------------------------------------------------------------
NotificationsNext ==
  \/ \E n \in Notices :
       \/ \E mentioned \in BOOLEAN : Begin(n, mentioned)
       \/ CreateNotification(n) \/ CheckPresence(n) \/ FindSubscriptions(n)
       \/ \E d \in Devices : Accept(n, d) \/ Deactivate(n, d) \/ Reject(n, d)
       \/ AllSent(n) \/ MarkSent(n) \/ NoticeFails(n) \/ NextKind(n)
  \/ \E rows \in SUBSET (Notices \X Kinds) : MarkRead(rows)
  \/ \E u \in Members, d \in Devices : Subscribe(u, d) \/ Unsubscribe(u, d)
  \/ \E u \in Members : UnsubscribeAll(u)
  \/ PresenceChanges
  \/ \E d \in Devices : EndpointExpires(d)

NotificationsTypeOK ==
  /\ notification \in [Notices -> [Kinds -> {"none", "unread", "read"}]]
  /\ pushSent \in SUBSET Notices
  /\ owner \in [Devices -> Members \cup {NoOwner}]
  /\ activeSub \in SUBSET {d \in Devices : owner[d] # NoOwner}
  /\ away \in BOOLEAN
  /\ expired \in SUBSET Devices
  /\ notice \in [Notices ->
       [pc : {"new", "create", "check", "find", "send", "mark", "settled", "done"},
        kind : Kinds, mentioned : BOOLEAN, left : SUBSET Devices, sent : Nat]]
  /\ accepted \in SUBSET (Notices \X Kinds \X Devices)
  /\ excused \in [Notices -> SUBSET Devices]

(* A recipient who is away gets the push on every device that was          *)
(* subscribed and reachable all the while: another device that fails or    *)
(* has expired, another message, or marking rows read take none of it.     *)
(* Not so when a call of the database or of Redis fails before the pushes  *)
(* are sent: NoticeFails excuses every device, for the kind it ends.       *)
AwayIsPushed ==
  \A n \in Notices : notice[n].pc \in {"mark", "settled"} =>
    \A d \in Devices \ excused[n] : <<n, notice[n].kind, d>> \in accepted

(* Whoever was pushed finds the notification in the list as well, and a    *)
(* pushSentAt means that a push service took the push or said, and was     *)
(* counted as if it had, that the device is gone.                          *)
PushesAreRecorded ==
  /\ \A x \in accepted : Listed(x[1], x[2])
  /\ \A n \in pushSent : \E d \in Devices : <<n, "message", d>> \in accepted \/ d \in expired
=============================================================================
