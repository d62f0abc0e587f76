--------------------------- MODULE ServicesProofs ---------------------------
(***************************************************************************)
(* The services side by side, for any number of users, sockets, rooms,     *)
(* keys, requests, notices and devices: every service keeps its promise,   *)
(* and so does the whole, since a step of one is a stutter of the others.  *)
(*                                                                         *)
(* Each part has its inductive invariant: HearInv for the sockets of the   *)
(* gateway, StorageInv for the bucket and its rows, NotificationsInv for   *)
(* notices and pushes; those of rooms and direct messages are in           *)
(* RoomsProofs.                                                            *)
(***************************************************************************)
EXTENDS Services, RoomsProofs

-----------------------------------------------------------------------------
(* The gateway.  A socket hears a room only as a member's, or because a    *)
(* handler read the membership before it ended.  The rooms a handler has   *)
(* read and not yet joined are decided already; HearInv says of them what  *)
(* WhoHears says of those joined.                                          *)
GatewaySpec == GatewayInit /\ [][GatewayNext]_gatewayVars

HearTypes ==
  /\ joined \in [Sockets -> SUBSET ChatRooms]
  /\ handler \in [Sockets -> [pc : {"idle", "read_rooms", "join", "broadcast"},
                              rooms : SUBSET ChatRooms]]
  /\ membership \in [Users \X ChatRooms -> {"none", "active", "left"}]
  /\ outdated \in SUBSET (Sockets \X ChatRooms)

(* The rooms a socket hears or is about to.                                *)
Reaches(s) == joined[s] \cup (IF handler[s].pc = "join" THEN handler[s].rooms ELSE {})

MayHear(s, room) == membership[<<UserOf[s], room>>] = "active" \/ <<s, room>> \in outdated

HearInv ==
  /\ HearTypes
  /\ \A s \in Sockets : \A room \in Reaches(s) : MayHear(s, room)

-----------------------------------------------------------------------------
(* A step of a socket or a timer, while memberships stand, keeps the       *)
(* invariant if whatever rooms sockets reach by it are open to them.       *)
LEMMA ReachKeeps ==
  ASSUME HearInv, HearTypes', UNCHANGED <<membership, outdated>>,
         \A s \in Sockets : \A room \in Reaches(s)' \ Reaches(s) : MayHear(s, room)
  PROVE  HearInv'
BY DEF HearInv, MayHear

(* The handlers of connections and joins, and leaving.                     *)
LEMMA HandlersKeep ==
  ASSUME HearInv, NEW s \in Sockets,
         \/ OpenSocket(s) \/ ReadRooms(s) \/ Join(s) \/ CloseSocket(s)
         \/ \E room \in ChatRooms : JoinRoom(s, room) \/ LeaveRoom(s, room)
                                    \/ SendMessage(s, room) \/ Broadcast(s, room)
  PROVE  HearInv'
<1> USE GatewayAssumption
<1>1. ASSUME HearTypes', UNCHANGED <<membership, outdated>>,
             \A x \in Sockets \ {s} : joined'[x] = joined[x] /\ handler'[x] = handler[x],
             \A room \in Reaches(s)' \ Reaches(s) : MayHear(s, room)
      PROVE  HearInv'
  BY <1>1, ReachKeeps DEF Reaches
<1>2. CASE OpenSocket(s)
  BY <1>1, <1>2 DEF HearInv, HearTypes, Reaches, OpenSocket
<1>3. CASE ReadRooms(s)
  BY <1>1, <1>3 DEF HearInv, HearTypes, Reaches, MayHear, ReadRooms, IsMember
<1>4. CASE Join(s)
  BY <1>1, <1>4 DEF HearInv, HearTypes, Reaches, Join, NoHandler
<1>5. CASE CloseSocket(s)
  BY <1>1, <1>5 DEF HearInv, HearTypes, Reaches, CloseSocket
<1>6. ASSUME NEW room \in ChatRooms, JoinRoom(s, room) PROVE HearInv'
  BY <1>1, <1>6 DEF HearInv, HearTypes, Reaches, MayHear, JoinRoom, IsMember
<1>7. ASSUME NEW room \in ChatRooms, LeaveRoom(s, room) PROVE HearInv'
  BY <1>1, <1>7 DEF HearInv, HearTypes, Reaches, LeaveRoom
<1>8. ASSUME NEW room \in ChatRooms, SendMessage(s, room) PROVE HearInv'
  BY <1>1, <1>8 DEF HearInv, HearTypes, Reaches, SendMessage
<1>9. ASSUME NEW room \in ChatRooms, Broadcast(s, room) PROVE HearInv'
  BY <1>1, <1>9 DEF HearInv, HearTypes, Reaches, Broadcast, NoHandler
<1> QED
  BY <1>2, <1>3, <1>4, <1>5, <1>6, <1>7, <1>8, <1>9

(* A membership that begins takes no room from a socket.                   *)
LEMMA BeginKeeps ==
  ASSUME HearInv, NEW u \in Users, NEW room \in ChatRooms, BeginMembership(u, room)
  PROVE  HearInv'
BY GatewayAssumption DEF HearInv, HearTypes, Reaches, MayHear, BeginMembership

(* One that ends is noted for every socket that reaches the room.          *)
LEMMA EndKeeps ==
  ASSUME HearInv, NEW u \in Users, NEW room \in ChatRooms, EndMembership(u, room)
  PROVE  HearInv'
<1>1. HearTypes'
  BY DEF HearInv, HearTypes, EndMembership
<1>2. ASSUME NEW s \in Sockets, NEW c, c \in Reaches(s)' PROVE MayHear(s, c)'
  <2>1. /\ c \in Reaches(s) /\ c \in ChatRooms /\ c \in joined[s] \cup handler[s].rooms
        /\ MayHear(s, c)
    BY <1>2 DEF HearInv, HearTypes, Reaches, EndMembership
  <2>2. CASE UserOf[s] = u /\ c = room
    BY <2>1, <2>2 DEF EndMembership, MayHear
  <2>3. CASE ~(UserOf[s] = u /\ c = room)
    BY <2>1, <2>3, GatewayAssumption DEF HearInv, HearTypes, EndMembership, MayHear
  <2> QED BY <2>2, <2>3
<1> QED
  BY <1>1, <1>2 DEF HearInv

(* Typing touches neither sockets nor memberships.                         *)
LEMMA TypingKeeps ==
  ASSUME HearInv, UNCHANGED <<joined, handler, membership, outdated>>
  PROVE  HearInv'
BY DEF HearInv, HearTypes, Reaches, MayHear

(* Every step keeps the invariant.                                         *)
LEMMA HearStep == HearInv /\ [GatewayNext]_gatewayVars => HearInv'
<1> SUFFICES ASSUME HearInv, [GatewayNext]_gatewayVars PROVE HearInv'
  OBVIOUS
<1>1. CASE \E s \in Sockets :
             \/ OpenSocket(s) \/ ReadRooms(s) \/ Join(s) \/ CloseSocket(s)
             \/ \E room \in ChatRooms : JoinRoom(s, room) \/ LeaveRoom(s, room)
                                        \/ SendMessage(s, room) \/ Broadcast(s, room)
  BY <1>1, HandlersKeep
<1>2. CASE \E s \in Sockets, room \in ChatRooms : TypingStart(s, room) \/ TypingStop(s, room)
  BY <1>2, TypingKeeps DEF TypingStart, TypingStop
<1>3. CASE \E u \in Users, room \in ChatRooms :
             BeginMembership(u, room) \/ EndMembership(u, room)
  BY <1>3, BeginKeeps, EndKeeps
<1>4. CASE \E t \in Typists : Elapses(t)
  BY <1>4, TypingKeeps DEF Elapses, Elapse, TypingTimeout
<1>5. CASE UNCHANGED gatewayVars
  BY <1>5, TypingKeeps DEF gatewayVars
<1> QED
  BY <1>1, <1>2, <1>3, <1>4, <1>5 DEF GatewayNext

(* At the start no socket hears anything.                                  *)
LEMMA HearInit == GatewayInit => HearInv
BY GatewayAssumption DEF GatewayInit, HearInv, HearTypes, Reaches, NoHandler

(* No handler of a connection or join, however late it goes on, lets a     *)
(* socket hear a room that its user was no member of when it read the      *)
(* memberships (handleConnection, handleJoinRoom).                         *)
THEOREM MembersHear == GatewaySpec => []WhoHears
<1>1. HearInv => WhoHears
  BY DEF HearInv, Reaches, MayHear, WhoHears
<1> QED
  BY HearInit, HearStep, <1>1, PTL DEF GatewaySpec
(* Every field of the gateway keeps its type.                              *)
LEMMA GatewayTypesInit == GatewayInit => GatewayTypeOK
BY GatewayAssumption DEF GatewayInit, GatewayTypeOK, NoHandler, Typists

(* And in every step.                                                      *)
LEMMA GatewayTypesStep == GatewayTypeOK /\ [GatewayNext]_gatewayVars => GatewayTypeOK'
<1> SUFFICES ASSUME GatewayTypeOK, [GatewayNext]_gatewayVars PROVE GatewayTypeOK'
  OBVIOUS
<1> USE GatewayAssumption DEF GatewayTypeOK
<1>1. ASSUME NEW s \in Sockets, OpenSocket(s) \/ ReadRooms(s) \/ Join(s) \/ CloseSocket(s)
      PROVE  GatewayTypeOK'
  <2>1. CASE OpenSocket(s) \/ ReadRooms(s)
    BY <2>1 DEF OpenSocket, ReadRooms
  <2>2. CASE Join(s)
    BY <2>2 DEF Join, NoHandler
  <2>3. CASE CloseSocket(s)
    <3>1. timer' \in [Typists -> {"none", "running", "due"}]
      BY <2>3 DEF CloseSocket
    <3>2. joined' \in [Sockets -> SUBSET ChatRooms] /\ link' \in [Sockets -> {"new", "open", "closed"}]
      BY <2>3 DEF CloseSocket
    <3>3. dangling' \in SUBSET Typists
      BY <2>3 DEF CloseSocket
    <3> QED
      BY <2>3, <3>1, <3>2, <3>3 DEF CloseSocket
  <2> QED
    BY <1>1, <2>1, <2>2, <2>3
<1>2. ASSUME NEW s \in Sockets, NEW room \in ChatRooms,
             \/ JoinRoom(s, room) \/ LeaveRoom(s, room)
             \/ TypingStart(s, room) \/ TypingStop(s, room)
             \/ SendMessage(s, room) \/ Broadcast(s, room)
      PROVE  GatewayTypeOK'
  <2>1. <<room, UserOf[s]>> \in Typists
    BY DEF Typists
  <2>2. CASE JoinRoom(s, room) \/ SendMessage(s, room)
    BY <2>2 DEF JoinRoom, SendMessage
  <2>3. CASE LeaveRoom(s, room)
    BY <2>3 DEF LeaveRoom
  <2>4. CASE TypingStart(s, room)
    BY <2>1, <2>4 DEF TypingStart
  <2>5. CASE TypingStop(s, room)
    BY <2>1, <2>5 DEF TypingStop, StopTyping
  <2>6. CASE Broadcast(s, room)
    BY <2>1, <2>6 DEF Broadcast, StopTyping, NoHandler
  <2> QED
    BY <1>2, <2>2, <2>3, <2>4, <2>5, <2>6
<1>3. ASSUME NEW u \in Users, NEW room \in ChatRooms,
             BeginMembership(u, room) \/ EndMembership(u, room)
      PROVE  GatewayTypeOK'
  <2>1. CASE BeginMembership(u, room)
    BY <2>1 DEF BeginMembership
  <2>2. CASE EndMembership(u, room)
    BY <2>2 DEF EndMembership
  <2> QED
    BY <1>3, <2>1, <2>2
<1>4. ASSUME NEW t \in Typists, Elapses(t) PROVE GatewayTypeOK'
  BY <1>4 DEF Elapses, Elapse, TypingTimeout, StopTyping
<1>5. CASE UNCHANGED gatewayVars
  BY <1>5 DEF gatewayVars
<1> QED
  BY <1>1, <1>2, <1>3, <1>4, <1>5 DEF GatewayNext

-----------------------------------------------------------------------------
(* Notifications.  While a notice is processed, a device without excuse    *)
(* can have the push (Ready), is still to be tried, or has it.             *)
NotificationsSpec == NotificationsInit /\ [][NotificationsNext]_notificationVars

NoticeOK(n) ==
  /\ notice[n].pc \in {"check", "find", "send", "mark"} => Listed(n, notice[n].kind)
  /\ notice[n].pc \in {"check", "find"} => \A d \in Devices \ excused[n] : away /\ d \in Ready
  /\ notice[n].pc = "send" =>
       /\ \A d \in Devices \ excused[n] :
            d \in notice[n].left \ expired \/ <<n, notice[n].kind, d>> \in accepted
       /\ notice[n].sent > 0 =>
            \E d \in Devices : <<n, notice[n].kind, d>> \in accepted \/ d \in expired
  /\ notice[n].pc \in {"mark", "settled"} =>
       \A d \in Devices \ excused[n] : <<n, notice[n].kind, d>> \in accepted
  /\ notice[n].pc = "mark" =>
       \E d \in Devices : <<n, "message", d>> \in accepted \/ d \in expired

NoticeRecord ==
  [pc : {"new", "create", "check", "find", "send", "mark", "settled", "done"},
   kind : Kinds, mentioned : BOOLEAN, left : SUBSET Devices, sent : Nat]

NotificationsInv ==
  /\ NotificationsTypeOK
  /\ \A n \in Notices : NoticeOK(n)
  /\ PushesAreRecorded

(* Nothing is taken from the notice m while it stays where it is.          *)
Kept(m) ==
  /\ accepted \subseteq accepted' /\ expired \subseteq expired'
  /\ \A k \in Kinds : Listed(m, k) => Listed(m, k)'
  /\ excused[m] \subseteq excused'[m]
  /\ \A d \in Devices \ excused'[m] :
       (away => away') /\ (d \in Ready => d \in Ready') /\ (d \in expired' => d \in expired)

(* So it stays in order.                                                   *)
LEMMA NoticeKept ==
  ASSUME NotificationsInv, NEW m \in Notices, notice'[m] = notice[m], Kept(m)
  PROVE  NoticeOK(m)'
<1>1. NoticeOK(m) /\ notice[m].kind \in Kinds
  BY DEF NotificationsInv, NotificationsTypeOK
<1>2. Listed(m, notice[m].kind) => Listed(m, notice[m].kind)'
  BY <1>1 DEF Kept, Listed
<1> QED
  BY <1>1, <1>2 DEF Kept, NoticeOK

(* The rows and pushes that are there stay recorded.                       *)
LEMMA RecordedKept ==
  ASSUME NotificationsInv, accepted' = accepted, pushSent' = pushSent,
         \A m \in Notices : Kept(m)
  PROVE  PushesAreRecorded'
<1>1. \A x \in accepted : x[1] \in Notices /\ x[2] \in Kinds
  BY DEF NotificationsInv, NotificationsTypeOK
<1>2. \A x \in accepted : Listed(x[1], x[2])'
  BY <1>1 DEF Kept, NotificationsInv, PushesAreRecorded
<1>3. \A m \in pushSent : m \in Notices
  BY DEF NotificationsInv, NotificationsTypeOK
<1> QED
  BY <1>2, <1>3 DEF Kept, NotificationsInv, PushesAreRecorded

(* The steps of the notice n that change neither rows nor pushes nor what  *)
(* is excused.                                                             *)
LEMMA QuietStepKeeps ==
  ASSUME NotificationsInv, NEW n \in Notices, NEW q, notice' = [notice EXCEPT ![n] = q],
         UNCHANGED <<notification, pushSent, owner, activeSub, away, expired, accepted, excused>>,
         NotificationsTypeOK', NoticeOK(n)'
  PROVE  NotificationsInv'
<1>1. \A m \in Notices : Kept(m)
  BY DEF Kept, Listed, Ready
<1>2. \A m \in Notices \ {n} : notice'[m] = notice[m]
  BY DEF NotificationsInv, NotificationsTypeOK
<1> QED
  BY <1>1, <1>2, NoticeKept, RecordedKept DEF NotificationsInv

(* Begin, CheckPresence, FindSubscriptions, AllSent, NextKind.             *)
LEMMA NoticeStepKeeps ==
  ASSUME NotificationsInv, NEW n \in Notices,
         \/ \E mentioned \in BOOLEAN : Begin(n, mentioned)
         \/ CheckPresence(n) \/ FindSubscriptions(n) \/ AllSent(n) \/ NextKind(n)
  PROVE  NotificationsInv'
<1> USE DEF NotificationsInv
<1>1. notice[n] \in NoticeRecord /\ notice \in [Notices -> NoticeRecord]
  BY DEF NotificationsTypeOK, NoticeRecord
<1>2. ASSUME NEW q \in NoticeRecord, notice' = [notice EXCEPT ![n] = q],
             UNCHANGED <<notification, pushSent, owner, activeSub, away, expired, accepted,
                         excused>>,
             notice'[n] = q => NoticeOK(n)'
      PROVE  NotificationsInv'
  <2>1. notice' \in [Notices -> NoticeRecord] /\ notice'[n] = q
    BY <1>1, <1>2
  <2>2. NotificationsTypeOK'
    BY <1>2, <2>1 DEF NotificationsTypeOK, NoticeRecord
  <2> QED BY <1>2, <2>1, <2>2, QuietStepKeeps
<1>3. ASSUME NEW mentioned \in BOOLEAN, Begin(n, mentioned) PROVE NotificationsInv'
  <2>1. PICK q \in NoticeRecord : q.pc = "create" /\ notice' = [notice EXCEPT ![n] = q]
    <3> DEFINE p == [notice[n] EXCEPT !.pc = "create", !.mentioned = mentioned]
    <3>1. p \in NoticeRecord /\ p.pc = "create"
      BY <1>1 DEF NoticeRecord
    <3>2. notice' = [notice EXCEPT ![n] = p]
      BY <1>3 DEF Begin
    <3> HIDE DEF p
    <3> QED BY <3>1, <3>2
  <2> QED BY <1>2, <1>3, <2>1 DEF Begin, NoticeOK
<1>4. CASE CheckPresence(n)
  <2>1. PICK q \in NoticeRecord :
          /\ q.pc = IF away THEN "find" ELSE "settled"
          /\ q.kind = notice[n].kind /\ notice' = [notice EXCEPT ![n] = q]
    <3> DEFINE p == [notice[n] EXCEPT !.pc = IF away THEN "find" ELSE "settled"]
    <3>1. /\ p \in NoticeRecord /\ p.kind = notice[n].kind
          /\ p.pc = IF away THEN "find" ELSE "settled"
      BY <1>1 DEF NoticeRecord
    <3>2. notice' = [notice EXCEPT ![n] = p]
      BY <1>4 DEF CheckPresence, Goto
    <3> HIDE DEF p
    <3> QED BY <3>1, <3>2
  <2> QED BY <1>2, <1>4, <2>1 DEF CheckPresence, At, NoticeOK, Listed, Ready
<1>5. CASE FindSubscriptions(n)
  <2>1. PICK q \in NoticeRecord :
          /\ q.pc = "send" /\ q.kind = notice[n].kind /\ q.sent = 0
          /\ q.left = {d \in activeSub : owner[d] = Recipient}
          /\ notice' = [notice EXCEPT ![n] = q]
    <3> DEFINE p == [notice[n] EXCEPT !.pc = "send", !.sent = 0,
                       !.left = {d \in activeSub : owner[d] = Recipient}]
    <3>1. /\ p \in NoticeRecord /\ p.kind = notice[n].kind /\ p.pc = "send" /\ p.sent = 0
          /\ p.left = {d \in activeSub : owner[d] = Recipient}
      BY <1>1 DEF NoticeRecord, NotificationsTypeOK
    <3>2. notice' = [notice EXCEPT ![n] = p]
      BY <1>5 DEF FindSubscriptions
    <3> HIDE DEF p
    <3> QED BY <3>1, <3>2
  <2>2. notice[n].pc = "find" /\ ~(q.sent > 0)
    BY <1>5, <2>1 DEF FindSubscriptions, At
  <2>3. /\ Listed(n, notice[n].kind)
        /\ \A d \in Devices \ excused[n] : d \in q.left \ expired
    BY <2>1, <2>2 DEF NoticeOK, Ready
  <2>4. UNCHANGED <<notification, pushSent, owner, activeSub, away, expired, accepted, excused>>
    BY <1>5 DEF FindSubscriptions
  <2>5. ASSUME notice'[n] = q PROVE NoticeOK(n)'
    BY <2>1, <2>2, <2>3, <2>4, <2>5 DEF NoticeOK, Listed
  <2> QED BY <1>2, <2>1, <2>4, <2>5
<1>6. CASE AllSent(n)
  <2>1. PICK q \in NoticeRecord :
          /\ q.pc = IF AnySent(n) /\ notice[n].kind = "message" THEN "mark" ELSE "settled"
          /\ q.kind = notice[n].kind /\ notice' = [notice EXCEPT ![n] = q]
    <3> DEFINE p == [notice[n] EXCEPT !.pc = IF AnySent(n) /\ notice[n].kind = "message"
                                             THEN "mark" ELSE "settled"]
    <3>1. /\ p \in NoticeRecord /\ p.kind = notice[n].kind
          /\ p.pc = IF AnySent(n) /\ notice[n].kind = "message" THEN "mark" ELSE "settled"
      BY <1>1 DEF NoticeRecord
    <3>2. notice' = [notice EXCEPT ![n] = p]
      BY <1>6 DEF AllSent, Goto
    <3> HIDE DEF p
    <3> QED BY <3>1, <3>2
  <2>2. /\ notice[n].pc = "send" /\ notice[n].left = {}
        /\ UNCHANGED <<notification, pushSent, owner, activeSub, away, expired, accepted,
                       excused>>
    BY <1>6 DEF AllSent, At
  <2>3. /\ Listed(n, q.kind)
        /\ \A d \in Devices \ excused[n] : <<n, q.kind, d>> \in accepted
        /\ AnySent(n) => \E d \in Devices : <<n, q.kind, d>> \in accepted \/ d \in expired
    BY <2>1, <2>2 DEF NoticeOK, AnySent
  <2>4. ASSUME notice'[n] = q PROVE NoticeOK(n)'
    BY <2>1, <2>2, <2>3, <2>4 DEF NoticeOK, Listed
  <2> QED BY <1>2, <2>1, <2>2, <2>4
<1>7. CASE NextKind(n)
  <2>1. PICK q \in NoticeRecord : q.pc \in {"create", "done"} /\ notice' = [notice EXCEPT ![n] = q]
    <3> DEFINE p == IF notice[n].mentioned /\ notice[n].kind = "message"
                    THEN [notice[n] EXCEPT !.pc = "create", !.kind = "mention", !.sent = 0]
                    ELSE [notice[n] EXCEPT !.pc = "done"]
    <3>1. p \in NoticeRecord /\ p.pc \in {"create", "done"}
      BY <1>1 DEF NoticeRecord, Kinds
    <3>2. notice' = [notice EXCEPT ![n] = p]
      BY <1>7 DEF NextKind
    <3> HIDE DEF p
    <3> QED BY <3>1, <3>2
  <2> QED BY <1>2, <1>7, <2>1 DEF NextKind, NoticeOK
<1> QED
  BY <1>3, <1>4, <1>5, <1>6, <1>7

(* The row is created: from here on, devices that are ready have no excuse.*)
LEMMA CreateNotificationKeeps ==
  ASSUME NotificationsInv, NEW n \in Notices, CreateNotification(n)
  PROVE  NotificationsInv'
<1> USE DEF NotificationsInv
<1>1. /\ notice[n].kind \in Kinds /\ notice'[n].pc = "check"
      /\ notice'[n].kind = notice[n].kind
      /\ \A m \in Notices \ {n} : notice'[m] = notice[m]
      /\ notification' = [notification EXCEPT ![n][notice[n].kind] = "unread"]
      /\ UNCHANGED <<pushSent, owner, activeSub, away, expired, accepted>>
      /\ excused' = [excused EXCEPT ![n] = IF away THEN Devices \ Ready ELSE Devices]
  BY DEF CreateNotification, NotificationsTypeOK, Goto
<1>2. NotificationsTypeOK'
  BY DEF CreateNotification, NotificationsTypeOK, Goto
<1>3. \A m \in Notices, k \in Kinds : Listed(m, k) => Listed(m, k)'
  BY <1>1 DEF NotificationsTypeOK, Listed
<1>4. Listed(n, notice[n].kind)'
  BY <1>1 DEF NotificationsTypeOK, Listed
<1>5. Ready' = Ready /\ excused'[n] = IF away THEN Devices \ Ready ELSE Devices
  BY <1>1 DEF Ready, NotificationsTypeOK
<1>6. NoticeOK(n)'
  BY <1>1, <1>4, <1>5 DEF NoticeOK, Listed
<1>7. \A m \in Notices \ {n} : Kept(m)
  BY <1>1, <1>3, <1>5 DEF Kept, NotificationsTypeOK
<1>8. \A m \in Notices \ {n} : NoticeOK(m)'
  BY <1>1, <1>7, NoticeKept
<1>9. PushesAreRecorded'
  BY <1>1, <1>3 DEF PushesAreRecorded, NotificationsTypeOK
<1> QED
  BY <1>2, <1>6, <1>8, <1>9

(* A device is done with, and counted as sent to.                          *)
LEMMA CountSent ==
  ASSUME NotificationsTypeOK, NEW n \in Notices, NEW d \in Devices,
         notice' = [notice EXCEPT ![n] = SentTo(@, d)]
  PROVE  /\ notice'[n].pc = notice[n].pc /\ notice'[n].kind = notice[n].kind
         /\ notice[n].kind \in Kinds /\ notice[n].sent \in Nat
         /\ notice'[n].left = notice[n].left \ {d} /\ notice'[n].sent = notice[n].sent + 1
         /\ \A m \in Notices \ {n} : notice'[m] = notice[m]
         /\ notice' \in [Notices -> NoticeRecord]
<1> DEFINE q == SentTo(notice[n], d)
<1>1. notice[n] \in NoticeRecord /\ notice \in [Notices -> NoticeRecord]
  BY DEF NotificationsTypeOK, NoticeRecord
<1>2. /\ q.pc = notice[n].pc /\ q.kind = notice[n].kind
      /\ q.left = notice[n].left \ {d} /\ q.sent = notice[n].sent + 1
  BY <1>1 DEF NoticeRecord, SentTo
<1>3. q \in NoticeRecord
  <2>1. notice[n].left \ {d} \in SUBSET Devices /\ notice[n].sent + 1 \in Nat
    BY <1>1 DEF NoticeRecord
  <2>2. q = [notice[n] EXCEPT !.left = notice[n].left \ {d}, !.sent = notice[n].sent + 1]
    BY DEF SentTo
  <2>3. PICK left \in SUBSET Devices, count \in Nat :
          q = [notice[n] EXCEPT !.left = left, !.sent = count]
    BY <2>1, <2>2
  <2> HIDE DEF q
  <2> QED BY <1>1, <2>3 DEF NoticeRecord
<1>4. notice' = [notice EXCEPT ![n] = q]
  OBVIOUS
<1> HIDE DEF q
<1>5. notice'[n] = q /\ \A m \in Notices \ {n} : notice'[m] = notice[m]
  BY <1>1, <1>4
<1>6. notice' \in [Notices -> NoticeRecord]
  BY <1>1, <1>3, <1>4
<1>7. notice[n].kind \in Kinds /\ notice[n].sent \in Nat
  BY <1>1 DEF NoticeRecord
<1> QED
  BY <1>2, <1>5, <1>6, <1>7

(* A push service takes the push.                                          *)
LEMMA AcceptKeeps ==
  ASSUME NotificationsInv, NEW n \in Notices, NEW d \in Devices, Accept(n, d)
  PROVE  NotificationsInv'
<1> USE DEF NotificationsInv
<1>1. PICK k \in Kinds : k = notice[n].kind
  BY DEF NotificationsTypeOK
<1>2. /\ notice[n].pc = "send" /\ notice'[n].pc = "send" /\ notice'[n].kind = k
      /\ notice'[n].left = notice[n].left \ {d} /\ notice'[n].sent = notice[n].sent + 1
      /\ notice[n].sent \in Nat
      /\ \A m \in Notices \ {n} : notice'[m] = notice[m]
      /\ accepted' = accepted \cup {<<n, k, d>>}
      /\ UNCHANGED <<notification, pushSent, owner, activeSub, away, expired, excused>>
      /\ notice' \in [Notices -> NoticeRecord]
  BY <1>1, CountSent DEF Accept, At
<1>3. NotificationsTypeOK'
  BY <1>1, <1>2 DEF NotificationsTypeOK, NoticeRecord
<1>4. Listed(n, k)
  BY <1>1, <1>2 DEF NoticeOK
<1>5. NoticeOK(n)'
  BY <1>1, <1>2, <1>4 DEF NoticeOK, Listed
<1>6. \A m \in Notices \ {n} : NoticeOK(m)'
  BY <1>2, NoticeKept DEF Kept, Ready, Listed
<1>7. PushesAreRecorded'
  BY <1>2, <1>4 DEF PushesAreRecorded, Listed
<1> QED
  BY <1>3, <1>5, <1>6, <1>7

(* A device that is gone is counted, and one that failed excused.          *)
LEMMA NotAcceptedKeeps ==
  ASSUME NotificationsInv, NEW n \in Notices, NEW d \in Devices,
         Deactivate(n, d) \/ Reject(n, d)
  PROVE  NotificationsInv'
<1> USE DEF NotificationsInv
<1>1. /\ notice[n].pc = "send" /\ notice'[n].pc = "send" /\ notice[n].sent \in Nat
      /\ notice'[n].left = notice[n].left \ {d} /\ notice'[n].kind = notice[n].kind
      /\ notice[n].kind \in Kinds
      /\ notice'[n].sent = notice[n].sent \/ (notice'[n].sent = notice[n].sent + 1 /\ d \in expired)
      /\ \A m \in Notices \ {n} : notice'[m] = notice[m]
      /\ UNCHANGED <<notification, pushSent, owner, away, expired, accepted>>
      /\ activeSub \subseteq activeSub' \cup expired
      /\ \A m \in Notices : excused[m] \subseteq excused'[m]
      /\ d \in expired \/ d \in excused'[n]
      /\ NotificationsTypeOK'
  <2>1. CASE Deactivate(n, d)
    <3>1. /\ activeSub' = activeSub \ {d} /\ d \in expired /\ notice[n].pc = "send"
          /\ UNCHANGED <<notification, pushSent, owner, away, expired, accepted, excused>>
          /\ notice' = [notice EXCEPT ![n] = SentTo(@, d)]
      BY <2>1 DEF Deactivate, At
    <3>2. notice' \in [Notices -> NoticeRecord] /\ notice'[n].pc = "send"
      BY <3>1, CountSent
    <3>3. NotificationsTypeOK'
      BY <3>1, <3>2 DEF NotificationsTypeOK, NoticeRecord
    <3> QED BY <3>1, <3>2, <3>3, CountSent
  <2>2. CASE Reject(n, d)
    BY <2>2 DEF Reject, OthersOf, NotificationsTypeOK, At
  <2> QED BY <2>1, <2>2
<1>2. NotificationsTypeOK'
  BY <1>1
<1>3. Ready \subseteq Ready'
  BY <1>1 DEF Ready
<1>4. \A m \in Notices : Kept(m)
  BY <1>1, <1>3 DEF Kept, Listed
<1>5. NoticeOK(n)'
  BY <1>1 DEF NoticeOK, Listed
<1>6. \A m \in Notices \ {n} : NoticeOK(m)'
  BY <1>1, <1>4, NoticeKept
<1>7. PushesAreRecorded'
  BY <1>1, <1>4, RecordedKept
<1> QED
  BY <1>2, <1>5, <1>6, <1>7

(* pushSentAt is written, or a call fails: then all devices are excused    *)
(* that have not been tried.                                               *)
LEMMA MarkOrFailKeeps ==
  ASSUME NotificationsInv, NEW n \in Notices, MarkSent(n) \/ NoticeFails(n)
  PROVE  NotificationsInv'
<1> USE DEF NotificationsInv
<1>1. /\ notice'[n].pc = "settled" /\ notice'[n].kind = notice[n].kind
      /\ notice[n].kind \in Kinds
      /\ \A m \in Notices \ {n} : notice'[m] = notice[m] /\ excused'[m] = excused[m]
      /\ UNCHANGED <<notification, owner, activeSub, away, expired, accepted>>
      /\ IF notice[n].pc = "mark" THEN excused' = excused ELSE excused'[n] = Devices
      /\ pushSent' = pushSent \/ (pushSent' = pushSent \cup {n} /\ notice[n].pc = "mark")
  BY DEF MarkSent, NoticeFails, NotificationsTypeOK, At, Goto
<1>2. NotificationsTypeOK'
  <2>1. CASE MarkSent(n)
    BY <2>1 DEF MarkSent, NotificationsTypeOK, Goto
  <2>2. CASE NoticeFails(n)
    <3>1. notice \in [Notices -> NoticeRecord] /\ excused \in [Notices -> SUBSET Devices]
      BY DEF NotificationsTypeOK, NoticeRecord
    <3>2. [notice[n] EXCEPT !.pc = "settled"] \in NoticeRecord
      BY <3>1 DEF NoticeRecord
    <3>3. notice' \in [Notices -> NoticeRecord]
      BY <2>2, <3>1, <3>2 DEF NoticeFails, Goto
    <3>4. excused' \in [Notices -> SUBSET Devices]
      BY <2>2, <3>1 DEF NoticeFails
    <3> QED BY <2>2, <3>3, <3>4 DEF NoticeFails, NotificationsTypeOK, NoticeRecord
  <2> QED BY <2>1, <2>2
<1>3. NoticeOK(n)'
  BY <1>1 DEF NoticeOK
<1>4. \A m \in Notices \ {n} : NoticeOK(m)'
  BY <1>1, NoticeKept DEF Kept, Listed, Ready
<1>5. PushesAreRecorded'
  BY <1>1 DEF PushesAreRecorded, NoticeOK, Listed
<1> QED
  BY <1>2, <1>3, <1>4, <1>5

(* What the users and the world do: rows are read, devices subscribed and  *)
(* unsubscribed, the recipient comes and goes, endpoints expire.           *)
LEMMA WorldKeeps ==
  ASSUME NotificationsInv,
         \/ \E rows \in SUBSET (Notices \X Kinds) : MarkRead(rows)
         \/ \E u \in Members, d \in Devices : Subscribe(u, d) \/ Unsubscribe(u, d)
         \/ \E u \in Members : UnsubscribeAll(u)
         \/ PresenceChanges
         \/ \E d \in Devices : EndpointExpires(d)
  PROVE  NotificationsInv'
<1> USE NotificationsAssumption DEF NotificationsInv
<1>1. ASSUME NotificationsTypeOK', UNCHANGED <<pushSent, accepted, notice>>,
             \A m \in Notices : Kept(m)
      PROVE  NotificationsInv'
  BY <1>1, NoticeKept, RecordedKept
<1>2. ASSUME NEW rows \in SUBSET (Notices \X Kinds), MarkRead(rows) PROVE NotificationsInv'
  <2>1. NotificationsTypeOK'
    BY <1>2 DEF MarkRead, NotificationsTypeOK
  <2>2. \A m \in Notices, k \in Kinds : Listed(m, k) => Listed(m, k)'
    BY <1>2 DEF MarkRead, Listed
  <2> QED BY <1>1, <1>2, <2>1, <2>2 DEF Kept, Ready, MarkRead
<1>3. ASSUME NEW u \in Members, NEW d \in Devices, Subscribe(u, d) PROVE NotificationsInv'
  <2>1. NotificationsTypeOK'
    BY <1>3 DEF Subscribe, NotificationsTypeOK
  <2>2. Ready \subseteq Ready'
    BY <1>3 DEF Subscribe, NotificationsTypeOK, Ready
  <2> QED BY <1>1, <1>3, <2>1, <2>2 DEF Kept, Subscribe, Listed
<1>4. ASSUME NEW u \in Members, NEW d \in Devices, Unsubscribe(u, d) PROVE NotificationsInv'
  BY <1>1, <1>4 DEF Unsubscribe, NotificationsTypeOK, Kept, Ready, Listed, Excuse
<1>5. ASSUME NEW u \in Members, UnsubscribeAll(u) PROVE NotificationsInv'
  BY <1>1, <1>5 DEF UnsubscribeAll, NotificationsTypeOK, Kept, Ready, Listed, Excuse
<1>6. CASE PresenceChanges
  BY <1>1, <1>6 DEF PresenceChanges, NotificationsTypeOK, Kept, Ready, Listed, Excuse
<1>7. ASSUME NEW d \in Devices, EndpointExpires(d) PROVE NotificationsInv'
  BY <1>1, <1>7 DEF EndpointExpires, NotificationsTypeOK, Kept, Ready, Listed, Excuse
<1> QED
  BY <1>2, <1>3, <1>4, <1>5, <1>6, <1>7

(* Every step.                                                             *)
LEMMA NotificationsStep ==
  NotificationsInv /\ [NotificationsNext]_notificationVars => NotificationsInv'
<1> SUFFICES ASSUME NotificationsInv, [NotificationsNext]_notificationVars
             PROVE  NotificationsInv'
  OBVIOUS
<1>1. CASE UNCHANGED notificationVars
  <2>1. NotificationsTypeOK' /\ \A n \in Notices : NoticeOK(n)'
    BY <1>1 DEF notificationVars, NotificationsInv, NotificationsTypeOK, NoticeOK, Listed, Ready
  <2>2. PushesAreRecorded'
    BY <1>1 DEF notificationVars, NotificationsInv, PushesAreRecorded, Listed
  <2> QED BY <2>1, <2>2 DEF NotificationsInv
<1>2. CASE NotificationsNext
  BY <1>2, NoticeStepKeeps, CreateNotificationKeeps, AcceptKeeps, NotAcceptedKeeps,
     MarkOrFailKeeps, WorldKeeps DEF NotificationsNext
<1> QED
  BY <1>1, <1>2

(* Nothing is processed at the start.                                      *)
LEMMA NotificationsStart == NotificationsInit => NotificationsInv
BY DEF NotificationsInit, NotificationsInv, NotificationsTypeOK, NoticeOK, NewNotice, Kinds,
       PushesAreRecorded

(* A recipient who is away gets the push on every device that was          *)
(* subscribed and reachable all the while, whatever becomes of other       *)
(* devices, messages and rows (triggerNotifications, sendToUser).          *)
THEOREM AwayGetsPush == NotificationsSpec => []AwayIsPushed
<1>1. NotificationsInv => AwayIsPushed
  BY DEF NotificationsInv, NoticeOK, AwayIsPushed
<1> QED
  BY NotificationsStart, NotificationsStep, <1>1, PTL DEF NotificationsSpec

(* A push that was taken has its row in the list, and pushSentAt one that  *)
(* was taken or counted as sent (create, updatePushSent).                  *)
THEOREM PushesHaveRows == NotificationsSpec => []PushesAreRecorded
<1>1. NotificationsInv => PushesAreRecorded
  BY DEF NotificationsInv
<1> QED
  BY NotificationsStart, NotificationsStep, <1>1, PTL DEF NotificationsSpec

-----------------------------------------------------------------------------
(* Files.  A request under way knows what it has done and what the others  *)
(* on its key have not: an upload is alone, a confirm has found an object  *)
(* or been crossed by a delete, a delete has its row or been overtaken.    *)
(* All this is of the keys that buildKey made; of a request on the key of  *)
(* a thumbnail only that it names no further thumbnail.                    *)
FilesSpec == FilesInit /\ [][FilesNext]_fileVars

FileRecord ==
  [pc : {"idle", "confirm_row", "put_thumbnail", "put_object", "upload_row",
         "delete_object", "delete_thumbnail", "delete_row"},
   key : AllKeys \cup {NoKey}, user : Uploaders \cup {NoUploader}, thumb : BOOLEAN,
   gone : BOOLEAN]

Uploading == {"put_thumbnail", "put_object", "upload_row"}
Deleting == {"delete_object", "delete_thumbnail", "delete_row"}

(* Thumbnails have keys of their own, and but for files without extension  *)
(* no two files share one.                                                 *)
LEMMA KeysApart ==
  /\ NoKey \notin AllKeys /\ AllKeys = Keys \cup ThumbnailKeys
  /\ \A k \in Keys : ThumbnailOf(k) \in ThumbnailKeys
  /\ \A t \in ThumbnailKeys : t \notin Keys
  /\ \A j, k \in Keys : ThumbnailOf(j) = ThumbnailOf(k) =>
       j = k \/ (j \in Extensionless /\ k \in Extensionless)
BY FilesAssumption DEF AllKeys, ThumbnailKeys, ThumbnailOf

FileRequestOK(r) ==
  LET q == fileReq[r]
      k == fileReq[r].key
  IN /\ IF q.pc = "idle" THEN k = NoKey ELSE k \in issued \cup ThumbnailKeys
     /\ k \in ThumbnailKeys =>
          ~q.thumb /\ q.pc \in {"confirm_row", "delete_object", "delete_row"}
     /\ q.pc \in Uploading \cup {"confirm_row"} => q.user \in Uploaders
     /\ q.pc \in Uploading =>
          /\ ~q.gone /\ ~HasFile(k) /\ \A s \in FileRequests \ {r} : fileReq[s].key # k
     /\ q.pc = "put_thumbnail" => q.thumb
     /\ q.pc \in {"put_object", "upload_row"} /\ q.thumb =>
          k \in Extensionless \/ ThumbnailOf(k) \in objects \cup severed
     /\ q.pc = "upload_row" => k \in objects
     /\ k \in issued =>
          /\ q.pc = "confirm_row" => k \in objects \/ q.gone
          /\ q.pc \in Deleting =>
               IF q.gone THEN ~fileRow[k].thumb ELSE HasFile(k) /\ fileRow[k].thumb = q.thumb
          /\ q.pc \in {"delete_thumbnail", "delete_row"} => (k \in objects => k \in byClient)

(* A delete of the row of k, not overtaken by another, is at one of these. *)
Deletes(k, steps) ==
  \E r \in FileRequests : Key(r) = k /\ fileReq[r].pc \in steps /\ ~fileReq[r].gone

FileOK(k) ==
  /\ HasFile(k) => k \in issued
  /\ k \notin brokenOff =>
       /\ DeadLink(k) => k \in crossed \/ Deletes(k, {"delete_thumbnail", "delete_row"})
       /\ k \in objects /\ ~HasFile(k) => k \in byClient \/ Under(k, {"upload_row"})
       /\ fileRow[k].thumb /\ k \notin Extensionless =>
            ThumbnailOf(k) \in objects \cup severed \/ Deletes(k, {"delete_row"})

(* k answers for its thumbnail.                                            *)
Holds(k) ==
  \/ k \in brokenOff
  \/ \E r \in FileRequests :
       Key(r) = k /\ fileReq[r].pc \in {"put_object", "upload_row"} /\ fileReq[r].thumb
  \/ fileRow[k].thumb /\ ~Deletes(k, {"delete_row"})

StorageInv ==
  /\ FilesTypeOK
  /\ \A r \in FileRequests : FileRequestOK(r)
  /\ \A k \in Keys : FileOK(k)
  /\ \A t \in ThumbnailKeys : ~fileRow[t].thumb
  /\ \A t \in objects \cap ThumbnailKeys : \E k \in Keys : ThumbnailOf(k) = t /\ Holds(k)

(* A step is about one key, x: of the others nothing changes, but that a   *)
(* thumbnail may be severed from its file.                                 *)
Untouched(k) ==
  /\ fileRow'[k] = fileRow[k]
  /\ k \in Keys =>
       /\ k \in objects' <=> k \in objects
       /\ k \in byClient' <=> k \in byClient
       /\ k \in brokenOff' <=> k \in brokenOff
       /\ k \in crossed' <=> k \in crossed
       /\ k \notin Extensionless /\ ThumbnailOf(k) \in objects \cup severed =>
            ThumbnailOf(k) \in objects' \cup severed'

About(x) ==
  /\ issued \subseteq issued' /\ issued' \subseteq issued \cup {x}
  /\ \A k \in AllKeys \ {x} : Untouched(k)
  /\ \A r \in FileRequests :
       \/ fileReq'[r] = fileReq[r]
       \/ fileReq[r].key \in {x, NoKey} /\ fileReq'[r].key = x
       \/ fileReq[r].key = x /\ fileReq'[r] = NoFileRequest

(* The invariant holds on, if it does for this key.                        *)
LEMMA FileElsewhere ==
  ASSUME StorageInv, NEW x \in AllKeys, About(x), NEW k \in Keys \ {x}
  PROVE  /\ \A r \in FileRequests : fileReq'[r].key = k => FileRequestOK(r)'
         /\ FileOK(k)' /\ (Holds(k)' <=> Holds(k))
<1> USE KeysApart
<1>1. \A r \in FileRequests :
        fileReq'[r].key = k \/ fileReq[r].key = k => fileReq'[r] = fileReq[r]
  BY DEF About, NoFileRequest
<1>2. /\ Untouched(k) /\ (k \in issued <=> k \in issued')
      /\ (HasFile(k)' <=> HasFile(k)) /\ (DeadLink(k)' <=> DeadLink(k))
  BY DEF About, Untouched, HasFile, DeadLink, NoFile
<1>3. \A steps : (Deletes(k, steps)' <=> Deletes(k, steps)) /\ (Under(k, steps)' <=> Under(k, steps))
  BY <1>1 DEF Deletes, Under, Key
<1>4. Holds(k)' <=> Holds(k)
  BY <1>1, <1>2, <1>3 DEF Holds, Untouched, Key
<1>5. FileOK(k)'
  <2>1. PICK t : t = ThumbnailOf(k) /\ t = ThumbnailOf(k)'
    BY DEF ThumbnailOf
  <2> QED BY <1>2, <1>3, <2>1 DEF StorageInv, FileOK, Untouched
<1>6. ASSUME NEW r \in FileRequests, fileReq'[r].key = k PROVE FileRequestOK(r)'
  <2>1. FileRequestOK(r) /\ fileReq'[r] = fileReq[r]
    BY <1>1, <1>6 DEF StorageInv
  <2>2. \A s \in FileRequests \ {r} : fileReq[s].key # k => fileReq'[s].key # k
    BY <1>1
  <2>3. PICK t : t = ThumbnailOf(k) /\ t = ThumbnailOf(k)'
    BY DEF ThumbnailOf
  <2> QED BY <1>2, <1>6, <2>1, <2>2, <2>3 DEF FileRequestOK, Untouched
<1> QED
  BY <1>4, <1>5, <1>6

(* A step about one key keeps the invariant if it keeps it for that key.   *)
(* A thumbnail it puts is that of the key, which then answers for it.      *)
ThumbnailKept(x) ==
  ThumbnailOf(x) \in objects' =>
    ((ThumbnailOf(x) \in objects => Holds(x)) => Holds(x)')

LEMMA StorageKept ==
  ASSUME StorageInv, FilesTypeOK', NEW x \in AllKeys, About(x),
         \A r \in FileRequests : fileReq'[r].key = x => FileRequestOK(r)',
         x \in Keys => FileOK(x)' /\ ThumbnailKept(x),
         x \in ThumbnailKeys => ~fileRow'[x].thumb,
         \A t \in ThumbnailKeys : t \in objects' =>
           t \in objects \/ (x \in Keys /\ t = ThumbnailOf(x))
  PROVE  StorageInv'
<1> USE KeysApart
<1>1. \A k \in Keys : FileOK(k)'
  BY FileElsewhere
<1>2. ASSUME NEW r \in FileRequests PROVE FileRequestOK(r)'
  <2>1. CASE fileReq'[r].key \in Keys
    BY <2>1, FileElsewhere
  <2>2. CASE fileReq'[r].key \notin AllKeys
    <3>1. fileReq'[r].pc = "idle" /\ fileReq'[r].key = NoKey
      BY <2>2 DEF StorageInv, FilesTypeOK, FileRequestOK, About, NoFileRequest
    <3> QED BY <3>1 DEF FileRequestOK, Uploading, Deleting
  <2>3. CASE fileReq'[r].key \in ThumbnailKeys /\ fileReq'[r].key # x
    <3>1. FileRequestOK(r) /\ fileReq'[r] = fileReq[r]
      BY <2>3 DEF StorageInv, About, NoFileRequest
    <3>2. fileReq[r].key \notin issued' /\ fileReq[r].pc \notin Uploading
      BY <2>3, <3>1 DEF FileRequestOK, FilesTypeOK, Uploading
    <3>3. fileReq[r].pc # "idle" /\ ~fileReq[r].thumb
      BY <2>3, <3>1 DEF FileRequestOK
    <3>4. fileReq[r].pc \in {"confirm_row", "delete_object", "delete_row"}
      BY <2>3, <3>1 DEF FileRequestOK
    <3> QED BY <2>3, <3>1, <3>2, <3>3, <3>4 DEF FileRequestOK, Uploading
  <2> QED BY <2>1, <2>2, <2>3
<1>3. ASSUME NEW t \in ThumbnailKeys, t \in objects'
      PROVE  \E k \in Keys : ThumbnailOf(k) = t /\ Holds(k)'
  <2>1. CASE t \in objects
    <3>1. PICK k \in Keys : ThumbnailOf(k) = t /\ Holds(k)
      BY <2>1 DEF StorageInv
    <3>2. CASE k = x
      BY <1>3, <3>1, <3>2 DEF ThumbnailKept
    <3>3. CASE k # x
      BY <3>1, <3>3, FileElsewhere
    <3> QED BY <3>2, <3>3
  <2>2. CASE t \notin objects
    BY <1>3, <2>2 DEF ThumbnailKept
  <2> QED BY <2>1, <2>2
<1>4. (\A t \in objects \cap ThumbnailKeys : \E k \in Keys : ThumbnailOf(k) = t /\ Holds(k))'
  BY <1>3 DEF ThumbnailOf, ThumbnailKeys
<1>5. \A t \in ThumbnailKeys : ~fileRow'[t].thumb
  BY DEF About, Untouched, StorageInv
<1>6. (\A t \in ThumbnailKeys : ~fileRow[t].thumb)'
  BY <1>5 DEF ThumbnailKeys, ThumbnailOf
<1> QED
  BY <1>1, <1>2, <1>4, <1>6 DEF StorageInv

(* A client asks for a URL, puts an object, or is too late to.             *)
LEMMA ClientStepKeeps ==
  ASSUME StorageInv, NEW k \in Keys,
         RequestPresignedUrl(k) \/ PutByClient(k) \/ UrlExpires(k)
  PROVE  StorageInv'
<1> USE KeysApart
<1>1. /\ UNCHANGED <<severed, fileRow, fileReq, brokenOff, crossed>>
      /\ issued \subseteq issued' /\ issued' \subseteq issued \cup {k}
      /\ \/ UNCHANGED <<objects, byClient>>
         \/ objects' = objects \cup {k} /\ byClient' = byClient \cup {k}
  BY DEF RequestPresignedUrl, PutByClient, UrlExpires, bucket
<1>2. FilesTypeOK'
  BY DEF StorageInv, FilesTypeOK, RequestPresignedUrl, PutByClient, UrlExpires, bucket
<1>3. About(k)
  BY <1>1 DEF About, Untouched
<1>4. /\ HasFile(k)' <=> HasFile(k)
      /\ \A steps : /\ Deletes(k, steps)' <=> Deletes(k, steps)
                    /\ Under(k, steps)' <=> Under(k, steps)
  BY <1>1 DEF HasFile, NoFile, Deletes, Under, Key
<1>5. FileOK(k)'
  BY <1>1, <1>4 DEF StorageInv, FileOK, DeadLink
<1>6. ASSUME NEW r \in FileRequests, fileReq'[r].key = k PROVE FileRequestOK(r)'
  BY <1>1, <1>4, <1>6 DEF StorageInv, FileRequestOK
<1>7. ThumbnailKept(k)
  BY <1>1, <1>4 DEF Holds, Key, ThumbnailKept
<1>8. \A t \in ThumbnailKeys : t \in objects' => t \in objects
  BY <1>1
<1> QED
  BY <1>2, <1>3, <1>5, <1>6, <1>7, <1>8, StorageKept

-----------------------------------------------------------------------------
(* A request becomes q; the others are as they were.                       *)
Becomes(r, q) == q \in FileRecord /\ fileReq' = [fileReq EXCEPT ![r] = q]

(* What that says of the slots.                                            *)
LEMMA BecomesGives ==
  ASSUME StorageInv, NEW r \in FileRequests, NEW q, Becomes(r, q)
  PROVE  /\ fileReq' \in [FileRequests -> FileRecord]
         /\ fileReq'[r] = q
         /\ \A s \in FileRequests \ {r} : fileReq'[s] = fileReq[s]
BY DEF Becomes, StorageInv, FilesTypeOK, FileRecord

(* What is known of a request under way.                                   *)
LEMMA UnderWay ==
  ASSUME StorageInv, NEW r \in FileRequests
  PROVE  /\ fileReq[r] \in FileRecord
         /\ IF fileReq[r].pc = "idle" THEN fileReq[r].key = NoKey
            ELSE /\ fileReq[r].key \in AllKeys
                 /\ fileReq[r].key \in Keys <=> fileReq[r].key \in issued
BY KeysApart DEF StorageInv, FilesTypeOK, FileRequestOK, FileRecord

(* Beginning a request changes neither bucket nor rows.                    *)
LEMMA BeginKept ==
  ASSUME StorageInv, NEW r \in FileRequests, NEW q, NEW k \in AllKeys,
         fileReq[r].pc = "idle", Becomes(r, q), q.key = k,
         q.pc \in {"confirm_row", "put_thumbnail", "put_object", "delete_object"},
         UNCHANGED <<urls, bucket, fileRow, brokenOff, crossed>>,
         issued' = issued \cup ({k} \cap Keys), FileRequestOK(r)',
         q.pc \in Uploading => \A s \in FileRequests : fileReq[s].key # k,
         \A s \in FileRequests : fileReq[s].key = k => fileReq[s].pc \notin Uploading,
         \A s \in FileRequests : fileReq[s].key = k => k \in issued \cup ThumbnailKeys
  PROVE  StorageInv'
<1> USE KeysApart
<1>1. /\ fileReq' \in [FileRequests -> FileRecord] /\ fileReq'[r] = q
      /\ \A s \in FileRequests \ {r} : fileReq'[s] = fileReq[s]
      /\ fileReq[r].key = NoKey
  BY BecomesGives, UnderWay
<1>2. FilesTypeOK'
  BY <1>1 DEF StorageInv, FilesTypeOK, FileRecord, bucket
<1>3. About(k)
  BY <1>1 DEF About, Untouched, bucket
<1>4. /\ HasFile(k)' <=> HasFile(k)
      /\ \A steps : /\ Deletes(k, steps) => Deletes(k, steps)'
                    /\ Under(k, steps) => Under(k, steps)'
  BY <1>1 DEF HasFile, NoFile, Deletes, Under, Key
<1>5. k \in Keys => FileOK(k)'
  BY <1>4 DEF StorageInv, FileOK, DeadLink, bucket
<1>6. ASSUME NEW s \in FileRequests, fileReq'[s].key = k PROVE FileRequestOK(s)'
  BY <1>1, <1>4, <1>6 DEF StorageInv, FilesTypeOK, FileRequestOK, bucket
<1>7. Deletes(k, {"delete_row"})' => Deletes(k, {"delete_row"})
  BY <1>1 DEF Deletes, Key
<1>8. ThumbnailKept(k)
  BY <1>1, <1>7 DEF Holds, Key, bucket, ThumbnailKept
<1>9. objects' = objects /\ fileRow' = fileRow
  BY DEF bucket
<1>10. k \in ThumbnailKeys => ~fileRow'[k].thumb
  BY <1>9 DEF StorageInv
<1> QED
  BY <1>2, <1>3, <1>5, <1>6, <1>8, <1>9, <1>10, StorageKept

(* confirm finds the object.                                               *)
LEMMA ConfirmKeeps ==
  ASSUME StorageInv, NEW r \in FileRequests, NEW u \in Uploaders, NEW k \in AllKeys,
         Confirm(r, u, k)
  PROVE  StorageInv'
<1> USE KeysApart
<1> DEFINE q == [NoFileRequest EXCEPT !.pc = "confirm_row", !.key = k, !.user = u]
<1>1. /\ q \in FileRecord /\ q.pc = "confirm_row" /\ q.key = k /\ q.user = u /\ ~q.gone
      /\ ~q.thumb /\ Becomes(r, q) /\ fileReq[r].pc = "idle"
  BY DEF NoFileRequest, FileRecord, Confirm, BeginFile, Becomes
<1> HIDE DEF q
<1>2. /\ k \in objects /\ (k \in Keys => k \in issued)
      /\ UNCHANGED <<issued, urls, bucket, fileRow, brokenOff, crossed>>
  BY DEF Confirm, ObjectExists, StorageInv, FilesTypeOK
<1>5. \A s \in FileRequests : fileReq[s].key = k =>
        fileReq[s].pc \notin Uploading /\ k \in issued \cup ThumbnailKeys
  <2>1. CASE k \in ThumbnailKeys
    BY <2>1 DEF StorageInv, FileRequestOK, Uploading
  <2>2. CASE k \in Keys
    BY <1>2, <2>2 DEF Confirm, Known, Under, Key, Uploading
  <2> QED BY <2>1, <2>2
<1>3. FileRequestOK(r)'
  BY <1>1, <1>2, BecomesGives DEF FileRequestOK, Uploading, Deleting, bucket
<1>4. issued' = issued \cup ({k} \cap Keys) /\ q.pc \notin Uploading
  BY <1>1, <1>2 DEF Uploading
<1> QED
  BY <1>1, <1>2, <1>3, <1>4, <1>5, BeginKept

(* An upload makes a key that nobody has.                                  *)
LEMMA UploadBufferKeeps ==
  ASSUME StorageInv, NEW r \in FileRequests, NEW u \in Uploaders, NEW image \in BOOLEAN,
         NEW k \in Keys, UploadBuffer(r, u, k, image)
  PROVE  StorageInv'
<1> USE KeysApart
<1> DEFINE q == [NoFileRequest EXCEPT !.pc = IF image THEN "put_thumbnail" ELSE "put_object",
                   !.key = k, !.user = u, !.thumb = image]
<1>1. /\ q \in FileRecord /\ q.pc = (IF image THEN "put_thumbnail" ELSE "put_object")
      /\ q.key = k /\ q.user = u /\ q.thumb = image /\ q.gone = FALSE
      /\ Becomes(r, q) /\ fileReq[r].pc = "idle"
  BY DEF NoFileRequest, FileRecord, UploadBuffer, BeginFile, Becomes
<1> HIDE DEF q
<1>2. /\ k \notin issued /\ issued' = issued \cup {k} /\ issued' = issued \cup ({k} \cap Keys)
      /\ UNCHANGED <<urls, bucket, fileRow, brokenOff, crossed>>
  BY DEF UploadBuffer
<1>3. /\ \A s \in FileRequests : fileReq[s].key # k
      /\ ~HasFile(k)
  BY <1>2, UnderWay DEF StorageInv, FileOK
<1>4. FileRequestOK(r)'
  BY <1>1, <1>2, <1>3, BecomesGives DEF FileRequestOK, Uploading, Deleting, HasFile, NoFile
<1> QED
  BY <1>1, <1>2, <1>3, <1>4, BeginKept

(* delete finds the row.                                                   *)
LEMMA DeleteFileKeeps ==
  ASSUME StorageInv, NEW r \in FileRequests, NEW k \in AllKeys, DeleteFile(r, k)
  PROVE  StorageInv'
<1> USE KeysApart
<1> DEFINE q == [NoFileRequest EXCEPT !.pc = "delete_object", !.key = k,
                   !.user = fileRow[k].uploader, !.thumb = fileRow[k].thumb]
<1>1. /\ q \in FileRecord /\ q.pc = "delete_object" /\ q.key = k
      /\ q.thumb = fileRow[k].thumb /\ q.gone = FALSE
  BY DEF NoFileRequest, FileRecord, StorageInv, FilesTypeOK
<1>2. Becomes(r, q) /\ fileReq[r].pc = "idle"
  BY <1>1 DEF DeleteFile, BeginFile, Becomes
<1> HIDE DEF q
<1>3. PICK p : p = q
  OBVIOUS
<1>4. /\ HasFile(k) /\ (k \in Keys => k \in issued)
      /\ (k \in ThumbnailKeys => ~fileRow[k].thumb)
      /\ UNCHANGED <<issued, urls, bucket, fileRow, brokenOff, crossed>>
  BY DEF DeleteFile, StorageInv, FileOK
<1>5. FileRequestOK(r)'
  BY <1>1, <1>2, <1>3, <1>4, BecomesGives DEF FileRequestOK, Uploading, Deleting, HasFile, NoFile
<1>6. /\ \A s \in FileRequests : fileReq[s].key = k =>
           fileReq[s].pc \notin Uploading /\ k \in issued \cup ThumbnailKeys
      /\ issued' = issued \cup ({k} \cap Keys) /\ p.pc \notin Uploading
  BY <1>1, <1>3, <1>4 DEF StorageInv, FileRequestOK, Uploading
<1> QED
  BY <1>1, <1>2, <1>3, <1>4, <1>5, <1>6, BeginKept


-----------------------------------------------------------------------------
(* A request on k goes on or ends, with whatever it does to k.             *)
LEMMA MoveKept ==
  ASSUME StorageInv, NEW r \in FileRequests, NEW q, NEW k \in AllKeys,
         fileReq[r].key = k, Becomes(r, q), q = NoFileRequest \/ q.key = k,
         FilesTypeOK', issued' = issued, \A j \in AllKeys \ {k} : Untouched(j),
         \A s \in FileRequests \ {r} : fileReq[s].key = k => FileRequestOK(s)',
         q.key = k => FileRequestOK(r)',
         k \in Keys => FileOK(k)' /\ ThumbnailKept(k),
         k \in ThumbnailKeys => ~fileRow'[k].thumb,
         \A t \in ThumbnailKeys : t \in objects' =>
           t \in objects \/ (k \in Keys /\ t = ThumbnailOf(k))
  PROVE  StorageInv'
<1>1. /\ fileReq'[r] = q /\ \A s \in FileRequests \ {r} : fileReq'[s] = fileReq[s]
  BY BecomesGives
<1>2. About(k)
  BY <1>1 DEF About
<1>3. \A s \in FileRequests : fileReq'[s].key = k => FileRequestOK(s)'
  BY <1>1
<1> QED
  BY <1>2, <1>3, StorageKept

(* An upload is alone on its key.                                          *)
LEMMA UploadAlone ==
  ASSUME StorageInv, NEW r \in FileRequests, fileReq[r].pc \in Uploading
  PROVE  /\ \A s \in FileRequests \ {r} : fileReq[s].key # fileReq[r].key
         /\ ~HasFile(fileReq[r].key) /\ ~fileReq[r].gone
         /\ fileReq[r].user \in Uploaders
         /\ fileReq[r].key \in Keys /\ fileReq[r].key \in issued
BY DEF StorageInv, FilesTypeOK, FileRequestOK, Uploading

(* The step of a request to another pc, and its end, as Becomes.           *)
LEMMA GotoBecomes ==
  ASSUME StorageInv, NEW r \in FileRequests,
         NEW pc \in {"put_object", "upload_row", "delete_thumbnail", "delete_row"},
         FileGoto(r, pc)
  PROVE  \E q : /\ Becomes(r, q) /\ q.pc = pc /\ q.key = fileReq[r].key
                /\ q.user = fileReq[r].user /\ q.thumb = fileReq[r].thumb
                /\ q.gone = fileReq[r].gone /\ q \in FileRecord
<1> DEFINE q == [fileReq[r] EXCEPT !.pc = pc]
<1>1. /\ q \in FileRecord /\ q.pc = pc /\ q.key = fileReq[r].key
      /\ q.user = fileReq[r].user /\ q.thumb = fileReq[r].thumb /\ q.gone = fileReq[r].gone
  BY UnderWay DEF FileRecord
<1>2. fileReq' = [fileReq EXCEPT ![r] = q]
  BY DEF FileGoto
<1> HIDE DEF q
<1> QED
  BY <1>1, <1>2 DEF Becomes

(* A request that ends leaves an empty slot.                               *)
LEMMA EndBecomes ==
  ASSUME NEW r \in FileRequests, EndFile(r)
  PROVE  Becomes(r, NoFileRequest) /\ NoFileRequest.key = NoKey
<1>1. NoFileRequest \in FileRecord /\ NoFileRequest.key = NoKey
  BY DEF NoFileRequest, FileRecord
<1> QED
  BY <1>1 DEF EndFile, Becomes

(* An upload puts thumbnail and object.                                    *)
LEMMA PutKeeps ==
  ASSUME StorageInv, NEW r \in FileRequests, PutThumbnail(r) \/ PutObject(r)
  PROVE  StorageInv'
<1> USE KeysApart
<1>2. fileReq[r].pc \in {"put_thumbnail", "put_object"}
  BY DEF PutThumbnail, PutObject, FileAt
<1>1. PICK k \in Keys : k = fileReq[r].key /\ k \in issued /\ k \notin ThumbnailKeys
  BY <1>2, UploadAlone DEF Uploading
<1>3. PICK q : /\ Becomes(r, q) /\ q.key = k /\ q \in FileRecord
               /\ q.thumb = fileReq[r].thumb /\ q.gone = fileReq[r].gone
               /\ q.user = fileReq[r].user
               /\ q.pc = IF fileReq[r].pc = "put_thumbnail" THEN "put_object" ELSE "upload_row"
  BY <1>1, GotoBecomes DEF PutThumbnail, PutObject, FileAt
<1>4. /\ UNCHANGED <<issued, urls, byClient, fileRow, brokenOff, crossed, severed>>
      /\ objects' = objects \cup {IF fileReq[r].pc = "put_thumbnail" THEN ThumbnailOf(k) ELSE k}
  BY <1>1 DEF PutThumbnail, PutObject, FileAt, Key
<1>5. /\ fileReq'[r] = q /\ \A s \in FileRequests \ {r} : fileReq'[s] = fileReq[s]
      /\ fileReq' \in [FileRequests -> FileRecord]
  BY <1>3, BecomesGives
<1>6. FilesTypeOK'
  BY <1>1, <1>4, <1>5 DEF StorageInv, FilesTypeOK, FileRecord
<1>7. /\ \A s \in FileRequests \ {r} : fileReq[s].key # k
      /\ ~HasFile(k) /\ ~fileReq[r].gone /\ fileReq[r].user \in Uploaders
  BY <1>1, <1>2, UploadAlone DEF Uploading
<1>8. \A j \in AllKeys \ {k} : Untouched(j)
  BY <1>4 DEF Untouched
<1>9. FileRequestOK(r)
  BY DEF StorageInv
<1>10. HasFile(k)' <=> HasFile(k)
  BY <1>4 DEF HasFile, NoFile
<1>11. FileRequestOK(r)'
  BY <1>1, <1>2, <1>3, <1>4, <1>5, <1>7, <1>9, <1>10 DEF FileRequestOK, Uploading, Deleting
<1>12. FileOK(k)'
  <2>1. ~fileRow'[k].thumb /\ ~DeadLink(k)'
    BY <1>4, <1>7, <1>10 DEF HasFile, NoFile, DeadLink
  <2>2. fileReq[r].pc = "put_object" => Under(k, {"upload_row"})'
    BY <1>3, <1>5 DEF Under, Key
  <2>3. fileReq[r].pc = "put_thumbnail" => ~Under(k, {"upload_row"})
    BY <1>1, <1>7 DEF Under, Key
  <2> QED BY <1>2, <1>4, <1>7, <1>10, <2>1, <2>2, <2>3 DEF StorageInv, FileOK
<1>13. ThumbnailKept(k)
  <2>1. ~fileRow[k].thumb
    BY <1>7 DEF HasFile, NoFile
  <2>2. fileReq[r].pc = "put_thumbnail" => Holds(k)'
    BY <1>3, <1>5, <1>9 DEF Holds, Key, FileRequestOK
  <2>3. fileReq[r].pc = "put_object" /\ Holds(k) => Holds(k)'
    BY <1>3, <1>4, <1>5, <1>7, <2>1 DEF Holds, Key
  <2> QED BY <1>2, <1>4, <2>2, <2>3 DEF ThumbnailKept
<1>14. \A t \in ThumbnailKeys : t \in objects' => t \in objects \/ t = ThumbnailOf(k)
  BY <1>4
<1> QED
  BY <1>1, <1>3, <1>4, <1>6, <1>7, <1>8, <1>11, <1>12, <1>13, <1>14, MoveKept

(* The row of an upload, of which all is there.                            *)
LEMMA UploadRowKeeps ==
  ASSUME StorageInv, NEW r \in FileRequests, UploadRow(r)
  PROVE  StorageInv'
<1> USE KeysApart
<1>1. PICK k \in Keys : k = fileReq[r].key /\ k \in issued /\ k \notin ThumbnailKeys
  BY UploadAlone DEF UploadRow, FileAt, Uploading
<1>2. /\ fileReq[r].pc = "upload_row" /\ FileRequestOK(r) /\ fileReq[r] \in FileRecord
      /\ k \in objects
  BY <1>1, UnderWay DEF UploadRow, FileAt, StorageInv, FileRequestOK
<1>3. PICK q : q = NoFileRequest /\ Becomes(r, q) /\ q.key = NoKey
  BY EndBecomes DEF UploadRow
<1>4. /\ \A s \in FileRequests \ {r} : fileReq[s].key # k
      /\ ~HasFile(k) /\ ~fileReq[r].gone /\ fileReq[r].user \in Uploaders
  BY <1>1, <1>2, UploadAlone DEF Uploading
<1>5. /\ UNCHANGED <<issued, urls, objects, severed, byClient, brokenOff, crossed>>
      /\ fileRow' = [fileRow EXCEPT ![k] = [uploader |-> fileReq[r].user,
                                            thumb |-> fileReq[r].thumb]]
  BY <1>1 DEF UploadRow, InsertRow, Key, bucket
<1>6. /\ fileReq'[r] = q /\ \A s \in FileRequests \ {r} : fileReq'[s] = fileReq[s]
      /\ fileReq' \in [FileRequests -> FileRecord]
  BY <1>3, BecomesGives
<1>7. FilesTypeOK'
  BY <1>2, <1>5, <1>6 DEF StorageInv, FilesTypeOK, FileRecord
<1>8. \A j \in AllKeys \ {k} : Untouched(j)
  BY <1>5 DEF Untouched, StorageInv, FilesTypeOK
<1>9. /\ fileRow'[k].thumb = fileReq[r].thumb /\ HasFile(k)'
      /\ \A steps : ~Deletes(k, steps)'
  <2>1. fileRow'[k].thumb = fileReq[r].thumb /\ fileRow'[k].uploader = fileReq[r].user
    BY <1>5 DEF StorageInv, FilesTypeOK
  <2>2. HasFile(k)'
    <3>1. fileReq[r].user # NoUploader
      BY <1>4, FilesAssumption
    <3> QED BY <2>1, <3>1 DEF HasFile, NoFile
  <2> QED BY <1>3, <1>4, <1>6, <2>1, <2>2 DEF Deletes, Key
<1>10. FileOK(k)'
  BY <1>1, <1>2, <1>5, <1>9 DEF FileOK, DeadLink, FileRequestOK, ThumbnailOf
<1>11. ThumbnailKept(k)
  <2>1. ~fileRow[k].thumb
    BY <1>4 DEF HasFile, NoFile
  <2> QED BY <1>1, <1>4, <1>5, <1>9, <2>1 DEF Holds, Key, ThumbnailKept
<1>12. objects' = objects /\ q.key # k
  BY <1>3, <1>5
<1> QED
  BY <1>1, <1>3, <1>4, <1>5, <1>7, <1>8, <1>10, <1>11, <1>12, MoveKept


-----------------------------------------------------------------------------
(* The row of a confirm: if the object has gone since, the key is crossed. *)
LEMMA ConfirmRowKeeps ==
  ASSUME StorageInv, NEW r \in FileRequests, ConfirmRow(r)
  PROVE  StorageInv'
<1> USE KeysApart
<1>1. PICK k \in AllKeys :
        k = fileReq[r].key /\ (k \in Keys <=> k \in issued) /\ (k \in ThumbnailKeys <=> k \notin Keys)
  BY UnderWay DEF ConfirmRow, FileAt
<1>2. /\ fileReq[r].pc = "confirm_row" /\ fileReq[r] \in FileRecord
      /\ k \in Keys => k \in objects \/ fileReq[r].gone
      /\ fileReq[r].user \in Uploaders
  BY <1>1, UnderWay DEF ConfirmRow, FileAt, StorageInv, FileRequestOK
<1>3. PICK q : q = NoFileRequest /\ Becomes(r, q) /\ q.key = NoKey
  BY EndBecomes DEF ConfirmRow
<1>4. /\ ~HasFile(k)
      /\ UNCHANGED <<issued, urls, objects, severed, byClient, brokenOff>>
      /\ fileRow' = [fileRow EXCEPT ![k] = [uploader |-> fileReq[r].user, thumb |-> FALSE]]
      /\ crossed' = IF fileReq[r].gone THEN crossed \cup {k} ELSE crossed
  BY <1>1 DEF ConfirmRow, InsertRow, Key, bucket
<1>5. /\ fileReq'[r] = q /\ \A s \in FileRequests \ {r} : fileReq'[s] = fileReq[s]
      /\ fileReq' \in [FileRequests -> FileRecord]
  BY <1>3, BecomesGives
<1>6. FilesTypeOK'
  BY <1>1, <1>2, <1>4, <1>5 DEF StorageInv, FilesTypeOK, FileRecord
<1>7. \A j \in AllKeys \ {k} : Untouched(j)
  BY <1>4 DEF Untouched, StorageInv, FilesTypeOK
<1>8. fileRow'[k].thumb = FALSE /\ HasFile(k)'
  <2>1. fileRow'[k].thumb = FALSE /\ fileRow'[k].uploader = fileReq[r].user
    BY <1>4 DEF StorageInv, FilesTypeOK
  <2>2. fileReq[r].user # NoUploader
    BY <1>2, FilesAssumption
  <2> QED BY <2>1, <2>2 DEF HasFile, NoFile
<1>9. k \in Keys => FileOK(k)'
  BY <1>1, <1>2, <1>4, <1>8 DEF FileOK, DeadLink
<1>10. ASSUME NEW s \in FileRequests \ {r}, fileReq[s].key = k PROVE FileRequestOK(s)'
  <2>1. FileRequestOK(s) /\ fileReq'[s] = fileReq[s] /\ fileReq[s] \in FileRecord
        /\ fileReq[r].key = k
    BY <1>1, <1>5, UnderWay DEF StorageInv
  <2>2. fileReq[s].pc \notin Uploading
    BY <1>10, <2>1 DEF FileRequestOK
  <2>3. k \in Keys /\ fileReq[s].pc \in Deleting => fileReq[s].gone
    BY <1>4, <1>10, <2>1 DEF FileRequestOK
  <2> QED BY <1>4, <1>8, <1>10, <2>1, <2>2, <2>3 DEF FileRequestOK, Uploading
<1>11. ThumbnailKept(k)
  <2>1. ~fileRow[k].thumb
    BY <1>4 DEF HasFile, NoFile
  <2> QED BY <1>1, <1>2, <1>4, <1>5, <2>1 DEF Holds, Key, ThumbnailKept
<1>12. objects' = objects /\ q.key # k
  BY <1>3, <1>4
<1> QED
  BY <1>1, <1>3, <1>4, <1>6, <1>7, <1>8, <1>9, <1>10, <1>11, <1>12, MoveKept

(* A request fails: what it leaves undone breaks the key off.              *)
LEMMA FileRequestFailsKeeps ==
  ASSUME StorageInv, NEW r \in FileRequests, FileRequestFails(r)
  PROVE  StorageInv'
<1> USE KeysApart
<1>1. PICK k \in AllKeys :
        k = fileReq[r].key /\ (k \in Keys <=> k \in issued) /\ (k \in ThumbnailKeys <=> k \notin Keys)
  BY UnderWay DEF FileRequestFails
<1>2. FileRequestOK(r) /\ fileReq[r] \in FileRecord
  BY <1>1, UnderWay DEF StorageInv
<1>3. PICK q : q = NoFileRequest /\ Becomes(r, q) /\ q.key = NoKey
  BY EndBecomes DEF FileRequestFails
<1>4. /\ UNCHANGED <<issued, urls, objects, severed, byClient, fileRow, crossed>>
      /\ brokenOff \subseteq brokenOff' /\ brokenOff' \subseteq brokenOff \cup {k}
      /\ ~fileReq[r].gone /\ fileReq[r].pc \in
           {"put_object", "upload_row", "delete_thumbnail", "delete_row"} => k \in brokenOff'
  BY <1>1 DEF FileRequestFails, Key, bucket
<1>5. /\ fileReq'[r] = q /\ \A s \in FileRequests \ {r} : fileReq'[s] = fileReq[s]
      /\ fileReq' \in [FileRequests -> FileRecord]
  BY <1>3, BecomesGives
<1>6. FilesTypeOK'
  BY <1>1, <1>4, <1>5 DEF StorageInv, FilesTypeOK, FileRecord
<1>7. \A j \in AllKeys \ {k} : Untouched(j)
  BY <1>4 DEF Untouched
<1>8. HasFile(k)' <=> HasFile(k)
  BY <1>4 DEF HasFile, NoFile
<1>9. ASSUME k \notin brokenOff'
      PROVE  /\ \A steps \in {{"delete_thumbnail", "delete_row"}, {"delete_row"}} :
                  Deletes(k, steps) <=> Deletes(k, steps)'
             /\ Under(k, {"upload_row"}) => Under(k, {"upload_row"})'
  BY <1>1, <1>2, <1>3, <1>4, <1>5, <1>9 DEF Deletes, Under, Key, FileRequestOK, Uploading
<1>10. k \in Keys => FileOK(k)'
  BY <1>4, <1>8, <1>9 DEF StorageInv, FileOK, DeadLink
<1>11. ASSUME NEW s \in FileRequests \ {r}, fileReq[s].key = k PROVE FileRequestOK(s)'
  BY <1>3, <1>4, <1>5, <1>8, <1>11 DEF StorageInv, FileRequestOK
<1>12. ThumbnailKept(k)
  BY <1>1, <1>2, <1>3, <1>4, <1>5, <1>9 DEF Holds, Key, FileRequestOK, Uploading, ThumbnailKept
<1>14. k \in ThumbnailKeys => ~fileRow'[k].thumb
  BY <1>4 DEF StorageInv
<1>13. objects' = objects /\ q.key # k
  BY <1>3, <1>4
<1> QED
  BY <1>1, <1>3, <1>4, <1>6, <1>7, <1>10, <1>11, <1>12, <1>13, <1>14, MoveKept

(* A delete takes the thumbnail, or fails to and goes on.                  *)
LEMMA DeleteThumbnailKeeps ==
  ASSUME StorageInv, NEW r \in FileRequests, DeleteThumbnail(r) \/ DeleteThumbnailFails(r)
  PROVE  StorageInv'
<1> USE KeysApart
<1>1. PICK k \in Keys : k = fileReq[r].key /\ k \in issued /\ k \notin ThumbnailKeys
  BY UnderWay DEF DeleteThumbnail, DeleteThumbnailFails, FileAt, StorageInv, FileRequestOK
<1>2. fileReq[r].pc = "delete_thumbnail" /\ FileRequestOK(r) /\ fileReq[r] \in FileRecord
  BY <1>1, UnderWay DEF DeleteThumbnail, DeleteThumbnailFails, FileAt, StorageInv
<1>3. PICK q : /\ Becomes(r, q) /\ q.pc = "delete_row" /\ q.key = k /\ q \in FileRecord
               /\ q.thumb = fileReq[r].thumb /\ q.gone = fileReq[r].gone
               /\ q.user = fileReq[r].user
  BY <1>1, GotoBecomes DEF DeleteThumbnail, DeleteThumbnailFails
<1>4. /\ UNCHANGED <<issued, urls, byClient, fileRow, crossed, severed>>
      /\ \/ brokenOff' = brokenOff /\ objects' = objects \ {ThumbnailOf(k)}
         \/ brokenOff' = brokenOff \cup {k} /\ objects' = objects
  BY <1>1 DEF DeleteThumbnail, DeleteThumbnailFails, Key, bucket
<1>5. /\ fileReq'[r] = q /\ \A s \in FileRequests \ {r} : fileReq'[s] = fileReq[s]
      /\ fileReq' \in [FileRequests -> FileRecord]
  BY <1>3, BecomesGives
<1>6. FilesTypeOK'
  <2>1. objects' \subseteq objects /\ byClient \subseteq objects'
    BY <1>1, <1>4 DEF StorageInv, FilesTypeOK
  <2>2. objects' \in SUBSET (issued \cup {ThumbnailOf(j) : j \in issued})
    BY <2>1 DEF StorageInv, FilesTypeOK
  <2> QED BY <1>1, <1>4, <1>5, <2>1, <2>2 DEF StorageInv, FilesTypeOK, FileRecord
<1>7. \A j \in AllKeys \ {k} : Untouched(j)
  BY <1>1, <1>4 DEF Untouched
<1>8. HasFile(k)' <=> HasFile(k)
  BY <1>4 DEF HasFile, NoFile
<1>9. /\ \A steps \in {{"delete_thumbnail", "delete_row"}, {"delete_row"}} :
           Deletes(k, steps) => Deletes(k, steps)'
      /\ Under(k, {"upload_row"}) => Under(k, {"upload_row"})'
      /\ ~fileReq[r].gone => Deletes(k, {"delete_row"})'
  BY <1>1, <1>2, <1>3, <1>5 DEF Deletes, Under, Key
<1>10. fileReq[r].gone => ~fileRow[k].thumb
  BY <1>1, <1>2 DEF FileRequestOK, Deleting
<1>11. FileOK(k)'
  BY <1>4, <1>8, <1>9, <1>10 DEF StorageInv, FileOK, DeadLink
<1>12. ASSUME NEW s \in FileRequests \ {r}, fileReq[s].key = k PROVE FileRequestOK(s)'
  <2>1. FileRequestOK(s) /\ fileReq'[s] = fileReq[s] /\ fileReq[r].key = k
    BY <1>1, <1>5 DEF StorageInv
  <2>2. fileReq[s].pc \notin Uploading
    BY <1>12, <2>1 DEF FileRequestOK
  <2> QED BY <1>4, <1>8, <1>12, <2>1, <2>2 DEF FileRequestOK, Uploading
<1>13. FileRequestOK(r)'
  BY <1>1, <1>2, <1>3, <1>4, <1>5, <1>8 DEF FileRequestOK, Uploading, Deleting
<1>14. ThumbnailKept(k)
  BY <1>4 DEF Holds, ThumbnailKept
<1>15. \A t \in ThumbnailKeys : t \in objects' => t \in objects
  BY <1>4
<1> QED
  BY <1>1, <1>3, <1>4, <1>6, <1>7, <1>11, <1>12, <1>13, <1>14, <1>15, MoveKept


(* A delete takes the object, which a confirm may just have found; if the  *)
(* key has another row by now, it is crossed.                              *)
LEMMA DeleteObjectKeeps ==
  ASSUME StorageInv, NEW r \in FileRequests, DeleteObject(r)
  PROVE  StorageInv'
<1> USE KeysApart
<1>1. PICK k \in AllKeys :
        k = fileReq[r].key /\ (k \in Keys <=> k \in issued) /\ (k \in ThumbnailKeys <=> k \notin Keys)
  BY UnderWay DEF DeleteObject, FileAt
<1>2. fileReq[r].pc = "delete_object" /\ FileRequestOK(r) /\ fileReq[r] \in FileRecord
  BY <1>1, UnderWay DEF DeleteObject, FileAt, StorageInv
<1>3. /\ UNCHANGED <<issued, urls, fileRow, brokenOff>>
      /\ severed' = severed \cup ({k} \cap ThumbnailKeys)
      /\ objects' = objects \ {k} /\ byClient' = byClient \ {k}
      /\ crossed' = IF fileReq[r].gone /\ HasFile(k) THEN crossed \cup {k} ELSE crossed
  BY <1>1 DEF DeleteObject, Key
<1>4. PICK q \in FileRecord :
        /\ q.pc \in {"delete_thumbnail", "delete_row"} /\ q.key = k /\ q.user = fileReq[r].user
        /\ q.thumb = fileReq[r].thumb /\ q.gone = fileReq[r].gone
        /\ q.pc = IF q.thumb THEN "delete_thumbnail" ELSE "delete_row"
        /\ fileReq'[r] = q
  <2> DEFINE n == [fileReq[r] EXCEPT !.pc = AfterObject(fileReq[r])]
  <2>1. /\ n \in FileRecord /\ n.pc \in {"delete_thumbnail", "delete_row"} /\ n.key = k
        /\ n.user = fileReq[r].user /\ n.thumb = fileReq[r].thumb /\ n.gone = fileReq[r].gone
        /\ n.pc = IF fileReq[r].thumb THEN "delete_thumbnail" ELSE "delete_row"
    BY <1>1, <1>2 DEF FileRecord, AfterObject
  <2>2. fileReq'[r] = n
    BY DEF DeleteObject
  <2> HIDE DEF n
  <2> QED BY <2>1, <2>2
<1>5. ASSUME NEW s \in FileRequests \ {r}
      PROVE  /\ fileReq'[s] \in FileRecord /\ fileReq[s] \in FileRecord
             /\ fileReq'[s].pc = fileReq[s].pc /\ fileReq'[s].key = fileReq[s].key
             /\ fileReq'[s].user = fileReq[s].user /\ fileReq'[s].thumb = fileReq[s].thumb
             /\ fileReq'[s].gone = (fileReq[s].gone \/ s \in ConfirmsOf(k))
             /\ fileReq[s].key # k => fileReq'[s] = fileReq[s]
  <2>1. fileReq[s] \in FileRecord
    BY UnderWay
  <2>2. PICK b \in BOOLEAN : b = (fileReq[s].gone \/ s \in ConfirmsOf(k))
    OBVIOUS
  <2>3. fileReq'[s] = [fileReq[s] EXCEPT !.gone = b]
    BY <1>1, <2>2 DEF DeleteObject, Key
  <2>4. fileReq[s].key # k => b = fileReq[s].gone
    BY <2>1, <2>2 DEF ConfirmsOf, Key, FileRecord
  <2>5. fileReq'[s] \in FileRecord /\ fileReq'[s].gone = b
    BY <2>1, <2>3 DEF FileRecord
  <2>6. fileReq[s].key # k => fileReq'[s] = fileReq[s]
    BY <2>1, <2>3, <2>4 DEF FileRecord
  <2> QED BY <2>1, <2>2, <2>3, <2>5, <2>6 DEF FileRecord
<1>6. fileReq' \in [FileRequests -> FileRecord]
  <2>1. \A s \in FileRequests : fileReq'[s] \in FileRecord
    BY <1>4, <1>5
  <2> QED BY <2>1 DEF DeleteObject
<1>7. FilesTypeOK'
  BY <1>1, <1>3, <1>6 DEF StorageInv, FilesTypeOK, FileRecord
<1>8. About(k)
  BY <1>1, <1>3, <1>4, <1>5 DEF About, Untouched
<1>9. HasFile(k)' <=> HasFile(k)
  BY <1>3 DEF HasFile, NoFile
<1>10. FileRequestOK(r)'
  BY <1>1, <1>2, <1>3, <1>4, <1>9 DEF FileRequestOK, Uploading, Deleting
<1>11. ASSUME NEW s \in FileRequests \ {r}, fileReq[s].key = k PROVE FileRequestOK(s)'
  <2>1. FileRequestOK(s) /\ fileReq[r].key = k
    BY <1>1, <1>5 DEF StorageInv
  <2>2. fileReq[s].pc \notin Uploading
    BY <1>11, <2>1 DEF FileRequestOK
  <2>3. /\ fileReq[s].pc \in Deleting => s \notin ConfirmsOf(k)
        /\ fileReq[s].pc = "confirm_row" => s \in ConfirmsOf(k)
    BY <1>11 DEF ConfirmsOf, Key, FileAt, Deleting
  <2> QED BY <1>3, <1>5, <1>9, <1>11, <2>1, <2>2, <2>3 DEF FileRequestOK, Uploading, Deleting
<1>12. \A s \in FileRequests : fileReq'[s].key = k => FileRequestOK(s)'
  BY <1>5, <1>10, <1>11
<1>13. k \in Keys => FileOK(k)'
  <2>1. Deletes(k, {"delete_row"}) => Deletes(k, {"delete_row"})'
    BY <1>2, <1>5 DEF Deletes, Key, ConfirmsOf, FileAt
  <2>2. ~fileReq[r].gone => Deletes(k, {"delete_thumbnail", "delete_row"})'
    BY <1>4 DEF Deletes, Key
  <2> QED BY <1>3, <1>9, <2>1, <2>2 DEF StorageInv, FileOK, DeadLink
<1>14. k \in Keys => ThumbnailKept(k)
  <2> SUFFICES ASSUME k \in Keys, Holds(k) PROVE Holds(k)'
    BY <1>3 DEF ThumbnailKept
  <2>1. CASE k \in brokenOff
    BY <1>3, <2>1 DEF Holds
  <2>2. ASSUME NEW s \in FileRequests, Key(s) = k, fileReq[s].thumb,
               fileReq[s].pc \in {"put_object", "upload_row"}
        PROVE  Holds(k)'
    BY <1>2, <1>5, <2>2 DEF Holds, Key
  <2>3. CASE fileRow[k].thumb /\ ~Deletes(k, {"delete_row"})
    <3>1. ~fileReq[r].gone => fileReq[r].thumb
      BY <1>1, <1>2, <2>3 DEF FileRequestOK, Deleting
    <3>2. ~Deletes(k, {"delete_row"})'
      BY <1>4, <1>5, <2>3, <3>1 DEF Deletes, Key
    <3> QED BY <1>3, <2>3, <3>2 DEF Holds
  <2> QED BY <2>1, <2>2, <2>3 DEF Holds
<1>15. /\ \A t \in ThumbnailKeys : t \in objects' => t \in objects
       /\ k \in ThumbnailKeys => ~fileRow'[k].thumb
  BY <1>3 DEF StorageInv
<1> QED
  BY <1>7, <1>8, <1>12, <1>13, <1>14, <1>15, StorageKept

(* A delete takes the row: the other deletes of it have been overtaken.    *)
LEMMA DeleteRowKeeps ==
  ASSUME StorageInv, NEW r \in FileRequests, DeleteRow(r)
  PROVE  StorageInv'
<1> USE KeysApart
<1>1. PICK k \in AllKeys :
        k = fileReq[r].key /\ (k \in Keys <=> k \in issued) /\ (k \in ThumbnailKeys <=> k \notin Keys)
  BY UnderWay DEF DeleteRow, FileAt
<1>2. /\ fileReq[r].pc = "delete_row" /\ FileRequestOK(r) /\ fileReq[r] \in FileRecord
      /\ ~fileReq[r].gone
  BY <1>1, UnderWay DEF DeleteRow, FileAt, StorageInv
<1>3. /\ UNCHANGED <<issued, urls, objects, severed, byClient, brokenOff, crossed>>
      /\ fileRow' = [fileRow EXCEPT ![k] = NoFile]
  BY <1>1 DEF DeleteRow, Key, bucket
<1>4. fileReq'[r] = NoFileRequest /\ NoFileRequest \in FileRecord /\ NoFileRequest.key = NoKey
  BY DEF DeleteRow, NoFileRequest, FileRecord
<1>5. ASSUME NEW s \in FileRequests \ {r}
      PROVE  /\ fileReq'[s] \in FileRecord /\ fileReq[s] \in FileRecord
             /\ fileReq'[s].pc = fileReq[s].pc /\ fileReq'[s].key = fileReq[s].key
             /\ fileReq'[s].user = fileReq[s].user /\ fileReq'[s].thumb = fileReq[s].thumb
             /\ fileReq'[s].gone = (fileReq[s].gone \/ s \in DeletesOf(k))
             /\ fileReq[s].key # k => fileReq'[s] = fileReq[s]
  <2>1. fileReq[s] \in FileRecord
    BY UnderWay
  <2>2. PICK b \in BOOLEAN : b = (fileReq[s].gone \/ s \in DeletesOf(k))
    OBVIOUS
  <2>3. fileReq'[s] = [fileReq[s] EXCEPT !.gone = b]
    BY <1>1, <2>2 DEF DeleteRow, Key
  <2>4. fileReq[s].key # k => b = fileReq[s].gone
    BY <2>1, <2>2 DEF DeletesOf, Key, FileRecord
  <2>5. fileReq'[s] \in FileRecord /\ fileReq'[s].gone = b
    BY <2>1, <2>3 DEF FileRecord
  <2>6. fileReq[s].key # k => fileReq'[s] = fileReq[s]
    BY <2>1, <2>3, <2>4 DEF FileRecord
  <2> QED BY <2>1, <2>2, <2>3, <2>5, <2>6 DEF FileRecord
<1>6. fileReq' \in [FileRequests -> FileRecord]
  <2>1. \A s \in FileRequests : fileReq'[s] \in FileRecord
    BY <1>4, <1>5
  <2> QED BY <2>1 DEF DeleteRow
<1>7. FilesTypeOK'
  BY <1>1, <1>3, <1>6 DEF StorageInv, FilesTypeOK, FileRecord, NoFile
<1>8. About(k)
  BY <1>1, <1>3, <1>4, <1>5 DEF About, Untouched, StorageInv, FilesTypeOK
<1>9. ~HasFile(k)' /\ fileRow'[k].thumb = FALSE
  BY <1>3 DEF HasFile, NoFile, StorageInv, FilesTypeOK
<1>10. ASSUME NEW s \in FileRequests \ {r}, fileReq[s].key = k PROVE FileRequestOK(s)'
  <2>1. FileRequestOK(s) /\ fileReq[r].key = k
    BY <1>1, <1>5 DEF StorageInv
  <2>2. fileReq[s].pc \notin Uploading
    BY <1>10, <2>1 DEF FileRequestOK
  <2>3. fileReq[s].pc \in Deleting => s \in DeletesOf(k)
    BY <1>10 DEF DeletesOf, Key, Deleting
  <2> QED BY <1>3, <1>5, <1>9, <1>10, <2>1, <2>2, <2>3 DEF FileRequestOK, Uploading
<1>11. \A s \in FileRequests : fileReq'[s].key = k => FileRequestOK(s)'
  BY <1>4, <1>5, <1>10
<1>12. k \in Keys => FileOK(k)'
  BY <1>1, <1>2, <1>3, <1>9 DEF FileOK, DeadLink, FileRequestOK
<1>13. k \in Keys => ThumbnailKept(k)
  <2> SUFFICES ASSUME k \in Keys, Holds(k) PROVE Holds(k)'
    BY <1>3 DEF ThumbnailKept
  <2>1. Deletes(k, {"delete_row"})
    BY <1>1, <1>2 DEF Deletes, Key
  <2>2. ASSUME NEW s \in FileRequests, Key(s) = k, fileReq[s].thumb,
               fileReq[s].pc \in {"put_object", "upload_row"}
        PROVE  Holds(k)'
    BY <1>2, <1>5, <2>2 DEF Holds, Key
  <2> QED BY <1>3, <2>1, <2>2 DEF Holds
<1>14. objects' = objects
  BY <1>3
<1> QED
  BY <1>7, <1>8, <1>9, <1>11, <1>12, <1>13, <1>14, StorageKept

-----------------------------------------------------------------------------
(* Every step.                                                             *)
LEMMA FilesStep == StorageInv /\ [FilesNext]_fileVars => StorageInv'
<1> SUFFICES ASSUME StorageInv, [FilesNext]_fileVars PROVE StorageInv'
  OBVIOUS
<1>1. CASE UNCHANGED fileVars
  <2>1. FilesTypeOK' /\ \A r \in FileRequests : FileRequestOK(r)'
    BY <1>1 DEF fileVars, StorageInv, FilesTypeOK, FileRequestOK, HasFile, NoFile
  <2>2. \A k \in Keys : FileOK(k)' /\ (Holds(k) => Holds(k)')
    BY <1>1 DEF fileVars, StorageInv, FileOK, HasFile, NoFile, DeadLink, Deletes, Under, Key,
                Holds
  <2>3. (\A t \in objects \cap ThumbnailKeys : \E k \in Keys : ThumbnailOf(k) = t /\ Holds(k))'
    BY <1>1, <2>2 DEF fileVars, StorageInv, ThumbnailOf, ThumbnailKeys
  <2>4. (\A t \in ThumbnailKeys : ~fileRow[t].thumb)'
    BY <1>1 DEF fileVars, StorageInv, ThumbnailOf, ThumbnailKeys
  <2> QED BY <2>1, <2>2, <2>3, <2>4 DEF StorageInv
<1>2. CASE FilesNext
  BY <1>2, ClientStepKeeps, ConfirmKeeps, UploadBufferKeeps, DeleteFileKeeps, ConfirmRowKeeps,
     PutKeeps, UploadRowKeeps, DeleteObjectKeeps, DeleteThumbnailKeeps, DeleteRowKeeps,
     FileRequestFailsKeeps DEF FilesNext
<1> QED
  BY <1>1, <1>2

(* Bucket and database are empty at the start.                             *)
LEMMA FilesStart == FilesInit => StorageInv
BY KeysApart DEF FilesInit, StorageInv, FilesTypeOK, FileRequestOK, FileOK, NoFile, NoFileRequest,
       HasFile, DeadLink, Uploading, Deleting

(* The invariant says of bucket and rows what StorageMatchesRows asks.     *)
LEMMA StorageInvMatches == StorageInv => StorageMatchesRows
<1> SUFFICES ASSUME StorageInv PROVE StorageMatchesRows
  OBVIOUS
<1>1. ASSUME NEW k \in Keys, NEW steps, Deletes(k, steps) PROVE Under(k, steps)
  BY <1>1 DEF Deletes, Under
<1>2. ASSUME NEW k \in Keys \ brokenOff
      PROVE  /\ DeadLink(k) =>
                  k \in crossed \/ Under(k, {"delete_thumbnail", "delete_row"})
             /\ k \in objects /\ ~HasFile(k) => k \in byClient \/ Under(k, {"upload_row"})
             /\ DeadThumbnail(k) => \/ k \in Extensionless \/ ThumbnailOf(k) \in severed
                                    \/ Under(k, {"delete_row"})
  BY <1>1, <1>2 DEF StorageInv, FileOK, DeadThumbnail
<1>3. ASSUME NEW t \in objects \cap ThumbnailKeys
      PROVE  \E k \in Keys : /\ ThumbnailOf(k) = t
                             /\ \/ HasFile(k) \/ k \in brokenOff
                                \/ Under(k, {"put_object", "upload_row"})
  <2>1. PICK k \in Keys : ThumbnailOf(k) = t /\ Holds(k)
    BY <1>3 DEF StorageInv
  <2>2. fileRow[k].thumb => HasFile(k)
    BY DEF HasFile, NoFile
  <2> QED BY <2>1, <2>2 DEF Holds, Under
<1> QED
  BY <1>2, <1>3 DEF StorageMatchesRows

(* Bucket and database agree but for work that is under way, broke off or  *)
(* crossed and thumbnails that someone made files of, whatever uploads,    *)
(* confirms and deletes overlap on a key and wherever they stop            *)
(* (FilesService, S3Service).                                              *)
THEOREM BucketMatchesRows == FilesSpec => []StorageMatchesRows
<1> QED
  BY FilesStart, FilesStep, StorageInvMatches, PTL DEF FilesSpec

-----------------------------------------------------------------------------
(* One run has all services, one at a time: a step of one is a stutter of  *)
(* every other.                                                            *)
LEMMA StepsApart ==
  ASSUME [Next]_vars
  PROVE  /\ [GatewayNext]_gatewayVars /\ [RoomsNext]_roomVars /\ [DmNext]_dmVars
         /\ [FilesNext]_fileVars /\ [NotificationsNext]_notificationVars
<1>1. CASE OfGateway(GatewayNext)
  BY <1>1 DEF OfGateway
<1>2. CASE OfRooms(RoomsNext)
  BY <1>2 DEF OfRooms
<1>3. CASE OfDms(DmNext)
  BY <1>3 DEF OfDms
<1>4. CASE OfFiles(FilesNext)
  BY <1>4 DEF OfFiles
<1>5. CASE OfNotifications(NotificationsNext)
  BY <1>5 DEF OfNotifications
<1>6. CASE UNCHANGED vars
  BY <1>6 DEF vars
<1> QED
  BY <1>1, <1>2, <1>3, <1>4, <1>5, <1>6 DEF Next

(* A behaviour of the services is, seen by each of them, one of its own.   *)
LEMMA EachAsAlone ==
  Spec => GatewaySpec /\ RoomsSpec /\ DmSpec /\ FilesSpec /\ NotificationsSpec
<1>1. Init => GatewayInit /\ RoomsInit /\ DmInit /\ FilesInit /\ NotificationsInit
  BY DEF Init
<1>2. [Next]_vars =>
        /\ [GatewayNext]_gatewayVars /\ [RoomsNext]_roomVars /\ [DmNext]_dmVars
        /\ [FilesNext]_fileVars /\ [NotificationsNext]_notificationVars
  BY StepsApart
<1> QED
  BY <1>1, <1>2, PTL DEF Spec, GatewaySpec, RoomsSpec, DmSpec, FilesSpec, NotificationsSpec

(* The state of every service keeps its type.                              *)
THEOREM ServiceTypes == Spec => []TypeOK
<1>1. RoomsInv => RoomsTypeOK
  BY RoomsInvGives
<1>2. StorageInv => FilesTypeOK
  BY DEF StorageInv
<1>3. NotificationsInv => NotificationsTypeOK
  BY DEF NotificationsInv
<1>4. DmInv => DmTypeOK
  BY DEF DmInv
<1>5. GatewayTypeOK /\ RoomsTypeOK /\ DmTypeOK /\ FilesTypeOK /\ NotificationsTypeOK => TypeOK
  BY DEF TypeOK
<1> QED
  BY EachAsAlone, GatewayTypesInit, GatewayTypesStep, RoomsInvInit, RoomsInvStep, DmInvInit,
     DmInvStep, FilesStart, FilesStep, NotificationsStart, NotificationsStep, <1>1, <1>2, <1>3,
     <1>4, <1>5, PTL
     DEF GatewaySpec, RoomsSpec, DmSpec, FilesSpec, NotificationsSpec
=============================================================================
