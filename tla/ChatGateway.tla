---------------------------- MODULE ChatGateway ----------------------------
(***************************************************************************)
(* The socket events of ChatGateway: which sockets are in which socket.io  *)
(* room, and the typing indicators with their timers.  What its connect    *)
(* and disconnect handlers write to Redis and the database is in the       *)
(* module Presence.                                                        *)
(*                                                                         *)
(* A socket is put in a room by handlers that read the membership first    *)
(* and join one or more awaited calls later, and it stays there when the   *)
(* membership ends: RoomMembersService knows no sockets.  Memberships come *)
(* and go here at any time; RoomMembers says how.                          *)
(***************************************************************************)
EXTENDS Naturals, FiniteSets

CONSTANTS
  Users,
  Sockets,
  UserOf,      \* the user of a socket
  ChatRooms

ASSUME GatewayAssumption == UserOf \in [Sockets -> Users]

VARIABLES
  link,        \* of a socket: "new", "open", "closed"
  joined,      \* the socket.io rooms it is in
  handler,     \* the handler of the socket in progress; bound: one at a time
  membership,  \* RoomMember rows, as <<user, room>> and whether leftAt is null
  timer,       \* typingTimers: "none", "running", "due"
  typing,      \* <<room, user>> whose last event to the room was "is typing"
  outdated,    \* history: <<socket, room>>: the membership ended after it was read
  dangling     \* history: <<room, user>> whose timer a disconnect has cleared

gatewayVars ==
  <<link, joined, handler, membership, timer, typing, outdated, dangling>>

-----------------------------------------------------------------------------
NoHandler == [pc |-> "idle", rooms |-> {}]
Typists == ChatRooms \X Users

(* findMembership finds the row of a member who has left as well.          *)
HasRow(u, room) == membership[<<u, room>>] # "none"
IsMember(u, room) == membership[<<u, room>>] = "active"

GatewayInit ==
  /\ link = [s \in Sockets |-> "new"]
  /\ joined = [s \in Sockets |-> {}]
  /\ handler = [s \in Sockets |-> NoHandler]
  /\ membership = [x \in Users \X ChatRooms |-> "none"]
  /\ timer = [t \in Typists |-> "none"]
  /\ typing = {}
  /\ outdated = {}
  /\ dangling = {}

-----------------------------------------------------------------------------
(* handleConnection: the user's rooms are read after userConnected, then   *)
(* joined.                                                                 *)
OpenSocket(s) ==
  /\ link[s] = "new"
  /\ link' = [link EXCEPT ![s] = "open"]
  /\ handler' = [handler EXCEPT ![s] = [pc |-> "read_rooms", rooms |-> {}]]
  /\ UNCHANGED <<joined, membership, timer, typing, outdated, dangling>>

ReadRooms(s) ==
  /\ handler[s].pc = "read_rooms"
  /\ handler' = [handler EXCEPT ![s] =
       [pc |-> "join", rooms |-> {room \in ChatRooms : IsMember(UserOf[s], room)}]]
  /\ UNCHANGED <<link, joined, membership, timer, typing, outdated, dangling>>

(* room:join reads the membership; a member who has left is turned away.   *)
JoinRoom(s, room) ==
  /\ link[s] = "open" /\ handler[s] = NoHandler
  /\ IsMember(UserOf[s], room)
  /\ handler' = [handler EXCEPT ![s] = [pc |-> "join", rooms |-> {room}]]
  /\ UNCHANGED <<link, joined, membership, timer, typing, outdated, dangling>>

(* client.join: a socket that has been closed hears nothing any more.      *)
Join(s) ==
  /\ handler[s].pc = "join"
  /\ joined' = IF link[s] = "open" THEN [joined EXCEPT ![s] = @ \cup handler[s].rooms]
               ELSE joined
  /\ handler' = [handler EXCEPT ![s] = NoHandler]
  /\ UNCHANGED <<link, membership, timer, typing, outdated, dangling>>

LeaveRoom(s, room) ==
  /\ link[s] = "open" /\ room \in joined[s]
  /\ joined' = [joined EXCEPT ![s] = @ \ {room}]
  /\ UNCHANGED <<link, handler, membership, timer, typing, outdated, dangling>>

(* A membership begins (an added or invited member) or ends (a member who  *)
(* leaves or is kicked); no socket is told.                                *)
BeginMembership(u, room) ==
  /\ membership[<<u, room>>] # "active"
  /\ membership' = [membership EXCEPT ![<<u, room>>] = "active"]
  /\ UNCHANGED <<link, joined, handler, timer, typing, outdated, dangling>>

EndMembership(u, room) ==
  /\ IsMember(u, room)
  /\ membership' = [membership EXCEPT ![<<u, room>>] = "left"]
  /\ outdated' = outdated \cup
       {<<s, room>> : s \in {x \in Sockets :
                       UserOf[x] = u /\ room \in joined[x] \cup handler[x].rooms}}
  /\ UNCHANGED <<link, joined, handler, timer, typing, dangling>>

-----------------------------------------------------------------------------
(* The timer goes and the room is told that the typing has stopped.        *)
ForgetTyping(t) == timer' = [timer EXCEPT ![t] = "none"] /\ UNCHANGED <<typing, dangling>>
StopTyping(t) ==
  /\ timer' = [timer EXCEPT ![t] = "none"]
  /\ typing' = typing \ {t}
  /\ dangling' = dangling \ {t}

(* typing:start asks for no membership, and starts the timer anew.         *)
TypingStart(s, room) ==
  /\ link[s] = "open"
  /\ LET t == <<room, UserOf[s]>>
     IN /\ timer' = [timer EXCEPT ![t] = "running"]
        /\ typing' = typing \cup {t}
        /\ dangling' = dangling \ {t}
  /\ UNCHANGED <<link, joined, handler, membership, outdated>>

TypingStop(s, room) ==
  /\ link[s] = "open"
  /\ StopTyping(<<room, UserOf[s]>>)
  /\ UNCHANGED <<link, joined, handler, membership, outdated>>

(* The 5 seconds of a timer pass; then its callback runs.                  *)
Elapse(t) ==
  /\ timer[t] = "running"
  /\ timer' = [timer EXCEPT ![t] = "due"]
  /\ UNCHANGED <<link, joined, handler, membership, typing, outdated, dangling>>

TypingTimeout(t) ==
  /\ timer[t] = "due"
  /\ StopTyping(t)
  /\ UNCHANGED <<link, joined, handler, membership, outdated>>

(* message:send: MessagesService.create, which Messages models; what it    *)
(* returned is broadcast and the sender's indicator stopped.               *)
SendMessage(s, room) ==
  /\ link[s] = "open" /\ handler[s] = NoHandler
  /\ IsMember(UserOf[s], room)
  /\ handler' = [handler EXCEPT ![s] = [pc |-> "broadcast", rooms |-> {room}]]
  /\ UNCHANGED <<link, joined, membership, timer, typing, outdated, dangling>>

Broadcast(s, room) ==
  /\ handler[s] = [pc |-> "broadcast", rooms |-> {room}]
  /\ StopTyping(<<room, UserOf[s]>>)
  /\ handler' = [handler EXCEPT ![s] = NoHandler]
  /\ UNCHANGED <<link, joined, membership, outdated>>

(* handleDisconnect clears all timers of the socket's user, those of other *)
(* sockets too, and tells the rooms nothing.                               *)
CloseSocket(s) ==
  /\ link[s] = "open"
  /\ link' = [link EXCEPT ![s] = "closed"]
  /\ joined' = [joined EXCEPT ![s] = {}]
  /\ LET cleared == {t \in Typists : t[2] = UserOf[s] /\ timer[t] # "none"}
     IN /\ timer' = [t \in Typists |-> IF t \in cleared THEN "none" ELSE timer[t]]
        /\ dangling' = dangling \cup cleared
  /\ UNCHANGED <<handler, membership, typing, outdated>>

-----------------------------------------------------------------------------
Elapses(t) == Elapse(t) \/ TypingTimeout(t)

GatewayNext ==
  \/ \E s \in Sockets :
       \/ OpenSocket(s) \/ ReadRooms(s) \/ Join(s) \/ CloseSocket(s)
       \/ \E room \in ChatRooms :
            \/ JoinRoom(s, room) \/ LeaveRoom(s, room)
            \/ TypingStart(s, room) \/ TypingStop(s, room)
            \/ SendMessage(s, room) \/ Broadcast(s, room)
  \/ \E u \in Users, room \in ChatRooms : BeginMembership(u, room) \/ EndMembership(u, room)
  \/ \E t \in Typists : Elapses(t)

GatewayTypeOK ==
  /\ link \in [Sockets -> {"new", "open", "closed"}]
  /\ joined \in [Sockets -> SUBSET ChatRooms]
  /\ handler \in [Sockets -> [pc : {"idle", "read_rooms", "join", "broadcast"},
                              rooms : SUBSET ChatRooms]]
  /\ membership \in [Users \X ChatRooms -> {"none", "active", "left"}]
  /\ timer \in [Typists -> {"none", "running", "due"}]
  /\ typing \in SUBSET Typists
  /\ outdated \in SUBSET (Sockets \X ChatRooms)
  /\ dangling \in SUBSET Typists

(* A socket hears a room only if its user is a member, or the membership   *)
(* ended after a handler had read it: a member who was kicked or left goes *)
(* on hearing the room with the sockets that were in it or on their way,   *)
(* and with no socket that connects or joins later.                        *)
WhoHears ==
  \A s \in Sockets : \A room \in joined[s] :
    membership[<<UserOf[s], room>>] = "active" \/ <<s, room>> \in outdated

(* An indicator does not stay for ever: it is stopped, the user goes on    *)
(* typing, or a socket of the user disconnected, which clears the timers   *)
(* of all of them and leaves the indicators where they are.                *)
TypingStops ==
  \A t \in Typists :
    \/ []<>(t \notin typing \/ t \in dangling)
    \/ []<><<\E s \in Sockets : UserOf[s] = t[2] /\ TypingStart(s, t[1])>>_gatewayVars
=============================================================================
