------------------------------ MODULE Presence ------------------------------
(***************************************************************************)
(* Who is online.  PresenceService keeps three stores, one awaited call    *)
(* after the other and none of them in a transaction: the set of a user's  *)
(* sockets and the presence key in Redis, and the status in the database;  *)
(* ChatGateway tells the members of the user's rooms what it wrote.        *)
(*                                                                         *)
(* Each socket has a connect and a disconnect handler, which may run at    *)
(* the same time: the gateway listens for the disconnection before         *)
(* handleConnection has ended.  The socket:user keys are left out: nothing *)
(* reads them (getUserIdFromSocket has no caller).                         *)
(***************************************************************************)
EXTENDS Naturals, FiniteSets

CONSTANTS
  Users,
  Sockets,
  UserOf,      \* the user the socket's token names (WsJwtMiddleware)
  Chosen,      \* the statuses a user may choose
  Choosers,    \* bound: the sockets that send status updates
  Patched,     \* the statuses users give themselves by PATCH /users/me
  MaxCrashes   \* bound: restarts of the server

ASSUME PresenceAssumption ==
  /\ UserOf \in [Sockets -> Users]
  /\ Choosers \subseteq Sockets
  /\ Chosen \subseteq {"online", "away", "dnd"}
  /\ Patched \subseteq {"online", "away", "dnd", "offline"}
  /\ MaxCrashes \in Nat

VARIABLES
  link,        \* of a socket: "new", "open", "closed"
  connecting,  \* the next step of its handleConnection
  leaving,     \* the next step of its handleDisconnect
  event,       \* the handleStatusUpdate in progress; bound: one at a time
  sockets,     \* sockets:user:<id>, a set without a time to live
  presence,    \* presence:user:<id>, or "none"
  lease,       \* how old that key is: "fresh", "stale" (its 35 s nearly over)
  dbStatus,    \* users.status
  told,        \* what the user's rooms were told last
  crashes,
  patched,     \* history: users whose status was last written by a PATCH
  mixed,       \* history: users of whom two handlers ran at once, or one broke off
  cutShort     \* history: sockets whose own handlers overlapped or broke off

stores == <<sockets, presence, lease, dbStatus, told, patched>>
vars == <<link, connecting, leaving, event, sockets, presence, lease, dbStatus, told,
          patched, crashes, mixed, cutShort>>

-----------------------------------------------------------------------------
NoEvent == [pc |-> "idle", by |-> {}, status |-> "online"]
SocketsOf(u) == {s \in Sockets : UserOf[s] = u}
Open(u) == {s \in SocketsOf(u) : link[s] = "open"}

Busy(s) == connecting[s] # "idle" \/ leaving[s] # "idle" \/ s \in event.by
Quiet(u) == \A s \in SocketsOf(u) : ~Busy(s)

(* What a handler that starts overlaps with is history the properties use. *)
Starts(s) ==
  mixed' = IF Quiet(UserOf[s]) THEN mixed ELSE mixed \cup {UserOf[s]}

Init ==
  /\ link = [s \in Sockets |-> "new"]
  /\ connecting = [s \in Sockets |-> "idle"]
  /\ leaving = [s \in Sockets |-> "idle"]
  /\ event = NoEvent
  /\ sockets = [u \in Users |-> {}]
  /\ presence = [u \in Users |-> "none"]
  /\ lease = [u \in Users |-> "stale"]
  /\ dbStatus = [u \in Users |-> "offline"]
  /\ told = [u \in Users |-> "offline"]
  /\ patched = {}
  /\ crashes = 0
  /\ mixed = {}
  /\ cutShort = {}

-----------------------------------------------------------------------------
(* The calls of PresenceService on the stores.                             *)
SetKey(u, s) ==
  /\ presence' = [presence EXCEPT ![u] = s]
  /\ lease' = [lease EXCEPT ![u] = "fresh"]

SayOffline(u) == presence' = [presence EXCEPT ![u] = "offline"] /\ UNCHANGED lease
DropKey(u) ==
  /\ presence' = [presence EXCEPT ![u] = "none"]
  /\ lease' = [lease EXCEPT ![u] = "stale"]

OneLeft(u) == Cardinality(sockets[u]) <= 1
NoneLeft(u) == Cardinality(sockets[u]) = 0

KeepSocket(u, s) == sockets[u]
RemoveSocket(u, s) == sockets[u] \ {s}

SetDb(u, status) ==
  /\ dbStatus' = [dbStatus EXCEPT ![u] = status]
  /\ patched' = patched \ {u}

(* isOnline, and whether getPresence says anything.                        *)
IsOnline(u) == presence[u] # "none"

-----------------------------------------------------------------------------
(* handleConnection: userConnected's three writes, the user's rooms, and   *)
(* the broadcast.  What the handler goes on to read changes nothing.       *)
Connect(s) ==
  /\ link[s] = "new"
  /\ link' = [link EXCEPT ![s] = "open"]
  /\ connecting' = [connecting EXCEPT ![s] = "add_socket"]
  /\ Starts(s)
  /\ UNCHANGED <<leaving, event, stores, crashes, cutShort>>

ConnectStep(s, step, next) ==
  /\ connecting[s] = step
  /\ connecting' = [connecting EXCEPT ![s] = next]
  /\ UNCHANGED <<link, leaving, event, crashes, mixed, cutShort>>

AddSocket(s) ==
  /\ ConnectStep(s, "add_socket", "set_key")
  /\ sockets' = [sockets EXCEPT ![UserOf[s]] = @ \cup {s}]
  /\ UNCHANGED <<presence, lease, dbStatus, told, patched>>

SetOnlineKey(s) ==
  /\ ConnectStep(s, "set_key", "set_db")
  /\ SetKey(UserOf[s], "online")
  /\ UNCHANGED <<sockets, dbStatus, told, patched>>

SetOnlineDb(s) ==
  /\ ConnectStep(s, "set_db", "tell")
  /\ SetDb(UserOf[s], "online")
  /\ UNCHANGED <<sockets, presence, lease, told>>

TellOnline(s) ==
  /\ ConnectStep(s, "tell", "idle")
  /\ told' = [told EXCEPT ![UserOf[s]] = "online"]
  /\ UNCHANGED <<sockets, presence, lease, dbStatus, patched>>

-----------------------------------------------------------------------------
(* The disconnection, which starts handleDisconnect while handleConnection *)
(* or an event handler of the same socket may still be running.            *)
Disconnect(s) ==
  /\ link[s] = "open"
  /\ link' = [link EXCEPT ![s] = "closed"]
  /\ leaving' = [leaving EXCEPT ![s] = "remove_socket"]
  /\ Starts(s)
  /\ cutShort' = IF connecting[s] = "idle" THEN cutShort ELSE cutShort \cup {s}
  /\ UNCHANGED <<connecting, event, stores, crashes>>

(* A call of handleConnection fails: it disconnects the client itself,     *)
(* and is over when handleDisconnect starts.  Where the user has another   *)
(* socket, nothing takes back what was written before.                     *)
ConnectFails(s) ==
  /\ connecting[s] # "idle"
  /\ connecting' = [connecting EXCEPT ![s] = "idle"]
  /\ IF link[s] = "open"
     THEN /\ link' = [link EXCEPT ![s] = "closed"]
          /\ leaving' = [leaving EXCEPT ![s] = "remove_socket"]
     ELSE UNCHANGED <<link, leaving>>
  /\ mixed' = IF Open(UserOf[s]) \subseteq {s} THEN mixed ELSE mixed \cup {UserOf[s]}
  /\ UNCHANGED <<event, stores, crashes, cutShort>>

DisconnectStep(s, step, next) ==
  /\ leaving[s] = step
  /\ leaving' = [leaving EXCEPT ![s] = next]
  /\ UNCHANGED <<link, connecting, event, crashes, mixed, cutShort>>

RemoveFromSet(s) ==
  /\ DisconnectStep(s, "remove_socket", "count")
  /\ sockets' = [sockets EXCEPT ![UserOf[s]] = RemoveSocket(UserOf[s], s)]
  /\ UNCHANGED <<presence, lease, dbStatus, told, patched>>

CountSockets(s) ==
  /\ DisconnectStep(s, "count", IF NoneLeft(UserOf[s]) THEN "drop_key" ELSE "idle")
  /\ UNCHANGED stores

DeletePresence(s) ==
  /\ DisconnectStep(s, "drop_key", "set_db")
  /\ DropKey(UserOf[s])
  /\ UNCHANGED <<sockets, dbStatus, told, patched>>

SetOfflineDb(s) ==
  /\ DisconnectStep(s, "set_db", "tell")
  /\ SetDb(UserOf[s], "offline")
  /\ UNCHANGED <<sockets, presence, lease, told>>

TellOffline(s) ==
  /\ DisconnectStep(s, "tell", "idle")
  /\ told' = [told EXCEPT ![UserOf[s]] = "offline"]
  /\ UNCHANGED <<sockets, presence, lease, dbStatus, patched>>

DisconnectFails(s) ==
  /\ leaving[s] # "idle"
  /\ leaving' = [leaving EXCEPT ![s] = "idle"]
  /\ mixed' = mixed \cup {UserOf[s]}
  /\ cutShort' = cutShort \cup {s}
  /\ UNCHANGED <<link, connecting, event, stores, crashes>>

-----------------------------------------------------------------------------
(* status:update.  Where the key has lapsed setStatus returns without a    *)
(* word, and the handler tells the rooms all the same.                     *)
UpdateStatus(s, status) ==
  /\ link[s] = "open" /\ event.pc = "idle"
  /\ event' = [pc |-> IF presence[UserOf[s]] = "none" THEN "tell" ELSE "set_key",
               by |-> {s}, status |-> status]
  /\ Starts(s)
  /\ UNCHANGED <<link, connecting, leaving, stores, crashes, cutShort>>

StatusStep(s, step, next) ==
  /\ event.pc = step /\ event.by = {s}
  /\ event' = IF next = "idle" THEN NoEvent ELSE [event EXCEPT !.pc = next]
  /\ UNCHANGED <<link, connecting, leaving, crashes, mixed, cutShort>>

StatusKey(s) ==
  /\ StatusStep(s, "set_key", "set_db")
  /\ SetKey(UserOf[s], event.status)
  /\ UNCHANGED <<sockets, dbStatus, told, patched>>

StatusDb(s) ==
  /\ StatusStep(s, "set_db", "tell")
  /\ SetDb(UserOf[s], event.status)
  /\ UNCHANGED <<sockets, presence, lease, told>>

TellStatus(s) ==
  /\ StatusStep(s, "tell", "idle")
  /\ told' = [told EXCEPT ![UserOf[s]] = event.status]
  /\ UNCHANGED <<sockets, presence, lease, dbStatus, patched>>

-----------------------------------------------------------------------------
(* PATCH /users/me writes the status to the database alone.                *)
PatchStatus(u, status) ==
  /\ dbStatus' = [dbStatus EXCEPT ![u] = status]
  /\ patched' = patched \cup {u}
  /\ UNCHANGED <<link, connecting, leaving, event, sockets, presence, lease, told,
                 crashes, mixed, cutShort>>

-----------------------------------------------------------------------------
(* The heartbeat renews the key that is there; it writes no new one.       *)
AnyHeartbeat(u) == TRUE
Alive(u) == Open(u) # {}

Heartbeat(u) ==
  /\ Alive(u)
  /\ IsOnline(u)
  /\ lease' = [lease EXCEPT ![u] = "fresh"]
  /\ UNCHANGED <<link, connecting, leaving, event, sockets, presence, dbStatus, told,
                 patched, crashes, mixed, cutShort>>

(* Redis: the 35 seconds pass and the key is gone.                         *)
Lapse(u) ==
  /\ presence[u] # "none"
  /\ IF lease[u] = "fresh"
     THEN lease' = [lease EXCEPT ![u] = "stale"] /\ UNCHANGED presence
     ELSE DropKey(u)
  /\ UNCHANGED <<link, connecting, leaving, event, sockets, dbStatus, told,
                 patched, crashes, mixed, cutShort>>

(* The server stops and starts again: no handler of its sockets runs on.   *)
Crash ==
  /\ crashes < MaxCrashes
  /\ crashes' = crashes + 1
  /\ LET hit == {s \in Sockets : link[s] = "open" \/ Busy(s)}
     IN /\ hit # {}
        /\ cutShort' = cutShort \cup hit
        /\ mixed' = mixed \cup {UserOf[s] : s \in hit}
        /\ link' = [s \in Sockets |-> IF s \in hit THEN "closed" ELSE link[s]]
  /\ connecting' = [s \in Sockets |-> "idle"]
  /\ leaving' = [s \in Sockets |-> "idle"]
  /\ event' = NoEvent
  /\ UNCHANGED stores

-----------------------------------------------------------------------------
ConnectNext(s) ==
  AddSocket(s) \/ SetOnlineKey(s) \/ SetOnlineDb(s) \/ TellOnline(s)
DisconnectNext(s) ==
  \/ RemoveFromSet(s) \/ CountSockets(s) \/ DeletePresence(s)
  \/ SetOfflineDb(s) \/ TellOffline(s)
StatusNext(s) == StatusKey(s) \/ StatusDb(s) \/ TellStatus(s)

Next ==
  \/ \E s \in Sockets :
       \/ Connect(s) \/ ConnectNext(s) \/ ConnectFails(s)
       \/ Disconnect(s) \/ DisconnectNext(s) \/ DisconnectFails(s)
       \/ StatusNext(s)
  \/ \E s \in Choosers, status \in Chosen : UpdateStatus(s, status)
  \/ \E u \in Users : Heartbeat(u) \/ Lapse(u) \/ \E status \in Patched : PatchStatus(u, status)
  \/ Crash

(* An awaited call is answered, and Redis lets a key lapse that nobody     *)
(* renews; no client is bound to connect, to leave or to send heartbeats.  *)
Fairness ==
  /\ \A s \in Sockets : WF_vars(ConnectNext(s)) /\ WF_vars(DisconnectNext(s))
                          /\ WF_vars(StatusNext(s))
  /\ \A u \in Users : WF_vars(Lapse(u))

Spec == Init /\ [][Next]_vars /\ Fairness

-----------------------------------------------------------------------------
TypeOK ==
  /\ link \in [Sockets -> {"new", "open", "closed"}]
  /\ connecting \in [Sockets -> {"idle", "add_socket", "set_key", "set_db", "tell"}]
  /\ leaving \in [Sockets -> {"idle", "remove_socket", "count", "drop_key", "set_db", "tell"}]
  /\ event \in [pc : {"idle", "set_key", "set_db", "tell"}, by : SUBSET Sockets,
                status : Chosen \cup {"online"}]
  /\ sockets \in [Users -> SUBSET Sockets]
  /\ presence \in [Users -> Chosen \cup {"none", "online"}]
  /\ lease \in [Users -> {"fresh", "stale"}]
  /\ dbStatus \in [Users -> Chosen \cup Patched \cup {"online", "offline"}]
  /\ told \in [Users -> Chosen \cup {"online", "offline"}]
  /\ patched \in SUBSET Users
  /\ crashes \in 0..MaxCrashes
  /\ mixed \in SUBSET Users
  /\ cutShort \in SUBSET Sockets

(* The set of a user's sockets, on whose count going offline depends, has  *)
(* exactly the open ones, whatever other sockets of the user do meanwhile; *)
(* only a socket that was dropped while handleConnection was running, or   *)
(* whose handler broke off, may stay in it, and then for good.             *)
SocketsCounted ==
  \A s \in Sockets :
    connecting[s] = "idle" /\ leaving[s] = "idle" /\ s \notin cutShort =>
      (s \in sockets[UserOf[s]] <=> link[s] = "open")

(* Where no two handlers of a user overlapped and none broke off, failed   *)
(* connections without another open socket included, the stores agree once *)
(* the user's handlers are done: offline in the database exactly when no   *)
(* socket is open, no presence key then, the status of the key in the      *)
(* database, and the rooms told of it (after a key has lapsed they are     *)
(* told of statuses that were not stored).  What a PATCH puts into the     *)
(* database stays until the next connect, disconnect or status update is   *)
(* written, and nobody is told.                                            *)
PresenceAgrees ==
  \A u \in Users : Quiet(u) /\ u \notin mixed =>
    /\ u \in patched \/ (dbStatus[u] = "offline" <=> Open(u) = {})
    /\ IsOnline(u) => told[u] = presence[u] /\ (u \in patched \/ dbStatus[u] = presence[u])
    /\ Open(u) = {} => ~IsOnline(u) /\ told[u] = "offline"

(* Whatever overlaps, fails or crashes, and though the set of sockets and  *)
(* the database may then say otherwise for good, a user who stays away is  *)
(* in the end without a presence key, so that messages are pushed again    *)
(* (isOnline).                                                             *)
AwayIsNoticed ==
  \A u \in Users : <>[](Open(u) = {}) => <>[](~IsOnline(u))
=============================================================================
