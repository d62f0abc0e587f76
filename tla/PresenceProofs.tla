--------------------------- MODULE PresenceProofs ---------------------------
(***************************************************************************)
(* For any number of users, sockets and restarts: the types, that the set  *)
(* of a user's sockets, on whose count going offline depends, has exactly  *)
(* the open ones, and that the three stores agree where no two handlers of *)
(* a user overlapped and none broke off.                                   *)
(*                                                                         *)
(* SocketsCounted speaks of sockets without a handler in progress; what    *)
(* makes it inductive is where in its handlers a socket enters the set and *)
(* leaves it (Counted), and that handlers of other sockets, of the same    *)
(* user too, neither add it nor take it out.                               *)
(***************************************************************************)
EXTENDS Presence, FiniteSetTheorems, TLAPS

SocketTypes ==
  /\ link \in [Sockets -> {"new", "open", "closed"}]
  /\ connecting \in [Sockets -> {"idle", "add_socket", "set_key", "set_db", "tell"}]
  /\ leaving \in [Sockets -> {"idle", "remove_socket", "count", "drop_key", "set_db", "tell"}]
  /\ sockets \in [Users -> SUBSET Sockets]
  /\ cutShort \in SUBSET Sockets

InSet(s) == s \in sockets[UserOf[s]]

(* Where a socket stands in its handlers, and whether it is in the set.    *)
Counted(s) == s \notin cutShort =>
  /\ link[s] = "new" => connecting[s] = "idle" /\ leaving[s] = "idle" /\ ~InSet(s)
  /\ link[s] = "open" => leaving[s] = "idle" /\ (connecting[s] # "add_socket" => InSet(s))
  /\ link[s] = "closed" => connecting[s] = "idle" /\ (leaving[s] # "remove_socket" => ~InSet(s))

SocketsInv == SocketTypes /\ \A s \in Sockets : Counted(s)

-----------------------------------------------------------------------------
(* The types, where a handler moves on.                                    *)
LEMMA TypeStep == TypeOK /\ [Next]_vars => TypeOK'
<1> SUFFICES ASSUME TypeOK, [Next]_vars PROVE TypeOK'
  OBVIOUS
<1> USE PresenceAssumption
<1>1. ASSUME NEW s \in Sockets, Connect(s) \/ ConnectFails(s) PROVE TypeOK'
  BY <1>1 DEF TypeOK, Connect, ConnectFails, Starts, Open, SocketsOf, stores
<1>2. ASSUME NEW s \in Sockets, ConnectNext(s) PROVE TypeOK'
  BY <1>2 DEF TypeOK, ConnectNext, ConnectStep, AddSocket, SetOnlineKey, SetOnlineDb,
     TellOnline, SetKey, SetDb
<1>3. ASSUME NEW s \in Sockets, Disconnect(s) \/ DisconnectFails(s) PROVE TypeOK'
  BY <1>3 DEF TypeOK, Disconnect, DisconnectFails, Starts, stores
<1>4. ASSUME NEW s \in Sockets, DisconnectNext(s) PROVE TypeOK'
  BY <1>4 DEF TypeOK, DisconnectNext, DisconnectStep, RemoveFromSet, RemoveSocket,
     CountSockets, DeletePresence, SetOfflineDb, TellOffline, DropKey, SetDb, stores
<1>5. ASSUME NEW s \in Sockets, NEW status \in Chosen, UpdateStatus(s, status)
      PROVE  TypeOK'
  BY <1>5 DEF TypeOK, UpdateStatus, Starts, stores
<1>6. ASSUME NEW s \in Sockets, StatusNext(s) PROVE TypeOK'
  BY <1>6 DEF TypeOK, StatusNext, StatusKey, StatusDb, TellStatus, StatusStep, SetKey,
     SetDb, NoEvent
<1>7. ASSUME NEW u \in Users, Heartbeat(u) \/ Lapse(u) PROVE TypeOK'
  BY <1>7 DEF TypeOK, Heartbeat, Lapse, DropKey
<1>8. ASSUME NEW u \in Users, NEW status \in Patched, PatchStatus(u, status) PROVE TypeOK'
  BY <1>8 DEF TypeOK, PatchStatus
<1>9. CASE Crash
  BY <1>9 DEF TypeOK, Crash, NoEvent, stores
<1>10. CASE UNCHANGED vars
  BY <1>10 DEF TypeOK, vars
<1> QED
  BY <1>1, <1>2, <1>3, <1>4, <1>5, <1>6, <1>7, <1>8, <1>9, <1>10 DEF Next

(* The steps of the handlers, the three stores and the history keep their  *)
(* types; restarts stay below their bound.                                 *)
THEOREM TypeCorrect == Spec => []TypeOK
<1>1. Init => TypeOK
  BY PresenceAssumption DEF Init, TypeOK, NoEvent
<1> QED
  BY <1>1, TypeStep, PTL DEF Spec

-----------------------------------------------------------------------------
(* A step that leaves a socket where it was leaves it counted.             *)
LEMMA OthersCounted ==
  ASSUME NEW s \in Sockets, Counted(s), link'[s] = link[s],
         connecting'[s] = connecting[s], leaving'[s] = leaving[s],
         InSet(s)' <=> InSet(s), cutShort \subseteq cutShort'
  PROVE  Counted(s)'
BY DEF Counted

(* The handler of a connection, and what ends it.                          *)
LEMMA ConnectKeeps ==
  ASSUME SocketsInv, NEW s \in Sockets,
         Connect(s) \/ ConnectNext(s) \/ ConnectFails(s)
  PROVE  SocketsInv'
<1> USE PresenceAssumption
<1>1. SocketTypes'
  BY DEF SocketsInv, SocketTypes, Connect, ConnectNext, ConnectFails, ConnectStep,
         AddSocket, SetOnlineKey, SetOnlineDb, TellOnline, stores
<1>2. Counted(s)'
  <2>1. CASE Connect(s)
    BY <2>1 DEF SocketsInv, SocketTypes, Counted, InSet, Connect, stores
  <2>2. CASE ConnectNext(s)
    BY <2>2 DEF SocketsInv, SocketTypes, Counted, InSet, ConnectNext, ConnectStep,
         AddSocket, SetOnlineKey, SetOnlineDb, TellOnline
  <2>3. CASE ConnectFails(s)
    BY <2>3 DEF SocketsInv, SocketTypes, Counted, InSet, ConnectFails, stores
  <2> QED BY <2>1, <2>2, <2>3
<1>3. ASSUME NEW x \in Sockets \ {s} PROVE Counted(x)'
  <2>1. /\ link'[x] = link[x] /\ connecting'[x] = connecting[x]
        /\ leaving'[x] = leaving[x] /\ cutShort' = cutShort
    BY <1>3 DEF SocketsInv, SocketTypes, Connect, ConnectNext, ConnectFails,
       ConnectStep, AddSocket, SetOnlineKey, SetOnlineDb, TellOnline, stores
  <2>2. InSet(x)' <=> InSet(x)
    BY <1>3 DEF SocketsInv, SocketTypes, InSet, Connect, ConnectNext, ConnectFails,
       ConnectStep, AddSocket, SetOnlineKey, SetOnlineDb, TellOnline, stores
  <2> QED BY <2>1, <2>2, OthersCounted DEF SocketsInv
<1> QED
  BY <1>1, <1>2, <1>3 DEF SocketsInv

(* The handler of a disconnection, and what ends it.                       *)
LEMMA DisconnectKeeps ==
  ASSUME SocketsInv, NEW s \in Sockets,
         Disconnect(s) \/ DisconnectNext(s) \/ DisconnectFails(s)
  PROVE  SocketsInv'
<1> USE PresenceAssumption
<1>1. SocketTypes'
  BY DEF SocketsInv, SocketTypes, Disconnect, DisconnectNext, DisconnectFails,
     DisconnectStep, RemoveFromSet, RemoveSocket, CountSockets, DeletePresence,
     SetOfflineDb, TellOffline, stores
<1>2. Counted(s)'
  <2>1. CASE Disconnect(s)
    BY <2>1 DEF SocketsInv, SocketTypes, Counted, InSet, Disconnect, stores
  <2>2. CASE DisconnectNext(s)
    BY <2>2 DEF SocketsInv, SocketTypes, Counted, InSet, DisconnectNext,
       DisconnectStep, RemoveFromSet, RemoveSocket, CountSockets, DeletePresence,
       SetOfflineDb, TellOffline, stores
  <2>3. CASE DisconnectFails(s)
    BY <2>3 DEF SocketsInv, SocketTypes, Counted, DisconnectFails
  <2> QED BY <2>1, <2>2, <2>3
<1>3. ASSUME NEW x \in Sockets \ {s} PROVE Counted(x)'
  <2>1. /\ link'[x] = link[x] /\ connecting'[x] = connecting[x]
        /\ leaving'[x] = leaving[x] /\ cutShort \subseteq cutShort'
    BY <1>3 DEF SocketsInv, SocketTypes, Disconnect, DisconnectNext, DisconnectFails,
       DisconnectStep, RemoveFromSet, CountSockets, DeletePresence, SetOfflineDb,
       TellOffline, stores
  <2>2. InSet(x)' <=> InSet(x)
    BY <1>3 DEF SocketsInv, SocketTypes, InSet, Disconnect, DisconnectNext,
       DisconnectFails, DisconnectStep, RemoveFromSet, RemoveSocket, CountSockets,
       DeletePresence, SetOfflineDb, TellOffline, stores
  <2> QED BY <2>1, <2>2, OthersCounted DEF SocketsInv
<1> QED
  BY <1>1, <1>2, <1>3 DEF SocketsInv

(* A restart cuts short every socket that is open or has a handler.        *)
LEMMA CrashKeeps == ASSUME SocketsInv, Crash PROVE SocketsInv'
<1>1. SocketTypes'
  BY DEF SocketsInv, SocketTypes, Crash, stores
<1>2. ASSUME NEW s \in Sockets PROVE Counted(s)'
  <2>1. CASE link[s] = "open" \/ Busy(s)
    BY <2>1 DEF Counted, Crash
  <2>2. CASE ~(link[s] = "open" \/ Busy(s))
    <3>1. /\ link'[s] = link[s] /\ connecting'[s] = connecting[s]
          /\ leaving'[s] = leaving[s] /\ sockets' = sockets /\ cutShort \subseteq cutShort'
      BY <2>2 DEF Crash, Busy, stores
    <3> QED BY <3>1, OthersCounted DEF SocketsInv, InSet
  <2> QED BY <2>1, <2>2
<1> QED
  BY <1>1, <1>2 DEF SocketsInv

(* No other step touches a socket, its handlers or the set.                *)
LEMMA RestKeeps ==
  ASSUME SocketsInv, UNCHANGED <<link, connecting, leaving, sockets, cutShort>>
  PROVE  SocketsInv'
BY DEF SocketsInv, SocketTypes, Counted, InSet

(* Every step keeps the invariant.                                         *)
LEMMA SocketsStep == SocketsInv /\ [Next]_vars => SocketsInv'
<1> SUFFICES ASSUME SocketsInv, [Next]_vars PROVE SocketsInv'
  OBVIOUS
<1>1. CASE \E s \in Sockets : \/ Connect(s) \/ ConnectNext(s) \/ ConnectFails(s)
                              \/ Disconnect(s) \/ DisconnectNext(s) \/ DisconnectFails(s)
  BY <1>1, ConnectKeeps, DisconnectKeeps
<1>2. CASE \E s \in Sockets : StatusNext(s)
  BY <1>2, RestKeeps
     DEF StatusNext, StatusKey, StatusDb, TellStatus, StatusStep
<1>3. CASE \E s \in Choosers, status \in Chosen : UpdateStatus(s, status)
  BY <1>3, RestKeeps DEF UpdateStatus, stores
<1>4. CASE \E u \in Users : Heartbeat(u) \/ Lapse(u)
                            \/ \E status \in Patched : PatchStatus(u, status)
  BY <1>4, RestKeeps DEF Heartbeat, Lapse, PatchStatus
<1>5. CASE Crash
  BY <1>5, CrashKeeps
<1>6. CASE UNCHANGED vars
  BY <1>6, RestKeeps DEF vars
<1> QED
  BY <1>1, <1>2, <1>3, <1>4, <1>5, <1>6 DEF Next

(* At the start no socket is open and no set has one.                      *)
LEMMA SocketsInit == Init => SocketsInv
BY PresenceAssumption DEF Init, SocketsInv, SocketTypes, Counted, InSet

(* The set has a socket exactly while it is open, but for those dropped in *)
(* their own handler of the connection and those whose handler broke off   *)
(* (userConnected, userDisconnected).                                      *)
THEOREM OpenSocketsCounted == Spec => []SocketsCounted
<1>1. SocketsInv => SocketsCounted
  BY DEF SocketsInv, SocketTypes, Counted, InSet, SocketsCounted
<1> QED
  BY SocketsInit, SocketsStep, <1>1, PTL DEF Spec

-----------------------------------------------------------------------------
(* Where the stores agree.  Of a user of whom no handlers overlapped or    *)
(* broke off at most one handler runs (Solo), and how far it is says what  *)
(* the stores hold already: Connects, Leaves and Updates.                  *)
Settled(u) == u \in patched \/ dbStatus[u] # "offline"
KeyTold(u) ==
  IsOnline(u) => told[u] = presence[u] /\ (u \in patched \/ dbStatus[u] = presence[u])

Agrees(u) ==
  /\ u \in patched \/ (dbStatus[u] = "offline" <=> Open(u) = {})
  /\ KeyTold(u)
  /\ Open(u) = {} => ~IsOnline(u) /\ told[u] = "offline"

OneHandler(s) ==
  /\ connecting[s] # "idle" => leaving[s] = "idle" /\ s \notin event.by
  /\ leaving[s] # "idle" => s \notin event.by

Solo(s) == OneHandler(s) /\ \A t \in SocketsOf(UserOf[s]) \ {s} : ~Busy(t)

Connects(s, u) ==
  /\ connecting[s] \in {"set_db", "tell"} => presence[u] \in {"none", "online"}
  /\ connecting[s] = "tell" => u \in patched \/ dbStatus[u] = "online"

Leaves(s, u) ==
  /\ leaving[s] \in {"remove_socket", "count"} /\ Open(u) # {} => Settled(u) /\ KeyTold(u)
  /\ leaving[s] \in {"drop_key", "set_db", "tell"} => Open(u) = {}
  /\ leaving[s] \in {"set_db", "tell"} => ~IsOnline(u)
  /\ leaving[s] = "tell" => u \in patched \/ dbStatus[u] = "offline"

Updates(s, u) == s \in event.by =>
  /\ link[s] = "open" /\ Settled(u) /\ event.status # "offline"
  /\ event.pc \in {"set_db", "tell"} /\ IsOnline(u) => presence[u] = event.status
  /\ event.pc = "tell" /\ IsOnline(u) => u \in patched \/ dbStatus[u] = event.status

UserOK(u) ==
  /\ \A s \in SocketsOf(u) : Busy(s) => Solo(s)
  /\ \A s \in SocketsOf(u) : Connects(s, u) /\ Leaves(s, u) /\ Updates(s, u)
  /\ Quiet(u) => Agrees(u)

(* The sets are finite and hold sockets of their user; a socket cut short  *)
(* is one of a user whose handlers overlapped or broke off.                *)
SetsInv ==
  /\ \A u \in Users : sockets[u] \subseteq SocketsOf(u) /\ IsFiniteSet(sockets[u])
  /\ \A s \in cutShort : UserOf[s] \in mixed
  /\ event.pc = "idle" => event.by = {}
  /\ \A s \in event.by : event.by = {s}

StoresInv == TypeOK /\ SocketsInv /\ SetsInv /\ \A u \in Users \ mixed : UserOK(u)

-----------------------------------------------------------------------------
(* Types, counted sockets and sets last by themselves.                     *)
LEMMA SetsStep ==
  ASSUME StoresInv, [Next]_vars
  PROVE  TypeOK' /\ SocketsInv' /\ SetsInv' /\ mixed \subseteq mixed'
<1> USE PresenceAssumption
<1>1. TypeOK' /\ SocketsInv'
  BY TypeStep, SocketsStep DEF StoresInv
<1>2. mixed \subseteq mixed'
  BY DEF Next, Connect, ConnectNext, ConnectFails, Disconnect, DisconnectNext, DisconnectFails,
     StatusNext, UpdateStatus, Heartbeat, Lapse, PatchStatus, Crash, Starts, ConnectStep,
     AddSocket, SetOnlineKey, SetOnlineDb, TellOnline, DisconnectStep, RemoveFromSet,
     CountSockets, DeletePresence, SetOfflineDb, TellOffline, StatusStep, StatusKey, StatusDb,
     TellStatus, vars
<1>3. \A u \in Users : sockets'[u] \subseteq SocketsOf(u) /\ IsFiniteSet(sockets'[u])
  <2>1. ASSUME NEW s \in Sockets, AddSocket(s) PROVE <1>3!:
    <3>1. \A u \in Users : \/ sockets'[u] = sockets[u]
                           \/ u = UserOf[s] /\ sockets'[u] = sockets[u] \cup {s}
      BY <2>1 DEF StoresInv, TypeOK, AddSocket
    <3>2. ASSUME NEW u \in Users, u = UserOf[s], sockets'[u] = sockets[u] \cup {s}
          PROVE  sockets'[u] \subseteq SocketsOf(u) /\ IsFiniteSet(sockets'[u])
      <4>1. sockets[u] \subseteq SocketsOf(u) /\ IsFiniteSet(sockets[u])
        BY DEF StoresInv, SetsInv
      <4>2. IsFiniteSet(sockets[u] \cup {s})
        BY <4>1, FS_AddElement
      <4> QED
        BY <3>2, <4>1, <4>2 DEF SocketsOf
    <3> QED
      BY <3>1, <3>2 DEF StoresInv, SetsInv
  <2>2. ASSUME NEW s \in Sockets, RemoveFromSet(s) PROVE <1>3!:
    <3>1. \A u \in Users : sockets'[u] = sockets[u] \/ sockets'[u] = sockets[u] \ {s}
      BY <2>2 DEF StoresInv, TypeOK, RemoveFromSet, RemoveSocket
    <3> QED
      BY <3>1, FS_RemoveElement DEF StoresInv, SetsInv, SocketsOf
  <2>3. CASE UNCHANGED sockets
    BY <2>3 DEF StoresInv, SetsInv
  <2> QED
    BY <2>1, <2>2, <2>3 DEF Next, Connect, ConnectNext, ConnectFails, Disconnect, DisconnectNext,
       DisconnectFails, StatusNext, UpdateStatus, Heartbeat, Lapse, PatchStatus, Crash,
       SetOnlineKey, SetOnlineDb, TellOnline, CountSockets, DeletePresence, SetOfflineDb,
       TellOffline, StatusKey, StatusDb, TellStatus, vars, stores
<1>4. \A s \in cutShort' : UserOf[s] \in mixed'
  <2>1. ASSUME NEW s \in Sockets, Disconnect(s) PROVE <1>4!:
    <3>1. connecting[s] # "idle" => ~Quiet(UserOf[s])
      BY DEF Quiet, SocketsOf, Busy
    <3> QED
      BY <2>1, <3>1 DEF StoresInv, SetsInv, Disconnect, Starts
  <2>2. ASSUME NEW s \in Sockets, DisconnectFails(s) PROVE <1>4!:
    BY <2>2 DEF StoresInv, SetsInv, DisconnectFails
  <2>3. CASE Crash
    BY <2>3 DEF StoresInv, SetsInv, Crash
  <2>4. CASE UNCHANGED cutShort
    BY <1>2, <2>4 DEF StoresInv, SetsInv
  <2> QED
    BY <2>1, <2>2, <2>3, <2>4 DEF Next, Connect, ConnectNext, ConnectFails, DisconnectNext,
       StatusNext, UpdateStatus, Heartbeat, Lapse, PatchStatus, ConnectStep, AddSocket,
       SetOnlineKey, SetOnlineDb, TellOnline, DisconnectStep, RemoveFromSet, CountSockets,
       DeletePresence, SetOfflineDb, TellOffline, StatusStep, StatusKey, StatusDb, TellStatus,
       vars
<1>5. (event'.pc = "idle" => event'.by = {}) /\ \A s \in event'.by : event'.by = {s}
  <2>1. ASSUME NEW s \in Sockets, NEW status \in Chosen, UpdateStatus(s, status) PROVE <1>5!:
    BY <2>1 DEF UpdateStatus
  <2>2. ASSUME NEW s \in Sockets, StatusNext(s) PROVE <1>5!:
    BY <2>2 DEF StoresInv, TypeOK, SetsInv, StatusNext, StatusStep, StatusKey, StatusDb,
       TellStatus, NoEvent
  <2>3. CASE Crash
    BY <2>3 DEF Crash, NoEvent
  <2>4. CASE UNCHANGED event
    BY <2>4 DEF StoresInv, SetsInv
  <2> QED
    BY <2>1, <2>2, <2>3, <2>4 DEF Next, Connect, ConnectNext, ConnectFails, Disconnect,
       DisconnectNext, DisconnectFails, Heartbeat, Lapse, PatchStatus, ConnectStep, AddSocket,
       SetOnlineKey, SetOnlineDb, TellOnline, DisconnectStep, RemoveFromSet, CountSockets,
       DeletePresence, SetOfflineDb, TellOffline, vars
<1> QED
  BY <1>1, <1>2, <1>3, <1>4, <1>5 DEF SetsInv

(* A step that is not about u.                                             *)
Apart(u) ==
  /\ \A s \in SocketsOf(u) : /\ link'[s] = link[s] /\ connecting'[s] = connecting[s]
                             /\ leaving'[s] = leaving[s]
                             /\ s \in event'.by <=> s \in event.by
                             /\ s \in event.by => event' = event
  /\ presence'[u] = presence[u] /\ dbStatus'[u] = dbStatus[u] /\ told'[u] = told[u]
  /\ u \in patched' <=> u \in patched

(* It leaves u in order.                                                   *)
LEMMA ApartKeeps == ASSUME NEW u \in Users, UserOK(u), Apart(u) PROVE UserOK(u)'
<1>1. Open(u)' = Open(u) /\ (IsOnline(u)' <=> IsOnline(u))
  BY DEF Open, SocketsOf, IsOnline, Apart
<1>2. (Settled(u)' <=> Settled(u)) /\ (KeyTold(u)' <=> KeyTold(u)) /\ (Agrees(u)' <=> Agrees(u))
  BY <1>1 DEF Settled, KeyTold, Agrees, Apart
<1>3. \A s \in SocketsOf(u) : Busy(s)' <=> Busy(s)
  BY DEF Apart, Busy
<1>4. Quiet(u)' <=> Quiet(u)
  BY <1>3 DEF Quiet, SocketsOf
<1>5. ASSUME NEW s \in SocketsOf(u), Busy(s)' PROVE Solo(s)'
  <2>1. Solo(s) /\ UserOf[s] = u /\ SocketsOf(u)' = SocketsOf(u)
    BY <1>3, <1>5 DEF UserOK, SocketsOf
  <2> QED
    BY <1>3, <2>1 DEF Solo, OneHandler, Apart
<1>6. ASSUME NEW s \in SocketsOf(u) PROVE Connects(s, u)' /\ Leaves(s, u)' /\ Updates(s, u)'
  BY <1>1, <1>2 DEF UserOK, Connects, Leaves, Updates, Apart
<1>7. SocketsOf(u)' = SocketsOf(u)
  BY DEF SocketsOf
<1> QED
  BY <1>2, <1>4, <1>5, <1>6, <1>7 DEF UserOK

(* A step of the socket s alone leaves its user in order, if no other      *)
(* socket of the user has a handler.                                       *)
LEMMA SoloKeeps ==
  ASSUME NEW u \in Users, NEW s \in SocketsOf(u), OneHandler(s)',
         \A t \in SocketsOf(u) \ {s} : ~Busy(t)',
         Connects(s, u)', Leaves(s, u)', Updates(s, u)', ~Busy(s)' => Agrees(u)'
  PROVE  UserOK(u)'
<1>1. SocketsOf(u)' = SocketsOf(u) /\ UserOf[s] = u
  BY DEF SocketsOf
<1>2. ASSUME NEW t \in SocketsOf(u) \ {s}
      PROVE  Connects(t, u)' /\ Leaves(t, u)' /\ Updates(t, u)'
  BY <1>2 DEF Busy, Connects, Leaves, Updates
<1>3. \A t \in SocketsOf(u) : Busy(t)' => Solo(t)'
  BY <1>1 DEF Solo
<1>4. Quiet(u)' => Agrees(u)'
  BY <1>1 DEF Quiet
<1> QED
  BY <1>1, <1>2, <1>3, <1>4 DEF UserOK

-----------------------------------------------------------------------------
(* What a socket does concerns no other user.                              *)
LEMMA OtherUsers ==
  ASSUME StoresInv, NEW s \in Sockets, NEW u \in Users, UserOf[s] # u,
         \/ Connect(s) \/ ConnectNext(s) \/ ConnectFails(s)
         \/ Disconnect(s) \/ DisconnectNext(s) \/ DisconnectFails(s)
         \/ StatusNext(s) \/ \E status \in Chosen : UpdateStatus(s, status)
  PROVE  Apart(u)
<1> USE PresenceAssumption DEF StoresInv, TypeOK
<1>1. s \notin SocketsOf(u)
  BY DEF SocketsOf
<1>2. CASE Connect(s) \/ ConnectFails(s) \/ Disconnect(s) \/ DisconnectFails(s)
  BY <1>1, <1>2 DEF Apart, SocketsOf, Connect, ConnectFails, Disconnect, DisconnectFails, stores
<1>3. CASE ConnectNext(s)
  BY <1>1, <1>3 DEF Apart, SocketsOf, ConnectNext, ConnectStep, AddSocket, SetOnlineKey,
     SetOnlineDb, TellOnline, SetKey, SetDb
<1>4. CASE DisconnectNext(s)
  BY <1>1, <1>4 DEF Apart, SocketsOf, DisconnectNext, DisconnectStep, RemoveFromSet,
     CountSockets, DeletePresence, SetOfflineDb, TellOffline, DropKey, SetDb, stores
<1>5. CASE StatusNext(s)
  BY <1>1, <1>5 DEF Apart, SocketsOf, StatusNext, StatusStep, StatusKey, StatusDb, TellStatus,
     SetKey, SetDb, NoEvent
<1>6. ASSUME NEW status \in Chosen, UpdateStatus(s, status) PROVE Apart(u)
  BY <1>1, <1>6 DEF Apart, SocketsOf, UpdateStatus, stores, SetsInv
<1> QED
  BY <1>2, <1>3, <1>4, <1>5, <1>6

(* A handler of a user without overlaps runs alone, on a socket that is    *)
(* where its handlers say.                                                 *)
LEMMA HandlerAlone ==
  ASSUME StoresInv, NEW s \in Sockets, UserOf[s] \notin mixed, Busy(s)
  PROVE  /\ UserOf[s] \in Users /\ s \in SocketsOf(UserOf[s])
         /\ UserOK(UserOf[s]) /\ OneHandler(s)
         /\ \A t \in SocketsOf(UserOf[s]) \ {s} : ~Busy(t)
         /\ Connects(s, UserOf[s]) /\ Leaves(s, UserOf[s]) /\ Updates(s, UserOf[s])
         /\ connecting[s] # "idle" => link[s] = "open"
         /\ leaving[s] # "idle" => link[s] = "closed"
<1>1. UserOf[s] \in Users /\ s \in SocketsOf(UserOf[s]) /\ s \notin cutShort
  BY PresenceAssumption DEF SocketsOf, StoresInv, SetsInv
<1>2. UserOK(UserOf[s]) /\ Counted(s)
  BY <1>1 DEF StoresInv, SocketsInv
<1>3. link[s] \in {"new", "open", "closed"}
  BY DEF StoresInv, TypeOK
<1> QED
  BY <1>1, <1>2, <1>3 DEF UserOK, Solo, Counted

(* Where a handler starts without overlap, none runs.                      *)
LEMMA StartsQuiet ==
  ASSUME StoresInv, NEW s \in Sockets, Starts(s), UserOf[s] \notin mixed'
  PROVE  /\ UserOf[s] \in Users /\ s \in SocketsOf(UserOf[s]) /\ UserOf[s] \notin mixed
         /\ UserOK(UserOf[s]) /\ Agrees(UserOf[s]) /\ s \notin cutShort
         /\ \A t \in SocketsOf(UserOf[s]) : ~Busy(t)
<1>1. UserOf[s] \in Users /\ s \in SocketsOf(UserOf[s])
  BY PresenceAssumption DEF SocketsOf
<1>2. Quiet(UserOf[s]) /\ UserOf[s] \notin mixed
  BY DEF Starts
<1> QED
  BY <1>1, <1>2 DEF StoresInv, SetsInv, UserOK, Quiet

(* The set of a user's sockets has the open ones when it is counted.       *)
LEMMA CountIsRight ==
  ASSUME StoresInv, NEW s \in Sockets, UserOf[s] \notin mixed, leaving[s] = "count"
  PROVE  NoneLeft(UserOf[s]) <=> Open(UserOf[s]) = {}
<1> DEFINE u == UserOf[s]
<1>1. /\ u \in Users /\ s \in SocketsOf(u) /\ \A t \in SocketsOf(u) \ {s} : ~Busy(t)
      /\ link[s] = "closed"
  BY HandlerAlone DEF Busy
<1>2. ASSUME NEW t \in SocketsOf(u) PROVE t \in sockets[u] <=> link[t] = "open"
  <2>1. t \in Sockets /\ UserOf[t] = u /\ t \notin cutShort /\ Counted(t)
        /\ link[t] \in {"new", "open", "closed"}
    BY DEF SocketsOf, StoresInv, SetsInv, SocketsInv, TypeOK
  <2>2. CASE t = s
    BY <1>1, <2>1, <2>2 DEF Counted, InSet
  <2>3. CASE t # s
    <3>1. connecting[t] = "idle" /\ leaving[t] = "idle"
      BY <1>1, <2>3 DEF Busy
    <3> QED
      BY <2>1, <3>1 DEF Counted, InSet
  <2> QED
    BY <2>2, <2>3
<1>3. sockets[u] \subseteq SocketsOf(u) /\ IsFiniteSet(sockets[u])
  BY <1>1 DEF StoresInv, SetsInv
<1>4. sockets[u] = {} <=> Open(u) = {}
  BY <1>2, <1>3 DEF Open
<1> QED
  BY <1>3, <1>4, FS_EmptySet DEF NoneLeft

-----------------------------------------------------------------------------
(* The handler of a connection goes on; while it does, its socket is open. *)
LEMMA ConnectNextOK ==
  ASSUME StoresInv, NEW s \in Sockets, UserOf[s] \notin mixed, ConnectNext(s)
  PROVE  UserOK(UserOf[s])'
<1> DEFINE u == UserOf[s]
<1>1. /\ u \in Users /\ s \in SocketsOf(u) /\ connecting[s] # "idle" /\ link[s] = "open"
      /\ OneHandler(s) /\ \A t \in SocketsOf(u) \ {s} : ~Busy(t)
      /\ Connects(s, u)
  <2>1. connecting[s] # "idle"
    BY DEF ConnectNext, ConnectStep, AddSocket, SetOnlineKey, SetOnlineDb, TellOnline
  <2> QED
    BY <2>1, HandlerAlone DEF Busy
<1>2. /\ link' = link /\ leaving' = leaving /\ event' = event
      /\ \A t \in SocketsOf(u) \ {s} : connecting'[t] = connecting[t]
  BY DEF ConnectNext, ConnectStep, AddSocket, SetOnlineKey, SetOnlineDb, TellOnline, SocketsOf,
     StoresInv, TypeOK
<1>3. \A t \in SocketsOf(u) \ {s} : ~Busy(t)'
  BY <1>1, <1>2 DEF Busy
<1>4. leaving'[s] = "idle" /\ s \notin event'.by /\ s \in Open(u)'
  BY <1>1, <1>2 DEF OneHandler, Open, SocketsOf
<1>5. OneHandler(s)' /\ Leaves(s, u)' /\ Updates(s, u)'
  BY <1>4 DEF OneHandler, Leaves, Updates
<1>6. Connects(s, u)' /\ (connecting'[s] = "idle" => Agrees(u)')
  <2>1. CASE AddSocket(s)
    BY <2>1 DEF AddSocket, ConnectStep, Connects, StoresInv, TypeOK
  <2>2. CASE SetOnlineKey(s)
    BY <1>1, <2>2 DEF SetOnlineKey, ConnectStep, SetKey, Connects, StoresInv, TypeOK
  <2>3. CASE SetOnlineDb(s)
    BY <1>1, <2>3 DEF SetOnlineDb, ConnectStep, SetDb, Connects, StoresInv, TypeOK
  <2>4. CASE TellOnline(s)
    <3>1. /\ told'[u] = "online" /\ presence'[u] \in {"none", "online"}
          /\ u \in patched' \/ dbStatus'[u] = "online"
      BY <1>1, <2>4 DEF TellOnline, ConnectStep, Connects, StoresInv, TypeOK
    <3>2. Connects(s, u)'
      BY <2>4 DEF TellOnline, ConnectStep, Connects, StoresInv, TypeOK
    <3> QED
      BY <1>4, <3>1, <3>2 DEF Agrees, KeyTold, IsOnline
  <2> QED
    BY <2>1, <2>2, <2>3, <2>4 DEF ConnectNext
<1>7. ~Busy(s)' => Agrees(u)'
  BY <1>6 DEF Busy
<1> HIDE DEF u
<1> QED
  BY <1>1, <1>3, <1>5, <1>6, <1>7, SoloKeeps DEF u

(* The handler of a disconnection goes on; its socket is closed.           *)
LEMMA DisconnectNextOK ==
  ASSUME StoresInv, NEW s \in Sockets, UserOf[s] \notin mixed, DisconnectNext(s)
  PROVE  UserOK(UserOf[s])'
<1> DEFINE u == UserOf[s]
<1>1. /\ u \in Users /\ s \in SocketsOf(u) /\ leaving[s] # "idle" /\ link[s] = "closed"
      /\ OneHandler(s) /\ \A t \in SocketsOf(u) \ {s} : ~Busy(t)
      /\ Leaves(s, u)
  <2>1. leaving[s] # "idle"
    BY DEF DisconnectNext, DisconnectStep, RemoveFromSet, CountSockets, DeletePresence,
       SetOfflineDb, TellOffline
  <2> QED
    BY <2>1, HandlerAlone DEF Busy
<1>2. /\ link' = link /\ connecting' = connecting /\ event' = event
      /\ \A t \in SocketsOf(u) \ {s} : leaving'[t] = leaving[t]
  BY DEF DisconnectNext, DisconnectStep, RemoveFromSet, CountSockets, DeletePresence,
     SetOfflineDb, TellOffline, SocketsOf, StoresInv, TypeOK
<1>3. \A t \in SocketsOf(u) \ {s} : ~Busy(t)'
  BY <1>1, <1>2 DEF Busy
<1>4. connecting'[s] = "idle" /\ s \notin event'.by /\ Open(u)' = Open(u)
  BY <1>1, <1>2 DEF OneHandler, Open, SocketsOf
<1>5. OneHandler(s)' /\ Connects(s, u)' /\ Updates(s, u)'
  BY <1>4 DEF OneHandler, Connects, Updates
<1>6. Leaves(s, u)' /\ (leaving'[s] = "idle" => Agrees(u)')
  <2>1. CASE RemoveFromSet(s)
    <3>1. /\ leaving[s] = "remove_socket" /\ leaving'[s] = "count"
          /\ UNCHANGED <<presence, dbStatus, told, patched>>
      BY <2>1 DEF RemoveFromSet, DisconnectStep, StoresInv, TypeOK
    <3> QED
      BY <1>1, <1>4, <3>1 DEF Leaves, Settled, KeyTold, IsOnline
  <2>2. CASE CountSockets(s)
    <3>1. leaving[s] = "count" /\ (NoneLeft(u) <=> Open(u) = {})
      BY <2>2, CountIsRight DEF CountSockets, DisconnectStep
    <3>2. /\ leaving'[s] = (IF Open(u) = {} THEN "drop_key" ELSE "idle")
          /\ UNCHANGED <<presence, dbStatus, told, patched>>
      BY <2>2, <3>1 DEF CountSockets, DisconnectStep, stores, StoresInv, TypeOK
    <3>3. Open(u) # {} => Settled(u) /\ KeyTold(u)
      BY <1>1, <3>1 DEF Leaves
    <3>4. Leaves(s, u)'
      BY <1>4, <3>2 DEF Leaves
    <3>5. (Settled(u)' <=> Settled(u)) /\ (KeyTold(u)' <=> KeyTold(u))
      BY <3>2 DEF Settled, KeyTold, IsOnline
    <3> QED
      BY <1>4, <3>2, <3>3, <3>4, <3>5 DEF Agrees, Settled
  <2>3. CASE DeletePresence(s)
    BY <1>1, <1>4, <2>3
       DEF DeletePresence, DisconnectStep, DropKey, Leaves, IsOnline, StoresInv, TypeOK
  <2>4. CASE SetOfflineDb(s)
    BY <1>1, <1>4, <2>4 DEF SetOfflineDb, DisconnectStep, SetDb, Leaves, IsOnline, StoresInv, TypeOK
  <2>5. CASE TellOffline(s)
    <3>1. /\ leaving[s] = "tell" /\ leaving'[s] = "idle" /\ told'[u] = "offline"
          /\ UNCHANGED <<presence, dbStatus, patched>>
      BY <1>1, <2>5 DEF TellOffline, DisconnectStep, StoresInv, TypeOK
    <3>2. Open(u)' = {} /\ ~IsOnline(u)' /\ (u \in patched' \/ dbStatus'[u] = "offline")
      BY <1>1, <1>4, <3>1 DEF Leaves, IsOnline
    <3> QED
      BY <3>1, <3>2 DEF Leaves, Agrees, KeyTold
  <2> QED
    BY <2>1, <2>2, <2>3, <2>4, <2>5 DEF DisconnectNext
<1>7. ~Busy(s)' => Agrees(u)'
  BY <1>6 DEF Busy
<1> HIDE DEF u
<1> QED
  BY <1>1, <1>3, <1>5, <1>6, <1>7, SoloKeeps DEF u

-----------------------------------------------------------------------------
(* A status update goes on, from a socket that is open.                    *)
LEMMA StatusNextOK ==
  ASSUME StoresInv, NEW s \in Sockets, UserOf[s] \notin mixed, StatusNext(s)
  PROVE  UserOK(UserOf[s])'
<1> DEFINE u == UserOf[s]
<1>1. /\ u \in Users /\ s \in SocketsOf(u) /\ s \in event.by /\ event.by = {s}
      /\ OneHandler(s) /\ \A t \in SocketsOf(u) \ {s} : ~Busy(t)
      /\ Updates(s, u)
  <2>1. event.by = {s}
    BY DEF StatusNext, StatusStep, StatusKey, StatusDb, TellStatus
  <2> QED
    BY <2>1, HandlerAlone DEF Busy
<1>2. /\ link' = link /\ connecting' = connecting /\ leaving' = leaving
      /\ event'.by \in SUBSET {s}
  BY <1>1 DEF StatusNext, StatusStep, StatusKey, StatusDb, TellStatus, NoEvent, StoresInv, TypeOK
<1>3. \A t \in SocketsOf(u) \ {s} : ~Busy(t)'
  BY <1>1, <1>2 DEF Busy
<1>4. connecting'[s] = "idle" /\ leaving'[s] = "idle" /\ s \in Open(u)' /\ link[s] = "open"
  BY <1>1, <1>2 DEF OneHandler, Open, SocketsOf, Updates
<1>5. OneHandler(s)' /\ Connects(s, u)' /\ Leaves(s, u)'
  BY <1>4 DEF OneHandler, Connects, Leaves
<1>6. Updates(s, u)' /\ (s \notin event'.by => Agrees(u)')
  <2>1. CASE StatusKey(s)
    BY <1>1, <1>4, <2>1
       DEF StatusKey, StatusStep, SetKey, Updates, Settled, IsOnline, StoresInv, TypeOK
  <2>2. CASE StatusDb(s)
    BY <1>1, <1>4, <2>2
       DEF StatusDb, StatusStep, SetDb, Updates, Settled, IsOnline, StoresInv, TypeOK
  <2>3. CASE TellStatus(s)
    <3>1. /\ event' = NoEvent /\ event.pc = "tell" /\ told'[u] = event.status
          /\ UNCHANGED <<presence, dbStatus, patched>>
      BY <1>1, <2>3 DEF TellStatus, StatusStep, StoresInv, TypeOK
    <3>2. Settled(u)' /\ KeyTold(u)'
      BY <1>1, <3>1 DEF Updates, Settled, KeyTold, IsOnline
    <3> QED
      BY <1>4, <3>1, <3>2 DEF Updates, Agrees, Settled, NoEvent
  <2> QED
    BY <2>1, <2>2, <2>3 DEF StatusNext
<1>7. ~Busy(s)' => Agrees(u)'
  BY <1>6 DEF Busy
<1> HIDE DEF u
<1> QED
  BY <1>1, <1>3, <1>5, <1>6, <1>7, SoloKeeps DEF u

(* Handlers that start: a socket connects, ...                             *)
LEMMA ConnectOK ==
  ASSUME StoresInv, NEW s \in Sockets, Connect(s), UserOf[s] \notin mixed'
  PROVE  UserOK(UserOf[s])'
<1> DEFINE u == UserOf[s]
<1>1. /\ u \in Users /\ s \in SocketsOf(u) /\ \A t \in SocketsOf(u) : ~Busy(t)
  BY StartsQuiet DEF Connect
<1>2. /\ connecting'[s] = "add_socket" /\ leaving' = leaving /\ event' = event
      /\ \A t \in SocketsOf(u) \ {s} : connecting'[t] = connecting[t]
  BY DEF Connect, SocketsOf, StoresInv, TypeOK
<1>3. \A t \in SocketsOf(u) \ {s} : ~Busy(t)'
  BY <1>1, <1>2 DEF Busy
<1>4. leaving'[s] = "idle" /\ s \notin event'.by
  BY <1>1, <1>2 DEF Busy
<1>5. OneHandler(s)' /\ Connects(s, u)' /\ Leaves(s, u)' /\ Updates(s, u)' /\ Busy(s)'
  BY <1>2, <1>4 DEF OneHandler, Connects, Leaves, Updates, Busy
<1> HIDE DEF u
<1> QED
  BY <1>1, <1>3, <1>5, SoloKeeps DEF u

(* disconnects: what agreed with it open holds on while others are, ...    *)
LEMMA DisconnectOK ==
  ASSUME StoresInv, NEW s \in Sockets, Disconnect(s), UserOf[s] \notin mixed'
  PROVE  UserOK(UserOf[s])'
<1> DEFINE u == UserOf[s]
<1>1. /\ u \in Users /\ s \in SocketsOf(u) /\ Agrees(u) /\ \A t \in SocketsOf(u) : ~Busy(t)
  BY StartsQuiet DEF Disconnect
<1>2. /\ leaving'[s] = "remove_socket" /\ connecting' = connecting /\ event' = event
      /\ \A t \in SocketsOf(u) \ {s} : leaving'[t] = leaving[t]
      /\ s \in Open(u) /\ UNCHANGED stores
  BY <1>1 DEF Disconnect, SocketsOf, Open, StoresInv, TypeOK
<1>3. \A t \in SocketsOf(u) \ {s} : ~Busy(t)'
  BY <1>1, <1>2 DEF Busy
<1>4. connecting'[s] = "idle" /\ s \notin event'.by
  BY <1>1, <1>2 DEF Busy
<1>5. Settled(u)' /\ KeyTold(u)'
  BY <1>1, <1>2 DEF Agrees, Settled, KeyTold, IsOnline, stores
<1>6. OneHandler(s)' /\ Connects(s, u)' /\ Leaves(s, u)' /\ Updates(s, u)' /\ Busy(s)'
  BY <1>2, <1>4, <1>5 DEF OneHandler, Connects, Leaves, Updates, Busy
<1> HIDE DEF u
<1> QED
  BY <1>1, <1>3, <1>6, SoloKeeps DEF u

(* or sends a status.                                                      *)
LEMMA UpdateStatusOK ==
  ASSUME StoresInv, NEW s \in Sockets, NEW status \in Chosen, UpdateStatus(s, status),
         UserOf[s] \notin mixed'
  PROVE  UserOK(UserOf[s])'
<1> DEFINE u == UserOf[s]
<1>1. /\ u \in Users /\ s \in SocketsOf(u) /\ Agrees(u) /\ \A t \in SocketsOf(u) : ~Busy(t)
  BY StartsQuiet DEF UpdateStatus
<1>2. /\ UNCHANGED <<link, connecting, leaving, stores>>
      /\ event'.by = {s} /\ event'.status = status /\ status # "offline"
      /\ event'.pc = (IF IsOnline(u) THEN "set_key" ELSE "tell")
      /\ s \in Open(u) /\ link[s] = "open"
  BY <1>1, PresenceAssumption DEF UpdateStatus, SocketsOf, Open, IsOnline
<1>3. \A t \in SocketsOf(u) \ {s} : ~Busy(t)'
  BY <1>1, <1>2 DEF Busy
<1>4. connecting'[s] = "idle" /\ leaving'[s] = "idle"
  BY <1>1, <1>2 DEF Busy
<1>5. Settled(u)' /\ (IsOnline(u)' <=> IsOnline(u))
  BY <1>1, <1>2 DEF Agrees, Settled, IsOnline, stores
<1>6. Updates(s, u)'
  BY <1>2, <1>5 DEF Updates
<1>7. OneHandler(s)' /\ Connects(s, u)' /\ Leaves(s, u)' /\ Busy(s)'
  BY <1>2, <1>4 DEF OneHandler, Connects, Leaves, Busy
<1> HIDE DEF u
<1> QED
  BY <1>1, <1>3, <1>6, <1>7, SoloKeeps DEF u

(* A connection that fails with no other socket open: the disconnection    *)
(* takes back what it wrote.                                               *)
LEMMA ConnectFailsOK ==
  ASSUME StoresInv, NEW s \in Sockets, ConnectFails(s), UserOf[s] \notin mixed'
  PROVE  UserOK(UserOf[s])'
<1> DEFINE u == UserOf[s]
<1>1. connecting[s] # "idle" /\ u \notin mixed /\ Open(u) \subseteq {s}
  BY DEF ConnectFails
<1>2. /\ u \in Users /\ s \in SocketsOf(u) /\ \A t \in SocketsOf(u) \ {s} : ~Busy(t)
      /\ link[s] = "open" /\ OneHandler(s)
  BY <1>1, HandlerAlone DEF Busy
<1>3. /\ connecting'[s] = "idle" /\ leaving'[s] = "remove_socket" /\ event' = event
      /\ \A t \in SocketsOf(u) \ {s} :
           connecting'[t] = connecting[t] /\ leaving'[t] = leaving[t] /\ link'[t] = link[t]
      /\ link'[s] = "closed"
  BY <1>2 DEF ConnectFails, SocketsOf, StoresInv, TypeOK
<1>4. \A t \in SocketsOf(u) \ {s} : ~Busy(t)'
  BY <1>2, <1>3 DEF Busy
<1>5. s \notin event'.by /\ Open(u)' = {}
  BY <1>1, <1>2, <1>3 DEF OneHandler, Open, SocketsOf
<1>6. OneHandler(s)' /\ Connects(s, u)' /\ Leaves(s, u)' /\ Updates(s, u)' /\ Busy(s)'
  BY <1>3, <1>5 DEF OneHandler, Connects, Leaves, Updates, Busy
<1> HIDE DEF u
<1> QED
  BY <1>2, <1>4, <1>6, SoloKeeps DEF u

-----------------------------------------------------------------------------
(* Heartbeats, the clock of Redis and PATCHes come in between of handlers. *)
LEMMA BetweenOK ==
  ASSUME StoresInv, NEW u \in Users, NEW v \in Users, UserOK(v),
         \/ Heartbeat(u) \/ Lapse(u) \/ \E status \in Patched : PatchStatus(u, status)
  PROVE  UserOK(v)'
<1>1. UNCHANGED <<link, connecting, leaving, event, told>>
  BY DEF Heartbeat, Lapse, PatchStatus
<1>2. presence'[v] \in {presence[v], "none"}
  BY DEF Heartbeat, Lapse, DropKey, PatchStatus, StoresInv, TypeOK
<1>3. (v \in patched => v \in patched') /\ (dbStatus'[v] = dbStatus[v] \/ v \in patched')
  BY DEF Heartbeat, Lapse, PatchStatus, StoresInv, TypeOK
<1>4. /\ SocketsOf(v)' = SocketsOf(v) /\ Open(v)' = Open(v)
      /\ \A s \in SocketsOf(v) : Busy(s)' <=> Busy(s)
      /\ \A s \in SocketsOf(v) : Solo(s) => Solo(s)'
  BY <1>1 DEF SocketsOf, Open, Busy, Solo, OneHandler
<1>5. (Quiet(v)' <=> Quiet(v)) /\ (IsOnline(v)' => IsOnline(v) /\ presence'[v] = presence[v])
  BY <1>2, <1>4 DEF Quiet, IsOnline
<1>6. /\ Settled(v) => Settled(v)'
      /\ KeyTold(v) => KeyTold(v)'
      /\ Agrees(v) => Agrees(v)'
  BY <1>1, <1>3, <1>4, <1>5 DEF Settled, KeyTold, Agrees
<1>7. ASSUME NEW s \in SocketsOf(v) PROVE Connects(s, v)' /\ Leaves(s, v)' /\ Updates(s, v)'
  <2>1. Connects(s, v) /\ Leaves(s, v) /\ Updates(s, v)
    BY DEF UserOK
  <2> QED
    BY <1>1, <1>2, <1>3, <1>4, <1>5, <1>6, <2>1 DEF Connects, Leaves, Updates
<1> QED
  BY <1>4, <1>5, <1>6, <1>7 DEF UserOK

(* A restart hits every user with a socket that is open or has a handler.  *)
LEMMA CrashOK ==
  ASSUME StoresInv, Crash, NEW u \in Users, u \notin mixed', UserOK(u)
  PROVE  UserOK(u)'
<1>1. \A s \in SocketsOf(u) : ~(link[s] = "open" \/ Busy(s))
  BY DEF Crash, SocketsOf
<1>2. \A s \in SocketsOf(u) :
        /\ link'[s] = link[s] /\ connecting'[s] = connecting[s] /\ leaving'[s] = leaving[s]
        /\ s \notin event.by /\ s \notin event'.by
  BY <1>1 DEF Crash, SocketsOf, Busy, NoEvent, StoresInv, TypeOK
<1>3. Apart(u)
  BY <1>2 DEF Apart, Crash, stores
<1> QED
  BY <1>3, ApartKeeps

(* Every step keeps the invariant.                                         *)
LEMMA StoresStep == StoresInv /\ [Next]_vars => StoresInv'
<1> SUFFICES ASSUME StoresInv, [Next]_vars, NEW u \in Users, u \notin mixed'
             PROVE  UserOK(u)'
  BY SetsStep DEF StoresInv
<1>1. u \notin mixed /\ UserOK(u)
  BY SetsStep DEF StoresInv
<1>2. ASSUME NEW s \in Sockets, Connect(s) \/ ConnectNext(s) \/ ConnectFails(s) PROVE UserOK(u)'
  BY <1>1, <1>2, OtherUsers, ApartKeeps, ConnectOK, ConnectNextOK, ConnectFailsOK
<1>3. ASSUME NEW s \in Sockets, Disconnect(s) \/ DisconnectNext(s) \/ DisconnectFails(s)
      PROVE  UserOK(u)'
  <2>1. CASE DisconnectFails(s)
    <3>1. UserOf[s] # u
      BY <2>1 DEF DisconnectFails
    <3> QED
      BY <1>1, <2>1, <3>1, OtherUsers, ApartKeeps
  <2> QED
    BY <1>1, <1>3, <2>1, OtherUsers, ApartKeeps, DisconnectOK, DisconnectNextOK
<1>4. ASSUME NEW s \in Sockets, StatusNext(s) PROVE UserOK(u)'
  BY <1>1, <1>4, OtherUsers, ApartKeeps, StatusNextOK
<1>5. ASSUME NEW s \in Choosers, NEW status \in Chosen, UpdateStatus(s, status)
      PROVE  UserOK(u)'
  <2>1. s \in Sockets
    BY PresenceAssumption
  <2> QED
    BY <1>1, <1>5, <2>1, OtherUsers, ApartKeeps, UpdateStatusOK
<1>6. ASSUME NEW v \in Users,
             Heartbeat(v) \/ Lapse(v) \/ \E status \in Patched : PatchStatus(v, status)
      PROVE  UserOK(u)'
  BY <1>1, <1>6, BetweenOK
<1>7. CASE Crash
  BY <1>1, <1>7, CrashOK
<1>8. CASE UNCHANGED vars
  BY <1>1, <1>8, ApartKeeps DEF Apart, vars
<1> QED
  BY <1>2, <1>3, <1>4, <1>5, <1>6, <1>7, <1>8 DEF Next

(* At the start everybody is offline.                                      *)
LEMMA StoresStart == Init => StoresInv
<1> SUFFICES ASSUME Init PROVE StoresInv
  OBVIOUS
<1>1. TypeOK /\ SocketsInv
  BY SocketsInit, PresenceAssumption DEF Init, TypeOK, NoEvent
<1>2. SetsInv
  BY FS_EmptySet DEF Init, SetsInv, NoEvent
<1>3. ASSUME NEW u \in Users PROVE UserOK(u)
  <2>1. \A s \in SocketsOf(u) : ~Busy(s) /\ Connects(s, u) /\ Leaves(s, u) /\ Updates(s, u)
    BY DEF Init, SocketsOf, Busy, NoEvent, Connects, Leaves, Updates
  <2>2. Agrees(u)
    BY DEF Init, Agrees, Open, SocketsOf, KeyTold, IsOnline
  <2> QED
    BY <2>1, <2>2 DEF UserOK
<1> QED
  BY <1>1, <1>2, <1>3 DEF StoresInv

(* Where no handlers of a user overlapped or broke off, the presence key,  *)
(* the status in the database and what the rooms were told agree once the  *)
(* handlers are done (userConnected, userDisconnected, setStatus).         *)
THEOREM StoresAgree == Spec => []PresenceAgrees
<1>1. StoresInv => PresenceAgrees
  BY DEF StoresInv, UserOK, Agrees, KeyTold, PresenceAgrees
<1> QED
  BY StoresStart, StoresStep, <1>1, PTL DEF Spec
=============================================================================
