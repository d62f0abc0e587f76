------------------------------ MODULE Services ------------------------------
(***************************************************************************)
(* Five services in one model, one at a time: the socket events of the     *)
(* gateway, rooms, direct messages, files and notifications.  They share   *)
(* no state: what one needs of another (a membership, a presence key) its  *)
(* module lets change at any time.  A behaviour is one of a single         *)
(* service, "active", and the others stay as they began; nothing is shown  *)
(* of several at work together, nor need it be.                            *)
(***************************************************************************)
EXTENDS ChatGateway, Rooms, DirectMessages, Files, Notifications

VARIABLE active

vars == <<active, gatewayVars, roomVars, dmVars, fileVars, notificationVars>>

Parts == {"gateway", "rooms", "dms", "files", "notifications"}

Init ==
  /\ active \in Parts
  /\ GatewayInit
  /\ RoomsInit
  /\ DmInit
  /\ FilesInit
  /\ NotificationsInit

(* A step of the active service alone.                                     *)
OfGateway(A) ==
  active = "gateway" /\ A /\ UNCHANGED <<active, roomVars, dmVars, fileVars, notificationVars>>
OfRooms(A) ==
  active = "rooms" /\ A /\ UNCHANGED <<active, gatewayVars, dmVars, fileVars, notificationVars>>
OfDms(A) ==
  active = "dms" /\ A /\ UNCHANGED <<active, gatewayVars, roomVars, fileVars, notificationVars>>
OfFiles(A) ==
  active = "files" /\ A /\ UNCHANGED <<active, gatewayVars, roomVars, dmVars, notificationVars>>
OfNotifications(A) ==
  active = "notifications" /\ A /\ UNCHANGED <<active, gatewayVars, roomVars, dmVars, fileVars>>

Next ==
  \/ OfGateway(GatewayNext)
  \/ OfRooms(RoomsNext)
  \/ OfDms(DmNext)
  \/ OfFiles(FilesNext)
  \/ OfNotifications(NotificationsNext)

(* The timers of the process run down and call back.                       *)
Fairness == \A t \in Typists : WF_vars(OfGateway(Elapses(t)))

Spec == Init /\ [][Next]_vars /\ Fairness

-----------------------------------------------------------------------------
(* The state of each service has its type.                                 *)
TypeOK == GatewayTypeOK /\ RoomsTypeOK /\ DmTypeOK /\ FilesTypeOK /\ NotificationsTypeOK
=============================================================================
