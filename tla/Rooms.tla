------------------------------- MODULE Rooms -------------------------------
(***************************************************************************)
(* The groups and channels of RoomsService with their name and             *)
(* archive flag, and the search index that follows them.  Members, roles   *)
(* and invites are in the module RoomMembers, direct messages in           *)
(* DirectMessages.                                                         *)
(*                                                                         *)
(* A slot holds a request in progress; each awaited Prisma call is a step. *)
(* update and archive emit their event with a Prisma query in hand that    *)
(* has not been sent yet: the event comes first, whether or not the write  *)
(* then succeeds.                                                          *)
(***************************************************************************)
EXTENDS Naturals

CONSTANTS
  GroupRooms,           \* the ids
  Names, NoName,
  RoomRequests,         \* the slots
  NoRoom,
  MaxRoomEvents,        \* bound: events of one room
  RoomIndexEnabled, MaxRoomLosses

VARIABLES
  name,      \* of a group: its name, or null before it exists
  archived,  \* the groups with isArchived
  roomReq,   \* the requests in progress
  muddled,   \* history: groups changed without an event, or by requests that overlapped
  index, writes, reindex, sent, arrived, lost, disordered, losses

RoomIndex == INSTANCE SearchIndex WITH Docs <- GroupRooms, Texts <- Names, NoText <- NoName,
               Enabled <- RoomIndexEnabled, MaxLosses <- MaxRoomLosses

(* Null names no group, and is a value an update may set, unlike a field   *)
(* that it leaves out.                                                     *)
ASSUME RoomsAssumption ==
  /\ NoName \notin Names /\ RoomIndex!Keep \notin Names \cup {NoName}
  /\ NoRoom \notin GroupRooms

roomRows == <<name, archived>>
roomIndexVars == <<index, writes, reindex, sent, arrived, lost, disordered, losses>>
roomVars == <<name, archived, roomReq, muddled,
              index, writes, reindex, sent, arrived, lost, disordered, losses>>

-----------------------------------------------------------------------------
NoRoomRequest == [pc |-> "idle", room |-> NoRoom, name |-> NoName]

BeginRoom(r, locals) == roomReq[r].pc = "idle" /\ roomReq' = [roomReq EXCEPT ![r] = locals]
EndRoom(r) == roomReq' = [roomReq EXCEPT ![r] = NoRoomRequest]
Exists(g) == name[g] # NoName
OnRoom(g) == {r \in RoomRequests : roomReq[r].room = g}

RoomsInit ==
  /\ name = [g \in GroupRooms |-> NoName]
  /\ archived = {}
  /\ roomReq = [r \in RoomRequests |-> NoRoomRequest]
  /\ muddled = {}
  /\ RoomIndex!InitIndex

-----------------------------------------------------------------------------
(* create.  A slug that is taken between ensureUniqueSlug and the insert   *)
(* fails the request; otherwise it matters to nobody and is left out.      *)
CreateRoom(r, n) ==
  /\ \E g \in GroupRooms : ~Exists(g)
  /\ BeginRoom(r, [NoRoomRequest EXCEPT !.pc = "insert", !.name = n])
  /\ UNCHANGED <<roomRows, muddled, roomIndexVars>>

InsertRoom(r, g) ==
  /\ roomReq[r].pc = "insert" /\ ~Exists(g)
  /\ name' = [name EXCEPT ![g] = roomReq[r].name]
  /\ roomReq' = [roomReq EXCEPT ![r] = [@ EXCEPT !.pc = "created", !.room = g]]
  /\ UNCHANGED <<archived, muddled, roomIndexVars>>

(* After addMembers the event carries the row as it was inserted.          *)
RoomCreated(r) ==
  /\ roomReq[r].pc = "created"
  /\ RoomIndex!IndexDocument(roomReq[r].room, roomReq[r].name, "shown")
  /\ EndRoom(r)
  /\ UNCHANGED <<roomRows, muddled>>

-----------------------------------------------------------------------------
(* A change of a group: its row and the actor's role are read, then the    *)
(* event is sent (not for unarchive), then the row is written.             *)
BeginChange(r, g, pc, n) ==
  /\ Exists(g) /\ sent[g] < MaxRoomEvents
  /\ BeginRoom(r, [NoRoomRequest EXCEPT !.pc = pc, !.room = g, !.name = n])
  /\ muddled' = IF OnRoom(g) = {} THEN muddled ELSE muddled \cup {g}
  /\ UNCHANGED <<roomRows, roomIndexVars>>

UpdateRoom(r, g, n) == BeginChange(r, g, "update_emit", n)
ArchiveRoom(r, g) == BeginChange(r, g, "archive_emit", NoName)
UnarchiveRoom(r, g) == BeginChange(r, g, "unarchive_write", NoName)

UpdateEmit(r) ==
  /\ roomReq[r].pc = "update_emit"
  /\ sent[roomReq[r].room] < MaxRoomEvents
  /\ RoomIndex!UpdateDocument(roomReq[r].room, roomReq[r].name, RoomIndex!Keep)
  /\ roomReq' = [roomReq EXCEPT ![r].pc = "update_write"]
  /\ UNCHANGED <<roomRows, muddled>>

UpdateRow(r) ==
  /\ roomReq[r].pc = "update_write"
  /\ name' = [name EXCEPT ![roomReq[r].room] = roomReq[r].name]
  /\ EndRoom(r)
  /\ UNCHANGED <<archived, muddled, roomIndexVars>>

TellNothing(g) == UNCHANGED roomIndexVars
TellArchived(g) == RoomIndex!UpdateDocument(g, RoomIndex!Keep, "hidden")

ArchiveEmit(r) ==
  /\ roomReq[r].pc = "archive_emit"
  /\ sent[roomReq[r].room] < MaxRoomEvents
  /\ TellArchived(roomReq[r].room)
  /\ roomReq' = [roomReq EXCEPT ![r].pc = "archive_write"]
  /\ UNCHANGED <<roomRows, muddled>>

ArchiveRow(r) ==
  /\ roomReq[r].pc = "archive_write"
  /\ archived' = archived \cup {roomReq[r].room}
  /\ EndRoom(r)
  /\ UNCHANGED <<name, muddled, roomIndexVars>>

UnarchiveRow(r) ==
  /\ roomReq[r].pc = "unarchive_write"
  /\ archived' = archived \ {roomReq[r].room}
  /\ muddled' = IF roomReq[r].room \in archived THEN muddled \cup {roomReq[r].room}
                ELSE muddled
  /\ EndRoom(r)
  /\ UNCHANGED <<name, roomIndexVars>>

(* A call of a request fails, addMembers among them; what it did stays.    *)
RoomRequestFails(r) ==
  /\ roomReq[r].pc # "idle"
  /\ muddled' = IF roomReq[r].pc \in {"created", "update_write", "archive_write"}
                THEN muddled \cup {roomReq[r].room} ELSE muddled
  /\ EndRoom(r)
  /\ UNCHANGED <<roomRows, roomIndexVars>>

(* The reindex of the rooms reads all groups, the archived ones too.       *)
ReindexRooms ==
  /\ RoomIndex!StartReindex({g \in GroupRooms : Exists(g)}, name,
       [g \in GroupRooms |-> IF g \in archived THEN "hidden" ELSE "shown"])
  /\ muddled' = muddled \cup {g \in GroupRooms : OnRoom(g) # {}}
  /\ UNCHANGED <<roomRows, roomReq>>

(* A search asks Elasticsearch, and PostgreSQL where it is off or does not *)
(* answer.                                                                 *)
PostgresFindsRoom(g) == IF g \in archived THEN NoName ELSE name[g]
SearchRooms(g, answered) ==
  IF RoomIndexEnabled /\ answered THEN RoomIndex!Found(g) ELSE PostgresFindsRoom(g)

RoomIndexStep ==
  /\ RoomIndex!IndexNext
  /\ UNCHANGED <<roomRows, roomReq, muddled>>

-----------------------------------------------------------------------------
RoomsNext ==
  \/ \E r \in RoomRequests :
       \/ \E n \in Names : CreateRoom(r, n)
       \/ \E g \in GroupRooms :
            \/ InsertRoom(r, g)
            \/ \E n \in Names : UpdateRoom(r, g, n)
            \/ ArchiveRoom(r, g) \/ UnarchiveRoom(r, g)
       \/ RoomCreated(r) \/ UpdateEmit(r) \/ UpdateRow(r)
       \/ ArchiveEmit(r) \/ ArchiveRow(r) \/ UnarchiveRow(r) \/ RoomRequestFails(r)
  \/ ReindexRooms
  \/ RoomIndexStep

RoomRequest == [pc : {"idle", "insert", "created", "update_emit", "update_write",
                      "archive_emit", "archive_write", "unarchive_write"},
                room : GroupRooms \cup {NoRoom}, name : Names \cup {NoName}]

RoomsTypeOK ==
  /\ name \in [GroupRooms -> Names \cup {NoName}]
  /\ archived \in SUBSET GroupRooms
  /\ roomReq \in [RoomRequests -> RoomRequest]
  /\ muddled \in SUBSET GroupRooms
  /\ RoomIndex!IndexTypeOK

(* A search finds the same name of a group, and none while it is archived, *)
(* whether Elasticsearch answers or PostgreSQL stands in for it, once its  *)
(* events have arrived in order and no request on it is in progress;       *)
(* except a group that requests changed at the same time (a reindex that   *)
(* read it meanwhile included), a request failed on, or that was           *)
(* unarchived, of which the index is never told.                           *)
RoomIndexAgrees ==
  \A g \in GroupRooms : OnRoom(g) = {} /\ g \notin muddled /\ RoomIndex!Settled(g) =>
    SearchRooms(g, TRUE) = SearchRooms(g, FALSE)
=============================================================================
