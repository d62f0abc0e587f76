------------------------------ MODULE Messages ------------------------------
(***************************************************************************)
(* The messages of one room: threads and their reply counts, soft deletes, *)
(* read receipts and the unread counters of the members.  It models the    *)
(* parts of MessagesService that write the columns parentId, isDeleted,    *)
(* replyCount, the table of receipts and RoomMember.unreadCount; the       *)
(* content of a message and its edits are columns of their own, which no   *)
(* action here reads.                                                      *)
(*                                                                         *)
(* As in RoomMembers a slot holds a request in progress, every awaited     *)
(* Prisma call is a step, and the write of a row does not repeat the check *)
(* made when it was read.  A request that throws frees its slot.  Who is   *)
(* in the room is RoomMembers' business: here a user comes and goes.       *)
(***************************************************************************)
EXTENDS Integers, FiniteSets

CONSTANTS
  Users,       \* those who are or were members, so have a RoomMember row
  Admins,      \* the ones who may have a role above member
  Posters,     \* the users who post
  Deleters,    \* the users who delete
  Readers,     \* the users who mark messages as read
  Leavers,     \* the users who leave, or are kicked, and come back
  Messages,    \* the messages that can be posted
  Requests,    \* the slots
  ReadBatch,   \* markRoomAsRead's take: 500 in the code
  MaxFailures, \* bound: failed decrements and server crashes
  NoMessage,   \* a parentId of null, and the field of a slot that has none
  Nobody       \* the user field of a slot that has none

ASSUME ConstantsAssumption ==
  /\ Posters \cup Deleters \cup Readers \cup Leavers \cup Admins \subseteq Users
  /\ IsFiniteSet(Messages) /\ IsFiniteSet(Requests)
  /\ ReadBatch \in Nat \ {0} /\ MaxFailures \in Nat
  /\ NoMessage \notin Messages /\ Nobody \notin Users

VARIABLES
  active,      \* whose leftAt is null
  admins,      \* whose role is admin or owner
  status,      \* "none": no row; "live"; "deleted": isDeleted
  sender, parent, replyCount,
  reads,       \* the MessageRead rows, as <<message, user>>
  unread,      \* RoomMember.unreadCount
  req,         \* the requests in progress
  failures,    \* how many failures there were
  lost,        \* history: decrements of a message's replyCount that never came
  redeleted,   \* history: deletes written to a message that was deleted already
  repeated,    \* history: those deletes, counted at the parent of the message
  astray       \* history: a user's receipts that no reset of the counter followed

members == <<active, admins>>
rowVars == <<status, sender, parent, replyCount>>
readVars == <<reads, unread, astray>>
ghosts == <<failures, lost, redeleted, repeated>>
vars == <<active, admins, status, sender, parent, replyCount, reads, unread,
          req, failures, lost, redeleted, repeated, astray>>

-----------------------------------------------------------------------------
(* A request's locals.  "admin" is softDelete's argument isAdmin, "found"  *)
(* the messages markRoomAsRead has read, and later those whose receipt the *)
(* request has inserted while its reset of the counter is still to come.   *)
Blank == [pc |-> "idle", user |-> Nobody, message |-> NoMessage,
          admin |-> FALSE, found |-> {}]

Begin(r, locals) == req[r].pc = "idle" /\ req' = [req EXCEPT ![r] = locals]
At(r, step) == req[r].pc = step
Goto(r, step) == req' = [req EXCEPT ![r].pc = step]
Finish(r) == req' = [req EXCEPT ![r] = Blank]

CheckThen(r, check, step) ==
  /\ IF check THEN Goto(r, step) ELSE Finish(r)
  /\ UNCHANGED <<members, rowVars, readVars, ghosts>>

(* Coming and going, by any operation of RoomMembers.  The row stays, with *)
(* its counter of unread messages; whoever comes back is a plain member.   *)
ComeOrGo(u) ==
  /\ active' = [active EXCEPT ![u] = ~@]
  /\ admins' = IF active[u] THEN admins ELSE admins \ {u}
  /\ UNCHANGED <<rowVars, readVars, ghosts, req>>

(* A member is promoted or demoted: updateMember or transferOwnership.     *)
ChangeRole(u) ==
  /\ active[u]
  /\ admins' = IF u \in admins THEN admins \ {u} ELSE admins \cup {u}
  /\ UNCHANGED <<active, rowVars, readVars, ghosts, req>>

-----------------------------------------------------------------------------
(* create.  In its slot "message" is the parent, NoMessage outside threads.*)
Create(r, u, p) ==
  /\ active[u]
  /\ Begin(r, [Blank EXCEPT !.user = u, !.message = p,
                 !.pc = IF p = NoMessage THEN "create_write" ELSE "create_parent"])
  /\ UNCHANGED <<members, rowVars, readVars, ghosts>>

AnyLiveParent(p) == status[p] = "live"
ValidParent(p) == status[p] = "live" /\ parent[p] = NoMessage

CreateParent(r) ==
  /\ At(r, "create_parent")
  /\ CheckThen(r, ValidParent(req[r].message), "create_write")

CountDown(m, u) ==
  [v \in Users |-> IF v # u /\ active[v] THEN unread[v] - 1 ELSE unread[v]]
CountEveryone(m, u) == [v \in Users |-> IF active[v] THEN unread[v] + 1 ELSE unread[v]]
CountOthers(m, u) ==
  [v \in Users |-> IF v # u /\ active[v] THEN unread[v] + 1 ELSE unread[v]]

NoCount(p) == replyCount
CountReply(p) == [replyCount EXCEPT ![p] = @ + 1]

(* The transaction: the message, every other member's unread counter and   *)
(* the parent's reply count.  Nothing is checked again.                    *)
CreateWrite(r, m) ==
  /\ At(r, "create_write")
  /\ status[m] = "none"
  /\ LET u == req[r].user  p == req[r].message
     IN /\ status' = [status EXCEPT ![m] = "live"]
        /\ sender' = [sender EXCEPT ![m] = u]
        /\ parent' = [parent EXCEPT ![m] = p]
        /\ unread' = CountOthers(m, u)
        /\ replyCount' = IF p = NoMessage THEN replyCount ELSE CountReply(p)
  /\ Finish(r)
  /\ UNCHANGED <<members, reads, astray, ghosts>>

-----------------------------------------------------------------------------
(* DELETE /messages/:id.  The controller reads the message and asks for    *)
(* membership; a message of someone else also needs a role above member,   *)
(* read from a row that may have been left by now, and not read again.     *)
Remove(r, u, m) ==
  /\ status[m] = "live"
  /\ Begin(r, [Blank EXCEPT !.pc = "remove_member", !.user = u, !.message = m])
  /\ UNCHANGED <<members, rowVars, readVars, ghosts>>

RemoveMember(r) ==
  /\ At(r, "remove_member")
  /\ CheckThen(r, active[req[r].user],
       IF sender[req[r].message] = req[r].user THEN "delete_find" ELSE "remove_role")

AnyRole(u) == TRUE
RoleAboveMember(u) == u \in admins

RemoveRole(r) ==
  /\ At(r, "remove_role")
  /\ req' = [req EXCEPT ![r] =
       IF RoleAboveMember(@.user) THEN [@ EXCEPT !.pc = "delete_find", !.admin = TRUE]
       ELSE Blank]
  /\ UNCHANGED <<members, rowVars, readVars, ghosts>>

(* softDelete, from the controller or straight from the socket event       *)
(* message:delete.                                                         *)
MayDeleteAgain(u, m, admin) == status[m] # "none" /\ (sender[m] = u \/ admin)
MayDelete(u, m, admin) == status[m] = "live" /\ (sender[m] = u \/ admin)

DeleteFind(r) ==
  /\ At(r, "delete_find")
  /\ CheckThen(r, MayDelete(req[r].user, req[r].message, req[r].admin), "delete_write")

DeleteFromSocket(r, u, m) ==
  /\ MayDelete(u, m, FALSE)
  /\ Begin(r, [Blank EXCEPT !.pc = "delete_write", !.user = u, !.message = m])
  /\ UNCHANGED <<members, rowVars, readVars, ghosts>>

(* The row is marked deleted, whatever happened since it was read; a reply *)
(* then goes on to decrement its parent's count in a call of its own.      *)
DeleteWrite(r) ==
  /\ At(r, "delete_write")
  /\ LET m == req[r].message
     IN /\ status' = [status EXCEPT ![m] = "deleted"]
        /\ redeleted' = [redeleted EXCEPT ![m] =
                           IF status[m] = "deleted" THEN @ + 1 ELSE @]
        /\ repeated' = [p \in Messages |->
                          IF status[m] = "deleted" /\ parent[m] = p
                          THEN repeated[p] + 1 ELSE repeated[p]]
        /\ IF parent[m] = NoMessage THEN Finish(r) ELSE Goto(r, "decrement")
  /\ UNCHANGED <<members, sender, parent, replyCount, readVars, failures, lost>>

Decrement(r) ==
  /\ At(r, "decrement")
  /\ replyCount' = [replyCount EXCEPT ![parent[req[r].message]] = @ - 1]
  /\ Finish(r)
  /\ UNCHANGED <<members, status, sender, parent, readVars, ghosts>>

(* The update fails: the error is caught and logged, the delete succeeds.  *)
DecrementFails(r) ==
  /\ At(r, "decrement")
  /\ failures < MaxFailures
  /\ failures' = failures + 1
  /\ lost' = [lost EXCEPT ![parent[req[r].message]] = @ + 1]
  /\ Finish(r)
  /\ UNCHANGED <<members, rowVars, readVars, redeleted, repeated>>

-----------------------------------------------------------------------------
(* POST /messages/:id/read and the socket event: the receipt is upserted,  *)
(* then the counter of the room named in the body is reset.  Neither call  *)
(* asks for membership, for a live message, or for one of that room: the   *)
(* request may name this room for a message of this room, another room (or *)
(* one the user has no row in, where the update throws), or this room for  *)
(* a message of another one.                                               *)
Unreceipted(u, m) == {n \in {m} : <<n, u>> \notin reads}

MarkAsRead(r, u, m) ==
  /\ status[m] # "none"
  /\ reads' = reads \cup {<<m, u>>}
  /\ Begin(r, [Blank EXCEPT !.pc = "read_reset", !.user = u,
                 !.found = Unreceipted(u, m)])
  /\ UNCHANGED <<members, rowVars, unread, astray, ghosts>>

MarkAsReadElsewhere(r, u, m) ==
  /\ At(r, "idle")
  /\ status[m] # "none"
  /\ reads' = reads \cup {<<m, u>>}
  /\ astray' = [astray EXCEPT ![u] = @ \cup Unreceipted(u, m)]
  /\ UNCHANGED <<members, rowVars, unread, ghosts, req>>

MarkOtherAsRead(r, u) ==
  /\ Begin(r, [Blank EXCEPT !.pc = "read_reset", !.user = u])
  /\ UNCHANGED <<members, rowVars, readVars, ghosts>>

UnreadBy(u) == {m \in Messages : status[m] = "live" /\ <<m, u>> \notin reads}

(* markRoomAsRead: a batch of the unread messages is read, in no order ... *)
MarkRoomAsRead(r, u, batch) ==
  /\ batch \subseteq UnreadBy(u)
  /\ \/ Cardinality(batch) = ReadBatch
     \/ batch = UnreadBy(u) /\ Cardinality(batch) < ReadBatch
  /\ Begin(r, [Blank EXCEPT !.user = u, !.found = batch,
                 !.pc = IF batch = {} THEN "read_reset" ELSE "read_insert"])
  /\ UNCHANGED <<members, rowVars, readVars, ghosts>>

(* ... their receipts are inserted, and the counter is reset.              *)
ReadInsert(r) ==
  /\ At(r, "read_insert")
  /\ reads' = reads \cup {<<m, req[r].user>> : m \in req[r].found}
  /\ Goto(r, "read_reset")
  /\ UNCHANGED <<members, rowVars, unread, astray, ghosts>>

(* RoomMembersService.markAsRead (POST /rooms/:id/read): membership is     *)
(* asked for, and the counter reset without receipts.                      *)
MarkMemberAsRead(r, u) ==
  /\ active[u]
  /\ Begin(r, [Blank EXCEPT !.pc = "read_reset", !.user = u])
  /\ UNCHANGED <<members, rowVars, readVars, ghosts>>

Reset(u) == [unread EXCEPT ![u] = 0]

ReadReset(r) ==
  /\ At(r, "read_reset")
  /\ unread' = Reset(req[r].user)
  /\ astray' = [astray EXCEPT ![req[r].user] = {}]
  /\ Finish(r)
  /\ UNCHANGED <<members, rowVars, reads, ghosts>>

(* The update throws after the receipts were written, and so the request.  *)
ReadResetFails(r) ==
  /\ At(r, "read_reset")
  /\ failures < MaxFailures
  /\ failures' = failures + 1
  /\ astray' = [astray EXCEPT ![req[r].user] = @ \cup req[r].found]
  /\ Finish(r)
  /\ UNCHANGED <<members, rowVars, reads, unread, lost, redeleted, repeated>>

-----------------------------------------------------------------------------
(* The slots that owe message p a decrement.                               *)
Owing(p) == {r \in Requests : At(r, "decrement") /\ parent[req[r].message] = p}

(* The messages whose receipt is written and whose reset is still to come. *)
HalfRead(u) ==
  UNION {req[r].found : r \in {q \in Requests : At(q, "read_reset") /\ req[q].user = u}}

(* The server process dies: every request in progress ends where it is.    *)
Crash ==
  /\ failures < MaxFailures
  /\ failures' = failures + 1
  /\ lost' = [m \in Messages |-> lost[m] + Cardinality(Owing(m))]
  /\ astray' = [u \in Users |-> astray[u] \cup HalfRead(u)]
  /\ req' = [r \in Requests |-> Blank]
  /\ UNCHANGED <<members, rowVars, reads, unread, redeleted, repeated>>

Init ==
  /\ active = [u \in Users |-> TRUE]
  /\ admins = Admins
  /\ status = [m \in Messages |-> "none"]
  /\ sender = [m \in Messages |-> Nobody]
  /\ parent = [m \in Messages |-> NoMessage]
  /\ replyCount = [m \in Messages |-> 0]
  /\ reads = {}
  /\ unread = [u \in Users |-> 0]
  /\ req = [r \in Requests |-> Blank]
  /\ failures = 0
  /\ lost = [m \in Messages |-> 0]
  /\ redeleted = [m \in Messages |-> 0]
  /\ repeated = [m \in Messages |-> 0]
  /\ astray = [u \in Users |-> {}]

Arrive(r) ==
  \/ \E u \in Posters, p \in Messages \cup {NoMessage} : Create(r, u, p)
  \/ \E u \in Deleters, m \in Messages : Remove(r, u, m)
  \/ \E u \in Deleters, m \in Messages : DeleteFromSocket(r, u, m)
  \/ \E u \in Readers, m \in Messages : MarkAsRead(r, u, m)
  \/ \E u \in Readers, m \in Messages : MarkAsReadElsewhere(r, u, m)
  \/ \E u \in Readers : MarkOtherAsRead(r, u)
  \/ \E u \in Readers : \E batch \in SUBSET UnreadBy(u) : MarkRoomAsRead(r, u, batch)
  \/ \E u \in Readers : MarkMemberAsRead(r, u)

Continue(r) ==
  \/ CreateParent(r)
  \/ \E m \in Messages : CreateWrite(r, m)
  \/ RemoveMember(r)
  \/ RemoveRole(r)
  \/ DeleteFind(r)
  \/ DeleteWrite(r)
  \/ Decrement(r)
  \/ DecrementFails(r)
  \/ ReadInsert(r)
  \/ ReadReset(r)
  \/ ReadResetFails(r)

Next ==
  \/ \E r \in Requests : Arrive(r) \/ Continue(r)
  \/ \E u \in Leavers : ComeOrGo(u)
  \/ \E u \in Admins : ChangeRole(u)
  \/ Crash

Spec == Init /\ [][Next]_vars

-----------------------------------------------------------------------------
(* Types of the rows and of the requests' locals.                          *)
Request ==
  [pc : {"idle", "create_parent", "create_write", "remove_member", "remove_role",
         "delete_find", "delete_write", "decrement", "read_insert", "read_reset"},
   user : Users \cup {Nobody}, message : Messages \cup {NoMessage},
   admin : BOOLEAN, found : SUBSET Messages]

TypeOK ==
  /\ active \in [Users -> BOOLEAN]
  /\ admins \in SUBSET Admins
  /\ status \in [Messages -> {"none", "live", "deleted"}]
  /\ sender \in [Messages -> Users \cup {Nobody}]
  /\ parent \in [Messages -> Messages \cup {NoMessage}]
  /\ replyCount \in [Messages -> Int]
  /\ reads \in SUBSET (Messages \X Users)
  /\ unread \in [Users -> Nat]
  /\ req \in [Requests -> Request]
  /\ failures \in Nat
  /\ lost \in [Messages -> Nat]
  /\ redeleted \in [Messages -> Nat]
  /\ repeated \in [Messages -> Nat]
  /\ astray \in [Users -> SUBSET Messages]

Replies(p) == {m \in Messages : parent[m] = p}
LiveReplies(p) == {m \in Replies(p) : status[m] = "live"}

(* Threads are one level deep: a reply never has replies.                  *)
OneLevelThreads ==
  \A m \in Messages : parent[m] # NoMessage => parent[parent[m]] = NoMessage

(* A reply count is the number of live replies, plus one for every delete  *)
(* that has not decremented yet or never will, less one for every repeated *)
(* delete of the same reply: softDelete's check and its two writes are     *)
(* three calls, so both kinds of drift exist, and there is no other.       *)
ReplyCountAccounted ==
  \A p \in Messages :
    replyCount[p] = Cardinality(LiveReplies(p)) + Cardinality(Owing(p))
                      + lost[p] - repeated[p]

(* A message is deleted again only by requests that were in progress when  *)
(* it was deleted.                                                         *)
RedeletesBounded ==
  \A m \in Messages : redeleted[m] < Cardinality(Requests)

(* A message is deleted by its sender, or by someone who has or had a role *)
(* above member: however roles change between the calls of a delete, no    *)
(* one who never had such a role deletes the message of someone else.      *)
DeletedByRightUser ==
  [][\A m \in Messages : status[m] = "live" /\ status'[m] = "deleted" =>
       \E r \in Requests : /\ req'[r] # req[r] /\ req[r].message = m
                           /\ req[r].user = sender[m] \/ req[r].user \in Admins]_vars

(* The messages by others that the counter of u may still count: those u   *)
(* has no receipt for, and those whose receipt no reset has followed, as   *)
(* it is yet to come, failed, died with the server or hit another room.    *)
Uncounted(u) ==
  {m \in Messages : /\ status[m] # "none"
                     /\ sender[m] # u
                     /\ \/ <<m, u>> \notin reads
                        \/ m \in HalfRead(u) \cup astray[u]}

(* The unread counter never exceeds the number of those messages: it runs  *)
(* ahead of the receipts by no more than the resets that are missing since *)
(* the last one, whatever is posted, marked or lost in between.            *)
UnreadBacked == \A u \in Users : unread[u] <= Cardinality(Uncounted(u))

=============================================================================
