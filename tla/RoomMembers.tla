---------------------------- MODULE RoomMembers ----------------------------
(***************************************************************************)
(* The membership of one room: who is in it, in which role, muted or not,  *)
(* and the invite links that let users in.  It models RoomMembersService   *)
(* and the membership half of RoomsService.                                *)
(*                                                                         *)
(* A handler is async: every awaited Prisma call is one atomic step of the *)
(* database, and the handlers of other requests run between two calls.  A  *)
(* request in progress occupies a slot; its record holds what the handler  *)
(* keeps in local variables from one await to the next.  A handler that    *)
(* throws frees its slot and writes nothing more.  Writes are addressed to *)
(* a row by its id, so they do not repeat the checks made when it was read.*)
(***************************************************************************)
EXTENDS Naturals, FiniteSets

CONSTANTS
  Users,          \* the users of the system
  Requests,       \* the slots: how many requests may be in progress at once
  Invites,        \* the invite links that can be created
  Limits,         \* the values of an invite's maxUses; Unlimited stands for null
  RoleInputs,     \* the roles a PATCH of a member may carry (UpdateMemberDto)
  MuteInputs,     \* the mute states it may carry
  UnlimitedBound, \* bound: the uses of an invite without maxUses
  Nobody,         \* the user field of a slot that has none
  NoInvite        \* the invite field of a slot that has none

Unlimited == 0
MemberRole == {"owner", "admin", "member"}
MuteState == {"muted", "unmuted"}

ASSUME ConstantsAssumption ==
  /\ IsFiniteSet(Requests)
  /\ Limits \subseteq Nat
  /\ UnlimitedBound \in Nat
  /\ RoleInputs \subseteq MemberRole
  /\ MuteInputs \subseteq MuteState
  /\ Nobody \notin Users
  /\ NoInvite \notin Invites

VARIABLES
  role,         \* role of each user's RoomMember row; "none": no row
  active,       \* the row exists and its leftAt is null
  mute,         \* its isMuted
  archived,     \* Room.isArchived
  inviteState,  \* "unused": not created; "deleted": its row is gone
  maxUses,      \* RoomInvite.maxUses
  useCount,     \* RoomInvite.useCount
  req           \* the requests in progress

rows == <<role, active, mute>>
links == <<inviteState, maxUses, useCount>>
vars == <<role, active, mute, archived, inviteState, maxUses, useCount, req>>

-----------------------------------------------------------------------------
(* ROLE_WEIGHT *)
Weight(x) == CASE x = "owner" -> 3 [] x = "admin" -> 2 [] x = "member" -> 1
               [] OTHER -> 0

(* requireMembership and requireRole: the row of u passes the check.       *)
IsMember(u) == active[u]
HasRole(u, minimumRole) == active[u] /\ Weight(role[u]) >= Weight(minimumRole)

Owns(u) == HasRole(u, "owner")
HasRow(u) == role[u] # "none"

(* A request's locals.  "was" is the role the handler read in the actor's  *)
(* row, "dto" the role and mute state it was given ("keep": not given),    *)
(* "add" and "back" are addMembers' toCreate and toRejoin.                 *)
Blank == [pc |-> "idle", actor |-> Nobody, target |-> Nobody, was |-> "none",
          newRole |-> "keep", newMute |-> "keep", invite |-> NoInvite,
          add |-> {}, back |-> {}]

Steps == {"idle", "add_find", "add_insert", "add_rejoin", "update_target",
          "update_write", "remove_target", "remove_write", "leave_count",
          "leave_write", "transfer_target", "transfer_write", "invite_create",
          "join_member", "join_write", "uninvite_role", "uninvite_delete",
          "archive_write", "unarchive_write"}

Begin(r, locals) == req[r].pc = "idle" /\ req' = [req EXCEPT ![r] = locals]
At(r, step) == req[r].pc = step
Goto(r, step) == req' = [req EXCEPT ![r] = [@ EXCEPT !.pc = step, !.was = "none"]]
Finish(r) == req' = [req EXCEPT ![r] = Blank]

(* A step that reads rows: the handler goes on if the check passes and     *)
(* throws otherwise.  The role it read earlier is not looked at again.     *)
CheckThen(r, check, step) ==
  /\ IF check THEN Goto(r, step) ELSE Finish(r)
  /\ UNCHANGED <<rows, links, archived>>

-----------------------------------------------------------------------------
(* POST /rooms, group or channel: the room and its owner's row are one     *)
(* insert; the initial members are added by addMembers afterwards.         *)
Create(r, creator, memberIds) ==
  /\ \A u \in Users : ~HasRow(u)
  /\ role' = [role EXCEPT ![creator] = "owner"]
  /\ active' = [active EXCEPT ![creator] = TRUE]
  /\ Begin(r, IF memberIds = {} THEN Blank
              ELSE [Blank EXCEPT !.pc = "add_find", !.add = memberIds])
  /\ UNCHANGED <<mute, archived, links>>

AddMembersFind(r) ==
  /\ At(r, "add_find")
  /\ req' = [req EXCEPT ![r] =
       [@ EXCEPT !.pc = "add_insert",
                 !.add = {u \in req[r].add : ~HasRow(u)},
                 !.back = {u \in req[r].add : HasRow(u) /\ ~active[u]}]]
  /\ UNCHANGED <<rows, links, archived>>

(* createMany with skipDuplicates leaves the rows that exist by now alone. *)
AddMembersInsert(r) ==
  /\ At(r, "add_insert")
  /\ LET new == {u \in req[r].add : ~HasRow(u)}
     IN /\ role' = [u \in Users |-> IF u \in new THEN "member" ELSE role[u]]
        /\ active' = [u \in Users |-> u \in new \/ active[u]]
  /\ IF req[r].back = {} THEN Finish(r) ELSE Goto(r, "add_rejoin")
  /\ UNCHANGED <<mute, links, archived>>

(* Promise.all over one update for each member who had left, in any order. *)
AddMembersRejoin(r, u) ==
  /\ At(r, "add_rejoin")
  /\ u \in req[r].back
  /\ role' = [role EXCEPT ![u] = "member"]
  /\ active' = [active EXCEPT ![u] = TRUE]
  /\ IF req[r].back = {u} THEN Finish(r)
     ELSE req' = [req EXCEPT ![r].back = @ \ {u}]
  /\ UNCHANGED <<mute, links, archived>>

-----------------------------------------------------------------------------
(* PATCH /rooms/:id/members/:userId.  Membership alone is required of the  *)
(* actor, and the roles are compared only when the request carries a role. *)
UpdateMember(r, actor, target, newRole, newMute) ==
  /\ IsMember(actor)
  /\ Begin(r, [Blank EXCEPT !.pc = "update_target", !.actor = actor,
                            !.target = target, !.was = role[actor],
                            !.newRole = newRole, !.newMute = newMute])
  /\ UNCHANGED <<rows, links, archived>>

MayUpdate(was, target, newRole) ==
  /\ IsMember(target)
  /\ role[target] # "owner"
  /\ newRole # "keep" => Weight(was) > Weight(role[target])

UpdateMemberTarget(r) ==
  /\ At(r, "update_target")
  /\ CheckThen(r, MayUpdate(req[r].was, req[r].target, req[r].newRole),
               "update_write")

(* A field of the request that is not given leaves its column as it is.    *)
WriteAnyway(given, old) == given
Overwrite(given, old) == IF given = "keep" THEN old ELSE given

UpdateMemberWrite(r) ==
  /\ At(r, "update_write")
  /\ LET q == req[r]
     IN /\ role' = [role EXCEPT ![q.target] = Overwrite(q.newRole, @)]
        /\ mute' = [mute EXCEPT ![q.target] = Overwrite(q.newMute, @)]
  /\ Finish(r)
  /\ UNCHANGED <<active, links, archived>>

(* DELETE /rooms/:id/members/:userId: kick.                                *)
RemoveMember(r, actor, target) ==
  /\ HasRole(actor, "admin")
  /\ Begin(r, [Blank EXCEPT !.pc = "remove_target", !.actor = actor,
                            !.target = target, !.was = role[actor]])
  /\ UNCHANGED <<rows, links, archived>>

MayRemoveEquals(was, target) ==
  /\ IsMember(target)
  /\ role[target] # "owner"
  /\ Weight(was) >= Weight(role[target])

MayRemove(was, target) ==
  /\ IsMember(target)
  /\ role[target] # "owner"
  /\ Weight(was) > Weight(role[target])

RemoveMemberTarget(r) ==
  /\ At(r, "remove_target")
  /\ CheckThen(r, MayRemove(req[r].was, req[r].target), "remove_write")

RemoveMemberWrite(r) ==
  /\ At(r, "remove_write")
  /\ active' = [active EXCEPT ![req[r].target] = FALSE]
  /\ Finish(r)
  /\ UNCHANGED <<role, mute, links, archived>>

(* Leaving.  Only an owner counts the other members first; the row keeps   *)
(* its role when leftAt is set.                                            *)
LeaveRoom(r, user) ==
  /\ IsMember(user)
  /\ Begin(r, [Blank EXCEPT !.actor = user,
                  !.pc = IF role[user] = "owner" THEN "leave_count"
                         ELSE "leave_write"])
  /\ UNCHANGED <<rows, links, archived>>

OtherAdminsIn(user) == {u \in Users \ {user} : HasRole(u, "admin")}

OthersIn(user) == {u \in Users \ {user} : active[u]}

LeaveRoomCount(r) ==
  /\ At(r, "leave_count")
  /\ CheckThen(r, OthersIn(req[r].actor) = {}, "leave_write")

LeaveRoomWrite(r) ==
  /\ At(r, "leave_write")
  /\ active' = [active EXCEPT ![req[r].actor] = FALSE]
  /\ Finish(r)
  /\ UNCHANGED <<role, mute, links, archived>>

(* Handing the room over: two updates in one transaction, in this order.   *)
TransferOwnership(r, currentOwner, newOwner) ==
  /\ HasRole(currentOwner, "owner")
  /\ Begin(r, [Blank EXCEPT !.pc = "transfer_target", !.actor = currentOwner,
                            !.target = newOwner])
  /\ UNCHANGED <<rows, links, archived>>

TransferOwnershipTarget(r) ==
  /\ At(r, "transfer_target")
  /\ CheckThen(r, IsMember(req[r].target), "transfer_write")

NoDemotion == "owner"
DemotedTo == "admin"

TransferOwnershipWrite(r) ==
  /\ At(r, "transfer_write")
  /\ role' = [role EXCEPT ![req[r].actor] = DemotedTo, ![req[r].target] = "owner"]
  /\ Finish(r)
  /\ UNCHANGED <<active, mute, links, archived>>

-----------------------------------------------------------------------------
(* Invite links.                                                           *)
CreateInvite(r, actor, i) ==
  /\ inviteState[i] = "unused"
  /\ \A s \in Requests : ~(At(s, "invite_create") /\ req[s].invite = i)
  /\ HasRole(actor, "admin")
  /\ Begin(r, [Blank EXCEPT !.pc = "invite_create", !.invite = i])
  /\ UNCHANGED <<rows, links, archived>>

CreateInviteWrite(r, limit) ==
  /\ At(r, "invite_create")
  /\ inviteState' = [inviteState EXCEPT ![req[r].invite] = "open"]
  /\ maxUses' = [maxUses EXCEPT ![req[r].invite] = limit]
  /\ Finish(r)
  /\ UNCHANGED <<rows, useCount, archived>>

(* The clock passes expiresAt.  An invite without expiresAt is one for     *)
(* which this never happens.                                               *)
Expire(i) ==
  /\ inviteState[i] = "open"
  /\ inviteState' = [inviteState EXCEPT ![i] = "expired"]
  /\ UNCHANGED <<rows, maxUses, useCount, archived, req>>

InviteExists(i) == inviteState[i] \in {"open", "expired"}

(* useInvite's checks of the invite and its room, read in one query.       *)
AdmitsOneMore(i) ==
  /\ inviteState[i] = "open"
  /\ ~archived
  /\ maxUses[i] # Unlimited => useCount[i] <= maxUses[i]

Admits(i) ==
  /\ inviteState[i] = "open"
  /\ ~archived
  /\ maxUses[i] # Unlimited => useCount[i] < maxUses[i]

UseInvite(r, user, i) ==
  /\ Admits(i)
  /\ maxUses[i] = Unlimited => useCount[i] < UnlimitedBound
  /\ Begin(r, [Blank EXCEPT !.pc = "join_member", !.actor = user, !.invite = i])
  /\ UNCHANGED <<rows, links, archived>>

MayJoinAgain(user) == TRUE
MayJoin(user) == ~IsMember(user)

UseInviteMember(r) ==
  /\ At(r, "join_member")
  /\ CheckThen(r, MayJoin(req[r].actor), "join_write")

(* The transaction upserts the member's row and counts the use.  The count *)
(* is an update of the invite's row: if it was deleted meanwhile the whole *)
(* transaction is rolled back.  The upsert sets leftAt and the role, and   *)
(* nothing else of a row that exists.                                      *)
KeptRole(user) == IF HasRow(user) THEN role[user] ELSE "member"
UpsertedRole(user) == "member"

FreshMute(user) == "unmuted"
UpsertedMute(user) == mute[user]

AlwaysCommits(i) == TRUE
UseCommits(i) == InviteExists(i)

UseInviteWrite(r) ==
  /\ At(r, "join_write")
  /\ LET user == req[r].actor  i == req[r].invite
     IN IF UseCommits(i)
        THEN /\ role' = [role EXCEPT ![user] = UpsertedRole(user)]
             /\ active' = [active EXCEPT ![user] = TRUE]
             /\ mute' = [mute EXCEPT ![user] = UpsertedMute(user)]
             /\ useCount' = [useCount EXCEPT ![i] = @ + 1]
        ELSE UNCHANGED <<rows, useCount>>
  /\ Finish(r)
  /\ UNCHANGED <<inviteState, maxUses, archived>>

DeleteInvite(r, actor, i) ==
  /\ InviteExists(i)
  /\ Begin(r, [Blank EXCEPT !.pc = "uninvite_role", !.actor = actor,
                            !.invite = i])
  /\ UNCHANGED <<rows, links, archived>>

DeleteInviteRole(r) ==
  /\ At(r, "uninvite_role")
  /\ req' = [req EXCEPT ![r] =
       IF HasRole(@.actor, "admin")
       THEN [Blank EXCEPT !.pc = "uninvite_delete", !.invite = req[r].invite]
       ELSE Blank]
  /\ UNCHANGED <<rows, links, archived>>

(* Deleting a row that is gone throws and changes nothing.                 *)
DeleteInviteWrite(r) ==
  /\ At(r, "uninvite_delete")
  /\ inviteState' = [inviteState EXCEPT ![req[r].invite] = "deleted"]
  /\ Finish(r)
  /\ UNCHANGED <<rows, maxUses, useCount, archived>>

-----------------------------------------------------------------------------
(* archive and unarchive: the owner's role is checked, then the flag set.  *)
Archive(r, actor, to) ==
  /\ HasRole(actor, "owner")
  /\ Begin(r, [Blank EXCEPT !.pc = to])
  /\ UNCHANGED <<rows, links, archived>>

ArchiveWrite(r) ==
  /\ At(r, "archive_write") \/ At(r, "unarchive_write")
  /\ archived' = At(r, "archive_write")
  /\ Finish(r)
  /\ UNCHANGED <<rows, links>>

-----------------------------------------------------------------------------
Init ==
  /\ role = [u \in Users |-> "none"]
  /\ active = [u \in Users |-> FALSE]
  /\ mute = [u \in Users |-> "unmuted"]
  /\ archived = FALSE
  /\ inviteState = [i \in Invites |-> "unused"]
  /\ maxUses = [i \in Invites |-> Unlimited]
  /\ useCount = [i \in Invites |-> 0]
  /\ req = [r \in Requests |-> Blank]

(* The first step of a handler, with every argument a client may send.     *)
Arrive(r) ==
  \/ \E u \in Users, ids \in SUBSET Users : Create(r, u, ids)
  \/ \E u, v \in Users, x \in RoleInputs \cup {"keep"},
        m \in MuteInputs \cup {"keep"} : UpdateMember(r, u, v, x, m)
  \/ \E u, v \in Users : RemoveMember(r, u, v)
  \/ \E u \in Users : LeaveRoom(r, u)
  \/ \E u, v \in Users : TransferOwnership(r, u, v)
  \/ \E u \in Users, i \in Invites : CreateInvite(r, u, i)
  \/ \E u \in Users, i \in Invites : UseInvite(r, u, i)
  \/ \E u \in Users, i \in Invites : DeleteInvite(r, u, i)
  \/ \E u \in Users, to \in {"archive_write", "unarchive_write"} :
        Archive(r, u, to)

(* A later step of a handler.                                              *)
Continue(r) ==
  \/ AddMembersFind(r)
  \/ AddMembersInsert(r)
  \/ \E u \in Users : AddMembersRejoin(r, u)
  \/ UpdateMemberTarget(r)
  \/ UpdateMemberWrite(r)
  \/ RemoveMemberTarget(r)
  \/ RemoveMemberWrite(r)
  \/ LeaveRoomCount(r)
  \/ LeaveRoomWrite(r)
  \/ TransferOwnershipTarget(r)
  \/ TransferOwnershipWrite(r)
  \/ \E limit \in Limits : CreateInviteWrite(r, limit)
  \/ UseInviteMember(r)
  \/ UseInviteWrite(r)
  \/ DeleteInviteRole(r)
  \/ DeleteInviteWrite(r)
  \/ ArchiveWrite(r)

Next == (\E r \in Requests : Arrive(r) \/ Continue(r)) \/ (\E i \in Invites : Expire(i))

Spec == Init /\ [][Next]_vars

-----------------------------------------------------------------------------
(* Types of the rows, the links and the requests' locals.                  *)
Request ==
  [pc : Steps, actor : Users \cup {Nobody}, target : Users \cup {Nobody},
   was : MemberRole \cup {"none"}, newRole : RoleInputs \cup {"keep"},
   newMute : MuteInputs \cup {"keep"}, invite : Invites \cup {NoInvite},
   add : SUBSET Users, back : SUBSET Users]

TypeOK ==
  /\ role \in [Users -> MemberRole \cup {"none"}]
  /\ active \in [Users -> BOOLEAN]
  /\ mute \in [Users -> MuteState]
  /\ archived \in BOOLEAN
  /\ inviteState \in [Invites -> {"unused", "open", "expired", "deleted"}]
  /\ maxUses \in [Invites -> Limits \cup {Unlimited}]
  /\ useCount \in [Invites -> Nat]
  /\ req \in [Requests -> Request]

(* At most one RoomMember row of the room has the owner role, rows of      *)
(* users who left included.  Nothing in the schema says so.  A PATCH may   *)
(* carry the role "owner" (UpdateMemberDto), so it holds only while none   *)
(* does, and rests on transferOwnership demoting the owner it replaces.    *)
AtMostOneOwner ==
  \A u, v \in Users : role[u] = "owner" /\ role[v] = "owner" => u = v

Owners == {u \in Users : role[u] = "owner"}

(* Whatever the requests carry, a room that has an owner gets one more     *)
(* only by a PATCH that gives the role: a transfer moves the role.         *)
OwnersGrowByPatchOnly ==
  [][Owners # {} /\ Cardinality(Owners') > Cardinality(Owners) =>
       \E r \in Requests : At(r, "update_write") /\ req[r].newRole = "owner"]_vars

(* A room never loses its last active owner while anyone is still in it:   *)
(* "Transfer ownership before leaving the room" (leaveRoom), "Cannot       *)
(* modify the room owner" and "Cannot remove the room owner".              *)
OwnerNeverAbandons ==
  [][(\E u \in Users : Owns(u)) =>
       (\E u \in Users : Owns(u))' \/ (\A u \in Users : ~active'[u])]_vars

(* An admin loses the admin role or is put out of the room only by the     *)
(* owner, or by the admin leaving: "Admin can only modify members; only    *)
(* owner can manage admins" (updateMember), and the same rule of kicks.    *)
OnlyOwnerManagesAdmins ==
  [][\A u \in Users :
       HasRole(u, "admin") /\ ~Owns(u) /\ ~(HasRole(u, "admin"))' =>
         \E r \in Requests : /\ req'[r] # req[r]
                             /\ req[r].actor = u \/ Owns(req[r].actor)]_vars

(* Muting and unmuting are for admins and the owner.                       *)
MuteByAdminsOnly ==
  [][\A u \in Users : mute'[u] # mute[u] =>
       \E r \in Requests : req'[r] # req[r] /\ HasRole(req[r].actor, "admin")]_vars

(* A mute is not shaken off by leaving (or being kicked) and coming back   *)
(* through an invite: coming and going leaves isMuted alone.               *)
MuteSurvivesRejoin ==
  [][\A u \in Users : active'[u] # active[u] => mute'[u] = mute[u]]_vars

(* Whoever comes in, or comes back, is a plain member, whatever role the   *)
(* row had when it was left behind.                                        *)
JoinsAsPlainMember ==
  [][(\E u \in Users : HasRow(u)) =>
       \A u \in Users : ~active[u] /\ active'[u] => role'[u] = "member"]_vars

(* A use of an invite is never spent on someone who is in the room.        *)
EachUseAdmitsOne ==
  [][\A i \in Invites : useCount'[i] # useCount[i] =>
       \E u \in Users : ~active[u] /\ active'[u]]_vars

(* After its creation nobody enters the room except as one of the initial  *)
(* members or by a counted use of an invite that still exists, however     *)
(* long ago the request passed the checks.                                 *)
AdmissionIsCounted ==
  [][\A u \in Users : ~active[u] /\ active'[u] /\ (\E v \in Users : HasRow(v)) =>
       \/ \E i \in Invites : InviteExists(i) /\ useCount'[i] = useCount[i] + 1
       \/ \E r \in Requests : \/ At(r, "add_insert") /\ u \in req[r].add
                              \/ At(r, "add_rejoin") /\ u \in req[r].back]_vars

(* The check of maxUses and the increment are different database calls, so *)
(* an invite can be used more often than maxUses allows: by one for every  *)
(* further request that was in progress, and never by more.                *)
InviteOvershootBounded ==
  \A i \in Invites : maxUses[i] # Unlimited =>
    useCount[i] <= (maxUses[i] + Cardinality(Requests)) - 1

=============================================================================
