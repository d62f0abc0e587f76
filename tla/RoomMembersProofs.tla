------------------------- MODULE RoomMembersProofs -------------------------
(***************************************************************************)
(* Theorems about RoomMembers, for any number of users, slots and invites. *)
(***************************************************************************)
EXTENDS RoomMembers, FiniteSetTheorems, TLAPS

-----------------------------------------------------------------------------
(* How the helpers that move a slot keep the type of req.                  *)

(* A free slot's record has the type of a request.                         *)
LEMMA BlankType == Blank \in Request
  BY DEF Blank, Request, Steps

(* Beginning, continuing and finishing a request keep the type of req.     *)
LEMMA SlotTypes ==
  ASSUME NEW r \in Requests, req \in [Requests -> Request]
  PROVE  /\ \A l \in Request : Begin(r, l) => req' \in [Requests -> Request]
         /\ \A step \in Steps : Goto(r, step) => req' \in [Requests -> Request]
         /\ Finish(r) => req' \in [Requests -> Request]
<1>1. \A l \in Request : Begin(r, l) => req' \in [Requests -> Request]
  BY DEF Begin
<1>2. ASSUME NEW step \in Steps, Goto(r, step)
      PROVE  req' \in [Requests -> Request]
  <2>1. [req[r] EXCEPT !.pc = step, !.was = "none"] \in Request
    BY DEF Request
  <2>2. QED  BY <1>2, <2>1 DEF Goto
<1>3. Finish(r) => req' \in [Requests -> Request]
  BY BlankType DEF Finish
<1>4. QED  BY <1>1, <1>2, <1>3

-----------------------------------------------------------------------------
(* Type correctness.                                                       *)
LEMMA TypeInit == Init => TypeOK
<1> SUFFICES ASSUME Init PROVE TypeOK
  OBVIOUS
<1>1. req \in [Requests -> Request]
  BY BlankType DEF Init
<1>2. /\ role \in [Users -> MemberRole \cup {"none"}]
      /\ active \in [Users -> BOOLEAN]
      /\ mute \in [Users -> MuteState]
  BY DEF Init, MemberRole, MuteState
<1>3. /\ archived \in BOOLEAN
      /\ inviteState \in [Invites -> {"unused", "open", "expired", "deleted"}]
      /\ maxUses \in [Invites -> Limits \cup {Unlimited}]
      /\ useCount \in [Invites -> Nat]
  BY DEF Init
<1>4. QED  BY <1>1, <1>2, <1>3 DEF TypeOK

(* Every first step of a handler keeps the types: it writes no row but for *)
(* Create.                                                                 *)
LEMMA TypeArrive ==
  ASSUME ConstantsAssumption, TypeOK, NEW r \in Requests, Arrive(r)
  PROVE  TypeOK'
<1> USE DEF MemberRole, MuteState, rows, links
<1>1. ASSUME NEW l \in Request, Begin(r, l), UNCHANGED <<rows, links, archived>>
      PROVE  TypeOK'
  BY <1>1, SlotTypes DEF TypeOK
<1>2. ASSUME NEW u \in Users, NEW ids \in SUBSET Users, Create(r, u, ids)
      PROVE  TypeOK'
  <2>1. [Blank EXCEPT !.pc = "add_find", !.add = ids] \in Request
    BY DEF Blank, Request, Steps
  <2>2. req' \in [Requests -> Request]
    BY <1>2, <2>1, BlankType, SlotTypes DEF Create, TypeOK
  <2>3. QED  BY <1>2, <2>2 DEF Create, TypeOK
<1>3. ASSUME NEW u \in Users, NEW v \in Users,
             NEW x \in RoleInputs \cup {"keep"}, NEW m \in MuteInputs \cup {"keep"},
             UpdateMember(r, u, v, x, m)
      PROVE  TypeOK'
  <2>1. [Blank EXCEPT !.pc = "update_target", !.actor = u, !.target = v,
                      !.was = role[u], !.newRole = x, !.newMute = m] \in Request
    BY DEF Blank, Request, Steps, TypeOK
  <2>2. QED  BY <1>1, <1>3, <2>1 DEF UpdateMember
<1>4. ASSUME NEW u \in Users, NEW v \in Users, RemoveMember(r, u, v)
      PROVE  TypeOK'
  <2>1. [Blank EXCEPT !.pc = "remove_target", !.actor = u, !.target = v,
                      !.was = role[u]] \in Request
    BY DEF Blank, Request, Steps, TypeOK
  <2>2. QED  BY <1>1, <1>4, <2>1 DEF RemoveMember
<1>5. ASSUME NEW u \in Users, LeaveRoom(r, u)
      PROVE  TypeOK'
  <2>1. [Blank EXCEPT !.actor = u,
           !.pc = IF role[u] = "owner" THEN "leave_count" ELSE "leave_write"]
          \in Request
    BY DEF Blank, Request, Steps
  <2>2. QED  BY <1>1, <1>5, <2>1 DEF LeaveRoom
<1>6. ASSUME NEW u \in Users, NEW v \in Users, TransferOwnership(r, u, v)
      PROVE  TypeOK'
  <2>1. [Blank EXCEPT !.pc = "transfer_target", !.actor = u, !.target = v]
          \in Request
    BY DEF Blank, Request, Steps
  <2>2. QED  BY <1>1, <1>6, <2>1 DEF TransferOwnership
<1>7. ASSUME NEW u \in Users, NEW i \in Invites, CreateInvite(r, u, i)
      PROVE  TypeOK'
  <2>1. [Blank EXCEPT !.pc = "invite_create", !.invite = i] \in Request
    BY DEF Blank, Request, Steps
  <2>2. QED  BY <1>1, <1>7, <2>1 DEF CreateInvite
<1>8. ASSUME NEW u \in Users, NEW i \in Invites, UseInvite(r, u, i)
      PROVE  TypeOK'
  <2>1. [Blank EXCEPT !.pc = "join_member", !.actor = u, !.invite = i] \in Request
    BY DEF Blank, Request, Steps
  <2>2. QED  BY <1>1, <1>8, <2>1 DEF UseInvite
<1>9. ASSUME NEW u \in Users, NEW i \in Invites, DeleteInvite(r, u, i)
      PROVE  TypeOK'
  <2>1. [Blank EXCEPT !.pc = "uninvite_role", !.actor = u, !.invite = i] \in Request
    BY DEF Blank, Request, Steps
  <2>2. QED  BY <1>1, <1>9, <2>1 DEF DeleteInvite
<1>10. ASSUME NEW u \in Users, NEW to \in {"archive_write", "unarchive_write"},
              Archive(r, u, to)
       PROVE  TypeOK'
  <2>1. [Blank EXCEPT !.pc = to] \in Request
    BY DEF Blank, Request, Steps
  <2>2. QED  BY <1>1, <1>10, <2>1 DEF Archive
<1>11. QED
  BY <1>2, <1>3, <1>4, <1>5, <1>6, <1>7, <1>8, <1>9, <1>10 DEF Arrive

(* And so does every later step.                                           *)
LEMMA TypeContinue ==
  ASSUME ConstantsAssumption, TypeOK, NEW r \in Requests, Continue(r)
  PROVE  TypeOK'
<1> USE DEF MemberRole, MuteState, rows, links
<1>0. /\ req \in [Requests -> Request]
      /\ Finish(r) => req' \in [Requests -> Request]
      /\ \A step \in Steps : Goto(r, step) => req' \in [Requests -> Request]
  BY SlotTypes DEF TypeOK
<1>1. ASSUME NEW step \in Steps, NEW check, CheckThen(r, check, step)
      PROVE  TypeOK'
  BY <1>0, <1>1 DEF CheckThen, TypeOK
<1>2. AddMembersFind(r) => TypeOK'
  <2> SUFFICES ASSUME AddMembersFind(r) PROVE TypeOK'
    OBVIOUS
  <2> DEFINE add == {u \in req[r].add : ~HasRow(u)}
             back == {u \in req[r].add : HasRow(u) /\ ~active[u]}
             q == [req[r] EXCEPT !.pc = "add_insert", !.add = add, !.back = back]
  <2>1. req[r] \in Request /\ req[r].add \subseteq Users
    BY <1>0 DEF Request
  <2>2. add \in SUBSET Users /\ back \in SUBSET Users
    BY <2>1
  <2>3. req' = [req EXCEPT ![r] = q]
    BY DEF AddMembersFind
  <2> HIDE DEF add, back
  <2>4. q \in Request
    BY <2>1, <2>2 DEF Request, Steps
  <2>5. req' \in [Requests -> Request]
    BY <1>0, <2>3, <2>4
  <2>6. QED  BY <2>5 DEF AddMembersFind, TypeOK
<1>3. AddMembersInsert(r) => TypeOK'
  <2> SUFFICES ASSUME AddMembersInsert(r) PROVE TypeOK'
    OBVIOUS
  <2>1. req' \in [Requests -> Request]
    BY <1>0 DEF AddMembersInsert, Steps
  <2>2. QED  BY <2>1 DEF AddMembersInsert, TypeOK
<1>4. ASSUME NEW u \in Users, AddMembersRejoin(r, u)
      PROVE  TypeOK'
  <2>1. req' \in [Requests -> Request]
    BY <1>0, <1>4 DEF AddMembersRejoin, Request
  <2>2. QED  BY <1>4, <2>1 DEF AddMembersRejoin, TypeOK
<1>5. UpdateMemberTarget(r) => TypeOK'
  BY <1>1 DEF UpdateMemberTarget, Steps
<1>6. UpdateMemberWrite(r) => TypeOK'
  <2> SUFFICES ASSUME UpdateMemberWrite(r) PROVE TypeOK'
    OBVIOUS
  <2> DEFINE q == req[r]
  <2>1. /\ q.newRole \in MemberRole \cup {"keep"}
        /\ q.newMute \in MuteState \cup {"keep"}
    BY <1>0 DEF Request, ConstantsAssumption
  <2>2. role' \in [Users -> MemberRole \cup {"none"}]
    BY <2>1 DEF UpdateMemberWrite, Overwrite, TypeOK
  <2>3. mute' \in [Users -> MuteState]
    BY <2>1 DEF UpdateMemberWrite, Overwrite, TypeOK
  <2>4. QED  BY <1>0, <2>2, <2>3 DEF UpdateMemberWrite, TypeOK
<1>7. RemoveMemberTarget(r) => TypeOK'
  BY <1>1 DEF RemoveMemberTarget, Steps
<1>8. RemoveMemberWrite(r) => TypeOK'
  BY <1>0 DEF RemoveMemberWrite, TypeOK
<1>9. LeaveRoomCount(r) => TypeOK'
  BY <1>1 DEF LeaveRoomCount, Steps
<1>10. LeaveRoomWrite(r) => TypeOK'
  BY <1>0 DEF LeaveRoomWrite, TypeOK
<1>11. TransferOwnershipTarget(r) => TypeOK'
  BY <1>1 DEF TransferOwnershipTarget, Steps
<1>12. TransferOwnershipWrite(r) => TypeOK'
  BY <1>0 DEF TransferOwnershipWrite, DemotedTo, TypeOK
<1>13. ASSUME NEW limit \in Limits, CreateInviteWrite(r, limit)
       PROVE  TypeOK'
  BY <1>0, <1>13 DEF CreateInviteWrite, TypeOK
<1>14. UseInviteMember(r) => TypeOK'
  BY <1>1 DEF UseInviteMember, Steps
<1>15. UseInviteWrite(r) => TypeOK'
  <2> SUFFICES ASSUME UseInviteWrite(r) PROVE TypeOK'
    OBVIOUS
  <2>1. /\ role' \in [Users -> MemberRole \cup {"none"}]
        /\ active' \in [Users -> BOOLEAN]
    BY DEF UseInviteWrite, UpsertedRole, TypeOK
  <2>2. mute' \in [Users -> MuteState]
    BY DEF UseInviteWrite, UpsertedMute, TypeOK
  <2>3. useCount' \in [Invites -> Nat]
    BY DEF UseInviteWrite, TypeOK
  <2>4. QED  BY <1>0, <2>1, <2>2, <2>3 DEF UseInviteWrite, TypeOK
<1>16. DeleteInviteRole(r) => TypeOK'
  <2> SUFFICES ASSUME DeleteInviteRole(r) PROVE TypeOK'
    OBVIOUS
  <2>1. [Blank EXCEPT !.pc = "uninvite_delete", !.invite = req[r].invite]
          \in Request
    BY <1>0 DEF Blank, Request, Steps
  <2>2. req' \in [Requests -> Request]
    BY <1>0, <2>1, BlankType DEF DeleteInviteRole
  <2>3. QED  BY <2>2 DEF DeleteInviteRole, TypeOK
<1>17. DeleteInviteWrite(r) => TypeOK'
  BY <1>0 DEF DeleteInviteWrite, TypeOK
<1>18. ArchiveWrite(r) => TypeOK'
  BY <1>0 DEF ArchiveWrite, TypeOK, At
<1>19. QED
  BY <1>2, <1>3, <1>4, <1>5, <1>6, <1>7, <1>8, <1>9, <1>10, <1>11, <1>12,
     <1>13, <1>14, <1>15, <1>16, <1>17, <1>18 DEF Continue

(* Types are preserved by every step of the specification.                 *)
LEMMA TypeNext == ConstantsAssumption /\ TypeOK /\ [Next]_vars => TypeOK'
<1> SUFFICES ASSUME ConstantsAssumption, TypeOK, [Next]_vars PROVE TypeOK'
  OBVIOUS
<1>1. ASSUME NEW i \in Invites, Expire(i) PROVE TypeOK'
  BY <1>1 DEF Expire, TypeOK, rows
<1>2. CASE UNCHANGED vars
  BY <1>2 DEF TypeOK, vars
<1>3. QED  BY <1>1, <1>2, TypeArrive, TypeContinue DEF Next

(* The rows, links and locals always have the types the code gives them.   *)
THEOREM TypeCorrect == Spec => []TypeOK
<1>1. Init => TypeOK
  BY TypeInit
<1>2. TypeOK /\ [Next]_vars => TypeOK'
  BY TypeNext, ConstantsAssumption
<1>3. QED  BY <1>1, <1>2, PTL DEF Spec

-----------------------------------------------------------------------------
(* How far an invite can be overused.                                      *)
(*                                                                         *)
(* The bound is not inductive: it forgets the requests that have passed    *)
(* the check of maxUses and have not counted their use yet.  Counting them *)
(* in gives a sum that grows only when a request passes the check, and     *)
(* then the use count is below maxUses.                                    *)
JoinSteps == {"join_member", "join_write"}
DeleteSteps == {"uninvite_role", "uninvite_delete"}

InFlight(i) == {r \in Requests : req[r].pc \in JoinSteps /\ req[r].invite = i}

(* What the slots know of the invite they are about: a use or a deletion   *)
(* is about one that was created, a creation about one that was not, and   *)
(* no two creations are about the same.                                    *)
LinksOK ==
  /\ \A r \in Requests : req[r].pc \in JoinSteps \cup DeleteSteps =>
       req[r].invite \in Invites /\ inviteState[req[r].invite] # "unused"
  /\ \A r \in Requests : req[r].pc = "invite_create" =>
       req[r].invite \in Invites /\ inviteState[req[r].invite] = "unused"
  /\ \A r, s \in Requests :
       req[r].pc = "invite_create" /\ req[s].pc = "invite_create"
         /\ req[r].invite = req[s].invite => r = s
  /\ \A i \in Invites : inviteState[i] = "unused" => useCount[i] = 0

UsesAccounted ==
  \A i \in Invites : maxUses[i] # Unlimited =>
    useCount[i] + Cardinality(InFlight(i)) <= (maxUses[i] + Cardinality(Requests)) - 1

InviteInv == TypeOK /\ LinksOK /\ UsesAccounted

(* A slot goes to locals q, which are not about an invite unless the slot  *)
(* was about the same invite for the same purpose before.                  *)
Harmless(r, q) ==
  /\ req' = [req EXCEPT ![r] = q]
  /\ q.pc # "invite_create"
  /\ q.pc \in JoinSteps => req[r].pc \in JoinSteps /\ q.invite = req[r].invite
  /\ q.pc \in DeleteSteps => req[r].pc \in DeleteSteps /\ q.invite = req[r].invite

(* InFlight(i) is a finite set of at most as many members as there are     *)
(* slots.                                                                  *)
LEMMA InFlightFinite ==
  ASSUME ConstantsAssumption, NEW i
  PROVE  /\ IsFiniteSet(InFlight(i)) /\ Cardinality(InFlight(i)) \in Nat
         /\ Cardinality(Requests) \in Nat
         /\ Cardinality(InFlight(i)) <= Cardinality(Requests)
  BY FS_Subset, FS_CardinalityType DEF InFlight, ConstantsAssumption

(* The types of the link variables, as the steps below use them.           *)
LEMMA LinkTypes ==
  ASSUME ConstantsAssumption, InviteInv
  PROVE  /\ req \in [Requests -> Request]
         /\ useCount \in [Invites -> Nat]
         /\ maxUses \in [Invites -> Limits \cup {Unlimited}]
         /\ \A i \in Invites : maxUses[i] \in Nat
         /\ inviteState \in [Invites -> {"unused", "open", "expired", "deleted"}]
<1>1. /\ req \in [Requests -> Request]
      /\ useCount \in [Invites -> Nat]
      /\ maxUses \in [Invites -> Limits \cup {Unlimited}]
      /\ inviteState \in [Invites -> {"unused", "open", "expired", "deleted"}]
  BY DEF InviteInv, TypeOK
<1>2. \A i \in Invites : maxUses[i] \in Nat
  <2>1. Limits \cup {Unlimited} \subseteq Nat
    BY DEF ConstantsAssumption, Unlimited
  <2>2. QED  BY <1>1, <2>1
<1>3. QED  BY <1>1, <1>2

(* A step that counts no use and starts none keeps the account.            *)
LEMMA AccountKept ==
  ASSUME ConstantsAssumption, InviteInv, UNCHANGED <<maxUses, useCount>>,
         \A i \in Invites : InFlight(i)' \subseteq InFlight(i)
  PROVE  UsesAccounted'
<1> SUFFICES ASSUME NEW i \in Invites, maxUses'[i] # Unlimited
             PROVE  useCount'[i] + Cardinality(InFlight(i)')
                      <= (maxUses'[i] + Cardinality(Requests)) - 1
  BY DEF UsesAccounted
<1>1. /\ IsFiniteSet(InFlight(i)') /\ Cardinality(InFlight(i)') \in Nat
      /\ Cardinality(InFlight(i)') <= Cardinality(InFlight(i))
  BY InFlightFinite, FS_Subset, FS_CardinalityType
<1>2. useCount[i] \in Nat /\ maxUses[i] \in Nat
  BY DEF InviteInv, TypeOK, ConstantsAssumption
<1>3. useCount[i] + Cardinality(InFlight(i))
        <= (maxUses[i] + Cardinality(Requests)) - 1
  BY DEF InviteInv, UsesAccounted
<1>4. QED  BY <1>1, <1>2, <1>3, InFlightFinite

(* A harmless step that leaves the invites alone keeps both invariants.    *)
LEMMA HarmlessKeeps ==
  ASSUME ConstantsAssumption, InviteInv, UNCHANGED links,
         NEW r \in Requests, NEW q, Harmless(r, q)
  PROVE  LinksOK' /\ UsesAccounted'
<1>1. req \in [Requests -> Request]
  BY DEF InviteInv, TypeOK
<1>2. \A s \in Requests : req'[s] = IF s = r THEN q ELSE req[s]
  BY <1>1 DEF Harmless
<1>3. LinksOK'
  BY <1>2 DEF InviteInv, LinksOK, Harmless, links
<1>4. \A i \in Invites : InFlight(i)' \subseteq InFlight(i)
  BY <1>2 DEF InFlight, Harmless
<1>5. QED  BY <1>3, <1>4, AccountKept DEF links

(* Freeing a slot, and going on to a step that is not about an invite, are *)
(* harmless.                                                               *)
LEMMA HarmlessMoves ==
  ASSUME TypeOK, NEW r \in Requests
  PROVE  /\ Finish(r) => Harmless(r, Blank)
         /\ \A step \in Steps \ (JoinSteps \cup DeleteSteps \cup {"invite_create"}) :
              Goto(r, step) => \E q : Harmless(r, q)
         /\ req[r].pc = "join_member" /\ Goto(r, "join_write") => \E q : Harmless(r, q)
<1> USE DEF Harmless, JoinSteps, DeleteSteps
<1>1. Finish(r) => Harmless(r, Blank)
  BY DEF Finish, Blank
<1>2. req[r] \in Request
  BY DEF TypeOK
<1>3. ASSUME NEW step \in Steps \ (JoinSteps \cup DeleteSteps \cup {"invite_create"}),
             Goto(r, step)
      PROVE  \E q : Harmless(r, q)
  <2> DEFINE q == [req[r] EXCEPT !.pc = step, !.was = "none"]
  <2>1. req' = [req EXCEPT ![r] = q]
    BY <1>3 DEF Goto
  <2>2. q.pc = step
    BY <1>2 DEF Request
  <2> HIDE DEF q
  <2>3. Harmless(r, q)
    BY <1>3, <2>1, <2>2
  <2>4. QED  BY <2>3
<1>4. ASSUME req[r].pc = "join_member", Goto(r, "join_write")
      PROVE  \E q : Harmless(r, q)
  <2> DEFINE q == [req[r] EXCEPT !.pc = "join_write", !.was = "none"]
  <2>1. req' = [req EXCEPT ![r] = q]
    BY <1>4 DEF Goto
  <2>2. q.pc = "join_write" /\ q.invite = req[r].invite
    BY <1>2 DEF Request
  <2> HIDE DEF q
  <2>3. Harmless(r, q)
    BY <1>4, <2>1, <2>2
  <2>4. QED  BY <2>3
<1>5. QED  BY <1>1, <1>3, <1>4

(* The first step of a handler keeps the invite invariants.                *)
LEMMA ArriveKeeps ==
  ASSUME ConstantsAssumption, InviteInv, NEW r \in Requests, Arrive(r)
  PROVE  LinksOK' /\ UsesAccounted'
<1> USE DEF JoinSteps, DeleteSteps
<1>0. /\ req \in [Requests -> Request]
      /\ useCount \in [Invites -> Nat]
      /\ maxUses \in [Invites -> Limits \cup {Unlimited}]
      /\ \A i \in Invites : maxUses[i] \in Nat
  BY LinkTypes
<1>1. ASSUME NEW l, Begin(r, l), UNCHANGED links,
             l.pc \notin JoinSteps \cup DeleteSteps \cup {"invite_create"}
      PROVE  LinksOK' /\ UsesAccounted'
  BY <1>1, HarmlessKeeps DEF Begin, Harmless
<1>2. ASSUME NEW u \in Users, NEW ids \in SUBSET Users, Create(r, u, ids)
      PROVE  LinksOK' /\ UsesAccounted'
  BY <1>1, <1>2 DEF Create, Blank
<1>3. ASSUME NEW u \in Users, NEW v \in Users,
             NEW x \in RoleInputs \cup {"keep"}, NEW m \in MuteInputs \cup {"keep"},
             UpdateMember(r, u, v, x, m)
      PROVE  LinksOK' /\ UsesAccounted'
  BY <1>1, <1>3 DEF UpdateMember, Blank
<1>4. ASSUME NEW u \in Users, NEW v \in Users, RemoveMember(r, u, v)
      PROVE  LinksOK' /\ UsesAccounted'
  BY <1>1, <1>4 DEF RemoveMember, Blank
<1>5. ASSUME NEW u \in Users, LeaveRoom(r, u)
      PROVE  LinksOK' /\ UsesAccounted'
  BY <1>1, <1>5 DEF LeaveRoom, Blank
<1>6. ASSUME NEW u \in Users, NEW v \in Users, TransferOwnership(r, u, v)
      PROVE  LinksOK' /\ UsesAccounted'
  BY <1>1, <1>6 DEF TransferOwnership, Blank
<1>7. ASSUME NEW u \in Users, NEW to \in {"archive_write", "unarchive_write"},
             Archive(r, u, to)
      PROVE  LinksOK' /\ UsesAccounted'
  BY <1>1, <1>7 DEF Archive, Blank
<1>8. ASSUME NEW u \in Users, NEW i \in Invites, CreateInvite(r, u, i)
      PROVE  LinksOK' /\ UsesAccounted'
  <2> DEFINE l == [Blank EXCEPT !.pc = "invite_create", !.invite = i]
  <2>1. /\ \A s \in Requests : req'[s] = IF s = r THEN l ELSE req[s]
        /\ l.pc = "invite_create" /\ l.invite = i
    BY <1>0, <1>8 DEF CreateInvite, Begin, Blank
  <2>2. /\ inviteState[i] = "unused" /\ UNCHANGED links
        /\ \A s \in Requests : ~(req[s].pc = "invite_create" /\ req[s].invite = i)
    BY <1>8 DEF CreateInvite, links, At
  <2> HIDE DEF l
  <2>3. LinksOK'
    BY <2>1, <2>2 DEF LinksOK, InviteInv, links
  <2>4. \A j \in Invites : InFlight(j)' \subseteq InFlight(j)
    BY <2>1 DEF InFlight
  <2>5. QED  BY <2>2, <2>3, <2>4, AccountKept DEF links
<1>9. ASSUME NEW u \in Users, NEW i \in Invites, DeleteInvite(r, u, i)
      PROVE  LinksOK' /\ UsesAccounted'
  <2> DEFINE l == [Blank EXCEPT !.pc = "uninvite_role", !.actor = u, !.invite = i]
  <2>1. /\ \A s \in Requests : req'[s] = IF s = r THEN l ELSE req[s]
        /\ l.pc = "uninvite_role" /\ l.invite = i
    BY <1>0, <1>9 DEF DeleteInvite, Begin, Blank
  <2>2. inviteState[i] # "unused" /\ UNCHANGED links
    BY <1>9 DEF DeleteInvite, InviteExists
  <2> HIDE DEF l
  <2>3. LinksOK'
    BY <2>1, <2>2 DEF LinksOK, InviteInv, links
  <2>4. \A j \in Invites : InFlight(j)' \subseteq InFlight(j)
    BY <2>1 DEF InFlight
  <2>5. QED  BY <2>2, <2>3, <2>4, AccountKept DEF links
<1>10. ASSUME NEW u \in Users, NEW i \in Invites, UseInvite(r, u, i)
       PROVE  LinksOK' /\ UsesAccounted'
  <2> DEFINE l == [Blank EXCEPT !.pc = "join_member", !.actor = u, !.invite = i]
  <2>1. /\ \A s \in Requests : req'[s] = IF s = r THEN l ELSE req[s]
        /\ l.pc = "join_member" /\ l.invite = i
    BY <1>0, <1>10 DEF UseInvite, Begin, Blank
  <2>2. /\ inviteState[i] # "unused" /\ UNCHANGED links
        /\ maxUses[i] # Unlimited => useCount[i] < maxUses[i]
    BY <1>10 DEF UseInvite, Admits
  <2> HIDE DEF l
  <2>3. LinksOK'
    BY <2>1, <2>2 DEF LinksOK, InviteInv, links
  <2>4. ASSUME NEW j \in Invites, maxUses'[j] # Unlimited
        PROVE  useCount'[j] + Cardinality(InFlight(j)')
                 <= (maxUses'[j] + Cardinality(Requests)) - 1
    <3>1. CASE j = i
      <4>1. Cardinality(InFlight(j)') \in Nat
              /\ Cardinality(InFlight(j)') <= Cardinality(Requests)
        <5>1. InFlight(j)' \in SUBSET Requests
          BY DEF InFlight
        <5>2. QED  BY <5>1, FS_Subset, FS_CardinalityType DEF ConstantsAssumption
      <4>2. QED
        BY <1>0, <2>2, <2>4, <3>1, <4>1, InFlightFinite DEF links, Unlimited
    <3>2. CASE j # i
      <4>1. InFlight(j)' = InFlight(j)
        <5>1. req[r].pc \notin JoinSteps
          BY <1>10 DEF UseInvite, Begin
        <5>2. QED  BY <2>1, <3>2, <5>1 DEF InFlight
      <4>2. QED  BY <2>2, <2>4, <4>1 DEF InviteInv, UsesAccounted, links
    <3>3. QED  BY <3>1, <3>2
  <2>5. QED  BY <2>3, <2>4 DEF UsesAccounted
<1>11. QED
  BY <1>2, <1>3, <1>4, <1>5, <1>6, <1>7, <1>8, <1>9, <1>10 DEF Arrive

(* The steps that write an invite's row keep the invite invariants.        *)
LEMMA InviteWritesKeep ==
  ASSUME ConstantsAssumption, InviteInv, NEW r \in Requests
  PROVE  /\ \A limit \in Limits : CreateInviteWrite(r, limit) => LinksOK' /\ UsesAccounted'
         /\ UseInviteWrite(r) => LinksOK' /\ UsesAccounted'
         /\ DeleteInviteWrite(r) => LinksOK' /\ UsesAccounted'
<1> USE DEF JoinSteps, DeleteSteps
<1>0. /\ req \in [Requests -> Request]
      /\ useCount \in [Invites -> Nat]
      /\ maxUses \in [Invites -> Limits \cup {Unlimited}]
      /\ \A i \in Invites : maxUses[i] \in Nat
      /\ inviteState \in [Invites -> {"unused", "open", "expired", "deleted"}]
  BY LinkTypes
<1>a. /\ Finish(r) => \A s \in Requests : req'[s] = IF s = r THEN Blank ELSE req[s]
      /\ Blank.pc = "idle"
  BY <1>0 DEF Finish, Blank
<1>b. Finish(r) => \A j \in Invites : InFlight(j)' = InFlight(j) \ {r}
  BY <1>a DEF InFlight
<1>1. ASSUME NEW limit \in Limits, CreateInviteWrite(r, limit)
      PROVE  LinksOK' /\ UsesAccounted'
  <2> DEFINE i == req[r].invite
  <2>1. i \in Invites /\ inviteState[i] = "unused" /\ useCount[i] = 0
    BY <1>1 DEF CreateInviteWrite, At, InviteInv, LinksOK
  <2>2. LinksOK'
    <3>1. \A s \in Requests : req[s].pc = "invite_create" /\ s # r => req[s].invite # i
      BY <1>1 DEF CreateInviteWrite, At, InviteInv, LinksOK
    <3>2. QED
      BY <1>0, <1>1, <1>a, <2>1, <3>1 DEF CreateInviteWrite, InviteInv, LinksOK
  <2>3. ASSUME NEW j \in Invites, maxUses'[j] # Unlimited
        PROVE  useCount'[j] + Cardinality(InFlight(j)')
                 <= (maxUses'[j] + Cardinality(Requests)) - 1
    <3>1. /\ Cardinality(InFlight(j)') \in Nat
          /\ Cardinality(InFlight(j)') <= Cardinality(InFlight(j))
      <4>1. InFlight(j)' \in SUBSET InFlight(j)
        BY <1>1, <1>b DEF CreateInviteWrite
      <4>2. QED  BY <4>1, InFlightFinite, FS_Subset, FS_CardinalityType
    <3>2. CASE j = i
      BY <1>0, <1>1, <2>1, <2>3, <3>1, <3>2, InFlightFinite
         DEF CreateInviteWrite, ConstantsAssumption, Unlimited
    <3>3. CASE j # i
      <4>1. maxUses'[j] = maxUses[j] /\ useCount'[j] = useCount[j]
        BY <1>0, <1>1, <3>3 DEF CreateInviteWrite
      <4>2. QED
        BY <1>0, <2>3, <3>1, <4>1, InFlightFinite DEF InviteInv, UsesAccounted
    <3>4. QED  BY <3>2, <3>3
  <2>4. QED  BY <2>2, <2>3 DEF UsesAccounted
<1>2. ASSUME UseInviteWrite(r) PROVE LinksOK' /\ UsesAccounted'
  <2> DEFINE i == req[r].invite
  <2>1. i \in Invites /\ inviteState[i] # "unused" /\ r \in InFlight(i)
    BY <1>2 DEF UseInviteWrite, At, InviteInv, LinksOK, InFlight
  <2>2. /\ UNCHANGED <<inviteState, maxUses>> /\ Finish(r)
        /\ \A j \in Invites :
             \/ useCount'[j] = useCount[j]
             \/ j = i /\ useCount'[j] = useCount[j] + 1
    BY <1>0, <1>2 DEF UseInviteWrite
  <2>3. LinksOK'
    BY <1>0, <1>a, <2>1, <2>2 DEF InviteInv, LinksOK
  <2>4. ASSUME NEW j \in Invites, maxUses'[j] # Unlimited
        PROVE  useCount'[j] + Cardinality(InFlight(j)')
                 <= (maxUses'[j] + Cardinality(Requests)) - 1
    <3>1. InFlight(j)' = InFlight(j) \ {r}
      BY <1>b, <2>2
    <3>2. /\ Cardinality(InFlight(j)') \in Nat
          /\ Cardinality(InFlight(j)') = IF r \in InFlight(j)
               THEN Cardinality(InFlight(j)) - 1 ELSE Cardinality(InFlight(j))
      BY <3>1, InFlightFinite, FS_RemoveElement, FS_CardinalityType
    <3>3. useCount[j] + Cardinality(InFlight(j))
            <= (maxUses[j] + Cardinality(Requests)) - 1
      BY <2>2, <2>4 DEF InviteInv, UsesAccounted
    <3>4. QED  BY <1>0, <2>1, <2>2, <3>2, <3>3, InFlightFinite
  <2>5. QED  BY <2>3, <2>4 DEF UsesAccounted
<1>3. ASSUME DeleteInviteWrite(r) PROVE LinksOK' /\ UsesAccounted'
  <2>1. req[r].invite \in Invites /\ inviteState[req[r].invite] # "unused"
    BY <1>3 DEF DeleteInviteWrite, At, InviteInv, LinksOK
  <2>2. LinksOK'
    BY <1>0, <1>3, <1>a, <2>1 DEF DeleteInviteWrite, InviteInv, LinksOK
  <2>3. \A j \in Invites : InFlight(j)' \subseteq InFlight(j)
    BY <1>3, <1>b DEF DeleteInviteWrite
  <2>4. QED  BY <1>3, <2>2, <2>3, AccountKept DEF DeleteInviteWrite
<1>4. QED  BY <1>1, <1>2, <1>3

(* Every later step of a handler keeps the invite invariants.              *)
LEMMA ContinueKeeps ==
  ASSUME ConstantsAssumption, InviteInv, NEW r \in Requests, Continue(r)
  PROVE  LinksOK' /\ UsesAccounted'
<1>0. /\ TypeOK
      /\ Finish(r) => Harmless(r, Blank)
      /\ \A step \in Steps \ (JoinSteps \cup DeleteSteps \cup {"invite_create"}) :
           Goto(r, step) => \E q : Harmless(r, q)
      /\ req[r].pc = "join_member" /\ Goto(r, "join_write") => \E q : Harmless(r, q)
  <2>1. TypeOK
    BY DEF InviteInv
  <2>2. QED  BY <2>1, HarmlessMoves
<1>1. ASSUME UNCHANGED links, \E q : Harmless(r, q)
      PROVE  LinksOK' /\ UsesAccounted'
  BY <1>1, HarmlessKeeps
<1>2. ASSUME UNCHANGED links, Finish(r)
      PROVE  LinksOK' /\ UsesAccounted'
  BY <1>0, <1>1, <1>2
<1>3. ASSUME NEW step \in {"add_rejoin", "update_write", "remove_write", "leave_write",
                          "transfer_write"},
             NEW check, CheckThen(r, check, step) \/ (Goto(r, step) /\ UNCHANGED links)
      PROVE  LinksOK' /\ UsesAccounted'
  <2>1. step \in Steps \ (JoinSteps \cup DeleteSteps \cup {"invite_create"})
    BY DEF Steps, JoinSteps, DeleteSteps
  <2>2. CASE Goto(r, step) /\ UNCHANGED links
    BY <1>0, <1>1, <2>1, <2>2
  <2>3. CASE Finish(r) /\ UNCHANGED links
    BY <1>2, <2>3
  <2>4. QED  BY <1>3, <2>2, <2>3 DEF CheckThen
<1>4. AddMembersFind(r) => LinksOK' /\ UsesAccounted'
  <2> SUFFICES ASSUME AddMembersFind(r) PROVE \E q : Harmless(r, q)
    BY <1>1 DEF AddMembersFind
  <2> DEFINE q == [req[r] EXCEPT !.pc = "add_insert",
                     !.add = {u \in @ : ~HasRow(u)},
                     !.back = {u \in req[r].add : HasRow(u) /\ ~active[u]}]
  <2>1. req' = [req EXCEPT ![r] = q]
    BY DEF AddMembersFind
  <2>2. q.pc = "add_insert"
    BY <1>0 DEF TypeOK, Request
  <2> HIDE DEF q
  <2>3. Harmless(r, q)
    BY <2>1, <2>2 DEF Harmless, JoinSteps, DeleteSteps
  <2>4. QED  BY <2>3
<1>5. AddMembersInsert(r) => LinksOK' /\ UsesAccounted'
  BY <1>2, <1>3 DEF AddMembersInsert
<1>6. ASSUME NEW u \in Users, AddMembersRejoin(r, u)
      PROVE  LinksOK' /\ UsesAccounted'
  <2>1. CASE Finish(r)
    BY <1>2, <1>6, <2>1 DEF AddMembersRejoin
  <2>2. CASE req' = [req EXCEPT ![r].back = @ \ {u}]
    <3> DEFINE q == [req[r] EXCEPT !.back = @ \ {u}]
    <3>1. req' = [req EXCEPT ![r] = q] /\ q.pc = "add_rejoin"
      BY <1>0, <1>6, <2>2 DEF AddMembersRejoin, At, TypeOK, Request
    <3> HIDE DEF q
    <3>2. Harmless(r, q)
      BY <3>1 DEF Harmless, JoinSteps, DeleteSteps
    <3>3. QED  BY <1>1, <1>6, <3>2 DEF AddMembersRejoin
  <2>3. QED  BY <1>6, <2>1, <2>2 DEF AddMembersRejoin
<1>7. UpdateMemberTarget(r) => LinksOK' /\ UsesAccounted'
  BY <1>3 DEF UpdateMemberTarget
<1>8. UpdateMemberWrite(r) => LinksOK' /\ UsesAccounted'
  BY <1>2 DEF UpdateMemberWrite
<1>9. RemoveMemberTarget(r) => LinksOK' /\ UsesAccounted'
  BY <1>3 DEF RemoveMemberTarget
<1>10. RemoveMemberWrite(r) => LinksOK' /\ UsesAccounted'
  BY <1>2 DEF RemoveMemberWrite
<1>11. LeaveRoomCount(r) => LinksOK' /\ UsesAccounted'
  BY <1>3 DEF LeaveRoomCount
<1>12. LeaveRoomWrite(r) => LinksOK' /\ UsesAccounted'
  BY <1>2 DEF LeaveRoomWrite
<1>13. TransferOwnershipTarget(r) => LinksOK' /\ UsesAccounted'
  BY <1>3 DEF TransferOwnershipTarget
<1>14. TransferOwnershipWrite(r) => LinksOK' /\ UsesAccounted'
  BY <1>2 DEF TransferOwnershipWrite
<1>15. UseInviteMember(r) => LinksOK' /\ UsesAccounted'
  BY <1>0, <1>1, <1>2 DEF UseInviteMember, CheckThen, At
<1>16. DeleteInviteRole(r) => LinksOK' /\ UsesAccounted'
  <2> SUFFICES ASSUME DeleteInviteRole(r) PROVE \E q : Harmless(r, q)
    BY <1>1 DEF DeleteInviteRole
  <2> DEFINE l == [Blank EXCEPT !.pc = "uninvite_delete", !.invite = req[r].invite]
             q == IF HasRole(req[r].actor, "admin") THEN l ELSE Blank
  <2>1. req' = [req EXCEPT ![r] = q] /\ req[r].pc = "uninvite_role"
    BY DEF DeleteInviteRole, At
  <2>2. /\ l.pc = "uninvite_delete" /\ l.invite = req[r].invite
        /\ Blank.pc = "idle" /\ q \in {l, Blank}
    BY DEF Blank
  <2> HIDE DEF q, l
  <2>3. Harmless(r, q)
    BY <2>1, <2>2 DEF Harmless, JoinSteps, DeleteSteps
  <2>4. QED  BY <2>3
<1>17. ArchiveWrite(r) => LinksOK' /\ UsesAccounted'
  BY <1>2 DEF ArchiveWrite
<1>18. QED
  BY <1>4, <1>5, <1>6, <1>7, <1>8, <1>9, <1>10, <1>11, <1>12, <1>13, <1>14,
     <1>15, <1>16, <1>17, InviteWritesKeep DEF Continue

(* The account holds initially and every step keeps it.                    *)
LEMMA InviteInvInductive ==
  /\ ConstantsAssumption /\ Init => InviteInv
  /\ ConstantsAssumption /\ InviteInv /\ [Next]_vars => InviteInv'
<1>1. ASSUME ConstantsAssumption, Init PROVE InviteInv
  <2>1. /\ LinksOK
        /\ \A i \in Invites : maxUses[i] = Unlimited
    BY <1>1 DEF Init, LinksOK, Blank, JoinSteps, DeleteSteps
  <2>2. QED  BY <1>1, <2>1, TypeInit DEF InviteInv, UsesAccounted
<1>2. ASSUME ConstantsAssumption, InviteInv, [Next]_vars PROVE InviteInv'
  <2>1. TypeOK'
    BY <1>2, TypeNext DEF InviteInv
  <2>2. ASSUME NEW i \in Invites, Expire(i) PROVE LinksOK' /\ UsesAccounted'
    <3>1. LinksOK'
      BY <1>2, <2>2, LinkTypes DEF Expire, InviteInv, LinksOK, JoinSteps, DeleteSteps
    <3>2. \A j \in Invites : InFlight(j)' \subseteq InFlight(j)
      BY <2>2 DEF Expire, InFlight
    <3>3. QED  BY <1>2, <2>2, <3>1, <3>2, AccountKept DEF Expire
  <2>3. ASSUME UNCHANGED vars PROVE LinksOK' /\ UsesAccounted'
    <3>1. LinksOK'
      BY <1>2, <2>3 DEF vars, InviteInv, LinksOK
    <3>2. \A j \in Invites : InFlight(j)' \subseteq InFlight(j)
      BY <2>3 DEF vars, InFlight
    <3>3. QED  BY <1>2, <2>3, <3>1, <3>2, AccountKept DEF vars
  <2>4. LinksOK' /\ UsesAccounted'
    BY <1>2, <2>2, <2>3, ArriveKeeps, ContinueKeeps DEF Next
  <2>5. QED  BY <2>1, <2>4 DEF InviteInv
<1>3. QED  BY <1>1, <1>2

(* However many requests run at once, an invite with maxUses is used at    *)
(* most maxUses times plus once for every slot but one.                    *)
THEOREM OvershootBounded == Spec => []InviteOvershootBounded
<1>1. InviteInv => InviteOvershootBounded
  <2> SUFFICES ASSUME InviteInv, NEW i \in Invites, maxUses[i] # Unlimited
               PROVE  useCount[i] <= (maxUses[i] + Cardinality(Requests)) - 1
    BY DEF InviteOvershootBounded
  <2>1. useCount[i] + Cardinality(InFlight(i))
          <= (maxUses[i] + Cardinality(Requests)) - 1
    BY DEF InviteInv, UsesAccounted
  <2>2. QED  BY <2>1, InFlightFinite, LinkTypes, ConstantsAssumption
<1>2. Init => InviteInv
  BY InviteInvInductive, ConstantsAssumption
<1>3. InviteInv /\ [Next]_vars => InviteInv'
  BY InviteInvInductive, ConstantsAssumption
<1>4. QED  BY <1>1, <1>2, <1>3, PTL DEF Spec

-----------------------------------------------------------------------------
(* One request at a time, and no PATCH that gives the owner role: then the *)
(* room has one owner row.  What a handler read about the roles is still   *)
(* true when it writes, since nobody else runs in between.                 *)
Sequential == \A r, s \in Requests : r = s

OwnerInv ==
  /\ TypeOK
  /\ AtMostOneOwner
  /\ \A r \in Requests :
       req[r].pc \in {"transfer_target", "transfer_write"} =>
         req[r].actor \in Users /\ role[req[r].actor] = "owner"

(* What a slot's locals are after it has begun, gone on or finished.       *)
LEMMA SlotMoves ==
  ASSUME TypeOK, NEW r \in Requests
  PROVE  /\ \A l : Begin(r, l) => req'[r] = l
         /\ Finish(r) => req'[r] = Blank
         /\ \A step : Goto(r, step) =>
              /\ req'[r].pc = step
              /\ req'[r].actor = req[r].actor /\ req'[r].target = req[r].target
              /\ req'[r].newRole = req[r].newRole /\ req'[r].back = req[r].back
<1>1. req \in [Requests -> Request] /\ req[r] \in Request
  BY DEF TypeOK
<1>2. \A l : Begin(r, l) => req'[r] = l
  BY <1>1 DEF Begin
<1>3. Finish(r) => req'[r] = Blank
  BY <1>1 DEF Finish
<1>4. ASSUME NEW step, Goto(r, step)
      PROVE  /\ req'[r].pc = step
             /\ req'[r].actor = req[r].actor /\ req'[r].target = req[r].target
             /\ req'[r].newRole = req[r].newRole /\ req'[r].back = req[r].back
  BY <1>1, <1>4 DEF Goto, Request
<1>5. QED  BY <1>2, <1>3, <1>4

(* A step that makes nobody an owner keeps at most one.                    *)
LEMMA OwnersShrink ==
  ASSUME AtMostOneOwner, \A u \in Users : role'[u] = "owner" => role[u] = "owner"
  PROVE  AtMostOneOwner'
  BY DEF AtMostOneOwner

(* With one request at a time every step keeps the owner unique: what the  *)
(* handler of a transfer was told about its actor is still so when it      *)
(* writes.                                                                 *)
LEMMA OwnerStep ==
  ASSUME ConstantsAssumption, Sequential, "owner" \notin RoleInputs, OwnerInv,
         NEW r \in Requests, Arrive(r) \/ Continue(r)
  PROVE  AtMostOneOwner' /\ (req'[r].pc \in {"transfer_target", "transfer_write"}
                               => req'[r].actor \in Users /\ role'[req'[r].actor] = "owner")
<1> DEFINE Transferring(q) == q.pc \in {"transfer_target", "transfer_write"}
           Goal == AtMostOneOwner' /\ (Transferring(req'[r]) =>
                                      req'[r].actor \in Users /\ role'[req'[r].actor] = "owner")
<1>0. /\ req \in [Requests -> Request] /\ req[r] \in Request
      /\ role \in [Users -> MemberRole \cup {"none"}]
  BY DEF OwnerInv, TypeOK
<1>1. ASSUME \A u \in Users : role'[u] = "owner" => role[u] = "owner",
             ~Transferring(req'[r])
      PROVE  Goal
  BY <1>1, OwnersShrink DEF OwnerInv
<1>2. Finish(r) => ~Transferring(req'[r])
  BY <1>0 DEF Finish, Blank
<1>3. ASSUME NEW step \in Steps, NEW check, CheckThen(r, check, step),
             step \notin {"transfer_target", "transfer_write"}
      PROVE  Goal
  <2>1. Goto(r, step) => ~Transferring(req'[r])
    BY <1>0, <1>3 DEF Goto, Request
  <2>2. QED  BY <1>1, <1>2, <1>3, <2>1 DEF CheckThen, rows
<1>4. ASSUME NEW l, Begin(r, l), UNCHANGED rows, ~Transferring(l)
      PROVE  Goal
  BY <1>0, <1>1, <1>4 DEF Begin, rows
<1>5. Arrive(r) => Goal
  <2>1. ASSUME NEW u \in Users, NEW ids \in SUBSET Users, Create(r, u, ids)
        PROVE  Goal
    <3>1. AtMostOneOwner'
      BY <1>0, <2>1 DEF Create, AtMostOneOwner, HasRow
    <3>2. ~Transferring(req'[r])
      BY <1>0, <2>1 DEF Create, Begin, Blank
    <3>3. QED  BY <3>1, <3>2
  <2>2. ASSUME NEW u \in Users, NEW v \in Users, TransferOwnership(r, u, v)
        PROVE  Goal
    <3>1. role[u] = "owner" /\ UNCHANGED role
      BY <1>0, <2>2 DEF TransferOwnership, HasRole, Weight, MemberRole, rows
    <3>2. req'[r].actor = u
      BY <1>0, <2>2 DEF TransferOwnership, Begin, Blank
    <3>3. QED  BY <3>1, <3>2 DEF OwnerInv, AtMostOneOwner
  <2>3. \A u, v \in Users : \A x, m : UpdateMember(r, u, v, x, m) => Goal
    BY <1>4 DEF UpdateMember, Blank
  <2>4. \A u, v \in Users : RemoveMember(r, u, v) => Goal
    BY <1>4 DEF RemoveMember, Blank
  <2>5. \A u \in Users : LeaveRoom(r, u) => Goal
    BY <1>4 DEF LeaveRoom, Blank
  <2>6. \A u \in Users, i \in Invites : CreateInvite(r, u, i) => Goal
    BY <1>4 DEF CreateInvite, Blank
  <2>7. \A u \in Users, i \in Invites : UseInvite(r, u, i) => Goal
    BY <1>4 DEF UseInvite, Blank
  <2>8. \A u \in Users, i \in Invites : DeleteInvite(r, u, i) => Goal
    BY <1>4 DEF DeleteInvite, Blank
  <2>9. \A u \in Users, to \in {"archive_write", "unarchive_write"} :
          Archive(r, u, to) => Goal
    BY <1>4 DEF Archive, Blank
  <2>10. QED
    BY <2>1, <2>2, <2>3, <2>4, <2>5, <2>6, <2>7, <2>8, <2>9 DEF Arrive
<1>6. Continue(r) => Goal
  <2>1. AddMembersFind(r) => Goal
    <3> SUFFICES ASSUME AddMembersFind(r) PROVE Goal
      OBVIOUS
    <3>1. UNCHANGED role
      BY DEF AddMembersFind, rows
    <3>2. req'[r].pc = "add_insert"
      <4> DEFINE add == {u \in req[r].add : ~HasRow(u)}
                 back == {u \in req[r].add : HasRow(u) /\ ~active[u]}
      <4>1. req' = [req EXCEPT ![r] =
                [@ EXCEPT !.pc = "add_insert", !.add = add, !.back = back]]
        BY DEF AddMembersFind
      <4> HIDE DEF add, back
      <4>2. QED  BY <1>0, <4>1 DEF Request
    <3>3. QED  BY <1>1, <3>1, <3>2
  <2>2. AddMembersInsert(r) => Goal
    <3> SUFFICES ASSUME AddMembersInsert(r) PROVE Goal
      OBVIOUS
    <3>1. \A u \in Users : role'[u] = "owner" => role[u] = "owner"
      BY <1>0 DEF AddMembersInsert
    <3>2. ~Transferring(req'[r])
      BY <1>2, SlotMoves DEF AddMembersInsert, OwnerInv
    <3>3. QED  BY <1>1, <3>1, <3>2
  <2>3. ASSUME NEW u \in Users, AddMembersRejoin(r, u) PROVE Goal
    <3>1. \A v \in Users : role'[v] = "owner" => role[v] = "owner"
      BY <1>0, <2>3 DEF AddMembersRejoin
    <3>2. ~Transferring(req'[r])
      BY <1>0, <1>2, <2>3 DEF AddMembersRejoin, At, Request
    <3>3. QED  BY <1>1, <3>1, <3>2
  <2>4. UpdateMemberTarget(r) => Goal
    BY <1>3 DEF UpdateMemberTarget, Steps
  <2>5. UpdateMemberWrite(r) => Goal
    <3> SUFFICES ASSUME UpdateMemberWrite(r) PROVE Goal
      OBVIOUS
    <3>1. req[r].newRole # "owner"
      BY <1>0 DEF Request
    <3>2. \A u \in Users : role'[u] = "owner" => role[u] = "owner"
      BY <1>0, <3>1 DEF UpdateMemberWrite, Overwrite
    <3>3. QED  BY <1>1, <1>2, <3>2 DEF UpdateMemberWrite
  <2>6. RemoveMemberTarget(r) => Goal
    BY <1>3 DEF RemoveMemberTarget, Steps
  <2>7. RemoveMemberWrite(r) => Goal
    BY <1>1, <1>2 DEF RemoveMemberWrite
  <2>8. LeaveRoomCount(r) => Goal
    BY <1>3 DEF LeaveRoomCount, Steps
  <2>9. LeaveRoomWrite(r) => Goal
    BY <1>1, <1>2 DEF LeaveRoomWrite
  <2>10. TransferOwnershipTarget(r) => Goal
    <3> SUFFICES ASSUME TransferOwnershipTarget(r) PROVE Goal
      OBVIOUS
    <3>1. req[r].actor \in Users /\ role[req[r].actor] = "owner" /\ UNCHANGED role
      BY DEF TransferOwnershipTarget, CheckThen, At, OwnerInv, rows
    <3>2. Transferring(req'[r]) => req'[r].actor = req[r].actor
      BY <1>2, SlotMoves DEF TransferOwnershipTarget, CheckThen, OwnerInv
    <3>3. QED  BY <3>1, <3>2, OwnersShrink DEF OwnerInv
  <2>11. TransferOwnershipWrite(r) => Goal
    <3> SUFFICES ASSUME TransferOwnershipWrite(r) PROVE Goal
      OBVIOUS
    <3>1. req[r].actor \in Users /\ role[req[r].actor] = "owner"
      BY DEF TransferOwnershipWrite, At, OwnerInv
    <3>2. \A u \in Users : role'[u] = "owner" =>
            u = req[r].target \/ (role[u] = "owner" /\ u # req[r].actor)
      BY <1>0 DEF TransferOwnershipWrite, DemotedTo
    <3>3. \A u \in Users : role'[u] = "owner" => u = req[r].target
      BY <3>1, <3>2 DEF OwnerInv, AtMostOneOwner
    <3>4. AtMostOneOwner'
      BY <3>3 DEF AtMostOneOwner
    <3>5. QED  BY <1>2, <3>4 DEF TransferOwnershipWrite
  <2>12. \A limit \in Limits : CreateInviteWrite(r, limit) => Goal
    BY <1>1, <1>2 DEF CreateInviteWrite, rows
  <2>13. UseInviteMember(r) => Goal
    BY <1>3 DEF UseInviteMember, Steps
  <2>14. UseInviteWrite(r) => Goal
    <3> SUFFICES ASSUME UseInviteWrite(r) PROVE Goal
      OBVIOUS
    <3>1. \A u \in Users : role'[u] = "owner" => role[u] = "owner"
      BY <1>0 DEF UseInviteWrite, UpsertedRole, rows
    <3>2. QED  BY <1>1, <1>2, <3>1 DEF UseInviteWrite
  <2>15. DeleteInviteRole(r) => Goal
    BY <1>0, <1>1 DEF DeleteInviteRole, Blank, rows
  <2>16. DeleteInviteWrite(r) => Goal
    BY <1>1, <1>2 DEF DeleteInviteWrite, rows
  <2>17. ArchiveWrite(r) => Goal
    BY <1>1, <1>2 DEF ArchiveWrite, rows
  <2>18. QED
    BY <2>1, <2>2, <2>3, <2>4, <2>5, <2>6, <2>7, <2>8, <2>9, <2>10, <2>11,
       <2>12, <2>13, <2>14, <2>15, <2>16, <2>17 DEF Continue
<1>7. QED  BY <1>5, <1>6

(* With one request at a time, and no PATCH giving the owner role, a room  *)
(* never has two owners, members who left included.                        *)
THEOREM OwnerUnique ==
  ASSUME Sequential, "owner" \notin RoleInputs
  PROVE  Spec => []AtMostOneOwner
<1>1. Init => OwnerInv
  <2> SUFFICES ASSUME Init PROVE OwnerInv
    OBVIOUS
  <2>1. AtMostOneOwner /\ \A r \in Requests : req[r].pc = "idle"
    BY DEF Init, AtMostOneOwner, Blank
  <2>2. QED  BY <2>1, TypeInit DEF OwnerInv
<1>2. OwnerInv /\ [Next]_vars => OwnerInv'
  <2> SUFFICES ASSUME OwnerInv, [Next]_vars PROVE OwnerInv'
    OBVIOUS
  <2>1. TypeOK'
    BY TypeNext, ConstantsAssumption DEF OwnerInv
  <2>2. ASSUME NEW r \in Requests, Arrive(r) \/ Continue(r) PROVE OwnerInv'
    <3>1. \A s \in Requests : s = r
      BY DEF Sequential
    <3>2. QED  BY <2>1, <2>2, <3>1, OwnerStep, ConstantsAssumption DEF OwnerInv
  <2>3. ASSUME NEW i \in Invites, Expire(i) PROVE OwnerInv'
    BY <2>1, <2>3 DEF Expire, OwnerInv, AtMostOneOwner, rows
  <2>4. CASE UNCHANGED vars
    BY <2>1, <2>4 DEF vars, OwnerInv, AtMostOneOwner
  <2>5. QED  BY <2>2, <2>3, <2>4 DEF Next
<1>3. OwnerInv => AtMostOneOwner
  BY DEF OwnerInv
<1>4. QED  BY <1>1, <1>2, <1>3, PTL DEF Spec

-----------------------------------------------------------------------------
(* What comes and goes, for any number of slots.                           *)
(*                                                                         *)
(* Eight steps write rows of members; every other step leaves them alone.  *)
RowWrite(r) ==
  \/ \E u \in Users, ids \in SUBSET Users : Create(r, u, ids)
  \/ AddMembersInsert(r)
  \/ \E u \in Users : AddMembersRejoin(r, u)
  \/ UpdateMemberWrite(r)
  \/ RemoveMemberWrite(r)
  \/ LeaveRoomWrite(r)
  \/ TransferOwnershipWrite(r)
  \/ UseInviteWrite(r)

(* A step that writes rows is one of the eight, and only a use of an       *)
(* invite changes a useCount.                                              *)
LEMMA RowWriters ==
  ASSUME [Next]_vars
  PROVE  /\ UNCHANGED rows \/ \E r \in Requests : RowWrite(r)
         /\ UNCHANGED useCount \/ \E r \in Requests : UseInviteWrite(r)
<1>1. ASSUME NEW r \in Requests, Arrive(r)
      PROVE  (UNCHANGED rows \/ RowWrite(r)) /\ UNCHANGED useCount
  BY <1>1 DEF Arrive, RowWrite, Create, UpdateMember, RemoveMember, LeaveRoom,
              TransferOwnership, CreateInvite, UseInvite, DeleteInvite, Archive, links
<1>2. ASSUME NEW r \in Requests, Continue(r)
      PROVE  /\ UNCHANGED rows \/ RowWrite(r)
             /\ UNCHANGED useCount \/ UseInviteWrite(r)
  <2>1. \A check, step : CheckThen(r, check, step) => UNCHANGED <<rows, useCount>>
    BY DEF CheckThen, links
  <2>2. /\ UpdateMemberTarget(r) => UNCHANGED <<rows, useCount>>
        /\ RemoveMemberTarget(r) => UNCHANGED <<rows, useCount>>
        /\ LeaveRoomCount(r) => UNCHANGED <<rows, useCount>>
        /\ TransferOwnershipTarget(r) => UNCHANGED <<rows, useCount>>
        /\ UseInviteMember(r) => UNCHANGED <<rows, useCount>>
    BY <2>1 DEF UpdateMemberTarget, RemoveMemberTarget, LeaveRoomCount,
                TransferOwnershipTarget, UseInviteMember
  <2>3. /\ AddMembersFind(r) => UNCHANGED <<rows, useCount>>
        /\ DeleteInviteRole(r) => UNCHANGED <<rows, useCount>>
        /\ DeleteInviteWrite(r) => UNCHANGED <<rows, useCount>>
        /\ ArchiveWrite(r) => UNCHANGED <<rows, useCount>>
        /\ \A limit \in Limits : CreateInviteWrite(r, limit) => UNCHANGED <<rows, useCount>>
    BY DEF AddMembersFind, DeleteInviteRole, DeleteInviteWrite, ArchiveWrite,
           CreateInviteWrite, links
  <2>4. /\ AddMembersInsert(r) => UNCHANGED useCount
        /\ \A u \in Users : AddMembersRejoin(r, u) => UNCHANGED useCount
        /\ UpdateMemberWrite(r) => UNCHANGED useCount
        /\ RemoveMemberWrite(r) => UNCHANGED useCount
        /\ LeaveRoomWrite(r) => UNCHANGED useCount
        /\ TransferOwnershipWrite(r) => UNCHANGED useCount
    BY DEF AddMembersInsert, AddMembersRejoin, UpdateMemberWrite, RemoveMemberWrite,
           LeaveRoomWrite, TransferOwnershipWrite, links
  <2>5. QED  BY <1>2, <2>2, <2>3, <2>4 DEF Continue, RowWrite
<1>3. ASSUME NEW i \in Invites, Expire(i) PROVE UNCHANGED <<rows, useCount>>
  BY <1>3 DEF Expire
<1>4. CASE UNCHANGED vars
  BY <1>4 DEF vars, rows
<1>5. QED  BY <1>1, <1>2, <1>3, <1>4 DEF Next

(* Who comes in by a write of rows: after the creation, only as a plain    *)
(* member, found missing or gone by addMembers, or by a use of an invite.  *)
LEMMA Entries ==
  ASSUME TypeOK, NEW r \in Requests, RowWrite(r),
         NEW u \in Users, ~active[u], active'[u], \E v \in Users : HasRow(v)
  PROVE  /\ role'[u] = "member"
         /\ \/ At(r, "add_insert") /\ u \in req[r].add
            \/ At(r, "add_rejoin") /\ u \in req[r].back
            \/ /\ UseInviteWrite(r) /\ InviteExists(req[r].invite)
               /\ useCount' = [useCount EXCEPT ![req[r].invite] = @ + 1]
<1>0. role \in [Users -> MemberRole \cup {"none"}] /\ active \in [Users -> BOOLEAN]
  BY DEF TypeOK
<1>1. CASE \E v \in Users, ids \in SUBSET Users : Create(r, v, ids)
  BY <1>1 DEF Create
<1>2. CASE AddMembersInsert(r)
  BY <1>0, <1>2 DEF AddMembersInsert
<1>3. ASSUME NEW v \in Users, AddMembersRejoin(r, v)
      PROVE  role'[u] = "member" /\ At(r, "add_rejoin") /\ u \in req[r].back
  BY <1>0, <1>3 DEF AddMembersRejoin
<1>4. CASE UseInviteWrite(r)
  BY <1>0, <1>4 DEF UseInviteWrite, UseCommits, UpsertedRole, rows
<1>5. CASE UpdateMemberWrite(r) \/ TransferOwnershipWrite(r)
  BY <1>5 DEF UpdateMemberWrite, TransferOwnershipWrite
<1>6. CASE RemoveMemberWrite(r) \/ LeaveRoomWrite(r)
  BY <1>0, <1>6 DEF RemoveMemberWrite, LeaveRoomWrite
<1>7. QED  BY <1>1, <1>2, <1>3, <1>4, <1>5, <1>6 DEF RowWrite

(* The step that says whoever comes in is a plain member.                  *)
PlainEntry ==
  (\E u \in Users : HasRow(u)) =>
    \A u \in Users : ~active[u] /\ active'[u] => role'[u] = "member"

(* Whatever overlaps, whoever comes in or comes back is a plain member.    *)
THEOREM ComesInPlain == Spec => JoinsAsPlainMember
<1>1. TypeOK /\ [Next]_vars => [PlainEntry]_vars
  <2> SUFFICES ASSUME TypeOK, [Next]_vars PROVE PlainEntry
    OBVIOUS
  <2> SUFFICES ASSUME \E v \in Users : HasRow(v),
                      NEW u \in Users, ~active[u], active'[u]
               PROVE  role'[u] = "member"
    BY DEF PlainEntry
  <2>1. \E r \in Requests : RowWrite(r)
    BY RowWriters DEF rows
  <2>2. QED  BY <2>1, Entries
<1>2. QED  BY <1>1, TypeCorrect, PTL DEF Spec, JoinsAsPlainMember, PlainEntry

(* The step that says admissions are counted.                              *)
CountedEntry ==
  \A u \in Users : ~active[u] /\ active'[u] /\ (\E v \in Users : HasRow(v)) =>
    \/ \E i \in Invites : InviteExists(i) /\ useCount'[i] = useCount[i] + 1
    \/ \E r \in Requests : \/ At(r, "add_insert") /\ u \in req[r].add
                           \/ At(r, "add_rejoin") /\ u \in req[r].back

(* Whatever overlaps, nobody enters a room that exists but as an initial   *)
(* member or by a counted use of an invite that is still there.            *)
THEOREM EntriesAreCounted == Spec => AdmissionIsCounted
<1>1. InviteInv /\ [Next]_vars => [CountedEntry]_vars
  <2> SUFFICES ASSUME InviteInv, [Next]_vars,
                      NEW u \in Users, ~active[u], active'[u], \E v \in Users : HasRow(v)
               PROVE  \/ \E i \in Invites : InviteExists(i) /\ useCount'[i] = useCount[i] + 1
                      \/ \E r \in Requests : \/ At(r, "add_insert") /\ u \in req[r].add
                                             \/ At(r, "add_rejoin") /\ u \in req[r].back
    BY DEF CountedEntry
  <2>1. PICK r \in Requests : RowWrite(r)
    BY RowWriters DEF rows
  <2>2. CASE At(r, "add_insert") /\ u \in req[r].add
    BY <2>2
  <2>3. CASE At(r, "add_rejoin") /\ u \in req[r].back
    BY <2>3
  <2>4. CASE /\ UseInviteWrite(r) /\ InviteExists(req[r].invite)
             /\ useCount' = [useCount EXCEPT ![req[r].invite] = @ + 1]
    <3>1. req[r].invite \in Invites /\ useCount \in [Invites -> Nat]
      BY <2>4 DEF UseInviteWrite, At, InviteInv, LinksOK, JoinSteps, TypeOK
    <3>2. QED  BY <2>4, <3>1
  <2>5. QED  BY <2>1, <2>2, <2>3, <2>4, Entries DEF InviteInv
<1>2. Init => InviteInv
  BY InviteInvInductive, ConstantsAssumption
<1>3. InviteInv /\ [Next]_vars => InviteInv'
  BY InviteInvInductive, ConstantsAssumption
<1>4. QED  BY <1>1, <1>2, <1>3, PTL DEF Spec, AdmissionIsCounted, CountedEntry

(* The step that says coming and going leaves a mute alone.                *)
MuteKept == \A u \in Users : active'[u] # active[u] => mute'[u] = mute[u]

(* Whatever overlaps, no mute is shaken off by leaving and coming back.    *)
THEOREM MutesSurvive == Spec => MuteSurvivesRejoin
<1>1. TypeOK /\ [Next]_vars => [MuteKept]_vars
  <2> SUFFICES ASSUME TypeOK, [Next]_vars,
                      NEW u \in Users, active'[u] # active[u]
               PROVE  mute'[u] = mute[u]
    BY DEF MuteKept
  <2>1. PICK r \in Requests : RowWrite(r)
    BY RowWriters DEF rows
  <2>2. UNCHANGED mute \/ UNCHANGED active \/ UseInviteWrite(r)
    BY <2>1 DEF RowWrite, Create, AddMembersInsert, AddMembersRejoin, UpdateMemberWrite,
                RemoveMemberWrite, LeaveRoomWrite, TransferOwnershipWrite
  <2>3. UseInviteWrite(r) => mute'[u] = mute[u]
    BY DEF UseInviteWrite, UpsertedMute, TypeOK, rows
  <2>4. QED  BY <2>2, <2>3
<1>2. QED  BY <1>1, TypeCorrect, PTL DEF Spec, MuteSurvivesRejoin, MuteKept

-----------------------------------------------------------------------------
(* One request at a time, with whatever roles a PATCH may carry: the rules *)
(* of the roles.                                                           *)
(*                                                                         *)
(* None of the four rules below follows from the types: a handler writes   *)
(* without looking again.  What makes them true is that everything its     *)
(* checks established is still so when it writes.                          *)

(* addMembers: those it will bring back have a row, and have left.         *)
BackKnown(r) ==
  req[r].pc \in {"add_insert", "add_rejoin"} =>
    \A u \in req[r].back : HasRow(u) /\ ~active[u]

(* updateMember and removeMember: the actor's role is what was read.       *)
ActorKnown(r) ==
  req[r].pc \in {"update_target", "remove_target"} =>
    /\ req[r].actor \in Users /\ active[req[r].actor]
    /\ req[r].was = role[req[r].actor]
    /\ req[r].target \in Users

(* And once they write, the target is no owner; the actor outranks it when *)
(* it is put out or given a role.                                          *)
TargetKnown(r) ==
  req[r].pc \in {"update_write", "remove_write"} =>
    /\ req[r].actor \in Users /\ active[req[r].actor]
    /\ req[r].target \in Users /\ role[req[r].target] # "owner"
    /\ req[r].pc = "remove_write" \/ req[r].newRole # "keep" =>
         Weight(role[req[r].actor]) > Weight(role[req[r].target])

(* leaveRoom: an owner about to leave is alone.                            *)
LeaverKnown(r) ==
  /\ req[r].pc \in {"leave_count", "leave_write"} => req[r].actor \in Users
  /\ req[r].pc = "leave_write" /\ role[req[r].actor] = "owner" =>
       OthersIn(req[r].actor) = {}

(* transferOwnership: the actor owns the room, the target is in it.        *)
TransferKnown(r) ==
  /\ req[r].pc \in {"transfer_target", "transfer_write"} =>
       /\ req[r].actor \in Users /\ Owns(req[r].actor)
       /\ req[r].target \in Users
  /\ req[r].pc = "transfer_write" => active[req[r].target]

(* useInvite: whoever is about to be let in is not in.                     *)
JoinerKnown(r) ==
  /\ req[r].pc \in {"join_member", "join_write"} => req[r].actor \in Users
  /\ req[r].pc = "join_write" => ~active[req[r].actor]

Informed(r) ==
  /\ BackKnown(r) /\ ActorKnown(r) /\ TargetKnown(r)
  /\ LeaverKnown(r) /\ TransferKnown(r) /\ JoinerKnown(r)

RulesInv == TypeOK /\ IsFiniteSet(Owners) /\ \A r \in Requests : Informed(r)

(* The roles by weight: at least an owner is an owner, above an admin too. *)
LEMMA Weights ==
  ASSUME NEW x \in MemberRole \cup {"none"}
  PROVE  /\ Weight(x) >= Weight("owner") <=> x = "owner"
         /\ Weight(x) >= Weight("admin") <=> x \in {"owner", "admin"}
         /\ Weight(x) > Weight("admin") <=> x = "owner"
  BY DEF Weight, MemberRole

(* Nothing is claimed of the other slots' steps.                           *)
LEMMA Unconcerned ==
  ASSUME NEW r \in Requests,
         req'[r].pc \in {"idle", "add_find", "invite_create", "uninvite_role",
                         "uninvite_delete", "archive_write", "unarchive_write"}
  PROVE  Informed(r)'
<1>1. /\ BackKnown(r)' /\ ActorKnown(r)' /\ TargetKnown(r)'
      /\ LeaverKnown(r)' /\ TransferKnown(r)' /\ JoinerKnown(r)'
  BY DEF BackKnown, ActorKnown, TargetKnown, LeaverKnown, TransferKnown, JoinerKnown
<1>2. QED  BY <1>1 DEF Informed

(* The first step of a handler reads what it claims to know.               *)
LEMMA InformedArrive ==
  ASSUME TypeOK, NEW r \in Requests, Arrive(r)
  PROVE  Informed(r)'
<1> USE DEF rows
<1>0. /\ role \in [Users -> MemberRole \cup {"none"}]
      /\ Finish(r) => req'[r] = Blank
      /\ \A l : Begin(r, l) => req'[r] = l
      /\ Blank.pc = "idle"
  BY SlotMoves DEF TypeOK, Blank
<1>1. ASSUME NEW u \in Users, NEW ids \in SUBSET Users, Create(r, u, ids)
      PROVE  Informed(r)'
  <2>1. req'[r].pc \in {"idle", "add_find"}
    BY <1>0, <1>1 DEF Create, Blank
  <2>2. QED  BY <2>1, Unconcerned
<1>2. ASSUME NEW u \in Users, NEW v \in Users,
             NEW x \in RoleInputs \cup {"keep"}, NEW m \in MuteInputs \cup {"keep"},
             UpdateMember(r, u, v, x, m)
      PROVE  Informed(r)'
  <2> DEFINE l == [Blank EXCEPT !.pc = "update_target", !.actor = u, !.target = v,
                             !.was = role[u], !.newRole = x, !.newMute = m]
  <2>1. req'[r] = l /\ active[u] /\ UNCHANGED <<role, active>>
    BY <1>0, <1>2 DEF UpdateMember, IsMember
  <2>2. l.pc = "update_target" /\ l.actor = u /\ l.target = v /\ l.was = role[u]
    BY DEF Blank
  <2> HIDE DEF l
  <2>3. QED
    BY <2>1, <2>2 DEF Informed, BackKnown, ActorKnown, TargetKnown, LeaverKnown,
                TransferKnown, JoinerKnown
<1>3. ASSUME NEW u \in Users, NEW v \in Users, RemoveMember(r, u, v)
      PROVE  Informed(r)'
  <2> DEFINE l == [Blank EXCEPT !.pc = "remove_target", !.actor = u, !.target = v,
                             !.was = role[u]]
  <2>1. req'[r] = l /\ active[u] /\ UNCHANGED <<role, active>>
    BY <1>0, <1>3 DEF RemoveMember, HasRole
  <2>2. l.pc = "remove_target" /\ l.actor = u /\ l.target = v /\ l.was = role[u]
    BY DEF Blank
  <2> HIDE DEF l
  <2>3. QED
    BY <2>1, <2>2 DEF Informed, BackKnown, ActorKnown, TargetKnown, LeaverKnown,
                TransferKnown, JoinerKnown
<1>4. ASSUME NEW u \in Users, LeaveRoom(r, u)
      PROVE  Informed(r)'
  <2>1. /\ req'[r].pc = IF role[u] = "owner" THEN "leave_count" ELSE "leave_write"
        /\ req'[r].actor = u /\ UNCHANGED <<role, active>>
    BY <1>0, <1>4 DEF LeaveRoom, Blank
  <2>2. QED
    BY <2>1 DEF Informed, BackKnown, ActorKnown, TargetKnown, LeaverKnown,
                TransferKnown, JoinerKnown
<1>5. ASSUME NEW u \in Users, NEW v \in Users, TransferOwnership(r, u, v)
      PROVE  Informed(r)'
  <2>1. /\ req'[r].pc = "transfer_target" /\ req'[r].actor = u /\ req'[r].target = v
        /\ HasRole(u, "owner") /\ UNCHANGED <<role, active>>
    BY <1>0, <1>5 DEF TransferOwnership, Blank
  <2>2. QED
    BY <2>1 DEF Informed, BackKnown, ActorKnown, TargetKnown, LeaverKnown,
                TransferKnown, JoinerKnown, Owns, HasRole
<1>6. ASSUME NEW u \in Users, NEW i \in Invites, CreateInvite(r, u, i)
      PROVE  Informed(r)'
  BY <1>0, <1>6, Unconcerned DEF CreateInvite, Blank
<1>7. ASSUME NEW u \in Users, NEW i \in Invites, UseInvite(r, u, i)
      PROVE  Informed(r)'
  <2>1. req'[r].pc = "join_member" /\ req'[r].actor = u
    BY <1>0, <1>7 DEF UseInvite, Blank
  <2>2. QED
    BY <2>1 DEF Informed, BackKnown, ActorKnown, TargetKnown, LeaverKnown,
                TransferKnown, JoinerKnown
<1>8. ASSUME NEW u \in Users, NEW i \in Invites, DeleteInvite(r, u, i)
      PROVE  Informed(r)'
  BY <1>0, <1>8, Unconcerned DEF DeleteInvite, Blank
<1>9. ASSUME NEW u \in Users, NEW to \in {"archive_write", "unarchive_write"},
             Archive(r, u, to)
      PROVE  Informed(r)'
  BY <1>0, <1>9, Unconcerned DEF Archive, Blank
<1>10. QED
  BY <1>1, <1>2, <1>3, <1>4, <1>5, <1>6, <1>7, <1>8, <1>9 DEF Arrive

(* Its later steps hand on what they knew, and what they check besides.    *)
LEMMA InformedContinue ==
  ASSUME TypeOK, NEW r \in Requests, Informed(r), Continue(r)
  PROVE  Informed(r)'
<1> USE DEF rows
<1>0. /\ role \in [Users -> MemberRole \cup {"none"}]
      /\ active \in [Users -> BOOLEAN]
      /\ req[r] \in Request
  BY DEF TypeOK
<1>a. Finish(r) => Informed(r)'
  BY SlotMoves, Unconcerned DEF Blank
<1>b. ASSUME NEW step, Goto(r, step)
      PROVE  /\ req'[r].pc = step
             /\ req'[r].actor = req[r].actor /\ req'[r].target = req[r].target
             /\ req'[r].newRole = req[r].newRole /\ req'[r].back = req[r].back
  BY <1>b, SlotMoves
<1>1. AddMembersFind(r) => Informed(r)'
  <2> SUFFICES ASSUME AddMembersFind(r) PROVE Informed(r)'
    OBVIOUS
  <2> DEFINE add == {u \in req[r].add : ~HasRow(u)}
             back == {u \in req[r].add : HasRow(u) /\ ~active[u]}
  <2>1. req' = [req EXCEPT ![r] =
                [@ EXCEPT !.pc = "add_insert", !.add = add, !.back = back]]
    BY DEF AddMembersFind
  <2>2. \A u \in back : HasRow(u)' /\ ~active'[u]
    BY DEF AddMembersFind, HasRow
  <2> HIDE DEF add, back
  <2>3. req'[r].pc = "add_insert" /\ req'[r].back = back
    BY <1>0, <2>1 DEF Request, TypeOK
  <2>4. QED
    BY <2>2, <2>3 DEF Informed, BackKnown, ActorKnown, TargetKnown, LeaverKnown,
                      TransferKnown, JoinerKnown
<1>2. AddMembersInsert(r) => Informed(r)'
  <2> SUFFICES ASSUME AddMembersInsert(r), Goto(r, "add_rejoin") PROVE Informed(r)'
    BY <1>a DEF AddMembersInsert
  <2>1. req[r].back \subseteq Users /\ \A u \in req[r].back : HasRow(u) /\ ~active[u]
    BY <1>0 DEF AddMembersInsert, At, Informed, BackKnown, Request
  <2>2. \A u \in req[r].back : HasRow(u)' /\ ~active'[u]
    BY <1>0, <2>1 DEF AddMembersInsert, HasRow
  <2>3. req'[r].pc = "add_rejoin" /\ req'[r].back = req[r].back
    BY <1>b
  <2>4. QED
    BY <2>2, <2>3 DEF Informed, BackKnown, ActorKnown, TargetKnown, LeaverKnown,
                      TransferKnown, JoinerKnown
<1>3. ASSUME NEW u \in Users, AddMembersRejoin(r, u)
      PROVE  Informed(r)'
  <2> SUFFICES ASSUME req' = [req EXCEPT ![r].back = @ \ {u}] PROVE Informed(r)'
    BY <1>3, <1>a DEF AddMembersRejoin
  <2>1. req[r].back \subseteq Users /\ \A v \in req[r].back : HasRow(v) /\ ~active[v]
    BY <1>0, <1>3 DEF AddMembersRejoin, At, Informed, BackKnown, Request
  <2>2. req'[r].pc = "add_rejoin" /\ req'[r].back = req[r].back \ {u}
    BY <1>0, <1>3 DEF AddMembersRejoin, At, Request, TypeOK
  <2>3. \A v \in req'[r].back : HasRow(v)' /\ ~active'[v]
    BY <1>0, <1>3, <2>1, <2>2 DEF AddMembersRejoin, HasRow
  <2>4. QED
    BY <2>2, <2>3 DEF Informed, BackKnown, ActorKnown, TargetKnown, LeaverKnown,
                      TransferKnown, JoinerKnown
<1>4. UpdateMemberTarget(r) => Informed(r)'
  <2> SUFFICES ASSUME UpdateMemberTarget(r),
                      MayUpdate(req[r].was, req[r].target, req[r].newRole),
                      Goto(r, "update_write")
               PROVE  Informed(r)'
    BY <1>a DEF UpdateMemberTarget, CheckThen
  <2>1. UNCHANGED <<role, active>>
    BY DEF UpdateMemberTarget, CheckThen
  <2>2. /\ req'[r].pc = "update_write"
        /\ req'[r].actor = req[r].actor /\ req'[r].target = req[r].target
        /\ req'[r].newRole = req[r].newRole
    BY <1>b
  <2>3. /\ req[r].actor \in Users /\ active[req[r].actor]
        /\ req[r].was = role[req[r].actor] /\ req[r].target \in Users
    BY DEF UpdateMemberTarget, At, Informed, ActorKnown
  <2>4. QED
    BY <2>1, <2>2, <2>3 DEF MayUpdate, Informed, BackKnown, ActorKnown, TargetKnown,
                            LeaverKnown, TransferKnown, JoinerKnown
<1>5. RemoveMemberTarget(r) => Informed(r)'
  <2> SUFFICES ASSUME RemoveMemberTarget(r), MayRemove(req[r].was, req[r].target),
                      Goto(r, "remove_write")
               PROVE  Informed(r)'
    BY <1>a DEF RemoveMemberTarget, CheckThen
  <2>1. UNCHANGED <<role, active>>
    BY DEF RemoveMemberTarget, CheckThen
  <2>2. /\ req'[r].pc = "remove_write"
        /\ req'[r].actor = req[r].actor /\ req'[r].target = req[r].target
    BY <1>b
  <2>3. /\ req[r].actor \in Users /\ active[req[r].actor]
        /\ req[r].was = role[req[r].actor] /\ req[r].target \in Users
    BY DEF RemoveMemberTarget, At, Informed, ActorKnown
  <2>4. QED
    BY <2>1, <2>2, <2>3 DEF MayRemove, Informed, BackKnown, ActorKnown, TargetKnown,
                            LeaverKnown, TransferKnown, JoinerKnown
<1>6. LeaveRoomCount(r) => Informed(r)'
  <2> SUFFICES ASSUME LeaveRoomCount(r), OthersIn(req[r].actor) = {},
                      Goto(r, "leave_write")
               PROVE  Informed(r)'
    BY <1>a DEF LeaveRoomCount, CheckThen
  <2>1. UNCHANGED <<role, active>>
    BY DEF LeaveRoomCount, CheckThen
  <2>2. req'[r].pc = "leave_write" /\ req'[r].actor = req[r].actor
    BY <1>b
  <2>3. req[r].actor \in Users
    BY DEF LeaveRoomCount, At, Informed, LeaverKnown
  <2>4. OthersIn(req[r].actor)' = {}
    BY <2>1, <2>2 DEF OthersIn
  <2>5. QED
    BY <2>1, <2>2, <2>3, <2>4 DEF Informed, BackKnown, ActorKnown, TargetKnown,
                                  LeaverKnown, TransferKnown, JoinerKnown
<1>7. TransferOwnershipTarget(r) => Informed(r)'
  <2> SUFFICES ASSUME TransferOwnershipTarget(r), IsMember(req[r].target),
                      Goto(r, "transfer_write")
               PROVE  Informed(r)'
    BY <1>a DEF TransferOwnershipTarget, CheckThen
  <2>1. UNCHANGED <<role, active>>
    BY DEF TransferOwnershipTarget, CheckThen
  <2>2. /\ req'[r].pc = "transfer_write"
        /\ req'[r].actor = req[r].actor /\ req'[r].target = req[r].target
    BY <1>b
  <2>3. /\ req[r].actor \in Users /\ Owns(req[r].actor) /\ req[r].target \in Users
    BY DEF TransferOwnershipTarget, At, Informed, TransferKnown
  <2>4. QED
    BY <2>1, <2>2, <2>3 DEF IsMember, Owns, HasRole, Informed, BackKnown, ActorKnown,
                            TargetKnown, LeaverKnown, TransferKnown, JoinerKnown
<1>8. UseInviteMember(r) => Informed(r)'
  <2> SUFFICES ASSUME UseInviteMember(r), MayJoin(req[r].actor), Goto(r, "join_write")
               PROVE  Informed(r)'
    BY <1>a DEF UseInviteMember, CheckThen
  <2>1. UNCHANGED active
    BY DEF UseInviteMember, CheckThen
  <2>2. req'[r].pc = "join_write" /\ req'[r].actor = req[r].actor
    BY <1>b
  <2>3. req[r].actor \in Users
    BY DEF UseInviteMember, At, Informed, JoinerKnown
  <2>4. QED
    BY <2>1, <2>2, <2>3 DEF MayJoin, IsMember, Informed, BackKnown, ActorKnown,
                            TargetKnown, LeaverKnown, TransferKnown, JoinerKnown
<1>9. DeleteInviteRole(r) => Informed(r)'
  <2> SUFFICES ASSUME DeleteInviteRole(r) PROVE Informed(r)'
    OBVIOUS
  <2>1. req'[r].pc \in {"uninvite_delete", "idle"}
    BY <1>0 DEF DeleteInviteRole, Blank, TypeOK
  <2>2. QED  BY <2>1, Unconcerned
<1>10. /\ UpdateMemberWrite(r) => Informed(r)'
       /\ RemoveMemberWrite(r) => Informed(r)'
       /\ LeaveRoomWrite(r) => Informed(r)'
       /\ TransferOwnershipWrite(r) => Informed(r)'
       /\ \A limit \in Limits : CreateInviteWrite(r, limit) => Informed(r)'
       /\ UseInviteWrite(r) => Informed(r)'
       /\ DeleteInviteWrite(r) => Informed(r)'
       /\ ArchiveWrite(r) => Informed(r)'
  BY <1>a DEF UpdateMemberWrite, RemoveMemberWrite, LeaveRoomWrite,
              TransferOwnershipWrite, CreateInviteWrite, UseInviteWrite,
              DeleteInviteWrite, ArchiveWrite
<1>11. QED
  BY <1>1, <1>2, <1>3, <1>4, <1>5, <1>6, <1>7, <1>8, <1>9, <1>10 DEF Continue

(* What a write of rows does to whose row when the handler is informed:    *)
(* for every user, whose role and whether in it, before and after.         *)
LEMMA WritesFollowRules ==
  ASSUME TypeOK, NEW r \in Requests, Informed(r), RowWrite(r)
  PROVE  /\ (\E u \in Users : Owns(u)) =>
              (\E u \in Users : Owns(u))' \/ (\A u \in Users : ~active'[u])
         /\ \A u \in Users : HasRole(u, "admin") /\ ~Owns(u) /\ ~HasRole(u, "admin")' =>
              req'[r] # req[r] /\ (req[r].actor = u \/ Owns(req[r].actor))
         /\ \/ \E v \in Users : Owners' \subseteq (Owners \ {req[r].actor}) \cup {v}
                                /\ req[r].actor \in Owners
            \/ Owners' \subseteq Owners
            \/ At(r, "update_write") /\ req[r].newRole = "owner"
               /\ Owners' \subseteq Owners \cup {req[r].target}
            \/ Owners = {} /\ \E v \in Users : Owners' \subseteq {v}
         /\ UseInviteWrite(r) /\ useCount' # useCount =>
              \E u \in Users : ~active[u] /\ active'[u]
<1> DEFINE Kept == (\E u \in Users : Owns(u)) =>
                     (\E u \in Users : Owns(u))' \/ (\A u \in Users : ~active'[u])
           Managed == \A u \in Users :
                        HasRole(u, "admin") /\ ~Owns(u) /\ ~HasRole(u, "admin")' =>
                          req'[r] # req[r] /\ (req[r].actor = u \/ Owns(req[r].actor))
           Moved == \/ \E v \in Users : Owners' \subseteq (Owners \ {req[r].actor}) \cup {v}
                                        /\ req[r].actor \in Owners
                    \/ Owners' \subseteq Owners
                    \/ At(r, "update_write") /\ req[r].newRole = "owner"
                       /\ Owners' \subseteq Owners \cup {req[r].target}
                    \/ Owners = {} /\ \E v \in Users : Owners' \subseteq {v}
           Admitted == UseInviteWrite(r) /\ useCount' # useCount =>
                         \E u \in Users : ~active[u] /\ active'[u]
<1>0. /\ role \in [Users -> MemberRole \cup {"none"}]
      /\ active \in [Users -> BOOLEAN]
      /\ req[r] \in Request
  BY DEF TypeOK
<1>1. \A u \in Users : /\ Owns(u) <=> active[u] /\ role[u] = "owner"
                       /\ HasRole(u, "admin") <=> active[u] /\ role[u] \in {"owner", "admin"}
  BY <1>0, Weights DEF Owns, HasRole
<1>2. ASSUME role' \in [Users -> MemberRole \cup {"none"}]
      PROVE  \A u \in Users :
               /\ Owns(u)' <=> active'[u] /\ role'[u] = "owner"
               /\ HasRole(u, "admin")' <=> active'[u] /\ role'[u] \in {"owner", "admin"}
  BY <1>2, Weights DEF Owns, HasRole
<1>a. Finish(r) /\ req[r].pc # "idle" => req'[r] # req[r]
  BY SlotMoves DEF Blank
<1>3. ASSUME NEW w \in Users, NEW ids \in SUBSET Users, Create(r, w, ids)
      PROVE  Kept /\ Managed /\ Moved /\ Admitted
  <2>1. \A u \in Users : role[u] = "none"
    BY <1>3 DEF Create, HasRow
  <2>2. Owners = {} /\ Owners' \subseteq {w}
    BY <1>0, <1>3, <2>1 DEF Create, Owners
  <2>3. Kept /\ Managed
    BY <1>1, <2>1
  <2>4. Admitted
    BY <1>3 DEF Create, links
  <2>5. QED  BY <2>2, <2>3, <2>4
<1>4. ASSUME AddMembersInsert(r) PROVE Kept /\ Managed /\ Moved /\ Admitted
  <2>1. \A u \in Users : /\ role[u] # "none" => role'[u] = role[u] /\ active'[u] = active[u]
                         /\ role'[u] = "owner" => role[u] = "owner"
    BY <1>0, <1>4 DEF AddMembersInsert, HasRow
  <2>2. role' \in [Users -> MemberRole \cup {"none"}]
    BY <1>0, <1>4 DEF AddMembersInsert, MemberRole
  <2>3. Kept /\ Managed
    BY <1>1, <1>2, <2>1, <2>2
  <2>4. Owners' \subseteq Owners
    BY <2>1 DEF Owners
  <2>5. Admitted
    BY <1>4 DEF AddMembersInsert, links
  <2>6. QED  BY <2>3, <2>4, <2>5
<1>5. ASSUME NEW w \in Users, AddMembersRejoin(r, w)
      PROVE  Kept /\ Managed /\ Moved /\ Admitted
  <2>1. ~active[w]
    BY <1>5 DEF AddMembersRejoin, At, Informed, BackKnown
  <2>2. /\ role' \in [Users -> MemberRole \cup {"none"}]
        /\ \A u \in Users : u # w => role'[u] = role[u] /\ active'[u] = active[u]
        /\ role'[w] = "member"
    BY <1>0, <1>5 DEF AddMembersRejoin, MemberRole
  <2>3. Kept /\ Managed
    BY <1>1, <1>2, <2>1, <2>2
  <2>4. Owners' \subseteq Owners
    BY <2>2 DEF Owners
  <2>5. Admitted
    BY <1>5 DEF AddMembersRejoin, links
  <2>6. QED  BY <2>3, <2>4, <2>5
<1>6. ASSUME UpdateMemberWrite(r) PROVE Kept /\ Managed /\ Moved /\ Admitted
  <2> DEFINE a == req[r].actor  w == req[r].target  x == req[r].newRole
  <2>1. /\ a \in Users /\ active[a] /\ w \in Users /\ role[w] # "owner"
        /\ x # "keep" => Weight(role[a]) > Weight(role[w])
        /\ req[r].pc = "update_write"
    BY <1>6 DEF UpdateMemberWrite, At, Informed, TargetKnown
  <2>2. /\ \A u \in Users : u # w => role'[u] = role[u]
        /\ role'[w] = IF x = "keep" THEN role[w] ELSE x
        /\ UNCHANGED active /\ Finish(r)
    BY <1>0, <1>6, <2>1 DEF UpdateMemberWrite, Overwrite
  <2>3. role' \in [Users -> MemberRole \cup {"none"}]
    <3>1. x \in MemberRole \cup {"keep"}
      BY <1>0, ConstantsAssumption DEF Request, ConstantsAssumption
    <3>2. QED  BY <1>0, <1>6, <2>1, <3>1 DEF UpdateMemberWrite, Overwrite
  <2>4. role[w] = "admin" /\ x # "keep" => role[a] = "owner"
    BY <1>0, <2>1, Weights
  <2>5. req'[r] # req[r]
    BY <1>a, <2>1, <2>2
  <2> HIDE DEF a, w, x
  <2>6. Kept
    BY <1>1, <1>2, <2>1, <2>2, <2>3
  <2>7. Managed
    <3> SUFFICES ASSUME NEW u \in Users, HasRole(u, "admin"), ~Owns(u),
                        ~HasRole(u, "admin")'
                 PROVE  Owns(a)
      BY <2>5 DEF a
    <3>1. u = w /\ x # "keep" /\ role[w] = "admin"
      BY <1>1, <1>2, <2>2, <2>3
    <3>2. QED  BY <1>1, <2>1, <2>4, <3>1
  <2>8. Moved
    <3>1. CASE x = "owner"
      <4>1. Owners' \subseteq Owners \cup {w}
        BY <2>2 DEF Owners
      <4>2. QED  BY <2>1, <3>1, <4>1 DEF At, x, w
    <3>2. CASE x # "owner"
      <4>1. Owners' \subseteq Owners
        BY <2>1, <2>2, <3>2 DEF Owners
      <4>2. QED  BY <4>1
    <3>3. QED  BY <3>1, <3>2
  <2>9. Admitted
    BY <1>6 DEF UpdateMemberWrite, links
  <2>10. QED  BY <2>6, <2>7, <2>8, <2>9
<1>7. ASSUME RemoveMemberWrite(r) PROVE Kept /\ Managed /\ Moved /\ Admitted
  <2> DEFINE a == req[r].actor  w == req[r].target
  <2>1. /\ a \in Users /\ active[a] /\ w \in Users /\ role[w] # "owner"
        /\ Weight(role[a]) > Weight(role[w])
        /\ req[r].pc = "remove_write"
    BY <1>7 DEF RemoveMemberWrite, At, Informed, TargetKnown
  <2>2. /\ \A u \in Users : u # w => active'[u] = active[u]
        /\ UNCHANGED role /\ Finish(r)
    BY <1>0, <1>7, <2>1 DEF RemoveMemberWrite
  <2>3. role[w] = "admin" => role[a] = "owner"
    BY <1>0, <2>1, Weights
  <2>4. req'[r] # req[r]
    BY <1>a, <2>1, <2>2
  <2> HIDE DEF a, w
  <2>5. Kept
    BY <1>0, <1>1, <1>2, <2>1, <2>2
  <2>6. Managed
    <3> SUFFICES ASSUME NEW u \in Users, HasRole(u, "admin"), ~Owns(u),
                        ~HasRole(u, "admin")'
                 PROVE  Owns(a)
      BY <2>4 DEF a
    <3>1. u = w /\ role[w] = "admin"
      BY <1>0, <1>1, <1>2, <2>2
    <3>2. QED  BY <1>1, <2>1, <2>3, <3>1
  <2>7. Owners' \subseteq Owners
    BY <2>2 DEF Owners
  <2>8. Admitted
    BY <1>7 DEF RemoveMemberWrite, links
  <2>9. QED  BY <2>5, <2>6, <2>7, <2>8
<1>8. ASSUME LeaveRoomWrite(r) PROVE Kept /\ Managed /\ Moved /\ Admitted
  <2> DEFINE a == req[r].actor
  <2>1. /\ a \in Users /\ req[r].pc = "leave_write"
        /\ role[a] = "owner" => \A u \in Users \ {a} : ~active[u]
    BY <1>8 DEF LeaveRoomWrite, At, Informed, LeaverKnown, OthersIn
  <2>2. /\ \A u \in Users : u # a => active'[u] = active[u]
        /\ ~active'[a] /\ UNCHANGED role /\ Finish(r)
    BY <1>0, <1>8, <2>1 DEF LeaveRoomWrite
  <2>3. req'[r] # req[r]
    BY <1>a, <2>1, <2>2
  <2> HIDE DEF a
  <2>4. Kept
    BY <1>0, <1>1, <1>2, <2>1, <2>2
  <2>5. Managed
    <3> SUFFICES ASSUME NEW u \in Users, HasRole(u, "admin"), ~HasRole(u, "admin")'
                 PROVE  a = u
      BY <2>3 DEF a
    <3>1. QED  BY <1>0, <1>1, <1>2, <2>2
  <2>6. Owners' \subseteq Owners
    BY <2>2 DEF Owners
  <2>7. Admitted
    BY <1>8 DEF LeaveRoomWrite, links
  <2>8. QED  BY <2>4, <2>5, <2>6, <2>7
<1>9. ASSUME TransferOwnershipWrite(r) PROVE Kept /\ Managed /\ Moved /\ Admitted
  <2> DEFINE a == req[r].actor  w == req[r].target
  <2>1. a \in Users /\ Owns(a) /\ w \in Users /\ active[w]
    BY <1>9 DEF TransferOwnershipWrite, At, Informed, TransferKnown
  <2>2. /\ \A u \in Users : u \notin {a, w} => role'[u] = role[u]
        /\ role'[w] = "owner" /\ (a # w => role'[a] = "admin")
        /\ UNCHANGED active
    BY <1>0, <1>9, <2>1 DEF TransferOwnershipWrite, DemotedTo
  <2>3. role' \in [Users -> MemberRole \cup {"none"}]
    BY <1>0, <1>9 DEF TransferOwnershipWrite, DemotedTo, MemberRole
  <2> HIDE DEF a, w
  <2>4. Kept /\ Managed
    BY <1>1, <1>2, <2>1, <2>2, <2>3
  <2>5. Owners' \subseteq (Owners \ {a}) \cup {w} /\ a \in Owners
    BY <1>1, <2>1, <2>2 DEF Owners
  <2>6. Moved
    BY <2>1, <2>5 DEF a
  <2>7. Admitted
    BY <1>9 DEF TransferOwnershipWrite, links
  <2>8. QED  BY <2>4, <2>6, <2>7
<1>10. ASSUME UseInviteWrite(r) PROVE Kept /\ Managed /\ Moved /\ Admitted
  <2> DEFINE a == req[r].actor
  <2>1. a \in Users /\ ~active[a]
    BY <1>10 DEF UseInviteWrite, At, Informed, JoinerKnown
  <2>2. /\ \A u \in Users : u # a => role'[u] = role[u] /\ active'[u] = active[u]
        /\ UNCHANGED <<role, active, useCount>> \/ (role'[a] = "member" /\ active'[a])
    BY <1>0, <1>10, <2>1 DEF UseInviteWrite, UpsertedRole, rows
  <2>3. role' \in [Users -> MemberRole \cup {"none"}]
    BY <1>0, <1>10 DEF UseInviteWrite, UpsertedRole, MemberRole, rows
  <2> HIDE DEF a
  <2>4. Kept /\ Managed
    BY <1>1, <1>2, <2>1, <2>2, <2>3
  <2>5. Owners' \subseteq Owners
    BY <2>2 DEF Owners
  <2>6. Admitted
    BY <2>1, <2>2
  <2>7. QED  BY <2>4, <2>5, <2>6
<1>11. QED
  <2>1. Kept /\ Managed /\ Moved /\ Admitted
    BY <1>3, <1>4, <1>5, <1>6, <1>7, <1>8, <1>9, <1>10 DEF RowWrite
  <2>2. QED  BY <2>1

(* The owners stay a finite set, and it grows from some to more only by a  *)
(* PATCH that gives the role.                                              *)
LEMMA OwnersCounted ==
  ASSUME TypeOK, IsFiniteSet(Owners), NEW r \in Requests, Informed(r), RowWrite(r)
  PROVE  /\ IsFiniteSet(Owners')
         /\ Owners # {} /\ Cardinality(Owners') > Cardinality(Owners) =>
              At(r, "update_write") /\ req[r].newRole = "owner"
<1>0. Cardinality(Owners) \in Nat
  BY FS_CardinalityType
<1>1. CASE Owners' \subseteq Owners
  <2>1. IsFiniteSet(Owners') /\ Cardinality(Owners') <= Cardinality(Owners)
    BY <1>1, FS_Subset
  <2>2. QED  BY <1>0, <2>1, FS_CardinalityType
<1>2. CASE At(r, "update_write") /\ req[r].newRole = "owner"
           /\ Owners' \subseteq Owners \cup {req[r].target}
  <2>1. IsFiniteSet(Owners \cup {req[r].target})
    BY FS_AddElement
  <2>2. QED  BY <1>2, <2>1, FS_Subset
<1>3. CASE Owners = {} /\ \E v \in Users : Owners' \subseteq {v}
  <2>1. PICK v \in Users : Owners' \subseteq {v}
    BY <1>3
  <2>2. IsFiniteSet({v})
    BY FS_Singleton
  <2>3. QED  BY <1>3, <2>1, <2>2, FS_Subset
<1>4. ASSUME NEW v \in Users, Owners' \subseteq (Owners \ {req[r].actor}) \cup {v},
             req[r].actor \in Owners
      PROVE  IsFiniteSet(Owners') /\ Cardinality(Owners') <= Cardinality(Owners)
  <2> DEFINE rest == Owners \ {req[r].actor}
  <2>1. IsFiniteSet(rest) /\ Cardinality(rest) = Cardinality(Owners) - 1
    BY <1>4, FS_RemoveElement
  <2>2. /\ IsFiniteSet(rest \cup {v})
        /\ Cardinality(rest \cup {v}) = Cardinality(rest)
           \/ Cardinality(rest \cup {v}) = Cardinality(rest) + 1
    BY <2>1, FS_AddElement
  <2>3. /\ IsFiniteSet(Owners')
        /\ Cardinality(Owners') <= Cardinality(rest \cup {v})
    BY <1>4, <2>2, FS_Subset
  <2> HIDE DEF rest
  <2>4. Cardinality(Owners') \in Nat
    BY <2>3, FS_CardinalityType
  <2>5. QED  BY <1>0, <2>1, <2>2, <2>3, <2>4
<1>5. CASE \E v \in Users : Owners' \subseteq (Owners \ {req[r].actor}) \cup {v}
                            /\ req[r].actor \in Owners
  <2>1. IsFiniteSet(Owners') /\ Cardinality(Owners') <= Cardinality(Owners)
    BY <1>4, <1>5
  <2>2. QED  BY <1>0, <2>1, FS_CardinalityType
<1>6. QED  BY <1>1, <1>2, <1>3, <1>5, WritesFollowRules

(* With one request at a time, every handler stays informed.               *)
LEMMA RulesInvInductive ==
  ASSUME Sequential
  PROVE  /\ Init => RulesInv
         /\ RulesInv /\ [Next]_vars => RulesInv'
<1>1. ASSUME Init PROVE RulesInv
  <2>1. Owners = {} /\ IsFiniteSet(Owners)
    <3>1. Owners = {}
      BY <1>1 DEF Init, Owners
    <3>2. QED  BY <3>1, FS_EmptySet
  <2>2. ASSUME NEW r \in Requests PROVE Informed(r)
    <3>1. req[r].pc = "idle"
      BY <1>1 DEF Init, Blank
    <3>2. QED
      BY <3>1 DEF Informed, BackKnown, ActorKnown, TargetKnown, LeaverKnown,
                  TransferKnown, JoinerKnown
  <2>3. QED  BY <1>1, <2>1, <2>2, TypeInit DEF RulesInv
<1>2. ASSUME RulesInv, [Next]_vars PROVE RulesInv'
  <2>1. TypeOK'
    BY <1>2, TypeNext, ConstantsAssumption DEF RulesInv
  <2>2. IsFiniteSet(Owners')
    <3>1. CASE UNCHANGED rows
      <4>1. Owners' = Owners
        BY <3>1 DEF rows, Owners
      <4>2. QED  BY <1>2, <4>1 DEF RulesInv
    <3>2. CASE \E r \in Requests : RowWrite(r)
      BY <1>2, <3>2, OwnersCounted DEF RulesInv
    <3>3. QED  BY <1>2, <3>1, <3>2, RowWriters
  <2>3. ASSUME NEW r \in Requests PROVE Informed(r)'
    <3>1. ASSUME NEW s \in Requests, Arrive(s) \/ Continue(s) PROVE Informed(r)'
      <4>1. s = r
        BY DEF Sequential
      <4>2. QED
        BY <1>2, <3>1, <4>1, InformedArrive, InformedContinue DEF RulesInv
    <3>2. ASSUME UNCHANGED <<role, active, req>> PROVE Informed(r)'
      <4>1. Informed(r)
        BY <1>2 DEF RulesInv
      <4>2. QED
        BY <3>2, <4>1 DEF Informed, BackKnown, ActorKnown, TargetKnown, LeaverKnown,
                          TransferKnown, JoinerKnown, HasRow, OthersIn, Owns, HasRole
    <3>3. ASSUME NEW i \in Invites, Expire(i) PROVE Informed(r)'
      BY <3>2, <3>3 DEF Expire, rows
    <3>4. CASE UNCHANGED vars
      BY <3>2, <3>4 DEF vars
    <3>5. QED  BY <1>2, <3>1, <3>3, <3>4 DEF Next
  <2>4. QED  BY <2>1, <2>2, <2>3 DEF RulesInv
<1>3. QED  BY <1>1, <1>2

(* The four rules, as what a step does.                                    *)
OwnerKept ==
  (\E u \in Users : Owns(u)) =>
    (\E u \in Users : Owns(u))' \/ (\A u \in Users : ~active'[u])

AdminsManaged ==
  \A u \in Users :
    HasRole(u, "admin") /\ ~Owns(u) /\ ~(HasRole(u, "admin"))' =>
      \E r \in Requests : /\ req'[r] # req[r]
                          /\ req[r].actor = u \/ Owns(req[r].actor)

OwnersMoved ==
  Owners # {} /\ Cardinality(Owners') > Cardinality(Owners) =>
    \E r \in Requests : At(r, "update_write") /\ req[r].newRole = "owner"

UseAdmits ==
  \A i \in Invites : useCount'[i] # useCount[i] =>
    \E u \in Users : ~active[u] /\ active'[u]

(* Every step from a state where the handlers are informed follows them.   *)
LEMMA StepsFollowRules ==
  ASSUME RulesInv, [Next]_vars
  PROVE  OwnerKept /\ AdminsManaged /\ OwnersMoved /\ UseAdmits
<1>1. TypeOK /\ IsFiniteSet(Owners) /\ \A r \in Requests : Informed(r)
  BY DEF RulesInv
<1>2. OwnerKept /\ AdminsManaged
  <2>1. CASE UNCHANGED rows
    BY <2>1 DEF rows, OwnerKept, AdminsManaged, Owns, HasRole
  <2>2. ASSUME NEW r \in Requests, RowWrite(r) PROVE OwnerKept /\ AdminsManaged
    BY <1>1, <2>2, WritesFollowRules DEF OwnerKept, AdminsManaged
  <2>3. QED  BY <2>1, <2>2, RowWriters
<1>3. OwnersMoved
  <2>1. CASE UNCHANGED rows
    <3>1. Owners' = Owners /\ Cardinality(Owners) \in Nat
      BY <1>1, <2>1, FS_CardinalityType DEF rows, Owners
    <3>2. QED  BY <3>1 DEF OwnersMoved
  <2>2. ASSUME NEW r \in Requests, RowWrite(r) PROVE OwnersMoved
    BY <1>1, <2>2, OwnersCounted DEF OwnersMoved
  <2>3. QED  BY <2>1, <2>2, RowWriters
<1>4. UseAdmits
  <2>1. ASSUME NEW r \in Requests, UseInviteWrite(r) PROVE UseAdmits
    BY <1>1, <2>1, WritesFollowRules DEF UseAdmits, RowWrite
  <2>2. QED  BY <2>1, RowWriters DEF UseAdmits
<1>5. QED  BY <1>2, <1>3, <1>4

(* Handlers that run one at a time are always informed.                    *)
LEMMA AlwaysInformed ==
  ASSUME Sequential
  PROVE  Spec => []RulesInv
<1>1. Init => RulesInv
  BY RulesInvInductive
<1>2. RulesInv /\ [Next]_vars => RulesInv'
  BY RulesInvInductive
<1>3. QED  BY <1>1, <1>2, PTL DEF Spec

(* One request at a time: a room in which somebody still is never loses    *)
(* its last active owner, whatever roles a PATCH may carry.                *)
THEOREM OwnerStays ==
  ASSUME Sequential
  PROVE  Spec => OwnerNeverAbandons
<1>1. RulesInv /\ [Next]_vars => [OwnerKept]_vars
  BY StepsFollowRules
<1>2. QED  BY <1>1, AlwaysInformed, PTL DEF Spec, OwnerNeverAbandons, OwnerKept

(* One request at a time: an admin loses the role or is put out only by an *)
(* owner or by leaving.                                                    *)
THEOREM AdminsAnswerToOwners ==
  ASSUME Sequential
  PROVE  Spec => OnlyOwnerManagesAdmins
<1>1. RulesInv /\ [Next]_vars => [AdminsManaged]_vars
  BY StepsFollowRules
<1>2. QED  BY <1>1, AlwaysInformed, PTL DEF Spec, OnlyOwnerManagesAdmins, AdminsManaged

(* One request at a time: the owners of a room that has one get more only  *)
(* by a PATCH that gives the role.                                         *)
THEOREM OwnersGrowByPatch ==
  ASSUME Sequential
  PROVE  Spec => OwnersGrowByPatchOnly
<1>1. RulesInv /\ [Next]_vars => [OwnersMoved]_vars
  BY StepsFollowRules
<1>2. QED  BY <1>1, AlwaysInformed, PTL DEF Spec, OwnersGrowByPatchOnly, OwnersMoved

(* One request at a time: every counted use of an invite lets one user in  *)
(* who was not in.                                                         *)
THEOREM UsesAdmit ==
  ASSUME Sequential
  PROVE  Spec => EachUseAdmitsOne
<1>1. RulesInv /\ [Next]_vars => [UseAdmits]_vars
  BY StepsFollowRules
<1>2. QED  BY <1>1, AlwaysInformed, PTL DEF Spec, EachUseAdmitsOne, UseAdmits
=============================================================================
