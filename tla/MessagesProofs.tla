--------------------------- MODULE MessagesProofs ---------------------------
(***************************************************************************)
(* Theorems about Messages, for any number of users, messages and slots.   *)
(***************************************************************************)
EXTENDS Messages, FiniteSetTheorems, TLAPS

(* The record of a free slot has the type of a request.                    *)
LEMMA BlankType == Blank \in Request
  BY DEF Blank, Request

(* Beginning, continuing and finishing a request keep the type of req.     *)
LEMMA SlotTypes ==
  ASSUME NEW r \in Requests, req \in [Requests -> Request]
  PROVE  /\ \A l \in Request : Begin(r, l) => req' \in [Requests -> Request]
         /\ \A q \in Request : Goto(r, q.pc) => req' \in [Requests -> Request]
         /\ Finish(r) => req' \in [Requests -> Request]
<1>1. \A l \in Request : Begin(r, l) => req' \in [Requests -> Request]
  BY DEF Begin
<1>2. ASSUME NEW q \in Request, Goto(r, q.pc)
      PROVE  req' \in [Requests -> Request]
  <2>1. [req[r] EXCEPT !.pc = q.pc] \in Request
    BY DEF Request
  <2>2. QED  BY <1>2, <2>1 DEF Goto
<1>3. Finish(r) => req' \in [Requests -> Request]
  BY BlankType DEF Finish
<1>4. QED  BY <1>1, <1>2, <1>3

(* A step name is the pc of some request.                                  *)
LEMMA StepNames ==
  ASSUME NEW step \in {"create_write", "delete_find", "remove_role", "delete_write",
                       "decrement", "read_insert", "read_reset"}
  PROVE  \E q \in Request : q.pc = step
<1>1. [Blank EXCEPT !.pc = step] \in Request /\ [Blank EXCEPT !.pc = step].pc = step
  BY DEF Blank, Request
<1>2. QED  BY <1>1

(* Writing a value of the right type, or writing outside the domain, keeps *)
(* the type of a function.                                                 *)
LEMMA ExceptType ==
  ASSUME NEW S, NEW T, NEW f \in [S -> T], NEW x, NEW v, x \in S => v \in T
  PROVE  [f EXCEPT ![x] = v] \in [S -> T]
  OBVIOUS

-----------------------------------------------------------------------------
(* Type correctness.                                                       *)
LEMMA TypeInit == Init => TypeOK
<1> SUFFICES ASSUME Init PROVE TypeOK
  OBVIOUS
<1>1. req \in [Requests -> Request]
  BY BlankType DEF Init
<1>2. QED  BY <1>1 DEF Init, TypeOK

(* A receipt is typed because a request in progress has a user, which the  *)
(* type of the slots alone does not say.                                   *)
KnownUsers == \A r \in Requests : req[r].pc = "idle" \/ req[r].user \in Users

(* A slot that moves keeps its user, one that begins has one.              *)
LEMMA UsersMove ==
  ASSUME TypeOK, KnownUsers, NEW r \in Requests,
         \/ \E l : Begin(r, l) /\ l.user \in Users
         \/ Finish(r)
         \/ req[r].pc # "idle" /\ \E step : Goto(r, step)
         \/ req' = req
  PROVE  KnownUsers'
<1>1. CASE \E l : Begin(r, l) /\ l.user \in Users
  BY <1>1 DEF Begin, KnownUsers, TypeOK
<1>2. CASE Finish(r)
  BY <1>2 DEF Finish, Blank, KnownUsers, TypeOK
<1>3. CASE req[r].pc # "idle" /\ \E step : Goto(r, step)
  <2>1. PICK step : req' = [req EXCEPT ![r].pc = step]
    BY <1>3 DEF Goto
  <2>2. req'[r].user = req[r].user /\ \A q \in Requests : q # r => req'[q] = req[q]
    BY <2>1 DEF TypeOK, Request
  <2>3. QED  BY <1>3, <2>2 DEF KnownUsers
<1>4. CASE req' = req
  BY <1>4 DEF KnownUsers
<1>5. QED  BY <1>1, <1>2, <1>3, <1>4

(* Whoever makes a request exists.                                         *)
LEMMA UsersNext ==
  ASSUME ConstantsAssumption, TypeOK, KnownUsers, [Next]_vars
  PROVE  KnownUsers'
<1>0. Posters \subseteq Users /\ Deleters \subseteq Users /\ Readers \subseteq Users
  BY DEF ConstantsAssumption
<1>1. ASSUME NEW r \in Requests, Arrive(r) PROVE KnownUsers'
  <2>1. ASSUME NEW u \in Posters, NEW p, Create(r, u, p)
        PROVE  \E l : Begin(r, l) /\ l.user \in Users
    <3>1. [Blank EXCEPT !.user = u, !.message = p,
             !.pc = IF p = NoMessage THEN "create_write" ELSE "create_parent"].user = u
      BY DEF Blank
    <3>2. QED  BY <1>0, <2>1, <3>1, Zenon DEF Create
  <2>2. ASSUME NEW u \in Deleters, NEW m, Remove(r, u, m) \/ DeleteFromSocket(r, u, m)
        PROVE  \E l : Begin(r, l) /\ l.user \in Users
    <3>1. /\ [Blank EXCEPT !.pc = "remove_member", !.user = u, !.message = m].user = u
          /\ [Blank EXCEPT !.pc = "delete_write", !.user = u, !.message = m].user = u
      BY DEF Blank
    <3>2. QED  BY <1>0, <2>2, <3>1, Zenon DEF Remove, DeleteFromSocket
  <2>3. ASSUME NEW u \in Readers, NEW m, MarkAsRead(r, u, m)
        PROVE  \E l : Begin(r, l) /\ l.user \in Users
    <3>1. [Blank EXCEPT !.pc = "read_reset", !.user = u,
             !.found = Unreceipted(u, m)].user = u
      BY DEF Blank
    <3>2. QED  BY <1>0, <2>3, <3>1, Zenon DEF MarkAsRead
  <2>4. ASSUME NEW u \in Readers, NEW batch, MarkRoomAsRead(r, u, batch)
        PROVE  \E l : Begin(r, l) /\ l.user \in Users
    <3>1. [Blank EXCEPT !.user = u, !.found = batch,
             !.pc = IF batch = {} THEN "read_reset" ELSE "read_insert"].user = u
      BY DEF Blank
    <3>2. QED  BY <1>0, <2>4, <3>1, Zenon DEF MarkRoomAsRead
  <2>5. ASSUME NEW u \in Readers, MarkMemberAsRead(r, u) \/ MarkOtherAsRead(r, u)
        PROVE  \E l : Begin(r, l) /\ l.user \in Users
    <3>1. [Blank EXCEPT !.pc = "read_reset", !.user = u].user = u
      BY DEF Blank
    <3>2. QED  BY <1>0, <2>5, <3>1, Zenon DEF MarkMemberAsRead, MarkOtherAsRead
  <2>6. ASSUME NEW u, NEW m, MarkAsReadElsewhere(r, u, m) PROVE req' = req
    BY <2>6 DEF MarkAsReadElsewhere
  <2>7. (\E l : Begin(r, l) /\ l.user \in Users) \/ req' = req
    BY <1>1, <2>1, <2>2, <2>3, <2>4, <2>5, <2>6, Zenon DEF Arrive
  <2>8. QED  BY <2>7, UsersMove
<1>2. ASSUME NEW r \in Requests, Continue(r) PROVE KnownUsers'
  <2>1. CASE RemoveRole(r)
    <3> DEFINE l == [req[r] EXCEPT !.pc = "delete_find", !.admin = TRUE]
    <3>1. l.user = req[r].user /\ Blank.pc = "idle"
      BY DEF Blank, TypeOK, Request
    <3>2. req' = [req EXCEPT ![r] = l] \/ req' = [req EXCEPT ![r] = Blank]
      BY <2>1 DEF RemoveRole
    <3>3. req[r].pc # "idle"
      BY <2>1 DEF RemoveRole, At
    <3> HIDE DEF l
    <3>4. QED  BY <3>1, <3>2, <3>3 DEF KnownUsers, TypeOK
  <2>2. ASSUME NEW check, NEW step, CheckThen(r, check, step)
        PROVE  Finish(r) \/ Goto(r, step)
    BY <2>2 DEF CheckThen
  <2>3. CASE CreateParent(r) \/ RemoveMember(r) \/ DeleteFind(r)
    BY <2>2, <2>3, UsersMove DEF CreateParent, RemoveMember, DeleteFind, At
  <2>4. CASE \/ DeleteWrite(r) \/ ReadInsert(r)
    BY <2>4, UsersMove DEF DeleteWrite, ReadInsert, At
  <2>5. CASE \/ \E m \in Messages : CreateWrite(r, m)
             \/ Decrement(r) \/ DecrementFails(r)
             \/ ReadReset(r) \/ ReadResetFails(r)
    BY <2>5, UsersMove DEF CreateWrite, Decrement, DecrementFails, ReadReset, ReadResetFails
  <2>6. QED  BY <1>2, <2>1, <2>3, <2>4, <2>5 DEF Continue
<1>3. ASSUME UNCHANGED req PROVE KnownUsers'
  BY <1>3 DEF KnownUsers
<1>4. CASE Crash
  BY <1>4 DEF Crash, Blank, KnownUsers
<1>5. QED  BY <1>1, <1>2, <1>3, <1>4 DEF Next, ComeOrGo, ChangeRole, vars

(* The first step of a handler keeps the types.                            *)
LEMMA TypeArrive ==
  ASSUME ConstantsAssumption, TypeOK, NEW r \in Requests, Arrive(r)
  PROVE  TypeOK'
<1> USE DEF members, rowVars, readVars, ghosts
<1>0. Posters \subseteq Users /\ Deleters \subseteq Users /\ Readers \subseteq Users
  BY DEF ConstantsAssumption
<1>1. ASSUME NEW l \in Request, Begin(r, l),
             UNCHANGED <<members, rowVars, readVars, ghosts>>
      PROVE  TypeOK'
  BY <1>1, SlotTypes DEF TypeOK
<1>2. ASSUME NEW u \in Posters, NEW p \in Messages \cup {NoMessage}, Create(r, u, p)
      PROVE  TypeOK'
  <2>1. [Blank EXCEPT !.user = u, !.message = p,
           !.pc = IF p = NoMessage THEN "create_write" ELSE "create_parent"] \in Request
    BY <1>0 DEF Blank, Request
  <2>2. QED  BY <1>1, <1>2, <2>1 DEF Create
<1>3. ASSUME NEW u \in Deleters, NEW m \in Messages, Remove(r, u, m)
      PROVE  TypeOK'
  <2>1. [Blank EXCEPT !.pc = "remove_member", !.user = u, !.message = m] \in Request
    BY <1>0 DEF Blank, Request
  <2>2. QED  BY <1>1, <1>3, <2>1 DEF Remove
<1>4. ASSUME NEW u \in Deleters, NEW m \in Messages, DeleteFromSocket(r, u, m)
      PROVE  TypeOK'
  <2>1. [Blank EXCEPT !.pc = "delete_write", !.user = u, !.message = m] \in Request
    BY <1>0 DEF Blank, Request
  <2>2. QED  BY <1>1, <1>4, <2>1 DEF DeleteFromSocket
<1>5. ASSUME NEW u \in Readers, NEW m \in Messages,
             MarkAsRead(r, u, m) \/ MarkAsReadElsewhere(r, u, m)
      PROVE  TypeOK'
  <2>0. Unreceipted(u, m) \in SUBSET Messages
    BY DEF Unreceipted
  <2>1. [Blank EXCEPT !.pc = "read_reset", !.user = u,
           !.found = Unreceipted(u, m)] \in Request
    BY <1>0, <2>0 DEF Blank, Request
  <2>2. req' \in [Requests -> Request]
    BY <1>5, <2>1, SlotTypes DEF MarkAsRead, MarkAsReadElsewhere, TypeOK
  <2>3. reads' \in SUBSET (Messages \X Users)
    BY <1>0, <1>5 DEF MarkAsRead, MarkAsReadElsewhere, TypeOK
  <2>4. astray' \in [Users -> SUBSET Messages]
    BY <1>5, <2>0 DEF MarkAsRead, MarkAsReadElsewhere, TypeOK
  <2>5. QED  BY <1>5, <2>2, <2>3, <2>4 DEF MarkAsRead, MarkAsReadElsewhere, TypeOK
<1>6. ASSUME NEW u \in Readers, NEW batch \in SUBSET UnreadBy(u), MarkRoomAsRead(r, u, batch)
      PROVE  TypeOK'
  <2>1. [Blank EXCEPT !.user = u, !.found = batch,
           !.pc = IF batch = {} THEN "read_reset" ELSE "read_insert"] \in Request
    BY <1>0 DEF Blank, Request, UnreadBy
  <2>2. QED  BY <1>1, <1>6, <2>1 DEF MarkRoomAsRead
<1>7. ASSUME NEW u \in Readers, MarkMemberAsRead(r, u) \/ MarkOtherAsRead(r, u)
      PROVE  TypeOK'
  <2>1. [Blank EXCEPT !.pc = "read_reset", !.user = u] \in Request
    BY <1>0 DEF Blank, Request
  <2>2. QED  BY <1>1, <1>7, <2>1 DEF MarkMemberAsRead, MarkOtherAsRead
<1>8. QED  BY <1>2, <1>3, <1>4, <1>5, <1>6, <1>7 DEF Arrive

(* And so does a later step.                                               *)
LEMMA TypeContinue ==
  ASSUME ConstantsAssumption, TypeOK, KnownUsers, NEW r \in Requests, Continue(r)
  PROVE  TypeOK'
<1> USE DEF members, rowVars, readVars, ghosts
<1>0. /\ req \in [Requests -> Request] /\ req[r] \in Request
      /\ Finish(r) => req' \in [Requests -> Request]
      /\ \A step \in {"create_write", "delete_find", "remove_role", "delete_write",
                      "decrement", "read_insert", "read_reset"} :
           Goto(r, step) => req' \in [Requests -> Request]
  BY SlotTypes, StepNames DEF TypeOK
<1>1. ASSUME NEW step \in {"create_write", "delete_find", "remove_role", "delete_write"},
             NEW check, CheckThen(r, check, step)
      PROVE  TypeOK'
  BY <1>0, <1>1 DEF CheckThen, TypeOK
<1>2. CreateParent(r) => TypeOK'
  BY <1>1 DEF CreateParent
<1>3. ASSUME NEW m \in Messages, CreateWrite(r, m)
      PROVE  TypeOK'
  <2>1. req[r].user \in Users \cup {Nobody} /\ req[r].message \in Messages \cup {NoMessage}
    BY <1>0 DEF Request
  <2>2. /\ status' \in [Messages -> {"none", "live", "deleted"}]
        /\ sender' \in [Messages -> Users \cup {Nobody}]
        /\ parent' \in [Messages -> Messages \cup {NoMessage}]
    BY <1>3, <2>1 DEF CreateWrite, TypeOK
  <2>3. replyCount' \in [Messages -> Int]
    <3> DEFINE p == req[r].message
    <3>1. p \in Messages => replyCount[p] + 1 \in Int
      BY DEF TypeOK
    <3>2. CountReply(p) \in [Messages -> Int]
      BY <3>1, ExceptType DEF CountReply, TypeOK
    <3>3. QED  BY <1>3, <3>2 DEF CreateWrite, TypeOK
  <2>4. unread' \in [Users -> Nat]
    BY <1>3 DEF CreateWrite, CountOthers, TypeOK
  <2>5. QED  BY <1>0, <1>3, <2>2, <2>3, <2>4 DEF CreateWrite, TypeOK
<1>4. RemoveMember(r) => TypeOK'
  BY <1>1 DEF RemoveMember
<1>5. RemoveRole(r) => TypeOK'
  <2> SUFFICES ASSUME RemoveRole(r) PROVE TypeOK'
    OBVIOUS
  <2>1. [req[r] EXCEPT !.pc = "delete_find", !.admin = TRUE] \in Request
    BY <1>0 DEF Request
  <2>2. req' \in [Requests -> Request]
    BY <1>0, <2>1, BlankType DEF RemoveRole
  <2>3. QED  BY <2>2 DEF RemoveRole, TypeOK
<1>6. DeleteFind(r) => TypeOK'
  BY <1>1 DEF DeleteFind
<1>7. DeleteWrite(r) => TypeOK'
  <2> SUFFICES ASSUME DeleteWrite(r) PROVE TypeOK'
    OBVIOUS
  <2>1. req' \in [Requests -> Request]
    BY <1>0 DEF DeleteWrite
  <2>2. status' \in [Messages -> {"none", "live", "deleted"}]
    BY DEF DeleteWrite, TypeOK
  <2> DEFINE m == req[r].message
  <2>3. m \in Messages => (IF status[m] = "deleted" THEN redeleted[m] + 1 ELSE redeleted[m]) \in Nat
    BY DEF TypeOK
  <2>4. redeleted' \in [Messages -> Nat]
    BY <2>3, ExceptType DEF DeleteWrite, TypeOK
  <2>5. repeated' \in [Messages -> Nat]
    BY DEF DeleteWrite, TypeOK
  <2>6. QED  BY <2>1, <2>2, <2>4, <2>5 DEF DeleteWrite, TypeOK
<1>8. Decrement(r) => TypeOK'
  <2> SUFFICES ASSUME Decrement(r) PROVE TypeOK'
    OBVIOUS
  <2> DEFINE p == parent[req[r].message]
  <2>0. p \in Messages => replyCount[p] - 1 \in Int
    BY DEF TypeOK
  <2>1. replyCount' \in [Messages -> Int]
    BY <2>0, ExceptType DEF Decrement, TypeOK
  <2>2. QED  BY <1>0, <2>1 DEF Decrement, TypeOK
<1>9. DecrementFails(r) => TypeOK'
  <2> SUFFICES ASSUME DecrementFails(r) PROVE TypeOK'
    OBVIOUS
  <2> DEFINE p == parent[req[r].message]
  <2>0. p \in Messages => lost[p] + 1 \in Nat
    BY DEF TypeOK
  <2>1. lost' \in [Messages -> Nat] /\ failures' \in Nat
    BY <2>0, ExceptType DEF DecrementFails, TypeOK
  <2>2. QED  BY <1>0, <2>1 DEF DecrementFails, TypeOK
<1>10. ReadInsert(r) => TypeOK'
  <2> SUFFICES ASSUME ReadInsert(r) PROVE TypeOK'
    OBVIOUS
  <2>0. req[r].user \in Users /\ req[r].found \in SUBSET Messages
    BY <1>0 DEF ReadInsert, At, KnownUsers, Request
  <2>1. reads' \in SUBSET (Messages \X Users)
    BY <2>0 DEF ReadInsert, TypeOK
  <2>2. QED  BY <1>0, <2>1 DEF ReadInsert, TypeOK
<1>11. ReadReset(r) \/ ReadResetFails(r) => TypeOK'
  <2> SUFFICES ASSUME ReadReset(r) \/ ReadResetFails(r) PROVE TypeOK'
    OBVIOUS
  <2>1. unread' \in [Users -> Nat]
    BY DEF ReadReset, ReadResetFails, Reset, TypeOK
  <2>2. astray' \in [Users -> SUBSET Messages]
    BY <1>0 DEF ReadReset, ReadResetFails, TypeOK, Request
  <2>3. failures' \in Nat
    BY DEF ReadReset, ReadResetFails, TypeOK
  <2>4. QED  BY <1>0, <2>1, <2>2, <2>3 DEF ReadReset, ReadResetFails, TypeOK
<1>12. QED
  BY <1>2, <1>3, <1>4, <1>5, <1>6, <1>7, <1>8, <1>9, <1>10, <1>11 DEF Continue

(* The slots that owe a decrement are finitely many.                       *)
LEMMA OwingFinite ==
  ASSUME ConstantsAssumption, NEW p
  PROVE  IsFiniteSet(Owing(p)) /\ Cardinality(Owing(p)) \in Nat
<1>1. IsFiniteSet(Requests) /\ Owing(p) \subseteq Requests
  BY DEF ConstantsAssumption, Owing
<1>2. QED  BY <1>1, FS_Subset, FS_CardinalityType

(* A crash keeps the types too.                                            *)
LEMMA TypeCrash ==
  ASSUME ConstantsAssumption, TypeOK, Crash
  PROVE  TypeOK'
<1> USE DEF members, rowVars
<1>1. lost' \in [Messages -> Nat]
  <2>1. \A m \in Messages : lost[m] + Cardinality(Owing(m)) \in Nat
    BY OwingFinite DEF TypeOK
  <2>2. QED  BY <2>1 DEF Crash
<1>2. req' \in [Requests -> Request]
  BY BlankType DEF Crash
<1>3. astray' \in [Users -> SUBSET Messages]
  <2>1. \A u \in Users : astray[u] \cup HalfRead(u) \in SUBSET Messages
    BY DEF TypeOK, HalfRead, Request
  <2>2. QED  BY <2>1 DEF Crash
<1>4. failures' \in Nat
  BY DEF Crash, TypeOK
<1>5. QED  BY <1>1, <1>2, <1>3, <1>4 DEF Crash, TypeOK

(* Every step keeps the types.                                             *)
LEMMA TypeNext ==
  ASSUME ConstantsAssumption, TypeOK, KnownUsers, [Next]_vars
  PROVE  TypeOK'
<1>1. ASSUME NEW u \in Leavers, ComeOrGo(u) PROVE TypeOK'
  BY <1>1 DEF ComeOrGo, TypeOK, rowVars, readVars, ghosts, ConstantsAssumption
<1>2. ASSUME NEW u \in Admins, ChangeRole(u) PROVE TypeOK'
  BY <1>2 DEF ChangeRole, TypeOK, rowVars, readVars, ghosts
<1>3. CASE UNCHANGED vars
  BY <1>3 DEF vars, TypeOK
<1>4. QED  BY <1>1, <1>2, <1>3, TypeArrive, TypeContinue, TypeCrash DEF Next

(* The variables keep their types, in rooms of any size.                   *)
THEOREM TypeCorrect == Spec => []TypeOK
<1>1. Init => TypeOK /\ KnownUsers
  BY TypeInit DEF Init, KnownUsers, Blank
<1>2. (TypeOK /\ KnownUsers) /\ [Next]_vars => (TypeOK /\ KnownUsers)'
  BY TypeNext, UsersNext, ConstantsAssumption
<1>3. QED  BY <1>1, <1>2, PTL DEF Spec

-----------------------------------------------------------------------------
(* Threads are one level deep.  A reply's parent was checked in an earlier *)
(* call than the one that writes the reply, so the invariant says what     *)
(* stays true of the message a slot holds: once a row exists it is never   *)
(* again without a status, and its parentId never changes.                 *)
Deleting == {"remove_member", "remove_role", "delete_find", "delete_write"}

SlotInv(r) ==
  /\ At(r, "create_parent") => req[r].message \in Messages
  /\ At(r, "create_write") /\ req[r].message # NoMessage =>
       status[req[r].message] # "none" /\ parent[req[r].message] = NoMessage
  /\ req[r].pc \in Deleting =>
       req[r].message \in Messages /\ status[req[r].message] # "none"
  /\ At(r, "decrement") =>
       /\ req[r].message \in Messages /\ status[req[r].message] = "deleted"
       /\ parent[req[r].message] # NoMessage

ThreadInv ==
  /\ \A m \in Messages :
       parent[m] # NoMessage =>
         /\ status[m] # "none" /\ status[parent[m]] # "none"
         /\ parent[parent[m]] = NoMessage
  /\ \A r \in Requests : SlotInv(r)

(* A step that writes no row and moves one slot keeps the invariant if it  *)
(* leaves that slot in a sound state.                                      *)
LEMMA MovesOneSlot ==
  ASSUME TypeOK, ThreadInv, NEW r \in Requests, NEW l,
         req' = [req EXCEPT ![r] = l], UNCHANGED <<status, parent>>, SlotInv(r)'
  PROVE  ThreadInv'
<1>1. ASSUME NEW q \in Requests PROVE SlotInv(q)'
  <2>1. CASE q = r
    BY <2>1
  <2>2. CASE q # r
    <3>1. req'[q] = req[q]
      BY <2>2 DEF TypeOK
    <3>2. QED  BY <3>1 DEF ThreadInv, SlotInv, At
  <2>3. QED  BY <2>1, <2>2
<1>2. QED  BY <1>1 DEF ThreadInv

(* A free slot claims nothing.                                             *)
LEMMA FinishKeeps ==
  ASSUME TypeOK, ThreadInv, NEW r \in Requests, Finish(r), UNCHANGED <<status, parent>>
  PROVE  ThreadInv'
<1>1. req'[r] = Blank
  BY DEF Finish, TypeOK
<1>2. SlotInv(r)'
  BY <1>1 DEF SlotInv, At, Blank, Deleting
<1>3. QED  BY <1>2, MovesOneSlot DEF Finish

(* The first step of a handler keeps the invariant.                        *)
LEMMA ThreadArrive ==
  ASSUME ConstantsAssumption, TypeOK, ThreadInv, NEW r \in Requests, Arrive(r)
  PROVE  ThreadInv'
<1> USE DEF members, rowVars, readVars, ghosts
<1>1. ASSUME NEW l, Begin(r, l), UNCHANGED <<status, parent>>,
             l.pc = "create_write" => l.message = NoMessage,
             l.pc = "create_parent" => l.message \in Messages,
             l.pc \in Deleting => l.message \in Messages /\ status[l.message] # "none",
             l.pc # "decrement"
      PROVE  ThreadInv'
  <2>1. req'[r] = l /\ req' = [req EXCEPT ![r] = l]
    BY <1>1 DEF Begin, TypeOK
  <2>2. SlotInv(r)'
    BY <1>1, <2>1 DEF SlotInv, At, Deleting
  <2>3. QED  BY <1>1, <2>1, <2>2, MovesOneSlot
<1>2. ASSUME NEW u \in Posters, NEW p \in Messages \cup {NoMessage}, Create(r, u, p)
      PROVE  ThreadInv'
  <2> DEFINE l == [Blank EXCEPT !.user = u, !.message = p,
                     !.pc = IF p = NoMessage THEN "create_write" ELSE "create_parent"]
  <2>1. /\ l.pc = IF p = NoMessage THEN "create_write" ELSE "create_parent"
        /\ l.message = p
    BY DEF Blank
  <2>2. Begin(r, l) /\ UNCHANGED <<status, parent>>
    BY <1>2 DEF Create
  <2> HIDE DEF l
  <2>3. QED  BY <1>1, <2>1, <2>2 DEF Deleting
<1>3. ASSUME NEW u \in Deleters, NEW m \in Messages, Remove(r, u, m)
      PROVE  ThreadInv'
  <2> DEFINE l == [Blank EXCEPT !.pc = "remove_member", !.user = u, !.message = m]
  <2>1. l.pc = "remove_member" /\ l.message = m
    BY DEF Blank
  <2>2. Begin(r, l) /\ UNCHANGED <<status, parent>> /\ status[m] # "none"
    BY <1>3 DEF Remove
  <2> HIDE DEF l
  <2>3. QED  BY <1>1, <2>1, <2>2 DEF Deleting
<1>4. ASSUME NEW u \in Deleters, NEW m \in Messages, DeleteFromSocket(r, u, m)
      PROVE  ThreadInv'
  <2> DEFINE l == [Blank EXCEPT !.pc = "delete_write", !.user = u, !.message = m]
  <2>1. l.pc = "delete_write" /\ l.message = m
    BY DEF Blank
  <2>2. Begin(r, l) /\ UNCHANGED <<status, parent>> /\ status[m] # "none"
    BY <1>4 DEF DeleteFromSocket, MayDelete
  <2> HIDE DEF l
  <2>3. QED  BY <1>1, <2>1, <2>2 DEF Deleting
<1>5. ASSUME NEW u \in Readers, NEW m \in Messages, MarkAsRead(r, u, m)
      PROVE  ThreadInv'
  <2> DEFINE l == [Blank EXCEPT !.pc = "read_reset", !.user = u,
                     !.found = Unreceipted(u, m)]
  <2>1. l.pc = "read_reset"
    BY DEF Blank
  <2>2. Begin(r, l) /\ UNCHANGED <<status, parent>>
    BY <1>5 DEF MarkAsRead
  <2> HIDE DEF l
  <2>3. QED  BY <1>1, <2>1, <2>2 DEF Deleting
<1>6. ASSUME NEW u \in Readers, NEW batch \in SUBSET UnreadBy(u), MarkRoomAsRead(r, u, batch)
      PROVE  ThreadInv'
  <2> DEFINE l == [Blank EXCEPT !.user = u, !.found = batch,
                     !.pc = IF batch = {} THEN "read_reset" ELSE "read_insert"]
  <2>1. l.pc \in {"read_reset", "read_insert"}
    BY DEF Blank
  <2>2. Begin(r, l) /\ UNCHANGED <<status, parent>>
    BY <1>6 DEF MarkRoomAsRead
  <2> HIDE DEF l
  <2>3. QED  BY <1>1, <2>1, <2>2 DEF Deleting
<1>7. ASSUME NEW u \in Readers, MarkMemberAsRead(r, u) \/ MarkOtherAsRead(r, u)
      PROVE  ThreadInv'
  <2> DEFINE l == [Blank EXCEPT !.pc = "read_reset", !.user = u]
  <2>1. l.pc = "read_reset"
    BY DEF Blank
  <2>2. Begin(r, l) /\ UNCHANGED <<status, parent>>
    BY <1>7 DEF MarkMemberAsRead, MarkOtherAsRead
  <2> HIDE DEF l
  <2>3. QED  BY <1>1, <2>1, <2>2 DEF Deleting
<1>8. ASSUME NEW u \in Readers, NEW m \in Messages, MarkAsReadElsewhere(r, u, m)
      PROVE  ThreadInv'
  BY <1>8 DEF MarkAsReadElsewhere, ThreadInv, SlotInv, At
<1>9. QED  BY <1>2, <1>3, <1>4, <1>5, <1>6, <1>7, <1>8 DEF Arrive


(* Moving a slot to another step, its message kept.                        *)
LEMMA GotoKeeps ==
  ASSUME TypeOK, ThreadInv, NEW r \in Requests, NEW step, NEW check,
         CheckThen(r, check, step),
         \/ /\ step = "create_write"
            /\ check => status[req[r].message] # "none" /\ parent[req[r].message] = NoMessage
         \/ step \in Deleting /\ req[r].pc \in Deleting
  PROVE  ThreadInv'
<1> USE DEF rowVars
<1>1. CASE ~check
  BY <1>1, FinishKeeps DEF CheckThen
<1>2. CASE check
  <2>1. req' = [req EXCEPT ![r] = [req[r] EXCEPT !.pc = step]] /\ UNCHANGED <<status, parent>>
    BY <1>2 DEF CheckThen, Goto
  <2>2. req'[r].pc = step /\ req'[r].message = req[r].message
    BY <2>1 DEF TypeOK, Request
  <2>3. CASE step = "create_write"
    <3>1. SlotInv(r)'
      BY <1>2, <2>1, <2>2, <2>3 DEF SlotInv, At, Deleting
    <3>2. QED  BY <2>1, <3>1, MovesOneSlot
  <2>4. CASE step \in Deleting /\ req[r].pc \in Deleting
    <3>1. req[r].message \in Messages /\ status[req[r].message] # "none"
      BY <2>4 DEF ThreadInv, SlotInv
    <3>2. SlotInv(r)'
      BY <2>1, <2>2, <2>4, <3>1 DEF SlotInv, At, Deleting
    <3>3. QED  BY <2>1, <3>2, MovesOneSlot
  <2>5. QED  BY <2>3, <2>4
<1>3. QED  BY <1>1, <1>2

(* The steps that change no row.                                           *)
LEMMA ThreadQuiet ==
  ASSUME ConstantsAssumption, TypeOK, ThreadInv, NEW r \in Requests,
         \/ CreateParent(r) \/ RemoveMember(r) \/ RemoveRole(r) \/ DeleteFind(r)
         \/ Decrement(r) \/ DecrementFails(r) \/ ReadInsert(r) \/ ReadReset(r)
         \/ ReadResetFails(r)
  PROVE  ThreadInv'
<1> USE DEF rowVars
<1>1. CASE CreateParent(r)
  <2>1. CheckThen(r, ValidParent(req[r].message), "create_write")
    BY <1>1 DEF CreateParent
  <2>2. ValidParent(req[r].message) => status[req[r].message] # "none"
                                        /\ parent[req[r].message] = NoMessage
    BY DEF ValidParent
  <2>3. QED  BY <2>1, <2>2, GotoKeeps
<1>2. CASE RemoveMember(r)
  <2>1. PICK step \in {"delete_find", "remove_role"} :
          CheckThen(r, active[req[r].user], step)
    BY <1>2 DEF RemoveMember
  <2>2. step \in Deleting /\ req[r].pc \in Deleting
    BY <1>2 DEF RemoveMember, At, Deleting
  <2>3. QED  BY <2>1, <2>2, GotoKeeps
<1>3. CASE RemoveRole(r)
  <2>1. CASE ~RoleAboveMember(req[r].user)
    <3>1. Finish(r) /\ UNCHANGED <<status, parent>>
      BY <1>3, <2>1 DEF RemoveRole, Finish
    <3>2. QED  BY <3>1, FinishKeeps
  <2>2. CASE RoleAboveMember(req[r].user)
    <3> DEFINE l == [req[r] EXCEPT !.pc = "delete_find", !.admin = TRUE]
    <3>1. req' = [req EXCEPT ![r] = l] /\ UNCHANGED <<status, parent>>
      BY <1>3, <2>2 DEF RemoveRole
    <3>2. req'[r].pc = "delete_find" /\ req'[r].message = req[r].message
      BY <3>1 DEF TypeOK, Request
    <3>3. SlotInv(r)'
      BY <1>3, <3>1, <3>2 DEF SlotInv, ThreadInv, At, Deleting, RemoveRole
    <3>4. QED  BY <3>1, <3>3, MovesOneSlot
  <2>3. QED  BY <2>1, <2>2
<1>4. CASE DeleteFind(r)
  <2>1. CheckThen(r, MayDelete(req[r].user, req[r].message, req[r].admin), "delete_write")
    BY <1>4 DEF DeleteFind
  <2>2. "delete_write" \in Deleting /\ req[r].pc \in Deleting
    BY <1>4 DEF DeleteFind, At, Deleting
  <2>3. QED  BY <2>1, <2>2, GotoKeeps
<1>5. CASE Decrement(r) \/ DecrementFails(r) \/ ReadReset(r) \/ ReadResetFails(r)
  BY <1>5, FinishKeeps DEF Decrement, DecrementFails, ReadReset, ReadResetFails
<1>6. CASE ReadInsert(r)
  <2> DEFINE l == [req[r] EXCEPT !.pc = "read_reset"]
  <2>1. req' = [req EXCEPT ![r] = l] /\ UNCHANGED <<status, parent>>
    BY <1>6 DEF ReadInsert, Goto
  <2>2. req'[r].pc = "read_reset"
    BY <2>1 DEF TypeOK, Request
  <2>3. SlotInv(r)'
    BY <2>2 DEF SlotInv, At, Deleting
  <2>4. QED  BY <2>1, <2>3, MovesOneSlot
<1>7. QED  BY <1>1, <1>2, <1>3, <1>4, <1>5, <1>6

(* What the transaction of create leaves: the new row, and its slot free.  *)
LEMMA CreateWriteRows ==
  ASSUME TypeOK, NEW r \in Requests, NEW m \in Messages, CreateWrite(r, m)
  PROVE  /\ status[m] = "none" /\ status' = [status EXCEPT ![m] = "live"]
         /\ parent' = [parent EXCEPT ![m] = req[r].message]
         /\ req' = [req EXCEPT ![r] = Blank]
         /\ At(r, "create_write") /\ req[r].message \in Messages \cup {NoMessage}
  BY DEF CreateWrite, Finish, TypeOK, Request

(* A new reply gets a parent that is in no thread, and is no message's     *)
(* parent itself, because it had no row.                                   *)
LEMMA ThreadCreate ==
  ASSUME ConstantsAssumption, TypeOK, ThreadInv, NEW r \in Requests, NEW m \in Messages,
         CreateWrite(r, m)
  PROVE  ThreadInv'
<1> DEFINE p == req[r].message
<1>1. /\ status[m] = "none" /\ status' = [status EXCEPT ![m] = "live"]
      /\ parent' = [parent EXCEPT ![m] = p]
      /\ req' = [req EXCEPT ![r] = Blank]
      /\ At(r, "create_write") /\ p \in Messages \cup {NoMessage}
  BY CreateWriteRows
<1>2. p # NoMessage => p \in Messages /\ p # m /\ status[p] # "none" /\ parent[p] = NoMessage
  BY <1>1 DEF ThreadInv, SlotInv
<1> HIDE DEF p
<1>3. \A n \in Messages : n # m => status'[n] = status[n] /\ parent'[n] = parent[n]
  BY <1>1 DEF TypeOK
<1>4. status'[m] = "live" /\ parent'[m] = p
  BY <1>1 DEF TypeOK
<1>5. ASSUME NEW n \in Messages, parent'[n] # NoMessage
      PROVE  /\ status'[n] # "none" /\ status'[parent'[n]] # "none"
             /\ parent'[parent'[n]] = NoMessage
  <2>1. CASE n = m
    BY <1>2, <1>3, <1>4, <1>5, <2>1
  <2>2. CASE n # m
    <3>1. parent[n] \in Messages /\ status[parent[n]] # "none"
          /\ parent[parent[n]] = NoMessage /\ status[n] # "none"
      BY <1>3, <1>5, <2>2 DEF ThreadInv, TypeOK
    <3>2. QED  BY <1>1, <1>3, <2>2, <3>1
  <2>3. QED  BY <2>1, <2>2
<1>6. ASSUME NEW q \in Requests PROVE SlotInv(q)'
  <2>1. CASE q = r
    <3>1. req'[q].pc = "idle"
      BY <1>1, <2>1 DEF TypeOK, Blank
    <3>2. QED  BY <3>1 DEF SlotInv, At, Deleting
  <2>2. CASE q # r
    <3>1. req'[q] = req[q] /\ req[q].message \in Messages \cup {NoMessage} /\ SlotInv(q)
      BY <1>1, <2>2 DEF TypeOK, Request, ThreadInv
    <3>2. QED  BY <1>1, <1>3, <3>1 DEF SlotInv, At, Deleting
  <2>3. QED  BY <2>1, <2>2
<1>7. QED  BY <1>5, <1>6 DEF ThreadInv

(* A delete keeps the row and its parent.                                  *)
LEMMA ThreadDelete ==
  ASSUME ConstantsAssumption, TypeOK, ThreadInv, NEW r \in Requests, DeleteWrite(r)
  PROVE  ThreadInv'
<1> DEFINE m == req[r].message
<1>1. m \in Messages /\ status[m] # "none" /\ m # NoMessage
  BY DEF DeleteWrite, ThreadInv, SlotInv, At, Deleting, ConstantsAssumption
<1>2. status' = [status EXCEPT ![m] = "deleted"] /\ parent' = parent
  BY DEF DeleteWrite
<1>3. IF parent[m] = NoMessage THEN Finish(r) ELSE Goto(r, "decrement")
  BY DEF DeleteWrite
<1>4. \A n \in Messages : status'[n] = "none" <=> status[n] = "none"
  BY <1>1, <1>2 DEF TypeOK
<1>5. ASSUME NEW q \in Requests PROVE SlotInv(q)'
  <2>1. CASE q = r /\ parent[m] = NoMessage
    <3>1. req'[q].pc = "idle"
      BY <1>3, <2>1 DEF TypeOK, Blank, Finish
    <3>2. QED  BY <3>1 DEF SlotInv, At, Deleting
  <2>2. CASE q = r /\ parent[m] # NoMessage
    <3>1. req'[q].pc = "decrement" /\ req'[q].message = m
      BY <1>3, <2>2 DEF TypeOK, Goto, Request
    <3>2. status'[m] = "deleted"
      BY <1>1, <1>2 DEF TypeOK
    <3> HIDE DEF m
    <3>3. QED  BY <1>1, <1>2, <2>2, <3>1, <3>2 DEF SlotInv, At, Deleting
  <2>3. CASE q # r
    <3>1. req'[q] = req[q] /\ req[q].message \in Messages \cup {NoMessage} /\ SlotInv(q)
      BY <1>3, <2>3 DEF TypeOK, Request, ThreadInv, Finish, Goto
    <3>2. \A n \in Messages : status[n] = "deleted" => status'[n] = "deleted"
      BY <1>2 DEF TypeOK
    <3>3. QED  BY <1>2, <1>4, <3>1, <3>2 DEF SlotInv, At, Deleting
  <2>4. QED  BY <2>1, <2>2, <2>3
<1>6. \A n \in Messages : parent'[n] # NoMessage =>
        /\ status'[n] # "none" /\ status'[parent'[n]] # "none"
        /\ parent'[parent'[n]] = NoMessage
  BY <1>2, <1>4 DEF ThreadInv, TypeOK
<1>7. QED  BY <1>5, <1>6 DEF ThreadInv

(* Whatever happens, threads stay one level deep.                          *)
LEMMA ThreadNext ==
  ASSUME ConstantsAssumption, TypeOK, ThreadInv, [Next]_vars
  PROVE  ThreadInv'
<1>1. ASSUME NEW r \in Requests, Continue(r) PROVE ThreadInv'
  BY <1>1, ThreadQuiet, ThreadCreate, ThreadDelete DEF Continue
<1>2. CASE Crash
  <2>1. UNCHANGED <<status, parent>> /\ \A r \in Requests : req'[r] = Blank
    BY <1>2 DEF Crash, rowVars
  <2>2. \A r \in Requests : SlotInv(r)'
    BY <2>1 DEF SlotInv, At, Blank, Deleting
  <2>3. QED  BY <2>1, <2>2 DEF ThreadInv
<1>3. ASSUME NEW u, ComeOrGo(u) \/ ChangeRole(u) PROVE ThreadInv'
  BY <1>3 DEF ComeOrGo, ChangeRole, rowVars, ThreadInv, SlotInv, At
<1>4. CASE UNCHANGED vars
  BY <1>4 DEF vars, ThreadInv, SlotInv, At
<1>5. QED  BY <1>1, <1>2, <1>3, <1>4, ThreadArrive DEF Next

(* At the start there are no threads.                                      *)
LEMMA ThreadInit == Init => ThreadInv
  BY DEF Init, ThreadInv, SlotInv, At, Blank, Deleting

(* A reply never has replies: the check of the parent and the write of the *)
(* reply are two calls, and no interleaving comes between them.            *)
THEOREM ThreadsFlat == Spec => []OneLevelThreads
<1>1. Init => TypeOK /\ ThreadInv
  BY TypeInit, ThreadInit
<1>2. TypeOK /\ ThreadInv /\ [Next]_vars => ThreadInv'
  BY ThreadNext, ConstantsAssumption
<1>3. ThreadInv => OneLevelThreads
  BY DEF ThreadInv, OneLevelThreads
<1>4. QED  BY <1>1, <1>2, <1>3, TypeCorrect, PTL DEF Spec


-----------------------------------------------------------------------------
(* Reply counts.  Each side of the equation changes by one member of       *)
(* LiveReplies or of Owing at a time, except in a crash.                   *)
LEMMA RepliesFinite ==
  ASSUME ConstantsAssumption, NEW p
  PROVE  IsFiniteSet(LiveReplies(p)) /\ Cardinality(LiveReplies(p)) \in Nat
<1>1. IsFiniteSet(Messages) /\ LiveReplies(p) \subseteq Messages
  BY DEF ConstantsAssumption, LiveReplies, Replies
<1>2. QED  BY <1>1, FS_Subset, FS_CardinalityType

(* With no row changed, and the same slots owing, the account is the same. *)
LEMMA AccountQuiet ==
  ASSUME ReplyCountAccounted, UNCHANGED <<status, parent, replyCount, lost, repeated>>,
         \A p \in Messages : Owing(p)' = Owing(p)
  PROVE  ReplyCountAccounted'
<1>1. \A p \in Messages : LiveReplies(p)' = LiveReplies(p)
  BY DEF LiveReplies, Replies
<1>2. QED  BY <1>1 DEF ReplyCountAccounted

(* A slot that moves, but neither from nor to "decrement", owes nothing    *)
(* before or after; the other slots owe what they owed, if the messages    *)
(* they delete keep their parents.                                         *)
LEMMA OwingKept ==
  ASSUME TypeOK, ThreadInv, NEW r \in Requests, NEW l, req' = [req EXCEPT ![r] = l],
         req[r].pc # "decrement", l.pc # "decrement",
         \A m \in Messages : status[m] # "none" => parent'[m] = parent[m],
         NEW p \in Messages
  PROVE  Owing(p)' = Owing(p)
<1>1. ASSUME NEW q \in Requests
      PROVE  At(q, "decrement") /\ parent[req[q].message] = p
               <=> At(q, "decrement")' /\ parent'[req'[q].message] = p
  <2>1. CASE q = r
    BY <2>1 DEF TypeOK, At
  <2>2. CASE q # r
    <3>1. req'[q] = req[q]
      BY <2>2 DEF TypeOK
    <3>2. At(q, "decrement") => parent'[req[q].message] = parent[req[q].message]
      BY DEF ThreadInv, SlotInv
    <3>3. QED  BY <3>1, <3>2 DEF At
  <2>3. QED  BY <2>1, <2>2
<1>2. QED  BY <1>1 DEF Owing

(* What a slot does before it deletes, and all it does to read.            *)
LEMMA AccountArrive ==
  ASSUME ConstantsAssumption, TypeOK, ThreadInv, ReplyCountAccounted,
         NEW r \in Requests, Arrive(r)
  PROVE  ReplyCountAccounted'
<1> USE DEF members, rowVars, readVars, ghosts
<1>1. ASSUME NEW l, Begin(r, l), l.pc # "decrement",
             UNCHANGED <<status, parent, replyCount, lost, repeated>>
      PROVE  ReplyCountAccounted'
  <2>1. req' = [req EXCEPT ![r] = l] /\ req[r].pc # "decrement"
    BY <1>1 DEF Begin
  <2>2. \A p \in Messages : Owing(p)' = Owing(p)
    BY <1>1, <2>1, OwingKept
  <2>3. QED  BY <1>1, <2>2, AccountQuiet
<1>2. ASSUME \A u \in Readers, m \in Messages : ~MarkAsReadElsewhere(r, u, m)
      PROVE  \E l : /\ Begin(r, l) /\ l.pc # "decrement"
                    /\ UNCHANGED <<status, parent, replyCount, lost, repeated>>
  <2>1. \A u, p : [Blank EXCEPT !.user = u, !.message = p,
                     !.pc = IF p = NoMessage THEN "create_write"
                            ELSE "create_parent"].pc # "decrement"
    BY DEF Blank
  <2>2. \A u, m : /\ [Blank EXCEPT !.pc = "remove_member", !.user = u,
                                   !.message = m].pc # "decrement"
                  /\ [Blank EXCEPT !.pc = "delete_write", !.user = u,
                                   !.message = m].pc # "decrement"
    BY DEF Blank
  <2>3. /\ \A u : [Blank EXCEPT !.pc = "read_reset", !.user = u].pc # "decrement"
        /\ \A u, f : [Blank EXCEPT !.pc = "read_reset", !.user = u,
                                   !.found = f].pc # "decrement"
    BY DEF Blank
  <2>4. \A u, batch : [Blank EXCEPT !.user = u, !.found = batch,
                         !.pc = IF batch = {} THEN "read_reset"
                                ELSE "read_insert"].pc # "decrement"
    BY DEF Blank
  <2>5. ASSUME NEW u \in Posters, NEW p \in Messages \cup {NoMessage}, Create(r, u, p)
        PROVE  \E l : /\ Begin(r, l) /\ l.pc # "decrement"
                      /\ UNCHANGED <<status, parent, replyCount, lost, repeated>>
    BY <2>1, <2>5, Zenon DEF Create
  <2>6. ASSUME NEW u \in Deleters, NEW m \in Messages,
               Remove(r, u, m) \/ DeleteFromSocket(r, u, m)
        PROVE  \E l : /\ Begin(r, l) /\ l.pc # "decrement"
                      /\ UNCHANGED <<status, parent, replyCount, lost, repeated>>
    BY <2>2, <2>6, Zenon DEF Remove, DeleteFromSocket
  <2>7. ASSUME NEW u \in Readers,
               \/ \E m \in Messages : MarkAsRead(r, u, m)
               \/ MarkMemberAsRead(r, u)
               \/ MarkOtherAsRead(r, u)
        PROVE  \E l : /\ Begin(r, l) /\ l.pc # "decrement"
                      /\ UNCHANGED <<status, parent, replyCount, lost, repeated>>
    BY <2>3, <2>7, Zenon DEF MarkAsRead, MarkMemberAsRead, MarkOtherAsRead
  <2>8. ASSUME NEW u \in Readers, NEW batch \in SUBSET UnreadBy(u), MarkRoomAsRead(r, u, batch)
        PROVE  \E l : /\ Begin(r, l) /\ l.pc # "decrement"
                      /\ UNCHANGED <<status, parent, replyCount, lost, repeated>>
    BY <2>4, <2>8, Zenon DEF MarkRoomAsRead
  <2>9. QED  BY <1>2, <2>5, <2>6, <2>7, <2>8 DEF Arrive
<1>3. ASSUME NEW u \in Readers, NEW m \in Messages, MarkAsReadElsewhere(r, u, m)
      PROVE  ReplyCountAccounted'
  <2>1. UNCHANGED <<status, parent, replyCount, lost, repeated, req>>
    BY <1>3 DEF MarkAsReadElsewhere
  <2>2. \A p \in Messages : Owing(p)' = Owing(p)
    BY <2>1 DEF Owing, At
  <2>3. QED  BY <2>1, <2>2, AccountQuiet
<1>4. QED  BY <1>1, <1>2, <1>3

(* The later steps that write no column of a message's row.                *)
LEMMA AccountMoves ==
  ASSUME ConstantsAssumption, TypeOK, ThreadInv, ReplyCountAccounted, NEW r \in Requests,
         \/ CreateParent(r) \/ RemoveMember(r) \/ RemoveRole(r) \/ DeleteFind(r)
         \/ ReadInsert(r) \/ ReadReset(r) \/ ReadResetFails(r)
  PROVE  ReplyCountAccounted'
<1> USE DEF members, rowVars, readVars, ghosts
<1>1. /\ req[r].pc # "decrement" /\ req[r] \in Request
      /\ UNCHANGED <<status, parent, replyCount, lost, repeated>>
  BY DEF CreateParent, RemoveMember, RemoveRole, DeleteFind, ReadInsert, ReadReset,
         ReadResetFails, CheckThen, At, TypeOK
<1>2. PICK l : req' = [req EXCEPT ![r] = l] /\ l.pc # "decrement"
  <2>1. Blank.pc # "decrement"
    BY DEF Blank
  <2>2. \A step : [req[r] EXCEPT !.pc = step].pc = step
    BY <1>1 DEF Request
  <2>3. ASSUME NEW step, NEW check, CheckThen(r, check, step), step # "decrement"
        PROVE  \E l : req' = [req EXCEPT ![r] = l] /\ l.pc # "decrement"
    <3>1. CASE check
      <4>1. req' = [req EXCEPT ![r] = [req[r] EXCEPT !.pc = step]]
        BY <2>3, <3>1 DEF CheckThen, Goto
      <4>2. QED  BY <2>2, <2>3, <4>1, Zenon
    <3>2. CASE ~check
      BY <2>1, <2>3, <3>2, Zenon DEF CheckThen, Finish
    <3>3. QED  BY <3>1, <3>2
  <2>4. CASE CreateParent(r) \/ RemoveMember(r) \/ DeleteFind(r)
    BY <2>3, <2>4 DEF CreateParent, RemoveMember, DeleteFind
  <2>5. CASE RemoveRole(r)
    <3> DEFINE l == [req[r] EXCEPT !.pc = "delete_find", !.admin = TRUE]
    <3>1. l.pc # "decrement"
      BY <1>1 DEF Request
    <3>2. req' = [req EXCEPT ![r] = l] \/ req' = [req EXCEPT ![r] = Blank]
      BY <2>5 DEF RemoveRole
    <3> HIDE DEF l
    <3>3. QED  BY <2>1, <3>1, <3>2, Zenon
  <2>6. CASE ReadInsert(r)
    <3> DEFINE l == [req[r] EXCEPT !.pc = "read_reset"]
    <3>1. l.pc # "decrement"
      BY <1>1 DEF Request
    <3>2. req' = [req EXCEPT ![r] = l]
      BY <2>6 DEF ReadInsert, Goto
    <3> HIDE DEF l
    <3>3. QED  BY <3>1, <3>2, Zenon
  <2>7. CASE ReadReset(r) \/ ReadResetFails(r)
    BY <2>1, <2>7, Zenon DEF ReadReset, ReadResetFails, Finish
  <2>8. QED  BY <2>4, <2>5, <2>6, <2>7
<1>3. \A p \in Messages : Owing(p)' = Owing(p)
  BY <1>1, <1>2, OwingKept
<1>4. QED  BY <1>1, <1>3, AccountQuiet


(* A set with one member more.                                             *)
LEMMA OneMore ==
  ASSUME NEW S, IsFiniteSet(S), NEW x, x \notin S
  PROVE  Cardinality(S \cup {x}) = Cardinality(S) + 1
  BY FS_AddElement

(* And with one member fewer.                                              *)
LEMMA OneLess ==
  ASSUME NEW S, IsFiniteSet(S), NEW x, x \in S
  PROVE  Cardinality(S \ {x}) = Cardinality(S) - 1
  BY FS_RemoveElement

(* A reply is one live reply more of its parent, and one counted.          *)
LEMMA AccountCreate ==
  ASSUME ConstantsAssumption, TypeOK, ThreadInv, ReplyCountAccounted,
         NEW r \in Requests, NEW m \in Messages, CreateWrite(r, m)
  PROVE  ReplyCountAccounted'
<1> USE DEF ghosts
<1> DEFINE c == req[r].message
<1>1. /\ status[m] = "none" /\ status' = [status EXCEPT ![m] = "live"]
      /\ parent' = [parent EXCEPT ![m] = c]
      /\ req' = [req EXCEPT ![r] = Blank]
      /\ At(r, "create_write") /\ c \in Messages \cup {NoMessage}
  BY CreateWriteRows
<1>2. lost' = lost /\ repeated' = repeated
      /\ replyCount' = IF c = NoMessage THEN replyCount ELSE [replyCount EXCEPT ![c] = @ + 1]
  BY DEF CreateWrite, CountReply
<1> HIDE DEF c
<1>3. \A n \in Messages : n # m => status'[n] = status[n] /\ parent'[n] = parent[n]
  BY <1>1 DEF TypeOK
<1>4. status'[m] = "live" /\ parent'[m] = c
  BY <1>1 DEF TypeOK
<1>5. ASSUME NEW p \in Messages
      PROVE  replyCount'[p] = Cardinality(LiveReplies(p)') + Cardinality(Owing(p)')
                                + lost'[p] - repeated'[p]
  <2>1. Owing(p)' = Owing(p)
    <3>1. req[r].pc # "decrement" /\ Blank.pc # "decrement"
      BY <1>1 DEF At, Blank
    <3>2. QED  BY <1>1, <1>3, <3>1, OwingKept
  <2>2. /\ replyCount[p] = Cardinality(LiveReplies(p)) + Cardinality(Owing(p))
                             + lost[p] - repeated[p]
        /\ lost[p] \in Nat /\ repeated[p] \in Nat /\ replyCount[p] \in Int
        /\ Cardinality(Owing(p)) \in Nat /\ Cardinality(LiveReplies(p)) \in Nat
        /\ IsFiniteSet(LiveReplies(p))
    BY OwingFinite, RepliesFinite DEF ReplyCountAccounted, TypeOK
  <2>3. CASE p = c
    <3>1. m \notin LiveReplies(p) /\ LiveReplies(p)' = LiveReplies(p) \cup {m}
      BY <1>1, <1>3, <1>4, <2>3 DEF LiveReplies, Replies
    <3>2. Cardinality(LiveReplies(p)') = Cardinality(LiveReplies(p)) + 1
      BY <2>2, <3>1, OneMore
    <3>3. replyCount'[p] = replyCount[p] + 1
      BY <1>2, <2>3 DEF TypeOK, ConstantsAssumption
    <3>4. QED  BY <1>2, <2>1, <2>2, <3>2, <3>3
  <2>4. CASE p # c
    <3>1. LiveReplies(p)' = LiveReplies(p)
      BY <1>1, <1>3, <1>4, <2>4 DEF LiveReplies, Replies
    <3>2. replyCount'[p] = replyCount[p]
      BY <1>2, <2>4 DEF TypeOK
    <3>3. QED  BY <1>2, <2>1, <2>2, <3>1, <3>2
  <2>5. QED  BY <2>3, <2>4
<1>6. QED  BY <1>5 DEF ReplyCountAccounted

(* The slots owing to p when one slot begins, or ends, to owe.             *)
LEMMA OwingMoves ==
  ASSUME TypeOK, NEW r \in Requests, NEW l \in Request, req' = [req EXCEPT ![r] = l],
         UNCHANGED parent, NEW p \in Messages
  PROVE  Owing(p)' = IF l.pc = "decrement" /\ parent[l.message] = p
                     THEN Owing(p) \cup {r} ELSE Owing(p) \ {r}
<1>1. req'[r] = l /\ \A q \in Requests : q # r => req'[q] = req[q]
  BY DEF TypeOK
<1>2. \A q \in Requests : q # r => (q \in Owing(p)' <=> q \in Owing(p))
  BY <1>1 DEF Owing, At
<1>3. r \in Owing(p)' <=> l.pc = "decrement" /\ parent[l.message] = p
  BY <1>1 DEF Owing, At
<1>4. Owing(p) \subseteq Requests /\ Owing(p)' \subseteq Requests
  BY DEF Owing
<1>5. QED  BY <1>2, <1>3, <1>4

(* A delete of a live reply moves it from the live replies to the slots    *)
(* that owe; a repeated delete adds a slot that owes too much.             *)
LEMMA AccountDelete ==
  ASSUME ConstantsAssumption, TypeOK, ThreadInv, ReplyCountAccounted,
         NEW r \in Requests, DeleteWrite(r)
  PROVE  ReplyCountAccounted'
<1> DEFINE m == req[r].message
           l == IF parent[m] = NoMessage THEN Blank ELSE [req[r] EXCEPT !.pc = "decrement"]
<1>1. /\ m \in Messages /\ status[m] # "none" /\ m # NoMessage
      /\ req[r] \in Request /\ req[r].pc # "decrement"
  BY DEF DeleteWrite, ThreadInv, SlotInv, At, Deleting, ConstantsAssumption, TypeOK
<1>2. /\ status' = [status EXCEPT ![m] = "deleted"]
      /\ UNCHANGED <<parent, replyCount, lost>>
      /\ repeated' = [p \in Messages |-> IF status[m] = "deleted" /\ parent[m] = p
                                         THEN repeated[p] + 1 ELSE repeated[p]]
  BY DEF DeleteWrite
<1>3. req' = [req EXCEPT ![r] = l]
  BY DEF DeleteWrite, Finish, Goto
<1>4. /\ l \in Request
      /\ l.message = IF parent[m] = NoMessage THEN NoMessage ELSE m
      /\ l.pc = "decrement" <=> parent[m] # NoMessage
  BY <1>1, BlankType DEF Request, Blank
<1> HIDE DEF l
<1>5. ASSUME NEW p \in Messages
      PROVE  replyCount'[p] = Cardinality(LiveReplies(p)') + Cardinality(Owing(p)')
                                + lost'[p] - repeated'[p]
  <2>1. /\ replyCount[p] = Cardinality(LiveReplies(p)) + Cardinality(Owing(p))
                             + lost[p] - repeated[p]
        /\ lost[p] \in Nat /\ repeated[p] \in Nat /\ replyCount[p] \in Int
        /\ Cardinality(Owing(p)) \in Nat /\ Cardinality(LiveReplies(p)) \in Nat
        /\ IsFiniteSet(LiveReplies(p)) /\ IsFiniteSet(Owing(p))
    BY OwingFinite, RepliesFinite DEF ReplyCountAccounted, TypeOK
  <2>2. r \notin Owing(p) /\ p # NoMessage
    BY <1>1 DEF Owing, At, ConstantsAssumption
  <2>3. Owing(p)' = IF parent[m] = p THEN Owing(p) \cup {r} ELSE Owing(p)
    <3>1. Owing(p)' = IF l.pc = "decrement" /\ parent[l.message] = p
                      THEN Owing(p) \cup {r} ELSE Owing(p) \ {r}
      BY <1>2, <1>3, <1>4, OwingMoves
    <3>2. l.pc = "decrement" /\ parent[l.message] = p <=> parent[m] = p
      BY <1>4, <2>2
    <3>3. Owing(p) \ {r} = Owing(p)
      BY <2>2
    <3>4. QED  BY <3>1, <3>2, <3>3
  <2>4. LiveReplies(p)' = LiveReplies(p) \ {m}
    BY <1>1, <1>2 DEF LiveReplies, Replies, TypeOK
  <2>5. m \in LiveReplies(p) <=> parent[m] = p /\ status[m] = "live"
    BY <1>1 DEF LiveReplies, Replies
  <2>6. status[m] \in {"live", "deleted"}
    BY <1>1 DEF TypeOK
  <2> HIDE DEF m
  <2>7. CASE parent[m] = p /\ status[m] = "live"
    <3>1. Cardinality(LiveReplies(p)') = Cardinality(LiveReplies(p)) - 1
      BY <2>1, <2>4, <2>5, <2>7, OneLess
    <3>2. Cardinality(Owing(p)') = Cardinality(Owing(p)) + 1
      BY <2>1, <2>2, <2>3, <2>7, OneMore
    <3>3. repeated'[p] = repeated[p]
      BY <1>2, <2>7
    <3>4. QED  BY <1>2, <2>1, <3>1, <3>2, <3>3
  <2>8. CASE parent[m] = p /\ status[m] = "deleted"
    <3>1. LiveReplies(p)' = LiveReplies(p)
      BY <2>4, <2>5, <2>8
    <3>2. Cardinality(Owing(p)') = Cardinality(Owing(p)) + 1
      BY <2>1, <2>2, <2>3, <2>8, OneMore
    <3>3. repeated'[p] = repeated[p] + 1
      BY <1>2, <2>8
    <3>4. QED  BY <1>2, <2>1, <3>1, <3>2, <3>3
  <2>9. CASE parent[m] # p
    <3>1. LiveReplies(p)' = LiveReplies(p) /\ Owing(p)' = Owing(p)
      BY <2>3, <2>4, <2>5, <2>9
    <3>2. repeated'[p] = repeated[p]
      BY <1>2, <2>9
    <3>3. QED  BY <1>2, <2>1, <3>1, <3>2
  <2>10. QED  BY <2>6, <2>7, <2>8, <2>9
<1>6. QED  BY <1>5 DEF ReplyCountAccounted

(* A decrement is owed no longer; a failed one is lost.                    *)
LEMMA AccountDecrement ==
  ASSUME ConstantsAssumption, TypeOK, ThreadInv, ReplyCountAccounted,
         NEW r \in Requests, Decrement(r) \/ DecrementFails(r)
  PROVE  ReplyCountAccounted'
<1> USE DEF rowVars, ghosts
<1> DEFINE c == parent[req[r].message]
<1>1. At(r, "decrement") /\ c \in Messages
  BY DEF Decrement, DecrementFails, ThreadInv, SlotInv, TypeOK
<1>2. /\ UNCHANGED <<status, parent, repeated>> /\ req' = [req EXCEPT ![r] = Blank]
      /\ \/ replyCount' = [replyCount EXCEPT ![c] = @ - 1] /\ lost' = lost
         \/ lost' = [lost EXCEPT ![c] = @ + 1] /\ replyCount' = replyCount
  BY DEF Decrement, DecrementFails, Finish
<1>3. \A p : r \in Owing(p) <=> p = c
  BY <1>1 DEF Owing
<1> HIDE DEF c
<1>4. ASSUME NEW p \in Messages
      PROVE  replyCount'[p] = Cardinality(LiveReplies(p)') + Cardinality(Owing(p)')
                                + lost'[p] - repeated'[p]
  <2>1. /\ replyCount[p] = Cardinality(LiveReplies(p)) + Cardinality(Owing(p))
                             + lost[p] - repeated[p]
        /\ lost[p] \in Nat /\ repeated[p] \in Nat /\ replyCount[p] \in Int
        /\ Cardinality(Owing(p)) \in Nat /\ Cardinality(LiveReplies(p)) \in Nat
        /\ IsFiniteSet(Owing(p))
    BY OwingFinite, RepliesFinite DEF ReplyCountAccounted, TypeOK
  <2>2. LiveReplies(p)' = LiveReplies(p)
    BY <1>2 DEF LiveReplies, Replies
  <2>3. Owing(p)' = Owing(p) \ {r}
    <3>1. Blank.pc # "decrement"
      BY DEF Blank
    <3>2. QED  BY <1>2, <3>1, BlankType, OwingMoves
  <2>4. CASE p = c
    <3>1. Cardinality(Owing(p)') = Cardinality(Owing(p)) - 1
      BY <1>3, <2>1, <2>3, <2>4, OneLess
    <3>2. \/ replyCount'[p] = replyCount[p] - 1 /\ lost'[p] = lost[p]
          \/ replyCount'[p] = replyCount[p] /\ lost'[p] = lost[p] + 1
      BY <1>1, <1>2, <2>4 DEF TypeOK
    <3>3. QED  BY <1>2, <2>1, <2>2, <3>1, <3>2
  <2>5. CASE p # c
    <3>1. Owing(p)' = Owing(p)
      BY <1>3, <2>3, <2>5
    <3>2. replyCount'[p] = replyCount[p] /\ lost'[p] = lost[p]
      BY <1>1, <1>2, <2>5 DEF TypeOK
    <3>3. QED  BY <1>2, <2>1, <2>2, <3>1, <3>2
  <2>6. QED  BY <2>4, <2>5
<1>5. QED  BY <1>4 DEF ReplyCountAccounted

(* A crash loses every decrement that was owed.                            *)
LEMMA AccountCrash ==
  ASSUME ConstantsAssumption, TypeOK, ReplyCountAccounted, Crash
  PROVE  ReplyCountAccounted'
<1> USE DEF rowVars
<1>1. /\ UNCHANGED <<status, parent, replyCount, repeated>>
      /\ lost' = [m \in Messages |-> lost[m] + Cardinality(Owing(m))]
      /\ \A r \in Requests : req'[r] = Blank
  BY DEF Crash
<1>2. ASSUME NEW p \in Messages
      PROVE  replyCount'[p] = Cardinality(LiveReplies(p)') + Cardinality(Owing(p)')
                                + lost'[p] - repeated'[p]
  <2>1. LiveReplies(p)' = LiveReplies(p)
    BY <1>1 DEF LiveReplies, Replies
  <2>2. Owing(p)' = {}
    BY <1>1 DEF Owing, At, Blank
  <2>3. Cardinality(Owing(p)') = 0
    BY <2>2, FS_EmptySet
  <2>4. /\ replyCount[p] = Cardinality(LiveReplies(p)) + Cardinality(Owing(p))
                             + lost[p] - repeated[p]
        /\ lost[p] \in Nat /\ repeated[p] \in Nat /\ replyCount[p] \in Int
        /\ Cardinality(Owing(p)) \in Nat /\ Cardinality(LiveReplies(p)) \in Nat
    BY OwingFinite, RepliesFinite DEF ReplyCountAccounted, TypeOK
  <2>5. lost'[p] = lost[p] + Cardinality(Owing(p))
    BY <1>1
  <2>6. QED  BY <1>1, <2>1, <2>3, <2>4, <2>5
<1>3. QED  BY <1>2 DEF ReplyCountAccounted

(* Whatever happens, the account stays right.                              *)
LEMMA AccountNext ==
  ASSUME ConstantsAssumption, TypeOK, ThreadInv, ReplyCountAccounted, [Next]_vars
  PROVE  ReplyCountAccounted'
<1>1. ASSUME NEW r \in Requests, Continue(r) PROVE ReplyCountAccounted'
  BY <1>1, AccountMoves, AccountCreate, AccountDelete, AccountDecrement DEF Continue
<1>2. ASSUME NEW u, ComeOrGo(u) \/ ChangeRole(u) PROVE ReplyCountAccounted'
  BY <1>2, AccountQuiet DEF ComeOrGo, ChangeRole, rowVars, ghosts, Owing, At
<1>3. CASE UNCHANGED vars
  BY <1>3, AccountQuiet DEF vars, Owing, At
<1>4. QED  BY <1>1, <1>2, <1>3, AccountArrive, AccountCrash DEF Next

(* At the start nothing is counted.                                        *)
LEMMA AccountInit == Init => ReplyCountAccounted
<1> SUFFICES ASSUME Init, NEW p \in Messages
             PROVE  replyCount[p] = Cardinality(LiveReplies(p)) + Cardinality(Owing(p))
                                      + lost[p] - repeated[p]
  BY DEF ReplyCountAccounted
<1>1. LiveReplies(p) = {} /\ Owing(p) = {}
  BY DEF Init, LiveReplies, Replies, Owing, At, Blank
<1>2. replyCount[p] = 0 /\ lost[p] = 0 /\ repeated[p] = 0
  BY DEF Init
<1>3. QED  BY <1>1, <1>2, FS_EmptySet

(* A message's replyCount differs from the number of its live replies by   *)
(* what the deletes of softDelete in progress, failed, interrupted or      *)
(* repeated explain, and by nothing else.                                  *)
THEOREM ReplyCountsAccounted == Spec => []ReplyCountAccounted
<1>1. Init => TypeOK /\ ThreadInv /\ ReplyCountAccounted
  BY TypeInit, ThreadInit, AccountInit
<1>2. TypeOK /\ (ThreadInv /\ ReplyCountAccounted) /\ [Next]_vars => (ThreadInv /\ ReplyCountAccounted)'
  BY ThreadNext, AccountNext, ConstantsAssumption
<1>3. QED  BY <1>1, <1>2, TypeCorrect, PTL DEF Spec

-----------------------------------------------------------------------------
(* Repeated deletes.  A slot between softDelete's check and its write may  *)
(* find the message deleted by then.  No slot gets there once the message  *)
(* is deleted, and the delete that came first has used up one.             *)
InFlight(m) == {r \in Requests : At(r, "delete_write") /\ req[r].message = m}

RedeleteInv ==
  \A m \in Messages :
    IF status[m] = "deleted"
    THEN redeleted[m] + Cardinality(InFlight(m)) < Cardinality(Requests)
    ELSE redeleted[m] = 0

(* The slots in flight are some of finitely many slots.                    *)
LEMMA FlightFinite ==
  ASSUME ConstantsAssumption, NEW m
  PROVE  /\ IsFiniteSet(InFlight(m)) /\ Cardinality(InFlight(m)) \in Nat
         /\ Cardinality(Requests) \in Nat
<1>1. IsFiniteSet(Requests) /\ InFlight(m) \subseteq Requests
  BY DEF ConstantsAssumption, InFlight
<1>2. QED  BY <1>1, FS_Subset, FS_CardinalityType

(* A step that deletes nothing keeps the invariant if no slot sets out to  *)
(* delete what is deleted.                                                 *)
LEMMA RedeleteQuiet ==
  ASSUME ConstantsAssumption, TypeOK, RedeleteInv, redeleted' = redeleted,
         \A m \in Messages :
           /\ status'[m] = "deleted" <=> status[m] = "deleted"
           /\ status[m] = "deleted" => InFlight(m)' \subseteq InFlight(m)
  PROVE  RedeleteInv'
<1>1. ASSUME NEW m \in Messages, status[m] = "deleted"
      PROVE  redeleted'[m] + Cardinality(InFlight(m)') < Cardinality(Requests)
  <2>1. InFlight(m)' \subseteq InFlight(m)
    BY <1>1
  <2>2. /\ Cardinality(InFlight(m)') <= Cardinality(InFlight(m))
        /\ Cardinality(InFlight(m)') \in Nat
    BY <2>1, FlightFinite, FS_Subset, FS_CardinalityType
  <2>3. /\ Cardinality(InFlight(m)) \in Nat /\ Cardinality(Requests) \in Nat
        /\ redeleted[m] \in Nat
    BY FlightFinite DEF TypeOK
  <2>4. QED  BY <1>1, <2>2, <2>3 DEF RedeleteInv
<1>2. QED  BY <1>1 DEF RedeleteInv

(* A slot begins: it sets out to delete only what is live.                 *)
LEMMA FlightArrive ==
  ASSUME ConstantsAssumption, TypeOK, NEW r \in Requests, Arrive(r),
         NEW m \in Messages, status[m] = "deleted"
  PROVE  InFlight(m)' \subseteq InFlight(m)
<1> SUFFICES ASSUME NEW q \in Requests, req'[q].pc = "delete_write", req'[q].message = m
             PROVE  req[q].pc = "delete_write" /\ req[q].message = m
  BY DEF InFlight, At
<1>1. CASE q # r
  <2>1. req'[q] = req[q]
    BY <1>1 DEF Arrive, Create, Remove, DeleteFromSocket, MarkAsRead, MarkRoomAsRead,
               MarkMemberAsRead, MarkAsReadElsewhere, MarkOtherAsRead, Begin, TypeOK
  <2>2. QED  BY <2>1
<1>2. CASE q = r
  <2>1. ASSUME NEW l, Begin(r, l), l.pc # "delete_write" PROVE FALSE
    BY <1>2, <2>1 DEF Begin, TypeOK
  <2>2. ASSUME NEW u \in Posters, NEW p \in Messages \cup {NoMessage} PROVE ~Create(r, u, p)
    <3>1. [Blank EXCEPT !.user = u, !.message = p,
             !.pc = IF p = NoMessage THEN "create_write"
                    ELSE "create_parent"].pc # "delete_write"
      BY DEF Blank
    <3>2. QED  BY <2>1, <3>1, Zenon DEF Create
  <2>3. ASSUME NEW u \in Deleters, NEW n \in Messages PROVE ~Remove(r, u, n)
    <3>1. [Blank EXCEPT !.pc = "remove_member", !.user = u,
                        !.message = n].pc # "delete_write"
      BY DEF Blank
    <3>2. QED  BY <2>1, <3>1, Zenon DEF Remove
  <2>4. ASSUME NEW u \in Deleters, NEW n \in Messages PROVE ~DeleteFromSocket(r, u, n)
    <3> DEFINE l == [Blank EXCEPT !.pc = "delete_write", !.user = u, !.message = n]
    <3>1. l.message = n
      BY DEF Blank
    <3> HIDE DEF l
    <3>2. ASSUME req' = [req EXCEPT ![r] = l], status[n] = "live" PROVE FALSE
      BY <1>2, <3>1, <3>2 DEF TypeOK
    <3>3. QED  BY <3>2, Zenon DEF DeleteFromSocket, MayDelete, Begin, l
  <2>5. ASSUME NEW u \in Readers
        PROVE  /\ \A n \in Messages : ~MarkAsRead(r, u, n)
               /\ ~MarkMemberAsRead(r, u) /\ ~MarkOtherAsRead(r, u)
    <3>1. /\ [Blank EXCEPT !.pc = "read_reset", !.user = u].pc # "delete_write"
          /\ \A f : [Blank EXCEPT !.pc = "read_reset", !.user = u,
                                 !.found = f].pc # "delete_write"
      BY DEF Blank
    <3>2. QED  BY <2>1, <3>1, Zenon DEF MarkAsRead, MarkMemberAsRead, MarkOtherAsRead
  <2>6. ASSUME NEW u \in Readers, NEW batch \in SUBSET UnreadBy(u)
        PROVE  ~MarkRoomAsRead(r, u, batch)
    <3>1. [Blank EXCEPT !.user = u, !.found = batch,
             !.pc = IF batch = {} THEN "read_reset"
                    ELSE "read_insert"].pc # "delete_write"
      BY DEF Blank
    <3>2. QED  BY <2>1, <3>1, Zenon DEF MarkRoomAsRead
  <2>7. ASSUME NEW u \in Readers, NEW n \in Messages, MarkAsReadElsewhere(r, u, n)
        PROVE  req'[q].pc = "idle"
    BY <1>2, <2>7 DEF MarkAsReadElsewhere, At
  <2>8. QED  BY <2>2, <2>3, <2>4, <2>5, <2>6, <2>7 DEF Arrive
<1>3. QED  BY <1>1, <1>2

(* A slot goes on, other than by the delete itself.                        *)
LEMMA FlightContinue ==
  ASSUME ConstantsAssumption, TypeOK, NEW r \in Requests, Continue(r), ~DeleteWrite(r),
         NEW m \in Messages, status[m] = "deleted"
  PROVE  InFlight(m)' \subseteq InFlight(m)
<1> SUFFICES ASSUME NEW q \in Requests, req'[q].pc = "delete_write", req'[q].message = m
             PROVE  req[q].pc = "delete_write" /\ req[q].message = m
  BY DEF InFlight, At
<1>1. ASSUME NEW check, NEW step \in {"create_write", "delete_find", "remove_role"},
             CheckThen(r, check, step), q = r
      PROVE  FALSE
  BY <1>1 DEF CheckThen, Goto, Finish, Blank, TypeOK, Request
<1>2. CASE q # r
  <2>1. req'[q] = req[q]
    BY <1>2 DEF Continue, CreateParent, CreateWrite, RemoveMember, RemoveRole, DeleteFind,
               Decrement, DecrementFails, ReadInsert, ReadReset, ReadResetFails, CheckThen,
               Goto, Finish, TypeOK
  <2>2. QED  BY <2>1
<1>3. CASE q = r
  <2>1. ~CreateParent(r) /\ ~RemoveMember(r)
    BY <1>1, <1>3 DEF CreateParent, RemoveMember
  <2>2. ~RemoveRole(r)
    <3> DEFINE l == [req[r] EXCEPT !.pc = "delete_find", !.admin = TRUE]
    <3>1. l.pc # "delete_write" /\ Blank.pc # "delete_write"
      BY DEF Blank, TypeOK, Request
    <3> HIDE DEF l
    <3>2. ASSUME req' = [req EXCEPT ![r] = l] \/ req' = [req EXCEPT ![r] = Blank]
          PROVE  FALSE
      BY <1>3, <3>1, <3>2 DEF TypeOK
    <3>3. RemoveRole(r) => req' = [req EXCEPT ![r] = l] \/ req' = [req EXCEPT ![r] = Blank]
      BY DEF RemoveRole, l
    <3>4. QED  BY <3>2, <3>3
  <2>3. ~DeleteFind(r)
    BY <1>3 DEF DeleteFind, CheckThen, MayDelete, Goto, Finish, Blank, TypeOK, Request
  <2>4. /\ \A n \in Messages : ~CreateWrite(r, n)
        /\ ~Decrement(r) /\ ~DecrementFails(r)
        /\ ~ReadReset(r) /\ ~ReadResetFails(r)
    BY <1>3 DEF CreateWrite, Decrement, DecrementFails, ReadReset, ReadResetFails, Finish,
                Blank, TypeOK
  <2>5. ~ReadInsert(r)
    BY <1>3 DEF ReadInsert, Goto, TypeOK, Request
  <2>6. QED  BY <2>1, <2>2, <2>3, <2>4, <2>5 DEF Continue
<1>4. QED  BY <1>2, <1>3

(* The delete is written: a slot in flight becomes the first delete or a   *)
(* repeated one.                                                           *)
LEMMA RedeleteWrite ==
  ASSUME ConstantsAssumption, TypeOK, ThreadInv, RedeleteInv, NEW r \in Requests,
         DeleteWrite(r)
  PROVE  RedeleteInv'
<1>1. PICK m \in Messages :
        /\ m = req[r].message /\ r \in InFlight(m)
        /\ status' = [status EXCEPT ![m] = "deleted"]
        /\ redeleted' = [redeleted EXCEPT ![m] = IF status[m] = "deleted" THEN @ + 1 ELSE @]
  BY DEF DeleteWrite, ThreadInv, SlotInv, At, Deleting, InFlight
<1>2. req'[r].pc # "delete_write" /\ \A q \in Requests : q # r => req'[q] = req[q]
  BY DEF DeleteWrite, Goto, Finish, Blank, TypeOK, Request
<1>3. \A n \in Messages : InFlight(n)' = InFlight(n) \ {r}
  BY <1>2 DEF InFlight, At
<1>4. redeleted'[m] + Cardinality(InFlight(m)') < Cardinality(Requests)
  <2>1. Cardinality(InFlight(m)') = Cardinality(InFlight(m)) - 1
    BY <1>1, <1>3, FlightFinite, OneLess
  <2>2. Cardinality(InFlight(m)) <= Cardinality(Requests)
    BY FS_Subset DEF InFlight, ConstantsAssumption
  <2>3. /\ Cardinality(InFlight(m)) \in Nat /\ Cardinality(Requests) \in Nat
        /\ redeleted[m] \in Nat
    BY FlightFinite DEF TypeOK
  <2>4. CASE status[m] = "deleted"
    BY <1>1, <2>1, <2>3, <2>4 DEF RedeleteInv, TypeOK
  <2>5. CASE status[m] # "deleted"
    BY <1>1, <2>1, <2>2, <2>3, <2>5 DEF RedeleteInv, TypeOK
  <2>6. QED  BY <2>4, <2>5
<1>5. ASSUME NEW n \in Messages, n # m
      PROVE  IF status'[n] = "deleted"
             THEN redeleted'[n] + Cardinality(InFlight(n)') < Cardinality(Requests)
             ELSE redeleted'[n] = 0
  <2>1. InFlight(n)' = InFlight(n)
    BY <1>1, <1>3, <1>5 DEF InFlight
  <2>2. QED  BY <1>1, <1>5, <2>1 DEF RedeleteInv, TypeOK
<1>6. QED  BY <1>1, <1>4, <1>5 DEF RedeleteInv, TypeOK

(* Whatever happens, the slots last.                                       *)
LEMMA RedeleteNext ==
  ASSUME ConstantsAssumption, TypeOK, ThreadInv, RedeleteInv, [Next]_vars
  PROVE  RedeleteInv'
<1> USE DEF members, rowVars, readVars, ghosts
<1>1. ASSUME NEW r \in Requests, Arrive(r) PROVE RedeleteInv'
  <2>1. UNCHANGED <<status, redeleted>>
    BY <1>1 DEF Arrive, Create, Remove, DeleteFromSocket, MarkAsRead, MarkRoomAsRead,
               MarkMemberAsRead, MarkAsReadElsewhere, MarkOtherAsRead
  <2>2. QED  BY <1>1, <2>1, FlightArrive, RedeleteQuiet
<1>2. ASSUME NEW r \in Requests, Continue(r), ~DeleteWrite(r) PROVE RedeleteInv'
  <2>1. redeleted' = redeleted
    BY <1>2 DEF Continue, CreateParent, CreateWrite, RemoveMember, RemoveRole, DeleteFind,
               Decrement, DecrementFails, ReadInsert, ReadReset, ReadResetFails, CheckThen
  <2>2. \A m \in Messages : status'[m] = "deleted" <=> status[m] = "deleted"
    BY <1>2 DEF Continue, CreateParent, CreateWrite, RemoveMember, RemoveRole, DeleteFind,
               Decrement, DecrementFails, ReadInsert, ReadReset, ReadResetFails, CheckThen,
               TypeOK
  <2>3. QED  BY <1>2, <2>1, <2>2, FlightContinue, RedeleteQuiet
<1>3. CASE Crash
  <2>1. UNCHANGED <<status, redeleted>> /\ \A r \in Requests : req'[r].pc = "idle"
    BY <1>3 DEF Crash, Blank
  <2>2. \A m \in Messages : InFlight(m)' \subseteq InFlight(m)
    BY <2>1 DEF InFlight, At
  <2>3. QED  BY <2>1, <2>2, RedeleteQuiet
<1>4. ASSUME UNCHANGED <<status, redeleted, req>> PROVE RedeleteInv'
  <2>1. \A m \in Messages : InFlight(m)' = InFlight(m)
    BY <1>4 DEF InFlight, At
  <2>2. QED  BY <1>4, <2>1, RedeleteQuiet
<1>5. ASSUME NEW u, ComeOrGo(u) \/ ChangeRole(u) PROVE RedeleteInv'
  BY <1>4, <1>5 DEF ComeOrGo, ChangeRole
<1>6. CASE UNCHANGED vars
  BY <1>4, <1>6 DEF vars
<1>7. QED  BY <1>1, <1>2, <1>3, <1>5, <1>6, RedeleteWrite DEF Next

(* A message is deleted again at most once by every further request that   *)
(* can be in progress (softDelete checks isDeleted and writes it in two    *)
(* calls).                                                                 *)
THEOREM RedeletesAreBounded ==
  ASSUME Requests # {}
  PROVE  Spec => []RedeletesBounded
<1>1. Init => TypeOK /\ ThreadInv /\ RedeleteInv
  BY TypeInit, ThreadInit DEF Init, RedeleteInv
<1>2. TypeOK /\ (ThreadInv /\ RedeleteInv) /\ [Next]_vars => (ThreadInv /\ RedeleteInv)'
  BY ThreadNext, RedeleteNext, ConstantsAssumption
<1>3. TypeOK /\ RedeleteInv => RedeletesBounded
  <2> SUFFICES ASSUME TypeOK, RedeleteInv, NEW m \in Messages
               PROVE  redeleted[m] < Cardinality(Requests)
    BY DEF RedeletesBounded
  <2>1. Cardinality(Requests) \in Nat /\ Cardinality(Requests) # 0
    BY FS_CardinalityType, FS_EmptySet, ConstantsAssumption DEF ConstantsAssumption
  <2>2. Cardinality(InFlight(m)) \in Nat /\ redeleted[m] \in Nat
    BY FlightFinite, ConstantsAssumption DEF TypeOK
  <2>3. QED  BY <2>1, <2>2 DEF RedeleteInv
<1>4. QED  BY <1>1, <1>2, <1>3, TypeCorrect, PTL DEF Spec

-----------------------------------------------------------------------------
(* Unread counters.  A message that is counted for a user has no receipt   *)
(* of theirs yet, since receipts, and the batches a request carries, are   *)
(* of messages that exist.                                                 *)
ReceiptInv ==
  /\ \A m \in Messages, u \in Users : <<m, u>> \in reads => status[m] # "none"
  /\ \A r \in Requests : \A m \in req[r].found : status[m] # "none"

UnreadInv == ReceiptInv /\ UnreadBacked

(* The messages a counter may still count are some of finitely many.       *)
LEMMA UncountedFinite ==
  ASSUME ConstantsAssumption, NEW u
  PROVE  IsFiniteSet(Uncounted(u)) /\ Cardinality(Uncounted(u)) \in Nat
<1>1. IsFiniteSet(Messages) /\ Uncounted(u) \subseteq Messages
  BY DEF ConstantsAssumption, Uncounted
<1>2. QED  BY <1>1, FS_Subset, FS_CardinalityType

(* Which messages wait for a reset, slot by slot.                          *)
LEMMA HalfReadSlots ==
  ASSUME NEW u, NEW m
  PROVE  m \in HalfRead(u) <=>
           \E r \in Requests : /\ At(r, "read_reset") /\ req[r].user = u
                               /\ m \in req[r].found
  BY DEF HalfRead

(* The same after a step.                                                  *)
LEMMA HalfReadSlotsNext ==
  ASSUME NEW u, NEW m
  PROVE  m \in HalfRead(u)' <=>
           \E r \in Requests : /\ req'[r].pc = "read_reset" /\ req'[r].user = u
                               /\ m \in req'[r].found
  BY DEF HalfRead, At

(* A counter that is not written stays backed if a message leaves the set  *)
(* of those it may count by no new receipt, no lost slot and no reset.     *)
LEMMA UnreadKept ==
  ASSUME ConstantsAssumption, TypeOK, UnreadBacked, ReceiptInv', NEW u \in Users,
         unread'[u] = unread[u],
         \A m \in Messages : status[m] # "none" =>
            status'[m] # "none" /\ sender'[m] = sender[m],
         \A m \in Messages : <<m, u>> \in reads' =>
            \/ <<m, u>> \in reads
            \/ m \in HalfRead(u)'
            \/ m \in astray'[u],
         \A m \in HalfRead(u) \cup astray[u] : m \in HalfRead(u)' \/ m \in astray'[u]
  PROVE  unread'[u] <= Cardinality(Uncounted(u)')
<1>1. Uncounted(u) \subseteq Uncounted(u)'
  BY DEF Uncounted
<1>2. IsFiniteSet(Uncounted(u)') /\ Uncounted(u)' \subseteq Messages
  <2>1. Uncounted(u)' \subseteq Messages
    BY DEF Uncounted
  <2>2. QED  BY <2>1, FS_Subset DEF ConstantsAssumption
<1>3. Cardinality(Uncounted(u)) <= Cardinality(Uncounted(u)')
  BY <1>1, <1>2, FS_Subset
<1>4. Cardinality(Uncounted(u)') \in Nat
  BY <1>2, FS_CardinalityType
<1>5. QED  BY <1>3, <1>4, UncountedFinite DEF UnreadBacked, TypeOK

(* A slot that is not about to reset a counter moves, no receipt is        *)
(* written, no message posted.                                             *)
LEMMA UnreadQuiet ==
  ASSUME ConstantsAssumption, TypeOK, UnreadInv, NEW r \in Requests,
         req[r].pc # "read_reset",
         \A q \in Requests : q # r => req'[q] = req[q],
         \A m \in req'[r].found : status[m] # "none",
         UNCHANGED <<reads, unread, astray, sender>>,
         \A m : status'[m] # "none" <=> status[m] # "none"
  PROVE  UnreadInv'
<1>1. ReceiptInv'
  <2>1. \A q \in Requests : \A m \in req'[q].found : status'[m] # "none"
    BY DEF UnreadInv, ReceiptInv
  <2>2. QED  BY <2>1 DEF UnreadInv, ReceiptInv
<1>2. \A u, m : m \in HalfRead(u) => m \in HalfRead(u)'
  BY HalfReadSlots, HalfReadSlotsNext DEF At
<1>3. ASSUME NEW u \in Users PROVE unread'[u] <= Cardinality(Uncounted(u)')
  BY <1>1, <1>2, UnreadKept DEF UnreadInv
<1>4. QED  BY <1>1, <1>3 DEF UnreadInv, UnreadBacked

(* A slot begins, or a receipt is written whose reset hits another room.   *)
LEMMA UnreadArrive ==
  ASSUME ConstantsAssumption, TypeOK, UnreadInv, NEW r \in Requests, Arrive(r)
  PROVE  UnreadInv'
<1> USE DEF rowVars, readVars
<1>0. Readers \subseteq Users
  BY DEF ConstantsAssumption
<1>1. ASSUME NEW l, Begin(r, l), \A m \in l.found : status[m] # "none",
             UNCHANGED <<status, reads, unread, astray, sender>>
      PROVE  UnreadInv'
  <2>1. /\ req'[r] = l /\ req[r].pc # "read_reset"
        /\ \A q \in Requests : q # r => req'[q] = req[q]
    BY <1>1 DEF Begin, TypeOK
  <2>2. QED  BY <1>1, <2>1, UnreadQuiet
<1>2. ASSUME NEW u \in Posters, NEW p \in Messages \cup {NoMessage}, Create(r, u, p)
      PROVE  UnreadInv'
  <2>1. [Blank EXCEPT !.user = u, !.message = p,
           !.pc = IF p = NoMessage THEN "create_write" ELSE "create_parent"].found = {}
    BY DEF Blank
  <2>2. QED  BY <1>1, <1>2, <2>1, Zenon DEF Create
<1>3. ASSUME NEW u \in Deleters, NEW m \in Messages, Remove(r, u, m) PROVE UnreadInv'
  <2>1. [Blank EXCEPT !.pc = "remove_member", !.user = u, !.message = m].found = {}
    BY DEF Blank
  <2>2. QED  BY <1>1, <1>3, <2>1, Zenon DEF Remove
<1>4. ASSUME NEW u \in Deleters, NEW m \in Messages, DeleteFromSocket(r, u, m)
      PROVE  UnreadInv'
  <2>1. [Blank EXCEPT !.pc = "delete_write", !.user = u, !.message = m].found = {}
    BY DEF Blank
  <2>2. QED  BY <1>1, <1>4, <2>1, Zenon DEF DeleteFromSocket
<1>5. ASSUME NEW u \in Readers, MarkMemberAsRead(r, u) \/ MarkOtherAsRead(r, u)
      PROVE  UnreadInv'
  <2>1. [Blank EXCEPT !.pc = "read_reset", !.user = u].found = {}
    BY DEF Blank
  <2>2. QED  BY <1>1, <1>5, <2>1, Zenon DEF MarkMemberAsRead, MarkOtherAsRead
<1>6. ASSUME NEW u \in Readers, NEW batch \in SUBSET UnreadBy(u), MarkRoomAsRead(r, u, batch)
      PROVE  UnreadInv'
  <2>1. [Blank EXCEPT !.user = u, !.found = batch,
           !.pc = IF batch = {} THEN "read_reset" ELSE "read_insert"].found = batch
    BY DEF Blank
  <2>2. \A m \in batch : status[m] # "none"
    BY DEF UnreadBy
  <2>3. QED  BY <1>1, <1>6, <2>1, <2>2, Zenon DEF MarkRoomAsRead
<1>7. ASSUME NEW u \in Readers, NEW m \in Messages, MarkAsRead(r, u, m) PROVE UnreadInv'
  <2> DEFINE l == [Blank EXCEPT !.pc = "read_reset", !.user = u,
                     !.found = Unreceipted(u, m)]
  <2>1. l.pc = "read_reset" /\ l.user = u /\ l.found = Unreceipted(u, m)
    BY DEF Blank
  <2>2. req' = [req EXCEPT ![r] = l] /\ req[r].pc = "idle"
    BY <1>7 DEF MarkAsRead, Begin
  <2> HIDE DEF l
  <2>3. /\ status[m] # "none" /\ reads' = reads \cup {<<m, u>>}
        /\ UNCHANGED <<status, sender, unread, astray>>
    BY <1>7 DEF MarkAsRead
  <2>4. req'[r] = l /\ \A q \in Requests : q # r => req'[q] = req[q]
    BY <2>2 DEF TypeOK
  <2>5. ReceiptInv'
    BY <2>1, <2>3, <2>4 DEF UnreadInv, ReceiptInv, Unreceipted
  <2>6. \A v, n : n \in HalfRead(v) => n \in HalfRead(v)'
    BY <2>2, <2>4, HalfReadSlots, HalfReadSlotsNext DEF At
  <2>7. <<m, u>> \notin reads => m \in HalfRead(u)'
    <3>1. <<m, u>> \notin reads => m \in req'[r].found
      BY <2>1, <2>4 DEF Unreceipted
    <3>2. QED  BY <2>1, <2>4, <3>1, HalfReadSlotsNext
  <2>8. ASSUME NEW v \in Users PROVE unread'[v] <= Cardinality(Uncounted(v)')
    <3>1. \A n \in Messages : <<n, v>> \in reads' =>
             <<n, v>> \in reads \/ n \in HalfRead(v)' \/ n \in astray'[v]
      BY <2>3, <2>7
    <3>2. QED  BY <2>3, <2>5, <2>6, <3>1, UnreadKept DEF UnreadInv
  <2>9. QED  BY <2>5, <2>8 DEF UnreadInv, UnreadBacked
<1>8. ASSUME NEW u \in Readers, NEW m \in Messages, MarkAsReadElsewhere(r, u, m)
      PROVE  UnreadInv'
  <2>1. /\ status[m] # "none" /\ reads' = reads \cup {<<m, u>>}
        /\ UNCHANGED <<status, sender, unread, req>>
    BY <1>8 DEF MarkAsReadElsewhere
  <2>2. /\ \A v \in Users : astray[v] \subseteq astray'[v]
        /\ <<m, u>> \notin reads => m \in astray'[u]
    BY <1>0, <1>8 DEF MarkAsReadElsewhere, TypeOK, Unreceipted
  <2>3. ReceiptInv'
    BY <2>1 DEF UnreadInv, ReceiptInv
  <2>4. \A v, n : n \in HalfRead(v) => n \in HalfRead(v)'
    BY <2>1, HalfReadSlots, HalfReadSlotsNext DEF At
  <2>5. ASSUME NEW v \in Users PROVE unread'[v] <= Cardinality(Uncounted(v)')
    <3>1. \A n \in Messages : <<n, v>> \in reads' =>
             <<n, v>> \in reads \/ n \in HalfRead(v)' \/ n \in astray'[v]
      BY <2>1, <2>2
    <3>2. \A n \in HalfRead(v) \cup astray[v] : n \in HalfRead(v)' \/ n \in astray'[v]
      BY <2>2, <2>4
    <3>3. QED  BY <2>1, <2>3, <3>1, <3>2, UnreadKept DEF UnreadInv
  <2>6. QED  BY <2>3, <2>5 DEF UnreadInv, UnreadBacked
<1>9. QED  BY <1>2, <1>3, <1>4, <1>5, <1>6, <1>7, <1>8 DEF Arrive

(* A message is posted: it is counted for others, who have not read it.    *)
LEMMA UnreadCreate ==
  ASSUME ConstantsAssumption, TypeOK, UnreadInv, NEW r \in Requests, NEW m \in Messages,
         CreateWrite(r, m)
  PROVE  UnreadInv'
<1> DEFINE u == req[r].user
<1>1. /\ status[m] = "none" /\ status' = [status EXCEPT ![m] = "live"]
      /\ sender' = [sender EXCEPT ![m] = u] /\ unread' = CountOthers(m, u)
      /\ UNCHANGED <<reads, astray>>
      /\ req[r].pc = "create_write" /\ req'[r].found = {}
      /\ req'[r].pc = "idle"
      /\ \A q \in Requests : q # r => req'[q] = req[q]
  BY DEF CreateWrite, At, Finish, Blank, TypeOK
<1> HIDE DEF u
<1>2. ReceiptInv'
  <2>1. \A q \in Requests : \A n \in req'[q].found : n \in Messages /\ status[n] # "none"
    BY <1>1 DEF UnreadInv, ReceiptInv, TypeOK, Request
  <2>2. QED  BY <1>1, <2>1 DEF UnreadInv, ReceiptInv, TypeOK
<1>3. \A v, n : n \in HalfRead(v)' <=> n \in HalfRead(v)
  BY <1>1, HalfReadSlots, HalfReadSlotsNext DEF At
<1>4. ASSUME NEW v \in Users
      PROVE  unread'[v] <= Cardinality(Uncounted(v)')
  <2>1. /\ unread[v] <= Cardinality(Uncounted(v))
        /\ unread[v] \in Nat /\ Cardinality(Uncounted(v)) \in Nat
    BY UncountedFinite DEF UnreadInv, UnreadBacked, TypeOK
  <2>2. CASE v = u
    <3>1. Uncounted(v)' = Uncounted(v)
      BY <1>1, <1>3, <2>2 DEF Uncounted, TypeOK
    <3>2. QED  BY <1>1, <2>1, <2>2, <3>1 DEF CountOthers
  <2>3. CASE v # u
    <3>1. <<m, v>> \notin reads
      BY <1>1 DEF UnreadInv, ReceiptInv
    <3>2. Uncounted(v)' = Uncounted(v) \cup {m} /\ m \notin Uncounted(v)
      BY <1>1, <1>3, <2>3, <3>1 DEF Uncounted, TypeOK
    <3>3. Cardinality(Uncounted(v)') = Cardinality(Uncounted(v)) + 1
      BY <3>2, UncountedFinite, OneMore
    <3>4. unread'[v] <= unread[v] + 1
      BY <1>1, <2>1 DEF CountOthers
    <3>5. QED  BY <1>1, <2>1, <3>3, <3>4 DEF CountOthers
  <2>4. QED  BY <2>2, <2>3
<1>5. QED  BY <1>2, <1>4 DEF UnreadInv, UnreadBacked

(* The slots that only move, or write what no counter depends on.          *)
LEMMA UnreadMoves ==
  ASSUME ConstantsAssumption, TypeOK, ThreadInv, UnreadInv, NEW r \in Requests,
         \/ CreateParent(r) \/ RemoveMember(r) \/ RemoveRole(r) \/ DeleteFind(r)
         \/ DeleteWrite(r) \/ Decrement(r) \/ DecrementFails(r)
  PROVE  UnreadInv'
<1> USE DEF rowVars, readVars
<1>1. /\ req[r].pc # "read_reset"
      /\ \A q \in Requests : q # r => req'[q] = req[q]
      /\ UNCHANGED <<reads, unread, astray, sender>>
  BY DEF CreateParent, RemoveMember, RemoveRole, DeleteFind, DeleteWrite, Decrement,
         DecrementFails, CheckThen, At, Goto, Finish, TypeOK
<1>2. req'[r].found \subseteq req[r].found
  <2>1. ASSUME NEW step, Goto(r, step) \/ Finish(r) PROVE req'[r].found \subseteq req[r].found
    BY <2>1 DEF Goto, Finish, Blank, TypeOK, Request
  <2>2. CASE RemoveRole(r)
    BY <2>2 DEF RemoveRole, Blank, TypeOK, Request
  <2>3. CASE ~RemoveRole(r)
    BY <2>1, <2>3 DEF CreateParent, RemoveMember, DeleteFind, DeleteWrite, Decrement,
       DecrementFails, CheckThen
  <2>4. QED  BY <2>2, <2>3
<1>3. \A m : status'[m] # "none" <=> status[m] # "none"
  <2>1. CASE DeleteWrite(r)
    BY <2>1 DEF DeleteWrite, ThreadInv, SlotInv, At, Deleting, TypeOK
  <2>2. CASE ~DeleteWrite(r)
    BY <2>2 DEF CreateParent, RemoveMember, RemoveRole, DeleteFind, Decrement,
       DecrementFails, CheckThen
  <2>3. QED  BY <2>1, <2>2
<1>4. QED  BY <1>1, <1>2, <1>3, UnreadQuiet DEF UnreadInv, ReceiptInv

(* A batch gets its receipts, and the counter is about to be reset.        *)
LEMMA UnreadInsert ==
  ASSUME ConstantsAssumption, TypeOK, UnreadInv, NEW r \in Requests, ReadInsert(r)
  PROVE  UnreadInv'
<1> USE DEF rowVars
<1>1. PICK u :
      /\ u = req[r].user
      /\ reads' = reads \cup {<<m, u>> : m \in req[r].found}
      /\ UNCHANGED <<status, sender, unread, astray>>
      /\ req[r].pc = "read_insert"
      /\ \A q \in Requests : q # r => req'[q] = req[q]
  BY DEF ReadInsert, Goto, At, TypeOK
<1>2. req'[r].pc = "read_reset" /\ req'[r].user = u /\ req'[r].found = req[r].found
  BY <1>1 DEF ReadInsert, Goto, TypeOK, Request
<1>3. ReceiptInv'
  BY <1>1, <1>2 DEF UnreadInv, ReceiptInv
<1>4. \A v, n : n \in HalfRead(v) => n \in HalfRead(v)'
  BY <1>1, HalfReadSlots, HalfReadSlotsNext DEF At
<1>5. \A n \in req[r].found : n \in HalfRead(u)'
  BY <1>2, HalfReadSlotsNext
<1>6. ASSUME NEW v \in Users PROVE unread'[v] <= Cardinality(Uncounted(v)')
  <2>1. \A n \in Messages : <<n, v>> \in reads' =>
           <<n, v>> \in reads \/ n \in HalfRead(v)' \/ n \in astray'[v]
    BY <1>1, <1>5
  <2>2. QED  BY <1>1, <1>3, <1>4, <2>1, UnreadKept DEF UnreadInv
<1>7. QED  BY <1>3, <1>6 DEF UnreadInv, UnreadBacked

(* The counter is reset, or the reset fails and its receipts are astray.   *)
LEMMA UnreadReset ==
  ASSUME ConstantsAssumption, TypeOK, UnreadInv, NEW r \in Requests,
         ReadReset(r) \/ ReadResetFails(r)
  PROVE  UnreadInv'
<1> USE DEF rowVars
<1> DEFINE u == req[r].user
<1>1. /\ UNCHANGED <<status, sender, reads>>
      /\ req'[r].found = {} /\ \A q \in Requests : q # r => req'[q] = req[q]
  BY DEF ReadReset, ReadResetFails, Finish, Blank, TypeOK
<1>2. \A v : v # u => \A n : n \in HalfRead(v) => n \in HalfRead(v)'
  BY <1>1, HalfReadSlots, HalfReadSlotsNext DEF At
<1>3. ReceiptInv'
  BY <1>1 DEF UnreadInv, ReceiptInv
<1>4. CASE ReadReset(r)
  <2>1. unread' = [unread EXCEPT ![u] = 0] /\ astray' = [astray EXCEPT ![u] = {}]
    BY <1>4 DEF ReadReset, Reset
  <2> HIDE DEF u
  <2>2. ASSUME NEW v \in Users PROVE unread'[v] <= Cardinality(Uncounted(v)')
    <3>1. CASE v = u
      <4>1. Uncounted(v)' \subseteq Messages
        BY DEF Uncounted
      <4>2. Cardinality(Uncounted(v)') \in Nat
        BY <4>1, FS_Subset, FS_CardinalityType DEF ConstantsAssumption
      <4>3. unread'[v] = 0
        BY <2>1, <3>1 DEF TypeOK
      <4>4. QED  BY <4>2, <4>3
    <3>2. CASE v # u
      <4>1. unread'[v] = unread[v] /\ astray'[v] = astray[v]
        BY <2>1, <3>2 DEF TypeOK
      <4>2. QED  BY <1>1, <1>2, <1>3, <3>2, <4>1, UnreadKept DEF UnreadInv
    <3>3. QED  BY <3>1, <3>2
  <2>3. QED  BY <1>3, <2>2 DEF UnreadInv, UnreadBacked
<1>5. CASE ReadResetFails(r)
  <2>1. unread' = unread /\ astray' = [astray EXCEPT ![u] = @ \cup req[r].found]
    BY <1>5 DEF ReadResetFails
  <2>2. ASSUME NEW v \in Users, NEW n, n \in HalfRead(v) \cup astray[v]
        PROVE  n \in HalfRead(v)' \/ n \in astray'[v]
    <3>1. n \in astray[v] => n \in astray'[v]
      BY <2>1 DEF TypeOK
    <3>2. ASSUME n \in HalfRead(v) PROVE n \in HalfRead(v)' \/ n \in astray'[v]
      <4>1. PICK q \in Requests :
               req[q].pc = "read_reset" /\ req[q].user = v /\ n \in req[q].found
        BY <3>2, HalfReadSlots DEF At
      <4>2. CASE q = r
        BY <2>1, <4>1, <4>2 DEF TypeOK
      <4>3. CASE q # r
        BY <1>1, <4>1, <4>3, HalfReadSlotsNext
      <4>4. QED  BY <4>2, <4>3
    <3>3. QED  BY <2>2, <3>1, <3>2
  <2>3. ASSUME NEW v \in Users PROVE unread'[v] <= Cardinality(Uncounted(v)')
    BY <1>1, <1>3, <2>1, <2>2, UnreadKept DEF UnreadInv
  <2>4. QED  BY <1>3, <2>3 DEF UnreadInv, UnreadBacked
<1>6. QED  BY <1>4, <1>5

(* A crash, after which the receipts of those who were marking are astray. *)
LEMMA UnreadCrash ==
  ASSUME ConstantsAssumption, TypeOK, UnreadInv, Crash
  PROVE  UnreadInv'
<1> USE DEF rowVars
<1>1. /\ UNCHANGED <<status, sender, reads, unread>>
      /\ \A r \in Requests : req'[r].found = {}
      /\ \A u \in Users : astray'[u] = astray[u] \cup HalfRead(u)
  BY DEF Crash, Blank, TypeOK
<1>2. ReceiptInv'
  BY <1>1 DEF UnreadInv, ReceiptInv
<1>3. ASSUME NEW u \in Users PROVE unread'[u] <= Cardinality(Uncounted(u)')
  BY <1>1, <1>2, UnreadKept DEF UnreadInv
<1>4. QED  BY <1>2, <1>3 DEF UnreadInv, UnreadBacked

(* Whatever happens, the counters stay backed.                             *)
LEMMA UnreadNext ==
  ASSUME ConstantsAssumption, TypeOK, ThreadInv, UnreadInv, [Next]_vars
  PROVE  UnreadInv'
<1>1. ASSUME UNCHANGED <<status, sender, reads, unread, astray, req>> PROVE UnreadInv'
  <2>1. \A u \in Users : Uncounted(u)' = Uncounted(u)
    BY <1>1 DEF Uncounted, HalfRead, At
  <2>2. QED  BY <1>1, <2>1 DEF UnreadInv, ReceiptInv, UnreadBacked
<1>2. ASSUME NEW r \in Requests, Continue(r) PROVE UnreadInv'
  BY <1>2, UnreadCreate, UnreadMoves, UnreadInsert, UnreadReset DEF Continue
<1>3. ASSUME NEW u, ComeOrGo(u) \/ ChangeRole(u) PROVE UnreadInv'
  BY <1>1, <1>3 DEF ComeOrGo, ChangeRole, rowVars, readVars
<1>4. CASE UNCHANGED vars
  BY <1>1, <1>4 DEF vars
<1>5. QED  BY <1>2, <1>3, <1>4, UnreadArrive, UnreadCrash DEF Next

(* A user's counter never exceeds the messages of others they have no      *)
(* receipt for and those whose receipt no reset has followed (create       *)
(* increments it in the transaction of the message; the receipts and the   *)
(* reset of whichever room the request names are calls of their own, and   *)
(* the second may fail, or die with the server).                           *)
THEOREM UnreadIsBacked == Spec => []UnreadBacked
<1>1. Init => TypeOK /\ ThreadInv /\ UnreadInv
  <2> SUFFICES ASSUME Init PROVE UnreadInv
    BY TypeInit, ThreadInit
  <2>1. ReceiptInv
    BY DEF Init, ReceiptInv, Blank
  <2>2. UnreadBacked
    BY UncountedFinite, ConstantsAssumption DEF Init, UnreadBacked
  <2>3. QED  BY <2>1, <2>2 DEF UnreadInv
<1>2. TypeOK /\ (ThreadInv /\ UnreadInv) /\ [Next]_vars => (ThreadInv /\ UnreadInv)'
  BY ThreadNext, UnreadNext, ConstantsAssumption
<1>3. UnreadInv => UnreadBacked
  BY DEF UnreadInv
<1>4. QED  BY <1>1, <1>2, <1>3, TypeCorrect, PTL DEF Spec

-----------------------------------------------------------------------------
(* Who deletes.  The sender and the role are read in other calls than the  *)
(* one that writes, so the invariant says what stays true of a slot: the   *)
(* argument isAdmin was given to someone who has or had a role, and a slot *)
(* about to write has its sender or such a user.                           *)
Entitled(r) ==
  /\ req[r].admin => req[r].user \in Admins
  /\ At(r, "delete_write") =>
       sender[req[r].message] = req[r].user \/ req[r].user \in Admins

RightInv == admins \subseteq Admins /\ \A r \in Requests : Entitled(r)

(* Locals l a slot may go to.                                              *)
MayHold(l) ==
  /\ l.admin => l.user \in Admins
  /\ l.pc = "delete_write" => sender[l.message] = l.user \/ l.user \in Admins

(* A step that moves one slot to such locals, and gives no existing        *)
(* message another sender, keeps the invariant.                            *)
LEMMA RightMove ==
  ASSUME TypeOK, ThreadInv, RightInv, NEW r \in Requests, NEW l, MayHold(l),
         req' = [req EXCEPT ![r] = l], admins' = admins,
         sender' = sender \/ l.pc # "delete_write",
         \A m \in Messages : status[m] # "none" => sender'[m] = sender[m]
  PROVE  RightInv'
<1>1. ASSUME NEW q \in Requests PROVE Entitled(q)'
  <2>1. CASE q = r
    <3>1. req'[q] = l
      BY <2>1 DEF TypeOK
    <3>2. QED  BY <3>1 DEF Entitled, At, MayHold
  <2>2. CASE q # r
    <3>1. req'[q] = req[q]
      BY <2>2 DEF TypeOK
    <3>2. At(q, "delete_write") =>
            req[q].message \in Messages /\ status[req[q].message] # "none"
      BY DEF ThreadInv, SlotInv, Deleting, At
    <3>3. QED  BY <3>1, <3>2 DEF RightInv, Entitled, At
  <2>3. QED  BY <2>1, <2>2
<1>2. QED  BY <1>1 DEF RightInv

(* A handler starts without isAdmin, and a delete over the socket as the   *)
(* message's sender.                                                       *)
LEMMA RightArrive ==
  ASSUME TypeOK, ThreadInv, RightInv, NEW r \in Requests, Arrive(r)
  PROVE  RightInv'
<1> USE DEF members, rowVars
<1>1. ASSUME NEW l, Begin(r, l), UNCHANGED <<admins, sender>>, MayHold(l)
      PROVE  RightInv'
  <2>1. req' = [req EXCEPT ![r] = l]
    BY <1>1 DEF Begin
  <2>2. QED  BY <1>1, <2>1, RightMove
<1>2. ASSUME NEW u \in Posters, NEW p \in Messages \cup {NoMessage}, Create(r, u, p)
      PROVE  RightInv'
  <2> DEFINE l == [Blank EXCEPT !.user = u, !.message = p,
                     !.pc = IF p = NoMessage THEN "create_write" ELSE "create_parent"]
  <2>1. MayHold(l)
    BY DEF MayHold, Blank
  <2>2. Begin(r, l) /\ UNCHANGED <<admins, sender>>
    BY <1>2 DEF Create
  <2> HIDE DEF l
  <2>3. QED  BY <1>1, <2>1, <2>2
<1>3. ASSUME NEW u \in Deleters, NEW m \in Messages, Remove(r, u, m)
      PROVE  RightInv'
  <2> DEFINE l == [Blank EXCEPT !.pc = "remove_member", !.user = u, !.message = m]
  <2>1. MayHold(l)
    BY DEF MayHold, Blank
  <2>2. Begin(r, l) /\ UNCHANGED <<admins, sender>>
    BY <1>3 DEF Remove
  <2> HIDE DEF l
  <2>3. QED  BY <1>1, <2>1, <2>2
<1>4. ASSUME NEW u \in Deleters, NEW m \in Messages, DeleteFromSocket(r, u, m)
      PROVE  RightInv'
  <2> DEFINE l == [Blank EXCEPT !.pc = "delete_write", !.user = u, !.message = m]
  <2>1. sender[m] = u
    BY <1>4 DEF DeleteFromSocket, MayDelete
  <2>2. MayHold(l)
    BY <2>1 DEF MayHold, Blank
  <2>3. Begin(r, l) /\ UNCHANGED <<admins, sender>>
    BY <1>4 DEF DeleteFromSocket
  <2> HIDE DEF l
  <2>4. QED  BY <1>1, <2>2, <2>3
<1>5. ASSUME NEW u \in Readers,
             \/ \E m \in Messages : MarkAsRead(r, u, m)
             \/ MarkMemberAsRead(r, u)
             \/ MarkOtherAsRead(r, u)
      PROVE  RightInv'
  <2>1. /\ MayHold([Blank EXCEPT !.pc = "read_reset", !.user = u])
        /\ \A f : MayHold([Blank EXCEPT !.pc = "read_reset", !.user = u, !.found = f])
    BY DEF MayHold, Blank
  <2>2. UNCHANGED <<admins, sender>>
    BY <1>5 DEF MarkAsRead, MarkMemberAsRead, MarkOtherAsRead
  <2>3. QED  BY <1>1, <1>5, <2>1, <2>2, Zenon DEF MarkAsRead, MarkMemberAsRead, MarkOtherAsRead
<1>6. ASSUME NEW u \in Readers, NEW batch \in SUBSET UnreadBy(u), MarkRoomAsRead(r, u, batch)
      PROVE  RightInv'
  <2> DEFINE l == [Blank EXCEPT !.user = u, !.found = batch,
                     !.pc = IF batch = {} THEN "read_reset" ELSE "read_insert"]
  <2>1. MayHold(l)
    BY DEF MayHold, Blank
  <2>2. Begin(r, l) /\ UNCHANGED <<admins, sender>>
    BY <1>6 DEF MarkRoomAsRead
  <2> HIDE DEF l
  <2>3. QED  BY <1>1, <2>1, <2>2
<1>7. ASSUME NEW u \in Readers, NEW m \in Messages, MarkAsReadElsewhere(r, u, m)
      PROVE  RightInv'
  BY <1>7 DEF MarkAsReadElsewhere, RightInv, Entitled, At
<1>8. QED  BY <1>2, <1>3, <1>4, <1>5, <1>6, <1>7 DEF Arrive

(* Its later steps set isAdmin only for someone who has a role now, and    *)
(* reach the write only past softDelete's check.                           *)
LEMMA RightContinue ==
  ASSUME TypeOK, ThreadInv, RightInv, NEW r \in Requests, Continue(r)
  PROVE  RightInv'
<1> USE DEF members, rowVars
<1>0. req[r] \in Request /\ Entitled(r) /\ admins \subseteq Admins
  BY DEF TypeOK, RightInv
<1>1. ASSUME Finish(r), admins' = admins,
             \A m \in Messages : status[m] # "none" => sender'[m] = sender[m]
      PROVE  RightInv'
  <2>1. MayHold(Blank) /\ Blank.pc # "delete_write"
    BY DEF MayHold, Blank
  <2>2. QED  BY <1>1, <2>1, RightMove DEF Finish
<1>2. ASSUME NEW step, Goto(r, step), UNCHANGED <<admins, sender>>,
             step = "delete_write" =>
               sender[req[r].message] = req[r].user \/ req[r].user \in Admins
      PROVE  RightInv'
  <2> DEFINE l == [req[r] EXCEPT !.pc = step]
  <2>1. /\ l.pc = step /\ l.user = req[r].user
        /\ l.message = req[r].message /\ l.admin = req[r].admin
    BY <1>0 DEF Request
  <2>2. req' = [req EXCEPT ![r] = l]
    BY <1>2 DEF Goto
  <2> HIDE DEF l
  <2>3. MayHold(l)
    BY <1>0, <1>2, <2>1 DEF MayHold, Entitled
  <2>4. QED  BY <1>2, <2>2, <2>3, RightMove
<1>3. ASSUME NEW check, NEW step, CheckThen(r, check, step),
             check /\ step = "delete_write" =>
               sender[req[r].message] = req[r].user \/ req[r].user \in Admins
      PROVE  RightInv'
  BY <1>1, <1>2, <1>3 DEF CheckThen
<1>4. CASE CreateParent(r) \/ RemoveMember(r)
  <2>1. PICK check, step : CheckThen(r, check, step) /\ step # "delete_write"
    BY <1>4 DEF CreateParent, RemoveMember
  <2>2. QED  BY <1>3, <2>1
<1>5. CASE DeleteFind(r)
  <2>1. CheckThen(r, MayDelete(req[r].user, req[r].message, req[r].admin), "delete_write")
    BY <1>5 DEF DeleteFind
  <2>2. MayDelete(req[r].user, req[r].message, req[r].admin) =>
          sender[req[r].message] = req[r].user \/ req[r].user \in Admins
    BY <1>0 DEF MayDelete, Entitled
  <2>3. QED  BY <1>3, <2>1, <2>2
<1>6. CASE RemoveRole(r)
  <2>1. CASE ~RoleAboveMember(req[r].user)
    BY <1>1, <1>6, <2>1 DEF RemoveRole, Finish
  <2>2. CASE RoleAboveMember(req[r].user)
    <3> DEFINE l == [req[r] EXCEPT !.pc = "delete_find", !.admin = TRUE]
    <3>1. l.pc = "delete_find" /\ l.user = req[r].user
      BY <1>0 DEF Request
    <3>2. req' = [req EXCEPT ![r] = l] /\ UNCHANGED <<admins, sender>>
      BY <1>6, <2>2 DEF RemoveRole
    <3>3. req[r].user \in Admins
      BY <1>0, <2>2 DEF RoleAboveMember
    <3> HIDE DEF l
    <3>4. MayHold(l)
      BY <3>1, <3>3 DEF MayHold
    <3>5. QED  BY <3>2, <3>4, RightMove
  <2>3. QED  BY <2>1, <2>2
<1>7. ASSUME NEW m \in Messages, CreateWrite(r, m) PROVE RightInv'
  <2>1. \A n \in Messages : status[n] # "none" => sender'[n] = sender[n]
    BY <1>7 DEF CreateWrite, TypeOK
  <2>2. QED  BY <1>1, <1>7, <2>1 DEF CreateWrite
<1>8. CASE DeleteWrite(r)
  <2>1. Finish(r) \/ Goto(r, "decrement")
    BY <1>8 DEF DeleteWrite
  <2>2. UNCHANGED <<admins, sender>>
    BY <1>8 DEF DeleteWrite
  <2>3. QED  BY <1>1, <1>2, <2>1, <2>2
<1>9. CASE Decrement(r) \/ DecrementFails(r) \/ ReadReset(r) \/ ReadResetFails(r)
  BY <1>1, <1>9 DEF Decrement, DecrementFails, ReadReset, ReadResetFails
<1>10. CASE ReadInsert(r)
  <2> DEFINE l == [req[r] EXCEPT !.pc = "read_reset"]
  <2>1. l.pc = "read_reset" /\ l.user = req[r].user /\ l.admin = req[r].admin
    BY <1>0 DEF Request
  <2>2. req' = [req EXCEPT ![r] = l] /\ UNCHANGED <<admins, sender>>
    BY <1>10 DEF ReadInsert, Goto
  <2> HIDE DEF l
  <2>3. MayHold(l)
    BY <1>0, <2>1 DEF MayHold, Entitled
  <2>4. QED  BY <2>2, <2>3, RightMove
<1>11. QED
  BY <1>4, <1>5, <1>6, <1>7, <1>8, <1>9, <1>10 DEF Continue

(* Every step keeps the right to delete.                                   *)
LEMMA RightNext ==
  TypeOK /\ ThreadInv /\ RightInv /\ [Next]_vars => RightInv'
<1> SUFFICES ASSUME TypeOK, ThreadInv, RightInv, [Next]_vars PROVE RightInv'
  OBVIOUS
<1>1. ASSUME UNCHANGED <<sender, req>>, admins' \subseteq Admins PROVE RightInv'
  BY <1>1 DEF RightInv, Entitled, At
<1>2. ASSUME NEW u \in Leavers, ComeOrGo(u) PROVE RightInv'
  BY <1>1, <1>2 DEF ComeOrGo, RightInv, rowVars
<1>3. ASSUME NEW u \in Admins, ChangeRole(u) PROVE RightInv'
  BY <1>1, <1>3 DEF ChangeRole, RightInv, rowVars
<1>4. CASE Crash
  <2>1. /\ \A q \in Requests : req'[q] = Blank
        /\ admins' = admins
    BY <1>4 DEF Crash, members
  <2>2. QED  BY <2>1 DEF RightInv, Entitled, At, Blank
<1>5. CASE UNCHANGED vars
  BY <1>1, <1>5 DEF vars, RightInv
<1>6. QED  BY <1>2, <1>3, <1>4, <1>5, RightArrive, RightContinue DEF Next

(* The step that deletes a message.                                        *)
RightDelete ==
  \A m \in Messages : status[m] = "live" /\ status'[m] = "deleted" =>
    \E r \in Requests : /\ req'[r] # req[r] /\ req[r].message = m
                        /\ req[r].user = sender[m] \/ req[r].user \in Admins

(* However roles change between the calls of a delete, a message is        *)
(* deleted by its sender or by one who has or had a role above member.     *)
THEOREM RightUsersDelete == Spec => DeletedByRightUser
<1>1. RightInv /\ TypeOK /\ [Next]_vars => [RightDelete]_vars
  <2> SUFFICES ASSUME RightInv, TypeOK, [Next]_vars,
                      NEW m \in Messages, status[m] = "live", status'[m] = "deleted"
               PROVE  \E r \in Requests :
                        /\ req'[r] # req[r] /\ req[r].message = m
                        /\ req[r].user = sender[m] \/ req[r].user \in Admins
    BY DEF RightDelete
  <2>1. \E r \in Requests : DeleteWrite(r)
    <3>1. ASSUME NEW r \in Requests, Arrive(r) PROVE FALSE
      BY <3>1 DEF Arrive, Create, Remove, DeleteFromSocket, MarkAsRead, MarkRoomAsRead,
                  MarkMemberAsRead, MarkAsReadElsewhere, MarkOtherAsRead, rowVars
    <3>2. ASSUME NEW r \in Requests, NEW check, NEW step, CheckThen(r, check, step)
          PROVE  FALSE
      BY <3>2 DEF CheckThen, rowVars
    <3>3. ASSUME NEW r \in Requests, NEW n \in Messages, CreateWrite(r, n) PROVE FALSE
      BY <3>3 DEF CreateWrite, TypeOK
    <3>4. ASSUME NEW r \in Requests, Continue(r) PROVE DeleteWrite(r)
      BY <3>2, <3>3, <3>4 DEF Continue, CreateParent, RemoveMember, RemoveRole, DeleteFind,
                  Decrement, DecrementFails, ReadInsert, ReadReset, ReadResetFails, rowVars
    <3>5. UNCHANGED status => FALSE
      OBVIOUS
    <3>6. QED
      BY <3>1, <3>4, <3>5 DEF Next, ComeOrGo, ChangeRole, Crash, vars, rowVars
  <2>2. PICK r \in Requests : DeleteWrite(r)
    BY <2>1
  <2>3. req[r].message = m
    BY <2>2 DEF DeleteWrite, TypeOK
  <2>4. req'[r] # req[r]
    BY <2>2 DEF DeleteWrite, At, Goto, Finish, Blank, TypeOK, Request
  <2>5. req[r].user = sender[m] \/ req[r].user \in Admins
    BY <2>2, <2>3 DEF DeleteWrite, RightInv, Entitled
  <2>6. QED  BY <2>3, <2>4, <2>5
<1>2. Init => RightInv
  BY DEF Init, RightInv, Entitled, At, Blank
<1>3. TypeOK /\ ThreadInv /\ RightInv /\ [Next]_vars => RightInv'
  BY RightNext
<1>4. Init => ThreadInv
  BY ThreadInit
<1>5. TypeOK /\ ThreadInv /\ [Next]_vars => ThreadInv'
  BY ThreadNext, ConstantsAssumption
<1>6. QED
  BY <1>1, <1>2, <1>3, <1>4, <1>5, TypeCorrect, PTL DEF Spec, DeletedByRightUser, RightDelete
=============================================================================
