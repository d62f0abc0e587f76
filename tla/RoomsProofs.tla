---------------------------- MODULE RoomsProofs ----------------------------
(***************************************************************************)
(* The rooms of RoomsService: the search index follows the groups, for any *)
(* number of groups, names, requests and writes that are late or lost; and *)
(* a pair of users has no more open direct messages than requests.         *)
(*                                                                         *)
(* update and archive tell the index before they write the row, create     *)
(* after.  While one request is on a group, what the index is on its way   *)
(* to be follows from the row and from how far the request is: Target.     *)
(* With two of them it does not, and the group is muddled.                 *)
(***************************************************************************)
EXTENDS Rooms, DirectMessages, FiniteSetTheorems, TLAPS

RoomIndexProof == INSTANCE SearchIndexProofs
  WITH Docs <- GroupRooms, Texts <- Names, NoText <- NoName,
       Enabled <- RoomIndexEnabled, MaxLosses <- MaxRoomLosses

RoomsSpec == RoomsInit /\ [][RoomsNext]_roomVars

-----------------------------------------------------------------------------
(* Rows and requests: a request is on a group that exists.                 *)
OffRooms == {"idle", "insert"}
Naming == {"insert", "created", "update_emit", "update_write"}

RoomRequestOK(q) ==
  /\ q \in RoomRequest
  /\ IF q.pc \in OffRooms THEN q.room = NoRoom
     ELSE q.room \in GroupRooms /\ name[q.room] # NoName
  /\ q.pc \in Naming => q.name \in Names
  /\ q.pc = "created" /\ q.room \notin muddled =>
       name[q.room] = q.name /\ q.room \notin archived

RoomRowsInv ==
  /\ name \in [GroupRooms -> Names \cup {NoName}]
  /\ archived \in SUBSET {g \in GroupRooms : name[g] # NoName}
  /\ muddled \in SUBSET GroupRooms
  /\ roomReq \in [RoomRequests -> RoomRequest]
  /\ \A r \in RoomRequests : RoomRequestOK(roomReq[r])
  /\ \A r, s \in RoomRequests :
       roomReq[r].room = roomReq[s].room /\ roomReq[r].room \in GroupRooms \ muddled => r = s

(* The document that the index is to have of g, where q is the request on  *)
(* it, or an idle one.                                                     *)
Target(g, q) ==
  [whole |-> name[g] # NoName /\ q.pc # "created",
   text |-> IF q.pc = "created" THEN NoName
            ELSE IF q.pc = "update_write" THEN q.name ELSE name[g],
   flag |-> IF g \in archived \/ q.pc = "archive_write" THEN "hidden" ELSE "shown"]

Follows(g) ==
  /\ \A r \in OnRoom(g) : RoomIndexProof!Tracks(g, Target(g, roomReq[r]))
  /\ OnRoom(g) = {} => RoomIndexProof!Tracks(g, Target(g, NoRoomRequest))

RoomsInv ==
  /\ RoomRowsInv
  /\ RoomIndexProof!IndexInv
  /\ RoomIndexEnabled => \A g \in GroupRooms \ muddled : Follows(g)

(* The two instances of SearchIndex are one.                               *)
LEMMA SameRoomIndex ==
  /\ RoomIndex!InitIndex = RoomIndexProof!InitIndex
  /\ RoomIndex!IndexNext = RoomIndexProof!IndexNext
  /\ RoomIndex!IndexTypeOK = RoomIndexProof!IndexTypeOK
  /\ \A d, whole, text, flag :
       RoomIndex!Send(d, whole, text, flag) = RoomIndexProof!Send(d, whole, text, flag)
  /\ \A d : /\ RoomIndex!Settled(d) = RoomIndexProof!Settled(d)
            /\ RoomIndex!Found(d) = RoomIndexProof!Found(d)
<1>1. RoomIndex!InitIndex = RoomIndexProof!InitIndex
  BY DEF RoomIndex!InitIndex, RoomIndexProof!InitIndex, RoomIndex!Absent,
         RoomIndexProof!Absent, RoomIndex!NoReindex, RoomIndexProof!NoReindex
<1>2. /\ \A w : /\ RoomIndex!Deliver(w) = RoomIndexProof!Deliver(w)
                /\ RoomIndex!Lose(w) = RoomIndexProof!Lose(w)
      /\ \A d : RoomIndex!ReindexDocument(d) = RoomIndexProof!ReindexDocument(d)
      /\ RoomIndex!AbortReindex = RoomIndexProof!AbortReindex
  BY DEF RoomIndex!Deliver, RoomIndexProof!Deliver, RoomIndex!Merge, RoomIndexProof!Merge,
         RoomIndex!Keep, RoomIndexProof!Keep, RoomIndex!Lose, RoomIndexProof!Lose,
         RoomIndex!ReindexDocument, RoomIndexProof!ReindexDocument,
         RoomIndex!StillCurrent, RoomIndexProof!StillCurrent, RoomIndex!Overtaken,
         RoomIndexProof!Overtaken, RoomIndex!NoReindex, RoomIndexProof!NoReindex,
         RoomIndex!AbortReindex, RoomIndexProof!AbortReindex
<1>3. RoomIndex!IndexNext = RoomIndexProof!IndexNext
  BY <1>2 DEF RoomIndex!IndexNext, RoomIndexProof!IndexNext
<1>4. RoomIndex!IndexTypeOK = RoomIndexProof!IndexTypeOK
  BY DEF RoomIndex!IndexTypeOK, RoomIndexProof!IndexTypeOK, RoomIndex!Document,
         RoomIndexProof!Document, RoomIndex!Write, RoomIndexProof!Write,
         RoomIndex!Snapshot, RoomIndexProof!Snapshot, RoomIndex!Flag, RoomIndexProof!Flag,
         RoomIndex!Keep, RoomIndexProof!Keep
<1>5. \A d, whole, text, flag :
        RoomIndex!Send(d, whole, text, flag) = RoomIndexProof!Send(d, whole, text, flag)
  BY DEF RoomIndex!Send, RoomIndexProof!Send
<1>6. \A d : /\ RoomIndex!Settled(d) = RoomIndexProof!Settled(d)
             /\ RoomIndex!Found(d) = RoomIndexProof!Found(d)
  BY DEF RoomIndex!Settled, RoomIndexProof!Settled, RoomIndex!Found, RoomIndexProof!Found
<1> QED
  BY <1>1, <1>3, <1>4, <1>5, <1>6

-----------------------------------------------------------------------------
(* One request moves.  The others are as they were if the groups they are  *)
(* on are, or are muddled now.                                             *)
LEMMA RoomRowsMove ==
  ASSUME RoomRowsInv, NEW r \in RoomRequests, NEW q,
         roomReq' = [roomReq EXCEPT ![r] = q], RoomRequestOK(q)',
         name' \in [GroupRooms -> Names \cup {NoName}],
         archived' \in SUBSET {g \in GroupRooms : name'[g] # NoName},
         muddled' \in SUBSET GroupRooms, muddled \subseteq muddled',
         \A g \in GroupRooms : name[g] # NoName => name'[g] # NoName,
         \A g \in GroupRooms \ muddled', s \in RoomRequests \ {r} :
           roomReq[s].room = g => /\ name'[g] = name[g] /\ (g \in archived' => g \in archived)
                                  /\ q.room # g
  PROVE  RoomRowsInv'
<1>1. q \in RoomRequest
  BY DEF RoomRequestOK
<1>2. roomReq' \in [RoomRequests -> RoomRequest]
  BY <1>1 DEF RoomRowsInv
<1>3. \A s \in RoomRequests : roomReq'[s] = IF s = r THEN q ELSE roomReq[s]
  BY DEF RoomRowsInv
<1>4. ASSUME NEW s \in RoomRequests \ {r} PROVE RoomRequestOK(roomReq[s])'
  <2>1. PICK p : p = roomReq[s] /\ p = roomReq'[s]
    BY <1>3, <1>4
  <2>2. RoomRequestOK(p) /\ p \in RoomRequest
    BY <1>4, <2>1 DEF RoomRowsInv
  <2>3. p.pc \notin OffRooms => p.room \in GroupRooms /\ name'[p.room] # NoName
    BY <2>2 DEF RoomRequestOK
  <2>4. p.pc = "created" /\ p.room \notin muddled' =>
          name'[p.room] = p.name /\ p.room \notin archived'
    BY <1>4, <2>1, <2>2, <2>3 DEF RoomRequestOK, OffRooms
  <2>5. RoomRequestOK(p)'
    BY <2>2, <2>3, <2>4 DEF RoomRequestOK
  <2> QED BY <2>1, <2>5
<1>5. \A s \in RoomRequests : RoomRequestOK(roomReq[s])'
  BY <1>3, <1>4
<1>6. \A s, u \in RoomRequests :
        roomReq'[s].room = roomReq'[u].room /\ roomReq'[s].room \in GroupRooms \ muddled'
          => s = u
  BY <1>3 DEF RoomRowsInv
<1> QED
  BY <1>2, <1>5, <1>6 DEF RoomRowsInv

(* The index is on its way to what it is to have of g, where q is a        *)
(* request on g or on no group; and nothing is new of the other groups.    *)
IsTracked(g, q) ==
  RoomIndexProof!Tracks(g, Target(g, IF q.room = g THEN q ELSE NoRoomRequest))
OthersKept(g) ==
  \A h \in GroupRooms \ {g} :
    /\ name'[h] = name[h] /\ (h \in archived' <=> h \in archived)
    /\ RoomIndexEnabled =>
         \A t : RoomIndexProof!Tracks(h, t) => RoomIndexProof!Tracks(h, t)'

(* The request r goes from g, or to g, or stays on it: if the index then   *)
(* is on its way to what it is to have of g, and the other groups are left *)
(* alone, the invariant holds on.                                          *)
LEMMA RequestFollows ==
  ASSUME RoomsInv, RoomRowsInv', RoomIndexProof!IndexInv', muddled \subseteq muddled',
         NEW r \in RoomRequests, NEW q, roomReq' = [roomReq EXCEPT ![r] = q],
         NEW g, roomReq[r].room = g \/ roomReq[r].room = NoRoom,
         q.room = g \/ q.room = NoRoom,
         OthersKept(g),
         RoomIndexEnabled /\ g \in GroupRooms \ muddled' =>
           /\ roomReq[r].room = g \/ OnRoom(g) = {}
           /\ IsTracked(g, roomReq[r]) => IsTracked(g, q)'
  PROVE  RoomsInv'
<1> USE RoomsAssumption
<1>1. \A s \in RoomRequests : roomReq'[s] = IF s = r THEN q ELSE roomReq[s]
  BY DEF RoomsInv, RoomRowsInv
<1>2. ASSUME RoomIndexEnabled, NEW h \in GroupRooms \ muddled', h # g PROVE Follows(h)'
  <2>1. OnRoom(h)' = OnRoom(h) /\ \A s \in OnRoom(h) : roomReq'[s] = roomReq[s]
    BY <1>1, <1>2 DEF OnRoom
  <2>2. \A p : Target(h, p)' = Target(h, p)
    BY <1>2 DEF Target, OthersKept
  <2>3. Follows(h)
    BY <1>2 DEF RoomsInv
  <2>4. ASSUME NEW p, RoomIndexProof!Tracks(h, Target(h, p))
        PROVE  RoomIndexProof!Tracks(h, Target(h, p))'
    <3>1. PICK t : t = Target(h, p) /\ t = Target(h, p)'
      BY <2>2
    <3> QED BY <1>2, <2>4, <3>1 DEF OthersKept
  <2>5. ASSUME NEW s \in OnRoom(h)' PROVE RoomIndexProof!Tracks(h, Target(h, roomReq[s]))'
    <3>1. PICK p : p = roomReq[s] /\ p = roomReq'[s]
      BY <2>1, <2>5
    <3> QED BY <2>1, <2>3, <2>4, <2>5, <3>1 DEF Follows
  <2>6. NoRoomRequest' = NoRoomRequest
    BY DEF NoRoomRequest
  <2>7. OnRoom(h)' = {} => RoomIndexProof!Tracks(h, Target(h, NoRoomRequest))'
    BY <2>1, <2>3, <2>4, <2>6 DEF Follows
  <2> QED BY <2>5, <2>7 DEF Follows
<1>3. ASSUME RoomIndexEnabled, g \in GroupRooms \ muddled' PROVE Follows(g)'
  <2>2. Follows(g)
    BY <1>3 DEF RoomsInv
  <2>3. IsTracked(g, roomReq[r])
    BY <1>3, <2>2 DEF Follows, OnRoom, IsTracked
  <2>4. IsTracked(g, q)'
    BY <1>3, <2>3
  <2>5. \A s \in RoomRequests \ {r} : roomReq'[s].room # g
    BY <1>1, <1>3 DEF OnRoom, RoomsInv, RoomRowsInv
  <2>6. CASE q.room = g
    <3>1. OnRoom(g)' = {r} /\ roomReq'[r] = q
      BY <1>1, <2>5, <2>6 DEF OnRoom
    <3> QED BY <2>4, <2>6, <3>1 DEF Follows, IsTracked
  <2>7. CASE q.room # g
    <3>1. OnRoom(g)' = {}
      BY <1>1, <2>5, <2>7 DEF OnRoom
    <3> QED BY <2>4, <2>7, <3>1 DEF Follows, IsTracked
  <2> QED BY <2>6, <2>7
<1> QED
  BY <1>2, <1>3 DEF RoomsInv

(* A step that leaves the index alone leaves it on its way.                *)
LEMMA IndexStays ==
  ASSUME RoomIndexProof!IndexInv, UNCHANGED roomIndexVars
  PROVE  /\ RoomIndexProof!IndexInv'
         /\ \A g \in GroupRooms : \A t :
              RoomIndexProof!Tracks(g, t) => RoomIndexProof!Tracks(g, t)'
<1>1. RoomIndexProof!IndexInv'
  BY DEF roomIndexVars, RoomIndexProof!IndexInv, RoomIndexProof!IndexTypeOK,
         RoomIndexProof!Numbered
<1>2. ASSUME NEW g \in GroupRooms, NEW t, RoomIndexProof!Tracks(g, t)
      PROVE  RoomIndexProof!Tracks(g, t)'
  <2>1. RoomIndexProof!Pending(g)' = RoomIndexProof!Pending(g)
    BY DEF roomIndexVars, RoomIndexProof!Pending
  <2> QED BY <1>2, <2>1, RoomIndexProof!TracksElsewhere DEF roomIndexVars
<1> QED
  BY <1>1, <1>2

(* The step of a request that sends nothing.                               *)
LEMMA QuietFollows ==
  ASSUME RoomsInv, UNCHANGED roomIndexVars, muddled \subseteq muddled',
         NEW r \in RoomRequests, NEW q, roomReq' = [roomReq EXCEPT ![r] = q],
         RoomRequestOK(q)',
         name' \in [GroupRooms -> Names \cup {NoName}],
         archived' \in SUBSET {g \in GroupRooms : name'[g] # NoName},
         muddled' \in SUBSET GroupRooms,
         \A h \in GroupRooms : name[h] # NoName => name'[h] # NoName,
         NEW g, roomReq[r].room = g \/ roomReq[r].room = NoRoom,
         q.room = g \/ q.room = NoRoom,
         \A h \in GroupRooms \ {g} :
           name'[h] = name[h] /\ (h \in archived' <=> h \in archived),
         g \in GroupRooms \ muddled' =>
           /\ roomReq[r].room = g \/ OnRoom(g) = {}
           /\ Target(g, IF roomReq[r].room = g THEN roomReq[r] ELSE NoRoomRequest)
                = Target(g, IF q.room = g THEN q ELSE NoRoomRequest)'
  PROVE  RoomsInv'
<1> USE RoomsAssumption
<1>1. g \in GroupRooms \ muddled' => \A s \in RoomRequests \ {r} : roomReq[s].room # g
  BY DEF OnRoom, RoomsInv, RoomRowsInv
<1>2. \A h \in GroupRooms \ muddled', s \in RoomRequests \ {r} :
        roomReq[s].room = h => /\ name'[h] = name[h] /\ (h \in archived' => h \in archived)
                               /\ q.room # h
  BY <1>1
<1>3. RoomRowsInv'
  BY <1>2, RoomRowsMove DEF RoomsInv
<1>4. /\ RoomIndexProof!IndexInv'
      /\ \A h \in GroupRooms : \A t : RoomIndexProof!Tracks(h, t) => RoomIndexProof!Tracks(h, t)'
  BY IndexStays DEF RoomsInv
<1>5. OthersKept(g)
  BY <1>4 DEF OthersKept
<1>6. ASSUME g \in GroupRooms \ muddled', IsTracked(g, roomReq[r]) PROVE IsTracked(g, q)'
  <2>1. PICK t : /\ t = Target(g, IF roomReq[r].room = g THEN roomReq[r] ELSE NoRoomRequest)
                 /\ t = Target(g, IF q.room = g THEN q ELSE NoRoomRequest)'
    BY <1>6
  <2>2. RoomIndexProof!Tracks(g, t)'
    BY <1>4, <1>6, <2>1 DEF IsTracked
  <2> QED BY <2>1, <2>2 DEF IsTracked
<1> QED
  BY <1>3, <1>4, <1>5, <1>6, RequestFollows

(* What the index is to have of g turns, with the fields that are sent,    *)
(* from what it is for the request p into what it is for q.                *)
Turns(g, p, q, whole, text, flag) ==
  LET t == Target(g, p)
      u == Target(g, IF q.room = g THEN q ELSE NoRoomRequest)'
  IN /\ u.whole = (whole \/ t.whole)
     /\ u.text = IF text = "keep" THEN t.text ELSE text
     /\ u.flag = IF flag = "keep" THEN t.flag ELSE flag

(* The step of a request on g that sends a write.                          *)
LEMMA SendingFollows ==
  ASSUME RoomsInv, UNCHANGED <<name, archived, muddled>>,
         NEW r \in RoomRequests, NEW q, roomReq' = [roomReq EXCEPT ![r] = q],
         RoomRequestOK(q)', NEW g \in GroupRooms, roomReq[r].room = g,
         q.room = g \/ q.room = NoRoom,
         NEW whole \in BOOLEAN, NEW text \in Names \cup {NoName, "keep"},
         NEW flag \in {"shown", "hidden", "keep"}, RoomIndex!Send(g, whole, text, flag),
         g \notin muddled => Turns(g, roomReq[r], q, whole, text, flag)
  PROVE  RoomsInv'
<1> USE RoomsAssumption
<1>1. RoomIndexProof!Send(g, whole, text, flag)
  BY SameRoomIndex
<1>2. /\ text \in Names \cup {NoName, RoomIndexProof!Keep}
      /\ flag \in RoomIndexProof!Flag \cup {RoomIndexProof!Keep}
  BY DEF RoomIndexProof!Keep, RoomIndexProof!Flag
<1>3. RoomIndexProof!IndexInv'
  BY <1>1, <1>2, RoomIndexProof!SendInv DEF RoomsInv
<1>4. \A h \in GroupRooms \ muddled, s \in RoomRequests \ {r} :
        roomReq[s].room = h => q.room # h
  BY DEF RoomsInv, RoomRowsInv
<1>5. RoomRowsInv'
  <2>1. /\ RoomRowsInv /\ muddled \subseteq muddled'
        /\ name' \in [GroupRooms -> Names \cup {NoName}]
        /\ archived' \in SUBSET {h \in GroupRooms : name'[h] # NoName}
        /\ muddled' \in SUBSET GroupRooms
        /\ \A h \in GroupRooms : name[h] # NoName => name'[h] # NoName
    BY DEF RoomsInv, RoomRowsInv
  <2>2. \A h \in GroupRooms \ muddled', s \in RoomRequests \ {r} :
          roomReq[s].room = h => /\ name'[h] = name[h] /\ (h \in archived' => h \in archived)
                                 /\ q.room # h
    BY <1>4
  <2> QED BY <2>1, <2>2, RoomRowsMove
<1>6. OthersKept(g)
  BY <1>1, RoomIndexProof!SendElsewhere DEF RoomsInv, OthersKept
<1>7. ASSUME RoomIndexEnabled, g \notin muddled, IsTracked(g, roomReq[r])
      PROVE  IsTracked(g, q)'
  <2>1. PICK t, u : /\ t = Target(g, roomReq[r])
                    /\ u = Target(g, IF q.room = g THEN q ELSE NoRoomRequest)'
    OBVIOUS
  <2>2. RoomIndexProof!Same(u, RoomIndexProof!Merge(t,
                             [whole |-> whole, text |-> text, flag |-> flag]))
    BY <1>7, <2>1 DEF Turns, RoomIndexProof!Same, RoomIndexProof!Fields,
                      RoomIndexProof!Field, RoomIndexProof!Merge, RoomIndexProof!Keep
  <2>3. RoomIndexProof!Tracks(g, t)
    BY <1>7, <2>1 DEF IsTracked
  <2>4. RoomIndexProof!Tracks(g, u)'
    BY <1>1, <1>2, <1>7, <2>2, <2>3, RoomIndexProof!SendTracks DEF RoomsInv
  <2> QED BY <2>1, <2>4 DEF IsTracked
<1>8. muddled \subseteq muddled' /\ (roomReq[r].room = g \/ roomReq[r].room = NoRoom)
  OBVIOUS
<1> QED
  BY <1>3, <1>5, <1>6, <1>7, <1>8, RequestFollows

-----------------------------------------------------------------------------
(* create: the group is inserted, then the index is told.                  *)
LEMMA CreateRoomKeeps ==
  ASSUME RoomsInv, NEW r \in RoomRequests, NEW n \in Names, CreateRoom(r, n)
  PROVE  RoomsInv'
<1> USE RoomsAssumption
<1> DEFINE q == [NoRoomRequest EXCEPT !.pc = "insert", !.name = n]
<1>1. q \in RoomRequest /\ q.pc = "insert" /\ q.room = NoRoom /\ q.name = n
  BY DEF NoRoomRequest, RoomRequest
<1>2. roomReq' = [roomReq EXCEPT ![r] = q] /\ roomReq[r].room = NoRoom
  BY DEF CreateRoom, BeginRoom, RoomsInv, RoomRowsInv, RoomRequestOK, OffRooms
<1> HIDE DEF q
<1>3. RoomRequestOK(q)'
  BY <1>1 DEF RoomRequestOK, OffRooms
<1> QED
  BY <1>1, <1>2, <1>3, QuietFollows DEF CreateRoom, roomRows, RoomsInv, RoomRowsInv

(* create inserts the row; from then on the request has a group.           *)
LEMMA InsertRoomKeeps ==
  ASSUME RoomsInv, NEW r \in RoomRequests, NEW g \in GroupRooms, InsertRoom(r, g)
  PROVE  RoomsInv'
<1> USE RoomsAssumption
<1>1. /\ roomReq[r] \in RoomRequest /\ roomReq[r].pc = "insert"
      /\ roomReq[r].name \in Names /\ roomReq[r].room = NoRoom
  BY DEF InsertRoom, RoomsInv, RoomRowsInv, RoomRequestOK, OffRooms, Naming
<1>2. PICK q \in RoomRequest : /\ q.pc = "created" /\ q.room = g
                               /\ q.name = roomReq[r].name
                               /\ roomReq' = [roomReq EXCEPT ![r] = q]
  <2> DEFINE n == [roomReq[r] EXCEPT !.pc = "created", !.room = g]
  <2>1. n \in RoomRequest /\ n.pc = "created" /\ n.room = g /\ n.name = roomReq[r].name
    BY <1>1 DEF RoomRequest
  <2>2. roomReq' = [roomReq EXCEPT ![r] = n]
    BY DEF InsertRoom
  <2> HIDE DEF n
  <2> QED BY <2>1, <2>2
<1>4. /\ name \in [GroupRooms -> Names \cup {NoName}] /\ name[g] = NoName
      /\ name' = [name EXCEPT ![g] = q.name] /\ UNCHANGED <<archived, muddled>>
      /\ g \notin archived /\ archived \in SUBSET {h \in GroupRooms : name[h] # NoName}
      /\ muddled \in SUBSET GroupRooms
  BY <1>2 DEF InsertRoom, Exists, RoomsInv, RoomRowsInv
<1>5. OnRoom(g) = {}
  BY <1>4 DEF OnRoom, RoomsInv, RoomRowsInv, RoomRequestOK
<1>6. RoomRequestOK(q)'
  BY <1>1, <1>2, <1>4 DEF RoomRequestOK, OffRooms, Naming
<1>7. Target(g, NoRoomRequest) = Target(g, q)'
  BY <1>2, <1>4 DEF Target, NoRoomRequest
<1>8. UNCHANGED roomIndexVars
  BY DEF InsertRoom
<1>9. /\ name' \in [GroupRooms -> Names \cup {NoName}]
      /\ archived' \in SUBSET {h \in GroupRooms : name'[h] # NoName}
      /\ \A h \in GroupRooms : name[h] # NoName => name'[h] # NoName
      /\ \A h \in GroupRooms \ {g} : name'[h] = name[h] /\ (h \in archived' <=> h \in archived)
  BY <1>1, <1>2, <1>4
<1>10. /\ roomReq[r].room # g /\ muddled \subseteq muddled' /\ muddled' \in SUBSET GroupRooms
       /\ g \in GroupRooms \ muddled' => OnRoom(g) = {}
  BY <1>1, <1>4, <1>5
<1>11. /\ roomReq' = [roomReq EXCEPT ![r] = q]
       /\ roomReq[r].room = g \/ roomReq[r].room = NoRoom
       /\ q.room = g \/ q.room = NoRoom
       /\ g \in GroupRooms \ muddled' =>
            Target(g, IF roomReq[r].room = g THEN roomReq[r] ELSE NoRoomRequest)
              = Target(g, IF q.room = g THEN q ELSE NoRoomRequest)'
  BY <1>1, <1>2, <1>7, <1>10
<1> QED
  BY <1>6, <1>8, <1>9, <1>10, <1>11, QuietFollows

(* What RoomsInv says of a request that is on a group.                     *)
LEMMA OnGroup ==
  ASSUME RoomsInv, NEW r \in RoomRequests, roomReq[r].pc \notin OffRooms
  PROVE  /\ roomReq[r] \in RoomRequest /\ roomReq[r].room \in GroupRooms
         /\ roomReq[r].room # NoRoom /\ name[roomReq[r].room] # NoName
         /\ name[roomReq[r].room] \in Names
         /\ roomReq[r].pc \in Naming => roomReq[r].name \in Names
BY RoomsAssumption DEF RoomsInv, RoomRowsInv, RoomRequestOK

(* What an idle request is, on no group.                                   *)
LEMMA IdleRequest ==
  /\ RoomRequestOK(NoRoomRequest)' /\ NoRoomRequest' = NoRoomRequest
  /\ NoRoomRequest.room = NoRoom /\ NoRoomRequest.pc = "idle"
BY DEF RoomRequestOK, NoRoomRequest, RoomRequest, OffRooms, Naming

(* create sends the whole document of the row it inserted.                 *)
LEMMA RoomCreatedKeeps ==
  ASSUME RoomsInv, NEW r \in RoomRequests, RoomCreated(r)
  PROVE  RoomsInv'
<1> USE RoomsAssumption
<1>1. PICK g, q : g \in GroupRooms /\ g = roomReq[r].room /\ q = NoRoomRequest
  BY OnGroup DEF RoomCreated, OffRooms
<1>2. /\ roomReq[r].pc = "created" /\ roomReq' = [roomReq EXCEPT ![r] = q]
      /\ UNCHANGED <<name, archived, muddled>> /\ roomReq[r].name \in Names
      /\ RoomIndex!Send(g, TRUE, roomReq[r].name, "shown")
      /\ name[g] # NoName
  BY <1>1, OnGroup DEF RoomCreated, EndRoom, roomRows, RoomIndex!IndexDocument, OffRooms, Naming
<1>3. g \notin muddled => name[g] = roomReq[r].name /\ g \notin archived
  BY <1>1, <1>2 DEF RoomsInv, RoomRowsInv, RoomRequestOK
<1>4. RoomRequestOK(q)' /\ q.room = NoRoom /\ q.room # g /\ q.pc = "idle"
  BY <1>1, IdleRequest
<1>5. roomReq[r].name \in Names \cup {NoName, "keep"} /\ roomReq[r].name # "keep"
  BY <1>2 DEF RoomIndex!Keep
<1>6. g \notin muddled => Turns(g, roomReq[r], q, TRUE, roomReq[r].name, "shown")
  BY <1>1, <1>2, <1>3, <1>4, <1>5, IdleRequest DEF Target, Turns
<1> QED
  BY <1>1, <1>2, <1>4, <1>5, <1>6, SendingFollows

-----------------------------------------------------------------------------
(* update, archive and unarchive: the request comes to the group.          *)
LEMMA BeginChangeKeeps ==
  ASSUME RoomsInv, NEW r \in RoomRequests, NEW g \in GroupRooms,
         NEW pc \in {"update_emit", "archive_emit", "unarchive_write"},
         NEW n \in Names \cup {NoName}, pc = "update_emit" => n \in Names,
         BeginChange(r, g, pc, n)
  PROVE  RoomsInv'
<1> USE RoomsAssumption
<1> DEFINE q == [NoRoomRequest EXCEPT !.pc = pc, !.room = g, !.name = n]
<1>1. q \in RoomRequest /\ q.pc = pc /\ q.room = g /\ q.name = n
  BY DEF NoRoomRequest, RoomRequest
<1>2. /\ roomReq' = [roomReq EXCEPT ![r] = q] /\ roomReq[r].room = NoRoom
      /\ name[g] # NoName
  BY DEF BeginChange, BeginRoom, Exists, RoomsInv, RoomRowsInv, RoomRequestOK, OffRooms
<1> HIDE DEF q
<1>3. RoomRequestOK(q)'
  BY <1>1, <1>2 DEF RoomRequestOK, OffRooms, Naming, BeginChange, roomRows
<1>4. /\ UNCHANGED roomIndexVars /\ UNCHANGED <<name, archived>>
      /\ muddled' = IF OnRoom(g) = {} THEN muddled ELSE muddled \cup {g}
  BY DEF BeginChange, roomRows
<1>5. /\ name' \in [GroupRooms -> Names \cup {NoName}]
      /\ archived' \in SUBSET {h \in GroupRooms : name'[h] # NoName}
      /\ muddled' \in SUBSET GroupRooms /\ muddled \subseteq muddled'
      /\ \A h \in GroupRooms : name[h] # NoName => name'[h] # NoName
      /\ \A h \in GroupRooms \ {g} : name'[h] = name[h] /\ (h \in archived' <=> h \in archived)
  BY <1>4 DEF RoomsInv, RoomRowsInv
<1>6. Target(g, NoRoomRequest) = Target(g, q)'
  BY <1>1, <1>4 DEF Target, NoRoomRequest
<1>7. roomReq[r].room # g /\ (g \in GroupRooms \ muddled' => OnRoom(g) = {})
  BY <1>2, <1>4
<1> QED
  BY <1>1, <1>2, <1>3, <1>4, <1>5, <1>6, <1>7, QuietFollows

(* The event of update and of archive: the row is still to be written.     *)
LEMMA EmitKeeps ==
  ASSUME RoomsInv, NEW r \in RoomRequests, NEW pc \in {"update_emit", "archive_emit"},
         roomReq[r].pc = pc, NEW next, pc = "update_emit" => next = "update_write",
         pc = "archive_emit" => next = "archive_write",
         roomReq' = [roomReq EXCEPT ![r].pc = next], UNCHANGED roomRows, UNCHANGED muddled,
         NEW text \in Names \cup {NoName, "keep"}, NEW flag \in {"hidden", "keep"},
         RoomIndex!Send(roomReq[r].room, FALSE, text, flag),
         pc = "update_emit" => text = roomReq[r].name /\ flag = "keep",
         pc = "archive_emit" => text = "keep" /\ flag = "hidden"
  PROVE  RoomsInv'
<1> USE RoomsAssumption
<1>1. PICK g \in GroupRooms : g = roomReq[r].room
  BY OnGroup DEF OffRooms
<1>2. PICK q \in RoomRequest : /\ q.pc = next /\ q.room = g /\ q.name = roomReq[r].name
                               /\ roomReq' = [roomReq EXCEPT ![r] = q]
  <2> DEFINE n == [roomReq[r] EXCEPT !.pc = next]
  <2>1. n \in RoomRequest /\ n.pc = next /\ n.room = g /\ n.name = roomReq[r].name
    BY <1>1, OnGroup DEF RoomRequest, OffRooms
  <2>2. roomReq' = [roomReq EXCEPT ![r] = n]
    OBVIOUS
  <2> HIDE DEF n
  <2> QED BY <2>1, <2>2
<1>3. name[g] # NoName /\ UNCHANGED <<name, archived, muddled>>
  BY <1>1, OnGroup DEF OffRooms, roomRows
<1>4. roomReq[r].pc \in Naming => q.name \in Names /\ q.name # "keep"
  BY <1>2, OnGroup DEF OffRooms, Naming, RoomIndex!Keep
<1>5. RoomRequestOK(q)'
  BY <1>2, <1>3, <1>4 DEF RoomRequestOK, OffRooms, Naming
<1>6. PICK whole \in BOOLEAN : whole = FALSE /\ RoomIndex!Send(g, whole, text, flag)
  BY <1>1
<1>7. Turns(g, roomReq[r], q, whole, text, flag)
  BY <1>1, <1>2, <1>3, <1>4, <1>6 DEF Target, Naming, Turns
<1>8. /\ roomReq[r].room = g /\ (q.room = g \/ q.room = NoRoom)
      /\ flag \in {"shown", "hidden", "keep"}
  BY <1>1, <1>2
<1>9. text \in Names \cup {NoName, "keep"} /\ roomReq' = [roomReq EXCEPT ![r] = q]
  BY <1>2
<1>10. CASE flag = "keep"
  BY <1>1, <1>3, <1>5, <1>6, <1>7, <1>8, <1>9, <1>10, SendingFollows
<1>11. CASE flag = "hidden"
  BY <1>1, <1>3, <1>5, <1>6, <1>7, <1>8, <1>9, <1>11, SendingFollows
<1> QED
  BY <1>10, <1>11

(* A request on g ends without a word to the index.                        *)
LEMMA EndsQuietly ==
  ASSUME RoomsInv, UNCHANGED roomIndexVars, muddled \subseteq muddled',
         NEW r \in RoomRequests, EndRoom(r), NEW g, g = roomReq[r].room,
         name' \in [GroupRooms -> Names \cup {NoName}],
         archived' \in SUBSET {h \in GroupRooms : name'[h] # NoName},
         muddled' \in SUBSET GroupRooms,
         \A h \in GroupRooms : name[h] # NoName => name'[h] # NoName,
         \A h \in GroupRooms \ {g} :
           name'[h] = name[h] /\ (h \in archived' <=> h \in archived),
         g \in GroupRooms \ muddled' => Target(g, roomReq[r]) = Target(g, NoRoomRequest)'
  PROVE  RoomsInv'
<1> USE RoomsAssumption
<1>1. PICK q : q = NoRoomRequest /\ roomReq' = [roomReq EXCEPT ![r] = q]
  BY DEF EndRoom
<1>2. RoomRequestOK(q)' /\ (q.room = g \/ q.room = NoRoom)
      /\ (roomReq[r].room = g \/ roomReq[r].room = NoRoom)
  BY <1>1, IdleRequest
<1>3. g \in GroupRooms \ muddled' =>
        /\ roomReq[r].room = g \/ OnRoom(g) = {}
        /\ Target(g, IF roomReq[r].room = g THEN roomReq[r] ELSE NoRoomRequest)
             = Target(g, IF q.room = g THEN q ELSE NoRoomRequest)'
  BY <1>1, IdleRequest
<1> QED
  BY <1>1, <1>2, <1>3, QuietFollows

(* update: the row is written, and is what the index was told.             *)
LEMMA UpdateRowKeeps ==
  ASSUME RoomsInv, NEW r \in RoomRequests, UpdateRow(r)
  PROVE  RoomsInv'
<1>1. PICK g \in GroupRooms, n \in Names :
        g = roomReq[r].room /\ n = roomReq[r].name /\ name[g] # NoName
  BY OnGroup DEF UpdateRow, OffRooms, Naming
<1>2. /\ EndRoom(r) /\ UNCHANGED roomIndexVars /\ UNCHANGED <<archived, muddled>>
      /\ name' = [name EXCEPT ![g] = n]
  BY <1>1 DEF UpdateRow
<1>3. /\ name' \in [GroupRooms -> Names \cup {NoName}] /\ name'[g] = n /\ n # NoName
      /\ \A h \in GroupRooms : name[h] # NoName => name'[h] # NoName
      /\ \A h \in GroupRooms \ {g} : name'[h] = name[h]
  BY <1>2, RoomsAssumption DEF RoomsInv, RoomRowsInv
<1>4. /\ archived' \in SUBSET {h \in GroupRooms : name'[h] # NoName}
      /\ muddled' \in SUBSET GroupRooms /\ muddled \subseteq muddled'
      /\ \A h \in GroupRooms \ {g} : name'[h] = name[h] /\ (h \in archived' <=> h \in archived)
  BY <1>2, <1>3 DEF RoomsInv, RoomRowsInv
<1>5. Target(g, roomReq[r]) = Target(g, NoRoomRequest)'
  BY <1>1, <1>2, <1>3, IdleRequest DEF Target, UpdateRow
<1> QED
  BY <1>1, <1>2, <1>3, <1>4, <1>5, EndsQuietly

(* archive and unarchive: the row is written.  The index is never told     *)
(* that an archived group is open again, which muddles it.                 *)
LEMMA ArchiveRowKeeps ==
  ASSUME RoomsInv, NEW r \in RoomRequests, ArchiveRow(r) \/ UnarchiveRow(r)
  PROVE  RoomsInv'
<1>1. PICK g \in GroupRooms : g = roomReq[r].room /\ name[g] # NoName
  BY OnGroup DEF ArchiveRow, UnarchiveRow, OffRooms
<1>2. /\ EndRoom(r) /\ UNCHANGED roomIndexVars /\ UNCHANGED name
      /\ \/ /\ roomReq[r].pc = "archive_write" /\ archived' = archived \cup {g}
            /\ UNCHANGED muddled
         \/ /\ roomReq[r].pc = "unarchive_write" /\ archived' = archived \ {g}
            /\ muddled' = IF g \in archived THEN muddled \cup {g} ELSE muddled
  BY <1>1 DEF ArchiveRow, UnarchiveRow
<1>3. /\ name' \in [GroupRooms -> Names \cup {NoName}]
      /\ archived' \in SUBSET {h \in GroupRooms : name'[h] # NoName}
      /\ muddled' \in SUBSET GroupRooms /\ muddled \subseteq muddled'
      /\ \A h \in GroupRooms : name[h] # NoName => name'[h] # NoName
      /\ \A h \in GroupRooms \ {g} : name'[h] = name[h] /\ (h \in archived' <=> h \in archived)
  BY <1>1, <1>2 DEF RoomsInv, RoomRowsInv
<1>4. g \notin muddled' =>
        (g \in archived \/ roomReq[r].pc = "archive_write" <=> g \in archived')
  BY <1>2
<1>5. g \in GroupRooms \ muddled' => Target(g, roomReq[r]) = Target(g, NoRoomRequest)'
  BY <1>2, <1>4, IdleRequest DEF Target
<1> QED
  BY <1>1, <1>2, <1>3, <1>5, EndsQuietly

(* A request fails: if what the index was told and the row then differ,    *)
(* the group is muddled.                                                   *)
LEMMA RoomRequestFailsKeeps ==
  ASSUME RoomsInv, NEW r \in RoomRequests, RoomRequestFails(r)
  PROVE  RoomsInv'
<1>1. PICK g : g = roomReq[r].room /\ (roomReq[r].pc \notin OffRooms => g \in GroupRooms)
  BY OnGroup
<1>2. /\ EndRoom(r) /\ UNCHANGED roomIndexVars /\ UNCHANGED <<name, archived>>
      /\ muddled' = IF roomReq[r].pc \in {"created", "update_write", "archive_write"}
                    THEN muddled \cup {g} ELSE muddled
  BY <1>1 DEF RoomRequestFails, roomRows
<1>3. /\ name' \in [GroupRooms -> Names \cup {NoName}]
      /\ archived' \in SUBSET {h \in GroupRooms : name'[h] # NoName}
      /\ muddled' \in SUBSET GroupRooms /\ muddled \subseteq muddled'
      /\ \A h \in GroupRooms : name[h] # NoName => name'[h] # NoName
      /\ \A h \in GroupRooms \ {g} : name'[h] = name[h] /\ (h \in archived' <=> h \in archived)
  BY <1>1, <1>2 DEF RoomsInv, RoomRowsInv, OffRooms
<1>4. g \in GroupRooms \ muddled' => Target(g, roomReq[r]) = Target(g, NoRoomRequest)'
  BY <1>2, IdleRequest DEF Target
<1> QED
  BY <1>1, <1>2, <1>3, <1>4, EndsQuietly

-----------------------------------------------------------------------------
(* A reindex reads the rows as they are, and while no request is on a      *)
(* group they are what the index is to have of it.                         *)
LEMMA ReindexRoomsKeeps == ASSUME RoomsInv, ReindexRooms PROVE RoomsInv'
<1> USE RoomsAssumption
<1>1. PICK rows, flag : /\ rows = {g \in GroupRooms : name[g] # NoName}
                        /\ flag = [g \in GroupRooms |-> IF g \in archived THEN "hidden"
                                                        ELSE "shown"]
                        /\ RoomIndex!StartReindex(rows, name, flag)
  BY DEF ReindexRooms, Exists
<1>2. /\ UNCHANGED <<name, archived, roomReq>>
      /\ muddled' = muddled \cup {g \in GroupRooms : OnRoom(g) # {}}
  BY DEF ReindexRooms, roomRows
<1>3. PICK text : text = name
  OBVIOUS
<1>4. RoomIndexProof!StartReindex(rows, text, flag)
  BY <1>1, <1>3 DEF RoomIndex!StartReindex, RoomIndexProof!StartReindex,
                    RoomIndex!NoReindex, RoomIndexProof!NoReindex
<1>5. /\ rows \in SUBSET GroupRooms
      /\ \A g \in rows : text[g] \in Names \cup {NoName} /\ flag[g] \in RoomIndexProof!Flag
  BY <1>1, <1>3 DEF RoomsInv, RoomRowsInv, RoomIndexProof!Flag
<1>6. RoomIndexProof!IndexInv'
  BY <1>4, <1>5, RoomIndexProof!ReindexInv DEF RoomsInv
<1>7. RoomRowsInv'
  <2>1. \A r \in RoomRequests : RoomRequestOK(roomReq[r])'
    BY <1>2 DEF RoomsInv, RoomRowsInv, RoomRequestOK
  <2> QED BY <1>2, <2>1 DEF RoomsInv, RoomRowsInv
<1>8. ASSUME RoomIndexEnabled, NEW g \in GroupRooms \ muddled' PROVE Follows(g)'
  <2>1. OnRoom(g) = {} /\ OnRoom(g)' = {} /\ Follows(g)
    BY <1>2, <1>8 DEF OnRoom, RoomsInv
  <2>2. PICK t : t = Target(g, NoRoomRequest) /\ t = Target(g, NoRoomRequest)'
    BY <1>2 DEF Target, NoRoomRequest
  <2>3. g \in rows => t.whole = TRUE /\ t.text = text[g] /\ t.flag = flag[g]
    <3>1. ASSUME g \in rows
          PROVE  name[g] # NoName /\ flag[g] = IF g \in archived THEN "hidden" ELSE "shown"
      BY <1>1, <1>8, <3>1
    <3>2. /\ t.whole = (name[g] # NoName /\ NoRoomRequest.pc # "created")
          /\ t.text = name[g]
          /\ t.flag = IF g \in archived THEN "hidden" ELSE "shown"
      BY <2>2, IdleRequest DEF Target
    <3> QED BY <1>3, <3>1, <3>2, IdleRequest
  <2>4. RoomIndexProof!Tracks(g, t)
    BY <2>1, <2>2 DEF Follows
  <2>5. RoomIndexProof!Tracks(g, t)'
    BY <1>4, <2>3, <2>4, RoomIndexProof!ReindexTracks DEF RoomsInv
  <2> QED BY <2>1, <2>2, <2>5 DEF Follows
<1> QED
  BY <1>6, <1>7, <1>8 DEF RoomsInv

(* Whatever the index does on its own.                                     *)
LEMMA RoomIndexStepKeeps == ASSUME RoomsInv, RoomIndexStep PROVE RoomsInv'
<1>1. RoomIndexProof!IndexNext /\ UNCHANGED <<name, archived, roomReq, muddled>>
  BY SameRoomIndex DEF RoomIndexStep, roomRows
<1>2. RoomIndexProof!IndexInv'
  BY <1>1, RoomIndexProof!IndexStepInv DEF RoomsInv
<1>3. RoomRowsInv'
  <2>1. \A r \in RoomRequests : RoomRequestOK(roomReq[r])'
    BY <1>1 DEF RoomsInv, RoomRowsInv, RoomRequestOK
  <2> QED BY <1>1, <2>1 DEF RoomsInv, RoomRowsInv
<1>4. ASSUME RoomIndexEnabled, NEW g \in GroupRooms \ muddled' PROVE Follows(g)'
  <2>1. Follows(g) /\ OnRoom(g)' = OnRoom(g)
    BY <1>1, <1>4 DEF OnRoom, RoomsInv
  <2>2. ASSUME NEW p, RoomIndexProof!Tracks(g, Target(g, p))
        PROVE  RoomIndexProof!Tracks(g, Target(g, p))'
    <3>1. PICK t : t = Target(g, p) /\ t = Target(g, p)'
      BY <1>1 DEF Target
    <3>2. RoomIndexProof!Tracks(g, t)'
      BY <1>1, <2>2, <3>1, RoomIndexProof!IndexStepTracks DEF RoomsInv
    <3> QED BY <3>1, <3>2
  <2>3. ASSUME NEW r \in OnRoom(g)' PROVE RoomIndexProof!Tracks(g, Target(g, roomReq[r]))'
    <3>1. PICK p : p = roomReq[r] /\ p = roomReq'[r]
      BY <1>1
    <3> QED BY <2>1, <2>2, <2>3, <3>1 DEF Follows
  <2>4. OnRoom(g)' = {} => RoomIndexProof!Tracks(g, Target(g, NoRoomRequest))'
    <3>1. PICK p : p = NoRoomRequest /\ p = NoRoomRequest'
      BY IdleRequest
    <3> QED BY <2>1, <2>2, <3>1 DEF Follows
  <2> QED BY <2>3, <2>4 DEF Follows
<1> QED
  BY <1>2, <1>3, <1>4 DEF RoomsInv

-----------------------------------------------------------------------------
(* No group yet, and an empty index.                                       *)
LEMMA RoomsInvInit == RoomsInit => RoomsInv
<1> SUFFICES ASSUME RoomsInit PROVE RoomsInv
  OBVIOUS
<1>1. RoomIndexProof!InitIndex
  BY SameRoomIndex DEF RoomsInit
<1>2. RoomIndexProof!IndexInv
  BY <1>1, RoomIndexProof!IndexInit
<1>3. RoomRowsInv
  BY RoomsAssumption DEF RoomsInit, RoomRowsInv, RoomRequestOK, NoRoomRequest, RoomRequest,
                         OffRooms, Naming
<1>4. ASSUME NEW g \in GroupRooms PROVE Follows(g)
  <2>1. OnRoom(g) = {}
    BY RoomsAssumption DEF OnRoom, RoomsInit, NoRoomRequest
  <2>2. PICK t : t = Target(g, NoRoomRequest)
    OBVIOUS
  <2>3. RoomIndexProof!Same(RoomIndexProof!Absent, t)
    BY <2>2 DEF Target, RoomsInit, NoRoomRequest, RoomIndexProof!Absent,
                RoomIndexProof!Same, RoomIndexProof!Field
  <2>4. RoomIndexProof!Tracks(g, t)
    BY <1>1, <2>3, RoomIndexProof!TracksInit, RoomIndexProof!TracksSame
  <2> QED BY <2>1, <2>2, <2>4 DEF Follows
<1> QED
  BY <1>2, <1>3, <1>4 DEF RoomsInv

(* Every step.                                                             *)
LEMMA RoomsInvStep == RoomsInv /\ [RoomsNext]_roomVars => RoomsInv'
<1> SUFFICES ASSUME RoomsInv, [RoomsNext]_roomVars PROVE RoomsInv'
  OBVIOUS
<1>1. ASSUME NEW r \in RoomRequests, NEW n \in Names, CreateRoom(r, n) PROVE RoomsInv'
  BY <1>1, CreateRoomKeeps
<1>2. ASSUME NEW r \in RoomRequests, NEW g \in GroupRooms, InsertRoom(r, g) PROVE RoomsInv'
  BY <1>2, InsertRoomKeeps
<1>3. ASSUME NEW r \in RoomRequests, RoomCreated(r) PROVE RoomsInv'
  BY <1>3, RoomCreatedKeeps
<1>4. ASSUME NEW r \in RoomRequests, NEW g \in GroupRooms, NEW n \in Names,
             UpdateRoom(r, g, n)
      PROVE  RoomsInv'
  BY <1>4, BeginChangeKeeps DEF UpdateRoom
<1>5. ASSUME NEW r \in RoomRequests, NEW g \in GroupRooms,
             ArchiveRoom(r, g) \/ UnarchiveRoom(r, g)
      PROVE  RoomsInv'
  BY <1>5, BeginChangeKeeps DEF ArchiveRoom, UnarchiveRoom
<1>6. ASSUME NEW r \in RoomRequests, UpdateEmit(r) PROVE RoomsInv'
  <2>1. roomReq[r].name \in Names \cup {NoName, "keep"}
    BY <1>6, OnGroup DEF UpdateEmit, OffRooms, Naming
  <2> QED
    BY <1>6, <2>1, EmitKeeps DEF UpdateEmit, RoomIndex!UpdateDocument, RoomIndex!Keep
<1>7. ASSUME NEW r \in RoomRequests, ArchiveEmit(r) PROVE RoomsInv'
  BY <1>7, EmitKeeps DEF ArchiveEmit, TellArchived, RoomIndex!UpdateDocument, RoomIndex!Keep
<1>8. ASSUME NEW r \in RoomRequests, UpdateRow(r) PROVE RoomsInv'
  BY <1>8, UpdateRowKeeps
<1>9. ASSUME NEW r \in RoomRequests, ArchiveRow(r) \/ UnarchiveRow(r) PROVE RoomsInv'
  BY <1>9, ArchiveRowKeeps
<1>10. ASSUME NEW r \in RoomRequests, RoomRequestFails(r) PROVE RoomsInv'
  BY <1>10, RoomRequestFailsKeeps
<1>11. CASE UNCHANGED roomVars
  <2>1. /\ UNCHANGED roomIndexVars /\ UNCHANGED <<name, archived, roomReq, muddled>>
    BY <1>11 DEF roomVars, roomIndexVars
  <2>2. RoomIndexProof!IndexInv'
    BY <2>1, IndexStays DEF RoomsInv
  <2>3. RoomRowsInv'
    <3>1. \A r \in RoomRequests : RoomRequestOK(roomReq[r])'
      BY <2>1 DEF RoomsInv, RoomRowsInv, RoomRequestOK
    <3> QED BY <2>1, <3>1 DEF RoomsInv, RoomRowsInv
  <2>4. ASSUME RoomIndexEnabled, NEW g \in GroupRooms \ muddled' PROVE Follows(g)'
    <3>1. Follows(g) /\ OnRoom(g)' = OnRoom(g)
      BY <2>1, <2>4 DEF OnRoom, RoomsInv
    <3>2. ASSUME NEW p, RoomIndexProof!Tracks(g, Target(g, p))
          PROVE  RoomIndexProof!Tracks(g, Target(g, p))'
      <4>1. PICK t : t = Target(g, p) /\ t = Target(g, p)'
        BY <2>1 DEF Target
      <4>2. RoomIndexProof!Tracks(g, t)'
        BY <2>1, <2>4, <3>2, <4>1, IndexStays DEF RoomsInv
      <4> QED BY <4>1, <4>2
    <3>3. ASSUME NEW r \in OnRoom(g)' PROVE RoomIndexProof!Tracks(g, Target(g, roomReq[r]))'
      <4>1. PICK p : p = roomReq[r] /\ p = roomReq'[r]
        BY <2>1
      <4> QED BY <3>1, <3>2, <3>3, <4>1 DEF Follows
    <3>4. OnRoom(g)' = {} => RoomIndexProof!Tracks(g, Target(g, NoRoomRequest))'
      <4>1. PICK p : p = NoRoomRequest /\ p = NoRoomRequest'
        BY IdleRequest
      <4> QED BY <3>1, <3>2, <4>1 DEF Follows
    <3> QED BY <3>3, <3>4 DEF Follows
  <2> QED BY <2>2, <2>3, <2>4 DEF RoomsInv
<1> QED
  BY <1>1, <1>2, <1>3, <1>4, <1>5, <1>6, <1>7, <1>8, <1>9, <1>10, <1>11,
     ReindexRoomsKeeps, RoomIndexStepKeeps DEF RoomsNext

(* RoomsInv gives the types, and that a search finds what the row says.    *)
LEMMA RoomsInvGives == RoomsInv => RoomsTypeOK /\ RoomIndexAgrees
<1> SUFFICES ASSUME RoomsInv PROVE RoomsTypeOK /\ RoomIndexAgrees
  OBVIOUS
<1>1. RoomsTypeOK
  BY SameRoomIndex DEF RoomsTypeOK, RoomsInv, RoomRowsInv, RoomIndexProof!IndexInv
<1>2. ASSUME NEW g \in GroupRooms, OnRoom(g) = {}, g \notin muddled, RoomIndex!Settled(g),
             RoomIndexEnabled
      PROVE  RoomIndex!Found(g) = PostgresFindsRoom(g)
  <2>1. PICK t : t = Target(g, NoRoomRequest)
    OBVIOUS
  <2>2. RoomIndexProof!Tracks(g, t) /\ RoomIndexProof!Settled(g) /\ t.whole \in BOOLEAN
    BY <1>2, <2>1, SameRoomIndex DEF RoomsInv, Follows, Target
  <2>3. RoomIndexProof!Found(g) = IF t.whole /\ t.flag = "shown" THEN t.text ELSE NoName
    BY <2>2, RoomIndexProof!SettledIs DEF RoomsInv
  <2>4. RoomIndexProof!Found(g) = PostgresFindsRoom(g)
    BY <2>1, <2>3, IdleRequest DEF Target, PostgresFindsRoom
  <2> QED BY <2>4, SameRoomIndex
<1> QED
  BY <1>1, <1>2 DEF RoomIndexAgrees, SearchRooms

(* A search finds the same name of a group, and none while it is archived, *)
(* whether Elasticsearch answers or PostgreSQL stands in for it, once what *)
(* create, update and archive sent has arrived in order, however requests, *)
(* failures, losses and reindexes interleave.                              *)
THEOREM RoomSearchesAgree == RoomsSpec => []RoomIndexAgrees
<1> QED
  BY RoomsInvInit, RoomsInvStep, RoomsInvGives, PTL DEF RoomsSpec

(* The rows, the requests and the index of the rooms have their types.     *)
THEOREM RoomTypes == RoomsSpec => []RoomsTypeOK
<1> QED
  BY RoomsInvInit, RoomsInvStep, RoomsInvGives, PTL DEF RoomsSpec

-----------------------------------------------------------------------------
(* Open rooms and rooms to come are no more than requests; the invariant   *)
(* behind DmsBounded.                                                      *)
DmInv ==
  /\ DmTypeOK
  /\ IsFiniteSet(OpenDms)
  /\ Cardinality(OpenDms) + Cardinality(creating) <= Cardinality(DmRequests)

(* The requests that are about to create are finitely many.                *)
LEMMA CreatingFinite ==
  ASSUME DmTypeOK
  PROVE  IsFiniteSet(creating) /\ Cardinality(creating) \in Nat
         /\ Cardinality(creating) <= Cardinality(DmRequests)
BY DmAssumption, FS_Subset, FS_CardinalityType DEF DmTypeOK

(* At the start no room is open and none is to come.                       *)
LEMMA DmInvInit == DmInit => DmInv
<1> SUFFICES ASSUME DmInit PROVE DmInv
  OBVIOUS
<1>1. DmTypeOK
  BY DEF DmInit, DmTypeOK
<1>2. OpenDms = {} /\ creating = {}
  BY DmAssumption DEF DmInit, OpenDms
<1> QED
  BY <1>1, <1>2, DmAssumption, FS_EmptySet, FS_CardinalityType DEF DmInv

(* The types, for one step.                                                *)
LEMMA DmTypeStep == ASSUME DmTypeOK, DmNext PROVE DmTypeOK'
BY DEF DmTypeOK, DmNext, FindDm, CreateDm, DmFails, LeaveDm

(* Every step keeps DmInv.                                                 *)
LEMMA DmInvStep == DmInv /\ [DmNext]_dmVars => DmInv'
<1> SUFFICES ASSUME DmInv, [DmNext]_dmVars PROVE DmInv'
  OBVIOUS
<1> USE DEF DmInv
<1> DEFINE Open == Cardinality(OpenDms)
           Coming == Cardinality(creating)
           Most == Cardinality(DmRequests)
<1>0. /\ IsFiniteSet(creating) /\ Coming \in Nat
      /\ Open \in Nat /\ Most \in Nat /\ Open + Coming <= Most
  BY CreatingFinite, DmAssumption, FS_CardinalityType
<1>1. ASSUME NEW r \in DmRequests, FindDm(r) PROVE DmInv'
  <2>1. DmTypeOK'
    BY <1>1, DmTypeStep DEF DmNext
  <2>2. OpenDms' = {}
    BY <1>1 DEF FindDm, DmFound, OpenDms
  <2>3. Coming' \in Nat /\ Coming' <= Most
    <3>1. creating' \subseteq DmRequests
      BY <2>1 DEF DmTypeOK
    <3> QED BY <3>1, DmAssumption, FS_Subset, FS_CardinalityType
  <2>4. IsFiniteSet(OpenDms') /\ Open' = 0
    BY <2>2, FS_EmptySet
  <2> HIDE DEF Open, Coming, Most
  <2>5. Open' + Coming' <= Most
    BY <2>3, <2>4
  <2> QED BY <2>1, <2>4, <2>5 DEF Open, Coming, Most
<1>2. ASSUME NEW r \in DmRequests, NEW d \in DmRooms, CreateDm(r, d) PROVE DmInv'
  <2>1. DmTypeOK'
    BY <1>2, DmTypeStep DEF DmNext
  <2>2. OpenDms' = OpenDms \cup {d} /\ d \notin OpenDms
    BY <1>2, DmAssumption DEF CreateDm, OpenDms, DmTypeOK
  <2>3. IsFiniteSet(OpenDms') /\ Open' = Open + 1
    BY <2>2, FS_AddElement
  <2>4. creating' = creating \ {r} /\ r \in creating
    BY <1>2 DEF CreateDm
  <2>5. Coming' = Coming - 1
    BY <2>4, <1>0, FS_RemoveElement
  <2> HIDE DEF Open, Coming, Most
  <2>6. Open' + Coming' <= Most
    BY <1>0, <2>3, <2>5
  <2> QED BY <2>1, <2>3, <2>6 DEF Open, Coming, Most
<1>3. ASSUME NEW r \in DmRequests, DmFails(r) PROVE DmInv'
  <2>1. DmTypeOK'
    BY <1>3, DmTypeStep DEF DmNext
  <2>2. OpenDms' = OpenDms
    BY <1>3 DEF DmFails, OpenDms
  <2>3. creating' = creating \ {r} /\ r \in creating
    BY <1>3 DEF DmFails
  <2>4. Coming' = Coming - 1
    BY <2>3, <1>0, FS_RemoveElement
  <2>5. Open' = Open /\ IsFiniteSet(OpenDms')
    BY <2>2
  <2> HIDE DEF Open, Coming, Most
  <2>6. Open' + Coming' <= Most
    BY <1>0, <2>4, <2>5
  <2> QED BY <2>1, <2>5, <2>6 DEF Open, Coming, Most
<1>4. ASSUME NEW u \in Pair, NEW d \in DmRooms, LeaveDm(u, d) PROVE DmInv'
  <2>1. DmTypeOK'
    BY <1>4, DmTypeStep DEF DmNext
  <2>2. OpenDms' \subseteq OpenDms
    BY <1>4 DEF LeaveDm, OpenDms, DmTypeOK
  <2>3. IsFiniteSet(OpenDms') /\ Open' <= Open /\ Open' \in Nat
    BY <2>2, FS_Subset, FS_CardinalityType
  <2>4. Coming' = Coming
    BY <1>4 DEF LeaveDm
  <2> HIDE DEF Open, Coming, Most
  <2>5. \A a, b, c, max \in Nat : a + c <= max /\ b <= a => b + c <= max
    OBVIOUS
  <2>6. Open' + Coming' <= Most
    BY <1>0, <2>3, <2>4, <2>5
  <2> QED BY <2>1, <2>3, <2>6 DEF Open, Coming, Most
<1>5. CASE UNCHANGED dmVars
  BY <1>5 DEF dmVars, DmTypeOK, OpenDms
<1> QED
  BY <1>1, <1>2, <1>3, <1>4, <1>5 DEF DmNext

(* Any number of requests for the same direct message open at most one     *)
(* each, whoever leaves in between (findOrCreateDm).                       *)
THEOREM DmsAreBounded == DmSpec => []DmsBounded
<1>1. DmInv => DmsBounded
  BY CreatingFinite, DmAssumption, FS_CardinalityType DEF DmInv, DmsBounded
<1> QED
  BY DmInvInit, DmInvStep, <1>1, PTL DEF DmSpec
=============================================================================
