--------------------------- MODULE DirectMessages ---------------------------
(***************************************************************************)
(* The direct messages between one pair of users: RoomsService finds the   *)
(* one both are still in, and makes one if there is none.  The search and  *)
(* the insert are two calls, and no unique key stands behind them.         *)
(***************************************************************************)
EXTENDS Naturals, FiniteSets

CONSTANTS
  Pair,        \* the two users
  DmRooms,     \* the ids of rooms
  DmRequests   \* the slots of requests in progress

ASSUME DmAssumption == Pair # {} /\ IsFiniteSet(DmRequests)

VARIABLES
  inDm,        \* of a direct message: the users without leftAt
  creating     \* the requests that have found none and will create one

dmVars == <<inDm, creating>>

DmInit ==
  /\ inDm = [d \in DmRooms |-> {}]
  /\ creating = {}

-----------------------------------------------------------------------------
OpenDms == {d \in DmRooms : inDm[d] = Pair}

(* What the search finds: a room both members of which have leftAt null.   *)
HalfOpen == \E d \in DmRooms : inDm[d] # {} /\ inDm[d] # Pair
DmFound == \E d \in DmRooms : inDm[d] = Pair

FindDm(r) ==
  /\ r \notin creating
  /\ ~DmFound
  /\ creating' = creating \cup {r}
  /\ UNCHANGED inDm

CreateDm(r, d) ==
  /\ r \in creating /\ inDm[d] = {}
  /\ inDm' = [inDm EXCEPT ![d] = Pair]
  /\ creating' = creating \ {r}

(* The search or the insert fails, or the server stops.                    *)
DmFails(r) ==
  /\ r \in creating
  /\ creating' = creating \ {r}
  /\ UNCHANGED inDm

(* leaveRoom; nobody comes back into a direct message, which has no        *)
(* invites and no admin to add members.                                    *)
LeaveDm(u, d) ==
  /\ u \in inDm[d]
  /\ inDm' = [inDm EXCEPT ![d] = @ \ {u}]
  /\ UNCHANGED creating

DmNext ==
  \/ \E r \in DmRequests : FindDm(r) \/ DmFails(r) \/ \E d \in DmRooms : CreateDm(r, d)
  \/ \E u \in Pair, d \in DmRooms : LeaveDm(u, d)

DmSpec == DmInit /\ [][DmNext]_dmVars

-----------------------------------------------------------------------------
DmTypeOK ==
  /\ inDm \in [DmRooms -> SUBSET Pair]
  /\ creating \in SUBSET DmRequests

(* "DM deduplication" (create): the pair has no more open direct messages  *)
(* than requests ask for one at the same time, however often they are      *)
(* created and left; one, where requests do not overlap.                   *)
DmsBounded == Cardinality(OpenDms) <= Cardinality(DmRequests)
=============================================================================
