----------------------------- MODULE AuthProofs -----------------------------
(***************************************************************************)
(* For any number of users, devices, tokens, sessions and requests: the    *)
(* types, that a session never holds a token of another user, that a       *)
(* revoked session is never open again, and how often a session is         *)
(* exchanged and how many of a device are open, where requests overlap.    *)
(*                                                                         *)
(* Whose token a session holds is decided calls before it is written, so   *)
(* the invariant follows the requests: Carries says of each what the calls *)
(* it has behind it left in its hands.  It lasts while others run, because *)
(* a token is signed once and a row keeps its owner.                       *)
(***************************************************************************)
EXTENDS Auth, FiniteSetTheorems, TLAPS

Storing == {"store_find", "store_update", "store_create", "store_clean"}

(* What the request of a slot holds at each of its steps.                  *)
Carries(r) ==
  /\ req[r].pc # "idle" => req[r].user \in Users
  /\ req[r].pc \in {"register", "refresh_revoke", "refresh_sign", "store_find",
                  "store_update", "store_create"} =>
       req[r].device \in Devices
  /\ req[r].pc \in Storing =>
       req[r].fresh \in Tokens /\ signedFor[req[r].fresh] = req[r].user
  /\ req[r].pc \in {"store_update", "refresh_revoke", "logout"} =>
       req[r].session \in Sessions
  /\ req[r].pc = "store_update" =>
       /\ state[req[r].session] # "none"
       /\ Exists(req[r].session) => owner[req[r].session] = req[r].user

USE DEF Exists

SessionInv == TypeOK /\ SessionKeepsItsUser /\ \A r \in Requests : Carries(r)

-----------------------------------------------------------------------------
(* No step signs a token again, or gives a row another owner, before or    *)
(* after it is deleted.                                                    *)
Lasting ==
  /\ \A t \in Tokens : signedFor[t] # Nobody => signedFor'[t] = signedFor[t]
  /\ \A x \in Sessions : state[x] # "none" =>
       state'[x] # "none" /\ (Exists(x)' => Exists(x) /\ owner'[x] = owner[x])

(* A step of another request leaves what a request carries.                *)
LEMMA OthersCarry ==
  ASSUME SessionInv, Lasting, NEW r \in Requests, req'[r] = req[r]
  PROVE  Carries(r)'
BY AuthAssumption DEF SessionInv, Lasting, Carries, TypeOK, Request, Storing

(* So the invariant is kept by a step of r that keeps types and rows and   *)
(* leaves r with what it should carry.                                     *)
LEMMA OneRequest ==
  ASSUME SessionInv, Lasting, TypeOK', SessionKeepsItsUser', NEW r \in Requests,
         Carries(r)', \A q \in Requests \ {r} : req'[q] = req[q]
  PROVE  SessionInv'
BY OthersCarry DEF SessionInv

-----------------------------------------------------------------------------
(* The requests begin.                                                     *)

(* A registration begins; it carries nothing but names.                    *)
LEMMA RegisterKeeps ==
  ASSUME SessionInv, NEW r \in Requests, NEW u \in Users, NEW d \in Devices,
         Register(r, u, d)
  PROVE  SessionInv'
<1>1. Lasting
  BY AuthAssumption DEF Register, Begin, Blank, rows, SessionInv, TypeOK, Lasting
<1>2. TypeOK'
  BY AuthAssumption DEF Register, Begin, Blank, rows, SessionInv, TypeOK, Request,
     Carries, Storing
<1>3. SessionKeepsItsUser'
  BY AuthAssumption DEF Register, Begin, Blank, rows, SessionInv, TypeOK, Carries,
     Storing, SessionKeepsItsUser
<1>4. Carries(r)'
  BY AuthAssumption DEF Register, Begin, Blank, rows, SessionInv, TypeOK, Request,
     Carries, Storing
<1>5. \A q \in Requests \ {r} : req'[q] = req[q]
  BY DEF Register, Begin, Blank, rows, SessionInv, TypeOK
<1> QED
  BY <1>1, <1>2, <1>3, <1>4, <1>5, OneRequest

(* A login signs its token at once.                                        *)
LEMMA LoginKeeps ==
  ASSUME SessionInv, NEW r \in Requests, NEW u \in Users, NEW d \in Devices,
         NEW t \in Tokens, Login(r, u, d, t)
  PROVE  SessionInv'
<1>1. Lasting
  BY AuthAssumption DEF Login, Sign, Begin, Blank, rows, SessionInv, TypeOK, Lasting
<1>2. TypeOK'
  BY AuthAssumption DEF Login, Sign, Begin, Blank, rows, SessionInv, TypeOK, Request,
     Carries, Storing
<1>3. SessionKeepsItsUser'
  BY AuthAssumption DEF Login, Sign, Begin, Blank, rows, SessionInv, TypeOK, Carries,
     Storing, SessionKeepsItsUser
<1>4. Carries(r)'
  BY AuthAssumption DEF Login, Sign, Begin, Blank, rows, SessionInv, TypeOK, Request,
     Carries, Storing
<1>5. \A q \in Requests \ {r} : req'[q] = req[q]
  BY DEF Login, Sign, Begin, Blank, rows, SessionInv, TypeOK
<1> QED
  BY <1>1, <1>2, <1>3, <1>4, <1>5, OneRequest

(* A refresh finds a session of its user.                                  *)
LEMMA RefreshKeeps ==
  ASSUME SessionInv, NEW r \in Requests, NEW t \in Tokens, NEW d \in Devices,
         NEW x \in Sessions, Refresh(r, t, d, x)
  PROVE  SessionInv'
<1>1. Lasting
  BY AuthAssumption DEF Refresh, Refreshable, OpenSessions, Begin, Blank, rows,
     SessionInv, TypeOK, Lasting
<1>2. TypeOK'
  BY AuthAssumption DEF Refresh, Refreshable, OpenSessions, Begin, Blank, rows,
     SessionInv, TypeOK, Request, Carries, Storing
<1>3. SessionKeepsItsUser'
  BY AuthAssumption DEF Refresh, Refreshable, OpenSessions, Begin, Blank, rows,
     SessionInv, TypeOK, Carries, Storing, SessionKeepsItsUser
<1>4. Carries(r)'
  BY AuthAssumption DEF Refresh, Refreshable, OpenSessions, Begin, Blank, rows,
     SessionInv, TypeOK, Request, Carries, Storing
<1>5. \A q \in Requests \ {r} : req'[q] = req[q]
  BY DEF Refresh, Refreshable, OpenSessions, Begin, Blank, rows, SessionInv, TypeOK
<1> QED
  BY <1>1, <1>2, <1>3, <1>4, <1>5, OneRequest

(* A logout finds a session of its user.                                   *)
LEMMA LogoutKeeps ==
  ASSUME SessionInv, NEW r \in Requests, NEW t \in Tokens, NEW x \in Sessions,
         Logout(r, t, x)
  PROVE  SessionInv'
<1>1. Lasting
  BY AuthAssumption DEF Logout, Begin, Blank, rows, SessionInv, TypeOK, Lasting
<1>2. TypeOK'
  BY AuthAssumption DEF Logout, Begin, Blank, rows, SessionInv, TypeOK, Request,
     Carries, Storing
<1>3. SessionKeepsItsUser'
  BY AuthAssumption DEF Logout, Begin, Blank, rows, SessionInv, TypeOK, Carries,
     Storing, SessionKeepsItsUser
<1>4. Carries(r)'
  BY AuthAssumption DEF Logout, Begin, Blank, rows, SessionInv, TypeOK, Request,
     Carries, Storing
<1>5. \A q \in Requests \ {r} : req'[q] = req[q]
  BY DEF Logout, Begin, Blank, rows, SessionInv, TypeOK
<1> QED
  BY <1>1, <1>2, <1>3, <1>4, <1>5, OneRequest

(* A logout from all devices.                                              *)
LEMMA LogoutAllKeeps ==
  ASSUME SessionInv, NEW r \in Requests, NEW u \in Users, LogoutAll(r, u)
  PROVE  SessionInv'
<1>1. Lasting
  BY AuthAssumption DEF LogoutAll, Begin, Blank, rows, SessionInv, TypeOK, Lasting
<1>2. TypeOK'
  BY AuthAssumption DEF LogoutAll, Begin, Blank, rows, SessionInv, TypeOK, Request,
     Carries, Storing
<1>3. SessionKeepsItsUser'
  BY AuthAssumption DEF LogoutAll, Begin, Blank, rows, SessionInv, TypeOK, Carries,
     Storing, SessionKeepsItsUser
<1>4. Carries(r)'
  BY AuthAssumption DEF LogoutAll, Begin, Blank, rows, SessionInv, TypeOK, Request,
     Carries, Storing
<1>5. \A q \in Requests \ {r} : req'[q] = req[q]
  BY DEF LogoutAll, Begin, Blank, rows, SessionInv, TypeOK
<1> QED
  BY <1>1, <1>2, <1>3, <1>4, <1>5, OneRequest

-----------------------------------------------------------------------------
(* They go on.                                                             *)

(* The account is there and a token signed for it.                         *)
LEMMA RegisterWriteKeeps ==
  ASSUME SessionInv, NEW r \in Requests, NEW t \in Tokens, RegisterWrite(r, t)
  PROVE  SessionInv'
<1>1. Lasting
  BY AuthAssumption DEF RegisterWrite, Sign, At, rows, SessionInv, TypeOK, Lasting
<1>2. TypeOK'
  <2>1. req[r] \in Request /\ req \in [Requests -> Request]
    BY DEF SessionInv, TypeOK
  <2>2. req' = [req EXCEPT ![r] = req'[r]] /\ req'[r] \in Request
    BY <2>1 DEF RegisterWrite, Request
  <2>3. req' \in [Requests -> Request]
    BY <2>1, <2>2
  <2> QED
    BY <2>3, AuthAssumption DEF RegisterWrite, Sign, At, rows, SessionInv, TypeOK,
       Carries, Storing
<1>3. SessionKeepsItsUser'
  BY AuthAssumption DEF RegisterWrite, Sign, At, rows, SessionInv, TypeOK, Carries,
     Storing, SessionKeepsItsUser
<1>4. Carries(r)'
  BY AuthAssumption DEF RegisterWrite, Sign, At, rows, SessionInv, TypeOK, Request,
     Carries, Storing
<1>5. \A q \in Requests \ {r} : req'[q] = req[q]
  BY DEF RegisterWrite, Sign, At, rows, SessionInv, TypeOK
<1> QED
  BY <1>1, <1>2, <1>3, <1>4, <1>5, OneRequest

(* Another registration took the name.                                     *)
LEMMA RegisterConflictKeeps ==
  ASSUME SessionInv, NEW r \in Requests, RegisterConflict(r)
  PROVE  SessionInv'
<1>1. Lasting
  BY AuthAssumption DEF RegisterConflict, At, Finish, Blank, rows, SessionInv,
     TypeOK, Lasting
<1>2. TypeOK'
  BY AuthAssumption DEF RegisterConflict, At, Finish, Blank, rows, SessionInv,
     TypeOK, Request, Carries, Storing
<1>3. SessionKeepsItsUser'
  BY AuthAssumption DEF RegisterConflict, At, Finish, Blank, rows, SessionInv,
     TypeOK, Carries, Storing, SessionKeepsItsUser
<1>4. Carries(r)'
  BY AuthAssumption DEF RegisterConflict, At, Finish, Blank, rows, SessionInv,
     TypeOK, Request, Carries, Storing
<1>5. \A q \in Requests \ {r} : req'[q] = req[q]
  BY DEF RegisterConflict, At, Finish, Blank, rows, SessionInv, TypeOK
<1> QED
  BY <1>1, <1>2, <1>3, <1>4, <1>5, OneRequest

(* The session found is one of the request's user.                         *)
LEMMA StoreFindKeeps ==
  ASSUME SessionInv, NEW r \in Requests, NEW x \in Sessions, StoreFind(r, x)
  PROVE  SessionInv'
<1>1. Lasting
  BY AuthAssumption DEF StoreFind, Reusable, OpenSessions, At, rows, SessionInv,
     TypeOK, Lasting
<1>2. TypeOK'
  <2>1. req[r] \in Request /\ req \in [Requests -> Request]
    BY DEF SessionInv, TypeOK
  <2>2. req' = [req EXCEPT ![r] = req'[r]] /\ req'[r] \in Request
    BY <2>1 DEF StoreFind, Request
  <2>3. req' \in [Requests -> Request]
    BY <2>1, <2>2
  <2> QED
    BY <2>3, AuthAssumption DEF StoreFind, Reusable, OpenSessions, At, rows,
       SessionInv, TypeOK, Carries, Storing
<1>3. SessionKeepsItsUser'
  BY AuthAssumption DEF StoreFind, Reusable, OpenSessions, At, rows, SessionInv,
     TypeOK, Carries, Storing, SessionKeepsItsUser
<1>4. Carries(r)'
  BY AuthAssumption DEF StoreFind, Reusable, OpenSessions, At, rows, SessionInv,
     TypeOK, Request, Carries, Storing
<1>5. \A q \in Requests \ {r} : req'[q] = req[q]
  BY DEF StoreFind, Reusable, OpenSessions, At, rows, SessionInv, TypeOK
<1> QED
  BY <1>1, <1>2, <1>3, <1>4, <1>5, OneRequest

(* None is found.                                                          *)
LEMMA StoreFindNoneKeeps ==
  ASSUME SessionInv, NEW r \in Requests, StoreFindNone(r)
  PROVE  SessionInv'
<1>1. Lasting
  BY AuthAssumption DEF StoreFindNone, At, rows, SessionInv, TypeOK, Lasting
<1>2. TypeOK'
  BY AuthAssumption DEF StoreFindNone, At, rows, SessionInv, TypeOK, Request,
     Carries, Storing
<1>3. SessionKeepsItsUser'
  BY AuthAssumption DEF StoreFindNone, At, rows, SessionInv, TypeOK, Carries,
     Storing, SessionKeepsItsUser
<1>4. Carries(r)'
  BY AuthAssumption DEF StoreFindNone, At, rows, SessionInv, TypeOK, Request,
     Carries, Storing
<1>5. \A q \in Requests \ {r} : req'[q] = req[q]
  BY DEF StoreFindNone, At, rows, SessionInv, TypeOK
<1> QED
  BY <1>1, <1>2, <1>3, <1>4, <1>5, OneRequest

(* A request that ends, or breaks off, and changes nothing else.           *)
LEMMA FinishKeeps ==
  ASSUME SessionInv, NEW r \in Requests, Finish(r),
         UNCHANGED <<registered, signedFor, held, rows, spent>>
  PROVE  SessionInv'
<1>1. Lasting
  BY AuthAssumption DEF Finish, Blank, rows, SessionInv, TypeOK, Lasting
<1>2. TypeOK'
  BY AuthAssumption DEF Finish, Blank, rows, SessionInv, TypeOK, Request, Carries, Storing
<1>3. SessionKeepsItsUser'
  BY AuthAssumption DEF Finish, Blank, rows, SessionInv, TypeOK, Carries, Storing,
     SessionKeepsItsUser
<1>4. Carries(r)'
  BY AuthAssumption DEF Finish, Blank, rows, SessionInv, TypeOK, Request, Carries, Storing
<1>5. \A q \in Requests \ {r} : req'[q] = req[q]
  BY DEF Finish, Blank, rows, SessionInv, TypeOK
<1> QED
  BY <1>1, <1>2, <1>3, <1>4, <1>5, OneRequest

(* A request that has stored its token keeps only its user and its token.  *)
LEMMA StoredSlot ==
  ASSUME TypeOK, NEW r \in Requests, StoreDone(r)
  PROVE  /\ req' \in [Requests -> Request] /\ req'[r].pc = "store_clean"
         /\ req'[r].user = req[r].user /\ req'[r].fresh = req[r].fresh
         /\ \A q \in Requests \ {r} : req'[q] = req[q]
<1> DEFINE l == [Blank EXCEPT !.pc = "store_clean", !.user = req[r].user, !.fresh = req[r].fresh]
<1>1. req[r] \in Request /\ req \in [Requests -> Request]
  BY DEF TypeOK
<1>2. /\ l \in Request /\ l.pc = "store_clean"
      /\ l.user = req[r].user /\ l.fresh = req[r].fresh
  BY <1>1, AuthAssumption DEF Blank, Request
<1>3. req' = [req EXCEPT ![r] = l]
  BY DEF StoreDone
<1> HIDE DEF l
<1> QED
  BY <1>1, <1>2, <1>3

(* The session found, if it is still there, gets the token signed for its  *)
(* user.                                                                   *)
LEMMA StoreUpdateKeeps ==
  ASSUME SessionInv, NEW r \in Requests, StoreUpdate(r)
  PROVE  SessionInv'
<1>1. CASE ~Exists(req[r].session)
  <2>1. /\ Finish(r) /\ UNCHANGED <<registered, signedFor, held, rows, spent>>
    BY <1>1 DEF StoreUpdate, rows
  <2> QED
    BY <2>1, FinishKeeps
<1>2. CASE Exists(req[r].session)
  <2> DEFINE y == req[r].session
  <2>1. /\ req[r].pc = "store_update" /\ y \in Sessions /\ req[r].user \in Users
        /\ owner[y] = req[r].user /\ req[r].fresh \in Tokens
        /\ signedFor[req[r].fresh] = req[r].user
    BY <1>2 DEF StoreUpdate, At, SessionInv, Carries, Storing
  <2>2. /\ state' = [state EXCEPT ![y] = Extended(@)]
        /\ token' = [token EXCEPT ![y] = req[r].fresh] /\ StoreDone(r)
        /\ UNCHANGED <<registered, signedFor, held, owner, device, spent>>
    BY <1>2 DEF StoreUpdate, StoredToken
  <2>3. /\ req' \in [Requests -> Request] /\ req'[r].pc = "store_clean"
        /\ req'[r].user = req[r].user /\ req'[r].fresh = req[r].fresh
        /\ \A q \in Requests \ {r} : req'[q] = req[q]
    BY <2>2, StoredSlot DEF SessionInv
  <2>4. Lasting
    BY <2>2, AuthAssumption DEF Extended, SessionInv, TypeOK, Lasting
  <2>5. TypeOK'
    BY <1>2, <2>1, <2>2, <2>3 DEF Extended, SessionInv, TypeOK
  <2>6. SessionKeepsItsUser'
    BY <1>2, <2>1, <2>2 DEF Extended, SessionInv, TypeOK, SessionKeepsItsUser
  <2>7. Carries(r)'
    BY <2>1, <2>2, <2>3 DEF Carries, Storing
  <2> QED
    BY <2>3, <2>4, <2>5, <2>6, <2>7, OneRequest
<1> QED
  BY <1>1, <1>2

(* A new session gets the token signed for its user.                       *)
LEMMA StoreCreateKeeps ==
  ASSUME SessionInv, NEW r \in Requests, NEW x \in Sessions, StoreCreate(r, x)
  PROVE  SessionInv'
<1>1. Lasting
  BY AuthAssumption DEF StoreCreate, StoredToken, StoreDone, Blank, At, SessionInv, TypeOK, Lasting
<1>2. TypeOK'
  BY AuthAssumption DEF StoreCreate, StoredToken, StoreDone, Blank, At, SessionInv, TypeOK, Request,
     Carries, Storing
<1>3. SessionKeepsItsUser'
  BY AuthAssumption DEF StoreCreate, StoredToken, StoreDone, Blank, At, SessionInv, TypeOK, Carries,
     Storing, SessionKeepsItsUser
<1>4. Carries(r)'
  BY AuthAssumption DEF StoreCreate, StoredToken, StoreDone, Blank, At, SessionInv, TypeOK, Request,
     Carries, Storing
<1>5. \A q \in Requests \ {r} : req'[q] = req[q]
  BY DEF StoreCreate, StoredToken, StoreDone, Blank, At, SessionInv, TypeOK
<1> QED
  BY <1>1, <1>2, <1>3, <1>4, <1>5, OneRequest

(* Dead rows are deleted, which keep what they held.                       *)
LEMMA StoreCleanKeeps ==
  ASSUME SessionInv, NEW r \in Requests, StoreClean(r)
  PROVE  SessionInv'
<1>1. Lasting
  BY AuthAssumption DEF StoreClean, Dead, Emptied, At, Finish, Blank, SessionInv, TypeOK, Lasting
<1>2. TypeOK'
  BY AuthAssumption DEF StoreClean, Dead, Emptied, At, Finish, Blank, SessionInv, TypeOK, Request,
     Carries, Storing
<1>3. SessionKeepsItsUser'
  BY AuthAssumption DEF StoreClean, Dead, Emptied, At, Finish, Blank, SessionInv, TypeOK, Carries,
     Storing, SessionKeepsItsUser
<1>4. Carries(r)'
  BY AuthAssumption DEF StoreClean, Dead, Emptied, At, Finish, Blank, SessionInv, TypeOK, Request,
     Carries, Storing
<1>5. \A q \in Requests \ {r} : req'[q] = req[q]
  BY DEF StoreClean, Dead, Emptied, At, Finish, Blank, SessionInv, TypeOK
<1> QED
  BY <1>1, <1>2, <1>3, <1>4, <1>5, OneRequest

(* The old session is revoked.                                             *)
LEMMA RefreshRevokeKeeps ==
  ASSUME SessionInv, NEW r \in Requests, RefreshRevoke(r)
  PROVE  SessionInv'
<1>1. Lasting
  BY AuthAssumption DEF RefreshRevoke, At, SessionInv, TypeOK, Lasting
<1>2. TypeOK'
  <2>1. req[r] \in Request /\ req \in [Requests -> Request]
    BY DEF SessionInv, TypeOK
  <2>2. req' = [req EXCEPT ![r] = req'[r]] /\ req'[r] \in Request
    BY <2>1 DEF RefreshRevoke, Request
  <2>3. req' \in [Requests -> Request]
    BY <2>1, <2>2
  <2> QED
    BY <2>3, AuthAssumption DEF RefreshRevoke, At, SessionInv, TypeOK, Carries
<1>3. SessionKeepsItsUser'
  BY AuthAssumption DEF RefreshRevoke, At, SessionInv, TypeOK, Carries,
     Storing, SessionKeepsItsUser
<1>4. Carries(r)'
  BY AuthAssumption DEF RefreshRevoke, At, SessionInv, TypeOK, Request,
     Carries, Storing
<1>5. \A q \in Requests \ {r} : req'[q] = req[q]
  BY DEF RefreshRevoke, At, SessionInv, TypeOK
<1> QED
  BY <1>1, <1>2, <1>3, <1>4, <1>5, OneRequest

(* A new token is signed for its user.                                     *)
LEMMA RefreshSignKeeps ==
  ASSUME SessionInv, NEW r \in Requests, NEW t \in Tokens, RefreshSign(r, t)
  PROVE  SessionInv'
<1>1. Lasting
  BY AuthAssumption DEF RefreshSign, Sign, At, rows, SessionInv, TypeOK, Lasting
<1>2. TypeOK'
  <2>1. req[r] \in Request /\ req \in [Requests -> Request]
    BY DEF SessionInv, TypeOK
  <2>2. req' = [req EXCEPT ![r] = req'[r]] /\ req'[r] \in Request
    BY <2>1 DEF RefreshSign, Request
  <2>3. req' \in [Requests -> Request]
    BY <2>1, <2>2
  <2> QED
    BY <2>3, AuthAssumption DEF RefreshSign, Sign, At, rows, SessionInv, TypeOK, Carries, Storing
<1>3. SessionKeepsItsUser'
  BY AuthAssumption DEF RefreshSign, Sign, At, rows, SessionInv, TypeOK, Carries,
     Storing, SessionKeepsItsUser
<1>4. Carries(r)'
  BY AuthAssumption DEF RefreshSign, Sign, At, rows, SessionInv, TypeOK, Request,
     Carries, Storing
<1>5. \A q \in Requests \ {r} : req'[q] = req[q]
  BY DEF RefreshSign, Sign, At, rows, SessionInv, TypeOK
<1> QED
  BY <1>1, <1>2, <1>3, <1>4, <1>5, OneRequest

(* All sessions of the user are revoked.                                   *)
LEMMA RevokeAllKeeps ==
  ASSUME SessionInv, NEW r \in Requests, RevokeAll(r)
  PROVE  SessionInv'
<1>1. Lasting
  BY AuthAssumption DEF RevokeAll, RevokeAllUserTokens, At, Finish, Blank,
     SessionInv, TypeOK, Lasting
<1>2. TypeOK'
  BY AuthAssumption DEF RevokeAll, RevokeAllUserTokens, At, Finish, Blank,
     SessionInv, TypeOK, Request, Carries, Storing
<1>3. SessionKeepsItsUser'
  BY AuthAssumption DEF RevokeAll, RevokeAllUserTokens, At, Finish, Blank,
     SessionInv, TypeOK, Carries, Storing, SessionKeepsItsUser
<1>4. Carries(r)'
  BY AuthAssumption DEF RevokeAll, RevokeAllUserTokens, At, Finish, Blank,
     SessionInv, TypeOK, Request, Carries, Storing
<1>5. \A q \in Requests \ {r} : req'[q] = req[q]
  BY DEF RevokeAll, RevokeAllUserTokens, At, Finish, Blank, SessionInv, TypeOK
<1> QED
  BY <1>1, <1>2, <1>3, <1>4, <1>5, OneRequest

(* One session is revoked.                                                 *)
LEMMA LogoutWriteKeeps ==
  ASSUME SessionInv, NEW r \in Requests, LogoutWrite(r)
  PROVE  SessionInv'
<1>1. Lasting
  BY AuthAssumption DEF LogoutWrite, At, Finish, Blank, SessionInv, TypeOK,
     Lasting
<1>2. TypeOK'
  BY AuthAssumption DEF LogoutWrite, At, Finish, Blank, SessionInv, TypeOK,
     Request, Carries, Storing
<1>3. SessionKeepsItsUser'
  BY AuthAssumption DEF LogoutWrite, At, Finish, Blank, SessionInv, TypeOK,
     Carries, Storing, SessionKeepsItsUser
<1>4. Carries(r)'
  BY AuthAssumption DEF LogoutWrite, At, Finish, Blank, SessionInv, TypeOK,
     Request, Carries, Storing
<1>5. \A q \in Requests \ {r} : req'[q] = req[q]
  BY DEF LogoutWrite, At, Finish, Blank, SessionInv, TypeOK
<1> QED
  BY <1>1, <1>2, <1>3, <1>4, <1>5, OneRequest

(* A session expires, which is no request's step.                          *)
LEMMA ExpireKeeps ==
  ASSUME SessionInv, NEW x \in Sessions, Expire(x)
  PROVE  SessionInv'
<1>1. Lasting
  BY DEF Expire, SessionInv, TypeOK, Lasting
<1>2. TypeOK'
  BY DEF Expire, SessionInv, TypeOK
<1>3. SessionKeepsItsUser'
  BY DEF Expire, SessionInv, TypeOK, SessionKeepsItsUser
<1>4. \A q \in Requests : req'[q] = req[q]
  BY DEF Expire
<1> QED
  BY <1>1, <1>2, <1>3, <1>4, OthersCarry DEF SessionInv

-----------------------------------------------------------------------------
(* At the start there are no accounts, no sessions and no requests.        *)
LEMMA SessionInit == Init => SessionInv
BY DEF Init, SessionInv, TypeOK, SessionKeepsItsUser, Carries, Request, Blank, Storing

(* Every step keeps the invariant.                                         *)
LEMMA SessionStep == SessionInv /\ [Next]_vars => SessionInv'
<1> SUFFICES ASSUME SessionInv, [Next]_vars PROVE SessionInv'
  OBVIOUS
<1>1. ASSUME NEW r \in Requests, Arrive(r) PROVE SessionInv'
  BY <1>1, RegisterKeeps, LoginKeeps, RefreshKeeps, LogoutKeeps,
     LogoutAllKeeps DEF Arrive
<1>2. ASSUME NEW r \in Requests, Continue(r) PROVE SessionInv'
  BY <1>2, RegisterWriteKeeps, RegisterConflictKeeps, StoreFindKeeps,
     StoreFindNoneKeeps,
     StoreUpdateKeeps, StoreCreateKeeps, StoreCleanKeeps, RefreshRevokeKeeps,
     RefreshSignKeeps, RevokeAllKeeps, LogoutWriteKeeps DEF Continue
<1>3. CASE UNCHANGED vars
  BY <1>3 DEF vars, rows, SessionInv, TypeOK, SessionKeepsItsUser, Carries
<1> QED
  BY <1>1, <1>2, <1>3, FinishKeeps, ExpireKeeps DEF Next, Fail

-----------------------------------------------------------------------------
(* Rows, tokens and the locals of requests keep their types, and a row     *)
(* that was created has an owner, a token and a device.                    *)
THEOREM TypeCorrect == Spec => []TypeOK
<1>1. SessionInv => TypeOK
  BY DEF SessionInv
<1> QED
  BY SessionInit, SessionStep, <1>1, PTL DEF Spec

(* No interleaving of logins and refreshes, of one device or of many, puts *)
(* a token of one user into a session of another (storeRefreshToken).      *)
THEOREM SessionsKeepTheirUser == Spec => []SessionKeepsItsUser
<1>1. SessionInv => SessionKeepsItsUser
  BY DEF SessionInv
<1> QED
  BY SessionInit, SessionStep, <1>1, PTL DEF Spec

(* A step leaves a revoked session revoked or deletes it.                  *)
LEMMA RevokedStep ==
  ASSUME TypeOK, [Next]_vars, NEW x \in Sessions, state[x] = "revoked"
  PROVE  state'[x] \in {"revoked", "deleted"}
<1>1. ASSUME NEW r \in Requests, Arrive(r) PROVE state' = state
  BY <1>1 DEF Arrive, Register, Login, Refresh, Logout, LogoutAll, rows
<1>2. ASSUME NEW r \in Requests, Continue(r) PROVE state'[x] \in {"revoked", "deleted"}
  <2>1. ASSUME NEW y \in Sessions, StoreCreate(r, y) PROVE state'[x] = state[x]
    BY <2>1 DEF StoreCreate, TypeOK
  <2>2. CASE StoreUpdate(r)
    BY <2>2 DEF StoreUpdate, Extended, TypeOK
  <2>3. CASE StoreClean(r)
    BY <2>3 DEF StoreClean, Emptied
  <2>4. CASE RevokeAll(r)
    BY <2>4 DEF RevokeAll, RevokeAllUserTokens
  <2>5. CASE LogoutWrite(r)
    BY <2>5 DEF LogoutWrite, TypeOK
  <2>6. CASE RefreshRevoke(r)
    BY <2>6 DEF RefreshRevoke, TypeOK
  <2>7. CASE \/ \E t \in Tokens : RegisterWrite(r, t) \/ RefreshSign(r, t)
             \/ RegisterConflict(r)
             \/ \E y \in Sessions : StoreFind(r, y)
             \/ StoreFindNone(r)
    BY <2>7 DEF RegisterWrite, RefreshSign, RegisterConflict, StoreFind, StoreFindNone, rows
  <2> QED
    BY <1>2, <2>1, <2>2, <2>3, <2>4, <2>5, <2>6, <2>7 DEF Continue
<1>3. ASSUME NEW r \in Requests, Fail(r) PROVE state' = state
  BY <1>3 DEF Fail, rows
<1>4. ASSUME NEW y \in Sessions, Expire(y) PROVE state'[x] = state[x]
  BY <1>4 DEF Expire, TypeOK
<1>5. CASE UNCHANGED vars
  BY <1>5 DEF vars, rows
<1> QED
  BY <1>1, <1>2, <1>3, <1>4, <1>5 DEF Next

(* A step leaves a deleted session deleted.                                *)
LEMMA DeletedStep ==
  ASSUME TypeOK, [Next]_vars, NEW x \in Sessions, state[x] = "deleted"
  PROVE  state'[x] = "deleted"
<1>1. ASSUME NEW r \in Requests, Arrive(r) PROVE state' = state
  BY <1>1 DEF Arrive, Register, Login, Refresh, Logout, LogoutAll, rows
<1>2. ASSUME NEW r \in Requests, Continue(r) PROVE state'[x] = "deleted"
  <2>1. ASSUME NEW y \in Sessions, StoreCreate(r, y) PROVE state'[x] = state[x]
    BY <2>1 DEF StoreCreate, TypeOK
  <2>2. CASE StoreUpdate(r)
    BY <2>2 DEF StoreUpdate, Extended, TypeOK
  <2>3. CASE StoreClean(r)
    BY <2>3 DEF StoreClean, Emptied
  <2>4. CASE RevokeAll(r)
    BY <2>4 DEF RevokeAll, RevokeAllUserTokens
  <2>5. CASE LogoutWrite(r)
    BY <2>5 DEF LogoutWrite, TypeOK
  <2>6. CASE RefreshRevoke(r)
    BY <2>6 DEF RefreshRevoke, TypeOK
  <2>7. CASE \/ \E t \in Tokens : RegisterWrite(r, t) \/ RefreshSign(r, t)
             \/ RegisterConflict(r)
             \/ \E y \in Sessions : StoreFind(r, y)
             \/ StoreFindNone(r)
    BY <2>7 DEF RegisterWrite, RefreshSign, RegisterConflict, StoreFind, StoreFindNone, rows
  <2> QED
    BY <1>2, <2>1, <2>2, <2>3, <2>4, <2>5, <2>6, <2>7 DEF Continue
<1>3. ASSUME NEW r \in Requests, Fail(r) PROVE state' = state
  BY <1>3 DEF Fail, rows
<1>4. ASSUME NEW y \in Sessions, Expire(y) PROVE state'[x] = state[x]
  BY <1>4 DEF Expire, TypeOK
<1>5. CASE UNCHANGED vars
  BY <1>5 DEF vars, rows
<1> QED
  BY <1>1, <1>2, <1>3, <1>4, <1>5 DEF Next

(* Neither the new expiry that a login writes to a session it found open   *)
(* nor anything else opens a revoked session (logout, refreshTokens).      *)
THEOREM RevocationIsFinal == Spec => RevokedIsFinal
<1>1. TypeOK /\ [Next]_vars =>
        [\A x \in Sessions :
           state[x] = "revoked" => state'[x] \in {"revoked", "deleted"}]_vars
  BY RevokedStep
<1> QED
  BY TypeCorrect, <1>1, PTL DEF Spec, RevokedIsFinal

-----------------------------------------------------------------------------
(* Rotation.  The requests that found the session x open and will revoke   *)
(* it; what they add to spent[x] there is place for, since none sets out   *)
(* once x is revoked.                                                      *)
Rotating(x) == {r \in Requests : req[r].pc = "refresh_revoke" /\ req[r].session = x}

RotationInv ==
  \A x \in Sessions :
    /\ spent[x] > 0 => state[x] \in {"revoked", "deleted"}
    /\ spent[x] + Cardinality(Rotating(x)) <= Cardinality(Requests)

(* Sets of requests can be counted.                                        *)
LEMMA CountRequests ==
  ASSUME NEW S \in SUBSET Requests
  PROVE  /\ IsFiniteSet(S) /\ Cardinality(S) \in Nat /\ Cardinality(Requests) \in Nat
         /\ Cardinality(S) <= Cardinality(Requests)
         /\ \A T \in SUBSET S : Cardinality(T) <= Cardinality(S)
         /\ \A r \in S : Cardinality(S \ {r}) = Cardinality(S) - 1
BY FS_Subset, FS_CardinalityType, FS_RemoveElement, AuthAssumption

(* A session no refresh has revoked has room for all requests; of another  *)
(* a request in progress revokes it, or what is counted only shrinks.      *)
LEMMA RotationCounts ==
  ASSUME TypeOK, RotationInv, NEW x \in Sessions,
         \/ spent'[x] = 0
         \/ spent'[x] = spent[x] /\ Rotating(x)' \subseteq Rotating(x)
         \/ \E r \in Rotating(x) :
              spent'[x] = spent[x] + 1 /\ Rotating(x)' \subseteq Rotating(x) \ {r}
  PROVE  spent'[x] + Cardinality(Rotating(x)') <= Cardinality(Requests)
<1> DEFINE A == Rotating(x)
           B == Rotating(x)'
<1>1. A \in SUBSET Requests /\ B \in SUBSET Requests
  BY DEF Rotating
<1>2. spent[x] \in Nat /\ spent[x] + Cardinality(A) <= Cardinality(Requests)
  BY DEF TypeOK, RotationInv
<1>3. /\ Cardinality(A) \in Nat /\ Cardinality(B) \in Nat /\ Cardinality(Requests) \in Nat
      /\ Cardinality(B) <= Cardinality(Requests)
      /\ B \subseteq A => Cardinality(B) <= Cardinality(A)
  BY <1>1, CountRequests
<1>4. ASSUME NEW r \in A, B \subseteq A \ {r} PROVE Cardinality(B) <= Cardinality(A) - 1
  <2>1. A \ {r} \in SUBSET Requests /\ Cardinality(A \ {r}) = Cardinality(A) - 1
    BY <1>1, CountRequests
  <2>2. Cardinality(B) <= Cardinality(A \ {r})
    BY <1>4, <2>1, CountRequests
  <2> QED
    BY <2>1, <2>2
<1> HIDE DEF A, B
<1> QED
  BY <1>2, <1>3, <1>4 DEF A, B

(* Which of the three a step does.                                         *)
LEMMA RotationStep ==
  ASSUME SessionInv, RotationInv, [Next]_vars
  PROVE  RotationInv'
<1> DEFINE Elsewhere == /\ spent' = spent
                        /\ \A r \in Requests : req'[r].pc = "refresh_revoke" => req'[r] = req[r]
<1> USE DEF SessionInv
<1>1. ASSUME NEW x \in Sessions, state[x] \in {"revoked", "deleted"}
      PROVE  state'[x] \in {"revoked", "deleted"}
  <2>1. CASE state[x] = "revoked"
    BY <2>1, RevokedStep
  <2>2. CASE state[x] = "deleted"
    BY <2>2, DeletedStep
  <2> QED
    BY <1>1, <2>1, <2>2
<1>2. ASSUME NEW x \in Sessions, NEW r \in Requests, RefreshRevoke(r)
      PROVE  /\ spent'[x] > 0 => state'[x] \in {"revoked", "deleted"}
             /\ \/ spent'[x] = spent[x] /\ Rotating(x)' \subseteq Rotating(x)
                \/ /\ r \in Rotating(x) /\ spent'[x] = spent[x] + 1
                   /\ Rotating(x)' \subseteq Rotating(x) \ {r}
  <2>1. /\ req[r].pc = "refresh_revoke" /\ req'[r].pc = "refresh_sign"
        /\ \A q \in Requests \ {r} : req'[q] = req[q]
    BY <1>2 DEF RefreshRevoke, At, TypeOK, Request
  <2>2. Rotating(x)' \subseteq Rotating(x) \ {r}
    BY <2>1 DEF Rotating
  <2>3. CASE x = req[r].session
    BY <1>2, <2>1, <2>2, <2>3 DEF RefreshRevoke, Rotating, TypeOK
  <2>4. CASE x # req[r].session
    <3>1. spent'[x] = spent[x] /\ state'[x] = state[x]
      BY <1>2, <2>4 DEF RefreshRevoke, TypeOK
    <3> QED
      BY <2>2, <3>1 DEF RotationInv
  <2> QED
    BY <2>3, <2>4
<1>3. ASSUME NEW x \in Sessions, NEW r \in Requests, NEW t \in Tokens, NEW d \in Devices,
             NEW y \in Sessions, Refresh(r, t, d, y)
      PROVE  spent'[x] = spent[x] /\ (spent'[x] = 0 \/ Rotating(x)' \subseteq Rotating(x))
  <2>1. /\ \A q \in Requests \ {r} : req'[q] = req[q]
        /\ req'[r].session = y /\ state[y] = "open" /\ spent' = spent
    BY <1>3 DEF Refresh, Begin, Blank, Refreshable, OpenSessions, TypeOK
  <2>2. x = y => spent[x] = 0
    BY <2>1 DEF RotationInv, TypeOK
  <2> QED
    BY <2>1, <2>2 DEF Rotating
<1>4. \/ \E r \in Requests : RefreshRevoke(r)
      \/ \E r \in Requests, t \in Tokens, d \in Devices, y \in Sessions : Refresh(r, t, d, y)
      \/ Elsewhere
  <2>1. ASSUME NEW r \in Requests, Arrive(r),
               ~\E t \in Tokens, d \in Devices, y \in Sessions : Refresh(r, t, d, y)
        PROVE  Elsewhere
    BY <2>1 DEF Arrive, Register, Login, Logout, LogoutAll, Begin, Blank, TypeOK
  <2>2. ASSUME NEW r \in Requests, Continue(r), ~RefreshRevoke(r)
        PROVE  Elsewhere
    <3>1. CASE (\E x \in Sessions : StoreCreate(r, x)) \/ (StoreUpdate(r) /\ ~Finish(r))
      <4>1. StoreDone(r) /\ spent' = spent
        BY <3>1 DEF StoreCreate, StoreUpdate
      <4> QED
        BY <4>1, StoredSlot
    <3>2. CASE \/ RegisterConflict(r) \/ StoreClean(r) \/ RevokeAll(r) \/ LogoutWrite(r)
               \/ StoreUpdate(r) /\ Finish(r)
      BY <3>2 DEF RegisterConflict, StoreClean, RevokeAll, LogoutWrite, StoreUpdate, Finish, Blank,
         TypeOK, rows
    <3>3. CASE \/ \E t \in Tokens : RegisterWrite(r, t) \/ RefreshSign(r, t)
               \/ \E x \in Sessions : StoreFind(r, x)
               \/ StoreFindNone(r)
      BY <3>3 DEF RegisterWrite, RefreshSign, StoreFind, StoreFindNone, TypeOK, Request
    <3> QED
      BY <2>2, <3>1, <3>2, <3>3 DEF Continue
  <2>3. ASSUME NEW r \in Requests, Fail(r) PROVE Elsewhere
    BY <2>3 DEF Fail, Finish, Blank, TypeOK
  <2>4. ASSUME NEW x \in Sessions, Expire(x) PROVE Elsewhere
    BY <2>4 DEF Expire
  <2>5. CASE UNCHANGED vars
    BY <2>5 DEF vars
  <2> QED
    BY <2>1, <2>2, <2>3, <2>4, <2>5 DEF Next
<1>5. ASSUME NEW x \in Sessions
      PROVE  /\ spent'[x] > 0 => state'[x] \in {"revoked", "deleted"}
             /\ \/ spent'[x] = 0
                \/ spent'[x] = spent[x] /\ Rotating(x)' \subseteq Rotating(x)
                \/ \E r \in Rotating(x) :
                     spent'[x] = spent[x] + 1 /\ Rotating(x)' \subseteq Rotating(x) \ {r}
  <2>1. spent'[x] = spent[x] => (spent'[x] > 0 => state'[x] \in {"revoked", "deleted"})
    BY <1>1 DEF RotationInv
  <2>2. CASE Elsewhere
    BY <2>1, <2>2 DEF Rotating
  <2> QED
    BY <1>2, <1>3, <1>4, <2>1, <2>2
<1> QED
  BY <1>5, RotationCounts DEF RotationInv

(* A session is exchanged at most once by every request there can be, and  *)
(* by none that begins after the first exchange (refreshTokens).           *)
THEOREM RotationsAreBounded == Spec => []RotationsBounded
<1>1. Init => RotationInv
  <2> SUFFICES ASSUME Init, NEW x \in Sessions
               PROVE  spent[x] = 0 /\ Cardinality(Rotating(x)) <= Cardinality(Requests)
    BY CountRequests DEF RotationInv, Rotating
  <2> QED
    BY CountRequests DEF Init, Rotating
<1>2. TypeOK /\ RotationInv => RotationsBounded
  <2> SUFFICES ASSUME TypeOK, RotationInv, NEW x \in Sessions
               PROVE  spent[x] <= Cardinality(Requests)
    BY DEF RotationsBounded
  <2>1. Cardinality(Rotating(x)) \in Nat /\ Cardinality(Requests) \in Nat
    BY CountRequests DEF Rotating
  <2> QED
    BY <2>1 DEF RotationInv, TypeOK
<1>3. SessionInv => TypeOK
  BY DEF SessionInv
<1> QED
  BY SessionInit, SessionStep, RotationStep, <1>1, <1>2, <1>3, PTL DEF Spec

-----------------------------------------------------------------------------
(* Sessions of one device.  Those that are open, those a request in        *)
(* progress will open again though they have expired, and the requests     *)
(* that will create one are together no more than the requests there are.  *)
Renewing(x) == \E r \in Requests : req[r].pc = "store_update" /\ req[r].session = x
Live(u, d) ==
  {x \in Sessions : /\ owner[x] = u /\ device[x] = d
                    /\ state[x] = "open" \/ (state[x] = "expired" /\ Renewing(x))}
Creating(u, d) ==
  {r \in Requests : req[r].pc = "store_create" /\ req[r].user = u /\ req[r].device = d}
Updating == {r \in Requests : req[r].pc = "store_update"}

DeviceInv ==
  \A u \in Users, d \in Devices : ~Anonymous(d) =>
    Cardinality(Live(u, d)) + Cardinality(Creating(u, d)) <= Cardinality(Requests)

(* Sets of sessions can be counted as well.                                *)
LEMMA CountSessions ==
  ASSUME NEW S \in SUBSET Sessions
  PROVE  /\ IsFiniteSet(S) /\ Cardinality(S) \in Nat
         /\ \A T \in SUBSET S : Cardinality(T) <= Cardinality(S)
         /\ \A x : Cardinality(S \cup {x}) <= Cardinality(S) + 1
<1>1. IsFiniteSet(S) /\ Cardinality(S) \in Nat /\ \A T \in SUBSET S : Cardinality(T) <= Cardinality(S)
  BY FS_Subset, FS_CardinalityType, AuthAssumption
<1>2. ASSUME NEW x PROVE Cardinality(S \cup {x}) <= Cardinality(S) + 1
  BY <1>1, FS_AddElement
<1> QED
  BY <1>1, <1>2

(* What a finite set of requests points to is no more than the requests.   *)
LEMMA ImageCounts ==
  ASSUME NEW S, IsFiniteSet(S), NEW f
  PROVE  Cardinality({f[q] : q \in S}) <= Cardinality(S) /\ IsFiniteSet({f[q] : q \in S})
<1> DEFINE T == {f[q] : q \in S}
           g == [q \in S |-> f[q]]
<1>1. g \in Surjection(S, T)
  BY DEF Surjection
<1> HIDE DEF T, g
<1>2. IsFiniteSet(T) /\ Cardinality(T) <= Cardinality(S)
  BY <1>1, FS_Surjection
<1> QED
  BY <1>2 DEF T

(* A step by which no session of the device comes alive.                   *)
Shrinks ==
  /\ \A x \in Sessions :
       /\ state'[x] \in {"open", "expired"} => owner'[x] = owner[x] /\ device'[x] = device[x]
       /\ state'[x] = "open" => state[x] = "open" \/ (state[x] = "expired" /\ Renewing(x))
       /\ state'[x] = "expired" => state[x] \in {"open", "expired"}
  /\ \A r \in Requests :
       /\ req'[r].pc = "store_update" => req'[r] = req[r] \/ state[req'[r].session] = "open"
       /\ req'[r].pc = "store_create" => req'[r] = req[r]

(* Leaves the count where it is or lower.                                  *)
LEMMA ShrinkKeeps == ASSUME DeviceInv, Shrinks PROVE DeviceInv'
<1> SUFFICES ASSUME NEW u \in Users, NEW d \in Devices, ~Anonymous(d)
             PROVE  Cardinality(Live(u, d)') + Cardinality(Creating(u, d)') <= Cardinality(Requests)
  BY DEF DeviceInv
<1>1. Creating(u, d)' \subseteq Creating(u, d) /\ Creating(u, d) \in SUBSET Requests
  BY DEF Shrinks, Creating
<1>2. Live(u, d)' \subseteq Live(u, d) /\ Live(u, d) \in SUBSET Sessions
  <2>1. ASSUME NEW x \in Sessions, Renewing(x)' PROVE Renewing(x) \/ state[x] = "open"
    BY <2>1 DEF Shrinks, Renewing
  <2> QED
    BY <2>1 DEF Shrinks, Live
<1>3. Cardinality(Creating(u, d)') <= Cardinality(Creating(u, d))
      /\ Cardinality(Live(u, d)') <= Cardinality(Live(u, d))
  BY <1>1, <1>2, CountRequests, CountSessions
<1>4. /\ Cardinality(Creating(u, d)) \in Nat /\ Cardinality(Live(u, d)) \in Nat
      /\ Cardinality(Creating(u, d)') \in Nat /\ Cardinality(Live(u, d)') \in Nat
      /\ Cardinality(Requests) \in Nat
  BY <1>1, <1>2, CountRequests, CountSessions, FS_CardinalityType, FS_Subset, AuthAssumption
<1>5. Cardinality(Live(u, d)) + Cardinality(Creating(u, d)) <= Cardinality(Requests)
  BY DEF DeviceInv
<1> QED
  BY <1>3, <1>4, <1>5

(* A request that found no open session will create one.  Those that are   *)
(* to be opened again have each a request of their own.                    *)
LEMMA FindNoneKeeps ==
  ASSUME SessionInv, DeviceInv, NEW r \in Requests, StoreFindNone(r)
  PROVE  DeviceInv'
<1> SUFFICES ASSUME NEW u \in Users, NEW d \in Devices, ~Anonymous(d)
             PROVE  Cardinality(Live(u, d)') + Cardinality(Creating(u, d)') <= Cardinality(Requests)
  BY DEF DeviceInv
<1>1. /\ req[r].pc = "store_find"
      /\ Anonymous(req[r].device) \/ Reusable(req[r].user, req[r].device) = {}
      /\ req'[r] = [req[r] EXCEPT !.pc = "store_create"]
      /\ \A q \in Requests \ {r} : req'[q] = req[q]
      /\ UNCHANGED <<state, owner, device>>
  BY DEF StoreFindNone, At, rows, SessionInv, TypeOK
<1>2. req'[r].pc = "store_create" /\ req'[r].user = req[r].user /\ req'[r].device = req[r].device
  BY <1>1 DEF SessionInv, TypeOK, Request
<1>3. Live(u, d)' \subseteq Live(u, d) /\ Live(u, d) \in SUBSET Sessions
  BY <1>1, <1>2 DEF Live, Renewing
<1>4. CASE u = req[r].user /\ d = req[r].device
  <2>1. \A x \in Live(u, d)' : \E q \in Updating' : x = req'[q].session
    BY <1>1, <1>4 DEF Live, Renewing, Updating, Reusable, OpenSessions, Fits
  <2>2. /\ Updating' \in SUBSET Requests /\ Creating(u, d)' \in SUBSET Requests
        /\ Updating' \cap Creating(u, d)' = {}
    BY DEF Updating, Creating
  <2>3. IsFiniteSet(Updating') /\ Cardinality(Updating') \in Nat
        /\ IsFiniteSet(Creating(u, d)') /\ Cardinality(Creating(u, d)') \in Nat
    BY <2>2, CountRequests
  <2> DEFINE at == [q \in Requests |-> req'[q].session]
             Named == {at[q] : q \in Updating'}
  <2>4. Cardinality(Named) <= Cardinality(Updating') /\ IsFiniteSet(Named)
    <3> HIDE DEF at
    <3> QED
      BY <2>3, ImageCounts
  <2>5. Live(u, d)' \in SUBSET Named
    BY <2>1, <2>2
  <2>6. Cardinality(Live(u, d)') <= Cardinality(Named) /\ Cardinality(Named) \in Nat
        /\ Cardinality(Live(u, d)') \in Nat
    BY <2>4, <2>5, FS_Subset, FS_CardinalityType
  <2>7. Cardinality(Updating' \cup Creating(u, d)')
          = Cardinality(Updating') + Cardinality(Creating(u, d)')
    <3>1. Cardinality(Updating' \cap Creating(u, d)') = 0
      BY <2>2, FS_EmptySet
    <3> HIDE DEF Named
    <3>2. Cardinality(Updating' \cup Creating(u, d)')
            = Cardinality(Updating') + Cardinality(Creating(u, d)')
                - Cardinality(Updating' \cap Creating(u, d)')
      BY <2>3, FS_Union
    <3> QED
      BY <2>3, <3>1, <3>2
  <2>8. /\ Cardinality(Updating' \cup Creating(u, d)') <= Cardinality(Requests)
        /\ Cardinality(Requests) \in Nat
    <3>1. Updating' \cup Creating(u, d)' \in SUBSET Requests
      BY <2>2
    <3> QED
      BY <3>1, CountRequests
  <2> HIDE DEF Named
  <2> QED
    BY <2>3, <2>4, <2>6, <2>7, <2>8
<1>5. CASE ~(u = req[r].user /\ d = req[r].device)
  <2>1. Creating(u, d)' \subseteq Creating(u, d) /\ Creating(u, d) \in SUBSET Requests
    BY <1>1, <1>2, <1>5 DEF Creating
  <2>2. Cardinality(Creating(u, d)') <= Cardinality(Creating(u, d))
        /\ Cardinality(Live(u, d)') <= Cardinality(Live(u, d))
    BY <1>3, <2>1, CountRequests, CountSessions
  <2>3. /\ Cardinality(Creating(u, d)) \in Nat /\ Cardinality(Live(u, d)) \in Nat
        /\ Cardinality(Creating(u, d)') \in Nat /\ Cardinality(Live(u, d)') \in Nat
        /\ Cardinality(Requests) \in Nat
    BY <1>3, <2>1, CountRequests, CountSessions, FS_CardinalityType, FS_Subset, AuthAssumption
  <2>4. Cardinality(Live(u, d)) + Cardinality(Creating(u, d)) <= Cardinality(Requests)
    BY DEF DeviceInv
  <2> QED
    BY <2>2, <2>3, <2>4
<1> QED
  BY <1>4, <1>5

(* It is one request to create fewer and one session more when it does.    *)
LEMMA CreateKeeps ==
  ASSUME SessionInv, DeviceInv, NEW r \in Requests, NEW y \in Sessions, StoreCreate(r, y)
  PROVE  DeviceInv'
<1> SUFFICES ASSUME NEW u \in Users, NEW d \in Devices, ~Anonymous(d)
             PROVE  Cardinality(Live(u, d)') + Cardinality(Creating(u, d)') <= Cardinality(Requests)
  BY DEF DeviceInv
<1>1. /\ req[r].pc = "store_create" /\ req'[r].pc = "store_clean"
      /\ \A q \in Requests \ {r} : req'[q] = req[q]
      /\ \A x \in Sessions \ {y} :
           state'[x] = state[x] /\ owner'[x] = owner[x] /\ device'[x] = device[x]
      /\ state[y] = "none" /\ state'[y] = "open"
      /\ owner'[y] = req[r].user /\ device'[y] = req[r].device
  BY DEF StoreCreate, StoreDone, Blank, At, SessionInv, TypeOK
<1>2. /\ Live(u, d) \in SUBSET Sessions /\ Creating(u, d) \in SUBSET Requests
      /\ Creating(u, d)' \subseteq Creating(u, d) \ {r}
  BY <1>1 DEF Live, Creating
<1>3. \A x \in Sessions \ {y} : Renewing(x)' => Renewing(x)
  BY <1>1 DEF Renewing
<1>4. Live(u, d)' \subseteq Live(u, d) \cup {y}
  BY <1>1, <1>3 DEF Live
<1>5. CASE r \in Creating(u, d)
  <2>1. Creating(u, d) \ {r} \in SUBSET Requests /\ Live(u, d) \cup {y} \in SUBSET Sessions
    BY <1>2
  <2>2. /\ Cardinality(Creating(u, d)') <= Cardinality(Creating(u, d) \ {r})
        /\ Cardinality(Creating(u, d) \ {r}) = Cardinality(Creating(u, d)) - 1
    BY <1>2, <1>5, <2>1, CountRequests
  <2>3. /\ Cardinality(Live(u, d)') <= Cardinality(Live(u, d) \cup {y})
        /\ Cardinality(Live(u, d) \cup {y}) <= Cardinality(Live(u, d)) + 1
    BY <1>2, <1>4, <2>1, CountSessions
  <2>4. /\ Cardinality(Creating(u, d)) \in Nat /\ Cardinality(Live(u, d)) \in Nat
        /\ Cardinality(Live(u, d) \cup {y}) \in Nat /\ Cardinality(Requests) \in Nat
    BY <1>2, <2>1, CountRequests, CountSessions
  <2>5. Cardinality(Creating(u, d)') \in Nat /\ Cardinality(Live(u, d)') \in Nat
    BY <1>2, <1>4, <2>1, CountRequests, CountSessions, FS_Subset, FS_CardinalityType
  <2>6. Cardinality(Live(u, d)) + Cardinality(Creating(u, d)) <= Cardinality(Requests)
    BY DEF DeviceInv
  <2> QED
    BY <2>2, <2>3, <2>4, <2>5, <2>6
<1>6. CASE r \notin Creating(u, d)
  <2>1. y \notin Live(u, d)'
    BY <1>1, <1>6 DEF Live, Creating
  <2>2. Cardinality(Creating(u, d)') <= Cardinality(Creating(u, d))
        /\ Cardinality(Live(u, d)') <= Cardinality(Live(u, d))
    BY <1>2, <1>4, <2>1, CountRequests, CountSessions
  <2>3. /\ Cardinality(Creating(u, d)) \in Nat /\ Cardinality(Live(u, d)) \in Nat
        /\ Cardinality(Requests) \in Nat
    BY <1>2, CountRequests, CountSessions
  <2>4. Cardinality(Creating(u, d)') \in Nat /\ Cardinality(Live(u, d)') \in Nat
    <3>1. Creating(u, d)' \in SUBSET Requests /\ Live(u, d)' \in SUBSET Sessions
      BY <1>2, <1>4
    <3> QED
      BY <3>1, CountRequests, CountSessions
  <2>5. Cardinality(Live(u, d)) + Cardinality(Creating(u, d)) <= Cardinality(Requests)
    BY DEF DeviceInv
  <2> QED
    BY <2>2, <2>3, <2>4, <2>5
<1> QED
  BY <1>5, <1>6

(* Every other step only shrinks what is counted.                          *)
LEMMA DeviceStep == ASSUME SessionInv, DeviceInv, [Next]_vars PROVE DeviceInv'
<1>0. TypeOK
  BY DEF SessionInv
<1>1. ASSUME NEW r \in Requests, Arrive(r) PROVE Shrinks
  <2>1. UNCHANGED rows /\ \A q \in Requests \ {r} : req'[q] = req[q]
    BY <1>0, <1>1 DEF Arrive, Register, Login, Refresh, Logout, LogoutAll, Begin, TypeOK
  <2>2. req'[r].pc \notin {"store_update", "store_create"}
    <3>1. ASSUME NEW t \in Tokens, NEW d \in Devices, NEW x \in Sessions, Refresh(r, t, d, x)
          PROVE  req'[r].pc \in {"refresh_revoke", "revoke_all"}
      BY <1>0, <3>1 DEF Refresh, Begin, Blank, TypeOK
    <3>2. ASSUME NEW t \in Tokens, NEW x \in Sessions, Logout(r, t, x)
          PROVE  req'[r].pc = "logout"
      BY <1>0, <3>2 DEF Logout, Begin, Blank, TypeOK
    <3>3. ASSUME NEW u \in Users,
                 \/ \E d \in Devices : Register(r, u, d) \/ \E t \in Tokens : Login(r, u, d, t)
                 \/ LogoutAll(r, u)
          PROVE  req'[r].pc \in {"register", "store_find", "revoke_all"}
      BY <1>0, <3>3 DEF Register, Login, LogoutAll, Begin, Blank, TypeOK
    <3> QED
      BY <1>1, <3>1, <3>2, <3>3 DEF Arrive
  <2> QED
    BY <2>1, <2>2 DEF rows, Shrinks
<1>2. ASSUME NEW r \in Requests, NEW x \in Sessions, StoreFind(r, x) PROVE Shrinks
  BY <1>0, <1>2 DEF StoreFind, At, Reusable, OpenSessions, rows, TypeOK, Request, Shrinks
<1>3. ASSUME NEW r \in Requests, StoreUpdate(r) PROVE Shrinks
  <2>1. /\ req[r].pc = "store_update" /\ UNCHANGED <<owner, device>>
        /\ \A q \in Requests \ {r} : req'[q] = req[q]
        /\ req'[r].pc \in {"store_clean", "idle"}
    <3>1. CASE Exists(req[r].session)
      <4>1. StoreDone(r) /\ At(r, "store_update") /\ UNCHANGED <<owner, device>>
        BY <1>3, <3>1 DEF StoreUpdate
      <4> QED
        BY <1>0, <4>1, StoredSlot DEF At
    <3>2. CASE ~Exists(req[r].session)
      BY <1>0, <1>3, <3>2 DEF StoreUpdate, At, Finish, Blank, TypeOK
    <3> QED
      BY <3>1, <3>2
  <2>2. ASSUME NEW x \in Sessions
        PROVE  \/ state'[x] = state[x]
               \/ Renewing(x) /\ state[x] = "expired" /\ state'[x] = "open"
    BY <1>0, <1>3, <2>1 DEF StoreUpdate, Extended, Renewing, TypeOK
  <2> QED
    BY <2>1, <2>2 DEF Shrinks
<1>4. ASSUME NEW r \in Requests,
             \/ \E t \in Tokens : RegisterWrite(r, t) \/ RefreshSign(r, t)
             \/ RefreshRevoke(r) \/ RegisterConflict(r) \/ StoreClean(r) \/ RevokeAll(r)
             \/ LogoutWrite(r) \/ Fail(r)
      PROVE  Shrinks
  <2>1. \A q \in Requests \ {r} : req'[q] = req[q]
    BY <1>0, <1>4 DEF RegisterWrite, RefreshSign, RefreshRevoke, RegisterConflict, StoreClean,
       RevokeAll, LogoutWrite, Fail, Finish, TypeOK
  <2>2. req'[r].pc \notin {"store_update", "store_create"}
    <3>1. ASSUME (\E t \in Tokens : RegisterWrite(r, t) \/ RefreshSign(r, t)) \/ RefreshRevoke(r)
          PROVE  req'[r].pc \in {"store_find", "refresh_sign"}
      <4>1. CASE \E t \in Tokens : RegisterWrite(r, t)
        BY <1>0, <4>1 DEF RegisterWrite, TypeOK, Request
      <4>2. CASE \E t \in Tokens : RefreshSign(r, t)
        BY <1>0, <4>2 DEF RefreshSign, TypeOK, Request
      <4>3. CASE RefreshRevoke(r)
        BY <1>0, <4>3 DEF RefreshRevoke, TypeOK, Request
      <4> QED
        BY <3>1, <4>1, <4>2, <4>3
    <3>2. ASSUME RegisterConflict(r) \/ StoreClean(r) \/ RevokeAll(r) \/ LogoutWrite(r) \/ Fail(r)
          PROVE  req'[r].pc = "idle"
      BY <1>0, <3>2 DEF RegisterConflict, StoreClean, RevokeAll, LogoutWrite, Fail, Finish, Blank,
         TypeOK
    <3> QED
      BY <1>4, <3>1, <3>2
  <2>3. \A x \in Sessions :
          state'[x] \in {"open", "expired"} => owner'[x] = owner[x] /\ device'[x] = device[x]
    BY <1>0, <1>4 DEF RegisterWrite, RefreshSign, RefreshRevoke, RegisterConflict, StoreClean,
       Emptied, RevokeAll, LogoutWrite, Fail, rows, TypeOK
  <2>4. \A x \in Sessions : state'[x] = state[x] \/ state'[x] \in {"revoked", "deleted"}
    BY <1>0, <1>4 DEF RegisterWrite, RefreshSign, RefreshRevoke, RegisterConflict, StoreClean,
       Emptied, RevokeAll, RevokeAllUserTokens, LogoutWrite, Fail, rows, TypeOK
  <2> QED
    BY <2>1, <2>2, <2>3, <2>4 DEF Shrinks
<1>5. ASSUME NEW x \in Sessions, Expire(x) PROVE Shrinks
  BY <1>0, <1>5 DEF Expire, TypeOK, Shrinks
<1>6. ASSUME UNCHANGED vars PROVE Shrinks
  <2>1. state' = state /\ owner' = owner /\ device' = device /\ req' = req
    BY <1>6 DEF vars
  <2> QED
    BY <2>1 DEF Shrinks
<1> QED
  BY <1>1, <1>2, <1>3, <1>4, <1>5, <1>6, ShrinkKeeps, FindNoneKeeps, CreateKeeps
     DEF Next, Continue

(* A user has no more open sessions on a device than there are requests in *)
(* progress together, for any number of them, unless the device tells      *)
(* neither an address nor an agent (storeRefreshToken).                    *)
THEOREM DeviceSessionsAreBounded == Spec => []DeviceSessionsBounded
<1>1. Init => DeviceInv
  <2> SUFFICES ASSUME Init, NEW u \in Users, NEW d \in Devices
               PROVE  Live(u, d) = {} /\ Creating(u, d) = {}
    BY FS_EmptySet, CountRequests DEF DeviceInv
  <2> QED
    BY DEF Init, Live, Creating, Blank
<1>2. DeviceInv => DeviceSessionsBounded
  <2> SUFFICES ASSUME DeviceInv, NEW u \in Users, NEW d \in Devices, ~Anonymous(d)
               PROVE  Cardinality(OnDevice(u, d)) <= Cardinality(Requests)
    BY DEF DeviceSessionsBounded
  <2>1. /\ OnDevice(u, d) \in SUBSET Live(u, d) /\ Live(u, d) \in SUBSET Sessions
        /\ Creating(u, d) \in SUBSET Requests
    BY DEF OnDevice, OpenSessions, Live, Creating
  <2>2. /\ Cardinality(OnDevice(u, d)) <= Cardinality(Live(u, d))
        /\ Cardinality(Live(u, d)) \in Nat /\ Cardinality(Creating(u, d)) \in Nat
        /\ Cardinality(Requests) \in Nat
    BY <2>1, CountSessions, CountRequests
  <2>3. Cardinality(OnDevice(u, d)) \in Nat
    <3>1. OnDevice(u, d) \in SUBSET Sessions
      BY <2>1
    <3> QED
      BY <3>1, CountSessions
  <2>4. Cardinality(Live(u, d)) + Cardinality(Creating(u, d)) <= Cardinality(Requests)
    BY DEF DeviceInv
  <2> QED
    BY <2>2, <2>3, <2>4
<1> QED
  BY SessionInit, SessionStep, DeviceStep, <1>1, <1>2, PTL DEF Spec
=============================================================================
