-------------------------------- MODULE Auth --------------------------------
(***************************************************************************)
(* Accounts and sessions: AuthService over the RefreshToken rows.  A row   *)
(* is a session of a user on a device (ipAddress and deviceInfo, either of *)
(* which a client may lack); it holds the hash of the last refresh token   *)
(* given to it.                                                            *)
(*                                                                         *)
(* Signing and hashing touch no table; what matters of bcrypt is which     *)
(* tokens it takes for equal.  It reads 72 bytes.  The first 72 bytes of a *)
(* refresh token are the JWT's header and the base64 of {"sub":"..., with  *)
(* the first half of the user's id: the same for all tokens of a user.     *)
(*                                                                         *)
(* A slot holds a request in progress, as in the other modules.  Any call  *)
(* may fail (Fail): what was written stays.  A client uses only tokens it  *)
(* was given; one whose JWT has expired is refused before anything here.   *)
(***************************************************************************)
EXTENDS Naturals, FiniteSets

CONSTANTS
  Users,
  Devices,   \* records of an address "ip" and a user agent "agent"
  Uses,      \* bound: who uses which devices, as <<user, device>>
  Returning, \* bound: those who, once registered, log in, refresh and log out
  Tokens,    \* the refresh tokens that can be signed
  Sessions,  \* the rows that can be created
  Requests,  \* the slots
  NoAddress, NoAgent,  \* the fields of a device that lacks one
  Nobody, NoToken, NoDevice, NoSession  \* the fields of an empty slot or row

ASSUME AuthAssumption ==
  /\ Returning \subseteq Users /\ Uses \subseteq Users \X Devices
  /\ IsFiniteSet(Sessions) /\ IsFiniteSet(Requests)
  /\ Nobody \notin Users /\ NoToken \notin Tokens
  /\ NoDevice \notin Devices /\ NoSession \notin Sessions

VARIABLES
  registered,  \* the users who have an account
  signedFor,   \* the user each token was signed for
  held,        \* the tokens clients were given
  state,       \* "none", "open", "expired" by its expiresAt, "revoked", "deleted"
  owner, token, device,  \* of each row; token: the one whose hash it holds
  spent,       \* history: refreshes that revoked the row
  req          \* the requests in progress

rows == <<state, owner, token, device>>
vars == <<registered, signedFor, held, state, owner, token, device, spent, req>>

-----------------------------------------------------------------------------
(* A request's locals, each as long as it is still needed: "given" is the  *)
(* token a logout presents, "fresh" the one that was signed.               *)
Blank == [pc |-> "idle", user |-> Nobody, given |-> NoToken, fresh |-> NoToken,
          device |-> NoDevice, session |-> NoSession]

Begin(r, locals) == req[r].pc = "idle" /\ req' = [req EXCEPT ![r] = locals]
At(r, step) == req[r].pc = step
Finish(r) == req' = [req EXCEPT ![r] = Blank]

Sign(t, u) ==
  /\ signedFor[t] = Nobody
  /\ signedFor' = [signedFor EXCEPT ![t] = u]

Prefix(t) == signedFor[t]
Matches(t, x) == Prefix(t) = Prefix(token[x])

Exists(x) == state[x] \in {"open", "expired", "revoked"}
OpenSessions(u) == {x \in Sessions : state[x] = "open" /\ owner[x] = u}

-----------------------------------------------------------------------------
(* register: both finders, then the account with its unique keys, then a   *)
(* session.                                                                *)
Register(r, u, d) ==
  /\ u \notin registered /\ <<u, d>> \in Uses
  /\ Begin(r, [Blank EXCEPT !.pc = "register", !.user = u, !.device = d])
  /\ UNCHANGED <<registered, signedFor, held, rows, spent>>

RegisterWrite(r, t) ==
  /\ At(r, "register")
  /\ req[r].user \notin registered
  /\ registered' = registered \cup {req[r].user}
  /\ Sign(t, req[r].user)
  /\ req' = [req EXCEPT ![r] = [@ EXCEPT !.pc = "store_find", !.fresh = t]]
  /\ UNCHANGED <<held, rows, spent>>

RegisterConflict(r) ==
  /\ At(r, "register")
  /\ req[r].user \in registered
  /\ Finish(r)
  /\ UNCHANGED <<registered, signedFor, held, rows, spent>>

(* login, after LocalStrategy has found the user and compared passwords.   *)
Login(r, u, d, t) ==
  /\ u \in registered \cap Returning /\ <<u, d>> \in Uses
  /\ Sign(t, u)
  /\ Begin(r, [Blank EXCEPT !.pc = "store_find", !.user = u, !.device = d, !.fresh = t])
  /\ UNCHANGED <<registered, held, rows, spent>>

-----------------------------------------------------------------------------
(* storeRefreshToken: an open session of this user at this address is      *)
(* reused, by its id and whatever it says of its device; only a client     *)
(* that names its agent has it compared, and one without either is not     *)
(* searched for.  Else a row is created.  Then the user's dead rows are    *)
(* deleted.                                                                *)
Anonymous(d) == d.ip = NoAddress /\ d.agent = NoAgent
Fits(x, d) == device[x].ip = d.ip /\ (d.agent = NoAgent \/ device[x].agent = d.agent)

SameDevice(u, d) == {x \in Sessions : state[x] = "open" /\ Fits(x, d)}
Reusable(u, d) == {x \in OpenSessions(u) : Fits(x, d)}

StoreFind(r, x) ==
  /\ At(r, "store_find")
  /\ ~Anonymous(req[r].device)
  /\ x \in Reusable(req[r].user, req[r].device)
  /\ req' = [req EXCEPT ![r] = [@ EXCEPT !.pc = "store_update", !.session = x]]
  /\ UNCHANGED <<registered, signedFor, held, rows, spent>>

AlwaysCreate(r) ==
  /\ At(r, "store_find")
  /\ req' = [req EXCEPT ![r].pc = "store_create"]
  /\ UNCHANGED <<registered, signedFor, held, rows, spent>>

StoreFindNone(r) ==
  /\ At(r, "store_find")
  /\ Anonymous(req[r].device) \/ Reusable(req[r].user, req[r].device) = {}
  /\ req' = [req EXCEPT ![r].pc = "store_create"]
  /\ UNCHANGED <<registered, signedFor, held, rows, spent>>

(* The hash and a new expiresAt: an expired row is open again, a revoked   *)
(* one stays revoked.  Updating a row that is gone fails.                  *)
StoreDone(r) ==
  req' = [req EXCEPT ![r] = [Blank EXCEPT !.pc = "store_clean", !.user = req[r].user,
                                          !.fresh = req[r].fresh]]

Reopened(was) == "open"
Extended(was) == IF was = "expired" THEN "open" ELSE was
GivenToken(q) == q.given
StoredToken(q) == q.fresh

StoreUpdate(r) ==
  /\ At(r, "store_update")
  /\ LET x == req[r].session
     IN IF Exists(x)
        THEN /\ state' = [state EXCEPT ![x] = Extended(@)]
             /\ token' = [token EXCEPT ![x] = StoredToken(req[r])]
             /\ StoreDone(r)
        ELSE Finish(r) /\ UNCHANGED <<state, token>>
  /\ UNCHANGED <<registered, signedFor, held, owner, device, spent>>

StoreCreate(r, x) ==
  /\ At(r, "store_create")
  /\ state[x] = "none"
  /\ state' = [state EXCEPT ![x] = "open"]
  /\ owner' = [owner EXCEPT ![x] = req[r].user]
  /\ token' = [token EXCEPT ![x] = StoredToken(req[r])]
  /\ device' = [device EXCEPT ![x] = req[r].device]
  /\ StoreDone(r)
  /\ UNCHANGED <<registered, signedFor, held, spent>>

(* The last call deletes; the client then gets its tokens.                 *)
Dead(u) == {x \in Sessions : owner[x] = u /\ state[x] \in {"expired", "revoked"}}
Emptied(column, gone, none) == [x \in Sessions |-> IF x \in gone THEN none ELSE column[x]]

StoreClean(r) ==
  /\ At(r, "store_clean")
  /\ LET gone == Dead(req[r].user)
     IN /\ state' = Emptied(state, gone, "deleted")
        /\ owner' = Emptied(owner, gone, Nobody)
        /\ token' = Emptied(token, gone, NoToken)
        /\ device' = Emptied(device, gone, NoDevice)
  /\ held' = held \cup {req[r].fresh}
  /\ Finish(r)
  /\ UNCHANGED <<registered, signedFor, spent>>

-----------------------------------------------------------------------------
RevokeAllUserTokens(u) ==
  state' = [x \in Sessions |-> IF owner[x] = u /\ state[x] \in {"open", "expired"}
                               THEN "revoked" ELSE state[x]]

(* refreshTokens: the first open session of the user that is found, of     *)
(* whatever device.  If it does not match, every session is revoked.       *)
RefreshableAny(u) == {x \in Sessions : owner[x] = u /\ Exists(x)}
Refreshable(u) == OpenSessions(u)

Refresh(r, t, d, x) ==
  /\ t \in held /\ signedFor[t] \in Returning /\ <<signedFor[t], d>> \in Uses
  /\ x \in Refreshable(signedFor[t])
  /\ Begin(r, [Blank EXCEPT !.user = signedFor[t], !.device = d, !.session = x,
                 !.pc = IF Matches(t, x) THEN "refresh_revoke" ELSE "revoke_all"])
  /\ UNCHANGED <<registered, signedFor, held, rows, spent>>

(* The old session is revoked, the user read and then the new pair signed. *)
RefreshRevoke(r) ==
  /\ At(r, "refresh_revoke")
  /\ Exists(req[r].session)
  /\ state' = [state EXCEPT ![req[r].session] = "revoked"]
  /\ spent' = [spent EXCEPT ![req[r].session] = @ + 1]
  /\ req' = [req EXCEPT ![r] = [@ EXCEPT !.pc = "refresh_sign", !.session = NoSession]]
  /\ UNCHANGED <<registered, signedFor, held, owner, token, device>>

RefreshSign(r, t) ==
  /\ At(r, "refresh_sign")
  /\ Sign(t, req[r].user)
  /\ req' = [req EXCEPT ![r] = [@ EXCEPT !.pc = "store_find", !.fresh = t]]
  /\ UNCHANGED <<registered, held, rows, spent>>

RevokeAll(r) ==
  /\ At(r, "revoke_all")
  /\ RevokeAllUserTokens(req[r].user)
  /\ Finish(r)
  /\ UNCHANGED <<registered, signedFor, held, owner, token, device, spent>>

(* logout from one device: of the user's rows that are not revoked the     *)
(* first that matches is revoked.  From all devices: all are.              *)
Logout(r, t, x) ==
  /\ t \in held /\ signedFor[t] \in Returning
  /\ owner[x] = signedFor[t] /\ state[x] \in {"open", "expired"}
  /\ Matches(t, x)
  /\ Begin(r, [Blank EXCEPT !.pc = "logout", !.user = signedFor[t], !.given = t,
                            !.session = x])
  /\ UNCHANGED <<registered, signedFor, held, rows, spent>>

LogoutWrite(r) ==
  /\ At(r, "logout")
  /\ Exists(req[r].session)
  /\ state' = [state EXCEPT ![req[r].session] = "revoked"]
  /\ Finish(r)
  /\ UNCHANGED <<registered, signedFor, held, owner, token, device, spent>>

LogoutAll(r, u) ==
  /\ u \in registered \cap Returning
  /\ Begin(r, [Blank EXCEPT !.pc = "revoke_all", !.user = u])
  /\ UNCHANGED <<registered, signedFor, held, rows, spent>>

-----------------------------------------------------------------------------
(* The clock passes a row's expiresAt.                                     *)
Expire(x) ==
  /\ state[x] = "open"
  /\ state' = [state EXCEPT ![x] = "expired"]
  /\ UNCHANGED <<registered, signedFor, held, owner, token, device, spent, req>>

(* A call fails, or the server dies; updating a row that is gone does.     *)
Fail(r) ==
  /\ req[r].pc # "idle"
  /\ Finish(r)
  /\ UNCHANGED <<registered, signedFor, held, rows, spent>>

Init ==
  /\ registered = {}
  /\ signedFor = [t \in Tokens |-> Nobody]
  /\ held = {}
  /\ state = [x \in Sessions |-> "none"]
  /\ owner = [x \in Sessions |-> Nobody]
  /\ token = [x \in Sessions |-> NoToken]
  /\ device = [x \in Sessions |-> NoDevice]
  /\ spent = [x \in Sessions |-> 0]
  /\ req = [r \in Requests |-> Blank]

Arrive(r) ==
  \/ \E u \in Users, d \in Devices : Register(r, u, d)
  \/ \E u \in Users, d \in Devices, t \in Tokens : Login(r, u, d, t)
  \/ \E t \in Tokens, d \in Devices, x \in Sessions : Refresh(r, t, d, x)
  \/ \E t \in Tokens, x \in Sessions : Logout(r, t, x)
  \/ \E u \in Users : LogoutAll(r, u)

Continue(r) ==
  \/ \E t \in Tokens : RegisterWrite(r, t)
  \/ RegisterConflict(r)
  \/ \E x \in Sessions : StoreFind(r, x)
  \/ StoreFindNone(r)
  \/ StoreUpdate(r)
  \/ \E x \in Sessions : StoreCreate(r, x)
  \/ StoreClean(r)
  \/ RefreshRevoke(r)
  \/ \E t \in Tokens : RefreshSign(r, t)
  \/ RevokeAll(r)
  \/ LogoutWrite(r)

Next ==
  \/ \E r \in Requests : Arrive(r) \/ Continue(r) \/ Fail(r)
  \/ \E x \in Sessions : Expire(x)

Spec == Init /\ [][Next]_vars

-----------------------------------------------------------------------------
(* Types of the rows and of the requests' locals; a row that was created   *)
(* holds a token.                                                          *)
Request ==
  [pc : {"idle", "register", "store_find", "store_update", "store_create",
         "store_clean", "refresh_revoke", "refresh_sign", "revoke_all", "logout"},
   user : Users \cup {Nobody}, given : Tokens \cup {NoToken},
   fresh : Tokens \cup {NoToken}, device : Devices \cup {NoDevice},
   session : Sessions \cup {NoSession}]

TypeOK ==
  /\ registered \in SUBSET Users
  /\ signedFor \in [Tokens -> Users \cup {Nobody}]
  /\ held \in SUBSET Tokens
  /\ state \in [Sessions -> {"none", "open", "expired", "revoked", "deleted"}]
  /\ owner \in [Sessions -> Users \cup {Nobody}]
  /\ token \in [Sessions -> Tokens \cup {NoToken}]
  /\ device \in [Sessions -> Devices \cup {NoDevice}]
  /\ spent \in [Sessions -> Nat]
  /\ req \in [Requests -> Request]
  /\ \A x \in Sessions : Exists(x) =>
       owner[x] \in Users /\ token[x] \in Tokens /\ device[x] \in Devices

(* "Update existing token session for the same IP/Device": the search and  *)
(* the creation are two calls, so requests in progress together may open   *)
(* several sessions of a user on one device, but never more than there are *)
(* requests.  A client without address and agent gets one at every login.  *)
OnDevice(u, d) == {x \in OpenSessions(u) : device[x] = d}

DeviceSessionsBounded ==
  \A u \in Users, d \in Devices :
    ~Anonymous(d) => Cardinality(OnDevice(u, d)) <= Cardinality(Requests)

(* Rotation: a session is exchanged for a new one by the refreshes that    *)
(* were in progress together when it was revoked, and by no later one.     *)
RotationsBounded == \A x \in Sessions : spent[x] <= Cardinality(Requests)

(* A revoked session is never open again, although a login or refresh that *)
(* found it open goes on to write its hash and its expiry.                 *)
RevokedIsFinal ==
  [][\A x \in Sessions : state[x] = "revoked" => state'[x] \in {"revoked", "deleted"}]_vars

(* A session never holds a token of another user, also where two users     *)
(* share an address or a device.                                           *)
SessionKeepsItsUser ==
  \A x \in Sessions : Exists(x) => signedFor[token[x]] = owner[x]

(* "Revoke only this device's token" (logout): the session that ends is    *)
(* the one that holds the token the client sent.                           *)
LogoutOnlyThisDevice ==
  [][\A x \in Sessions, r \in Requests :
       /\ At(r, "logout") /\ req'[r] # req[r]
       /\ state[x] # "revoked" /\ state'[x] = "revoked"
       => token[x] = req[r].given]_vars
=============================================================================
