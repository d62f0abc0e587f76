------------------------ MODULE MessageContentProofs ------------------------
(***************************************************************************)
(* The rows of MessageContent keep the promise of Post, deleted messages   *)
(* stay frozen and histories keep the original, for any number             *)
(* of users, messages, texts and requests, whatever the index does; and    *)
(* the search agrees with the rows wherever the writes arrived in order.   *)
(*                                                                         *)
(* An edit and a delete write calls after they have read.  What they may   *)
(* still rely on then is that the message exists, that the text they carry *)
(* is one, and, of an edit, that what it read is the original if nobody    *)
(* has edited the message since: Carries says so of every request.         *)
(***************************************************************************)
EXTENDS MessageContent, SequenceTheorems, TLAPS

Writing == {"create_write", "edit_write", "delete_write"}

Carries(r) ==
  /\ DOMAIN req[r] = DOMAIN Blank
  /\ req[r].pc \in {"create_write", "edit_write"} => req[r].given \in Contents
  /\ req[r].pc \in {"edit_write", "delete_write"} =>
       req[r].message \in Messages /\ status[req[r].message] # "none"
  /\ req[r].pc = "edit_write" =>
       /\ req[r].seen \in Contents \cup {NoContent}
       /\ edits[req[r].message] = <<>> => req[r].seen = original[req[r].message]

(* What holds of the rows of a message.                                    *)
RowOK(m) ==
  /\ status[m] = "none" => edits[m] = <<>>
  /\ status[m] = "live" => content[m] \in Contents
  /\ status[m] = "live" /\ edits[m] = <<>> => content[m] = original[m]
  /\ edits[m] # <<>> => \E i \in 1..Len(edits[m]) : edits[m][i] = original[m]

RowTypes ==
  /\ status \in [Messages -> {"none", "live", "deleted"}]
  /\ content \in [Messages -> Contents \cup {NoContent}]
  /\ edits \in [Messages -> Seq(Contents \cup {NoContent})]
  /\ original \in [Messages -> Contents \cup {NoContent}]

RowsInv ==
  /\ RowTypes
  /\ \A m \in Messages : RowOK(m)
  /\ DOMAIN req = Requests
  /\ \A r \in Requests : Carries(r)

-----------------------------------------------------------------------------
(* A request that writes no row moves: everything of the rows stays.       *)
LEMMA SideStep ==
  ASSUME RowsInv, NEW r \in Requests, NEW q, req' = [req EXCEPT ![r] = q],
         DOMAIN q = DOMAIN Blank, q.pc \notin Writing, UNCHANGED rowVars
  PROVE  RowsInv'
<1>1. RowTypes' /\ \A m \in Messages : RowOK(m)'
  BY DEF RowsInv, RowTypes, RowOK, rowVars
<1>2. \A s \in Requests : Carries(s)'
  <2> SUFFICES ASSUME NEW s \in Requests PROVE Carries(s)'
    OBVIOUS
  <2>1. CASE s = r
    BY <2>1 DEF RowsInv, Carries, Writing
  <2>2. CASE s # r
    BY <2>2 DEF RowsInv, Carries, rowVars
  <2> QED BY <2>1, <2>2
<1> QED
  BY <1>1, <1>2 DEF RowsInv

(* Requests other than the one that moves hold on to what they carry, as   *)
(* long as no message is taken away, no original rewritten, no history cut.*)
LEMMA OthersCarry ==
  ASSUME RowsInv, NEW s \in Requests,
         DOMAIN req'[s] = DOMAIN req[s], req'[s].pc = req[s].pc,
         req'[s].message = req[s].message,
         req'[s].given = req[s].given, req'[s].seen = req[s].seen,
         \A m \in Messages : status[m] # "none" =>
           /\ status'[m] # "none" /\ original'[m] = original[m]
           /\ edits[m] # <<>> => edits'[m] # <<>>
  PROVE  Carries(s)'
BY DEF RowsInv, Carries

-----------------------------------------------------------------------------
(* A message is posted: its content is the original.                       *)
LEMMA CreateWriteKeeps ==
  ASSUME RowsInv, NEW r \in Requests, NEW m \in Messages, CreateWrite(r, m)
  PROVE  RowsInv'
<1>1. /\ req[r].given \in Contents /\ status[m] = "none" /\ edits' = edits
      /\ status' = [status EXCEPT ![m] = "live"]
      /\ content' = [content EXCEPT ![m] = req[r].given]
      /\ original' = [original EXCEPT ![m] = req[r].given]
      /\ req' = [req EXCEPT ![r] = Blank]
  BY DEF CreateWrite, RowsInv, Carries, At, Finish
<1>2. RowTypes'
  BY <1>1 DEF RowsInv, RowTypes
<1>3. ASSUME NEW n \in Messages PROVE RowOK(n)'
  <2>1. CASE n = m
    BY <1>1, <2>1 DEF RowsInv, RowTypes, RowOK
  <2>2. CASE n # m
    BY <1>1, <2>2 DEF RowsInv, RowTypes, RowOK
  <2> QED BY <2>1, <2>2
<1>4. ASSUME NEW s \in Requests PROVE Carries(s)'
  <2>1. CASE s = r
    BY <1>1, <2>1 DEF RowsInv, Carries, Blank
  <2>2. CASE s # r
    BY <1>1, <2>2, OthersCarry DEF RowsInv, RowTypes
  <2> QED BY <2>1, <2>2
<1> QED
  BY <1>1, <1>2, <1>3, <1>4 DEF RowsInv

(* An edit begins: what it reads of a message nobody has edited is the     *)
(* original.                                                               *)
LEMMA UpdateKeeps ==
  ASSUME RowsInv, NEW r \in Requests, NEW u \in Users, NEW m \in Messages,
         NEW c \in Contents, Update(r, u, m, c)
  PROVE  RowsInv'
<1> DEFINE q == [Blank EXCEPT !.pc = "edit_write", !.user = u, !.message = m,
                              !.seen = content[m], !.given = c]
<1>1. /\ status[m] = "live" /\ req' = [req EXCEPT ![r] = q] /\ UNCHANGED rowVars
  BY DEF Update, MayEdit, Findable, Begin
<1>2. /\ q.pc = "edit_write" /\ q.message = m /\ q.seen = content[m] /\ q.given = c
      /\ DOMAIN q = DOMAIN Blank
  BY DEF Blank
<1>3. RowTypes' /\ \A n \in Messages : RowOK(n)'
  BY <1>1 DEF RowsInv, RowTypes, RowOK, rowVars
<1> HIDE DEF q
<1>4. ASSUME NEW s \in Requests PROVE Carries(s)'
  <2>1. CASE s = r
    BY <1>1, <1>2, <2>1 DEF RowsInv, RowTypes, RowOK, Carries, rowVars
  <2>2. CASE s # r
    BY <1>1, <2>2 DEF RowsInv, Carries, rowVars
  <2> QED BY <2>1, <2>2
<1> QED
  BY <1>1, <1>3, <1>4 DEF RowsInv

(* A delete begins.                                                        *)
LEMMA SoftDeleteKeeps ==
  ASSUME RowsInv, NEW r \in Requests, NEW u \in Users, NEW m \in Messages, NEW admin,
         SoftDelete(r, u, m, admin)
  PROVE  RowsInv'
<1> DEFINE q == [Blank EXCEPT !.pc = "delete_write", !.user = u, !.message = m,
                              !.admin = admin]
<1>1. /\ status[m] = "live" /\ req' = [req EXCEPT ![r] = q] /\ UNCHANGED rowVars
  BY DEF SoftDelete, MayDelete, Findable, Begin
<1>2. q.pc = "delete_write" /\ q.message = m /\ DOMAIN q = DOMAIN Blank
  BY DEF Blank
<1>3. RowTypes' /\ \A n \in Messages : RowOK(n)'
  BY <1>1 DEF RowsInv, RowTypes, RowOK, rowVars
<1> HIDE DEF q
<1>4. ASSUME NEW s \in Requests PROVE Carries(s)'
  <2>1. CASE s = r
    BY <1>1, <1>2, <2>1 DEF RowsInv, RowTypes, RowOK, Carries, rowVars
  <2>2. CASE s # r
    BY <1>1, <2>2 DEF RowsInv, Carries, rowVars
  <2> QED BY <2>1, <2>2
<1> QED
  BY <1>1, <1>3, <1>4 DEF RowsInv

(* A new post begins.                                                      *)
LEMMA CreateKeeps ==
  ASSUME RowsInv, NEW r \in Requests, NEW u \in Users, NEW c \in Contents, Create(r, u, c)
  PROVE  RowsInv'
<1> DEFINE q == [Blank EXCEPT !.pc = "create_write", !.user = u, !.given = c]
<1>1. req' = [req EXCEPT ![r] = q] /\ UNCHANGED rowVars
  BY DEF Create, Begin
<1>2. q.pc = "create_write" /\ q.given = c /\ DOMAIN q = DOMAIN Blank
  BY DEF Blank
<1>3. RowTypes' /\ \A n \in Messages : RowOK(n)'
  BY <1>1 DEF RowsInv, RowTypes, RowOK, rowVars
<1> HIDE DEF q
<1>4. ASSUME NEW s \in Requests PROVE Carries(s)'
  <2>1. CASE s = r
    BY <1>1, <1>2, <2>1 DEF RowsInv, Carries
  <2>2. CASE s # r
    BY <1>1, <2>2 DEF RowsInv, Carries, rowVars
  <2> QED BY <2>1, <2>2
<1> QED
  BY <1>1, <1>3, <1>4 DEF RowsInv

(* An edit is written, maybe on a deleted message: what it read goes to    *)
(* the history, of which the first is the original.                        *)
LEMMA UpdateWriteKeeps ==
  ASSUME RowsInv, NEW r \in Requests, UpdateWrite(r)
  PROVE  RowsInv'
<1> DEFINE m == req[r].message
           seen == req[r].seen
           given == req[r].given
<1>1. /\ m \in Messages /\ status[m] # "none" /\ given \in Contents
      /\ seen \in Contents \cup {NoContent}
      /\ edits[m] = <<>> => seen = original[m]
  BY DEF UpdateWrite, RowsInv, Carries, At
<1>2. /\ content' = [content EXCEPT ![m] = given]
      /\ edits' = [edits EXCEPT ![m] = Append(@, seen)]
      /\ req' = [req EXCEPT ![r] = Blank]
      /\ status' = status /\ original' = original
  BY DEF UpdateWrite, PreviousContent, Finish
<1> HIDE DEF m, seen, given
<1>3. /\ edits[m] \in Seq(Contents \cup {NoContent})
      /\ edits'[m] = Append(edits[m], seen)
      /\ \A n \in Messages \ {m} : edits'[n] = edits[n]
  BY <1>1, <1>2 DEF RowsInv, RowTypes
<1>4. /\ edits'[m] \in Seq(Contents \cup {NoContent}) /\ edits'[m] # <<>>
      /\ Len(edits'[m]) = Len(edits[m]) + 1 /\ edits'[m][Len(edits[m]) + 1] = seen
      /\ \A i \in 1..Len(edits[m]) : edits'[m][i] = edits[m][i]
  BY <1>1, <1>3, AppendProperties
<1>5. RowTypes'
  BY <1>1, <1>2, <1>4 DEF RowsInv, RowTypes
<1>6. \E i \in 1..Len(edits'[m]) : edits'[m][i] = original[m]
  <2>1. CASE edits[m] = <<>>
    BY <1>1, <1>3, <1>4, <2>1
  <2>2. CASE edits[m] # <<>>
    <3>1. PICK i \in 1..Len(edits[m]) : edits[m][i] = original[m]
      BY <1>1, <2>2 DEF RowsInv, RowOK
    <3> QED BY <1>3, <1>4, <3>1
  <2> QED BY <2>1, <2>2
<1>7. ASSUME NEW n \in Messages PROVE RowOK(n)'
  <2>1. CASE n = m
    BY <1>1, <1>2, <1>4, <1>6, <2>1 DEF RowsInv, RowTypes, RowOK
  <2>2. CASE n # m
    BY <1>1, <1>2, <1>3, <2>2 DEF RowsInv, RowTypes, RowOK
  <2> QED BY <2>1, <2>2
<1>8. ASSUME NEW s \in Requests PROVE Carries(s)'
  <2>1. CASE s = r
    BY <1>2, <2>1 DEF RowsInv, Carries, Blank
  <2>2. CASE s # r
    <3>1. \A n \in Messages : edits[n] # <<>> => edits'[n] # <<>>
      BY <1>3, <1>4
    <3> QED BY <1>2, <2>2, <3>1, OthersCarry DEF RowsInv
  <2> QED BY <2>1, <2>2
<1> QED
  BY <1>2, <1>5, <1>7, <1>8 DEF RowsInv

(* A delete is written: the content is wiped, and with it what a late edit *)
(* may have put there.                                                     *)
LEMMA SoftDeleteWriteKeeps ==
  ASSUME RowsInv, NEW r \in Requests, SoftDeleteWrite(r)
  PROVE  RowsInv'
<1> DEFINE m == req[r].message
<1>1. m \in Messages /\ status[m] # "none"
  BY DEF SoftDeleteWrite, RowsInv, Carries, At
<1>2. /\ status' = [status EXCEPT ![m] = "deleted"]
      /\ content' = [content EXCEPT ![m] = NoContent]
      /\ edits' = edits /\ original' = original
      /\ req' = [s \in Requests |->
                   IF s = r THEN Blank
                   ELSE [req[s] EXCEPT !.late = @ \/ req[s].message = m]]
  BY DEF SoftDeleteWrite, Wiped
<1> HIDE DEF m
<1>3. RowTypes'
  BY <1>1, <1>2 DEF RowsInv, RowTypes
<1>4. ASSUME NEW n \in Messages PROVE RowOK(n)'
  <2>1. CASE n = m
    BY <1>1, <1>2, <2>1 DEF RowsInv, RowTypes, RowOK
  <2>2. CASE n # m
    BY <1>1, <1>2, <2>2 DEF RowsInv, RowTypes, RowOK
  <2> QED BY <2>1, <2>2
<1>5. ASSUME NEW s \in Requests PROVE Carries(s)'
  <2>1. CASE s = r
    BY <1>2, <2>1 DEF Carries, Blank
  <2>2. CASE s # r
    <3>1. /\ DOMAIN req'[s] = DOMAIN req[s]
          /\ req'[s].pc = req[s].pc /\ req'[s].message = req[s].message
          /\ req'[s].given = req[s].given /\ req'[s].seen = req[s].seen
      BY <1>2, <2>2 DEF RowsInv, Carries, Blank
    <3>2. \A n \in Messages : status[n] # "none" => status'[n] # "none"
      BY <1>1, <1>2 DEF RowsInv, RowTypes
    <3> QED BY <1>2, <3>1, <3>2, OthersCarry
  <2> QED BY <2>1, <2>2
<1> QED
  BY <1>2, <1>3, <1>4, <1>5 DEF RowsInv

-----------------------------------------------------------------------------
(* Reactions and pins write no row of a message.                           *)
LEMMA SideSteps ==
  ASSUME RowsInv, NEW r \in Requests,
         \/ \E u \in Reactors, m \in Messages, e \in Emojis : ToggleReaction(r, u, m, e)
         \/ \E u \in Users, m \in Messages : PinMessage(r, u, m) \/ UnpinMessage(r, u, m)
         \/ ReactionFind(r) \/ ReactionWrite(r) \/ PinFind(r) \/ PinWrite(r)
  PROVE  RowsInv' /\ UNCHANGED rowVars
<1>1. ASSUME NEW u \in Reactors, NEW m \in Messages, NEW e \in Emojis,
             ToggleReaction(r, u, m, e)
      PROVE  RowsInv' /\ UNCHANGED rowVars
  BY <1>1, SideStep DEF ToggleReaction, Begin, Blank, Writing
<1>2. ASSUME NEW u \in Users, NEW m \in Messages, PinMessage(r, u, m)
      PROVE  RowsInv' /\ UNCHANGED rowVars
  BY <1>2, SideStep DEF PinMessage, Begin, Blank, Writing
<1>3. ASSUME NEW u \in Users, NEW m \in Messages, UnpinMessage(r, u, m)
      PROVE  RowsInv' /\ UNCHANGED rowVars
  BY <1>3, SideStep DEF UnpinMessage, Begin, Blank, Writing
<1>4. ASSUME NEW step \in {"react_create", "react_delete", "pin_write"}, Goto(r, step),
             UNCHANGED rowVars
      PROVE  RowsInv'
  <2> DEFINE q == [req[r] EXCEPT !.pc = step]
  <2>1. req' = [req EXCEPT ![r] = q]
    BY <1>4 DEF Goto, RowsInv
  <2>2. q.pc \notin Writing /\ DOMAIN q = DOMAIN Blank
    BY <1>4 DEF Writing, RowsInv, Carries, Blank
  <2> HIDE DEF q
  <2> QED BY <1>4, <2>1, <2>2, SideStep
<1>5. ASSUME Finish(r), UNCHANGED rowVars PROVE RowsInv'
  BY <1>5, SideStep DEF Finish, Blank, Writing
<1>6. CASE ReactionFind(r)
  BY <1>4, <1>6 DEF ReactionFind
<1>7. CASE ReactionWrite(r)
  BY <1>5, <1>7 DEF ReactionWrite
<1>8. CASE PinFind(r)
  BY <1>4, <1>5, <1>8 DEF PinFind
<1>9. CASE PinWrite(r)
  BY <1>5, <1>9 DEF PinWrite
<1> QED
  BY <1>1, <1>2, <1>3, <1>6, <1>7, <1>8, <1>9

-----------------------------------------------------------------------------
(* At the start nothing has been posted.                                   *)
LEMMA RowsInit == Init => RowsInv
BY DEF Init, RowsInv, RowTypes, RowOK, Carries, Blank

(* The steps of the rows, and all others, which leave the rows alone.      *)
LEMMA StepCases ==
  ASSUME RowsInv, [Next]_vars
  PROVE  \/ \E r \in Requests, u \in Senders, c \in Contents : Create(r, u, c)
         \/ \E r \in Requests, m \in Messages : CreateWrite(r, m)
         \/ \E r \in Requests, u \in Users, m \in Messages, c \in Contents : Update(r, u, m, c)
         \/ \E r \in Requests, u \in Users, m \in Messages, admin \in BOOLEAN :
              SoftDelete(r, u, m, admin)
         \/ \E r \in Requests : UpdateWrite(r) \/ SoftDeleteWrite(r)
         \/ RowsInv' /\ UNCHANGED rowVars
<1>1. ASSUME NEW r \in Requests, Arrive(r)
      PROVE  \/ \E u \in Senders, c \in Contents : Create(r, u, c)
             \/ \E u \in Users, m \in Messages, c \in Contents : Update(r, u, m, c)
             \/ \E u \in Users, m \in Messages, admin \in BOOLEAN : SoftDelete(r, u, m, admin)
             \/ RowsInv' /\ UNCHANGED rowVars
  <2>1. CASE SendEvent(r) \/ EditEvent(r)
    BY <2>1 DEF SendEvent, EditEvent
  <2>2. CASE DeleteEvent(r) \/ DeleteRoute(r)
    BY <2>2 DEF DeleteEvent, DeleteRoute
  <2>3. CASE ReactEvent(r) \/ PinRoutes(r)
    BY <2>3, SideSteps DEF ReactEvent, PinRoutes
  <2> QED
    BY <1>1, <2>1, <2>2, <2>3 DEF Arrive, ArriveBySocket, ArriveByRest
<1>2. ASSUME NEW r \in Requests, Continue(r)
      PROVE  \/ \E m \in Messages : CreateWrite(r, m)
             \/ UpdateWrite(r) \/ SoftDeleteWrite(r)
             \/ RowsInv' /\ UNCHANGED rowVars
  BY <1>2, SideSteps DEF Continue
<1>3. CASE StartReindex \/ IndexStep \/ UNCHANGED vars
  <2>1. UNCHANGED <<rowVars, req>>
    BY <1>3 DEF StartReindex, IndexStep, vars, rowVars
  <2> QED
    BY <2>1 DEF RowsInv, RowTypes, RowOK, Carries, rowVars
<1> QED
  BY <1>1, <1>2, <1>3 DEF Next

(* Every step keeps the invariant.                                         *)
LEMMA RowsStep == RowsInv /\ [Next]_vars => RowsInv'
BY StepCases, CreateKeeps, CreateWriteKeeps, UpdateKeeps, SoftDeleteKeeps,
   UpdateWriteKeeps, SoftDeleteWriteKeeps, ContentAssumption

(* So it holds throughout.                                                 *)
LEMMA RowsAlways == Spec => []RowsInv
BY RowsInit, RowsStep, PTL DEF Spec

-----------------------------------------------------------------------------
(* However many edits overlap, the history has the text that was posted.   *)
THEOREM OriginalIsKept == Spec => []OriginalKept
<1>1. RowsInv => OriginalKept
  BY DEF RowsInv, RowOK, OriginalKept
<1> QED
  BY RowsAlways, <1>1, PTL

-----------------------------------------------------------------------------
(* The refinement.  At the start nothing is shown.                         *)
LEMMA PromiseInit == Init => Promise!PostInit
BY DEF Init, Promise!PostInit, Shown, Listed, Open, At, Blank, Findable

show == [m \in Messages |-> Shown(m)]
list == [m \in Messages |-> Listed(m)]
opened == [m \in Messages |-> Open(m)]
postVars == <<show, list, opened>>

(* Where the rows of all messages but one stay, so does what is shown and  *)
(* listed.                                                                 *)
LEMMA RowsElsewhere ==
  ASSUME NEW m \in Messages, NEW c, NEW l,
         \A n \in Messages \ {m} : status'[n] = status[n] /\ content'[n] = content[n],
         Shown(m)' = c, content'[m] = l
  PROVE  show' = [show EXCEPT ![m] = c] /\ list' = [list EXCEPT ![m] = l]
BY DEF show, list, Shown, Listed, Findable

(* Where all requests but one keep their step and their message, so do the *)
(* open ones; the one that moves is open for at most one message.          *)
OnlyMoves(r) ==
  \A s \in Requests \ {r} : req'[s].pc = req[s].pc /\ req'[s].message = req[s].message
Opens(q) == q.pc \in {"edit_write", "delete_write"}

LEMMA OpenStays ==
  ASSUME NEW r \in Requests, OnlyMoves(r), ~Opens(req[r]), ~Opens(req'[r])
  PROVE  opened' = opened
BY DEF OnlyMoves, Opens, opened, Open, At

(* A request is accepted.                                                  *)
LEMMA OpenGrows ==
  ASSUME NEW r \in Requests, NEW m \in Messages, OnlyMoves(r),
         ~Opens(req[r]), Opens(req'[r]), req'[r].message = m
  PROVE  r \notin opened[m] /\ opened' = [opened EXCEPT ![m] = @ \cup {r}]
<1>1. r \notin Open(m) /\ Open(m)' = Open(m) \cup {r}
  BY DEF OnlyMoves, Opens, Open, At
<1>2. \A n \in Messages \ {m} : Open(n)' = Open(n)
  BY DEF OnlyMoves, Opens, Open, At
<1> QED
  BY <1>1, <1>2 DEF opened

(* A request that was accepted ends.                                       *)
LEMMA OpenShrinks ==
  ASSUME NEW r \in Requests, NEW m \in Messages, OnlyMoves(r),
         Opens(req[r]), req[r].message = m, ~Opens(req'[r])
  PROVE  r \in opened[m] /\ opened' = [opened EXCEPT ![m] = @ \ {r}]
<1>1. r \in Open(m) /\ Open(m)' = Open(m) \ {r}
  BY DEF OnlyMoves, Opens, Open, At
<1>2. \A n \in Messages \ {m} : Open(n)' = Open(n)
  BY DEF OnlyMoves, Opens, Open, At
<1> QED
  BY <1>1, <1>2 DEF opened

(* What stays of the rows shows and lists the same.                        *)
LEMMA RowsStay == ASSUME UNCHANGED rowVars PROVE show' = show /\ list' = list
BY DEF rowVars, show, list, Shown, Listed, Findable

-----------------------------------------------------------------------------
(* A post publishes.                                                       *)
LEMMA CreatePublishes ==
  ASSUME RowsInv, NEW r \in Requests, NEW m \in Messages, CreateWrite(r, m)
  PROVE  Promise!PostNext
<1>1. /\ req[r].given \in Contents /\ status[m] = "none" /\ req[r].pc = "create_write"
      /\ status' = [status EXCEPT ![m] = "live"]
      /\ content' = [content EXCEPT ![m] = req[r].given]
      /\ req' = [req EXCEPT ![r] = Blank]
  BY DEF CreateWrite, RowsInv, Carries, At, Finish
<1>2. show[m] = NoContent
  BY <1>1 DEF show, Shown, Findable
<1>3. Shown(m)' = req[r].given /\ content'[m] = req[r].given
  BY <1>1 DEF RowsInv, RowTypes, Shown, Findable
<1>4. show' = [show EXCEPT ![m] = req[r].given] /\ list' = [list EXCEPT ![m] = req[r].given]
  BY <1>1, <1>3, RowsElsewhere DEF RowsInv, RowTypes
<1>5. OnlyMoves(r) /\ ~Opens(req[r]) /\ ~Opens(req'[r])
  BY <1>1 DEF OnlyMoves, Opens, Blank, RowsInv
<1>6. opened' = opened
  BY <1>5, OpenStays
<1> QED
  BY <1>1, <1>2, <1>4, <1>6 DEF Promise!PostNext, Promise!Publish, show, list, opened

(* An edit or a delete that finds the message up is accepted.              *)
LEMMA CheckAccepts ==
  ASSUME RowsInv, NEW r \in Requests, NEW m \in Messages, NEW q, status[m] = "live",
         Begin(r, q), Opens(q), q.message = m, UNCHANGED rowVars
  PROVE  Promise!PostNext
<1>1. req' = [req EXCEPT ![r] = q] /\ req[r].pc = "idle" /\ req'[r] = q
  BY DEF Begin, RowsInv
<1>2. OnlyMoves(r) /\ ~Opens(req[r])
  BY <1>1 DEF OnlyMoves, Opens, RowsInv
<1>3. r \notin opened[m] /\ opened' = [opened EXCEPT ![m] = @ \cup {r}]
  BY <1>1, <1>2, OpenGrows
<1>4. show[m] \in Contents
  BY DEF show, Shown, Findable, RowsInv, RowOK
<1> QED
  BY <1>3, <1>4, RowsStay DEF Promise!PostNext, Promise!Accept, show, list, opened

(* An edit that is written changes the message while it is up, and else    *)
(* only what is listed of it.                                              *)
LEMMA EditChanges ==
  ASSUME RowsInv, NEW r \in Requests, UpdateWrite(r)
  PROVE  Promise!PostNext
<1>1. PICK m \in Messages, c \in Contents :
      /\ req[r].message = m /\ status[m] # "none" /\ req[r].pc = "edit_write"
      /\ status' = status /\ content' = [content EXCEPT ![m] = c]
      /\ req' = [req EXCEPT ![r] = Blank]
  BY DEF UpdateWrite, RowsInv, Carries, At, Finish
<1>2. OnlyMoves(r) /\ Opens(req[r]) /\ req[r].message = m /\ ~Opens(req'[r])
  BY <1>1 DEF OnlyMoves, Opens, Blank, RowsInv
<1>3. r \in opened[m] /\ opened' = [opened EXCEPT ![m] = @ \ {r}]
  BY <1>1, <1>2, OpenShrinks
<1>4. /\ content'[m] = c /\ \A n \in Messages \ {m} : content'[n] = content[n]
      /\ status[m] \in {"live", "deleted"}
  BY <1>1 DEF RowsInv, RowTypes
<1>5. CASE status[m] = "live"
  <2>1. Shown(m)' = c
    BY <1>1, <1>4, <1>5 DEF Shown, Findable
  <2>2. show' = [show EXCEPT ![m] = c] /\ list' = [list EXCEPT ![m] = c]
    BY <1>1, <1>4, <2>1, RowsElsewhere
  <2>3. show[m] \in Contents
    BY <1>1, <1>5 DEF show, Shown, Findable, RowsInv, RowOK
  <2>4. Promise!Change(m, r, c)
    BY <1>3, <2>2, <2>3 DEF Promise!Change, Promise!Closes, show, list, opened
  <2> QED
    BY <1>1, <2>4 DEF Promise!PostNext
<1>6. CASE status[m] = "deleted"
  <2>1. Shown(m)' = Gone /\ show[m] = Gone
    BY <1>1, <1>6 DEF show, Shown, Findable
  <2>2. show' = [show EXCEPT ![m] = Gone] /\ list' = [list EXCEPT ![m] = c]
    BY <1>1, <1>4, <2>1, RowsElsewhere
  <2>3. show' = show
    BY <2>1, <2>2 DEF show
  <2>4. Promise!ChangeLate(m, r, c)
    BY <1>3, <2>1, <2>2, <2>3 DEF Promise!ChangeLate, Promise!Closes, show, list, opened
  <2> QED
    BY <1>1, <2>4 DEF Promise!PostNext
<1> QED
  BY <1>4, <1>5, <1>6

(* A delete that is written takes the message down, with the text that a   *)
(* late edit may have put there.                                           *)
LEMMA DeleteTakesDown ==
  ASSUME RowsInv, NEW r \in Requests, SoftDeleteWrite(r)
  PROVE  Promise!PostNext
<1>1. PICK m \in Messages :
      /\ req[r].message = m /\ req[r].pc = "delete_write"
      /\ status' = [status EXCEPT ![m] = "deleted"]
      /\ content' = [content EXCEPT ![m] = NoContent]
      /\ req' = [s \in Requests |->
                   IF s = r THEN Blank
                   ELSE [req[s] EXCEPT !.late = @ \/ req[s].message = m]]
  BY DEF SoftDeleteWrite, RowsInv, Carries, At, Wiped
<1>2. OnlyMoves(r) /\ Opens(req[r]) /\ req[r].message = m /\ ~Opens(req'[r])
  BY <1>1 DEF OnlyMoves, Opens, Blank, RowsInv, Carries
<1>3. r \in opened[m] /\ opened' = [opened EXCEPT ![m] = @ \ {r}]
  BY <1>1, <1>2, OpenShrinks
<1>4. /\ Shown(m)' = Gone /\ content'[m] = NoContent
      /\ \A n \in Messages \ {m} : status'[n] = status[n] /\ content'[n] = content[n]
  BY <1>1 DEF RowsInv, RowTypes, Shown, Findable
<1>5. show' = [show EXCEPT ![m] = Gone] /\ list' = [list EXCEPT ![m] = NoContent]
  BY <1>1, <1>4, RowsElsewhere
<1>6. Promise!TakeDown(m, r)
  BY <1>3, <1>5 DEF Promise!TakeDown, Promise!Closes, show, list, opened
<1> QED
  BY <1>1, <1>6 DEF Promise!PostNext

(* Posting that begins, reactions, pins and the index neither show nor     *)
(* open anything.                                                          *)
LEMMA OthersHide ==
  ASSUME RowsInv, NEW r \in Requests,
         \/ \E u \in Senders, c \in Contents : Create(r, u, c)
         \/ \E u \in Reactors, m \in Messages, e \in Emojis : ToggleReaction(r, u, m, e)
         \/ \E u \in Users, m \in Messages : PinMessage(r, u, m) \/ UnpinMessage(r, u, m)
         \/ ReactionFind(r) \/ ReactionWrite(r) \/ PinFind(r) \/ PinWrite(r)
  PROVE  postVars' = postVars
<1>1. UNCHANGED rowVars /\ OnlyMoves(r) /\ ~Opens(req[r])
  BY DEF Create, ToggleReaction, PinMessage, UnpinMessage, ReactionFind, ReactionWrite, PinFind,
     PinWrite, Begin, Goto, Finish, At, OnlyMoves, Opens, RowsInv
<1>2. ~Opens(req'[r])
  <2>1. ASSUME NEW step, Goto(r, step), step \notin {"edit_write", "delete_write"}
        PROVE  ~Opens(req'[r])
    BY <2>1 DEF Goto, Opens, RowsInv, Carries, Blank
  <2>2. ASSUME Finish(r) PROVE ~Opens(req'[r])
    BY <2>2 DEF Finish, Opens, Blank, RowsInv
  <2>3. CASE ReactionFind(r) \/ PinFind(r)
    BY <2>1, <2>2, <2>3 DEF ReactionFind, PinFind
  <2>4. CASE ReactionWrite(r) \/ PinWrite(r)
    BY <2>2, <2>4 DEF ReactionWrite, PinWrite
  <2>5. CASE \E u \in Senders, c \in Contents : Create(r, u, c)
    BY <2>5 DEF Create, Begin, Opens, Blank, RowsInv
  <2>6. CASE \E u \in Reactors, m \in Messages, e \in Emojis : ToggleReaction(r, u, m, e)
    BY <2>6 DEF ToggleReaction, Begin, Opens, Blank, RowsInv
  <2>7. CASE \E u \in Users, m \in Messages : PinMessage(r, u, m) \/ UnpinMessage(r, u, m)
    BY <2>7 DEF PinMessage, UnpinMessage, Begin, Opens, Blank, RowsInv
  <2> QED
    BY <2>3, <2>4, <2>5, <2>6, <2>7
<1> QED
  BY <1>1, <1>2, OpenStays, RowsStay DEF postVars

(* Every step is one of the promise, or changes nothing of it.             *)
LEMMA PromiseStep ==
  ASSUME RowsInv, [Next]_vars
  PROVE  Promise!PostNext \/ postVars' = postVars
<1>1. ASSUME NEW r \in Requests, NEW u \in Users, NEW m \in Messages, NEW c \in Contents,
             Update(r, u, m, c)
      PROVE  Promise!PostNext
  <2> DEFINE q == [Blank EXCEPT !.pc = "edit_write", !.user = u, !.message = m,
                                !.seen = content[m], !.given = c]
  <2>1. status[m] = "live" /\ Begin(r, q) /\ UNCHANGED rowVars
    BY <1>1 DEF Update, MayEdit, Findable
  <2>2. Opens(q) /\ q.message = m
    BY DEF Opens, Blank
  <2> HIDE DEF q
  <2> QED
    BY <2>1, <2>2, CheckAccepts
<1>2. ASSUME NEW r \in Requests, NEW u \in Users, NEW m \in Messages, NEW admin,
             SoftDelete(r, u, m, admin)
      PROVE  Promise!PostNext
  <2> DEFINE q == [Blank EXCEPT !.pc = "delete_write", !.user = u, !.message = m,
                                !.admin = admin]
  <2>1. status[m] = "live" /\ Begin(r, q) /\ UNCHANGED rowVars
    BY <1>2 DEF SoftDelete, MayDelete, Findable
  <2>2. Opens(q) /\ q.message = m
    BY DEF Opens, Blank
  <2> HIDE DEF q
  <2> QED
    BY <2>1, <2>2, CheckAccepts
<1>3. ASSUME NEW r \in Requests, Arrive(r) PROVE Promise!PostNext \/ postVars' = postVars
  BY <1>1, <1>2, <1>3, OthersHide DEF Arrive, ArriveBySocket, ArriveByRest, SendEvent, EditEvent,
     DeleteEvent, DeleteRoute, ReactEvent, PinRoutes
<1>4. ASSUME NEW r \in Requests, Continue(r) PROVE Promise!PostNext \/ postVars' = postVars
  BY <1>4, CreatePublishes, EditChanges, DeleteTakesDown, OthersHide DEF Continue
<1>5. CASE StartReindex \/ IndexStep \/ UNCHANGED vars
  <2>1. UNCHANGED rowVars /\ req' = req
    BY <1>5 DEF StartReindex, IndexStep, vars, rowVars
  <2>2. opened' = opened
    BY <2>1 DEF opened, Open, At
  <2> QED
    BY <2>1, <2>2, RowsStay DEF postVars
<1> QED
  BY <1>3, <1>4, <1>5 DEF Next

(* The table of messages implements Post: a message is published once, is  *)
(* not found again once it is taken down, and is then without text in the  *)
(* lists too, but for changes accepted before it was.                      *)
THEOREM PromiseKept == Spec => KeepsPromise
<1>1. RowsInv /\ [Next]_vars => [Promise!PostNext]_<<show, list, opened>>
  BY PromiseStep DEF postVars
<1>2. RowsInv /\ [Next]_vars =>
        [Promise!PostNext]_<<[m \in Messages |-> Shown(m)], [m \in Messages |-> Listed(m)],
                             [m \in Messages |-> Open(m)]>>
  BY <1>1 DEF show, list, opened
<1> QED
  BY RowsAlways, PromiseInit, <1>2, PTL DEF Spec, KeepsPromise, Promise!PostSpec

-----------------------------------------------------------------------------
(* The other columns and tables, and the requests.  A request that is past *)
(* its check of the message knows when the message has been deleted since. *)
Reacting == {"react_find", "react_create", "react_delete"}
Checked == {"edit_write", "delete_write", "pin_write"} \cup Reacting

RequestOK(q) ==
  /\ q \in Request
  /\ q.pc \notin {"idle", "create_write"} => q.message \in Messages
  /\ q.pc \in Reacting \cup {"create_write"} => q.user \in Users
  /\ q.pc \in Reacting => q.emoji \in Emojis
  /\ q.pc = "edit_write" => q.seen \in Contents
  /\ q.pc \in Checked /\ status[q.message] = "deleted" => q.late

SideTypes ==
  /\ sender \in [Messages -> Users \cup {Nobody}]
  /\ edits \in [Messages -> Seq(Contents)]
  /\ reactions \in SUBSET (Messages \X Users \X Emojis)
  /\ pins \in SUBSET Messages

SlotsInv ==
  /\ SideTypes
  /\ req \in [Requests -> Request]
  /\ \A r \in Requests : RequestOK(req[r])

(* One request moves, no message is deleted: the others are as good as     *)
(* they were.                                                              *)
LEMMA SlotMoves ==
  ASSUME SlotsInv, NEW r \in Requests, NEW q, req' = [req EXCEPT ![r] = q],
         RequestOK(q)', SideTypes',
         \A m \in Messages : status'[m] = "deleted" => status[m] = "deleted"
  PROVE  SlotsInv'
<1>1. q \in Request
  BY DEF RequestOK
<1>2. req' \in [Requests -> Request]
  BY <1>1 DEF SlotsInv
<1>3. ASSUME NEW s \in Requests PROVE RequestOK(req[s])'
  <2>1. CASE s = r
    BY <2>1 DEF SlotsInv
  <2>2. CASE s # r
    BY <2>2 DEF SlotsInv, RequestOK, Checked, Reacting
  <2> QED BY <2>1, <2>2
<1> QED
  BY <1>2, <1>3 DEF SlotsInv

(* A request ends.                                                         *)
LEMMA SlotEnds ==
  ASSUME SlotsInv, NEW r \in Requests, Finish(r), SideTypes',
         \A m \in Messages : status'[m] = "deleted" => status[m] = "deleted"
  PROVE  SlotsInv'
<1>1. RequestOK(Blank)'
  BY DEF RequestOK, Request, Blank, Checked, Reacting
<1> QED
  BY <1>1, SlotMoves DEF Finish

(* The requests that begin: what they carry is of the right type, and the  *)
(* message that most of them have checked is not deleted.                  *)
LEMMA ArriveSlots ==
  ASSUME RowsInv, SlotsInv, NEW r \in Requests, Arrive(r)
  PROVE  SlotsInv'
<1> USE ContentAssumption
<1>1. ASSUME NEW q, RequestOK(q), Begin(r, q), UNCHANGED <<rowVars, sideVars>>
      PROVE  SlotsInv'
  <2>1. RequestOK(q)' /\ SideTypes'
    BY <1>1 DEF RequestOK, SlotsInv, SideTypes, rowVars, sideVars
  <2> QED BY <1>1, <2>1, SlotMoves DEF Begin, rowVars
<1>2. ASSUME NEW u \in Senders, NEW c \in Contents, Create(r, u, c) PROVE SlotsInv'
  <2> DEFINE q == [Blank EXCEPT !.pc = "create_write", !.user = u, !.given = c]
  <2>1. /\ q.pc = "create_write" /\ q.user = u /\ q.message = NoMessage
        /\ q.emoji = NoEmoji /\ q.seen = NoContent /\ q.given = c /\ q.admin = FALSE
        /\ q.late = FALSE /\ q \in Request
    BY DEF Blank, Request
  <2> HIDE DEF q
  <2>2. RequestOK(q)
    BY <2>1 DEF RequestOK, Request, Checked, Reacting
  <2> QED BY <1>1, <1>2, <2>2 DEF Create, q
<1>3. ASSUME NEW u \in Users, NEW m \in Messages, NEW c \in Contents, Update(r, u, m, c)
      PROVE  SlotsInv'
  <2> DEFINE q == [Blank EXCEPT !.pc = "edit_write", !.user = u, !.message = m,
                                !.seen = content[m], !.given = c]
  <2>1. status[m] = "live" /\ content[m] \in Contents
    BY <1>3 DEF Update, MayEdit, Findable, RowsInv, RowOK
  <2>2. /\ q.pc = "edit_write" /\ q.user = u /\ q.message = m
        /\ q.emoji = NoEmoji /\ q.seen = content[m] /\ q.given = c /\ q.admin = FALSE
        /\ q.late = FALSE /\ q \in Request
    BY <2>1 DEF Blank, Request
  <2> HIDE DEF q
  <2>3. RequestOK(q)
    BY <2>1, <2>2 DEF RequestOK, Request, Checked, Reacting
  <2> QED BY <1>1, <1>3, <2>3 DEF Update, q
<1>4. ASSUME NEW u \in Users, NEW m \in Messages, NEW admin \in BOOLEAN,
             SoftDelete(r, u, m, admin)
      PROVE  SlotsInv'
  <2> DEFINE q == [Blank EXCEPT !.pc = "delete_write", !.user = u, !.message = m,
                                !.admin = admin]
  <2>1. /\ q.pc = "delete_write" /\ q.user = u /\ q.message = m
        /\ q.emoji = NoEmoji /\ q.seen = NoContent /\ q.given = NoContent /\ q.admin = admin
        /\ q.late = FALSE /\ q \in Request
    BY DEF Blank, Request
  <2> HIDE DEF q
  <2>2. status[m] = "live"
    BY <1>4 DEF SoftDelete, MayDelete, Findable
  <2>3. RequestOK(q)
    BY <2>1, <2>2 DEF RequestOK, Request, Checked, Reacting
  <2> QED BY <1>1, <1>4, <2>3 DEF SoftDelete, q
<1>5. ASSUME NEW u \in Reactors, NEW m \in Messages, NEW e \in Emojis,
             ToggleReaction(r, u, m, e)
      PROVE  SlotsInv'
  <2> DEFINE q == [Blank EXCEPT !.pc = "react_find", !.user = u, !.message = m, !.emoji = e]
  <2>1. /\ q.pc = "react_find" /\ q.user = u /\ q.message = m
        /\ q.emoji = e /\ q.seen = NoContent /\ q.given = NoContent /\ q.admin = FALSE
        /\ q.late = FALSE /\ q \in Request
    BY DEF Blank, Request
  <2> HIDE DEF q
  <2>2. status[m] = "live" /\ u \in Users
    BY <1>5 DEF ToggleReaction, Findable
  <2>3. RequestOK(q)
    BY <2>1, <2>2 DEF RequestOK, Request, Checked, Reacting
  <2> QED BY <1>1, <1>5, <2>3 DEF ToggleReaction, q
<1>6. ASSUME NEW pc \in {"pin_find", "unpin_write"}, NEW u \in Users, NEW m \in Messages
      PROVE  RequestOK([Blank EXCEPT !.pc = pc, !.user = u, !.message = m])
  <2> DEFINE q == [Blank EXCEPT !.pc = pc, !.user = u, !.message = m]
  <2>1. /\ q.pc = pc /\ q.user = u /\ q.message = m
        /\ q.emoji = NoEmoji /\ q.seen = NoContent /\ q.given = NoContent /\ q.admin = FALSE
        /\ q.late = FALSE /\ q \in Request
    BY DEF Blank, Request
  <2> HIDE DEF q
  <2>2. RequestOK(q)
    BY <2>1 DEF RequestOK, Request, Checked, Reacting
  <2> QED BY <2>2 DEF q
<1>7. ASSUME NEW u \in Users, NEW m \in Messages, PinMessage(r, u, m) PROVE SlotsInv'
  BY <1>1, <1>6, <1>7 DEF PinMessage
<1>8. ASSUME NEW u \in Users, NEW m \in Messages, UnpinMessage(r, u, m) PROVE SlotsInv'
  BY <1>1, <1>6, <1>8 DEF UnpinMessage
<1>9. CASE SendEvent(r) \/ EditEvent(r) \/ ReactEvent(r)
  BY <1>2, <1>3, <1>5, <1>9 DEF SendEvent, EditEvent, ReactEvent
<1>10. CASE DeleteEvent(r) \/ DeleteRoute(r)
  BY <1>4, <1>10 DEF DeleteEvent, DeleteRoute
<1>11. CASE PinRoutes(r)
  BY <1>7, <1>8, <1>11 DEF PinRoutes
<1> QED
  BY <1>9, <1>10, <1>11 DEF Arrive, ArriveBySocket, ArriveByRest

(* The requests that go on.                                                *)
LEMMA ContinueSlots ==
  ASSUME RowsInv, SlotsInv, NEW r \in Requests, Continue(r)
  PROVE  SlotsInv'
<1>1. RequestOK(req[r]) /\ req[r] \in Request
  BY DEF SlotsInv
<1>2. ASSUME NEW m \in Messages, CreateWrite(r, m) PROVE SlotsInv'
  <2>1. SideTypes'
    BY <1>1, <1>2 DEF CreateWrite, At, RequestOK, SlotsInv, SideTypes, sideVars
  <2> QED
    BY <1>2, <2>1, SlotEnds DEF CreateWrite, RowsInv, RowTypes
<1>3. CASE UpdateWrite(r)
  <2>1. req[r].message \in Messages /\ req[r].seen \in Contents
    BY <1>1, <1>3 DEF UpdateWrite, At, RequestOK
  <2>2. Append(edits[req[r].message], req[r].seen) \in Seq(Contents)
    BY <2>1, AppendProperties DEF SlotsInv, SideTypes
  <2>3. SideTypes'
    BY <1>3, <2>1, <2>2 DEF UpdateWrite, PreviousContent, SlotsInv, SideTypes, sideVars
  <2> QED
    BY <1>3, <2>3, SlotEnds DEF UpdateWrite
<1>4. CASE SoftDeleteWrite(r)
  <2>1. PICK m \in Messages :
          /\ m = req[r].message /\ status' = [status EXCEPT ![m] = "deleted"]
          /\ req' = [s \in Requests |->
                       IF s = r THEN Blank
                       ELSE [req[s] EXCEPT !.late = @ \/ req[s].message = m]]
    BY <1>1, <1>4 DEF SoftDeleteWrite, At, RequestOK
  <2>2. SideTypes'
    BY <1>4 DEF SoftDeleteWrite, SlotsInv, SideTypes, sideVars
  <2>3. Blank \in Request /\ RequestOK(Blank)'
    BY DEF RequestOK, Request, Blank, Checked, Reacting
  <2>4. ASSUME NEW s \in Requests \ {r} PROVE req'[s] \in Request /\ RequestOK(req[s])'
    <3> DEFINE q == [req[s] EXCEPT !.late = @ \/ req[s].message = m]
    <3>1. req[s] \in Request /\ RequestOK(req[s])
      BY DEF SlotsInv
    <3>2. /\ q \in Request
          /\ q.pc = req[s].pc /\ q.user = req[s].user /\ q.message = req[s].message
          /\ q.emoji = req[s].emoji /\ q.seen = req[s].seen
          /\ q.late <=> req[s].late \/ req[s].message = m
      BY <3>1 DEF Request
    <3>3. req'[s] = q
      BY <2>1
    <3> HIDE DEF q
    <3>4. \A n \in Messages : status'[n] = "deleted" => status[n] = "deleted" \/ n = m
      BY <2>1 DEF RowsInv, RowTypes
    <3> QED BY <3>1, <3>2, <3>3, <3>4 DEF RequestOK, Checked, Reacting
  <2>5. req' \in [Requests -> Request]
    BY <2>1, <2>3, <2>4
  <2> QED BY <2>1, <2>2, <2>3, <2>4, <2>5 DEF SlotsInv
<1>5. ASSUME NEW pc \in {"react_create", "react_delete", "pin_write"}, Goto(r, pc),
             UNCHANGED <<rowVars, sideVars>>,
             IF pc = "pin_write" THEN req[r].pc = "pin_find" /\ Findable(req[r].message)
             ELSE req[r].pc = "react_find"
      PROVE  SlotsInv'
  <2>1. PICK q \in Request :
          /\ req' = [req EXCEPT ![r] = q] /\ q.pc = pc /\ q.user = req[r].user
          /\ q.message = req[r].message /\ q.emoji = req[r].emoji /\ q.late = req[r].late
    <3> DEFINE p == [req[r] EXCEPT !.pc = pc]
    <3>1. /\ p \in Request /\ p.pc = pc /\ p.user = req[r].user
          /\ p.message = req[r].message /\ p.emoji = req[r].emoji /\ p.late = req[r].late
      BY <1>1, <1>5 DEF Request
    <3>2. req' = [req EXCEPT ![r] = p]
      BY <1>5 DEF Goto, SlotsInv
    <3> HIDE DEF p
    <3> QED BY <3>1, <3>2
  <2>2. RequestOK(q)
    BY <1>1, <1>5, <2>1 DEF RequestOK, Checked, Reacting, Findable
  <2>3. RequestOK(q)' /\ SideTypes'
    BY <1>5, <2>2 DEF RequestOK, SlotsInv, SideTypes, rowVars, sideVars
  <2> QED BY <1>5, <2>1, <2>3, SlotMoves DEF rowVars
<1>6. CASE ReactionFind(r)
  <2>1. /\ req[r].pc = "react_find" /\ UNCHANGED <<rowVars, sideVars>>
        /\ Goto(r, "react_create") \/ Goto(r, "react_delete")
    BY <1>6 DEF ReactionFind, At, Goto
  <2> QED BY <1>5, <2>1
<1>7. CASE ReactionWrite(r)
  <2>1. Reaction(req[r]) \in Messages \X Users \X Emojis
    BY <1>1, <1>7 DEF ReactionWrite, At, Reaction, RequestOK, Reacting
  <2>2. SideTypes'
    BY <1>7, <2>1 DEF ReactionWrite, SlotsInv, SideTypes, rowVars
  <2> QED BY <1>7, <2>2, SlotEnds DEF ReactionWrite, rowVars
<1>8. CASE PinFind(r)
  <2>1. SideTypes'
    BY <1>8 DEF PinFind, SlotsInv, SideTypes, rowVars, sideVars
  <2> QED BY <1>5, <1>8, <2>1, SlotEnds DEF PinFind, At, Pinnable, rowVars
<1>9. CASE PinWrite(r)
  <2>1. SideTypes'
    BY <1>1, <1>9 DEF PinWrite, At, RequestOK, SlotsInv, SideTypes, rowVars
  <2> QED BY <1>9, <2>1, SlotEnds DEF PinWrite, rowVars
<1> QED
  BY <1>2, <1>3, <1>4, <1>6, <1>7, <1>8, <1>9 DEF Continue

(* Requests and tables, at the start and at every step.                    *)
LEMMA SlotsInit == Init => SlotsInv
BY DEF Init, SlotsInv, SideTypes, RequestOK, Request, Blank, Checked, Reacting

(* Every step keeps them in order.                                        *)
LEMMA SlotsStep == RowsInv /\ SlotsInv /\ [Next]_vars => SlotsInv'
<1> SUFFICES ASSUME RowsInv, SlotsInv, [Next]_vars PROVE SlotsInv'
  OBVIOUS
<1>1. CASE StartReindex \/ IndexStep \/ UNCHANGED vars
  BY <1>1 DEF StartReindex, IndexStep, vars, rowVars, sideVars, SlotsInv, SideTypes,
              RequestOK
<1> QED
  BY <1>1, ArriveSlots, ContinueSlots DEF Next

-----------------------------------------------------------------------------
(* The search index.  What the rows say the document of a message is to be.*)
IndexProof == INSTANCE SearchIndexProofs
                WITH Docs <- Messages, Texts <- Contents, NoText <- NoContent

Doc(m) == [whole |-> status[m] # "none", text |-> content[m],
           flag |-> IF status[m] = "deleted" THEN "hidden" ELSE "shown"]

IndexedInv ==
  /\ IndexProof!IndexInv
  /\ Enabled => \A m \in Messages : IndexProof!Tracks(m, Doc(m))

(* The two instances of SearchIndex are one.                               *)
LEMMA SameIndex ==
  /\ Index!InitIndex = IndexProof!InitIndex
  /\ Index!IndexNext = IndexProof!IndexNext
  /\ Index!IndexTypeOK = IndexProof!IndexTypeOK
  /\ \A d, whole, text, flag :
       Index!Send(d, whole, text, flag) = IndexProof!Send(d, whole, text, flag)
  /\ \A d : Index!Settled(d) = IndexProof!Settled(d) /\ Index!Found(d) = IndexProof!Found(d)
<1>1. Index!InitIndex = IndexProof!InitIndex
  BY DEF Index!InitIndex, IndexProof!InitIndex, Index!Absent, IndexProof!Absent,
         Index!NoReindex, IndexProof!NoReindex
<1>2. /\ \A w : Index!Deliver(w) = IndexProof!Deliver(w) /\ Index!Lose(w) = IndexProof!Lose(w)
      /\ \A d : Index!ReindexDocument(d) = IndexProof!ReindexDocument(d)
      /\ Index!AbortReindex = IndexProof!AbortReindex
  BY DEF Index!Deliver, IndexProof!Deliver, Index!Merge, IndexProof!Merge, Index!Keep,
         IndexProof!Keep, Index!Lose, IndexProof!Lose, Index!ReindexDocument,
         IndexProof!ReindexDocument, Index!StillCurrent, IndexProof!StillCurrent,
         Index!Overtaken, IndexProof!Overtaken, Index!NoReindex, IndexProof!NoReindex,
         Index!AbortReindex, IndexProof!AbortReindex
<1>3. Index!IndexNext = IndexProof!IndexNext
  BY <1>2 DEF Index!IndexNext, IndexProof!IndexNext
<1>4. Index!IndexTypeOK = IndexProof!IndexTypeOK
  BY DEF Index!IndexTypeOK, IndexProof!IndexTypeOK, Index!Document, IndexProof!Document,
         Index!Write, IndexProof!Write, Index!Snapshot, IndexProof!Snapshot, Index!Flag,
         IndexProof!Flag, Index!Keep, IndexProof!Keep
<1>5. \A d, whole, text, flag :
        Index!Send(d, whole, text, flag) = IndexProof!Send(d, whole, text, flag)
  BY DEF Index!Send, IndexProof!Send
<1>6. \A d : Index!Settled(d) = IndexProof!Settled(d) /\ Index!Found(d) = IndexProof!Found(d)
  BY DEF Index!Settled, IndexProof!Settled, Index!Found, IndexProof!Found
<1> QED
  BY <1>1, <1>3, <1>4, <1>5, <1>6

(* What a step does to rows and index.                                     *)
LEMMA IndexSteps ==
  ASSUME RowsInv, [Next]_vars
  PROVE  \/ \E r \in Requests, m \in Messages : CreateWrite(r, m)
         \/ \E r \in Requests : UpdateWrite(r) \/ SoftDeleteWrite(r)
         \/ StartReindex
         \/ IndexStep
         \/ UNCHANGED <<rowVars, indexVars>>
<1>1. ASSUME NEW r \in Requests, Arrive(r) PROVE UNCHANGED <<rowVars, indexVars>>
  BY <1>1 DEF Arrive, ArriveBySocket, ArriveByRest, SendEvent, EditEvent, ReactEvent,
              DeleteEvent, DeleteRoute, PinRoutes, Create, Update, SoftDelete,
              ToggleReaction, PinMessage, UnpinMessage
<1>2. ASSUME NEW r \in Requests, Continue(r)
      PROVE  \/ \E m \in Messages : CreateWrite(r, m)
             \/ UpdateWrite(r) \/ SoftDeleteWrite(r)
             \/ UNCHANGED <<rowVars, indexVars>>
  BY <1>2 DEF Continue, ReactionFind, ReactionWrite, PinFind, PinWrite
<1>3. CASE UNCHANGED vars
  BY <1>3 DEF vars, rowVars, indexVars
<1> QED
  BY <1>1, <1>2, <1>3 DEF Next

(* A row is written and its event sent: the document is to be what the row *)
(* then is, and the others what they were.                                 *)
LEMMA SendIndexed ==
  ASSUME RowsInv, IndexedInv, NEW m \in Messages,
         NEW whole \in BOOLEAN, NEW text \in Contents \cup {NoContent},
         NEW flag \in {"shown", "hidden", "keep"}, Index!Send(m, whole, text, flag),
         \A n \in Messages \ {m} : status'[n] = status[n] /\ content'[n] = content[n],
         status'[m] # "none" <=> whole \/ status[m] # "none",
         content'[m] = text,
         Doc(m)'.flag = IF flag = "keep" THEN Doc(m).flag ELSE flag
  PROVE  IndexedInv'
<1>1. IndexProof!Send(m, whole, text, flag)
  BY SameIndex
<1>2. /\ text \in Contents \cup {NoContent, IndexProof!Keep} /\ text # IndexProof!Keep
      /\ flag \in IndexProof!Flag \cup {IndexProof!Keep}
  BY KeepAssumption DEF Index!Keep, IndexProof!Keep, IndexProof!Flag
<1>3. IndexProof!IndexInv'
  BY <1>1, <1>2, IndexProof!SendInv DEF IndexedInv
<1>4. ASSUME Enabled PROVE IndexProof!Tracks(m, Doc(m))'
  <2>1. PICK t : t = Doc(m)'
    OBVIOUS
  <2>2. IndexProof!Same(t, IndexProof!Merge(Doc(m),
                             [whole |-> whole, text |-> text, flag |-> flag]))
    BY <1>2, <2>1 DEF IndexProof!Same, IndexProof!Fields, IndexProof!Field,
                      IndexProof!Merge, IndexProof!Keep, Doc
  <2>3. IndexProof!Tracks(m, t)'
    BY <1>1, <1>2, <1>4, <2>2, IndexProof!SendTracks DEF IndexedInv
  <2> QED BY <2>1, <2>3
<1>5. ASSUME Enabled, NEW n \in Messages \ {m} PROVE IndexProof!Tracks(n, Doc(n))'
  <2>1. PICK t : t = Doc(n) /\ t = Doc(n)'
    BY DEF Doc
  <2>2. IndexProof!Tracks(n, t)'
    BY <1>1, <1>5, <2>1, IndexProof!SendElsewhere DEF IndexedInv
  <2> QED BY <2>1, <2>2
<1> QED
  BY <1>3, <1>4, <1>5 DEF IndexedInv

(* Where the rows stay, the index moves as SearchIndex lets it.            *)
LEMMA OwnIndexed ==
  ASSUME RowsInv, IndexedInv, UNCHANGED rowVars,
         Index!IndexNext \/ StartReindex \/ UNCHANGED indexVars
  PROVE  IndexedInv'
<1>1. \A m \in Messages : Doc(m)' = Doc(m)
  BY DEF Doc, rowVars
<1>2. CASE Index!IndexNext
  <2>1. IndexProof!IndexNext
    BY <1>2, SameIndex
  <2>2. IndexProof!IndexInv'
    BY <2>1, IndexProof!IndexStepInv DEF IndexedInv
  <2>3. ASSUME Enabled, NEW m \in Messages PROVE IndexProof!Tracks(m, Doc(m))'
    <3>1. PICK t : t = Doc(m) /\ t = Doc(m)'
      BY <1>1
    <3>2. IndexProof!Tracks(m, t)'
      BY <2>1, <2>3, <3>1, IndexProof!IndexStepTracks DEF IndexedInv
    <3> QED BY <3>1, <3>2
  <2> QED BY <2>2, <2>3 DEF IndexedInv
<1>3. CASE UNCHANGED indexVars
  <2>1. IndexProof!IndexInv'
    BY <1>3 DEF IndexedInv, indexVars, IndexProof!IndexInv, IndexProof!IndexTypeOK,
                IndexProof!Numbered
  <2>2. ASSUME Enabled, NEW m \in Messages PROVE IndexProof!Tracks(m, Doc(m))'
    <3>1. PICK t : t = Doc(m) /\ t = Doc(m)'
      BY <1>1
    <3>2. IndexProof!Pending(m)' = IndexProof!Pending(m)
      BY <1>3 DEF indexVars, IndexProof!Pending
    <3>3. IndexProof!Tracks(m, t)'
      BY <1>3, <2>2, <3>1, <3>2, IndexProof!TracksElsewhere DEF IndexedInv, indexVars
    <3> QED BY <3>1, <3>3
  <2> QED BY <2>1, <2>2 DEF IndexedInv
<1>4. CASE StartReindex
  <2> DEFINE rows == {m \in Messages : status[m] = "live"}
             flag == [m \in Messages |-> "shown"]
  <2>1. IndexProof!StartReindex(rows, content, flag)
    BY <1>4 DEF StartReindex, Index!StartReindex, IndexProof!StartReindex,
                Index!NoReindex, IndexProof!NoReindex
  <2>2. \A m \in rows : /\ content[m] \in Contents \cup {NoContent}
                        /\ flag[m] \in IndexProof!Flag
    BY DEF RowsInv, RowTypes, IndexProof!Flag
  <2>3. \A m \in rows : Doc(m).whole = TRUE /\ Doc(m).text = content[m]
                        /\ Doc(m).flag = flag[m]
    BY DEF Doc
  <2> HIDE DEF rows, flag
  <2>4. rows \in SUBSET Messages
    BY DEF rows
  <2>5. IndexProof!IndexInv'
    BY <2>1, <2>2, <2>4, IndexProof!ReindexInv DEF IndexedInv
  <2>6. ASSUME Enabled, NEW m \in Messages PROVE IndexProof!Tracks(m, Doc(m))'
    <3>1. PICK t : t = Doc(m) /\ t = Doc(m)'
      BY <1>1
    <3>2. m \in rows => t.whole = TRUE /\ t.text = content[m] /\ t.flag = flag[m]
      BY <2>3, <3>1
    <3>3. IndexProof!IndexInv /\ IndexProof!Tracks(m, t)
      BY <2>6, <3>1 DEF IndexedInv
    <3>4. IndexProof!Tracks(m, t)'
      BY <2>1, <3>2, <3>3, IndexProof!ReindexTracks
    <3> QED BY <3>1, <3>4
  <2> QED BY <2>5, <2>6 DEF IndexedInv
<1> QED
  BY <1>2, <1>3, <1>4

(* An empty table and an empty index.                                      *)
LEMMA IndexedInit == Init => IndexedInv
<1> SUFFICES ASSUME Init PROVE IndexedInv
  OBVIOUS
<1>1. IndexProof!InitIndex
  BY SameIndex DEF Init
<1>2. IndexProof!IndexInv
  BY <1>1, IndexProof!IndexInit
<1>3. ASSUME NEW m \in Messages PROVE IndexProof!Tracks(m, Doc(m))
  <2>1. IndexProof!Tracks(m, IndexProof!Absent)
    BY <1>1, IndexProof!TracksInit
  <2>2. IndexProof!Same(IndexProof!Absent, Doc(m))
    BY DEF Init, Doc, IndexProof!Absent, IndexProof!Same, IndexProof!Fields,
           IndexProof!Field
  <2> QED BY <2>1, <2>2, IndexProof!TracksSame
<1> QED
  BY <1>2, <1>3 DEF IndexedInv

(* Every step keeps the index on its way to the rows.                      *)
LEMMA IndexedStep == RowsInv /\ IndexedInv /\ [Next]_vars => IndexedInv'
<1> SUFFICES ASSUME RowsInv, IndexedInv, [Next]_vars PROVE IndexedInv'
  OBVIOUS
<1>1. ASSUME NEW r \in Requests, NEW m \in Messages, CreateWrite(r, m) PROVE IndexedInv'
  <2>1. /\ req[r].given \in Contents /\ status[m] = "none"
        /\ status' = [status EXCEPT ![m] = "live"]
        /\ content' = [content EXCEPT ![m] = req[r].given]
        /\ Index!Send(m, TRUE, req[r].given, "shown")
    BY <1>1 DEF CreateWrite, RowsInv, Carries, At, Index!IndexDocument
  <2> QED BY <2>1, SendIndexed DEF RowsInv, RowTypes, Doc
<1>2. ASSUME NEW r \in Requests, UpdateWrite(r) PROVE IndexedInv'
  <2>1. PICK m \in Messages, c \in Contents :
          /\ status[m] # "none" /\ status' = status
          /\ content' = [content EXCEPT ![m] = c] /\ Index!Send(m, FALSE, c, "keep")
    BY <1>2 DEF UpdateWrite, RowsInv, Carries, At, Index!UpdateDocument, Index!Keep
  <2> QED BY <2>1, SendIndexed DEF RowsInv, RowTypes, Doc
<1>3. ASSUME NEW r \in Requests, SoftDeleteWrite(r) PROVE IndexedInv'
  <2>1. PICK m \in Messages :
          /\ status[m] # "none" /\ status' = [status EXCEPT ![m] = "deleted"]
          /\ content' = [content EXCEPT ![m] = NoContent]
          /\ Index!Send(m, FALSE, NoContent, "hidden")
    BY <1>3 DEF SoftDeleteWrite, RowsInv, Carries, At, Wiped, HideFromSearch,
                Index!UpdateDocument
  <2> QED BY <2>1, SendIndexed DEF RowsInv, RowTypes, Doc
<1>4. CASE StartReindex
  BY <1>4, OwnIndexed DEF StartReindex
<1>5. CASE IndexStep
  BY <1>5, OwnIndexed DEF IndexStep
<1> QED
  BY <1>1, <1>2, <1>3, <1>4, <1>5, IndexSteps, OwnIndexed

(* What holds throughout.                                                  *)
LEMMA Always == Spec => [](RowsInv /\ SlotsInv /\ IndexedInv)
<1>1. Init => RowsInv /\ SlotsInv /\ IndexedInv
  BY RowsInit, SlotsInit, IndexedInit
<1>2. RowsInv /\ SlotsInv /\ IndexedInv /\ [Next]_vars
        => (RowsInv /\ SlotsInv /\ IndexedInv)'
  BY RowsStep, SlotsStep, IndexedStep
<1> QED
  BY <1>1, <1>2, PTL DEF Spec

(* The rows, the requests and the index have their types.                  *)
THEOREM ContentTypes == Spec => []TypeOK
<1>1. RowsInv /\ SlotsInv /\ IndexedInv => TypeOK
  BY SameIndex DEF RowsInv, RowTypes, SlotsInv, SideTypes, IndexedInv, IndexProof!IndexInv,
                   TypeOK
<1> QED
  BY Always, <1>1, PTL

(* However the writes of a message are delayed and requests interleave, a  *)
(* search through Elasticsearch finds what one through PostgreSQL does,    *)
(* once no write of it is lost, overtaken or on its way (SearchService and *)
(* its fallback).                                                          *)
THEOREM SearchesAgree == Spec => []IndexAgrees
<1>1. RowsInv /\ IndexedInv => IndexAgrees
  <2> SUFFICES ASSUME RowsInv, IndexedInv, NEW m \in Messages, Index!Settled(m)
               PROVE  SearchMessages(m, TRUE) = SearchMessages(m, FALSE)
    BY DEF IndexAgrees
  <2>1. CASE Enabled
    <3>1. IndexProof!Settled(m) /\ Index!Found(m) = IndexProof!Found(m)
      BY SameIndex
    <3>2. IndexProof!Tracks(m, Doc(m)) /\ Doc(m).whole \in BOOLEAN
      BY <2>1 DEF IndexedInv, Doc
    <3>3. Index!Found(m) = IF Doc(m).whole /\ Doc(m).flag = "shown" THEN Doc(m).text
                           ELSE NoContent
      BY <3>1, <3>2, IndexProof!SettledIs DEF IndexedInv
    <3>4. status[m] \in {"none", "live", "deleted"}
      BY DEF RowsInv, RowTypes
    <3> QED BY <2>1, <3>3, <3>4 DEF SearchMessages, PostgresFinds, Findable, Doc
  <2>2. CASE ~Enabled
    BY <2>2 DEF SearchMessages
  <2> QED BY <2>1, <2>2
<1> QED
  BY Always, <1>1, PTL

(* A step that changes anything about a deleted message is one of a        *)
(* request that had checked it before it was deleted (update, softDelete,  *)
(* toggleReaction, pinMessage).                                            *)
THEOREM DeletedStaysFrozen == Spec => DeletedIsFrozen
<1>1. RowsInv /\ SlotsInv /\ [Next]_vars =>
        [\A m \in Messages : status[m] = "deleted" =>
           \/ /\ content'[m] = content[m] /\ edits'[m] = edits[m]
              /\ m \in pins' => m \in pins
              /\ \A u \in Users, e \in Emojis :
                   <<m, u, e>> \in reactions' <=> <<m, u, e>> \in reactions
           \/ \E r \in Requests : req[r].message = m /\ req[r].late /\ req'[r] # req[r]]_vars
  <2> SUFFICES ASSUME RowsInv, SlotsInv, Next, NEW m \in Messages, status[m] = "deleted",
                      \A r \in Requests : req[r].message = m /\ req[r].late => req'[r] = req[r]
               PROVE  /\ content'[m] = content[m] /\ edits'[m] = edits[m]
                      /\ m \in pins' => m \in pins
                      /\ \A u \in Users, e \in Emojis :
                           <<m, u, e>> \in reactions' <=> <<m, u, e>> \in reactions
    OBVIOUS
  <2>1. ASSUME NEW r \in Requests, Finish(r), req[r].pc \in Checked
        PROVE  req[r].message # m
    <3>1. req'[r].pc # req[r].pc
      BY <2>1 DEF Finish, SlotsInv, Blank, Checked, Reacting
    <3> QED BY <2>1, <3>1 DEF SlotsInv, RequestOK
  <2>2. ASSUME NEW r \in Requests, NEW n \in Messages, CreateWrite(r, n)
        PROVE  content'[m] = content[m] /\ UNCHANGED <<edits, sideVars>>
    BY <2>2 DEF CreateWrite, RowsInv, RowTypes
  <2>3. ASSUME NEW r \in Requests, UpdateWrite(r)
        PROVE  content'[m] = content[m] /\ edits'[m] = edits[m] /\ UNCHANGED sideVars
    <3>1. req[r].message # m
      BY <2>1, <2>3 DEF UpdateWrite, At, Checked
    <3> QED BY <2>3, <3>1 DEF UpdateWrite, RowsInv, RowTypes
  <2>4. ASSUME NEW r \in Requests, SoftDeleteWrite(r)
        PROVE  content'[m] = content[m] /\ UNCHANGED <<edits, sideVars>>
    <3>1. req[r].message # m
      <4>1. req[r].pc = "delete_write" /\ req'[r].pc = "idle"
        BY <2>4 DEF SoftDeleteWrite, At, Blank
      <4> QED BY <4>1 DEF SlotsInv, RequestOK, Checked
    <3> QED BY <2>4, <3>1 DEF SoftDeleteWrite, RowsInv, RowTypes
  <2>5. ASSUME NEW r \in Requests, ReactionWrite(r)
        PROVE  /\ \A u, e : <<m, u, e>> \in reactions' <=> <<m, u, e>> \in reactions
               /\ UNCHANGED <<rowVars, pins>>
    <3>1. req[r].message # m
      BY <2>1, <2>5 DEF ReactionWrite, At, Checked, Reacting
    <3> QED BY <2>5, <3>1 DEF ReactionWrite, Reaction
  <2>6. ASSUME NEW r \in Requests, PinWrite(r)
        PROVE  (m \in pins' => m \in pins) /\ UNCHANGED <<rowVars, reactions>>
    <3>1. CASE At(r, "pin_write")
      <4>1. req[r].message # m
        BY <2>1, <2>6, <3>1 DEF PinWrite, At, Checked
      <4> QED BY <2>6, <3>1, <4>1 DEF PinWrite
    <3>2. CASE ~At(r, "pin_write")
      BY <2>6, <3>2 DEF PinWrite
    <3> QED BY <3>1, <3>2
  <2>7. ASSUME UNCHANGED <<rowVars, sideVars>>
        PROVE  UNCHANGED <<content, edits, pins, reactions>>
    BY <2>7 DEF rowVars, sideVars
  <2>8. ASSUME NEW r \in Requests, Arrive(r) PROVE UNCHANGED <<rowVars, sideVars>>
    BY <2>8 DEF Arrive, ArriveBySocket, ArriveByRest, SendEvent, EditEvent, ReactEvent,
                DeleteEvent, DeleteRoute, PinRoutes, Create, Update, SoftDelete,
                ToggleReaction, PinMessage, UnpinMessage
  <2>9. ASSUME NEW r \in Requests, ReactionFind(r) \/ PinFind(r)
        PROVE  UNCHANGED <<rowVars, sideVars>>
    BY <2>9 DEF ReactionFind, PinFind
  <2>10. CASE StartReindex \/ IndexStep
    BY <2>7, <2>10 DEF StartReindex, IndexStep
  <2>11. ASSUME NEW r \in Requests, Continue(r)
         PROVE  /\ content'[m] = content[m] /\ edits'[m] = edits[m]
                /\ m \in pins' => m \in pins
                /\ \A u \in Users, e \in Emojis :
                     <<m, u, e>> \in reactions' <=> <<m, u, e>> \in reactions
    BY <2>2, <2>3, <2>4, <2>5, <2>6, <2>7, <2>9, <2>11 DEF Continue, rowVars, sideVars
  <2> QED BY <2>7, <2>8, <2>10, <2>11 DEF Next
<1> QED
  BY Always, <1>1, PTL DEF Spec, DeletedIsFrozen

-----------------------------------------------------------------------------
(* What the writes and documents of messages look like: the first write    *)
(* alone is whole and shows; an edit says nothing of the flag; a document  *)
(* that is shown has a text.                                               *)
WriteOK(w) ==
  \/ w.whole /\ w.text \in Contents /\ w.flag = "shown"
  \/ ~w.whole /\ w.text \in Contents /\ w.flag = "keep"
  \/ ~w.whole /\ w.text = NoContent /\ w.flag = "hidden"

ShapeInv ==
  /\ \A w \in writes : WriteOK(w)
  /\ \A m \in Messages : index[m].whole /\ index[m].flag = "shown" => index[m].text \in Contents
  /\ \A m \in reindex.left : reindex.text[m] \in Contents

(* A write that is sent has one of these shapes.                           *)
LEMMA SendShape ==
  ASSUME ShapeInv, NEW m, NEW whole, NEW text, NEW flag, Index!Send(m, whole, text, flag),
         WriteOK([doc |-> m, stamp |-> sent[m] + 1, whole |-> whole, text |-> text,
                  flag |-> flag])
  PROVE  ShapeInv'
BY DEF ShapeInv, Index!Send

(* The writes arrive and a reindex writes what it read.                    *)
LEMMA IndexShape ==
  ASSUME ShapeInv, Index!IndexTypeOK, Index!IndexNext
  PROVE  ShapeInv'
<1>1. ASSUME NEW w \in writes, Index!Deliver(w) PROVE ShapeInv'
  <2>1. WriteOK(w) /\ w.text # "keep"
    BY KeepAssumption DEF ShapeInv, WriteOK, Index!Keep
  <2>2. \A m \in Messages : index'[m] = IF m = w.doc THEN Index!Merge(index[m], w) ELSE index[m]
    BY <1>1 DEF Index!Deliver, Index!IndexTypeOK
  <2>3. ASSUME NEW m \in Messages, m = w.doc
        PROVE  index'[m].whole /\ index'[m].flag = "shown" => index'[m].text \in Contents
    <3>1. w.whole \in BOOLEAN /\ index[m].whole \in BOOLEAN
      BY DEF Index!IndexTypeOK, Index!Write, Index!Document
    <3>2. index'[m] = Index!Merge(index[m], w)
      BY <2>2, <2>3
    <3>3. /\ index'[m].whole = (w.whole \/ index[m].whole)
          /\ index'[m].text = w.text
          /\ index'[m].flag = IF w.flag = "keep" THEN index[m].flag ELSE w.flag
      BY <2>1, <3>2 DEF Index!Merge, Index!Keep
    <3> QED BY <2>1, <3>1, <3>3 DEF ShapeInv, WriteOK
  <2>4. ASSUME NEW m \in Messages, m # w.doc
        PROVE  index'[m].whole /\ index'[m].flag = "shown" => index'[m].text \in Contents
    BY <2>2, <2>4 DEF ShapeInv
  <2> QED BY <1>1, <2>3, <2>4 DEF ShapeInv, WriteOK, Index!Deliver
<1>2. ASSUME NEW w \in writes, Index!Lose(w) PROVE ShapeInv'
  BY <1>2 DEF ShapeInv, WriteOK, Index!Lose
<1>3. ASSUME NEW d \in Messages, Index!ReindexDocument(d) PROVE ShapeInv'
  <2>1. /\ writes' = writes /\ d \in reindex.left
        /\ index' = [index EXCEPT ![d] = [whole |-> TRUE, text |-> reindex.text[d],
                                          flag |-> reindex.flag[d]]]
        /\ reindex' = IF reindex.left = {d} THEN Index!NoReindex
                      ELSE [reindex EXCEPT !.left = @ \ {d}]
    BY <1>3 DEF Index!ReindexDocument
  <2>2. \A m \in reindex'.left : reindex'.text[m] \in Contents
    BY <2>1 DEF ShapeInv, Index!NoReindex, Index!IndexTypeOK, Index!Snapshot
  <2>3. \A m \in Messages :
          index'[m].whole /\ index'[m].flag = "shown" => index'[m].text \in Contents
    BY <2>1 DEF ShapeInv, Index!IndexTypeOK
  <2> QED BY <2>1, <2>2, <2>3 DEF ShapeInv, WriteOK
<1>4. CASE Index!AbortReindex
  BY <1>4 DEF ShapeInv, WriteOK, Index!AbortReindex, Index!NoReindex
<1> QED
  BY <1>1, <1>2, <1>3, <1>4 DEF Index!IndexNext

(* Every step keeps the shapes.                                            *)
LEMMA ShapeStep ==
  RowsInv /\ IndexedInv /\ ShapeInv /\ [Next]_vars => ShapeInv'
<1> SUFFICES ASSUME RowsInv, IndexedInv, ShapeInv, [Next]_vars PROVE ShapeInv'
  OBVIOUS
<1>1. ASSUME NEW r \in Requests, NEW m \in Messages, CreateWrite(r, m) PROVE ShapeInv'
  BY <1>1, SendShape DEF CreateWrite, RowsInv, Carries, At, Index!IndexDocument, WriteOK
<1>2. ASSUME NEW r \in Requests, UpdateWrite(r) PROVE ShapeInv'
  BY <1>2, SendShape DEF UpdateWrite, RowsInv, Carries, At, Index!UpdateDocument, Index!Keep,
                         WriteOK
<1>3. ASSUME NEW r \in Requests, SoftDeleteWrite(r) PROVE ShapeInv'
  BY <1>3, SendShape DEF SoftDeleteWrite, HideFromSearch, Index!UpdateDocument, WriteOK
<1>4. CASE StartReindex
  BY <1>4 DEF StartReindex, Index!StartReindex, ShapeInv, WriteOK, RowsInv, RowOK
<1>5. CASE IndexStep
  BY <1>5, IndexShape, SameIndex DEF IndexStep, IndexedInv, IndexProof!IndexInv
<1>6. CASE UNCHANGED <<rowVars, indexVars>>
  BY <1>6 DEF indexVars, ShapeInv, WriteOK
<1> QED
  BY <1>1, <1>2, <1>3, <1>4, <1>5, <1>6, IndexSteps

(* An edit that reaches the index after the delete shows nothing: only the *)
(* message's first write, arriving late, or a reindex does (update,        *)
(* softDelete, reindexMessages).                                           *)
THEOREM EditsDoNotResurface == Spec => EditsNeverResurface
<1>1. Init => ShapeInv
  BY DEF Init, Index!InitIndex, Index!Absent, Index!NoReindex, ShapeInv
<1>2. ASSUME ShapeInv, IndexedInv, RowsInv, Next, NEW m \in Messages,
             Index!Found(m) = NoContent, (Index!Found(m) # NoContent)'
      PROVE  \/ m \in reindex.left /\ m \notin reindex'.left
             \/ \E w \in writes \ writes' : w.doc = m /\ w.whole
  <2>1. index'[m] # index[m]
    BY <1>2 DEF Index!Found
  <2>2. Index!IndexNext
    <3>1. CASE \E r \in Requests, n \in Messages : CreateWrite(r, n)
      BY <2>1, <3>1 DEF CreateWrite, Index!IndexDocument, Index!Send
    <3>2. CASE \E r \in Requests : UpdateWrite(r) \/ SoftDeleteWrite(r)
      BY <2>1, <3>2 DEF UpdateWrite, SoftDeleteWrite, HideFromSearch, Index!UpdateDocument,
                        Index!Send
    <3>3. CASE StartReindex
      BY <2>1, <3>3 DEF StartReindex, Index!StartReindex
    <3>4. CASE IndexStep
      BY <3>4 DEF IndexStep
    <3>5. CASE UNCHANGED <<rowVars, indexVars>>
      BY <2>1, <3>5 DEF indexVars
    <3> QED BY <1>2, <3>1, <3>2, <3>3, <3>4, <3>5, IndexSteps
  <2>3. Index!IndexTypeOK
    BY <1>2, SameIndex DEF IndexedInv, IndexProof!IndexInv
  <2>4. ASSUME NEW w \in writes, Index!Deliver(w)
        PROVE  w \in writes \ writes' /\ w.doc = m /\ w.whole
    <3>1. w.doc = m /\ index'[m] = Index!Merge(index[m], w) /\ w \notin writes'
      BY <2>1, <2>3, <2>4 DEF Index!Deliver, Index!IndexTypeOK
    <3>2. WriteOK(w)
      BY <1>2 DEF ShapeInv
    <3>3. index[m].whole /\ index[m].flag = "shown" => index[m].text \in Contents
      BY <1>2 DEF ShapeInv
    <3>4. index'[m].whole /\ index'[m].flag = "shown"
      BY <1>2 DEF Index!Found
    <3>5. w.whole \in BOOLEAN /\ index[m].whole \in BOOLEAN
      BY <2>3 DEF Index!IndexTypeOK, Index!Write, Index!Document
    <3>6. /\ index'[m].whole = (w.whole \/ index[m].whole)
          /\ index'[m].flag = IF w.flag = "keep" THEN index[m].flag ELSE w.flag
      BY <3>1 DEF Index!Merge, Index!Keep
    <3>7. ~(index[m].whole /\ index[m].flag = "shown")
      BY <1>2, <3>3, ContentAssumption DEF Index!Found
    <3> QED BY <3>1, <3>2, <3>4, <3>5, <3>6, <3>7 DEF WriteOK
  <2>5. ASSUME NEW d \in Messages, Index!ReindexDocument(d)
        PROVE  m \in reindex.left /\ m \notin reindex'.left
    <3>1. d = m
      BY <2>1, <2>3, <2>5 DEF Index!ReindexDocument, Index!IndexTypeOK
    <3> QED BY <2>3, <2>5, <3>1 DEF Index!ReindexDocument, Index!NoReindex, Index!IndexTypeOK,
                                    Index!Snapshot
  <2>6. \A w : Index!Lose(w) \/ Index!AbortReindex => index' = index
    BY DEF Index!Lose, Index!AbortReindex
  <2> QED BY <2>1, <2>2, <2>4, <2>5, <2>6 DEF Index!IndexNext
<1>3. RowsInv /\ IndexedInv /\ ShapeInv /\ [Next]_vars =>
        [\A m \in Messages :
           (status[m] = "deleted" /\ Index!Found(m) = NoContent
              /\ (Index!Found(m) # NoContent)') =>
             \/ m \in reindex.left /\ m \notin reindex'.left
             \/ \E w \in writes \ writes' : w.doc = m /\ w.whole]_vars
  BY <1>2
<1> QED
  BY Always, ShapeStep, <1>1, <1>3, PTL DEF Spec, EditsNeverResurface
=============================================================================
