--------------------------- MODULE MessageContent ---------------------------
(***************************************************************************)
(* The content of the messages of one room: posting, editing with its      *)
(* history, wiping on delete, reactions and pins, and the search index     *)
(* that follows.  It models the parts of MessagesService that the module   *)
(* Messages leaves out; threads, receipts and counters are there.          *)
(*                                                                         *)
(* The form is that of the other modules: a slot holds a request in        *)
(* progress, each awaited Prisma call is a step.  An event is sent to the  *)
(* index with the write it tells of; as the writes of the index travel     *)
(* unordered, an event that waits for a further call adds no behaviour.    *)
(* Members and their roles stand still: Messages has them come and go.     *)
(***************************************************************************)
EXTENDS Naturals, Sequences

CONSTANTS
  Users,           \* the members of the room
  Admins,          \* those with a role above member
  Senders,         \* those who post
  Reactors,        \* those who react
  Messages,
  TextMessages,    \* those of type text
  Contents,        \* the texts a message may have
  Emojis,
  Requests,        \* the slots
  MaxEdits,        \* bound: edits of a message
  NoContent,       \* null
  NoMessage, Nobody, NoEmoji,  \* the fields of an empty slot
  Gone,            \* what a reader is shown of a deleted message: not found
  Enabled, MaxLosses  \* of the module SearchIndex

ASSUME ContentAssumption ==
  /\ Admins \cup Senders \cup Reactors \subseteq Users
  /\ TextMessages \subseteq Messages
  /\ NoContent \notin Contents /\ Gone \notin Contents \cup {NoContent}
  /\ Nobody \notin Users /\ NoMessage \notin Messages /\ NoEmoji \notin Emojis
  /\ MaxEdits \in Nat /\ MaxLosses \in Nat /\ Enabled \in BOOLEAN

VARIABLES
  status,      \* "none": no row; "live"; "deleted": isDeleted
  sender,
  content,     \* the column
  edits,       \* previousContent of the MessageEdit rows, oldest first
  reactions,   \* the MessageReaction rows, as <<message, user, emoji>>
  pins,        \* the messages that have a MessagePin row
  req,         \* the requests in progress
  original,    \* history: the content a message was posted with
  index, writes, reindex, sent, arrived, lost, disordered, losses

Index == INSTANCE SearchIndex WITH Docs <- Messages, Texts <- Contents, NoText <- NoContent

(* Null is a value that an update of a document sets, unlike a field that  *)
(* it leaves out.                                                          *)
ASSUME KeepAssumption == Index!Keep \notin Contents \cup {NoContent}

rowVars == <<status, sender, content, edits, original>>
sideVars == <<reactions, pins>>
indexVars == <<index, writes, reindex, sent, arrived, lost, disordered, losses>>
vars == <<status, sender, content, edits, reactions, pins, req, original,
          index, writes, reindex, sent, arrived, lost, disordered, losses>>

-----------------------------------------------------------------------------
(* A request's locals.  "seen" is the content its first read returned,     *)
(* "given" the content it carries.  "late" is history: the message was     *)
(* deleted while this request was in progress.                             *)
Blank == [pc |-> "idle", user |-> Nobody, message |-> NoMessage, emoji |-> NoEmoji,
          admin |-> FALSE, seen |-> NoContent, given |-> NoContent, late |-> FALSE]

Begin(r, locals) == req[r].pc = "idle" /\ req' = [req EXCEPT ![r] = locals]
At(r, step) == req[r].pc = step
Goto(r, step) == req' = [req EXCEPT ![r].pc = step]
Finish(r) == req' = [req EXCEPT ![r] = Blank]

(* What findById, getHistory, getThread and getEditHistory find, and the   *)
(* first check of every change: "not found" for a missing and for a        *)
(* deleted row.                                                            *)
Findable(m) == status[m] = "live"

-----------------------------------------------------------------------------
(* create: membership, then the transaction and the event.                 *)
Create(r, u, c) ==
  /\ Begin(r, [Blank EXCEPT !.pc = "create_write", !.user = u, !.given = c])
  /\ UNCHANGED <<rowVars, sideVars, indexVars>>

CreateWrite(r, m) ==
  /\ At(r, "create_write")
  /\ status[m] = "none"
  /\ status' = [status EXCEPT ![m] = "live"]
  /\ sender' = [sender EXCEPT ![m] = req[r].user]
  /\ content' = [content EXCEPT ![m] = req[r].given]
  /\ original' = [original EXCEPT ![m] = req[r].given]
  /\ Index!IndexDocument(m, req[r].given, "shown")
  /\ Finish(r)
  /\ UNCHANGED <<edits, sideVars>>

-----------------------------------------------------------------------------
(* update: an edit of one's own text message.  The row that was read says  *)
(* what previousContent will be; the write repeats none of the checks.     *)
MayEditDeleted(u, m) == status[m] # "none" /\ sender[m] = u /\ m \in TextMessages
MayEdit(u, m) == Findable(m) /\ sender[m] = u /\ m \in TextMessages

Update(r, u, m, c) ==
  /\ MayEdit(u, m)
  /\ Begin(r, [Blank EXCEPT !.pc = "edit_write", !.user = u, !.message = m,
                            !.seen = content[m], !.given = c])
  /\ UNCHANGED <<rowVars, sideVars, indexVars>>

NewInstead(q) == q.given
PreviousContent(q) == q.seen

UpdateWrite(r) ==
  /\ At(r, "edit_write")
  /\ LET q == req[r]  m == q.message
     IN /\ Len(edits[m]) < MaxEdits
        /\ content' = [content EXCEPT ![m] = q.given]
        /\ edits' = [edits EXCEPT ![m] = Append(@, PreviousContent(q))]
        /\ Index!UpdateDocument(m, q.given, Index!Keep)
  /\ Finish(r)
  /\ UNCHANGED <<status, sender, original, sideVars>>

-----------------------------------------------------------------------------
(* softDelete, called from the socket event (admin = FALSE) or from the    *)
(* controller, whose own checks are in Messages; so is the reply count.    *)
MayDelete(u, m, admin) == Findable(m) /\ (sender[m] = u \/ admin)

SoftDelete(r, u, m, admin) ==
  /\ MayDelete(u, m, admin)
  /\ Begin(r, [Blank EXCEPT !.pc = "delete_write", !.user = u, !.message = m,
                            !.admin = admin])
  /\ UNCHANGED <<rowVars, sideVars, indexVars>>

(* What the event tells the index: hide the document and empty it.         *)
HideNothing(m) == UNCHANGED indexVars
HideFromSearch(m) == Index!UpdateDocument(m, NoContent, "hidden")

KeptContent(m) == content[m]
Wiped(m) == NoContent

SoftDeleteWrite(r) ==
  /\ At(r, "delete_write")
  /\ LET m == req[r].message
     IN /\ status' = [status EXCEPT ![m] = "deleted"]
        /\ content' = [content EXCEPT ![m] = Wiped(m)]
        /\ req' = [s \in Requests |->
                     IF s = r THEN Blank
                     ELSE [req[s] EXCEPT !.late = @ \/ req[s].message = m]]
        /\ HideFromSearch(m)
  /\ UNCHANGED <<sender, edits, original, sideVars>>

-----------------------------------------------------------------------------
(* toggleReaction: the message, the membership, the reaction; then it is   *)
(* created, which fails where the unique key has it by now, or deleted,    *)
(* which fails where it is gone.                                           *)
ToggleReaction(r, u, m, e) ==
  /\ Findable(m)
  /\ Begin(r, [Blank EXCEPT !.pc = "react_find", !.user = u, !.message = m, !.emoji = e])
  /\ UNCHANGED <<rowVars, sideVars, indexVars>>

Reaction(q) == <<q.message, q.user, q.emoji>>

ReactionFind(r) ==
  /\ At(r, "react_find")
  /\ Goto(r, IF Reaction(req[r]) \in reactions THEN "react_delete" ELSE "react_create")
  /\ UNCHANGED <<rowVars, sideVars, indexVars>>

ReactionWrite(r) ==
  /\ At(r, "react_create") \/ At(r, "react_delete")
  /\ reactions' = IF At(r, "react_create") THEN reactions \cup {Reaction(req[r])}
                  ELSE reactions \ {Reaction(req[r])}
  /\ Finish(r)
  /\ UNCHANGED <<rowVars, pins, indexVars>>

-----------------------------------------------------------------------------
(* pinMessage and unpinMessage: the role, the message or the pin, and the  *)
(* write.  A second pin of a message fails on the unique key; deleting a   *)
(* pin that is gone fails as well.  Unpinning asks nothing of the message. *)
PinDeletedToo(m) == status[m] # "none"
Pinnable(m) == Findable(m)

PinMessage(r, u, m) ==
  /\ u \in Admins
  /\ Begin(r, [Blank EXCEPT !.pc = "pin_find", !.user = u, !.message = m])
  /\ UNCHANGED <<rowVars, sideVars, indexVars>>

PinFind(r) ==
  /\ At(r, "pin_find")
  /\ IF Pinnable(req[r].message) THEN Goto(r, "pin_write") ELSE Finish(r)
  /\ UNCHANGED <<rowVars, sideVars, indexVars>>

UnpinMessage(r, u, m) ==
  /\ u \in Admins
  /\ m \in pins
  /\ Begin(r, [Blank EXCEPT !.pc = "unpin_write", !.user = u, !.message = m])
  /\ UNCHANGED <<rowVars, sideVars, indexVars>>

PinWrite(r) ==
  /\ At(r, "pin_write") \/ At(r, "unpin_write")
  /\ pins' = IF At(r, "pin_write") THEN pins \cup {req[r].message}
             ELSE pins \ {req[r].message}
  /\ Finish(r)
  /\ UNCHANGED <<rowVars, reactions, indexVars>>

-----------------------------------------------------------------------------
(* A search asks Elasticsearch, and PostgreSQL where it is off or does not *)
(* answer; getHistory searches in PostgreSQL.                              *)
PostgresFinds(m) == IF Findable(m) THEN content[m] ELSE NoContent
SearchMessages(m, answered) ==
  IF Enabled /\ answered THEN Index!Found(m) ELSE PostgresFinds(m)

(* reindexMessages reads the rows that are not deleted, and only these.    *)
StartReindex ==
  /\ Index!StartReindex({m \in Messages : status[m] = "live"}, content,
                        [m \in Messages |-> "shown"])
  /\ UNCHANGED <<rowVars, sideVars, req>>

IndexStep == Index!IndexNext /\ UNCHANGED <<rowVars, sideVars, req>>

Init ==
  /\ status = [m \in Messages |-> "none"]
  /\ sender = [m \in Messages |-> Nobody]
  /\ content = [m \in Messages |-> NoContent]
  /\ edits = [m \in Messages |-> <<>>]
  /\ reactions = {}
  /\ pins = {}
  /\ req = [r \in Requests |-> Blank]
  /\ original = [m \in Messages |-> NoContent]
  /\ Index!InitIndex

(* The events of the gateway and the routes of the controller.  A message  *)
(* of someone else is deleted by the route only, as an admin.              *)
SendEvent(r) == \E u \in Senders, c \in Contents : Create(r, u, c)
EditEvent(r) == \E u \in Users, m \in Messages, c \in Contents : Update(r, u, m, c)
DeleteEvent(r) == \E u \in Users, m \in Messages : SoftDelete(r, u, m, FALSE)
ReactEvent(r) ==
  \E u \in Reactors, m \in Messages, e \in Emojis : ToggleReaction(r, u, m, e)

DeleteRoute(r) ==
  \E u \in Users, m \in Messages : (sender[m] # u => u \in Admins)
                                   /\ SoftDelete(r, u, m, sender[m] # u)
PinRoutes(r) ==
  \E u \in Users, m \in Messages : PinMessage(r, u, m) \/ UnpinMessage(r, u, m)

ArriveBySocket(r) == SendEvent(r) \/ EditEvent(r) \/ DeleteEvent(r) \/ ReactEvent(r)
ArriveByRest(r) ==
  SendEvent(r) \/ EditEvent(r) \/ DeleteRoute(r) \/ ReactEvent(r) \/ PinRoutes(r)
Arrive(r) == ArriveBySocket(r) \/ ArriveByRest(r)

Continue(r) ==
  \/ \E m \in Messages : CreateWrite(r, m)
  \/ UpdateWrite(r)
  \/ SoftDeleteWrite(r)
  \/ ReactionFind(r)
  \/ ReactionWrite(r)
  \/ PinFind(r)
  \/ PinWrite(r)

Next ==
  \/ \E r \in Requests : Arrive(r) \/ Continue(r)
  \/ StartReindex
  \/ IndexStep

Spec == Init /\ [][Next]_vars

(* A call of Elasticsearch ends, answered or timed out; nothing else needs *)
(* fairness.                                                               *)
LiveSpec == Spec /\ WF_vars(\E w \in writes : (Index!Deliver(w) \/ Index!Lose(w))
                                               /\ UNCHANGED <<rowVars, sideVars, req>>)

-----------------------------------------------------------------------------
(* Types of the rows, the requests' locals and the index.                  *)
Request ==
  [pc : {"idle", "create_write", "edit_write", "delete_write", "react_find",
         "react_create", "react_delete", "pin_find", "pin_write", "unpin_write"},
   user : Users \cup {Nobody}, message : Messages \cup {NoMessage},
   emoji : Emojis \cup {NoEmoji}, admin : BOOLEAN,
   seen : Contents \cup {NoContent}, given : Contents \cup {NoContent},
   late : BOOLEAN]

TypeOK ==
  /\ status \in [Messages -> {"none", "live", "deleted"}]
  /\ sender \in [Messages -> Users \cup {Nobody}]
  /\ content \in [Messages -> Contents \cup {NoContent}]
  /\ edits \in [Messages -> Seq(Contents)]
  /\ reactions \in SUBSET (Messages \X Users \X Emojis)
  /\ pins \in SUBSET Messages
  /\ req \in [Requests -> Request]
  /\ original \in [Messages -> Contents \cup {NoContent}]
  /\ Index!IndexTypeOK

(* However edits interleave, the content a message was posted with is in   *)
(* its history once it has been edited: the edit that is written first     *)
(* read the row before any other.                                          *)
OriginalKept ==
  \A m \in Messages : edits[m] # <<>> =>
    \E i \in 1..Len(edits[m]) : edits[m][i] = original[m]

(* After a message is deleted, nothing is written to it, no reaction is    *)
(* toggled and no pin put on it, except by requests that were in progress  *)
(* when it was deleted; an admin may still unpin it.                       *)
DeletedIsFrozen ==
  [][\A m \in Messages : status[m] = "deleted" =>
       \/ /\ content'[m] = content[m] /\ edits'[m] = edits[m]
          /\ m \in pins' => m \in pins
          /\ \A u \in Users, e \in Emojis :
               <<m, u, e>> \in reactions' <=> <<m, u, e>> \in reactions
       \/ \E r \in Requests : req[r].message = m /\ req[r].late /\ req'[r] # req[r]]_vars

(* What a reader is shown of a message, where deleted ones are not found,  *)
(* and where the column is shown as it is: getPinnedMessages and the last  *)
(* message of each room in the list of rooms do not ask for isDeleted.     *)
(* The searches of a message are a matter of IndexAgrees and               *)
(* DeletedLeavesSearch.                                                    *)
Shown(m) == IF Findable(m) THEN content[m]
            ELSE IF status[m] = "none" THEN NoContent ELSE Gone
Listed(m) == content[m]

(* The edits and deletes of a message that have been checked.              *)
Open(m) ==
  {r \in Requests : req[r].message = m /\ (At(r, "edit_write") \/ At(r, "delete_write"))}

(* The rows implement the promise of the module Post: "wipe content on     *)
(* delete for privacy" (softDelete), but for the edits accepted before.    *)
Promise == INSTANCE Post WITH
  NotYet <- NoContent, Empty <- NoContent,
  shown <- [m \in Messages |-> Shown(m)],
  listed <- [m \in Messages |-> Listed(m)],
  open <- [m \in Messages |-> Open(m)]
KeepsPromise == Promise!PostSpec

(* Once the writes of a message have all arrived in order and no reindex   *)
(* is about to write an older row of it, a search finds the same whether   *)
(* Elasticsearch answers or PostgreSQL stands in for it: a lost write, an  *)
(* overtaken one and a reindex are the only reasons for the two to differ, *)
(* however the requests interleave.                                        *)
IndexAgrees ==
  \A m \in Messages :
    Index!Settled(m) => SearchMessages(m, TRUE) = SearchMessages(m, FALSE)

(* The document of a deleted message comes back into the results only by   *)
(* its first write arriving late or by a reindex, never by an edit.        *)
EditsNeverResurface ==
  [][\A m \in Messages :
       (status[m] = "deleted" /\ Index!Found(m) = NoContent
          /\ (Index!Found(m) # NoContent)') =>
         \/ m \in reindex.left /\ m \notin reindex'.left
         \/ \E w \in writes \ writes' : w.doc = m /\ w.whole]_vars

(* A deleted message disappears from the search, and for good, unless one  *)
(* of its writes was lost or overtaken, or a reindex wrote an older row.   *)
DeletedLeavesSearch ==
  \A m \in Messages :
    status[m] = "deleted" ~> [](Index!Found(m) = NoContent \/ m \in lost \cup disordered)
=============================================================================
