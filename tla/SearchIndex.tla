---------------------------- MODULE SearchIndex ----------------------------
(***************************************************************************)
(* One index of Elasticsearch and the writes on their way to it.  The      *)
(* event handlers of SearchService are awaited by nobody, so any number of *)
(* writes is under way at once: they arrive in any order, or fail, which   *)
(* ElasticsearchService logs and forgets.  A module whose rows are indexed *)
(* instantiates this one and sends its writes from its own actions.        *)
(*                                                                         *)
(* Of a document the model keeps one text and the flag that hides it from  *)
(* a search: content and isDeleted of a message, name and isArchived of a  *)
(* room.  A document that does not exist is one without fields.            *)
(***************************************************************************)
EXTENDS Naturals

CONSTANTS
  Docs,       \* the ids of the documents
  Texts,      \* the values of the text
  NoText,     \* null
  Enabled,    \* elasticsearch.enabled, and the connection came up at start
  MaxLosses   \* bound: writes that fail

VARIABLES
  index,       \* the documents
  writes,      \* the writes under way
  reindex,     \* what a running reindex has read and not yet written
  sent,        \* history: how many writes were sent for each document
  arrived,     \* history: the latest of them that arrived
  lost,        \* history: the documents that miss a write
  disordered,  \* history: those where an older write arrived after a newer one
  losses       \* how many writes were lost

-----------------------------------------------------------------------------
Keep == "keep"
Flag == {"shown", "hidden"}
Absent == [whole |-> FALSE, text |-> NoText, flag |-> "shown"]
Document == [whole : BOOLEAN, text : Texts \cup {NoText}, flag : Flag]

(* "stamp" numbers the writes of a document in the order of its row's.     *)
Write == [doc : Docs, stamp : Nat, whole : BOOLEAN,
          text : Texts \cup {NoText, Keep}, flag : Flag \cup {Keep}]

(* A reindex holds, for each document, the text of the row it read and the *)
(* document's stamp at that moment.                                        *)
Snapshot == [left : SUBSET Docs,
             text : [Docs -> Texts \cup {NoText}],
             flag : [Docs -> Flag], stamp : [Docs -> Nat]]
NoReindex == [left |-> {}, text |-> [d \in Docs |-> NoText],
              flag |-> [d \in Docs |-> "shown"], stamp |-> [d \in Docs |-> 0]]

InitIndex ==
  /\ index = [d \in Docs |-> Absent]
  /\ writes = {}
  /\ reindex = NoReindex
  /\ sent = [d \in Docs |-> 0]
  /\ arrived = [d \in Docs |-> 0]
  /\ lost = {}
  /\ disordered = {}
  /\ losses = 0

(* Emitting an event runs its handler up to the call of Elasticsearch.     *)
Send(d, whole, text, flag) ==
  /\ sent' = [sent EXCEPT ![d] = @ + 1]
  /\ writes' = IF Enabled
               THEN writes \cup {[doc |-> d, stamp |-> sent[d] + 1, whole |-> whole,
                                  text |-> text, flag |-> flag]}
               ELSE writes
  /\ UNCHANGED <<index, reindex, arrived, lost, disordered, losses>>

IndexDocument(d, text, flag) == Send(d, TRUE, text, flag)
UpdateDocument(d, text, flag) == Send(d, FALSE, text, flag)

(* A whole document replaces what is there, a partial one is merged into   *)
(* it, or becomes the document where there is none (doc_as_upsert).        *)
Replace(old, w) ==
  [whole |-> TRUE, text |-> IF w.text = Keep THEN old.text ELSE w.text,
   flag |-> IF w.flag = Keep THEN "shown" ELSE w.flag]
Merge(old, w) ==
  [whole |-> w.whole \/ old.whole,
   text |-> IF w.text = Keep THEN old.text ELSE w.text,
   flag |-> IF w.flag = Keep THEN old.flag ELSE w.flag]

Deliver(w) ==
  /\ w \in writes
  /\ writes' = writes \ {w}
  /\ index' = [index EXCEPT ![w.doc] = Merge(@, w)]
  /\ IF w.stamp < arrived[w.doc]
     THEN disordered' = disordered \cup {w.doc} /\ UNCHANGED arrived
     ELSE arrived' = [arrived EXCEPT ![w.doc] = w.stamp] /\ UNCHANGED disordered
  /\ UNCHANGED <<reindex, sent, lost, losses>>

(* The call fails, or the server dies before it is made.                   *)
Lose(w) ==
  /\ w \in writes
  /\ losses < MaxLosses
  /\ losses' = losses + 1
  /\ writes' = writes \ {w}
  /\ lost' = lost \cup {w.doc}
  /\ UNCHANGED <<index, reindex, sent, arrived, disordered>>

-----------------------------------------------------------------------------
(* POST /search/reindex: the rows are read, all at once, and written in    *)
(* bulk.  The documents of a bulk call are written one by one.             *)
StartReindex(rows, text, flag) ==
  /\ Enabled /\ reindex = NoReindex /\ rows # {}
  /\ reindex' = [left |-> rows, stamp |-> sent,
                 text |-> [d \in Docs |-> IF d \in rows THEN text[d] ELSE NoText],
                 flag |-> [d \in Docs |-> IF d \in rows THEN flag[d] ELSE "shown"]]
  /\ UNCHANGED <<index, writes, sent, arrived, lost, disordered, losses>>

StillCurrent(d) == reindex.stamp[d] = sent[d]
Overtaken(d) == reindex.stamp[d] < arrived[d]

ReindexDocument(d) ==
  /\ d \in reindex.left
  /\ index' = [index EXCEPT ![d] = [whole |-> TRUE, text |-> reindex.text[d],
                                    flag |-> reindex.flag[d]]]
  /\ reindex' = IF reindex.left = {d} THEN NoReindex
                ELSE [reindex EXCEPT !.left = @ \ {d}]
  /\ arrived' = [arrived EXCEPT ![d] = IF @ < reindex.stamp[d]
                                       THEN reindex.stamp[d] ELSE @]
  /\ lost' = IF StillCurrent(d) THEN lost \ {d} ELSE lost
  /\ disordered' = IF StillCurrent(d) THEN disordered \ {d}
                    ELSE IF Overtaken(d) THEN disordered \cup {d} ELSE disordered
  /\ UNCHANGED <<writes, sent, losses>>

(* A bulk call that fails ends the reindex.                                *)
AbortReindex ==
  /\ reindex # NoReindex
  /\ reindex' = NoReindex
  /\ UNCHANGED <<index, writes, sent, arrived, lost, disordered, losses>>

IndexNext ==
  \/ \E w \in writes : Deliver(w) \/ Lose(w)
  \/ \E d \in Docs : ReindexDocument(d)
  \/ AbortReindex

IndexTypeOK ==
  /\ index \in [Docs -> Document]
  /\ writes \in SUBSET Write
  /\ reindex \in Snapshot
  /\ sent \in [Docs -> Nat]
  /\ arrived \in [Docs -> Nat]
  /\ lost \in SUBSET Docs
  /\ disordered \in SUBSET Docs
  /\ losses \in Nat

(* What a search finds of a document: the queries filter by fields only a  *)
(* whole document has, and by the flag.                                    *)
Found(d) == IF index[d].whole /\ index[d].flag = "shown" THEN index[d].text ELSE NoText

(* Every write that was sent for d has arrived, in order, and no reindex   *)
(* holds an older row of it.                                               *)
Settled(d) ==
  /\ \A w \in writes : w.doc # d
  /\ d \notin reindex.left
  /\ d \notin lost \cup disordered
=============================================================================
