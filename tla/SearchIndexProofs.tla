-------------------------- MODULE SearchIndexProofs --------------------------
(***************************************************************************)
(* What the writes on their way to an index amount to, however they are    *)
(* delayed, overtaken or lost and whatever a reindex writes in between.    *)
(* The modules whose rows are indexed instantiate this one.                *)
(*                                                                         *)
(* Tracks(d, t) says that the document d is on its way to be t.  Of each   *)
(* field, the last write under way that sets it has t's value, or else no  *)
(* write sets it and the document has that value already; unless a write   *)
(* of d was lost or overtaken, or will turn out to have been.  The last    *)
(* write of all and a row that a reindex has read need clauses of their    *)
(* own, since a reindex forgives what was lost before it.                  *)
(***************************************************************************)
EXTENDS SearchIndex, TLAPS

Fields == {"whole", "text", "flag"}

(* A field of a document, and the value a write sets it to, or Keep.       *)
Field(x, f) ==
  IF f = "text" THEN x.text ELSE IF f = "flag" THEN x.flag
  ELSE IF x.whole THEN "yes" ELSE "no"
Value(w, f) ==
  IF f = "text" THEN w.text ELSE IF f = "flag" THEN w.flag
  ELSE IF w.whole THEN "yes" ELSE Keep
Sets(w, f) == Value(w, f) # Keep

Same(x, y) == \A f \in Fields : Field(x, f) = Field(y, f)

Pending(d) == {w \in writes : w.doc = d}
LastToSet(w, f) ==
  Sets(w, f) /\ \A v \in Pending(w.doc) : Sets(v, f) => v.stamp <= w.stamp

(* A write was lost, or was or will be late: no promise for d.             *)
Excused(d) == d \in lost \cup disordered \/ \E w \in Pending(d) : w.stamp < arrived[d]

(* The row of d as a reindex has read it.                                  *)
ReadRow(d) == [whole |-> TRUE, text |-> reindex.text[d], flag |-> reindex.flag[d]]

Arrives(d, t, f) ==
  \/ \E w \in Pending(d) : LastToSet(w, f) /\ Value(w, f) = Field(t, f)
  \/ (\A w \in Pending(d) : ~Sets(w, f)) /\ Field(index[d], f) = Field(t, f)

RowTracks(d, t, f) ==
  \/ \E w \in Pending(d) : Sets(w, f) /\ w.stamp > reindex.stamp[d]
  \/ Field(ReadRow(d), f) = Field(t, f)

Tracks(d, t) ==
  /\ \A w \in Pending(d) : w.stamp = sent[d] =>
       \A f \in Fields : Sets(w, f) => Value(w, f) = Field(t, f)
  /\ Excused(d) \/ \A f \in Fields : Arrives(d, t, f)
  /\ d \in reindex.left /\ reindex.stamp[d] = sent[d] => Same(ReadRow(d), t)
  /\ d \in reindex.left =>
       Excused(d) \/ Overtaken(d) \/ \A f \in Fields : RowTracks(d, t, f)

(* The writes of a document are numbered as they are sent.                 *)
Numbered ==
  /\ \A w \in writes : w.stamp <= sent[w.doc]
  /\ \A v, w \in writes : v.doc = w.doc /\ v.stamp = w.stamp => v = w
  /\ \A d \in Docs : arrived[d] <= sent[d] /\ reindex.stamp[d] <= sent[d]

IndexInv == IndexTypeOK /\ Numbered

-----------------------------------------------------------------------------
(* A write that arrives sets its fields and leaves the others (Merge).     *)
LEMMA MergeSets ==
  ASSUME NEW old \in Document, NEW w \in Write, NEW f \in Fields
  PROVE  Field(Merge(old, w), f) = IF Sets(w, f) THEN Value(w, f) ELSE Field(old, f)
BY DEF Fields, Field, Merge, Sets, Value, Document, Write, Keep

(* The types, for the merge and for a reindex that begins empty.           *)
LEMMA MergeType ==
  ASSUME NEW old \in Document, NEW w \in Write
  PROVE  Merge(old, w) \in Document
BY DEF Merge, Document, Write, Flag, Keep

(* An empty index has its types and is numbered.                           *)
LEMMA IndexInit == InitIndex => IndexInv
BY DEF InitIndex, IndexInv, IndexTypeOK, Numbered, Absent, NoReindex, Document, Snapshot,
       Flag

(* Sending a write.                                                        *)
LEMMA SendInv ==
  ASSUME IndexInv, NEW d \in Docs, NEW whole \in BOOLEAN,
         NEW text \in Texts \cup {NoText, Keep}, NEW flag \in Flag \cup {Keep},
         Send(d, whole, text, flag)
  PROVE  IndexInv'
<1> DEFINE new == [doc |-> d, stamp |-> sent[d] + 1, whole |-> whole, text |-> text,
                   flag |-> flag]
<1>1. new \in Write /\ new.doc = d /\ new.stamp = sent[d] + 1
  BY DEF IndexInv, IndexTypeOK, Write
<1>2. /\ sent' = [sent EXCEPT ![d] = @ + 1] /\ writes' \in {writes, writes \cup {new}}
      /\ UNCHANGED <<index, reindex, arrived, lost, disordered, losses>>
  BY DEF Send
<1> HIDE DEF new
<1>3. IndexTypeOK'
  BY <1>1, <1>2 DEF IndexInv, IndexTypeOK
<1>4. \A e \in Docs : sent[e] \in Nat /\ sent'[e] = IF e = d THEN sent[d] + 1 ELSE sent[e]
  BY <1>2 DEF IndexInv, IndexTypeOK
<1>5. \A w \in writes : w \in Write /\ w.doc \in Docs /\ w.stamp \in Nat
  BY DEF IndexInv, IndexTypeOK, Write
<1>6. \A e \in Docs : arrived[e] \in Nat /\ reindex.stamp[e] \in Nat
  BY DEF IndexInv, IndexTypeOK, Snapshot
<1>7. Numbered'
  BY <1>1, <1>2, <1>4, <1>5, <1>6 DEF IndexInv, Numbered
<1> QED
  BY <1>3, <1>7 DEF IndexInv

(* Writes that arrive or are lost, and a reindex that goes on or breaks off.*)
LEMMA IndexStepInv == ASSUME IndexInv, IndexNext PROVE IndexInv'
<1>1. ASSUME NEW w \in writes, Deliver(w) PROVE IndexInv'
  <2>1. w \in Write /\ w.doc \in Docs /\ w.stamp \in Nat /\ index[w.doc] \in Document
    BY DEF IndexInv, IndexTypeOK, Write
  <2>2. IndexTypeOK'
    BY <1>1, <2>1, MergeType DEF IndexInv, IndexTypeOK, Deliver
  <2>3. Numbered'
    BY <1>1, <2>1 DEF IndexInv, IndexTypeOK, Numbered, Deliver
  <2> QED BY <2>2, <2>3 DEF IndexInv
<1>2. ASSUME NEW w \in writes, Lose(w) PROVE IndexInv'
  BY <1>2 DEF IndexInv, IndexTypeOK, Numbered, Lose, Write
<1>3. ASSUME NEW d \in Docs, ReindexDocument(d) PROVE IndexInv'
  <2>1. /\ [whole |-> TRUE, text |-> reindex.text[d], flag |-> reindex.flag[d]] \in Document
        /\ reindex.stamp[d] \in Nat
    BY DEF IndexInv, IndexTypeOK, Snapshot, Document
  <2>2. reindex' \in Snapshot /\ \A e \in Docs : reindex'.stamp[e] <= sent[e]
    BY <1>3 DEF IndexInv, IndexTypeOK, Numbered, ReindexDocument, NoReindex, Snapshot, Flag
  <2>3. IndexTypeOK'
    BY <1>3, <2>1, <2>2 DEF IndexInv, IndexTypeOK, ReindexDocument
  <2>4. Numbered'
    BY <1>3, <2>1, <2>2 DEF IndexInv, IndexTypeOK, Numbered, ReindexDocument
  <2> QED BY <2>3, <2>4 DEF IndexInv
<1>4. CASE AbortReindex
  BY <1>4 DEF IndexInv, IndexTypeOK, Numbered, AbortReindex, NoReindex, Snapshot, Flag
<1> QED
  BY <1>1, <1>2, <1>3, <1>4 DEF IndexNext

(* A reindex that begins.                                                  *)
LEMMA ReindexInv ==
  ASSUME IndexInv, NEW rows \in SUBSET Docs, NEW text, NEW flag,
         \A d \in rows : text[d] \in Texts \cup {NoText} /\ flag[d] \in Flag,
         StartReindex(rows, text, flag)
  PROVE  IndexInv'
<1>1. reindex' \in Snapshot /\ reindex'.stamp = sent
  BY DEF IndexInv, IndexTypeOK, StartReindex, Snapshot, Flag
<1> QED
  BY <1>1 DEF IndexInv, IndexTypeOK, Numbered, StartReindex

-----------------------------------------------------------------------------
(* A document without writes is what it is.                                *)
LEMMA TracksInit ==
  ASSUME InitIndex, NEW d \in Docs
  PROVE  Tracks(d, Absent)
BY DEF InitIndex, Tracks, Pending, Excused, Arrives, NoReindex

(* A write that is sent gives the fields it sets a new value to track.     *)
LEMMA SendTracks ==
  ASSUME IndexInv, Enabled, NEW d \in Docs, NEW whole \in BOOLEAN,
         NEW text \in Texts \cup {NoText, Keep}, NEW flag \in Flag \cup {Keep},
         Send(d, whole, text, flag), NEW old, NEW t,
         Tracks(d, old), Same(t, Merge(old, [whole |-> whole, text |-> text, flag |-> flag]))
  PROVE  Tracks(d, t)'
<1>1. PICK new \in Write :
        /\ new.doc = d /\ new.stamp = sent[d] + 1 /\ new.whole = whole
        /\ new.text = text /\ new.flag = flag /\ writes' = writes \cup {new}
  <2> DEFINE n == [doc |-> d, stamp |-> sent[d] + 1, whole |-> whole, text |-> text,
                   flag |-> flag]
  <2>1. /\ n \in Write /\ n.doc = d /\ n.stamp = sent[d] + 1 /\ n.whole = whole
        /\ n.text = text /\ n.flag = flag
    BY DEF IndexInv, IndexTypeOK, Write
  <2>2. writes' = writes \cup {n}
    BY DEF Send
  <2> HIDE DEF n
  <2> QED BY <2>1, <2>2
<1>2. \A f \in Fields : Field(t, f) = IF Sets(new, f) THEN Value(new, f) ELSE Field(old, f)
  BY <1>1 DEF Same, Fields, Field, Merge, Sets, Value, Flag, Keep
<1>3. /\ sent'[d] = sent[d] + 1
      /\ UNCHANGED <<index, reindex, arrived, lost, disordered>>
  BY DEF Send, IndexInv, IndexTypeOK
<1>4. Pending(d)' = Pending(d) \cup {new}
  BY <1>1, <1>3 DEF Pending
<1>5. \A w \in Pending(d) : w.doc = d /\ w.stamp \in Nat /\ w.stamp <= sent[d]
  BY DEF Pending, IndexInv, IndexTypeOK, Numbered, Write
<1>6. sent[d] \in Nat /\ arrived[d] <= sent[d] /\ reindex.stamp[d] <= sent[d]
      /\ arrived[d] \in Nat /\ reindex.stamp[d] \in Nat
  BY DEF IndexInv, IndexTypeOK, Numbered, Snapshot
<1>7. \A w \in Pending(d)' : w.stamp = sent'[d] =>
        \A f \in Fields : Sets(w, f) => Value(w, f) = Field(t, f)
  BY <1>1, <1>2, <1>3, <1>4, <1>5, <1>6
<1>8. Excused(d) => Excused(d)'
  BY <1>3, <1>4 DEF Excused
<1>9. ASSUME NEW f \in Fields, Arrives(d, old, f) PROVE Arrives(d, t, f)'
  <2>1. CASE Sets(new, f)
    <3>1. LastToSet(new, f)'
      BY <1>1, <1>4, <1>5, <1>6, <2>1 DEF LastToSet
    <3> QED BY <1>2, <1>4, <2>1, <3>1 DEF Arrives
  <2>2. CASE ~Sets(new, f)
    <3>1. \A w \in Pending(d) : LastToSet(w, f) => LastToSet(w, f)'
      BY <1>4, <1>5, <2>2 DEF LastToSet
    <3> QED BY <1>2, <1>3, <1>4, <1>9, <2>2, <3>1 DEF Arrives
  <2> QED BY <2>1, <2>2
<1>10. Overtaken(d) => Overtaken(d)'
  BY <1>3 DEF Overtaken
<1>11. ASSUME NEW f \in Fields, RowTracks(d, old, f) PROVE RowTracks(d, t, f)'
  BY <1>1, <1>2, <1>3, <1>4, <1>6, <1>11 DEF RowTracks, ReadRow
<1>12. ~(d \in reindex'.left /\ reindex'.stamp[d] = sent'[d])
  BY <1>3, <1>6
<1> QED
  BY <1>3, <1>7, <1>8, <1>9, <1>10, <1>11, <1>12 DEF Tracks

(* What another document is to become stays as it is, if none of what      *)
(* Tracks speaks of changes for it.                                        *)
LEMMA TracksElsewhere ==
  ASSUME NEW d \in Docs, NEW t, Tracks(d, t), Pending(d)' = Pending(d),
         index'[d] = index[d], sent'[d] = sent[d], arrived'[d] = arrived[d],
         d \in (lost \cup disordered)' <=> d \in lost \cup disordered,
         d \in reindex'.left => /\ d \in reindex.left
                                /\ reindex'.stamp[d] = reindex.stamp[d]
                                /\ reindex'.text[d] = reindex.text[d]
                                /\ reindex'.flag[d] = reindex.flag[d]
  PROVE  Tracks(d, t)'
<1>1. Excused(d)' = Excused(d)
  BY DEF Excused
<1>2. \A f \in Fields : Arrives(d, t, f) => Arrives(d, t, f)'
  BY DEF Arrives, LastToSet, Pending
<1>3. d \in reindex'.left => /\ Overtaken(d) => Overtaken(d)'
                             /\ ReadRow(d)' = ReadRow(d)
                             /\ \A f \in Fields : RowTracks(d, t, f) => RowTracks(d, t, f)'
  BY DEF Overtaken, ReadRow, RowTracks
<1> QED
  BY <1>1, <1>2, <1>3 DEF Tracks

(* So it is when a write of another document is sent.                      *)
LEMMA SendElsewhere ==
  ASSUME IndexInv, NEW e, NEW whole, NEW text, NEW flag, Send(e, whole, text, flag),
         NEW d \in Docs \ {e}, NEW t, Tracks(d, t)
  PROVE  Tracks(d, t)'
<1>1. Pending(d)' = Pending(d)
  BY DEF Pending, Send
<1> QED
  BY <1>1, TracksElsewhere DEF Send, IndexInv, IndexTypeOK

(* A write arrives: in order, it leaves what is still to arrive to the     *)
(* later ones; late, it leaves the document excused.                       *)
LEMMA DeliverTracks ==
  ASSUME IndexInv, NEW w \in writes, Deliver(w), NEW d \in Docs, NEW t, Tracks(d, t)
  PROVE  Tracks(d, t)'
<1>1. /\ w \in Write /\ w.doc \in Docs /\ w.stamp \in Nat /\ index[w.doc] \in Document
      /\ writes' = writes \ {w} /\ UNCHANGED <<reindex, sent, lost>>
      /\ index' = [index EXCEPT ![w.doc] = Merge(@, w)]
  BY DEF Deliver, IndexInv, IndexTypeOK, Write
<1>2. CASE w.doc # d
  <2>1. Pending(d)' = Pending(d)
    BY <1>1, <1>2 DEF Pending
  <2> QED
    BY <1>1, <1>2, <2>1, TracksElsewhere DEF Deliver, IndexInv, IndexTypeOK
<1>3. CASE w.doc = d
  <2>1. Pending(d)' = Pending(d) \ {w} /\ w \in Pending(d)
    BY <1>1, <1>3 DEF Pending
  <2>2. \A v \in Pending(d) : v.stamp \in Nat /\ v.doc = d
    BY DEF Pending, IndexInv, IndexTypeOK, Write
  <2>3. \A v \in Pending(d) : v.stamp = w.stamp => v = w
    BY <1>3 DEF Pending, IndexInv, Numbered
  <2>4. arrived[d] \in Nat /\ reindex.stamp[d] \in Nat
    BY DEF IndexInv, IndexTypeOK, Snapshot
  <2>5. CASE w.stamp < arrived[d]
    <3>1. Excused(d)'
      BY <1>3, <2>5 DEF Excused, Deliver
    <3> QED BY <1>1, <2>1, <3>1 DEF Tracks, ReadRow
  <2>6. CASE ~(w.stamp < arrived[d])
    <3>1. arrived'[d] = w.stamp /\ arrived[d] <= w.stamp /\ disordered' = disordered
      BY <1>1, <1>3, <2>4, <2>6 DEF Deliver, IndexInv, IndexTypeOK
    <3>2. Excused(d) => Excused(d)'
      BY <1>1, <2>1, <2>2, <2>4, <3>1 DEF Excused
    <3>3. ASSUME ~Excused(d)', NEW f \in Fields, Arrives(d, t, f)
          PROVE  Arrives(d, t, f)'
      <4>1. \A v \in Pending(d)' : v.stamp > w.stamp
        BY <2>1, <2>2, <2>3, <3>1, <3>3 DEF Excused
      <4>2. Field(index'[d], f) = IF Sets(w, f) THEN Value(w, f) ELSE Field(index[d], f)
        BY <1>1, <1>3, MergeSets DEF IndexInv, IndexTypeOK
      <4>3. \A v \in Pending(d)' : LastToSet(v, f) <=> LastToSet(v, f)'
        BY <2>1, <2>2, <4>1 DEF LastToSet
      <4>4. CASE \E v \in Pending(d)' : LastToSet(v, f) /\ Value(v, f) = Field(t, f)
        BY <4>3, <4>4 DEF Arrives
      <4>5. CASE LastToSet(w, f) /\ Value(w, f) = Field(t, f)
        BY <1>3, <2>1, <2>2, <4>1, <4>2, <4>5 DEF Arrives, LastToSet
      <4>6. CASE (\A v \in Pending(d) : ~Sets(v, f)) /\ Field(index[d], f) = Field(t, f)
        BY <2>1, <4>2, <4>6 DEF Arrives
      <4> QED BY <2>1, <3>3, <4>4, <4>5, <4>6 DEF Arrives
    <3>4. ASSUME ~Overtaken(d)', NEW f \in Fields, RowTracks(d, t, f)
          PROVE  RowTracks(d, t, f)'
      BY <1>1, <2>1, <2>2, <2>4, <3>1, <3>4 DEF RowTracks, ReadRow, Overtaken
    <3>5. Overtaken(d) => Overtaken(d)'
      BY <1>1, <2>4, <3>1 DEF Overtaken
    <3>6. ReadRow(d)' = ReadRow(d) /\ sent' = sent /\ reindex' = reindex
      BY <1>1 DEF ReadRow
    <3> QED BY <2>1, <3>2, <3>3, <3>4, <3>5, <3>6 DEF Tracks
  <2> QED BY <2>5, <2>6
<1> QED
  BY <1>2, <1>3

(* A write is lost: its document is excused.                               *)
LEMMA LoseTracks ==
  ASSUME IndexInv, NEW w \in writes, Lose(w), NEW d \in Docs, NEW t, Tracks(d, t)
  PROVE  Tracks(d, t)'
<1>1. CASE w.doc # d
  <2>1. Pending(d)' = Pending(d)
    BY <1>1 DEF Pending, Lose
  <2> QED BY <1>1, <2>1, TracksElsewhere DEF Lose
<1>2. CASE w.doc = d
  <2>1. Excused(d)' /\ Pending(d)' \subseteq Pending(d)
    BY <1>2 DEF Excused, Pending, Lose
  <2> QED BY <2>1 DEF Tracks, Lose, ReadRow
<1> QED
  BY <1>1, <1>2

(* A reindex writes a row: if nothing was sent since it was read, that is  *)
(* the document to be; if what was sent is all still under way, it will    *)
(* make the document so; otherwise the document is excused.                *)
LEMMA ReindexDocumentTracks ==
  ASSUME IndexInv, NEW e \in Docs, ReindexDocument(e), NEW d \in Docs, NEW t, Tracks(d, t)
  PROVE  Tracks(d, t)'
<1>1. /\ UNCHANGED <<writes, sent>> /\ e \in reindex.left
      /\ index' = [index EXCEPT ![e] = ReadRow(e)]
      /\ arrived' = [arrived EXCEPT ![e] = IF @ < reindex.stamp[e] THEN reindex.stamp[e]
                                           ELSE @]
      /\ reindex'.left = reindex.left \ {e}
      /\ reindex'.left # {} => /\ reindex'.stamp = reindex.stamp
                               /\ reindex'.text = reindex.text /\ reindex'.flag = reindex.flag
  BY DEF ReindexDocument, ReadRow, NoReindex, IndexInv, IndexTypeOK, Snapshot
<1>2. Pending(d)' = Pending(d)
  BY <1>1 DEF Pending
<1>3. CASE e # d
  BY <1>1, <1>2, <1>3, TracksElsewhere DEF ReindexDocument, IndexInv, IndexTypeOK
<1>4. CASE e = d
  <2>1. /\ index'[d] = ReadRow(d) /\ d \notin reindex'.left
        /\ arrived'[d] = IF arrived[d] < reindex.stamp[d] THEN reindex.stamp[d] ELSE arrived[d]
    BY <1>1, <1>4 DEF IndexInv, IndexTypeOK
  <2>2. /\ arrived[d] \in Nat /\ reindex.stamp[d] \in Nat /\ sent[d] \in Nat
        /\ arrived[d] <= sent[d] /\ reindex.stamp[d] <= sent[d]
        /\ \A v \in Pending(d) : v.stamp \in Nat /\ v.doc = d /\ v.stamp <= sent[d]
    BY DEF IndexInv, IndexTypeOK, Snapshot, Numbered, Pending, Write
  <2>3. ASSUME NEW f \in Fields, ~Excused(d)' PROVE Arrives(d, t, f)'
    <3>1. \A v \in Pending(d) : v.stamp >= arrived'[d]
      BY <1>2, <2>1, <2>2, <2>3 DEF Excused
    <3>2. \A v \in Pending(d) : LastToSet(v, f) <=> LastToSet(v, f)'
      BY <1>1 DEF LastToSet, Pending
    <3>3. CASE StillCurrent(d)
      <4>1. Field(index'[d], f) = Field(t, f)
        BY <1>1, <1>4, <2>1, <3>3 DEF Tracks, StillCurrent, Same
      <4>2. \A v \in Pending(d) : v.stamp = sent[d]
        BY <2>1, <2>2, <3>1, <3>3 DEF StillCurrent
      <4>3. \A v \in Pending(d) : Sets(v, f) => LastToSet(v, f) /\ Value(v, f) = Field(t, f)
        BY <2>2, <4>2 DEF Tracks, LastToSet
      <4> QED BY <1>2, <3>2, <4>1, <4>3 DEF Arrives
    <3>4. CASE ~StillCurrent(d)
      <4>1. ~Overtaken(d) /\ ~Excused(d)
        BY <1>2, <1>4, <2>1, <2>2, <2>3, <3>1, <3>4 DEF ReindexDocument, Excused, Overtaken
      <4>2. Arrives(d, t, f) /\ RowTracks(d, t, f)
        BY <1>1, <1>4, <4>1 DEF Tracks
      <4> QED BY <1>2, <2>1, <3>2, <4>2 DEF Arrives, RowTracks
    <3> QED BY <3>3, <3>4
  <2> QED BY <1>1, <1>2, <2>1, <2>3 DEF Tracks
<1> QED
  BY <1>3, <1>4

(* Whatever the index does on its own, a document is on its way to be what *)
(* it was.                                                                 *)
LEMMA IndexStepTracks ==
  ASSUME IndexInv, IndexNext, NEW d \in Docs, NEW t, Tracks(d, t)
  PROVE  Tracks(d, t)'
<1>1. CASE AbortReindex
  BY <1>1, TracksElsewhere DEF AbortReindex, NoReindex, Pending
<1> QED
  BY <1>1, DeliverTracks, LoseTracks, ReindexDocumentTracks DEF IndexNext

(* A reindex that reads the rows as they are.                              *)
LEMMA ReindexTracks ==
  ASSUME IndexInv, NEW rows, NEW text, NEW flag, StartReindex(rows, text, flag),
         NEW d \in Docs, NEW t, Tracks(d, t),
         d \in rows => t.whole = TRUE /\ t.text = text[d] /\ t.flag = flag[d]
  PROVE  Tracks(d, t)'
<1>1. /\ UNCHANGED <<index, writes, sent, arrived, lost, disordered>>
      /\ reindex'.left = rows
      /\ d \in rows => Same(ReadRow(d)', t)
  BY DEF StartReindex, ReadRow, Same, Field
<1>2. Pending(d)' = Pending(d) /\ Excused(d)' = Excused(d)
  BY <1>1 DEF Pending, Excused
<1>3. \A f \in Fields : Arrives(d, t, f) => Arrives(d, t, f)'
  BY <1>1 DEF Arrives, LastToSet, Pending
<1> QED
  BY <1>1, <1>2, <1>3 DEF Tracks, RowTracks, Same

(* Two documents with the same fields are tracked alike.                   *)
LEMMA TracksSame ==
  ASSUME NEW d, NEW t, NEW u, Tracks(d, t), Same(t, u)
  PROVE  Tracks(d, u)
BY DEF Tracks, Same, Arrives, RowTracks

(* Once settled, a document is what it was to be, and found as such.       *)
LEMMA SettledIs ==
  ASSUME IndexInv, NEW d \in Docs, NEW t, t.whole \in BOOLEAN, Tracks(d, t), Settled(d)
  PROVE  Found(d) = IF t.whole /\ t.flag = "shown" THEN t.text ELSE NoText
<1>1. Pending(d) = {} /\ d \notin lost \cup disordered
  BY DEF Settled, Pending
<1>2. Same(index[d], t)
  BY <1>1 DEF Tracks, Excused, Arrives, Same
<1>3. /\ index[d].text = t.text /\ index[d].flag = t.flag /\ index[d].whole = t.whole
  BY <1>2 DEF Same, Fields, Field, IndexInv, IndexTypeOK, Document
<1> QED
  BY <1>3 DEF Found
=============================================================================
