-------------------------- MODULE BidVersions_proofs --------------------------
(***************************************************************************)
(* Proofs about BidVersions, for any number of writers, versions, items    *)
(* and changes by users.                                                   *)
(*                                                                         *)
(* What makes the latest mark right although rows are written from stale   *)
(* objects: a flush computes the marks from the versions stored by then,   *)
(* under the lock; and where the UPDATE leaves out the mark of its own     *)
(* row, because the stale object has it already, the stored one is right,  *)
(* since a row that was once marked was so by a synced version.  So the    *)
(* inductive invariant is about the committed table and the lock holder's  *)
(* at the same time, about what the former keeps of itself in the latter,  *)
(* and about the object a writer has read before its first flush.          *)
(*                                                                         *)
(* That readers see writers one after the other (NoticeVersions) needs one *)
(* more invariant: the lock holder's table is the committed one with its   *)
(* items so far brought at once (Serial).  The first item's row is the one *)
(* that may come from a stale object; for users' columns the UPDATE leaves *)
(* out what the object has not changed, so it counts as read at its flush. *)
(***************************************************************************)
EXTENDS BidVersions, TLAPS, WellFoundedInduction

-----------------------------------------------------------------------------
(* The inductive invariant.                                                *)

Tables == [Seqs -> Row \cup {NoBid}]

Synced(table, s) == table[s] # NoBid /\ table[s].type # "none"

\* OneLatestVersion, for any table; before the first sync no row is marked.
Marked(table) ==
    /\ (\E s \in Seqs : Synced(table, s)) =>
          \A s \in Present(table) : table[s].latest = (s = Newest(Present(table)))
    /\ (\A s \in Seqs : ~Synced(table, s)) =>
          \A s \in Present(table) : ~table[s].latest

\* No row, type or item gets lost from one table to the other.
Grows(old, new) ==
    \A s \in Seqs : /\ old[s] # NoBid => new[s] # NoBid
                    /\ Synced(old, s) => Synced(new, s)

\* What a writer may change of users' columns: see SyncsKeepUserChoices.
KeepsChoices(old, new, isSave, seq) ==
    \A s \in Seqs : old[s] # NoBid =>
        /\ new[s].status # old[s].status =>
              isSave /\ s = seq /\ new[s].status = "favorite"
        /\ new[s].favorite # old[s].favorite =>
              isSave /\ s = seq /\ new[s].favorite

\* Table new is table old with the versions T brought at once.
Before(table, s) == IF table[s] = NoBid THEN BlankRow ELSE table[s]
Chosen(row)      == IF row.status = "collected" THEN "favorite" ELSE row.status

AsOne(old, new, T, isSave) ==
    LET all == Present(old) \cup T IN
    /\ Present(new) = all
    /\ \A s \in all :
          LET was == Before(old, s) IN
          /\ Synced(new, s) <=> s \in T \/ Synced(old, s)
          /\ new[s].latest = (s = Newest(all))
          /\ new[s].status = IF isSave /\ s \in T THEN Chosen(was) ELSE was.status
          /\ new[s].favorite = IF isSave /\ s \in T THEN TRUE ELSE was.favorite

IsCommitted(w) == pc[w] \in {"reread", "rewrite", "done", "halfway"}

Typed ==
    /\ bids \in Tables
    /\ raw \in [Seqs -> Writers \cup {NoWriter}]
    /\ work \in [bids : Tables, raw : [Seqs -> Writers \cup {NoWriter}]]
    /\ lock \in Writers \cup {NoWriter}
    /\ pc \in [Writers -> PCs]
    /\ saving \in [Writers -> BOOLEAN]
    /\ batch \in [Writers -> Batches \cup {<<>>}]
    /\ next \in [Writers -> 1 .. MaxItems + 1]
    /\ loaded \in [Writers -> Row \cup {NoBid}]
    /\ edits \in 0 .. MaxEdits

Stores ==
    /\ lock = NoWriter => work.bids = bids /\ work.raw = raw
    /\ Marked(bids) /\ Marked(work.bids)
    /\ Grows(bids, work.bids)
    /\ \A s \in Seqs :
          /\ raw[s] # NoWriter => work.raw[s] # NoWriter /\ IsCommitted(raw[s])
          /\ work.raw[s] \in {raw[s], lock}

\* What a writer has stored of its first n items.
Has(w, table, owners, n) ==
    \A i \in 1 .. n : /\ Synced(table, batch[w][i].seq)
                      /\ owners[batch[w][i].seq] # NoWriter

Writer(w) ==
    /\ pc[w] = "idle" => next[w] = 1 /\ saving[w] = FALSE
    /\ pc[w] # "idle" => batch[w] # <<>>
    /\ saving[w] => Len(batch[w]) <= 1
    /\ pc[w] = "flush" => next[w] = 1
    /\ pc[w] = "next" => next[w] <= Len(batch[w]) + 1
    /\ lock = w <=> pc[w] = "next" /\ next[w] > 1
    /\ (pc[w] = "flush" /\ loaded[w] # NoBid) =>
          /\ bids[batch[w][1].seq] # NoBid
          /\ loaded[w].type # "none" => Synced(bids, batch[w][1].seq)
          /\ loaded[w].latest => \E s \in Seqs : Synced(bids, s)
    /\ lock = w =>
          /\ Has(w, work.bids, work.raw, next[w] - 1)
          /\ KeepsChoices(bids, work.bids, saving[w], batch[w][1].seq)
    /\ IsCommitted(w) => Has(w, bids, raw, Len(batch[w]))
    /\ pc[w] \in {"reread", "rewrite"} => saving[w]
    /\ pc[w] = "rewrite" => loaded[w] # NoBid

IInv == Typed /\ Stores /\ \A w \in Writers : Writer(w)

Items(w, n) == {batch[w][i].seq : i \in 1 .. n}

\* The lock holder's tables are the committed ones with what it has upserted
\* so far, as if brought at once.
Serial(w) ==
    lock = w =>
        /\ AsOne(bids, work.bids, Items(w, next[w] - 1), saving[w])
        /\ \A s \in Seqs :
              work.raw[s] = IF s \in Items(w, next[w] - 1) THEN w ELSE raw[s]

-----------------------------------------------------------------------------
(* Facts about the data.                                                   *)

\* Versions have a newest one.
LEMMA NewestFacts ==
    ASSUME NEW T \in SUBSET Seqs, T # {}
    PROVE  Newest(T) \in T /\ \A q \in T : q <= Newest(T)
<1> DEFINE M == {MaxSeq - s : s \in T}
<1>1. M \subseteq Nat /\ M # {}
  <2>1. \A s \in Seqs : MaxSeq - s \in Nat
    BY MaxSeqAssumption DEF Seqs
  <2>2. PICK t : t \in T
    OBVIOUS
  <2>3. QED  BY <2>1, <2>2
<1>2. IsWellFoundedOn(OpToRel(<, Nat), Nat)
  BY NatLessThanWellFounded
<1>3. \E x \in M : \A y \in M : ~(<<y, x>> \in OpToRel(<, Nat))
  <2> HIDE DEF M
  <2>1. QED  BY <1>1, <1>2, WFMin
<1>4. PICK x \in M : \A y \in M : ~(y < x)
  BY <1>1, <1>3 DEF OpToRel
<1>5. PICK n \in T : x = MaxSeq - n
  BY <1>4
<1>6. \A q \in T : q <= n
  <2> TAKE q \in T
  <2>1. ~(MaxSeq - q < MaxSeq - n)
    BY <1>4, <1>5
  <2>2. QED  BY <2>1, MaxSeqAssumption DEF Seqs
<1>7. QED  BY <1>6 DEF Newest

LEMMA ParentFacts ==
    ASSUME NEW T \in SUBSET Seqs, NEW seq \in Seqs
    PROVE  ParentOf(T, seq) \in Seqs \cup {NoSeq}
<1> DEFINE E == {q \in T : q < seq}
<1>1. E \in SUBSET Seqs
  OBVIOUS
<1>2. CASE E = {}
  BY <1>2 DEF ParentOf
<1>3. CASE E # {}
  <2>1. Newest(E) \in Seqs
    <3> HIDE DEF E
    <3>1. QED  BY <1>1, <1>3, NewestFacts
  <2>2. QED  BY <1>3, <2>1 DEF ParentOf
<1>4. QED  BY <1>2, <1>3

LEMMA ItemFacts ==
    ASSUME NEW item \in Item
    PROVE  item.seq \in Seqs /\ item.type \in Types /\ item.type # "none"
<1>1. PICK s \in Seqs, n \in Kinds, c \in BOOLEAN :
         item = [seq |-> s, type |-> NoticeVersionType(n, c, s)]
  BY DEF Item
<1>2. NoticeVersionType(n, c, s) \in Types
  BY DEF NoticeVersionType, Types
<1>3. \A t \in Types : t # "none"
  BY DEF Types
<1>4. QED  BY <1>1, <1>2, <1>3

LEMMA BatchFacts ==
    ASSUME NEW b \in Batches
    PROVE  b \in Seq(Item) /\ Len(b) \in 1 .. MaxItems /\ b # <<>>
<1>1. PICK n \in 1 .. MaxItems : b \in [1 .. n -> Item]
  BY DEF Batches
<1>2. n \in Nat /\ n >= 1
  BY <1>1, MaxItemsAssumption
<1>3. b \in Seq(Item) /\ Len(b) = n
  BY <1>1, <1>2
<1>4. QED  BY <1>1, <1>2, <1>3

LEMMA BlankRowFacts == BlankRow \in Row
  BY DEF BlankRow, Row, Statuses

\* An UPDATE writes the columns that differ from the loaded ones.
LEMMA UpdateFacts ==
    ASSUME NEW stored \in Row, NEW base \in Row, NEW new \in Row
    PROVE  LET u == Update(stored, base, new) IN
           /\ u \in Row
           /\ u.type = IF new.type = base.type THEN stored.type ELSE new.type
           /\ u.latest = IF new.latest = base.latest THEN stored.latest ELSE new.latest
           /\ u.status = IF new.status = base.status THEN stored.status ELSE new.status
           /\ u.favorite = IF new.favorite = base.favorite
                           THEN stored.favorite ELSE new.favorite
  BY DEF Update, Row

LEMMA FavoredFacts ==
    ASSUME NEW row \in Row
    PROVE  /\ Favored(row) \in Row
           /\ Favored(row).type = row.type /\ Favored(row).latest = row.latest
           /\ Favored(row).status \in {row.status, "favorite"}
           /\ Favored(row).status =
                 IF row.status = "collected" THEN "favorite" ELSE row.status
           /\ Favored(row).favorite = TRUE
  BY DEF Favored, Row, Statuses

LEMMA RefreshLatestFacts ==
    ASSUME NEW row \in Row, NEW newest \in BOOLEAN
    PROVE  /\ RefreshLatest(row, newest) \in Row
           /\ RefreshLatest(row, newest).type = row.type
           /\ RefreshLatest(row, newest).latest = newest
           /\ RefreshLatest(row, newest).status = row.status
           /\ RefreshLatest(row, newest).favorite = row.favorite
  BY DEF RefreshLatest, Row

LEMMA UpsertedFacts ==
    ASSUME NEW base \in Row, NEW item \in Item, NEW T \in SUBSET Seqs
    PROVE  LET u == Upserted(base, item, T) IN
           /\ u \in Row
           /\ u.type = item.type
           /\ u.latest = (item.seq = Newest(T))
           /\ u.status = base.status /\ u.favorite = base.favorite
<1> DEFINE row == [base EXCEPT !.type = item.type,
                               !.effective = item.type # "cancellation",
                               !.parent = ParentOf(T, item.seq)]
<1>1. item.seq \in Seqs /\ item.type \in Types
  BY ItemFacts
<1>2. ParentOf(T, item.seq) \in Seqs \cup {NoSeq}
  BY <1>1, ParentFacts
<1>3. /\ row \in Row /\ row.type = item.type
      /\ row.status = base.status /\ row.favorite = base.favorite
  BY <1>1, <1>2 DEF Row
<1>4. (item.seq = Newest(T)) \in BOOLEAN
  OBVIOUS
<1> HIDE DEF row
<1>5. Upserted(base, item, T) = RefreshLatest(row, item.seq = Newest(T))
  BY DEF Upserted, row
<1>6. QED  BY <1>3, <1>4, <1>5, RefreshLatestFacts

\* Tables that agree on versions, types and marks.
LEMMA SameMarks ==
    ASSUME NEW old \in Tables, NEW new \in Tables, Marked(old),
           \A s \in Seqs : /\ old[s] = NoBid <=> new[s] = NoBid
                           /\ old[s] # NoBid => /\ new[s].type = old[s].type
                                                /\ new[s].latest = old[s].latest
    PROVE  Marked(new) /\ Grows(old, new)
<1>1. Present(new) = Present(old)
  BY DEF Present
<1>2. \A s \in Seqs : Synced(new, s) <=> Synced(old, s)
  BY DEF Synced
<1>3. Marked(new)
  BY <1>1, <1>2 DEF Marked, Present
<1>4. Grows(old, new)
  BY <1>2 DEF Grows
<1>5. QED  BY <1>3, <1>4

\* The upsert of one item, from an object that may be stale.
LEMMA UpsertFacts ==
    ASSUME NEW table \in Tables, Marked(table),
           NEW base \in Row \cup {NoBid}, NEW item \in Item, NEW isSave \in BOOLEAN,
           base = NoBid => table[item.seq] = NoBid,
           base # NoBid =>
               /\ table[item.seq] # NoBid
               /\ base.type # "none" => Synced(table, item.seq)
               /\ base.latest => \E s \in Seqs : Synced(table, s)
    PROVE  LET new == UpsertInto(table, base, item, isSave) IN
           /\ new \in Tables /\ Marked(new) /\ Grows(table, new)
           /\ Synced(new, item.seq)
           /\ KeepsChoices(table, new, isSave, item.seq)
           /\ AsOne(table, new, {item.seq}, isSave)
<1>1. PICK q : q = item.seq
  OBVIOUS
<1>2. PICK T : T = Present(table) \cup {q}
  OBVIOUS
<1>3. PICK stored : stored = IF base = NoBid THEN Upserted(BlankRow, item, T)
                             ELSE Update(table[q], base, Upserted(base, item, T))
  OBVIOUS
<1>4. PICK mine : mine = IF isSave THEN Favored(stored) ELSE stored
  OBVIOUS
<1>5. PICK new : new = UpsertInto(table, base, item, isSave)
  OBVIOUS
<1>6. q \in Seqs /\ item.type # "none" /\ item.type \in Types /\ T \in SUBSET Seqs
  BY <1>1, <1>2, ItemFacts DEF Present
<1>7. new = [s \in Seqs |-> IF s = q THEN mine
                            ELSE IF table[s] = NoBid THEN NoBid
                                 ELSE RefreshLatest(table[s], s = Newest(T))]
  BY <1>1, <1>2, <1>3, <1>4, <1>5 DEF UpsertInto
<1>8. /\ stored \in Row /\ stored.type # "none"
      /\ stored.latest = (q = Newest(T))
      /\ table[q] # NoBid => /\ stored.status = table[q].status
                             /\ stored.favorite = table[q].favorite
      /\ table[q] = NoBid => /\ stored.status = BlankRow.status
                             /\ stored.favorite = BlankRow.favorite
  <2>1. CASE base = NoBid
    BY <2>1, <1>1, <1>3, <1>6, UpsertedFacts, BlankRowFacts
  <2>2. CASE base # NoBid
    <3>1. PICK u : u = Upserted(base, item, T)
      OBVIOUS
    <3>2. /\ u \in Row /\ u.type = item.type /\ u.latest = (q = Newest(T))
          /\ u.status = base.status /\ u.favorite = base.favorite
      BY <3>1, <2>2, <1>1, <1>6, UpsertedFacts
    <3>3. table[q] \in Row /\ base \in Row /\ stored = Update(table[q], base, u)
      BY <3>1, <2>2, <1>1, <1>3, <1>6 DEF Tables
    <3>4. /\ stored \in Row
          /\ stored.type = IF u.type = base.type THEN table[q].type ELSE u.type
          /\ stored.latest = IF u.latest = base.latest THEN table[q].latest ELSE u.latest
          /\ stored.status = IF u.status = base.status THEN table[q].status ELSE u.status
          /\ stored.favorite = IF u.favorite = base.favorite
                               THEN table[q].favorite ELSE u.favorite
      BY <3>2, <3>3, UpdateFacts
    <3>5. stored.type # "none"
      BY <3>2, <3>4, <2>2, <1>1, <1>6 DEF Synced
    <3>6. stored.latest = (q = Newest(T))
      <4>1. CASE u.latest # base.latest
        BY <4>1, <3>2, <3>4
      <4>2. CASE u.latest = base.latest
        <5>1. T = Present(table) /\ q \in Present(table)
          BY <2>2, <1>1, <1>2, <1>6 DEF Present
        <5>2. stored.latest = table[q].latest
          BY <4>2, <3>4
        <5>3. CASE \E s \in Seqs : Synced(table, s)
          BY <5>1, <5>2, <5>3 DEF Marked
        <5>4. CASE \A s \in Seqs : ~Synced(table, s)
          <6>1. ~table[q].latest /\ ~base.latest
            BY <5>1, <5>4, <2>2 DEF Marked
          <6>2. stored.latest = FALSE /\ u.latest = FALSE
            BY <6>1, <5>2, <4>2, <3>3 DEF Row
          <6>3. QED  BY <6>2, <3>2
        <5>5. QED  BY <5>3, <5>4
      <4>3. QED  BY <4>1, <4>2
    <3>7. QED  BY <2>2, <3>2, <3>3, <3>4, <3>5, <3>6, NoBidAssumption
  <2>3. QED  BY <2>1, <2>2
<1>9. /\ mine \in Row /\ mine.type # "none" /\ mine.latest = (q = Newest(T))
      /\ table[q] # NoBid =>
            /\ mine.status # table[q].status => isSave /\ mine.status = "favorite"
            /\ mine.favorite # table[q].favorite => isSave /\ mine.favorite
      /\ mine.status = IF isSave THEN Chosen(Before(table, q))
                       ELSE Before(table, q).status
      /\ mine.favorite = IF isSave THEN TRUE ELSE Before(table, q).favorite
  <2> DEFINE was == Before(table, q)
  <2>0. stored.status = was.status /\ stored.favorite = was.favorite
    BY <1>8 DEF Before
  <2>1. CASE isSave
    <3>1. /\ mine \in Row /\ mine.type = stored.type /\ mine.latest = stored.latest
          /\ mine.status \in {stored.status, "favorite"} /\ mine.favorite = TRUE
      BY <2>1, <1>4, <1>8, FavoredFacts
    <3>2. table[q] # NoBid =>
            /\ mine.status # table[q].status => isSave /\ mine.status = "favorite"
            /\ mine.favorite # table[q].favorite => isSave /\ mine.favorite
      BY <2>1, <3>1, <1>8
    <3>3. mine.status = Chosen(stored)
      BY <2>1, <1>4, <1>8, FavoredFacts DEF Chosen
    <3>4. Chosen(stored) = Chosen(was)
      BY <2>0 DEF Chosen
    <3>5. QED  BY <2>1, <3>1, <3>2, <3>3, <3>4, <1>8
  <2>2. CASE ~isSave
    BY <2>0, <2>2, <1>4, <1>8
  <2>3. QED  BY <2>1, <2>2
<1>10. new[q] = mine /\ mine # NoBid
  BY <1>6, <1>7, <1>9, NoBidAssumption
<1>11. \A s \in Seqs : (s # q /\ table[s] # NoBid) =>
          /\ new[s] \in Row /\ new[s] # NoBid
          /\ new[s].type = table[s].type /\ new[s].latest = (s = Newest(T))
          /\ new[s].status = table[s].status /\ new[s].favorite = table[s].favorite
  <2> TAKE s \in Seqs
  <2> HAVE s # q /\ table[s] # NoBid
  <2>1. table[s] \in Row /\ (s = Newest(T)) \in BOOLEAN
    BY DEF Tables
  <2>2. new[s] = RefreshLatest(table[s], s = Newest(T))
    BY <1>7
  <2> DEFINE row == new[s]
  <2>3. /\ row \in Row /\ row.type = table[s].type /\ row.latest = (s = Newest(T))
        /\ row.status = table[s].status /\ row.favorite = table[s].favorite
    BY <2>1, <2>2, RefreshLatestFacts, Zenon
  <2>4. QED  BY <2>3, NoBidAssumption
<1>12. \A s \in Seqs : (s # q /\ table[s] = NoBid) => new[s] = NoBid
  BY <1>7
<1>13. new \in Tables
  <2>1. \A s \in Seqs : new[s] \in Row \cup {NoBid}
    BY <1>9, <1>10, <1>11, <1>12
  <2>2. QED  BY <2>1, <1>7 DEF Tables
<1>14. Present(new) = T
  BY <1>2, <1>6, <1>10, <1>11, <1>12 DEF Present
<1>15. Synced(new, q)
  BY <1>9, <1>10 DEF Synced
<1>16. \A s \in T : new[s].latest = (s = Newest(T))
  BY <1>2, <1>6, <1>9, <1>10, <1>11 DEF Present
<1>17. Marked(new)
  BY <1>6, <1>14, <1>15, <1>16 DEF Marked
<1>18. Grows(table, new)
  BY <1>10, <1>11, <1>15 DEF Grows, Synced
<1>19. KeepsChoices(table, new, isSave, q)
  BY <1>9, <1>10, <1>11 DEF KeepsChoices
<1>20. AsOne(table, new, {q}, isSave)
  <2>1. Present(new) = Present(table) \cup {q}
    BY <1>2, <1>14
  <2>2. ASSUME NEW s \in T
        PROVE  /\ Synced(new, s) <=> s \in {q} \/ Synced(table, s)
               /\ new[s].latest = (s = Newest(T))
               /\ new[s].status = IF isSave /\ s \in {q} THEN Chosen(Before(table, s))
                                  ELSE Before(table, s).status
               /\ new[s].favorite = IF isSave /\ s \in {q} THEN TRUE
                                    ELSE Before(table, s).favorite
    <3>1. CASE s = q
      BY <3>1, <1>9, <1>10, <1>15
    <3>2. CASE s # q
      <4>1. s \in Seqs /\ table[s] # NoBid
        BY <3>2, <1>2 DEF Present
      <4>2. Before(table, s) = table[s]
        BY <4>1 DEF Before
      <4>3. QED  BY <3>2, <4>1, <4>2, <1>11 DEF Synced
    <3>3. QED  BY <3>1, <3>2
  <2>3. QED  BY <1>2, <2>1, <2>2 DEF AsOne
<1>21. QED  BY <1>1, <1>5, <1>13, <1>15, <1>17, <1>18, <1>19, <1>20

LEMMA AsOneOf ==
    ASSUME NEW old, NEW new, NEW T, NEW all, all = Present(old) \cup T,
           Present(new) = all,
           \A s \in all :
              /\ Synced(new, s) <=> s \in T \/ Synced(old, s)
              /\ new[s].latest = (s = Newest(all))
              /\ new[s].status = Before(old, s).status
              /\ new[s].favorite = Before(old, s).favorite
    PROVE  AsOne(old, new, T, FALSE)
  BY DEF AsOne

\* Bringing some versions and then others is bringing them all.
LEMMA AsOneNext ==
    ASSUME NEW old \in Tables, NEW mid \in Tables, NEW new \in Tables,
           NEW A \in SUBSET Seqs, NEW B \in SUBSET Seqs,
           AsOne(old, mid, A, FALSE), AsOne(mid, new, B, FALSE)
    PROVE  AsOne(old, new, A \cup B, FALSE)
<1>1. /\ Present(mid) = Present(old) \cup A
      /\ \A s \in Present(old) \cup A :
            /\ Synced(mid, s) <=> s \in A \/ Synced(old, s)
            /\ mid[s].status = Before(old, s).status
            /\ mid[s].favorite = Before(old, s).favorite
  BY DEF AsOne
<1>2. PICK C : C = A \cup B
  OBVIOUS
<1>3. PICK all : all = Present(mid) \cup B /\ all = Present(old) \cup C
  BY <1>1, <1>2
<1>4. /\ Present(new) = all
      /\ \A s \in all :
            /\ Synced(new, s) <=> s \in B \/ Synced(mid, s)
            /\ new[s].latest = (s = Newest(all))
            /\ new[s].status = Before(mid, s).status
            /\ new[s].favorite = Before(mid, s).favorite
  BY <1>3 DEF AsOne
<1>5. ASSUME NEW s \in all
      PROVE  /\ Synced(new, s) <=> s \in C \/ Synced(old, s)
             /\ new[s].latest = (s = Newest(all))
             /\ new[s].status = Before(old, s).status
             /\ new[s].favorite = Before(old, s).favorite
  <2>1. CASE s \in Present(mid)
    <3>1. Before(mid, s) = mid[s]
      BY <2>1 DEF Before, Present
    <3>2. QED  BY <2>1, <3>1, <1>1, <1>2, <1>4
  <2>2. CASE s \notin Present(mid)
    <3>1. mid[s] = NoBid /\ old[s] = NoBid /\ s \notin A /\ s \in B
      BY <2>2, <1>1, <1>3 DEF Present
    <3>2. Before(mid, s) = Before(old, s)
      BY <3>1 DEF Before
    <3>3. QED  BY <3>1, <3>2, <1>2, <1>4
  <2>3. QED  BY <2>1, <2>2
<1>6. AsOne(old, new, C, FALSE)
  BY <1>3, <1>4, <1>5, AsOneOf
<1>7. QED  BY <1>2, <1>6

-----------------------------------------------------------------------------
(* One writer at a time.                                                   *)

LEMMA ItemsOfBatch ==
    ASSUME Typed, NEW w \in Writers, batch[w] # <<>>
    PROVE  /\ batch[w] \in Batches /\ batch[w] \in Seq(Item)
           /\ Len(batch[w]) \in 1 .. MaxItems
           /\ \A i \in 1 .. Len(batch[w]) : /\ batch[w][i] \in Item
                                            /\ batch[w][i].seq \in Seqs
<1>1. batch[w] \in Batches
  BY DEF Typed
<1>2. batch[w] \in Seq(Item) /\ Len(batch[w]) \in 1 .. MaxItems
  BY <1>1, BatchFacts
<1>3. \A i \in 1 .. Len(batch[w]) : batch[w][i] \in Item
  BY <1>2
<1>4. QED  BY <1>1, <1>2, <1>3, ItemFacts

\* What is known of a writer at any place.
LEMMA WriterFacts ==
    ASSUME IInv, NEW w \in Writers
    PROVE  /\ Typed /\ Stores /\ Writer(w)
           /\ work = [bids |-> work.bids, raw |-> work.raw]
           /\ work.bids \in Tables /\ work.raw \in [Seqs -> Writers \cup {NoWriter}]
           /\ next[w] \in 1 .. MaxItems + 1 /\ next[w] \in Nat
           /\ Len(batch[w]) \in Nat
           /\ w # NoWriter
<1>1. Typed /\ Stores /\ Writer(w)
  BY DEF IInv
<1>2. Len(batch[w]) \in Nat
  <2>1. CASE batch[w] = <<>>  BY <2>1
  <2>2. CASE batch[w] # <<>>
    BY <1>1, <2>2, ItemsOfBatch, MaxItemsAssumption
  <2>3. QED  BY <2>1, <2>2
<1>3. /\ work = [bids |-> work.bids, raw |-> work.raw]
      /\ work.bids \in Tables /\ work.raw \in [Seqs -> Writers \cup {NoWriter}]
  BY <1>1 DEF Typed
<1>4. next[w] \in 1 .. MaxItems + 1 /\ next[w] \in Nat
  BY <1>1, MaxItemsAssumption DEF Typed
<1>5. QED  BY <1>1, <1>2, <1>3, <1>4, WritersAssumption

\* What a step does to the writers that do not take it.
Untouched(w) ==
    /\ pc'[w] = pc[w] /\ saving'[w] = saving[w] /\ batch'[w] = batch[w]
    /\ next'[w] = next[w] /\ loaded'[w] = loaded[w]
    /\ lock' = w <=> lock = w
    /\ lock = w => UNCHANGED <<bids, raw, work>>

\* What a step may do to the committed rows.
Grown ==
    /\ Grows(bids, bids')
    /\ \A s \in Seqs : raw[s] # NoWriter => raw'[s] # NoWriter

LEMMA UntouchedWriter ==
    ASSUME Typed, NEW w \in Writers, Writer(w), Untouched(w), Grown
    PROVE  Writer(w)'
<1>1. /\ pc'[w] = pc[w] /\ saving'[w] = saving[w] /\ batch'[w] = batch[w]
      /\ next'[w] = next[w] /\ loaded'[w] = loaded[w] /\ (lock' = w <=> lock = w)
  BY DEF Untouched
<1>2. /\ pc[w] = "idle" => next[w] = 1 /\ saving[w] = FALSE
      /\ pc[w] # "idle" => batch[w] # <<>>
      /\ saving[w] => Len(batch[w]) <= 1
      /\ pc[w] = "flush" => next[w] = 1
      /\ pc[w] = "next" => next[w] <= Len(batch[w]) + 1
      /\ lock = w <=> pc[w] = "next" /\ next[w] > 1
      /\ pc[w] \in {"reread", "rewrite"} => saving[w]
      /\ pc[w] = "rewrite" => loaded[w] # NoBid
  BY DEF Writer
<1>3. batch[w] # <<>> =>
         \A i \in 1 .. Len(batch[w]) : batch[w][i].seq \in Seqs
  BY ItemsOfBatch
<1>4. (pc[w] = "flush" /\ loaded[w] # NoBid) =>
          /\ bids'[batch[w][1].seq] # NoBid
          /\ loaded[w].type # "none" => Synced(bids', batch[w][1].seq)
          /\ loaded[w].latest => \E s \in Seqs : Synced(bids', s)
  <2> HAVE pc[w] = "flush" /\ loaded[w] # NoBid
  <2>1. /\ bids[batch[w][1].seq] # NoBid
        /\ loaded[w].type # "none" => Synced(bids, batch[w][1].seq)
        /\ loaded[w].latest => \E s \in Seqs : Synced(bids, s)
    BY DEF Writer
  <2>2. batch[w][1].seq \in Seqs
    BY <1>2, ItemsOfBatch
  <2>3. QED  BY <2>1, <2>2 DEF Grown, Grows
<1>5. lock = w =>
          /\ Has(w, work.bids, work.raw, next[w] - 1)'
          /\ KeepsChoices(bids, work.bids, saving[w], batch[w][1].seq)'
  <2> HAVE lock = w
  <2>1. UNCHANGED <<bids, raw, work>>
    BY DEF Untouched
  <2>2. /\ Has(w, work.bids, work.raw, next[w] - 1)
        /\ KeepsChoices(bids, work.bids, saving[w], batch[w][1].seq)
    BY DEF Writer
  <2>3. QED  BY <1>1, <2>1, <2>2 DEF Has, KeepsChoices, Synced
<1>6. IsCommitted(w)' => Has(w, bids, raw, Len(batch[w]))'
  <2> HAVE IsCommitted(w)'
  <2>1. IsCommitted(w) /\ pc[w] # "idle"
    BY <1>1 DEF IsCommitted
  <2>2. Has(w, bids, raw, Len(batch[w]))
    BY <2>1 DEF Writer
  <2>3. \A i \in 1 .. Len(batch[w]) : batch[w][i].seq \in Seqs
    BY <1>2, <1>3, <2>1
  <2>4. QED  BY <1>1, <2>2, <2>3 DEF Has, Grown, Grows, Synced
<1>7. Synced(bids, batch[w][1].seq)' <=> Synced(bids', batch[w][1].seq)
  BY <1>1 DEF Synced
<1>8. \A s : Synced(bids, s)' <=> Synced(bids', s)
  BY DEF Synced
<1>9. QED  BY <1>1, <1>2, <1>4, <1>5, <1>6, <1>7, <1>8 DEF Writer

LEMMA StepOfWriter ==
    ASSUME IInv, Typed', Stores', NEW w \in Writers, Writer(w)',
           \A d \in Writers \ {w} : Untouched(d), Grown
    PROVE  IInv'
<1>1. \A d \in Writers \ {w} : Writer(d)'
  BY UntouchedWriter DEF IInv
<1>2. QED  BY <1>1 DEF IInv

\* A step that leaves the database alone.
LEMMA StoresUntouched ==
    ASSUME IInv, UNCHANGED <<bids, raw, work, lock>>,
           \A d \in Writers : IsCommitted(d) => IsCommitted(d)'
    PROVE  Stores' /\ Grown
<1>1. Stores /\ Typed
  BY DEF IInv
<1>2. \A s \in Seqs : raw[s] # NoWriter => raw[s] \in Writers
  BY <1>1 DEF Typed
<1>3. Marked(bids)' /\ Marked(work.bids)'
  BY <1>1 DEF Stores, Marked, Synced, Present
<1>4. Grows(bids, work.bids)' /\ Grows(bids, bids')
  BY <1>1 DEF Stores, Grows, Synced
<1>5. Stores'
  BY <1>1, <1>2, <1>3, <1>4 DEF Stores, IsCommitted
<1>6. QED  BY <1>4, <1>5 DEF Grown

LEMMA InitIInv == Init => IInv
<1> SUFFICES ASSUME Init PROVE IInv  OBVIOUS
<1>1. /\ raw = [s \in Seqs |-> NoWriter] /\ work = [bids |-> bids, raw |-> raw]
      /\ lock = NoWriter
  BY DEF Init, Committed
<1>2. bids \in Tables /\ \A s \in Seqs : bids[s] \in {BlankRow, NoBid}
  BY BlankRowFacts DEF Init, Tables
<1>3. Typed
  BY <1>1, <1>2, MaxItemsAssumption DEF Init, Typed, PCs
<1>4. Marked(bids)
  <2>1. BlankRow.type = "none" /\ BlankRow.latest = FALSE
    BY DEF BlankRow
  <2>2. \A s \in Seqs : ~Synced(bids, s)
    BY <1>2, <2>1 DEF Synced
  <2>3. \A s \in Present(bids) : ~bids[s].latest
    BY <1>2, <2>1 DEF Present
  <2>4. QED  BY <2>2, <2>3 DEF Marked
<1>5. Stores
  BY <1>1, <1>4 DEF Stores, Grows
<1>6. \A w \in Writers : Writer(w)
  BY <1>1, WritersAssumption DEF Init, Writer, IsCommitted
<1>7. QED  BY <1>3, <1>5, <1>6 DEF IInv

-----------------------------------------------------------------------------
(* The steps: each of them keeps the inductive invariant.                  *)

LEMMA StartKeeps ==
    ASSUME IInv, NEW w \in Writers, NEW b \in Batches, pc[w] = "idle",
           batch' = [batch EXCEPT ![w] = b], Goto(w, "next"),
           UNCHANGED <<bids, raw, work, lock, next, loaded, edits>>,
           saving' \in [Writers -> BOOLEAN],
           \A d \in Writers \ {w} : saving'[d] = saving[d],
           saving'[w] => Len(b) = 1
    PROVE  IInv'
<1>1. Typed /\ Writer(w)
  BY WriterFacts
<1>2. pc' = [pc EXCEPT ![w] = "next"]
  BY DEF Goto
<1>3. Typed'
  BY <1>1, <1>2 DEF Typed, PCs
<1>4. \A d \in Writers \ {w} : Untouched(d)
  BY <1>1, <1>2 DEF Typed, Untouched
<1>5. Stores' /\ Grown
  BY <1>1, <1>2, StoresUntouched DEF Typed, IsCommitted
<1>6. /\ pc'[w] = "next" /\ batch'[w] = b /\ next'[w] = 1 /\ lock' # w
      /\ b # <<>> /\ Len(b) \in Nat /\ Len(b) >= 1
  BY <1>1, <1>2, BatchFacts, MaxItemsAssumption DEF Typed, Writer
<1>7. Writer(w)'
  <2>1. ~IsCommitted(w)'
    BY <1>6 DEF IsCommitted
  <2>2. saving'[w] => Len(batch'[w]) <= 1
    BY <1>6
  <2>3. next'[w] <= Len(batch'[w]) + 1 /\ ~(next'[w] > 1)
    BY <1>6
  <2>4. QED  BY <1>6, <2>1, <2>2, <2>3 DEF Writer
<1>8. QED  BY <1>3, <1>4, <1>5, <1>7, StepOfWriter

LEMMA StartSyncKeeps ==
    ASSUME IInv, NEW w \in Writers, StartSync(w)
    PROVE  IInv'
<1>1. PICK b \in Batches : batch' = [batch EXCEPT ![w] = b]
  BY DEF StartSync
<1>2. Typed /\ Writer(w)
  BY WriterFacts
<1>3. saving[w] = FALSE
  BY <1>2 DEF StartSync, Writer
<1>4. QED  BY <1>1, <1>2, <1>3, StartKeeps DEF StartSync, Typed

LEMMA StartSaveKeeps ==
    ASSUME IInv, NEW w \in Writers, StartSave(w)
    PROVE  IInv'
<1>1. PICK i \in Item : batch' = [batch EXCEPT ![w] = <<i>>]
  BY DEF StartSave
<1>2. <<i>> \in Batches /\ Len(<<i>>) = 1
  <2>1. <<i>> \in [1 .. 1 -> Item]
    OBVIOUS
  <2>2. QED  BY <2>1, MaxItemsAssumption DEF Batches
<1>3. Typed
  BY WriterFacts
<1>4. QED  BY <1>1, <1>2, <1>3, StartKeeps DEF StartSave, Typed

LEMMA ReadFirstKeeps ==
    ASSUME IInv, NEW w \in Writers, ReadFirst(w)
    PROVE  IInv'
<1>1. /\ Typed /\ Stores /\ Writer(w)
      /\ pc[w] = "next" /\ next[w] = 1
      /\ loaded' = [loaded EXCEPT ![w] = bids[batch[w][1].seq]]
      /\ pc' = [pc EXCEPT ![w] = "flush"]
      /\ UNCHANGED <<bids, raw, work, lock, saving, batch, next, edits>>
  BY WriterFacts DEF ReadFirst, Current, Goto
<1>2. batch[w] # <<>> /\ batch[w][1].seq \in Seqs
  BY <1>1, ItemsOfBatch DEF Writer
<1>3. Typed'
  BY <1>1, <1>2 DEF Typed, PCs, Tables
<1>4. \A d \in Writers \ {w} : Untouched(d)
  BY <1>1 DEF Typed, Untouched
<1>5. Stores' /\ Grown
  BY <1>1, StoresUntouched DEF Typed, IsCommitted
<1>6. /\ pc'[w] = "flush" /\ loaded'[w] = bids[batch[w][1].seq] /\ lock' # w
  BY <1>1 DEF Typed, Writer
<1>7. bids[batch[w][1].seq] # NoBid =>
         /\ bids[batch[w][1].seq].type # "none" => Synced(bids, batch[w][1].seq)
         /\ bids[batch[w][1].seq].latest => \E s \in Seqs : Synced(bids, s)
  BY <1>1, <1>2 DEF Stores, Marked, Present, Synced
<1>8. Writer(w)'
  <2>1. /\ \A s : Synced(bids, s)' <=> Synced(bids, s)
        /\ Synced(bids, batch[w][1].seq)' <=> Synced(bids, batch[w][1].seq)
    BY <1>1 DEF Synced
  <2>2. QED  BY <1>1, <1>6, <1>7, <2>1 DEF Writer, IsCommitted
<1>9. QED  BY <1>3, <1>4, <1>5, <1>8, StepOfWriter

\* What an upsert does to the lock holder's view.
LEMMA UpsertKeeps ==
    ASSUME IInv, NEW w \in Writers, NEW base \in Row \cup {NoBid},
           pc[w] \in {"flush", "next"},
           next[w] \in 1 .. Len(batch[w]), batch[w] # <<>>,
           lock = w \/ (lock = NoWriter /\ next[w] = 1), lock' = w,
           Upsert(w, base),
           UNCHANGED <<bids, raw, saving, batch, loaded, edits>>,
           base = NoBid => work.bids[Current(w).seq] = NoBid,
           base # NoBid =>
               /\ work.bids[Current(w).seq] # NoBid
               /\ base.type # "none" => Synced(work.bids, Current(w).seq)
               /\ base.latest => \E s \in Seqs : Synced(work.bids, s)
    PROVE  IInv' /\ (Serial(w) => Serial(w)')
<1>1. /\ Typed /\ Stores /\ Writer(w) /\ w # NoWriter
      /\ work.bids \in Tables /\ work.raw \in [Seqs -> Writers \cup {NoWriter}]
      /\ Len(batch[w]) \in 1 .. MaxItems /\ next[w] \in Nat
      /\ MaxItems \in Nat
      /\ \A i \in 1 .. Len(batch[w]) : /\ batch[w][i] \in Item
                                       /\ batch[w][i].seq \in Seqs
  BY WriterFacts, ItemsOfBatch, MaxItemsAssumption
<1>2. PICK item : item = batch[w][next[w]]
  OBVIOUS
<1>3. PICK new : new = UpsertInto(work.bids, base, item, saving[w])
  OBVIOUS
<1>4. PICK owners : owners = [work.raw EXCEPT ![item.seq] = w]
  OBVIOUS
<1>5. item \in Item /\ item.seq \in Seqs /\ item = Current(w) /\ saving[w] \in BOOLEAN
  BY <1>1, <1>2 DEF Current, Typed
<1>6. /\ work' = [bids |-> new, raw |-> owners]
      /\ next' = [next EXCEPT ![w] = @ + 1] /\ pc' = [pc EXCEPT ![w] = "next"]
  BY <1>3, <1>4, <1>5 DEF Upsert, Goto
<1>7. /\ new \in Tables /\ Marked(new) /\ Grows(work.bids, new)
      /\ Synced(new, item.seq)
      /\ KeepsChoices(work.bids, new, saving[w], item.seq)
      /\ AsOne(work.bids, new, {item.seq}, saving[w])
  <2>1. Marked(work.bids)
    BY <1>1 DEF Stores
  <2>2. QED  BY <2>1, <1>1, <1>3, <1>5, UpsertFacts
<1>8. owners \in [Seqs -> Writers \cup {NoWriter}]
  BY <1>1, <1>4, <1>5
<1>9. Typed'
  <2>1. next' \in [Writers -> 1 .. MaxItems + 1]
    BY <1>1, <1>6 DEF Typed
  <2>2. pc' \in [Writers -> PCs]
    BY <1>1, <1>6 DEF Typed, PCs
  <2>3. QED  BY <2>1, <2>2, <1>1, <1>6, <1>7, <1>8 DEF Typed
<1>10. work.bids = bids \/ lock = w
  BY <1>1 DEF Stores
<1>11. Grows(bids, new)
  BY <1>1, <1>7 DEF Stores, Grows
<1>12. \A d \in Writers \ {w} : Untouched(d)
  BY <1>1, <1>6, WritersAssumption DEF Typed, Untouched
<1>13. Grown
  BY DEF Grown, Grows, Synced
<1>14. Stores'
  <2>1. lock' # NoWriter
    BY <1>1
  <2>2. Marked(bids)' /\ Marked(work.bids)'
    <3>1. Marked(bids)
      BY <1>1 DEF Stores
    <3>2. Marked(bids)'
      BY <3>1 DEF Marked, Synced, Present
    <3>3. work'.bids = new
      BY <1>6
    <3>4. Marked(work.bids)'
      BY <3>3, <1>7 DEF Marked, Synced, Present
    <3>5. QED  BY <3>2, <3>4
  <2>3. Grows(bids, work.bids)'
    BY <1>6, <1>11 DEF Grows, Synced
  <2>4. \A s \in Seqs : raw[s] # NoWriter =>
           raw[s] \in Writers /\ IsCommitted(raw[s]) /\ raw[s] # w
    <3> TAKE s \in Seqs
    <3> HAVE raw[s] # NoWriter
    <3>1. raw[s] \in Writers /\ IsCommitted(raw[s])
      BY <1>1 DEF Typed, Stores
    <3>2. ~IsCommitted(w)
      BY DEF IsCommitted
    <3>3. QED  BY <3>1, <3>2
  <2>5. \A s \in Seqs :
          /\ raw[s] # NoWriter => owners[s] # NoWriter /\ IsCommitted(raw[s])'
          /\ owners[s] \in {raw[s], w}
    <3> TAKE s \in Seqs
    <3>1. work.raw[s] \in {raw[s], w}
      BY <1>1 DEF Stores
    <3>2. owners[s] \in {raw[s], w}
      BY <3>1, <1>1, <1>4
    <3>3. raw[s] # NoWriter => owners[s] # NoWriter
      BY <3>2, <1>1
    <3>4. raw[s] # NoWriter => IsCommitted(raw[s])'
      BY <2>4, <1>1, <1>6 DEF IsCommitted, Typed
    <3>5. QED  BY <3>2, <3>3, <3>4
  <2>6. work'.raw = owners /\ raw' = raw
    BY <1>6
  <2>7. QED  BY <2>1, <2>2, <2>3, <2>5, <2>6 DEF Stores
<1>15. KeepsChoices(bids, new, saving[w], batch[w][1].seq)
  <2>1. CASE lock # w
    BY <2>1, <1>2, <1>7, <1>10
  <2>2. CASE lock = w
    <3>1. next[w] > 1 /\ Len(batch[w]) > 1
      BY <2>2, <1>1 DEF Writer
    <3>2. ~saving[w]
      BY <3>1, <1>1 DEF Writer
    <3>3. KeepsChoices(bids, work.bids, FALSE, batch[w][1].seq)
      BY <2>2, <3>2, <1>1, <1>5 DEF Writer, KeepsChoices
    <3>4. Grows(bids, work.bids)
      BY <1>1 DEF Stores
    <3>5. QED  BY <3>2, <3>3, <3>4, <1>7 DEF KeepsChoices, Grows
  <2>3. QED  BY <2>1, <2>2
<1>16. Has(w, new, owners, next[w])
  <2> SUFFICES ASSUME NEW i \in 1 .. next[w]
               PROVE  /\ Synced(new, batch[w][i].seq)
                      /\ owners[batch[w][i].seq] # NoWriter
    BY DEF Has
  <2>1. i \in 1 .. Len(batch[w]) /\ batch[w][i].seq \in Seqs
    BY <1>1
  <2>2. CASE i = next[w]
    BY <2>2, <1>1, <1>2, <1>4, <1>5, <1>7
  <2>3. CASE i # next[w]
    <3>1. lock = w /\ i \in 1 .. next[w] - 1
      BY <2>3, <1>1
    <3>2. Has(w, work.bids, work.raw, next[w] - 1)
      BY <3>1, <1>1 DEF Writer
    <3>3. Synced(work.bids, batch[w][i].seq) /\ work.raw[batch[w][i].seq] # NoWriter
      BY <3>1, <3>2 DEF Has
    <3>4. QED  BY <3>3, <2>1, <1>1, <1>4, <1>7 DEF Grows
  <2>4. QED  BY <2>2, <2>3
<1>17. Writer(w)'
  <2>1. /\ pc'[w] = "next" /\ next'[w] = next[w] + 1 /\ batch'[w] = batch[w]
        /\ saving'[w] = saving[w] /\ work'.bids = new /\ work'.raw = owners
        /\ next'[w] > 1 /\ next'[w] <= Len(batch'[w]) + 1
        /\ next'[w] - 1 = next[w]
    BY <1>1, <1>6 DEF Typed
  <2>2. ~IsCommitted(w)'
    BY <2>1 DEF IsCommitted
  <2>3. Has(w, work.bids, work.raw, next[w] - 1)'
    BY <2>1, <1>16 DEF Has, Synced
  <2>4. KeepsChoices(bids, work.bids, saving[w], batch[w][1].seq)'
    BY <2>1, <1>15 DEF KeepsChoices
  <2>5. saving[w] => Len(batch[w]) <= 1
    BY <1>1 DEF Writer
  <2>6. QED  BY <2>1, <2>2, <2>3, <2>4, <2>5 DEF Writer
<1>18. ASSUME Serial(w)
       PROVE  Serial(w)'
  <2>1. PICK T : T = Items(w, next[w])
    OBVIOUS
  <2>2. AsOne(bids, new, T, saving[w])
        /\ \A s \in Seqs : owners[s] = IF s \in T THEN w ELSE raw[s]
    <3>1. CASE lock # w
      <4>1. next[w] = 1 /\ work.bids = bids /\ work.raw = raw
        BY <3>1, <1>1 DEF Stores
      <4>2. T = {item.seq}
        BY <4>1, <2>1, <1>2 DEF Items
      <4>3. QED  BY <4>1, <4>2, <1>1, <1>4, <1>5, <1>7
    <3>2. CASE lock = w
      <4>1. next[w] > 1 /\ Len(batch[w]) > 1 /\ next[w] - 1 \in Nat
        BY <3>2, <1>1 DEF Writer
      <4>2. saving[w] = FALSE
        BY <4>1, <1>1, <1>5 DEF Writer
      <4>3. PICK S : S = Items(w, next[w] - 1)
        OBVIOUS
      <4>4. T = S \cup {item.seq}
        <5>1. 1 .. next[w] = (1 .. next[w] - 1) \cup {next[w]}
          BY <1>1, <4>1
        <5>2. QED  BY <5>1, <4>3, <2>1, <1>2 DEF Items
      <4>5. S \in SUBSET Seqs /\ {item.seq} \in SUBSET Seqs
        <5>1. \A i \in 1 .. next[w] - 1 : batch[w][i].seq \in Seqs
          BY <1>1, <4>1
        <5>2. QED  BY <5>1, <4>3, <1>5 DEF Items
      <4>6. /\ AsOne(bids, work.bids, S, FALSE)
            /\ \A s \in Seqs : work.raw[s] = IF s \in S THEN w ELSE raw[s]
        BY <3>2, <4>2, <4>3, <1>18 DEF Serial
      <4>7. AsOne(bids, new, T, FALSE)
        <5>1. bids \in Tables
          BY <1>1 DEF Typed
        <5>2. AsOne(work.bids, new, {item.seq}, FALSE)
          BY <4>2, <1>7
        <5>3. QED  BY <4>4, <4>5, <4>6, <5>1, <5>2, <1>1, <1>7, AsOneNext
      <4>8. \A s \in Seqs : owners[s] = IF s \in T THEN w ELSE raw[s]
        BY <4>4, <4>6, <1>1, <1>4, <1>5
      <4>9. QED  BY <4>2, <4>7, <4>8
    <3>3. QED  BY <3>1, <3>2
  <2>3. /\ next'[w] - 1 = next[w] /\ batch'[w] = batch[w] /\ saving'[w] = saving[w]
        /\ bids' = bids /\ raw' = raw /\ work'.bids = new /\ work'.raw = owners
    BY <1>1, <1>6 DEF Typed
  <2>4. Items(w, next[w] - 1)' = T
    BY <2>1, <2>3 DEF Items
  <2>5. QED  BY <2>2, <2>3, <2>4 DEF Serial
<1>19. IInv'
  BY <1>9, <1>12, <1>13, <1>14, <1>17, StepOfWriter
<1>20. QED  BY <1>18, <1>19

LEMMA UpsertFirstKeeps ==
    ASSUME IInv, NEW w \in Writers, UpsertFirst(w)
    PROVE  IInv' /\ (Serial(w) => Serial(w)')
<1>1. Typed /\ Stores /\ Writer(w)
  BY WriterFacts
<1>2. batch[w] # <<>> /\ next[w] = 1 /\ Current(w) = batch[w][1]
  BY <1>1 DEF UpsertFirst, Writer, Current
<1>3. work.bids = bids /\ next[w] \in 1 .. Len(batch[w])
  BY <1>1, <1>2, ItemsOfBatch, MaxItemsAssumption DEF UpsertFirst, Stores
<1>4. loaded[w] \in Row \cup {NoBid}
  BY <1>1 DEF Typed
<1>5. loaded[w] # NoBid =>
          /\ bids[Current(w).seq] # NoBid
          /\ loaded[w].type # "none" => Synced(bids, Current(w).seq)
          /\ loaded[w].latest => \E s \in Seqs : Synced(bids, s)
  BY <1>1, <1>2 DEF UpsertFirst, Writer
<1>6. QED  BY <1>1, <1>2, <1>3, <1>4, <1>5, UpsertKeeps DEF UpsertFirst

LEMMA UpsertNextKeeps ==
    ASSUME IInv, NEW w \in Writers, UpsertNext(w)
    PROVE  IInv' /\ (Serial(w) => Serial(w)')
<1>1. Typed /\ Stores /\ Writer(w) /\ work.bids \in Tables /\ Len(batch[w]) \in Nat
  BY WriterFacts
<1>2. /\ pc[w] = "next" /\ lock = w /\ batch[w] # <<>>
      /\ next[w] \in 1 .. Len(batch[w])
  BY <1>1 DEF UpsertNext, Writer
<1>3. PICK base : base = work.bids[Current(w).seq]
  OBVIOUS
<1>4. Current(w).seq \in Seqs
  BY <1>1, <1>2, ItemsOfBatch DEF Current
<1>5. base \in Row \cup {NoBid}
  BY <1>1, <1>3, <1>4 DEF Tables
<1>6. base # NoBid =>
          /\ work.bids[Current(w).seq] # NoBid
          /\ base.type # "none" => Synced(work.bids, Current(w).seq)
          /\ base.latest => \E s \in Seqs : Synced(work.bids, s)
  BY <1>1, <1>3, <1>4 DEF Stores, Marked, Present, Synced
<1>7. /\ Upsert(w, base) /\ lock' = w
      /\ UNCHANGED <<bids, raw, saving, batch, loaded, edits>>
  BY <1>2, <1>3 DEF UpsertNext
<1>8. QED  BY <1>2, <1>3, <1>5, <1>6, <1>7, UpsertKeeps

\* Who commits holds the lock, since a batch has an item.
LEMMA CommitFacts ==
    ASSUME IInv, NEW w \in Writers, Commit(w)
    PROVE  /\ lock = w /\ next[w] = Len(batch[w]) + 1
           /\ Has(w, work.bids, work.raw, Len(batch[w]))
           /\ KeepsChoices(bids, work.bids, saving[w], batch[w][1].seq)
<1>1. Typed /\ Writer(w) /\ Len(batch[w]) \in Nat /\ next[w] \in Nat
  BY WriterFacts
<1>2. pc[w] = "next" /\ next[w] > Len(batch[w]) /\ batch[w] # <<>>
  BY <1>1 DEF Commit, Writer
<1>3. Len(batch[w]) >= 1
  BY <1>1, <1>2, ItemsOfBatch, MaxItemsAssumption
<1>4. next[w] = Len(batch[w]) + 1 /\ next[w] > 1
  BY <1>1, <1>2, <1>3 DEF Writer
<1>5. QED  BY <1>1, <1>2, <1>4 DEF Writer

LEMMA CommitKeeps ==
    ASSUME IInv, NEW w \in Writers, Commit(w)
    PROVE  IInv'
<1>1. /\ Typed /\ Stores /\ Writer(w) /\ w # NoWriter
      /\ work.bids \in Tables /\ work.raw \in [Seqs -> Writers \cup {NoWriter}]
      /\ lock = w /\ next[w] = Len(batch[w]) + 1
      /\ Has(w, work.bids, work.raw, Len(batch[w]))
  BY WriterFacts, CommitFacts
<1>2. /\ pc[w] = "next" /\ batch[w] # <<>>
      /\ bids' = work.bids /\ raw' = work.raw /\ lock' = NoWriter /\ work' = work
      /\ UNCHANGED <<saving, batch, next, loaded, edits>>
      /\ pc' = [pc EXCEPT ![w] = IF saving[w] THEN "reread" ELSE "done"]
  BY <1>1 DEF Commit, Goto, Writer
<1>3. pc' \in [Writers -> PCs]
  BY <1>1, <1>2 DEF Typed, PCs
<1>4. Typed'
  BY <1>1, <1>2, <1>3 DEF Typed
<1>5. \A d \in Writers \ {w} : Untouched(d)
  BY <1>1, <1>2, WritersAssumption DEF Typed, Untouched
<1>6. Grown
  BY <1>1, <1>2 DEF Grown, Stores, Grows, Synced
<1>7. Stores'
  <2>1. bids' = work'.bids /\ raw' = work'.raw
    BY <1>2
  <2>2. Marked(bids)' /\ Marked(work.bids)'
    BY <1>1, <1>2 DEF Stores, Marked, Synced, Present
  <2>3. Grows(bids, work.bids)'
    BY <2>1 DEF Grows, Synced
  <2>4. \A s \in Seqs : raw'[s] # NoWriter => IsCommitted(raw[s])'
    <3> SUFFICES ASSUME NEW s \in Seqs, raw'[s] # NoWriter
                 PROVE  IsCommitted(raw[s])'
      OBVIOUS
    <3>1. PICK d : d = work.raw[s]
      OBVIOUS
    <3>2. raw'[s] = d /\ d \in Writers
      BY <3>1, <1>1, <1>2
    <3>3. d # w => d = raw[s]
      BY <3>1, <1>1 DEF Stores
    <3>4. d # w => IsCommitted(d)
      BY <3>2, <3>3, <1>1, <1>2 DEF Stores
    <3>5. pc'[d] \in {"reread", "rewrite", "done", "halfway"}
      BY <3>2, <3>4, <1>1, <1>2 DEF IsCommitted, Typed
    <3>6. QED  BY <3>2, <3>5 DEF IsCommitted
  <2>5. QED  BY <2>1, <2>2, <2>3, <2>4 DEF Stores
<1>8. Writer(w)'
  <2>1. /\ pc'[w] = IF saving[w] THEN "reread" ELSE "done"
        /\ batch'[w] = batch[w] /\ saving'[w] = saving[w] /\ lock' # w
    BY <1>1, <1>2 DEF Typed
  <2>2. Has(w, bids, raw, Len(batch[w]))'
    BY <1>1, <1>2 DEF Has, Synced
  <2>3. saving[w] => Len(batch[w]) <= 1
    BY <1>1 DEF Writer
  <2>4. CASE saving[w]
    <3>1. pc'[w] = "reread" /\ saving'[w] /\ Len(batch'[w]) <= 1
      BY <2>4, <1>2, <2>1, <2>3
    <3>2. QED  BY <3>1, <2>1, <2>2, <1>2 DEF Writer
  <2>5. CASE ~saving[w]
    <3>1. pc'[w] = "done" /\ ~saving'[w]
      BY <2>5, <1>2, <2>1
    <3>2. QED  BY <3>1, <2>1, <2>2, <1>2 DEF Writer
  <2>6. QED  BY <2>4, <2>5
<1>9. QED  BY <1>4, <1>5, <1>6, <1>7, <1>8, StepOfWriter

LEMMA ReadAgainKeeps ==
    ASSUME IInv, NEW w \in Writers, ReadAgain(w)
    PROVE  IInv'
<1>1. /\ Typed /\ Stores /\ Writer(w) /\ pc[w] = "reread"
      /\ loaded' = [loaded EXCEPT ![w] = bids[batch[w][1].seq]]
      /\ pc' = [pc EXCEPT ![w] = "rewrite"]
      /\ UNCHANGED <<bids, raw, work, lock, saving, batch, next, edits>>
  BY WriterFacts DEF ReadAgain, Goto
<1>2. /\ batch[w] # <<>> /\ batch[w][1].seq \in Seqs /\ lock # w
      /\ Has(w, bids, raw, Len(batch[w])) /\ saving[w] /\ Len(batch[w]) <= 1
      /\ 1 \in 1 .. Len(batch[w])
  BY <1>1, ItemsOfBatch, MaxItemsAssumption DEF Writer, IsCommitted
<1>3. Typed'
  BY <1>1, <1>2 DEF Typed, PCs, Tables
<1>4. \A d \in Writers \ {w} : Untouched(d)
  BY <1>1 DEF Typed, Untouched
<1>5. Stores' /\ Grown
  BY <1>1, StoresUntouched DEF Typed, IsCommitted
<1>6. /\ pc'[w] = "rewrite" /\ loaded'[w] = bids[batch[w][1].seq]
      /\ loaded'[w] # NoBid
  BY <1>1, <1>2 DEF Typed, Has, Synced
<1>7. Has(w, bids, raw, Len(batch[w]))'
  BY <1>1, <1>2 DEF Has, Synced
<1>8. Writer(w)'
  BY <1>1, <1>2, <1>6, <1>7 DEF Writer
<1>9. QED  BY <1>3, <1>4, <1>5, <1>8, StepOfWriter

\* A transaction of its own that changes one row but neither its type nor its
\* mark.
LEMMA RowWritten ==
    ASSUME IInv, NEW seq \in Seqs, NEW row \in Row, bids[seq] # NoBid,
           row.type = bids[seq].type, row.latest = bids[seq].latest,
           lock = NoWriter, lock' = NoWriter, UNCHANGED raw,
           bids' = [bids EXCEPT ![seq] = row],
           work' = [work EXCEPT !.bids = bids'],
           \A d \in Writers : IsCommitted(d) => IsCommitted(d)'
    PROVE  /\ bids' \in Tables /\ Stores' /\ Grown
           /\ work' \in [bids : Tables, raw : [Seqs -> Writers \cup {NoWriter}]]
<1>1. /\ Typed /\ Stores /\ bids \in Tables
      /\ \A s \in Seqs : raw[s] # NoWriter => raw[s] \in Writers
  BY DEF IInv, Typed
<1>2. PICK new : new = bids'
  OBVIOUS
<1>3. new \in Tables /\ row # NoBid
  BY <1>1, <1>2, NoBidAssumption DEF Tables
<1>4. Marked(new) /\ Grows(bids, new)
  <2>1. Marked(bids)
    BY <1>1 DEF Stores
  <2>2. \A s \in Seqs : /\ bids[s] = NoBid <=> new[s] = NoBid
                        /\ bids[s] # NoBid => /\ new[s].type = bids[s].type
                                              /\ new[s].latest = bids[s].latest
    BY <1>1, <1>2, <1>3 DEF Tables
  <2>3. QED  BY <2>1, <2>2, <1>1, <1>3, SameMarks
<1>5. bids' = new /\ work'.bids = new /\ work'.raw = raw /\ raw' = raw
  BY <1>1, <1>2 DEF Typed, Stores
<1>6. Marked(bids)' /\ Marked(work.bids)'
  <2>1. Marked(bids)'
    <3>1. Present(bids)' = Present(new) /\ bids' = new
      BY <1>5 DEF Present
    <3>2. \A s : Synced(bids, s)' <=> Synced(new, s)
      BY <1>5 DEF Synced
    <3>3. QED  BY <3>1, <3>2, <1>4 DEF Marked
  <2>2. work'.bids = bids'
    BY <1>5
  <2>3. Marked(work.bids)'
    BY <2>1, <2>2 DEF Marked, Synced, Present
  <2>4. QED  BY <2>1, <2>3
<1>7. Grows(bids, work.bids)'
  BY <1>5 DEF Grows, Synced
<1>8. \A s \in Seqs : raw[s] # NoWriter => IsCommitted(raw[s])'
  BY <1>1, <1>5 DEF Stores, IsCommitted
<1>9. Stores'
  BY <1>5, <1>6, <1>7, <1>8 DEF Stores
<1>10. Grown
  BY <1>2, <1>4 DEF Grown
<1>11. work' \in [bids : Tables, raw : [Seqs -> Writers \cup {NoWriter}]]
  BY <1>1, <1>2, <1>3 DEF Typed
<1>12. QED  BY <1>2, <1>3, <1>9, <1>10, <1>11

\* The second transaction of a save.
LEMMA SaveAgainFacts ==
    ASSUME IInv, NEW w \in Writers, SaveAgain(w)
    PROVE  LET s   == batch[w][1].seq
               row == Update(bids[s], loaded[w], Favored(loaded[w]))
           IN  /\ saving[w] /\ s \in Seqs /\ bids[s] # NoBid /\ row \in Row
               /\ row.type = bids[s].type /\ row.latest = bids[s].latest
               /\ row.status # bids[s].status => row.status = "favorite"
               /\ row.favorite # bids[s].favorite => row.favorite
<1>1. PICK s : s = batch[w][1].seq
  OBVIOUS
<1>2. PICK base : base = loaded[w]
  OBVIOUS
<1>3. PICK favored : favored = Favored(base)
  OBVIOUS
<1>4. Typed /\ Writer(w) /\ pc[w] = "rewrite"
  BY WriterFacts DEF SaveAgain
<1>5. /\ saving[w] /\ batch[w] # <<>> /\ base # NoBid
      /\ Has(w, bids, raw, Len(batch[w]))
  BY <1>2, <1>4 DEF Writer, IsCommitted
<1>6. s \in Seqs /\ 1 \in 1 .. Len(batch[w])
  BY <1>1, <1>4, <1>5, ItemsOfBatch, MaxItemsAssumption
<1>7. bids[s] # NoBid /\ bids[s] \in Row /\ base \in Row
  BY <1>1, <1>2, <1>4, <1>5, <1>6 DEF Has, Synced, Typed, Tables
<1>8. /\ favored \in Row
      /\ favored.type = base.type /\ favored.latest = base.latest
      /\ favored.status \in {base.status, "favorite"}
      /\ favored.favorite = TRUE
  BY <1>3, <1>7, FavoredFacts
<1>9. PICK row : row = Update(bids[s], base, favored)
  OBVIOUS
<1>10. /\ row \in Row
       /\ row.type = bids[s].type /\ row.latest = bids[s].latest
       /\ row.status # bids[s].status => row.status = "favorite"
       /\ row.favorite # bids[s].favorite => row.favorite
  BY <1>7, <1>8, <1>9, UpdateFacts
<1>11. QED  BY <1>1, <1>2, <1>3, <1>5, <1>6, <1>7, <1>9, <1>10

LEMMA SaveAgainKeeps ==
    ASSUME IInv, NEW w \in Writers, SaveAgain(w)
    PROVE  IInv'
<1>1. PICK s : s = batch[w][1].seq
  OBVIOUS
<1>2. PICK row : row = Update(bids[s], loaded[w], Favored(loaded[w]))
  OBVIOUS
<1>3. /\ s \in Seqs /\ bids[s] # NoBid /\ row \in Row
      /\ row.type = bids[s].type /\ row.latest = bids[s].latest
  BY <1>1, <1>2, SaveAgainFacts
<1>4. /\ Typed /\ Writer(w) /\ w # NoWriter /\ pc[w] = "rewrite"
      /\ lock = NoWriter /\ lock' = NoWriter
      /\ bids' = [bids EXCEPT ![s] = row] /\ work' = [work EXCEPT !.bids = bids']
      /\ pc' = [pc EXCEPT ![w] = "done"]
      /\ UNCHANGED <<raw, saving, batch, next, loaded, edits>>
  BY <1>1, <1>2, WriterFacts DEF SaveAgain, Goto
<1>5. \A d \in Writers : IsCommitted(d) => IsCommitted(d)'
  BY <1>4 DEF Typed, IsCommitted
<1>6. /\ bids' \in Tables /\ Stores' /\ Grown
      /\ work' \in [bids : Tables, raw : [Seqs -> Writers \cup {NoWriter}]]
  BY <1>3, <1>4, <1>5, RowWritten
<1>7. Typed'
  <2>1. pc' \in [Writers -> PCs]
    BY <1>4 DEF Typed, PCs
  <2>2. QED  BY <2>1, <1>4, <1>6 DEF Typed
<1>8. \A d \in Writers \ {w} : Untouched(d)
  BY <1>4, WritersAssumption DEF Typed, Untouched
<1>9. Writer(w)'
  <2>1. pc'[w] = "done" /\ lock' # w
    BY <1>4 DEF Typed
  <2>2. /\ batch[w] # <<>> /\ Has(w, bids, raw, Len(batch[w]))
        /\ saving[w] => Len(batch[w]) <= 1
    BY <1>4 DEF Writer, IsCommitted
  <2>3. Has(w, bids, raw, Len(batch[w]))'
    <3>1. \A i \in 1 .. Len(batch[w]) : batch[w][i].seq \in Seqs
      BY <1>4, <2>2, ItemsOfBatch
    <3>2. QED  BY <3>1, <2>2, <1>4, <1>6 DEF Has, Grown, Grows, Synced
  <2>4. QED  BY <2>1, <2>2, <2>3, <1>4 DEF Writer
<1>10. QED  BY <1>6, <1>7, <1>8, <1>9, StepOfWriter

LEMMA FailsKeeps ==
    ASSUME IInv, NEW w \in Writers, Fails(w)
    PROVE  IInv'
<1>1. /\ Typed /\ Stores /\ Writer(w) /\ w # NoWriter
      /\ pc[w] \in {"next", "flush", "reread", "rewrite"}
      /\ lock' = IF lock = w THEN NoWriter ELSE lock
      /\ work' = IF lock = w THEN [bids |-> bids, raw |-> raw] ELSE work
      /\ pc' = [pc EXCEPT ![w] = IF pc[w] \in {"reread", "rewrite"}
                                 THEN "halfway" ELSE "failed"]
      /\ UNCHANGED <<bids, raw, saving, batch, next, loaded, edits>>
  BY WriterFacts DEF Fails, Rollback, Committed, Goto
<1>2. Typed'
  <2>1. pc' \in [Writers -> PCs]
    BY <1>1 DEF Typed, PCs
  <2>2. /\ work' \in [bids : Tables, raw : [Seqs -> Writers \cup {NoWriter}]]
        /\ lock' \in Writers \cup {NoWriter}
    BY <1>1 DEF Typed
  <2>3. QED  BY <2>1, <2>2, <1>1 DEF Typed
<1>3. \A d \in Writers \ {w} : Untouched(d)
  BY <1>1, WritersAssumption DEF Typed, Untouched
<1>4. Grown
  BY <1>1 DEF Grown, Grows, Synced
<1>5. Stores'
  <2>1. \A d \in Writers : IsCommitted(d) => IsCommitted(d)'
    BY <1>1 DEF Typed, IsCommitted
  <2>2. \A s \in Seqs : raw[s] # NoWriter =>
            raw[s] \in Writers /\ IsCommitted(raw[s])
    BY <1>1 DEF Typed, Stores
  <2>3. \A s \in Seqs : raw[s] # NoWriter => IsCommitted(raw[s])'
    BY <2>1, <2>2, <1>1 DEF IsCommitted
  <2>4. CASE lock = w
    <3>1. /\ lock' = NoWriter /\ work'.bids = bids /\ work'.raw = raw
          /\ bids' = bids /\ raw' = raw
      BY <2>4, <1>1
    <3>2. Marked(bids)' /\ Marked(work.bids)'
      BY <3>1, <1>1 DEF Stores, Marked, Synced, Present
    <3>3. Grows(bids, work.bids)'
      BY <3>1 DEF Grows, Synced
    <3>4. QED  BY <3>1, <3>2, <3>3, <2>3 DEF Stores
  <2>5. CASE lock # w
    <3>1. UNCHANGED <<bids, raw, work, lock>>
      BY <2>5, <1>1
    <3>2. QED  BY <3>1, <2>1, StoresUntouched
  <2>6. QED  BY <2>4, <2>5
<1>6. Writer(w)'
  <2>1. /\ pc'[w] \in {"halfway", "failed"} /\ lock' # w
        /\ pc'[w] = "halfway" => IsCommitted(w)
        /\ batch'[w] = batch[w] /\ saving'[w] = saving[w]
    BY <1>1 DEF Typed, IsCommitted
  <2>2. batch[w] # <<>> /\ (saving[w] => Len(batch[w]) <= 1)
    BY <1>1 DEF Writer
  <2>3. pc'[w] = "halfway" => Has(w, bids, raw, Len(batch[w]))'
    BY <2>1, <1>1 DEF Writer, Has, Synced
  <2>4. IsCommitted(w)' => pc'[w] = "halfway"
    BY <2>1 DEF IsCommitted
  <2>5. QED  BY <2>1, <2>2, <2>3, <2>4 DEF Writer
<1>7. QED  BY <1>2, <1>3, <1>4, <1>5, <1>6, StepOfWriter

LEMMA UserKeeps ==
    ASSUME IInv, UserStep
    PROVE  IInv'
<1>1. PICK s \in Seqs :
         \/ \E status \in Statuses : SetStatus(s, status)
         \/ \E favorite \in BOOLEAN : SetFavorite(s, favorite)
  BY DEF UserStep
<1>2. Typed /\ bids[s] # NoBid /\ bids[s] \in Row
  BY <1>1, NoBidAssumption DEF IInv, Typed, Tables, SetStatus, SetFavorite
<1>3. PICK row : /\ row \in Row /\ UserChange(s, row)
                 /\ row.type = bids[s].type /\ row.latest = bids[s].latest
  <2>1. CASE \E status \in Statuses : SetStatus(s, status)
    BY <2>1, <1>2 DEF SetStatus, Row
  <2>2. CASE \E favorite \in BOOLEAN : SetFavorite(s, favorite)
    BY <2>2, <1>2 DEF SetFavorite, Row
  <2>3. QED  BY <1>1, <2>1, <2>2
<1>4. /\ edits < MaxEdits /\ edits' = edits + 1
      /\ lock = NoWriter /\ lock' = NoWriter
      /\ bids' = [bids EXCEPT ![s] = row] /\ work' = [work EXCEPT !.bids = bids']
      /\ UNCHANGED <<raw, pc, saving, batch, next, loaded>>
  BY <1>3 DEF UserChange
<1>5. \A d \in Writers : IsCommitted(d) => IsCommitted(d)'
  BY <1>4 DEF IsCommitted
<1>6. /\ bids' \in Tables /\ Stores' /\ Grown
      /\ work' \in [bids : Tables, raw : [Seqs -> Writers \cup {NoWriter}]]
  BY <1>2, <1>3, <1>4, <1>5, RowWritten
<1>7. Typed'
  <2>1. edits' \in 0 .. MaxEdits
    BY <1>2, <1>4, MaxItemsAssumption DEF Typed
  <2>2. QED  BY <2>1, <1>2, <1>4, <1>6 DEF Typed
<1>8. \A d \in Writers : Untouched(d)
  BY <1>4, WritersAssumption DEF Untouched
<1>9. \A d \in Writers : Writer(d)'
  BY <1>2, <1>6, <1>8, UntouchedWriter DEF IInv
<1>10. QED  BY <1>6, <1>7, <1>9 DEF IInv

-----------------------------------------------------------------------------
(* The theorems.                                                           *)

LEMMA NextKeeps == IInv /\ [Next]_vars => IInv'
<1> SUFFICES ASSUME IInv, [Next]_vars PROVE IInv'  OBVIOUS
<1>1. CASE UNCHANGED vars
  <2>1. UNCHANGED <<bids, raw, work, lock, pc, saving, batch, next, loaded, edits>>
    BY <1>1 DEF vars
  <2>2. Stores' /\ Grown
    BY <2>1, StoresUntouched DEF IsCommitted
  <2>3. Typed'
    BY <2>1 DEF IInv, Typed
  <2>4. \A w \in Writers : Writer(w)'
    BY <2>1, <2>2, UntouchedWriter DEF IInv, Untouched
  <2>5. QED  BY <2>2, <2>3, <2>4 DEF IInv
<1>2. CASE UserStep
  BY <1>2, UserKeeps
<1>3. ASSUME NEW w \in Writers, SyncStep(w) \/ SaveStep(w)
      PROVE  IInv'
  <2>1. CASE StartSync(w)    BY <2>1, StartSyncKeeps
  <2>2. CASE StartSave(w)    BY <2>2, StartSaveKeeps
  <2>3. CASE ReadFirst(w)    BY <2>3, ReadFirstKeeps
  <2>4. CASE UpsertFirst(w)  BY <2>4, UpsertFirstKeeps
  <2>5. CASE UpsertNext(w)   BY <2>5, UpsertNextKeeps
  <2>6. CASE Commit(w)       BY <2>6, CommitKeeps
  <2>7. CASE ReadAgain(w)    BY <2>7, ReadAgainKeeps
  <2>8. CASE SaveAgain(w)    BY <2>8, SaveAgainKeeps
  <2>9. CASE Fails(w)        BY <2>9, FailsKeeps
  <2>10. QED
    BY <1>3, <2>1, <2>2, <2>3, <2>4, <2>5, <2>6, <2>7, <2>8, <2>9
    DEF SyncStep, SaveStep
<1>4. QED  BY <1>1, <1>2, <1>3 DEF Next

\* The inductive invariant: of the committed rows and the lock holder's, and
\* of the object every writer has read.
THEOREM Invariance == Spec => []IInv
<1>1. Init => IInv
  BY InitIInv
<1>2. IInv /\ [Next]_vars => IInv'
  BY NextKeeps
<1>3. QED  BY <1>1, <1>2, PTL DEF Spec

\* Every variable has its type.
THEOREM TypeCorrect == Spec => []TypeOK
<1>1. IInv => TypeOK
  BY DEF IInv, Typed, Tables, TypeOK
<1>2. QED  BY <1>1, Invariance, PTL

\* Whatever syncs and saves overlap, the newest stored version and no other is
\* marked as the latest once one was synced.
THEOREM LatestVersion == Spec => []OneLatestVersion
<1>1. IInv => OneLatestVersion
  <2> SUFFICES ASSUME IInv, NEW s \in Present(bids), bids[s].type # "none"
               PROVE  \A q \in Present(bids) :
                         bids[q].latest = (q = Newest(Present(bids)))
    BY DEF OneLatestVersion
  <2>1. Marked(bids)
    BY DEF IInv, Stores
  <2>2. s \in Seqs /\ Synced(bids, s)
    BY DEF Present, Synced
  <2>3. QED  BY <2>1, <2>2 DEF Marked
<1>2. QED  BY <1>1, Invariance, PTL

\* The table holds what committed writers brought, and all of it.
THEOREM Completeness == Spec => []AllOrNothing
<1>1. IInv => AllOrNothing
  <2> SUFFICES ASSUME IInv PROVE AllOrNothing  OBVIOUS
  <2>1. Typed /\ Stores
    BY DEF IInv
  <2>2. \A s \in Seqs : raw[s] # NoWriter => raw[s] \in Writers /\ IsCommitted(raw[s])
    BY <2>1 DEF Typed, Stores
  <2>3. \A w \in Writers : IsCommitted(w) => Has(w, bids, raw, Len(batch[w]))
    BY DEF IInv, Writer
  <2>4. QED  BY <2>2, <2>3 DEF AllOrNothing, IsCommitted, Has, Synced
<1>2. QED  BY <1>1, Invariance, PTL

\* The two steps that write the committed rows, as users see them.
LEMMA WriterKeepsChoices ==
    ASSUME IInv, NEW w \in Writers, SyncStep(w) \/ SaveStep(w)
    PROVE  KeepsChoices(bids, bids', saving[w], batch[w][1].seq)
<1>1. CASE Commit(w)
  <2>1. KeepsChoices(bids, work.bids, saving[w], batch[w][1].seq)
    BY <1>1, CommitFacts
  <2>2. bids' = work.bids
    BY <1>1 DEF Commit
  <2>3. QED  BY <2>1, <2>2
<1>2. CASE SaveAgain(w)
  <2>1. PICK s : s = batch[w][1].seq
    OBVIOUS
  <2>2. PICK row : row = Update(bids[s], loaded[w], Favored(loaded[w]))
    OBVIOUS
  <2>3. /\ saving[w] /\ s \in Seqs
        /\ row.status # bids[s].status => row.status = "favorite"
        /\ row.favorite # bids[s].favorite => row.favorite
    BY <1>2, <2>1, <2>2, SaveAgainFacts
  <2>4. bids' = [bids EXCEPT ![s] = row] /\ bids \in Tables
    BY <1>2, <2>1, <2>2 DEF SaveAgain, IInv, Typed
  <2>5. QED  BY <2>1, <2>3, <2>4 DEF KeepsChoices, Tables
<1>3. CASE ~Commit(w) /\ ~SaveAgain(w)
  <2>1. bids' = bids
    BY <1>3 DEF SyncStep, SaveStep, StartSync, StartSave, ReadFirst, UpsertFirst,
                UpsertNext, ReadAgain, Fails, Rollback
  <2>2. QED  BY <2>1 DEF KeepsChoices
<1>4. QED  BY <1>1, <1>2, <1>3

\* No sync takes back a user's status or favorite, not even one made after it
\* read the row; a favorite save only adds its own.
THEOREM UserChoicesKept == Spec => SyncsKeepUserChoices
<1> DEFINE Keeps ==
      \A w \in Writers : \A s \in Seqs :
          /\ SyncStep(w) \/ SaveStep(w)
          /\ bids[s] # NoBid
          => LET saved == saving[w] /\ s = batch[w][1].seq IN
             /\ bids'[s].status # bids[s].status
                => saved /\ bids'[s].status = "favorite"
             /\ bids'[s].favorite # bids[s].favorite
                => saved /\ bids'[s].favorite
<1>1. IInv /\ [Next]_vars => [Keeps]_vars
  <2> SUFFICES ASSUME IInv PROVE Keeps  OBVIOUS
  <2>1. \A w \in Writers : SyncStep(w) \/ SaveStep(w) =>
           KeepsChoices(bids, bids', saving[w], batch[w][1].seq)
    BY WriterKeepsChoices
  <2>2. QED  BY <2>1 DEF KeepsChoices
<1>2. QED  BY <1>1, Invariance, PTL DEF Spec, SyncsKeepUserChoices

-----------------------------------------------------------------------------
(* BidVersions implements NoticeVersions.                                  *)

\* No other step than an upsert of its own touches what a lock holder sees.
LEMMA SerialKeeps ==
    ASSUME IInv, [Next]_vars, NEW w \in Writers, Serial(w)
    PROVE  Serial(w)'
<1>1. /\ Typed /\ Stores /\ Writer(w) /\ w # NoWriter
      /\ \A d \in Writers : Writer(d) /\ d # NoWriter
  BY WritersAssumption DEF IInv
<1>2. CASE UpsertFirst(w) \/ UpsertNext(w)
  BY <1>2, UpsertFirstKeeps, UpsertNextKeeps
<1>3. CASE ~(UpsertFirst(w) \/ UpsertNext(w))
  <2> SUFFICES ASSUME lock' = w PROVE Serial(w)'
    BY DEF Serial
  <2>1. /\ lock = w
        /\ bids' = bids /\ raw' = raw /\ work' = work
        /\ next'[w] = next[w] /\ batch'[w] = batch[w] /\ saving'[w] = saving[w]
    <3>1. CASE UNCHANGED vars
      BY <3>1 DEF vars
    <3>2. CASE UserStep
      BY <3>2, <1>1 DEF UserStep, SetStatus, SetFavorite, UserChange
    <3>3. ASSUME NEW d \in Writers, SyncStep(d) \/ SaveStep(d)
          PROVE  /\ lock = w
                 /\ bids' = bids /\ raw' = raw /\ work' = work
                 /\ next'[w] = next[w] /\ batch'[w] = batch[w]
                 /\ saving'[w] = saving[w]
      <4>1. lock = d <=> pc[d] = "next" /\ next[d] > 1
        BY <1>1 DEF Writer
      <4>2. CASE StartSync(d) \/ StartSave(d)
        <5>1. lock = w /\ lock # d
          BY <4>1, <4>2 DEF StartSync, StartSave
        <5>2. QED  BY <4>2, <5>1, <1>1 DEF StartSync, StartSave, Typed
      <4>3. CASE ReadFirst(d) \/ ReadAgain(d)
        BY <4>3 DEF ReadFirst, ReadAgain
      <4>4. CASE UpsertFirst(d)
        BY <4>4, <1>3 DEF UpsertFirst
      <4>5. CASE UpsertNext(d)
        <5>1. lock' = lock /\ lock = d
          BY <4>1, <4>5, <1>1 DEF UpsertNext, Writer
        <5>2. QED  BY <4>5, <5>1, <1>3
      <4>6. CASE Commit(d) \/ SaveAgain(d)
        BY <4>6, <1>1 DEF Commit, SaveAgain
      <4>7. CASE Fails(d)
        BY <4>7, <1>1 DEF Fails, Rollback
      <4>8. QED
        BY <3>3, <4>2, <4>3, <4>4, <4>5, <4>6, <4>7 DEF SyncStep, SaveStep
    <3>4. QED  BY <3>1, <3>2, <3>3 DEF Next
  <2>2. Items(w, next[w] - 1)' = Items(w, next[w] - 1)
    BY <2>1 DEF Items
  <2>3. QED  BY <2>1, <2>2 DEF Serial
<1>4. QED  BY <1>2, <1>3

\* The rows that a reader sees after versions were brought at once.
LEMMA BroughtRows ==
    ASSUME bids \in Tables, NEW T \in SUBSET Seqs
    PROVE  LET all == Present(bids) \cup T IN
           Promise!Brought(T) =
              [s \in all |-> [synced   |-> s \in T \/ Synced(bids, s),
                              latest   |-> s = Newest(all),
                              status   |-> Before(bids, s).status,
                              favorite |-> Before(bids, s).favorite]]
<1>1. PICK all : all = Present(bids) \cup T
  OBVIOUS
<1>2. DOMAIN Shown = Present(bids) /\ \A s \in Present(bids) : Shown[s] = Seen(bids[s])
  BY DEF Shown
<1>3. DOMAIN Shown \cup T = all /\ Promise!Newest(DOMAIN Shown \cup T) = Newest(all)
  BY <1>1, <1>2 DEF Promise!Newest, Newest
<1>4. Promise!Collected = Seen(BlankRow)
  BY DEF Promise!Collected, Seen, BlankRow
<1> DEFINE old(s) == IF s \in DOMAIN Shown THEN Shown[s] ELSE Promise!Collected
           row(s) == [old(s) EXCEPT !.synced = @ \/ s \in T,
                              !.latest = (s = Promise!Newest(DOMAIN Shown \cup T))]
           now(s) == [synced   |-> s \in T \/ Synced(bids, s),
                      latest   |-> s = Newest(all),
                      status   |-> Before(bids, s).status,
                      favorite |-> Before(bids, s).favorite]
<1>5. ASSUME NEW s \in all
      PROVE  row(s) = now(s)
  <2>1. old(s) = Seen(Before(bids, s))
    <3>1. CASE s \in Present(bids)
      <4>1. Before(bids, s) = bids[s]
        BY <3>1 DEF Before, Present
      <4>2. old(s) = Seen(bids[s])
        BY <3>1, <1>2
      <4>3. QED  BY <4>1, <4>2
    <3>2. CASE s \notin Present(bids)
      <4>1. Before(bids, s) = BlankRow
        BY <3>2, <1>1 DEF Before, Present
      <4>2. old(s) = Promise!Collected
        BY <3>2, <1>2
      <4>3. QED  BY <4>1, <4>2, <1>4
    <3>3. QED  BY <3>1, <3>2
  <2>2. PICK was : was = Before(bids, s)
    OBVIOUS
  <2>3. old(s) = [synced |-> was.type # "none", latest |-> was.latest,
                  status |-> was.status, favorite |-> was.favorite]
    BY <2>1, <2>2 DEF Seen
  <2>4. (was.type # "none") <=> Synced(bids, s)
    BY <2>2 DEF Before, Synced, BlankRow
  <2>5. row(s) = [synced |-> (was.type # "none") \/ s \in T, latest |-> s = Newest(all),
                  status |-> was.status, favorite |-> was.favorite]
    <3>1. PICK r : r = old(s)
      OBVIOUS
    <3>2. PICK newest : newest = (s = Newest(all))
      OBVIOUS
    <3> HIDE DEF old
    <3>3. row(s) = [r EXCEPT !.synced = @ \/ s \in T, !.latest = newest]
      BY <3>1, <3>2, <1>3
    <3>4. r = [synced |-> was.type # "none", latest |-> was.latest,
               status |-> was.status, favorite |-> was.favorite]
      BY <2>3, <3>1
    <3>5. PICK synced : synced = ((was.type # "none") \/ s \in T)
      OBVIOUS
    <3>6. PICK mid : mid = [r EXCEPT !.synced = synced]
      OBVIOUS
    <3> HIDE DEF row
    <3>7. r.synced = (was.type # "none")
      BY <3>4
    <3>8. row(s) = [r EXCEPT !.synced = synced, !.latest = newest]
      BY <3>3, <3>5, <3>7
    <3>9. [r EXCEPT !.synced = synced, !.latest = newest]
            = [mid EXCEPT !.latest = newest]
      BY <3>6
    <3>10. mid = [synced |-> synced, latest |-> was.latest,
                  status |-> was.status, favorite |-> was.favorite]
      BY <3>4, <3>6
    <3>11. [mid EXCEPT !.latest = newest]
             = [synced |-> synced, latest |-> newest,
                status |-> was.status, favorite |-> was.favorite]
      BY <3>10
    <3>12. QED  BY <3>2, <3>5, <3>8, <3>9, <3>11
  <2>6. ((was.type # "none") \/ s \in T) = (s \in T \/ Synced(bids, s))
    BY <2>4
  <2>7. QED  BY <2>2, <2>5, <2>6
<1>6. Promise!Brought(T) = [s \in DOMAIN Shown \cup T |-> row(s)]
  BY DEF Promise!Brought
<1> HIDE DEF row
<1>7. [s \in all |-> row(s)] = [s \in all |-> now(s)]
  BY <1>5
<1>8. QED  BY <1>1, <1>3, <1>6, <1>7

LEMMA ShownBrought ==
    ASSUME bids \in Tables, NEW T \in SUBSET Seqs, AsOne(bids, bids', T, FALSE)
    PROVE  Shown' = Promise!Brought(T)
<1>1. PICK all : all = Present(bids) \cup T
  OBVIOUS
<1> DEFINE now(s) == [synced   |-> s \in T \/ Synced(bids, s),
                      latest   |-> s = Newest(all),
                      status   |-> Before(bids, s).status,
                      favorite |-> Before(bids, s).favorite]
<1>2. Promise!Brought(T) = [s \in all |-> now(s)]
  BY <1>1, BroughtRows
<1>3. Present(bids') = all /\ Shown' = [s \in all |-> Seen(bids'[s])]
  BY <1>1 DEF AsOne, Shown
<1>4. ASSUME NEW s \in all
      PROVE  Seen(bids'[s]) = now(s)
  <2>1. /\ (bids'[s].type # "none") = (s \in T \/ Synced(bids, s))
        /\ bids'[s].latest = (s = Newest(all))
        /\ bids'[s].status = Before(bids, s).status
        /\ bids'[s].favorite = Before(bids, s).favorite
    BY <1>1, <1>3 DEF AsOne, Synced, Present
  <2>2. QED  BY <2>1 DEF Seen
<1> HIDE DEF now
<1>5. QED  BY <1>2, <1>3, <1>4

\* The same of a save, which chooses the version it brings.
LEMMA ShownSaved ==
    ASSUME bids \in Tables, NEW q \in Seqs, AsOne(bids, bids', {q}, TRUE)
    PROVE  Shown' = [Promise!Brought({q}) EXCEPT ![q] = Promise!Favored(@)]
<1>1. PICK all : all = Present(bids) \cup {q}
  OBVIOUS
<1> DEFINE now(s) == [synced   |-> s \in {q} \/ Synced(bids, s),
                      latest   |-> s = Newest(all),
                      status   |-> Before(bids, s).status,
                      favorite |-> Before(bids, s).favorite]
<1>2. Promise!Brought({q}) = [s \in all |-> now(s)]
  <2>1. PICK T \in SUBSET Seqs : T = {q}
    OBVIOUS
  <2>2. all = Present(bids) \cup T
    BY <1>1, <2>1
  <2>3. Promise!Brought(T) =
          [s \in all |-> [synced   |-> s \in T \/ Synced(bids, s),
                          latest   |-> s = Newest(all),
                          status   |-> Before(bids, s).status,
                          favorite |-> Before(bids, s).favorite]]
    BY <2>2, BroughtRows
  <2>4. QED  BY <2>1, <2>3
<1>3. Present(bids') = all /\ Shown' = [s \in all |-> Seen(bids'[s])]
  BY <1>1 DEF AsOne, Shown
<1>4. ASSUME NEW s \in all
      PROVE  /\ (bids'[s].type # "none") = (s \in {q} \/ Synced(bids, s))
             /\ bids'[s].latest = (s = Newest(all))
             /\ bids'[s].status = IF s = q THEN Chosen(Before(bids, s))
                                  ELSE Before(bids, s).status
             /\ bids'[s].favorite = IF s = q THEN TRUE ELSE Before(bids, s).favorite
  BY <1>1, <1>3 DEF AsOne, Synced, Present
<1>5. ASSUME NEW s \in all, s # q
      PROVE  Seen(bids'[s]) = now(s)
  BY <1>4, <1>5 DEF Seen
<1>6. Seen(bids'[q]) = Promise!Favored(now(q))
  <2>1. PICK was : was = Before(bids, q)
    OBVIOUS
  <2>2. PICK synced : synced = (q \in {q} \/ Synced(bids, q))
    OBVIOUS
  <2>3. PICK latest : latest = (q = Newest(all))
    OBVIOUS
  <2>4. Seen(bids'[q]) = [synced |-> synced, latest |-> latest,
                          status |-> Chosen(was), favorite |-> TRUE]
    BY <1>1, <1>4, <2>1, <2>2, <2>3 DEF Seen
  <2>5. now(q) = [synced |-> synced, latest |-> latest,
                  status |-> was.status, favorite |-> was.favorite]
    BY <2>1, <2>2, <2>3
  <2> HIDE DEF now
  <2>6. Promise!Favored(now(q)) = [synced |-> synced, latest |-> latest,
                          status |-> Chosen(was), favorite |-> TRUE]
    <3>1. PICK row : row = now(q)
      OBVIOUS
    <3>2. row = [synced |-> synced, latest |-> latest,
                 status |-> was.status, favorite |-> was.favorite]
      BY <2>5, <3>1
    <3>3. PICK chosen : chosen = Chosen(was)
      OBVIOUS
    <3>4. row.status = was.status
      BY <3>2
    <3>5. Promise!Favored(row) = [row EXCEPT !.status = chosen, !.favorite = TRUE]
      BY <3>3, <3>4 DEF Promise!Favored, Chosen
    <3>6. PICK marked : marked = [row EXCEPT !.status = chosen]
      OBVIOUS
    <3>7. marked = [synced |-> synced, latest |-> latest,
                    status |-> chosen, favorite |-> was.favorite]
      BY <3>2, <3>6
    <3>8. [row EXCEPT !.status = chosen, !.favorite = TRUE]
            = [marked EXCEPT !.favorite = TRUE]
      BY <3>6
    <3>9. [marked EXCEPT !.favorite = TRUE]
            = [synced |-> synced, latest |-> latest,
               status |-> chosen, favorite |-> TRUE]
      <4>1. PICK favorite : favorite = TRUE
        OBVIOUS
      <4>2. [marked EXCEPT !.favorite = favorite]
              = [synced |-> synced, latest |-> latest,
                 status |-> chosen, favorite |-> favorite]
        BY <3>7
      <4>3. QED  BY <4>1, <4>2
    <3>10. QED  BY <3>1, <3>3, <3>5, <3>8, <3>9
  <2>7. QED  BY <2>4, <2>6
<1> HIDE DEF now
<1>7. q \in all
  BY <1>1
<1>8. [Promise!Brought({q}) EXCEPT ![q] = Promise!Favored(@)]
        = [s \in all |-> IF s = q THEN Promise!Favored(now(q)) ELSE now(s)]
  BY <1>2, <1>7
<1>9. \A s \in all : Seen(bids'[s]) = IF s = q THEN Promise!Favored(now(q)) ELSE now(s)
  BY <1>5, <1>6
<1>10. QED  BY <1>3, <1>8, <1>9

\* The rows that a reader sees after users' columns of one row were written.
LEMMA ShownRow ==
    ASSUME bids \in Tables, NEW q \in Seqs, bids[q] # NoBid, NEW row \in Row,
           row.type = bids[q].type, row.latest = bids[q].latest,
           bids' = [bids EXCEPT ![q] = row]
    PROVE  /\ q \in DOMAIN Shown
           /\ Shown[q].status = bids[q].status /\ Shown[q].favorite = bids[q].favorite
           /\ Shown' = [Shown EXCEPT ![q].status = row.status, ![q].favorite = row.favorite]
           /\ row.favorite = bids[q].favorite =>
                 Shown' = [Shown EXCEPT ![q].status = row.status]
           /\ row.status = bids[q].status =>
                 Shown' = [Shown EXCEPT ![q].favorite = row.favorite]
<1>1. PICK S : S = Present(bids)
  OBVIOUS
<1>2. q \in S /\ row # NoBid
  BY <1>1, NoBidAssumption DEF Present
<1>3. bids'[q] = row /\ \A s \in S \ {q} : bids'[s] = bids[s]
  BY <1>1 DEF Tables, Present
<1>4. Present(bids') = S
  BY <1>1, <1>2 DEF Present, Tables
<1>5. PICK old : old = Shown[q]
  OBVIOUS
<1>6. PICK synced : synced = (row.type # "none")
  OBVIOUS
<1>7. Shown = [s \in S |-> Seen(bids[s])] /\ Shown' = [s \in S |-> Seen(bids'[s])]
  BY <1>1, <1>4 DEF Shown
<1>8. old = [synced |-> synced, latest |-> row.latest,
             status |-> bids[q].status, favorite |-> bids[q].favorite]
  BY <1>2, <1>5, <1>6, <1>7 DEF Seen
<1>9. Seen(row) = [synced |-> synced, latest |-> row.latest,
                   status |-> row.status, favorite |-> row.favorite]
  BY <1>6 DEF Seen
<1>10. Shown' = [Shown EXCEPT ![q] = Seen(row)]
  BY <1>2, <1>3, <1>7
<1>11. PICK mid : mid = [old EXCEPT !.status = row.status]
  OBVIOUS
<1>12. mid = [synced |-> synced, latest |-> row.latest,
              status |-> row.status, favorite |-> bids[q].favorite]
  BY <1>8, <1>11
<1>13. [mid EXCEPT !.favorite = row.favorite] = Seen(row)
  BY <1>9, <1>12
<1>14. [old EXCEPT !.favorite = row.favorite]
         = [synced |-> synced, latest |-> row.latest,
            status |-> bids[q].status, favorite |-> row.favorite]
  BY <1>8
<1>15. q \in DOMAIN Shown
  BY <1>2, <1>7
<1>16. [Shown EXCEPT ![q].status = row.status, ![q].favorite = row.favorite]
         = [Shown EXCEPT ![q] = [[old EXCEPT !.status = row.status]
                                    EXCEPT !.favorite = row.favorite]]
  BY <1>5, <1>7, <1>15
<1>17. Shown' = [Shown EXCEPT ![q].status = row.status, ![q].favorite = row.favorite]
  BY <1>10, <1>11, <1>13, <1>16
<1>18. row.favorite = bids[q].favorite =>
          Shown' = [Shown EXCEPT ![q].status = row.status]
  <2>1. [Shown EXCEPT ![q].status = row.status] = [Shown EXCEPT ![q] = mid]
    BY <1>5, <1>11, <1>15
  <2>2. QED  BY <2>1, <1>9, <1>10, <1>12
<1>19. row.status = bids[q].status =>
          Shown' = [Shown EXCEPT ![q].favorite = row.favorite]
  <2>1. [Shown EXCEPT ![q].favorite = row.favorite]
          = [Shown EXCEPT ![q] = [old EXCEPT !.favorite = row.favorite]]
    BY <1>5, <1>15
  <2>2. QED  BY <2>1, <1>9, <1>10, <1>14
<1>20. old.status = bids[q].status /\ old.favorite = bids[q].favorite
  BY <1>8
<1>21. QED  BY <1>5, <1>15, <1>17, <1>18, <1>19, <1>20

\* What a step of w does to the writers that others see.
LEMMA WritersShown ==
    ASSUME Typed, NEW w \in Writers, NEW where \in PCs,
           pc' = [pc EXCEPT ![w] = where], UNCHANGED batch
    PROVE  /\ Stored' = IF IsCommitted(w)' THEN Stored \cup {w} ELSE Stored \ {w}
           /\ where \in {"reread", "rewrite"} =>
                 Saves' = [Saves EXCEPT ![w] = batch[w][1].seq]
           /\ where \notin {"reread", "rewrite"} =>
                 Saves' = [Saves EXCEPT ![w] = NoSeq]
<1>1. pc'[w] = where /\ \A d \in Writers \ {w} : pc'[d] = pc[d]
  BY DEF Typed
<1>2. Stored' = IF IsCommitted(w)' THEN Stored \cup {w} ELSE Stored \ {w}
  BY <1>1 DEF Stored, IsCommitted
<1>3. where \in {"reread", "rewrite"} =>
         Saves' = [Saves EXCEPT ![w] = batch[w][1].seq]
  BY <1>1 DEF Saves
<1>4. where \notin {"reread", "rewrite"} =>
         Saves' = [Saves EXCEPT ![w] = NoSeq]
  BY <1>1 DEF Saves
<1>5. QED  BY <1>2, <1>3, <1>4

LEMMA InitShown == Init => Promise!Init
<1> SUFFICES ASSUME Init PROVE Promise!Init  OBVIOUS
<1>1. PICK old \in SUBSET Legacy :
         bids = [s \in Seqs |-> IF s \in old THEN BlankRow ELSE NoBid]
  BY DEF Init
<1>2. old \subseteq Seqs /\ BlankRow # NoBid
  BY LegacyAssumption, BlankRowFacts, NoBidAssumption
<1>3. Present(bids) = old /\ \A s \in old : bids[s] = BlankRow
  BY <1>1, <1>2 DEF Present
<1>4. Promise!Collected = Seen(BlankRow)
  BY DEF Promise!Collected, Seen, BlankRow
<1>5. Shown = [s \in old |-> Promise!Collected]
  BY <1>3, <1>4 DEF Shown
<1>6. raw = [s \in Seqs |-> NoWriter] /\ Stored = {} /\ Saves = [w \in Writers |-> NoSeq]
  BY DEF Init, Stored, Saves
<1>7. QED  BY <1>5, <1>6 DEF Promise!Init

\* The commit of a sync, and of a save's first transaction.
LEMMA CommitShown ==
    ASSUME IInv, IInv', NEW w \in Writers, Serial(w), Commit(w)
    PROVE  Promise!Next
<1>1. /\ Typed /\ Stores /\ Writer(w) /\ lock = w /\ next[w] - 1 = Len(batch[w])
      /\ bids \in Tables
  BY WriterFacts, CommitFacts DEF Typed
<1>2. /\ bids' = work.bids /\ raw' = work.raw /\ batch' = batch /\ pc[w] = "next"
      /\ pc' = [pc EXCEPT ![w] = IF saving[w] THEN "reread" ELSE "done"]
      /\ saving[w] \in BOOLEAN
  BY <1>1 DEF Commit, Goto, Typed
<1>3. PICK T : T = Items(w, Len(batch[w]))
  OBVIOUS
<1>4. /\ batch[w] # <<>> /\ Len(batch[w]) \in 1 .. MaxItems
      /\ \A i \in 1 .. Len(batch[w]) : batch[w][i].seq \in Seqs
  BY <1>1, <1>2, ItemsOfBatch DEF Writer
<1>5. T \in (SUBSET Seqs) \ {{}}
  <2>1. batch[w][1].seq \in T
    BY <1>3, <1>4, MaxItemsAssumption DEF Items
  <2>2. QED  BY <2>1, <1>3, <1>4 DEF Items
<1>6. /\ AsOne(bids, bids', T, saving[w])
      /\ \A s \in Seqs : raw'[s] = IF s \in T THEN w ELSE raw[s]
  BY <1>1, <1>2, <1>3 DEF Serial
<1>7. raw' = [s \in Seqs |-> IF s \in T THEN w ELSE raw[s]]
  <2>1. raw' \in [Seqs -> Writers \cup {NoWriter}]
    BY DEF IInv, Typed
  <2>2. QED  BY <2>1, <1>6
<1>8. w \notin Stored
  BY <1>2 DEF Stored
<1>9. CASE saving[w]
  <2>1. PICK q : q = batch[w][1].seq
    OBVIOUS
  <2>2. T = {q} /\ q \in Seqs
    <3>1. Len(batch[w]) = 1
      <4>1. PICK n : n = Len(batch[w])
        OBVIOUS
      <4>2. n <= 1
        BY <4>1, <1>1, <1>9 DEF Writer
      <4>3. n \in 1 .. MaxItems
        BY <4>1, <1>4
      <4>4. n = 1
        BY <4>2, <4>3, MaxItemsAssumption
      <4>5. QED  BY <4>1, <4>4
    <3>2. QED  BY <3>1, <2>1, <1>3, <1>4 DEF Items
  <2>3. pc' = [pc EXCEPT ![w] = "reread"] /\ "reread" \in PCs
    BY <1>2, <1>9 DEF PCs
  <2>4. /\ Stored' = IF IsCommitted(w)' THEN Stored \cup {w} ELSE Stored \ {w}
        /\ Saves' = [Saves EXCEPT ![w] = q]
    BY <2>1, <2>3, <1>1, <1>2, WritersShown
  <2>5. IsCommitted(w)'
    BY <2>3, <1>1 DEF IsCommitted, Typed
  <2>6. AsOne(bids, bids', {q}, TRUE)
    BY <2>2, <1>2, <1>6, <1>9
  <2>7. Shown' = [Promise!Brought({q}) EXCEPT ![q] = Promise!Favored(@)]
    BY <2>2, <2>6, <1>1, ShownSaved
  <2>8. Promise!Save(w, q)
    BY <2>2, <2>4, <2>5, <2>7, <1>7, <1>8 DEF Promise!Save, Promise!Store
  <2>9. QED  BY <2>2, <2>8 DEF Promise!Next
<1>10. CASE ~saving[w]
  <2>1. pc' = [pc EXCEPT ![w] = "done"] /\ "done" \in PCs
    BY <1>2, <1>10 DEF PCs
  <2>2. /\ Stored' = IF IsCommitted(w)' THEN Stored \cup {w} ELSE Stored \ {w}
        /\ Saves' = [Saves EXCEPT ![w] = NoSeq]
    BY <2>1, <1>1, <1>2, WritersShown
  <2>3. IsCommitted(w)'
    BY <2>1, <1>1 DEF IsCommitted, Typed
  <2>4. Saves' = Saves
    BY <2>2, <1>2 DEF Saves
  <2>5. Shown' = Promise!Brought(T)
    <3>1. AsOne(bids, bids', T, FALSE)
      BY <1>2, <1>6, <1>10
    <3>2. QED  BY <3>1, <1>1, <1>5, ShownBrought
  <2>6. Promise!Sync(w, T)
    BY <2>2, <2>3, <2>4, <2>5, <1>7, <1>8 DEF Promise!Sync, Promise!Store
  <2>7. QED  BY <2>6, <1>5 DEF Promise!Next
<1>11. QED  BY <1>9, <1>10

\* The second transaction of a save.
LEMMA SaveAgainShown ==
    ASSUME IInv, NEW w \in Writers, SaveAgain(w)
    PROVE  Promise!Next
<1>1. PICK q : q = batch[w][1].seq
  OBVIOUS
<1>2. PICK row : row = Update(bids[q], loaded[w], Favored(loaded[w]))
  OBVIOUS
<1>3. /\ q \in Seqs /\ bids[q] # NoBid /\ row \in Row
      /\ row.type = bids[q].type /\ row.latest = bids[q].latest
      /\ row.status # bids[q].status => row.status = "favorite"
      /\ row.favorite # bids[q].favorite => row.favorite
  BY <1>1, <1>2, SaveAgainFacts
<1>4. /\ Typed /\ bids \in Tables /\ pc[w] = "rewrite"
      /\ bids' = [bids EXCEPT ![q] = row]
      /\ pc' = [pc EXCEPT ![w] = "done"] /\ batch' = batch /\ raw' = raw
  BY <1>1, <1>2, WriterFacts DEF SaveAgain, Goto, Typed
<1>5. /\ Shown[q].status = bids[q].status /\ Shown[q].favorite = bids[q].favorite
      /\ Shown' = [Shown EXCEPT ![q].status = row.status, ![q].favorite = row.favorite]
  BY <1>3, <1>4, ShownRow
<1>6. Saves[w] = q /\ q # NoSeq
  BY <1>1, <1>3, <1>4, MaxSeqAssumption DEF Saves, Seqs, NoSeq
<1>7. Saves' = [Saves EXCEPT ![w] = NoSeq] /\ Stored' = Stored
  <2>1. "done" \in PCs
    BY DEF PCs
  <2>2. /\ Stored' = IF IsCommitted(w)' THEN Stored \cup {w} ELSE Stored \ {w}
        /\ Saves' = [Saves EXCEPT ![w] = NoSeq]
    BY <2>1, <1>4, WritersShown
  <2>3. IsCommitted(w)' /\ w \in Stored
    BY <1>4 DEF IsCommitted, Typed, Stored
  <2>4. QED  BY <2>2, <2>3
<1>8. /\ row.status \in {Shown[q].status, "favorite"}
      /\ row.favorite \in {Shown[q].favorite, TRUE}
  <2>1. row.favorite \in BOOLEAN
    BY <1>3 DEF Row
  <2>2. QED  BY <2>1, <1>3, <1>5
<1>9. Promise!Confirm(w)
  BY <1>4, <1>5, <1>6, <1>7, <1>8 DEF Promise!Confirm
<1>10. QED  BY <1>9 DEF Promise!Next

LEMMA FailsShown ==
    ASSUME IInv, NEW w \in Writers, Fails(w)
    PROVE  [Promise!Next]_(Promise!vars)
<1>1. /\ Typed /\ Writer(w) /\ bids' = bids /\ raw' = raw /\ batch' = batch
      /\ pc[w] \in {"next", "flush", "reread", "rewrite"}
      /\ pc' = [pc EXCEPT ![w] = IF pc[w] \in {"reread", "rewrite"}
                                 THEN "halfway" ELSE "failed"]
  BY WriterFacts DEF Fails, Rollback, Goto
<1>2. Shown' = Shown
  BY <1>1 DEF Shown, Present
<1>3. CASE pc[w] \in {"reread", "rewrite"}
  <2>1. pc' = [pc EXCEPT ![w] = "halfway"] /\ "halfway" \in PCs
    BY <1>1, <1>3 DEF PCs
  <2>2. /\ Stored' = IF IsCommitted(w)' THEN Stored \cup {w} ELSE Stored \ {w}
        /\ Saves' = [Saves EXCEPT ![w] = NoSeq]
    BY <2>1, <1>1, WritersShown
  <2>3. IsCommitted(w)' /\ w \in Stored
    BY <2>1, <1>1, <1>3 DEF IsCommitted, Typed, Stored
  <2>4. Saves[w] # NoSeq
    <3>1. batch[w] # <<>>
      BY <1>1, <1>3 DEF Writer
    <3>2. batch[w][1].seq \in Seqs
      BY <3>1, <1>1, ItemsOfBatch, MaxItemsAssumption
    <3>3. QED  BY <3>2, <1>3, MaxSeqAssumption DEF Saves, Seqs, NoSeq
  <2>5. Promise!Abandon(w)
    BY <2>2, <2>3, <2>4, <1>1, <1>2 DEF Promise!Abandon
  <2>6. QED  BY <2>5 DEF Promise!Next
<1>4. CASE pc[w] \in {"next", "flush"}
  <2>1. pc' = [pc EXCEPT ![w] = "failed"] /\ "failed" \in PCs
    BY <1>1, <1>4 DEF PCs
  <2>2. /\ Stored' = IF IsCommitted(w)' THEN Stored \cup {w} ELSE Stored \ {w}
        /\ Saves' = [Saves EXCEPT ![w] = NoSeq]
    BY <2>1, <1>1, WritersShown
  <2>3. ~IsCommitted(w)' /\ w \notin Stored
    BY <2>1, <1>1, <1>4 DEF IsCommitted, Typed, Stored
  <2>4. Saves' = Saves
    BY <2>2, <1>4 DEF Saves
  <2>5. QED  BY <2>2, <2>3, <2>4, <1>1, <1>2 DEF Promise!vars
<1>5. QED  BY <1>1, <1>3, <1>4

\* The steps that a reader does not see.
LEMMA HiddenSteps ==
    ASSUME IInv, NEW w \in Writers,
           \/ StartSync(w) \/ StartSave(w) \/ ReadFirst(w) \/ UpsertFirst(w)
           \/ UpsertNext(w) \/ ReadAgain(w)
    PROVE  UNCHANGED (Promise!vars)
<1>1. /\ Typed /\ bids' = bids /\ raw' = raw
      /\ \A d \in Writers \ {w} : pc'[d] = pc[d] /\ batch'[d] = batch[d]
  BY WriterFacts DEF Typed, StartSync, StartSave, ReadFirst, UpsertFirst, UpsertNext,
                     ReadAgain, Upsert, Goto
<1>2. \/ pc[w] \in {"idle", "next", "flush"} /\ pc'[w] \in {"next", "flush"}
      \/ pc[w] = "reread" /\ pc'[w] = "rewrite" /\ batch'[w] = batch[w]
  <2>1. CASE StartSync(w) \/ StartSave(w)
    BY <2>1, <1>1 DEF Typed, StartSync, StartSave, Goto
  <2>2. CASE ReadFirst(w)
    BY <2>2, <1>1 DEF Typed, ReadFirst, Goto
  <2>3. CASE UpsertFirst(w) \/ UpsertNext(w)
    BY <2>3, <1>1 DEF Typed, UpsertFirst, UpsertNext, Upsert, Goto
  <2>4. CASE ReadAgain(w)
    BY <2>4, <1>1 DEF Typed, ReadAgain, Goto
  <2>5. QED  BY <2>1, <2>2, <2>3, <2>4
<1>3. Shown' = Shown
  BY <1>1 DEF Shown, Present
<1>4. Stored' = Stored
  BY <1>1, <1>2 DEF Stored
<1>5. Saves' = Saves
  BY <1>1, <1>2 DEF Saves
<1>6. QED  BY <1>1, <1>3, <1>4, <1>5 DEF Promise!vars

LEMMA UserShown ==
    ASSUME IInv, UserStep
    PROVE  Promise!Next
<1>1. PICK q \in Seqs :
         \/ \E status \in Statuses : SetStatus(q, status)
         \/ \E favorite \in BOOLEAN : SetFavorite(q, favorite)
  BY DEF UserStep
<1>2. /\ bids \in Tables /\ bids[q] # NoBid /\ bids[q] \in Row
  BY <1>1 DEF IInv, Typed, Tables, SetStatus, SetFavorite
<1>3. Stored' = Stored /\ Saves' = Saves /\ raw' = raw
  BY <1>1 DEF SetStatus, SetFavorite, UserChange, Stored, Saves
<1>4. CASE \E status \in Statuses : SetStatus(q, status)
  <2>1. PICK status \in Statuses : SetStatus(q, status)
    BY <1>4
  <2>2. PICK row : row = [bids[q] EXCEPT !.status = status]
    OBVIOUS
  <2>3. /\ row \in Row /\ row.status = status /\ row.favorite = bids[q].favorite
        /\ row.type = bids[q].type /\ row.latest = bids[q].latest
    BY <2>1, <2>2, <1>2 DEF Row
  <2>4. bids' = [bids EXCEPT ![q] = row]
    BY <2>1, <2>2 DEF SetStatus, UserChange
  <2>5. q \in DOMAIN Shown /\ Shown' = [Shown EXCEPT ![q].status = status]
    BY <2>3, <2>4, <1>2, ShownRow
  <2>6. Promise!SetStatus(q, status)
    BY <2>5, <1>3 DEF Promise!SetStatus
  <2>7. QED  BY <2>1, <2>5, <2>6 DEF Promise!Next
<1>5. CASE \E favorite \in BOOLEAN : SetFavorite(q, favorite)
  <2>1. PICK favorite \in BOOLEAN : SetFavorite(q, favorite)
    BY <1>5
  <2>2. PICK row : row = [bids[q] EXCEPT !.favorite = favorite]
    OBVIOUS
  <2>3. /\ row \in Row /\ row.favorite = favorite /\ row.status = bids[q].status
        /\ row.type = bids[q].type /\ row.latest = bids[q].latest
    BY <2>1, <2>2, <1>2 DEF Row
  <2>4. bids' = [bids EXCEPT ![q] = row]
    BY <2>1, <2>2 DEF SetFavorite, UserChange
  <2>5. q \in DOMAIN Shown /\ Shown' = [Shown EXCEPT ![q].favorite = favorite]
    BY <2>3, <2>4, <1>2, ShownRow
  <2>6. Promise!SetFavorite(q, favorite)
    BY <2>5, <1>3 DEF Promise!SetFavorite
  <2>7. QED  BY <2>1, <2>5, <2>6 DEF Promise!Next
<1>6. QED  BY <1>1, <1>4, <1>5

\* Readers see every sync and every save happen at once, at its commit, to
\* the rows that are there by then, whatever overlaps with it.
THEOREM WritersAreSerial == Spec => ImplementsNoticeVersions
<1> DEFINE Inv == IInv /\ \A w \in Writers : Serial(w)
<1>1. Init => Inv
  <2>1. Init => \A w \in Writers : Serial(w)
    BY WritersAssumption DEF Init, Serial
  <2>2. QED  BY <2>1, InitIInv
<1>2. Inv /\ [Next]_vars => Inv'
  <2> SUFFICES ASSUME Inv, [Next]_vars PROVE Inv'  OBVIOUS
  <2>1. IInv'
    BY NextKeeps
  <2>2. ASSUME NEW w \in Writers PROVE Serial(w)'
    BY SerialKeeps
  <2>3. QED  BY <2>1, <2>2
<1>3. Inv /\ Inv' /\ [Next]_vars => [Promise!Next]_(Promise!vars)
  <2> SUFFICES ASSUME Inv, Inv', [Next]_vars
               PROVE  [Promise!Next]_(Promise!vars)
    OBVIOUS
  <2>1. CASE UNCHANGED vars
    BY <2>1 DEF vars, Promise!vars, Shown, Stored, Saves, Present
  <2>2. CASE UserStep
    BY <2>2, UserShown
  <2>3. ASSUME NEW w \in Writers, SyncStep(w) \/ SaveStep(w)
        PROVE  [Promise!Next]_(Promise!vars)
    <3>1. CASE Commit(w)     BY <3>1, CommitShown
    <3>2. CASE SaveAgain(w)  BY <3>2, SaveAgainShown
    <3>3. CASE Fails(w)      BY <3>3, FailsShown
    <3>4. CASE \/ StartSync(w) \/ StartSave(w) \/ ReadFirst(w) \/ UpsertFirst(w)
               \/ UpsertNext(w) \/ ReadAgain(w)
      BY <3>4, HiddenSteps
    <3>5. QED  BY <2>3, <3>1, <3>2, <3>3, <3>4 DEF SyncStep, SaveStep
  <2>4. QED  BY <2>1, <2>2, <2>3 DEF Next
<1> HIDE DEF Inv
<1>4. QED
  BY <1>1, <1>2, <1>3, InitShown, PTL DEF Spec, ImplementsNoticeVersions, Promise!Spec

===============================================================================
