-------------------------- MODULE Enrichment_proofs --------------------------
(***************************************************************************)
(* Proofs about Enrichment, for any number of runs, plans, items and names.*)
(*                                                                         *)
(* That a row in the database comes from a committed run's response needs  *)
(* the same of the rows the lock holder sees, with its own responses among *)
(* them; a commit makes the one out of the other.  That the attachments of *)
(* a crawl are current, whatever overlaps, needs that a crawl's rows are   *)
(* read under the lock: so a run with such a response keeps the lock until *)
(* it ends, and what it read is what it replaces.  And as long as no run   *)
(* has overlapped, what any run read is what it replaces, and the tables it *)
(* has not written are as the last run that did has left them.             *)
(***************************************************************************)
EXTENDS Enrichment, TLAPS, FiniteSetTheorems, WellFoundedInduction

-----------------------------------------------------------------------------
(* The inductive invariant.                                                *)

AllResponses == Responses \cup {Stages}

Typed ==
    /\ stored \in [Tables -> RowSets]
    /\ work \in [Tables -> RowSets]
    /\ lock \in Runs \cup {Nobody}
    /\ pc \in [Runs -> PCs]
    /\ plan \in [Runs -> Plans \cup {<<>>}]
    /\ got \in [Runs -> Seq(AllResponses)]
    /\ base \in [Runs -> RowSets]
    /\ last \in [Tables -> Runs \cup {Nobody}]
    /\ overlapped \in BOOLEAN

\* The rows of a table have ids of their own and a largest one.
Tidy(rows) ==
    /\ \A r, s \in rows : r.id = s.id => r = s
    /\ \E n \in Nat : \A r \in rows : r.id <= n

\* The run was told of the item for the table.
Told(w, t, item) ==
    \E i \in DOMAIN got[w] : TableOf(plan[w][i]) = t /\ item \in Listed(got[w][i])

\* The runs whose rows the lock holder sees.
Seen(w) == pc[w] = "done" \/ lock = w

Stores ==
    /\ lock = Nobody => work = stored
    /\ \A t \in Tables :
          /\ Tidy(stored[t]) /\ Tidy(work[t])
          /\ \A r \in stored[t] : \E w \in Runs : pc[w] = "done" /\ Told(w, t, r.item)
          /\ \A r \in work[t] : \E w \in Runs : Seen(w) /\ Told(w, t, r.item)

Run(w) ==
    /\ pc[w] \in {"idle", "failed"} => plan[w] = <<>> /\ got[w] = <<>>
    /\ pc[w] \notin {"idle", "failed"} => plan[w] \in Plans
    /\ Len(got[w]) <= Len(plan[w])
    /\ pc[w] = "flush" => Len(got[w]) >= 1
    /\ lock = w => Active(w)

IInv == Typed /\ Stores /\ \A w \in Runs : Run(w)

-----------------------------------------------------------------------------
(* What more holds of crawls.                                              *)

Distinct(resp) == \A i, j \in DOMAIN resp : resp[i] = resp[j] => i = j
Unique(rows)   == \A r, s \in rows : r.item = s.item => r = s

IsCrawl(w, i) == i \in DOMAIN got[w] /\ plan[w][i] = "crawl"
Crawled(w)    == \E i \in DOMAIN got[w] : IsCrawl(w, i)

\* No page of its crawls has listed a file twice.
Once(w) == \A i \in DOMAIN got[w] : IsCrawl(w, i) => Distinct(got[w][i])

OnceStored == \A w \in Runs : pc[w] = "done" => Once(w)
OnceSeen   == \A w \in Runs : Seen(w) => Once(w)

\* rows are the files of the run's last crawl; once: of none twice.
Shows(w, rows, once) ==
    \A i \in DOMAIN got[w] :
        (IsCrawl(w, i) /\ \A j \in DOMAIN got[w] : IsCrawl(w, j) => j <= i) =>
            /\ Listed(got[w][i]) \subseteq ItemsOf(rows)
            /\ once => ItemsOf(rows) \subseteq Listed(got[w][i])

\* It has read the attachments but not replaced them.
Replacing(w) == pc[w] = "flush" /\ ThisOp(w) = "crawl"

StoredFiles ==
    /\ OnceStored => Unique(stored["crawl"])
    /\ \A w \in Runs : last["crawl"] = w =>
          pc[w] = "done" /\ Crawled(w) /\ Shows(w, stored["crawl"], OnceStored)

SeenFiles == OnceSeen => Unique(work["crawl"])

Crawl(w) ==
    /\ Active(w) /\ Crawled(w) => lock = w
    /\ Replacing(w) => base[w] = work["crawl"]
    /\ lock = w /\ ~Crawled(w) => work["crawl"] = stored["crawl"]
    /\ lock = w /\ ~Replacing(w) => Shows(w, work["crawl"], OnceSeen)

CInv == StoredFiles /\ SeenFiles /\ \A w \in Runs : Crawl(w)

-----------------------------------------------------------------------------
(* What more holds as long as runs do not overlap.                         *)

Listing(c, resp) == {[id |-> c + i, item |-> resp[i]] : i \in DOMAIN resp}

Wrote(w, t) == \E i \in DOMAIN got[w] : TableOf(plan[w][i]) = t

\* rows are the items of the run's last response for t.
Copies(w, t, rows) ==
    \A i \in DOMAIN got[w] :
        (/\ TableOf(plan[w][i]) = t
         /\ \A j \in DOMAIN got[w] : TableOf(plan[w][j]) = t => j <= i) =>
            \E c \in Nat : rows = Listing(c, got[w][i])

StoredCopies ==
    \A t \in Tables \ FileTables : \A w \in Runs : last[t] = w =>
        pc[w] = "done" /\ Wrote(w, t) /\ Copies(w, t, stored[t])

\* What a run has made of the tables before it commits.
Serial(w) ==
    /\ pc[w] = "flush" => base[w] = work[TableOf(ThisOp(w))] /\ ~NothingFound(w)
    /\ \A t \in Tables \ FileTables :
          /\ ~Wrote(w, t) \/ NothingFound(w) => work[t] = stored[t]
          /\ \/ ~Wrote(w, t) \/ NothingFound(w)
             \/ pc[w] = "flush" /\ TableOf(ThisOp(w)) = t
             \/ Copies(w, t, work[t])

SInv ==
    ~overlapped =>
        /\ \A v, w \in Runs : Active(v) /\ Active(w) => v = w
        /\ StoredCopies
        /\ \A w \in Runs : Active(w) => Serial(w)

-----------------------------------------------------------------------------
(* Facts about the data.                                                   *)

LEMMA ResponseFacts ==
    ASSUME NEW resp \in AllResponses
    PROVE  /\ resp \in Seq(Items) /\ Len(resp) \in Nat
           /\ DOMAIN resp = 1 .. Len(resp)
           /\ \A i \in DOMAIN resp : resp[i] \in Items
           /\ Listed(resp) \subseteq Items
<1>1. Stages \in Seq(Items)
  BY DEF Stages, Items
<1>2. ASSUME resp \in Responses
      PROVE  resp \in Seq(Items)
  <2>1. PICK n \in 0 .. MaxItems : resp \in [1 .. n -> Names]
    BY <1>2 DEF Responses
  <2>2. n \in Nat
    BY MaxItemsAssumption
  <2>3. QED  BY <2>1, <2>2 DEF Items
<1>3. resp \in Seq(Items)
  BY <1>1, <1>2 DEF AllResponses
<1>4. QED  BY <1>3 DEF Listed

LEMMA LargestExists ==
    ASSUME NEW S \in SUBSET Nat, S # {}, NEW n \in Nat, \A k \in S : k <= n
    PROVE  \E m \in S : \A k \in S : k <= m
<1> DEFINE M == {n - k : k \in S}
<1>1. \A k \in S : k \in Nat
  OBVIOUS
<1>2. M \subseteq Nat /\ M # {}
  <2>1. \A k \in S : n - k \in Nat
    BY <1>1
  <2>2. PICK k : k \in S
    OBVIOUS
  <2>3. QED  BY <2>1, <2>2
<1>3. IsWellFoundedOn(OpToRel(<, Nat), Nat)
  BY NatLessThanWellFounded
<1>4. \E x \in M : \A y \in M : ~(<<y, x>> \in OpToRel(<, Nat))
  <2> HIDE DEF M
  <2>1. QED  BY <1>2, <1>3, WFMin
<1>5. PICK x \in M : \A y \in M : ~(y < x)
  BY <1>2, <1>4 DEF OpToRel
<1>6. PICK m \in S : x = n - m
  BY <1>5
<1>7. \A k \in S : k <= m
  <2> TAKE k \in S
  <2>1. ~(n - k < n - m)
    BY <1>5, <1>6
  <2>2. QED  BY <2>1, <1>1, <1>6
<1>8. QED  BY <1>7

LEMMA TopIdFacts ==
    ASSUME NEW rows \in RowSets, Tidy(rows)
    PROVE  /\ TopId(rows) \in Nat
           /\ \A r \in rows : r.id <= TopId(rows)
<1>1. CASE rows = {}
  BY <1>1 DEF TopId
<1>2. CASE rows # {}
  <2>1. PICK n \in Nat : \A k \in IdsOf(rows) : k <= n
    BY DEF Tidy, IdsOf
  <2>2. IdsOf(rows) \in SUBSET Nat /\ IdsOf(rows) # {}
    BY <1>2 DEF RowSets, IdsOf
  <2>3. \E m \in IdsOf(rows) : \A k \in IdsOf(rows) : k <= m
    BY <2>1, <2>2, LargestExists
  <2>4. TopId(rows) \in IdsOf(rows) /\ \A k \in IdsOf(rows) : k <= TopId(rows)
    BY <1>2, <2>3 DEF TopId
  <2>5. QED  BY <2>2, <2>4 DEF IdsOf
<1>3. QED  BY <1>1, <1>2

LEMMA ReplaceAllFacts ==
    ASSUME NEW rows \in RowSets, Tidy(rows), NEW read \in RowSets,
           NEW resp \in AllResponses
    PROVE  LET new == ReplaceAll(rows, read, resp) IN
           /\ new \in RowSets /\ Tidy(new)
           /\ \A r \in new : r \in rows \/ r.item \in Listed(resp)
<1>1. PICK top : top = TopId(rows)
  OBVIOUS
<1>2. top \in Nat /\ \A r \in rows : r.id <= top
  BY <1>1, TopIdFacts
<1>3. /\ Len(resp) \in Nat /\ DOMAIN resp = 1 .. Len(resp)
      /\ \A i \in DOMAIN resp : resp[i] \in Items
  BY ResponseFacts
<1>4. PICK new : new = ReplaceAll(rows, read, resp)
  OBVIOUS
<1>5. \A r \in new : r \in rows
                     \/ \E i \in DOMAIN resp : r = [id |-> top + i, item |-> resp[i]]
  BY <1>1, <1>4 DEF ReplaceAll
<1>6. \A r \in rows : r \in [id : Nat, item : Items]
  BY DEF RowSets
<1>7. new \in RowSets
  <2>1. \A r \in new : r \in [id : Nat, item : Items]
    BY <1>2, <1>3, <1>5, <1>6
  <2>2. QED  BY <2>1 DEF RowSets
<1>8. \A r, s \in new : r.id = s.id => r = s
  <2>1. \A r, s \in rows : r.id = s.id => r = s
    BY DEF Tidy
  <2>2. QED  BY <2>1, <1>2, <1>3, <1>5, <1>6
<1>9. \A r \in new : r.id <= top + Len(resp)
  BY <1>2, <1>3, <1>5, <1>6
<1>10. \A r \in new : r \in rows \/ r.item \in Listed(resp)
  BY <1>5 DEF Listed
<1>11. Tidy(new)
  BY <1>2, <1>3, <1>8, <1>9 DEF Tidy
<1>12. QED  BY <1>4, <1>7, <1>10, <1>11

LEMMA PlaceFacts ==
    ASSUME NEW rows \in RowSets, Tidy(rows), NEW read, NEW found, NEW op,
           NEW resp \in AllResponses, Accepted(op, found, rows, read, resp)
    PROVE  LET new == Place(op, found, rows, read, resp) IN
           /\ new \in RowSets /\ Tidy(new)
           /\ \A r \in new : r \in rows \/ r.item \in Listed(resp)
<1>1. PICK D : D = Deleted(op, found, read, resp)
  OBVIOUS
<1>2. PICK I : I = Inserted(op, read, resp)
  OBVIOUS
<1>3. /\ Len(resp) \in Nat /\ DOMAIN resp = 1 .. Len(resp)
      /\ \A i \in DOMAIN resp : resp[i] \in Items
  BY ResponseFacts
<1>4. PICK new : new = Place(op, found, rows, read, resp)
  OBVIOUS
<1>5. \A r \in new : \/ r \in rows /\ r.id \notin D
                     \/ \E i \in I : r = [id |-> i, item |-> resp[i]]
  BY <1>1, <1>2, <1>4 DEF Place
<1>6. I \subseteq DOMAIN resp /\ \A i \in I \ D : i \notin IdsOf(rows)
  BY <1>1, <1>2 DEF Inserted, Accepted
<1>7. \A r \in rows : r \in [id : Nat, item : Items]
  BY DEF RowSets
<1>8. new \in RowSets
  <2>1. \A r \in new : r \in [id : Nat, item : Items]
    BY <1>3, <1>5, <1>6, <1>7
  <2>2. QED  BY <2>1 DEF RowSets
<1>9. \A r, s \in new : r.id = s.id => r = s
  <2>1. \A r, s \in rows : r.id = s.id => r = s
    BY DEF Tidy
  <2>2. \A r \in rows : r.id \in IdsOf(rows)
    BY DEF IdsOf
  <2>3. QED  BY <2>1, <2>2, <1>5, <1>6
<1>10. \E n \in Nat : \A r \in new : r.id <= n
  <2>1. PICK n \in Nat : \A r \in rows : r.id <= n
    BY DEF Tidy
  <2>2. \A r \in new : r.id <= n + Len(resp)
    BY <2>1, <1>3, <1>5, <1>6, <1>7
  <2>3. n + Len(resp) \in Nat
    BY <1>3
  <2>4. QED  BY <2>2, <2>3
<1>11. \A r \in new : r \in rows \/ r.item \in Listed(resp)
  BY <1>5, <1>6 DEF Listed
<1>12. Tidy(new)
  BY <1>9, <1>10 DEF Tidy
<1>13. QED  BY <1>4, <1>8, <1>11, <1>12

\* Whatever a flush makes of rows.
LEMMA ResultsFacts ==
    ASSUME NEW w, NEW rows \in RowSets, Tidy(rows), base[w] \in RowSets,
           Latest(w) \in AllResponses, NEW new \in Results(w, rows)
    PROVE  /\ new \in RowSets /\ Tidy(new)
           /\ \A r \in new : r \in rows \/ r.item \in Listed(Latest(w))
<1>1. CASE TableOf(ThisOp(w)) \in Positional
  <2>1. PICK f : /\ new = Place(ThisOp(w), f, rows, base[w], Latest(w))
                 /\ Accepted(ThisOp(w), f, rows, base[w], Latest(w))
    BY <1>1 DEF Results
  <2>2. QED  BY <2>1, PlaceFacts
<1>2. CASE TableOf(ThisOp(w)) \notin Positional
  <2>1. new = ReplaceAll(rows, base[w], Latest(w))
    BY <1>2 DEF Results
  <2>2. QED  BY <2>1, ReplaceAllFacts
<1>3. QED  BY <1>1, <1>2

-----------------------------------------------------------------------------
(* The steps: each of them keeps the inductive invariant.                  *)

LEMMA RunFacts ==
    ASSUME IInv, NEW w \in Runs
    PROVE  /\ Typed /\ Stores /\ Run(w) /\ w # Nobody
           /\ got[w] \in Seq(AllResponses) /\ Len(got[w]) \in Nat
           /\ DOMAIN got[w] = 1 .. Len(got[w])
           /\ Active(w) => /\ plan[w] \in Plans /\ plan[w] \in Seq(Operations)
                           /\ Len(plan[w]) \in Nat /\ Len(plan[w]) >= 1
                           /\ DOMAIN plan[w] = 1 .. Len(plan[w])
<1>1. Typed /\ Stores /\ Run(w)
  BY DEF IInv
<1>2. got[w] \in Seq(AllResponses)
  BY <1>1 DEF Typed
<1>3. ASSUME Active(w) PROVE plan[w] \in Plans
  BY <1>1, <1>3 DEF Run, Active
<1>4. ASSUME Active(w) PROVE plan[w] \in Seq(Operations) /\ Len(plan[w]) >= 1
  BY <1>3, <1>4, PlansAssumption
<1>5. QED  BY <1>1, <1>2, <1>3, <1>4, NobodyAssumption

LEMMA TableFacts == \A op \in Operations : TableOf(op) \in Tables
  BY DEF Tables

\* A step leaves a run alone.
Untouched(w) ==
    /\ pc'[w] = pc[w] /\ plan'[w] = plan[w] /\ got'[w] = got[w]
    /\ base'[w] = base[w]
    /\ lock' = w <=> lock = w

LEMMA UntouchedRun ==
    ASSUME NEW w \in Runs, Run(w), Untouched(w)
    PROVE  Run(w)'
  BY DEF Run, Untouched, Active

LEMMA StepOfRun ==
    ASSUME IInv, Typed', Stores', NEW w \in Runs, Run(w)',
           \A v \in Runs \ {w} : Untouched(v)
    PROVE  IInv'
<1>1. \A v \in Runs \ {w} : Run(v)'
  BY UntouchedRun DEF IInv
<1>2. QED  BY <1>1 DEF IInv

\* A run goes on to see the runs it saw, and what they were told.
Remembers(w) ==
    /\ pc[w] = "done" => pc'[w] = "done"
    /\ Seen(w) => /\ Seen(w)'
                  /\ plan'[w] = plan[w] /\ Len(got[w]) <= Len(got'[w])
                  /\ \A i \in DOMAIN got[w] : got'[w][i] = got[w][i]

LEMMA ToldFacts ==
    ASSUME Typed, Typed', NEW w \in Runs, Remembers(w), Seen(w),
           NEW t, NEW item, Told(w, t, item)
    PROVE  Told(w, t, item)'
<1>1. got[w] \in Seq(AllResponses) /\ got'[w] \in Seq(AllResponses)
  BY DEF Typed
<1>2. PICK i \in DOMAIN got[w] : TableOf(plan[w][i]) = t /\ item \in Listed(got[w][i])
  BY DEF Told
<1>3. i \in DOMAIN got'[w] /\ got'[w][i] = got[w][i] /\ plan'[w][i] = plan[w][i]
  BY <1>1, <1>2 DEF Remembers
<1>4. QED  BY <1>2, <1>3 DEF Told, Listed

\* A step that leaves the tables alone.
LEMMA StoresUntouched ==
    ASSUME IInv, Typed', UNCHANGED <<stored, work>>, lock' = Nobody => lock = Nobody,
           \A w \in Runs : Remembers(w)
    PROVE  Stores'
<1>1. Typed /\ Stores
  BY DEF IInv
<1>2. \A t \in Tables : Tidy(stored[t])' /\ Tidy(work[t])'
  BY <1>1 DEF Stores, Tidy
<1>3. \A t \in Tables : \A r \in stored[t] :
         \E w \in Runs : pc'[w] = "done" /\ Told(w, t, r.item)'
  <2> TAKE t \in Tables
  <2> TAKE r \in stored[t]
  <2>1. PICK w \in Runs : pc[w] = "done" /\ Told(w, t, r.item)
    BY <1>1 DEF Stores
  <2>2. Told(w, t, r.item)'
    BY <2>1, <1>1, ToldFacts DEF Seen
  <2>3. QED  BY <2>1, <2>2 DEF Remembers
<1>4. \A t \in Tables : \A r \in work[t] :
         \E w \in Runs : Seen(w)' /\ Told(w, t, r.item)'
  <2> TAKE t \in Tables
  <2> TAKE r \in work[t]
  <2>1. PICK w \in Runs : Seen(w) /\ Told(w, t, r.item)
    BY <1>1 DEF Stores
  <2>2. Told(w, t, r.item)'
    BY <2>1, <1>1, ToldFacts
  <2>3. QED  BY <2>1, <2>2 DEF Remembers
<1>5. QED  BY <1>1, <1>2, <1>3, <1>4 DEF Stores

LEMMA InitIInv == Init => IInv
<1> SUFFICES ASSUME Init PROVE IInv  OBVIOUS
<1>1. Typed
  <2>1. {} \in RowSets
    BY DEF RowSets
  <2>2. <<>> \in Seq(AllResponses)
    OBVIOUS
  <2>3. "idle" \in PCs /\ overlapped \in BOOLEAN
    BY DEF Init, PCs
  <2>4. QED  BY <2>1, <2>2, <2>3 DEF Init, Typed
<1>2. Tidy({})
  BY DEF Tidy
<1>3. Stores
  BY <1>2 DEF Init, Stores
<1>4. \A w \in Runs : Run(w)
  BY NobodyAssumption DEF Init, Run, Active
<1>5. QED  BY <1>1, <1>3, <1>4 DEF IInv

LEMMA BeginKeeps ==
    ASSUME IInv, NEW w \in Runs, Begin(w)
    PROVE  /\ IInv' /\ \A v \in Runs \ {w} : Untouched(v)
           /\ \A v \in Runs : Remembers(v)
<1>1. /\ Typed /\ Stores /\ Run(w) /\ pc[w] = "idle" /\ lock # w
  BY RunFacts DEF Begin, Run, Active
<1>2. PICK p \in Plans : plan' = [plan EXCEPT ![w] = p]
  BY DEF Begin
<1>3. /\ pc' = [pc EXCEPT ![w] = "fetch"]
      /\ overlapped' = (overlapped \/ \E v \in Runs : Active(v))
      /\ UNCHANGED <<stored, work, lock, got, base, last>>
  BY DEF Begin, Goto
<1>4. Typed'
  <2>1. overlapped' \in BOOLEAN
    BY <1>3
  <2>2. pc' \in [Runs -> PCs]
    BY <1>1, <1>3 DEF Typed, PCs
  <2>3. plan' \in [Runs -> Plans \cup {<<>>}]
    BY <1>1, <1>2 DEF Typed
  <2>4. QED  BY <2>1, <2>2, <2>3, <1>1, <1>3 DEF Typed
<1>5. \A v \in Runs \ {w} : Untouched(v)
  BY <1>1, <1>2, <1>3 DEF Typed, Untouched
<1>6. \A v \in Runs : Remembers(v)
  <2>1. ~Seen(w)
    BY <1>1 DEF Seen
  <2>2. \A v \in Runs \ {w} : Remembers(v)
    BY <1>1, <1>2, <1>3 DEF Typed, Remembers, Seen
  <2>3. QED  BY <2>1, <2>2, <1>1 DEF Remembers
<1>7. Stores'
  BY <1>3, <1>4, <1>6, StoresUntouched
<1>8. Run(w)'
  <2>1. got[w] = <<>> /\ p \in Seq(Operations)
    BY <1>1, PlansAssumption DEF Run
  <2>2. pc'[w] = "fetch" /\ plan'[w] = p /\ got'[w] = <<>> /\ lock' # w
    BY <2>1, <1>1, <1>2, <1>3 DEF Typed
  <2>3. Len(got'[w]) <= Len(plan'[w])
    BY <2>1, <2>2
  <2>4. QED  BY <2>2, <2>3 DEF Run
<1>9. QED  BY <1>4, <1>5, <1>6, <1>7, <1>8, StepOfRun

\* Who goes on has a next operation, and who is about to flush has had one.
LEMMA OperationFacts ==
    ASSUME IInv, NEW w \in Runs, Active(w)
    PROVE  /\ ~Finished(w) =>
                 /\ Len(got[w]) + 1 \in 1 .. Len(plan[w])
                 /\ NextOp(w) \in Operations
           /\ pc[w] = "flush" =>
                 /\ Len(got[w]) \in DOMAIN got[w]
                 /\ Len(got[w]) \in 1 .. Len(plan[w])
                 /\ ThisOp(w) \in Operations
                 /\ Latest(w) \in AllResponses
<1>1. /\ Run(w) /\ plan[w] \in Seq(Operations) /\ Len(plan[w]) \in Nat
      /\ got[w] \in Seq(AllResponses) /\ Len(got[w]) \in Nat
  BY RunFacts
<1>2. ~Finished(w) => Len(got[w]) + 1 \in 1 .. Len(plan[w])
  BY <1>1 DEF Run, Finished
<1>3. pc[w] = "flush" => Len(got[w]) \in 1 .. Len(plan[w])
  BY <1>1 DEF Run
<1>4. QED  BY <1>1, <1>2, <1>3 DEF NextOp, ThisOp, Latest

LEMMA FetchFacts ==
    ASSUME IInv, NEW w \in Runs, FetchAndRead(w)
    PROVE  \E resp \in AllResponses :
              /\ got' = [got EXCEPT ![w] = Append(got[w], resp)]
              /\ got'[w] = Append(got[w], resp)
              /\ \/ UNCHANGED lock
                 \/ lock = Nobody /\ lock' = w /\ NextOp(w) = "crawl"
              /\ NextOp(w) = "crawl" => lock' = w
              /\ \/ UNCHANGED <<base, pc>> /\ NextOp(w) # "crawl"
                 \/ /\ base' = [base EXCEPT ![w] = View(w)[TableOf(NextOp(w))]]
                    /\ pc' = [pc EXCEPT ![w] = "flush"]
              /\ UNCHANGED <<stored, work, plan, last, overlapped>>
<1>1. Typed
  BY RunFacts
<1>2. PICK resp \in IF NextOp(w) = "timeline" THEN {Stages} ELSE Responses :
         /\ got' = [got EXCEPT ![w] = Append(@, resp)]
         /\ IF TakesLockFirst(NextOp(w)) /\ lock # w
            THEN /\ lock = Nobody
                 /\ lock' = w
            ELSE UNCHANGED lock
         /\ IF NextOp(w) = "integration" /\ resp = <<>>
            THEN UNCHANGED <<base, pc>>
            ELSE /\ base' = [base EXCEPT ![w] = View(w)[TableOf(NextOp(w))]]
                 /\ Goto(w, "flush")
  BY DEF FetchAndRead
<1>3. resp \in AllResponses
  BY <1>2 DEF AllResponses
<1>4. got'[w] = Append(got[w], resp)
  BY <1>1, <1>2 DEF Typed
<1>5. UNCHANGED <<stored, work, plan, last, overlapped>>
  BY DEF FetchAndRead
<1>6. QED  BY <1>2, <1>3, <1>4, <1>5 DEF Goto, TakesLockFirst

LEMMA FetchAndReadKeeps ==
    ASSUME IInv, NEW w \in Runs, FetchAndRead(w)
    PROVE  /\ IInv' /\ \A v \in Runs \ {w} : Untouched(v)
           /\ \A v \in Runs : Remembers(v)
<1>1. PICK resp \in AllResponses :
         /\ got' = [got EXCEPT ![w] = Append(got[w], resp)]
         /\ got'[w] = Append(got[w], resp)
         /\ \/ UNCHANGED lock
            \/ lock = Nobody /\ lock' = w
         /\ \/ UNCHANGED <<base, pc>>
            \/ /\ base' = [base EXCEPT ![w] = View(w)[TableOf(NextOp(w))]]
               /\ pc' = [pc EXCEPT ![w] = "flush"]
         /\ UNCHANGED <<stored, work, plan, last, overlapped>>
  BY FetchFacts
<1>2. /\ Typed /\ Run(w) /\ pc[w] = "fetch" /\ ~Finished(w) /\ Active(w)
      /\ got[w] \in Seq(AllResponses) /\ Len(got[w]) \in Nat /\ w # Nobody
      /\ DOMAIN got[w] = 1 .. Len(got[w])
      /\ NextOp(w) \in Operations /\ plan[w] \in Plans
      /\ Len(got[w]) + 1 \in 1 .. Len(plan[w]) /\ Len(plan[w]) \in Nat
  BY RunFacts, OperationFacts DEF FetchAndRead, Active
<1>3. /\ got'[w] \in Seq(AllResponses) /\ Len(got'[w]) = Len(got[w]) + 1
      /\ \A i \in DOMAIN got[w] : got'[w][i] = got[w][i]
  BY <1>1, <1>2
<1>4. Typed'
  <2>1. got' \in [Runs -> Seq(AllResponses)]
    BY <1>1, <1>2, <1>3 DEF Typed
  <2>2. base' \in [Runs -> RowSets]
    <3>1. View(w)[TableOf(NextOp(w))] \in RowSets
      BY <1>2, TableFacts DEF View, Typed
    <3>2. QED  BY <3>1, <1>1, <1>2 DEF Typed
  <2>3. pc' \in [Runs -> PCs] /\ lock' \in Runs \cup {Nobody}
    BY <1>1, <1>2 DEF Typed, PCs
  <2>4. QED  BY <2>1, <2>2, <2>3, <1>1, <1>2 DEF Typed
<1>5. \A v \in Runs \ {w} : Untouched(v)
  BY <1>1, <1>2, NobodyAssumption DEF Typed, Untouched
<1>6. \A v \in Runs : Remembers(v)
  <2>1. Remembers(w)
    BY <1>1, <1>2, <1>3 DEF Remembers, Seen
  <2>2. \A v \in Runs \ {w} : Remembers(v)
    <3> TAKE v \in Runs \ {w}
    <3>1. /\ pc'[v] = pc[v] /\ plan'[v] = plan[v] /\ got'[v] = got[v]
          /\ lock' = v <=> lock = v
      BY <1>5 DEF Untouched
    <3>2. got[v] \in Seq(AllResponses)
      BY <1>2 DEF Typed
    <3>3. QED  BY <3>1, <3>2 DEF Remembers, Seen
  <2>3. QED  BY <2>1, <2>2
<1>7. Stores'
  BY <1>1, <1>2, <1>4, <1>6, StoresUntouched
<1>8. Run(w)'
  <2>1. pc'[w] \in {"fetch", "flush"} /\ plan'[w] = plan[w]
    BY <1>1, <1>2 DEF Typed
  <2>2. Len(got'[w]) <= Len(plan'[w]) /\ Len(got'[w]) >= 1
    BY <2>1, <1>2, <1>3
  <2>3. QED  BY <2>1, <2>2, <1>2 DEF Run, Active
<1>9. QED  BY <1>4, <1>5, <1>6, <1>7, <1>8, StepOfRun

LEMMA FlushFacts ==
    ASSUME IInv, NEW w \in Runs, Flush(w)
    PROVE  LET t == TableOf(ThisOp(w)) IN
           /\ t \in Tables
           /\ pc' = [pc EXCEPT ![w] = "fetch"]
           /\ base' = [base EXCEPT ![w] = {}]
           /\ UNCHANGED <<stored, plan, got, last, overlapped>>
           /\ \/ NoChange(w) /\ UNCHANGED <<lock, work>>
              \/ /\ lock \in {w, Nobody} /\ lock' = w
                 /\ \E rows \in Results(w, work[t]) :
                       /\ work' = [work EXCEPT ![t] = rows]
                       /\ rows \in RowSets /\ Tidy(rows)
                       /\ \A r \in rows : r \in work[t] \/ Told(w, t, r.item)
<1>1. PICK t : t = TableOf(ThisOp(w))
  OBVIOUS
<1>2. /\ Typed /\ Stores /\ pc[w] = "flush" /\ Active(w)
      /\ ThisOp(w) \in Operations /\ Latest(w) \in AllResponses
      /\ Len(got[w]) \in DOMAIN got[w]
  BY RunFacts, OperationFacts DEF Flush, Active
<1>3. t \in Tables /\ work[t] \in RowSets /\ Tidy(work[t]) /\ base[w] \in RowSets
  BY <1>1, <1>2, TableFacts DEF Typed, Stores
<1>4. ASSUME NEW rows \in Results(w, work[t])
      PROVE  /\ rows \in RowSets /\ Tidy(rows)
             /\ \A r \in rows : r \in work[t] \/ Told(w, t, r.item)
  <2>1. /\ rows \in RowSets /\ Tidy(rows)
        /\ \A r \in rows : r \in work[t] \/ r.item \in Listed(Latest(w))
    BY <1>2, <1>3, ResultsFacts
  <2>2. \A r \in rows : r.item \in Listed(Latest(w)) => Told(w, t, r.item)
    BY <1>1, <1>2 DEF Told, Latest, ThisOp
  <2>3. QED  BY <2>1, <2>2
<1>5. \/ NoChange(w) /\ UNCHANGED <<lock, work>>
      \/ /\ lock \in {w, Nobody} /\ lock' = w
         /\ \E rows \in Results(w, work[t]) : work' = [work EXCEPT ![t] = rows]
  BY <1>1 DEF Flush
<1>6. /\ pc' = [pc EXCEPT ![w] = "fetch"]
      /\ base' = [base EXCEPT ![w] = {}]
      /\ UNCHANGED <<stored, plan, got, last, overlapped>>
  BY DEF Flush, Goto
<1>7. QED  BY <1>1, <1>3, <1>4, <1>5, <1>6

LEMMA FlushKeeps ==
    ASSUME IInv, NEW w \in Runs, Flush(w)
    PROVE  /\ IInv' /\ \A v \in Runs \ {w} : Untouched(v)
           /\ \A v \in Runs : Remembers(v)
<1>1. PICK t : t = TableOf(ThisOp(w))
  OBVIOUS
<1>2. /\ t \in Tables
      /\ pc' = [pc EXCEPT ![w] = "fetch"]
      /\ base' = [base EXCEPT ![w] = {}]
      /\ UNCHANGED <<stored, plan, got, last, overlapped>>
      /\ \/ NoChange(w) /\ UNCHANGED <<lock, work>>
         \/ /\ lock \in {w, Nobody} /\ lock' = w
            /\ \E rows \in Results(w, work[t]) :
                  /\ work' = [work EXCEPT ![t] = rows]
                  /\ rows \in RowSets /\ Tidy(rows)
                  /\ \A r \in rows : r \in work[t] \/ Told(w, t, r.item)
  BY <1>1, FlushFacts
<1>3. /\ Typed /\ Stores /\ Run(w) /\ pc[w] = "flush" /\ w # Nobody
      /\ plan[w] \in Plans
  BY RunFacts DEF Flush, Active
<1>4. Typed'
  <2>1. work' \in [Tables -> RowSets] /\ lock' \in Runs \cup {Nobody}
    BY <1>2, <1>3 DEF Typed
  <2>2. pc' \in [Runs -> PCs] /\ base' \in [Runs -> RowSets]
    BY <1>2, <1>3 DEF Typed, PCs, RowSets
  <2>3. QED  BY <2>1, <2>2, <1>2, <1>3 DEF Typed
<1>5. \A v \in Runs \ {w} : Untouched(v)
  BY <1>2, <1>3, NobodyAssumption DEF Typed, Untouched
<1>6. \A v \in Runs : Remembers(v)
  <2>1. Remembers(w)
    BY <1>2, <1>3 DEF Remembers, Seen
  <2>2. \A v \in Runs \ {w} : Remembers(v)
    <3> TAKE v \in Runs \ {w}
    <3>1. /\ pc'[v] = pc[v] /\ (lock' = v <=> lock = v)
          /\ plan' = plan /\ got' = got /\ Len(got[v]) \in Nat
      BY <1>2, <1>5, RunFacts DEF Untouched
    <3>2. QED  BY <3>1 DEF Remembers, Seen
  <2>3. QED  BY <2>1, <2>2
<1>7. Stores'
  <2>1. CASE UNCHANGED <<lock, work>>
    BY <2>1, <1>2, <1>3, <1>4, <1>6, StoresUntouched
  <2>2. CASE ~UNCHANGED <<lock, work>>
    <3>1. PICK rows : /\ work' = [work EXCEPT ![t] = rows]
                      /\ rows \in RowSets /\ Tidy(rows)
                      /\ \A r \in rows : r \in work[t] \/ Told(w, t, r.item)
      BY <2>2, <1>2
    <3>2. lock' = w /\ lock' # Nobody /\ stored' = stored
      BY <2>2, <1>2, <1>3
    <3>3. /\ work'[t] = rows
          /\ \A q \in Tables \ {t} : work'[q] = work[q]
      BY <3>1, <1>2, <1>3 DEF Typed
    <3>4. \A q \in Tables : Tidy(stored[q])' /\ Tidy(work[q])'
      BY <3>1, <3>2, <3>3, <1>3 DEF Stores, Tidy
    <3>5. \A q \in Tables : \A r \in stored[q] :
             \E v \in Runs : pc'[v] = "done" /\ Told(v, q, r.item)'
      <4> TAKE q \in Tables
      <4> TAKE r \in stored[q]
      <4>1. PICK v \in Runs : pc[v] = "done" /\ Told(v, q, r.item)
        BY <1>3 DEF Stores
      <4>2. Told(v, q, r.item)'
        BY <4>1, <1>3, <1>4, <1>6, ToldFacts DEF Seen
      <4>3. QED  BY <4>1, <4>2, <1>6 DEF Remembers
    <3>6. \A q \in Tables : \A r \in work'[q] :
             \E v \in Runs : Seen(v)' /\ Told(v, q, r.item)'
      <4> TAKE q \in Tables
      <4> SUFFICES ASSUME NEW r \in work'[q]
                   PROVE  \E v \in Runs : Seen(v)' /\ Told(v, q, r.item)'
        OBVIOUS
      <4>1. PICK item : item = r.item
        OBVIOUS
      <4>2. \E v \in Runs : (Seen(v) \/ v = w) /\ Told(v, q, item)
        BY <4>1, <3>1, <3>3, <1>3 DEF Stores
      <4>3. PICK v \in Runs : (Seen(v) \/ v = w) /\ Told(v, q, item)
        BY <4>2
      <4>4. Seen(v)'
        BY <4>3, <3>2, <1>6 DEF Seen, Remembers
      <4>5. Told(v, q, item)'
        BY <4>3, <1>2 DEF Told, Listed
      <4>6. QED  BY <4>1, <4>4, <4>5
    <3>7. QED  BY <3>2, <3>4, <3>5, <3>6 DEF Stores
  <2>3. QED  BY <2>1, <2>2
<1>8. Run(w)'
  <2>1. /\ pc'[w] = "fetch" /\ plan'[w] = plan[w] /\ got'[w] = got[w]
        /\ Len(got[w]) <= Len(plan[w])
    BY <1>2, <1>3 DEF Typed, Run
  <2>2. QED  BY <2>1, <1>3 DEF Run, Active
<1>9. QED  BY <1>4, <1>5, <1>6, <1>7, <1>8, StepOfRun

LEMMA CommitKeeps ==
    ASSUME IInv, NEW w \in Runs, Commit(w)
    PROVE  /\ IInv' /\ \A v \in Runs \ {w} : Untouched(v)
           /\ \A v \in Runs : Remembers(v)
<1>1. /\ Typed /\ Stores /\ Run(w) /\ pc[w] = "fetch" /\ w # Nobody
      /\ plan[w] \in Plans
  BY RunFacts DEF Commit, Active
<1>2. /\ stored' = IF lock = w THEN work ELSE stored
      /\ lock' = IF lock = w THEN Nobody ELSE lock
      /\ last' = [t \in Tables |-> IF t \in Written(w) /\ ~NothingFound(w)
                                   THEN w ELSE last[t]]
      /\ pc' = [pc EXCEPT ![w] = "done"]
      /\ UNCHANGED <<work, plan, got, base, overlapped>>
  BY DEF Commit, View, Goto
<1>3. Typed'
  <2>1. pc' \in [Runs -> PCs]
    BY <1>1, <1>2 DEF Typed, PCs
  <2>2. last' \in [Tables -> Runs \cup {Nobody}]
    BY <1>1, <1>2 DEF Typed
  <2>3. QED  BY <2>1, <2>2, <1>1, <1>2 DEF Typed
<1>4. \A v \in Runs \ {w} : Untouched(v)
  BY <1>1, <1>2, NobodyAssumption DEF Typed, Untouched
<1>5. pc'[w] = "done" /\ \A v \in Runs : pc[v] = "done" => pc'[v] = "done"
  BY <1>1, <1>2 DEF Typed
<1>6. \A v \in Runs : \A t, item : Told(v, t, item)' <=> Told(v, t, item)
  BY <1>2 DEF Told, Listed
<1>7. Stores'
  <2>1. \A t \in Tables : Tidy(stored[t])' /\ Tidy(work[t])'
    BY <1>1, <1>2 DEF Stores, Tidy
  <2>2. lock' = Nobody => work' = stored'
    BY <1>1, <1>2 DEF Stores
  <2>3. \A t \in Tables : \A r \in work[t] :
           \E v \in Runs : Seen(v)' /\ Told(v, t, r.item)
    <3> TAKE t \in Tables
    <3> TAKE r \in work[t]
    <3>1. PICK v \in Runs : Seen(v) /\ Told(v, t, r.item)
      BY <1>1 DEF Stores
    <3>2. Seen(v)'
      BY <3>1, <1>2, <1>5 DEF Seen
    <3>3. QED  BY <3>1, <3>2
  <2>4. \A t \in Tables : \A r \in stored'[t] :
           \E v \in Runs : pc'[v] = "done" /\ Told(v, t, r.item)
    <3>1. CASE lock = w
      <4>1. stored' = work
        BY <3>1, <1>2
      <4>2. \A v \in Runs : Seen(v) => pc'[v] = "done"
        BY <3>1, <1>1, <1>5 DEF Seen
      <4>3. QED  BY <4>1, <4>2, <1>1 DEF Stores
    <3>2. CASE lock # w
      BY <3>2, <1>1, <1>2, <1>5 DEF Stores
    <3>3. QED  BY <3>1, <3>2
  <2>5. QED  BY <2>1, <2>2, <2>3, <2>4, <1>2, <1>6 DEF Stores
<1>8. Run(w)'
  BY <1>1, <1>2, <1>5 DEF Run
<1>9. \A v \in Runs : Remembers(v)
  <2> TAKE v \in Runs
  <2>1. Len(got[v]) \in Nat
    BY RunFacts
  <2>2. Seen(v) => Seen(v)'
    BY <1>2, <1>5 DEF Seen
  <2>3. QED  BY <2>1, <2>2, <1>2, <1>5 DEF Remembers
<1>10. QED  BY <1>3, <1>4, <1>7, <1>8, <1>9, StepOfRun

LEMMA FailsKeeps ==
    ASSUME IInv, NEW w \in Runs, Fails(w)
    PROVE  IInv' /\ \A v \in Runs \ {w} : Untouched(v)
<1>1. /\ Typed /\ Stores /\ Run(w) /\ Active(w) /\ w # Nobody
  BY RunFacts DEF Fails
<1>2. /\ work' = IF lock = w THEN stored ELSE work
      /\ stored' = stored
      /\ lock' = IF lock = w THEN Nobody ELSE lock
      /\ plan' = [plan EXCEPT ![w] = <<>>]
      /\ got' = [got EXCEPT ![w] = <<>>]
      /\ base' = [base EXCEPT ![w] = {}]
      /\ pc' = [pc EXCEPT ![w] = "failed"]
      /\ UNCHANGED <<last, overlapped>>
  BY DEF Fails, Rollback, Goto
<1>3. Typed'
  <2>1. pc' \in [Runs -> PCs] /\ base' \in [Runs -> RowSets]
    BY <1>1, <1>2 DEF Typed, PCs, RowSets
  <2>2. got' \in [Runs -> Seq(AllResponses)]
    BY <1>1, <1>2 DEF Typed
  <2>3. QED  BY <2>1, <2>2, <1>1, <1>2 DEF Typed
<1>4. \A v \in Runs \ {w} : Untouched(v)
  BY <1>1, <1>2, NobodyAssumption DEF Typed, Untouched
<1>5. \A v \in Runs \ {w} : \A t, item : Told(v, t, item) => Told(v, t, item)'
  BY <1>1, <1>2 DEF Typed, Told, Listed
<1>6. pc[w] # "done" /\ \A v \in Runs \ {w} : pc'[v] = pc[v]
  BY <1>1, <1>2 DEF Active, Typed
<1>7. Stores'
  <2>1. \A t \in Tables : Tidy(stored[t])' /\ Tidy(work[t])'
    BY <1>1, <1>2 DEF Stores, Tidy
  <2>2. lock' = Nobody => work' = stored'
    BY <1>1, <1>2 DEF Stores
  <2>3. \A t \in Tables : \A r \in stored[t] :
           \E v \in Runs : pc'[v] = "done" /\ Told(v, t, r.item)'
    <3> TAKE t \in Tables
    <3> TAKE r \in stored[t]
    <3>1. PICK v \in Runs : pc[v] = "done" /\ Told(v, t, r.item)
      BY <1>1 DEF Stores
    <3>2. v # w
      BY <3>1, <1>6
    <3>3. QED  BY <3>1, <3>2, <1>5, <1>6
  <2>4. \A t \in Tables : \A r \in work'[t] :
           \E v \in Runs : Seen(v)' /\ Told(v, t, r.item)'
    <3>1. CASE lock = w
      BY <3>1, <2>3, <1>2 DEF Seen
    <3>2. CASE lock # w
      <4> TAKE t \in Tables
      <4>1. \A r \in work[t] : \E v \in Runs : Seen(v)' /\ Told(v, t, r.item)'
        <5> TAKE r \in work[t]
        <5>1. PICK v \in Runs : Seen(v) /\ Told(v, t, r.item)
          BY <1>1 DEF Stores
        <5>2. v # w
          BY <5>1, <3>2, <1>6 DEF Seen
        <5>3. Seen(v)'
          BY <5>1, <5>2, <3>2, <1>2, <1>6 DEF Seen
        <5>4. QED  BY <5>1, <5>2, <5>3, <1>5
      <4>2. QED  BY <4>1, <3>2, <1>2
    <3>3. QED  BY <3>1, <3>2
  <2>5. QED  BY <2>1, <2>2, <2>3, <2>4, <1>2 DEF Stores
<1>8. Run(w)'
  <2>1. pc'[w] = "failed" /\ plan'[w] = <<>> /\ got'[w] = <<>> /\ lock' # w
    BY <1>1, <1>2 DEF Typed
  <2>2. Len(<<>>) <= Len(<<>>)
    OBVIOUS
  <2>3. QED  BY <2>1, <2>2 DEF Run
<1>9. QED  BY <1>3, <1>4, <1>7, <1>8, StepOfRun

LEMMA NextKeeps == IInv /\ [Next]_vars => IInv'
<1> SUFFICES ASSUME IInv, [Next]_vars PROVE IInv'  OBVIOUS
<1>1. CASE UNCHANGED vars
  <2>1. UNCHANGED <<stored, work, lock, pc, plan, got, base, last, overlapped>>
    BY <1>1 DEF vars
  <2>2. Typed'
    BY <2>1 DEF IInv, Typed
  <2>3. \A w \in Runs : Untouched(w) /\ Remembers(w)
    BY <2>1, RunFacts DEF Untouched, Remembers, Seen
  <2>4. Stores'
    BY <2>1, <2>2, <2>3, StoresUntouched
  <2>5. QED  BY <2>2, <2>3, <2>4, UntouchedRun DEF IInv
<1>2. ASSUME NEW w \in Runs, Begin(w)         PROVE IInv'  BY <1>2, BeginKeeps
<1>3. ASSUME NEW w \in Runs, FetchAndRead(w)  PROVE IInv'  BY <1>3, FetchAndReadKeeps
<1>4. ASSUME NEW w \in Runs, Flush(w)         PROVE IInv'  BY <1>4, FlushKeeps
<1>5. ASSUME NEW w \in Runs, Commit(w)        PROVE IInv'  BY <1>5, CommitKeeps
<1>6. ASSUME NEW w \in Runs, Fails(w)         PROVE IInv'  BY <1>6, FailsKeeps
<1>7. QED  BY <1>1, <1>2, <1>3, <1>4, <1>5, <1>6 DEF Next

-----------------------------------------------------------------------------
(* Crawls.                                                                 *)

\* The attachments of a crawl that replaces the very rows it has read.
LEMMA CrawlPlaceFacts ==
    ASSUME NEW rows \in RowSets, Tidy(rows), NEW resp \in AllResponses,
           NEW f \in Lookups(rows)
    PROVE  LET new == Place("crawl", f, rows, rows, resp) IN
           /\ Listed(resp) \subseteq ItemsOf(new)
           /\ Unique(rows) /\ Distinct(resp) =>
                 ItemsOf(new) \subseteq Listed(resp) /\ Unique(new)
<1>1. PICK K : K = ItemsOf(rows)
  OBVIOUS
<1>2. PICK L : L = Listed(resp)
  OBVIOUS
<1>3. PICK new : new = Place("crawl", f, rows, rows, resp)
  OBVIOUS
<1>4. PICK D : D = {f[k] : k \in K \ L}
  OBVIOUS
<1>5. PICK I : I = {i \in DOMAIN resp : resp[i] \notin K}
  OBVIOUS
<1>6. new = {r \in rows : r.id \notin D} \cup {[id |-> i, item |-> resp[i]] : i \in I}
  BY <1>1, <1>2, <1>3, <1>4, <1>5 DEF Place, Deleted, Inserted
<1>7. \A k \in K : [id |-> f[k], item |-> k] \in rows
  BY <1>1 DEF Lookups
<1>8. \A r \in rows : r.item \in K /\ r = [id |-> r.id, item |-> r.item]
  BY <1>1 DEF ItemsOf, RowSets
<1>9. \A r, s \in rows : r.id = s.id => r = s
  BY DEF Tidy
<1>10. \A i \in DOMAIN resp : resp[i] \in L
  BY <1>2 DEF Listed
<1>11. L \subseteq ItemsOf(new)
  <2> SUFFICES ASSUME NEW k \in L PROVE k \in ItemsOf(new)
    OBVIOUS
  <2>1. CASE k \in K
    <3>1. PICK r : r = [id |-> f[k], item |-> k]
      OBVIOUS
    <3>2. r \in rows /\ r.id = f[k] /\ r.item = k
      BY <2>1, <3>1, <1>7
    <3>3. ASSUME NEW n \in K \ L, f[n] = f[k] PROVE FALSE
      <4>1. [id |-> f[n], item |-> n] = r
        BY <3>2, <3>3, <1>7, <1>9
      <4>2. QED  BY <4>1, <3>2, <3>3
    <3>4. r.id \notin D
      BY <3>2, <3>3, <1>4
    <3>5. QED  BY <3>2, <3>4, <1>6 DEF ItemsOf
  <2>2. CASE k \notin K
    <3>1. PICK i \in I : resp[i] = k
      BY <2>2, <1>2, <1>5 DEF Listed
    <3>2. [id |-> i, item |-> resp[i]] \in new
      BY <1>6
    <3>3. QED  BY <3>1, <3>2 DEF ItemsOf
  <2>3. QED  BY <2>1, <2>2
<1>12. ASSUME Unique(rows), Distinct(resp)
       PROVE  ItemsOf(new) \subseteq L /\ Unique(new)
  <2>1. \A r \in rows : r.id \notin D => r.item \in L
    <3> SUFFICES ASSUME NEW r \in rows, r.item \notin L PROVE r.id \in D
      OBVIOUS
    <3>1. PICK k : k = r.item
      OBVIOUS
    <3>2. [id |-> f[k], item |-> k] = r
      BY <3>1, <1>7, <1>8, <1>12 DEF Unique
    <3>3. r.id = f[k]
      BY <3>2
    <3>4. QED  BY <3>1, <3>3, <1>4, <1>8
  <2>2. \A r \in new : \/ r \in rows /\ r.item \in K /\ r.item \in L
                       \/ \E i \in I : r = [id |-> i, item |-> resp[i]]
    BY <2>1, <1>6, <1>8
  <2>3. ItemsOf(new) \subseteq L
    BY <2>2, <1>5, <1>10 DEF ItemsOf
  <2>4. \A i, j \in I : resp[i] = resp[j] => i = j
    BY <1>5, <1>12 DEF Distinct
  <2>5. \A i \in I : resp[i] \notin K
    BY <1>5
  <2>6. \A r, s \in rows : r.item = s.item => r = s
    BY <1>12 DEF Unique
  <2>7. Unique(new)
    BY <2>2, <2>4, <2>5, <2>6 DEF Unique
  <2>8. QED  BY <2>3, <2>7
<1>13. QED  BY <1>2, <1>3, <1>11, <1>12

LEMMA CrawlTable ==
    /\ "crawl" \in Tables /\ "crawl" \in Positional
    /\ \A op : TableOf(op) = "crawl" <=> op = "crawl"
  BY DEF Tables, Operations, TableOf, Positional, FileTables

\* A file that was listed twice stays known as long as its run does.
LEMMA OnceKept ==
    ASSUME Typed, Typed', NEW v \in Runs, Seen(v), Remembers(v), Once(v)'
    PROVE  Once(v)
<1>1. got[v] \in Seq(AllResponses) /\ got'[v] \in Seq(AllResponses)
  BY DEF Typed
<1>2. plan'[v] = plan[v] /\ \A i \in DOMAIN got[v] : i \in DOMAIN got'[v]
                                                     /\ got'[v][i] = got[v][i]
  BY <1>1 DEF Remembers
<1>3. QED  BY <1>2 DEF Once, IsCrawl, Distinct

LEMMA OnceSeenKept ==
    ASSUME Typed, Typed', \A v \in Runs : Remembers(v), OnceSeen'
    PROVE  OnceSeen
<1>1. \A v \in Runs : Seen(v) => Seen(v)'
  BY DEF Remembers
<1>2. \A v \in Runs : Seen(v)' => Once(v)'
  BY DEF OnceSeen
<1>3. QED  BY <1>1, <1>2, OnceKept DEF OnceSeen

\* What is in the attachments table is known from committed runs.
LEMMA StoredFilesKept ==
    ASSUME IInv, Typed', StoredFiles, stored'["crawl"] = stored["crawl"],
           last'["crawl"] = last["crawl"],
           \A v \in Runs : pc[v] = "done" => Untouched(v)
    PROVE  StoredFiles'
<1>1. \A v \in Runs : pc[v] = "done" =>
         pc'[v] = "done" /\ plan'[v] = plan[v] /\ got'[v] = got[v]
  BY DEF Untouched
<1>2. \A v \in Runs : pc[v] = "done" => (Once(v)' <=> Once(v))
  BY <1>1 DEF Once, IsCrawl, Distinct
<1>3. OnceStored' => OnceStored
  BY <1>1, <1>2 DEF OnceStored
<1>4. OnceStored' => Unique(stored["crawl"])'
  BY <1>3 DEF StoredFiles, Unique
<1>5. ASSUME NEW w \in Runs, last'["crawl"] = w
      PROVE  (pc[w] = "done" /\ Crawled(w) /\ Shows(w, stored["crawl"], OnceStored))'
  <2>1. pc[w] = "done" /\ Crawled(w) /\ Shows(w, stored["crawl"], OnceStored)
    BY <1>5 DEF StoredFiles
  <2>2. pc'[w] = "done" /\ plan'[w] = plan[w] /\ got'[w] = got[w]
    BY <2>1, <1>1
  <2>3. Crawled(w)'
    BY <2>1, <2>2 DEF Crawled, IsCrawl
  <2>4. \A i \in DOMAIN got[w] : IsCrawl(w, i)' <=> IsCrawl(w, i)
    BY <2>2 DEF IsCrawl
  <2>5. /\ ItemsOf(stored["crawl"])' = ItemsOf(stored["crawl"])
        /\ \A i \in DOMAIN got[w] : Listed(got[w][i])' = Listed(got[w][i])
    BY <2>2 DEF ItemsOf, Listed
  <2>6. Shows(w, stored["crawl"], OnceStored)'
    BY <2>1, <2>2, <2>4, <2>5, <1>3 DEF Shows
  <2>7. QED  BY <2>2, <2>3, <2>6
<1>6. QED  BY <1>4, <1>5 DEF StoredFiles

\* A run that a step leaves alone; the lock holder's tables with it.
LEMMA UntouchedCrawl ==
    ASSUME IInv, Typed', NEW v \in Runs, Crawl(v), Untouched(v),
           lock = v => UNCHANGED <<stored, work>> /\ (OnceSeen' => OnceSeen)
    PROVE  Crawl(v)'
<1>1. /\ pc'[v] = pc[v] /\ plan'[v] = plan[v] /\ got'[v] = got[v]
      /\ base'[v] = base[v]
      /\ lock' = v <=> lock = v
  BY DEF Untouched
<1>2. Replacing(v) => lock = v
  <2> HAVE Replacing(v)
  <2>1. Active(v) /\ plan[v][Len(got[v])] = "crawl" /\ pc[v] = "flush"
    BY DEF Replacing, Active, ThisOp
  <2>2. Len(got[v]) \in DOMAIN got[v]
    BY <2>1, OperationFacts
  <2>3. Crawled(v)
    BY <2>1, <2>2 DEF Crawled, IsCrawl
  <2>4. QED  BY <2>1, <2>3 DEF Crawl
<1>3. /\ Crawled(v)' <=> Crawled(v)
      /\ Replacing(v)' <=> Replacing(v)
      /\ Active(v)' <=> Active(v)
  BY <1>1 DEF Crawled, IsCrawl, Replacing, ThisOp, Active
<1>4. lock = v => (Shows(v, work["crawl"], OnceSeen) =>
                   Shows(v, work["crawl"], OnceSeen)')
  BY <1>1 DEF Shows, IsCrawl, ItemsOf, Listed
<1>5. QED  BY <1>1, <1>2, <1>3, <1>4 DEF Crawl

LEMMA InitCInv == Init => CInv
<1> SUFFICES ASSUME Init PROVE CInv  OBVIOUS
<1>1. /\ stored["crawl"] = {} /\ work["crawl"] = {} /\ last["crawl"] = Nobody
      /\ \A w \in Runs : pc[w] = "idle" /\ lock # w
  BY CrawlTable, NobodyAssumption DEF Init
<1>2. StoredFiles /\ SeenFiles
  BY <1>1, NobodyAssumption DEF StoredFiles, SeenFiles, Unique
<1>3. \A w \in Runs : Crawl(w)
  BY <1>1 DEF Crawl, Active, Replacing
<1>4. QED  BY <1>2, <1>3 DEF CInv

\* It suffices to look at the run that takes a step.
LEMMA StepOfCrawl ==
    ASSUME IInv, CInv, IInv', NEW w \in Runs, pc[w] # "done",
           \A v \in Runs \ {w} : Untouched(v),
           \A v \in Runs \ {w} : lock = v => /\ UNCHANGED <<stored, work>>
                                             /\ OnceSeen' => OnceSeen,
           StoredFiles' \/ /\ stored'["crawl"] = stored["crawl"]
                           /\ last'["crawl"] = last["crawl"],
           SeenFiles', Crawl(w)'
    PROVE  CInv'
<1>1. Typed'
  BY DEF IInv
<1>2. \A v \in Runs \ {w} : Crawl(v)'
  <2> TAKE v \in Runs \ {w}
  <2>1. Crawl(v) /\ Untouched(v)
    BY DEF CInv
  <2>2. lock = v => UNCHANGED <<stored, work>> /\ (OnceSeen' => OnceSeen)
    OBVIOUS
  <2>3. QED  BY <2>1, <2>2, <1>1, UntouchedCrawl
<1>3. \A v \in Runs : pc[v] = "done" => Untouched(v)
  OBVIOUS
<1>4. StoredFiles'
  BY <1>1, <1>3, StoredFilesKept DEF CInv
<1>5. QED  BY <1>2, <1>4 DEF CInv

LEMMA BeginKeepsFiles ==
    ASSUME IInv, CInv, NEW w \in Runs, Begin(w)
    PROVE  CInv'
<1>1. /\ IInv' /\ Typed /\ Typed' /\ Run(w)
      /\ \A v \in Runs \ {w} : Untouched(v)
      /\ \A v \in Runs : Remembers(v)
  BY BeginKeeps, RunFacts DEF IInv
<1>2. OnceSeen' => OnceSeen
  BY <1>1, OnceSeenKept
<1>3. /\ UNCHANGED <<stored, work, lock, got, last>>
      /\ pc[w] = "idle" /\ pc'[w] = "fetch"
  BY <1>1 DEF Begin, Goto, Typed
<1>4. SeenFiles'
  BY <1>2, <1>3 DEF CInv, SeenFiles, Unique
<1>5. lock' # w /\ ~Crawled(w)'
  BY <1>1, <1>3 DEF Run, Active, Crawled
<1>6. Crawl(w)'
  BY <1>3, <1>5 DEF Crawl, Replacing
<1>7. QED  BY <1>1, <1>2, <1>3, <1>4, <1>6, StepOfCrawl

LEMMA FetchKeepsFiles ==
    ASSUME IInv, CInv, NEW w \in Runs, FetchAndRead(w)
    PROVE  CInv'
<1>1. /\ IInv' /\ Typed /\ Typed' /\ Stores
      /\ \A v \in Runs \ {w} : Untouched(v)
      /\ \A v \in Runs : Remembers(v)
  BY FetchAndReadKeeps, RunFacts DEF IInv
<1>2. OnceSeen' => OnceSeen
  BY <1>1, OnceSeenKept
<1>3. PICK op : op = NextOp(w)
  OBVIOUS
<1>4. PICK resp \in AllResponses :
         /\ got'[w] = Append(got[w], resp)
         /\ \/ UNCHANGED lock
            \/ lock = Nobody /\ lock' = w /\ op = "crawl"
         /\ op = "crawl" => lock' = w
         /\ \/ UNCHANGED <<base, pc>> /\ op # "crawl"
            \/ /\ base' = [base EXCEPT ![w] = View(w)[TableOf(op)]]
               /\ pc' = [pc EXCEPT ![w] = "flush"]
         /\ UNCHANGED <<stored, work, plan, last>>
  BY <1>3, FetchFacts
<1>5. /\ pc[w] = "fetch" /\ Active(w) /\ Crawl(w) /\ ~Replacing(w) /\ w # Nobody
      /\ got[w] \in Seq(AllResponses) /\ Len(got[w]) \in Nat
      /\ DOMAIN got[w] = 1 .. Len(got[w])
      /\ op = plan[w][Len(got[w]) + 1]
  BY <1>3, RunFacts DEF FetchAndRead, Active, CInv, Replacing, NextOp
<1>6. /\ Len(got'[w]) = Len(got[w]) + 1 /\ DOMAIN got'[w] = 1 .. Len(got[w]) + 1
      /\ \A i \in DOMAIN got[w] : got'[w][i] = got[w][i]
      /\ plan'[w] = plan[w]
  BY <1>4, <1>5
<1>7. SeenFiles'
  BY <1>2, <1>4 DEF CInv, SeenFiles, Unique
<1>8. CASE op = "crawl"
  <2>1. lock' = w /\ pc'[w] = "flush" /\ (lock = w \/ lock = Nobody)
    BY <1>1, <1>4, <1>5, <1>8 DEF Typed
  <2>2. base'[w] = View(w)["crawl"]
    BY <1>1, <1>4, <1>8, CrawlTable DEF Typed
  <2>3. base'[w] = work'["crawl"]
    BY <2>1, <2>2, <1>1, <1>4 DEF View, Stores
  <2>4. Crawled(w)' /\ Replacing(w)'
    <3>1. PICK n : n = Len(got[w]) + 1
      OBVIOUS
    <3>2. n \in DOMAIN got'[w] /\ Len(got'[w]) = n /\ plan'[w][n] = "crawl"
      BY <3>1, <1>5, <1>6, <1>8
    <3>3. Crawled(w)'
      BY <3>2 DEF Crawled, IsCrawl
    <3>4. Replacing(w)'
      BY <2>1, <3>2 DEF Replacing, ThisOp
    <3>5. QED  BY <3>3, <3>4
  <2>5. Crawl(w)'
    BY <2>1, <2>3, <2>4 DEF Crawl
  <2>6. QED  BY <2>5, <1>1, <1>2, <1>4, <1>5, <1>7, StepOfCrawl
<1>9. CASE op # "crawl"
  <2>1. lock' = lock /\ pc'[w] \in {"fetch", "flush"}
    BY <1>1, <1>4, <1>5, <1>9 DEF Typed
  <2>2. \A i \in DOMAIN got'[w] : IsCrawl(w, i)' <=> i \in DOMAIN got[w] /\ IsCrawl(w, i)
    BY <1>5, <1>6, <1>9 DEF IsCrawl
  <2>3. (Crawled(w)' <=> Crawled(w)) /\ ~Replacing(w)'
    BY <2>2, <1>5, <1>6, <1>9 DEF Crawled, Replacing, ThisOp, IsCrawl
  <2>4. lock = w => Shows(w, work["crawl"], OnceSeen)'
    <3> HAVE lock = w
    <3>1. Shows(w, work["crawl"], OnceSeen)
      BY <1>5 DEF Crawl
    <3>2. /\ ItemsOf(work["crawl"])' = ItemsOf(work["crawl"])
          /\ \A i \in DOMAIN got[w] : Listed(got[w][i])' = Listed(got[w][i])
      BY <1>4, <1>6 DEF ItemsOf, Listed
    <3>3. QED  BY <3>1, <3>2, <2>2, <1>2, <1>5, <1>6 DEF Shows
  <2>5. Crawl(w)'
    BY <2>1, <2>3, <2>4, <1>4, <1>5 DEF Crawl
  <2>6. QED  BY <2>5, <1>1, <1>2, <1>4, <1>5, <1>7, StepOfCrawl
<1>10. QED  BY <1>8, <1>9

LEMMA FlushKeepsFiles ==
    ASSUME IInv, CInv, NEW w \in Runs, Flush(w)
    PROVE  CInv'
<1>1. /\ IInv' /\ Typed /\ Typed' /\ Stores
      /\ \A v \in Runs \ {w} : Untouched(v)
      /\ \A v \in Runs : Remembers(v)
  BY FlushKeeps, RunFacts DEF IInv
<1>2. OnceSeen' => OnceSeen
  BY <1>1, OnceSeenKept
<1>3. PICK t : t = TableOf(ThisOp(w))
  OBVIOUS
<1>4. /\ t \in Tables
      /\ pc' = [pc EXCEPT ![w] = "fetch"]
      /\ UNCHANGED <<stored, plan, got, last>>
      /\ \/ NoChange(w) /\ UNCHANGED <<lock, work>>
         \/ /\ lock \in {w, Nobody} /\ lock' = w
            /\ \E rows \in Results(w, work[t]) :
                  work' = [work EXCEPT ![t] = rows]
  BY <1>3, FlushFacts
<1>5. /\ pc[w] = "flush" /\ Active(w) /\ Crawl(w) /\ w # Nobody
      /\ Len(got[w]) \in DOMAIN got[w] /\ DOMAIN got[w] = 1 .. Len(got[w])
      /\ Len(got[w]) \in Nat /\ Latest(w) \in AllResponses
      /\ pc'[w] = "fetch" /\ ~Replacing(w)'
      /\ (Crawled(w)' <=> Crawled(w))
      /\ (Replacing(w) <=> t = "crawl")
  <2>1. pc[w] = "flush" /\ Active(w)
    BY DEF Flush, Active
  <2>2. pc'[w] = "fetch" /\ ~Replacing(w)'
    BY <1>1, <1>4 DEF Typed, Replacing
  <2>3. Crawled(w)' <=> Crawled(w)
    BY <1>4 DEF Crawled, IsCrawl
  <2>4. Replacing(w) <=> t = "crawl"
    BY <2>1, <1>3, CrawlTable DEF Replacing
  <2>5. QED  BY <2>1, <2>2, <2>3, <2>4, OperationFacts, RunFacts DEF CInv
<1>6. \A v \in Runs \ {w} : lock = v => UNCHANGED <<stored, work>>
  BY <1>1, <1>4, <1>5, NobodyAssumption
\* The part that is about the rows: of the run's last crawl, and all of them.
<1>7. /\ lock' = w => Shows(w, work["crawl"], OnceSeen)'
      /\ SeenFiles'
      /\ lock' = w /\ ~Crawled(w) => work'["crawl"] = stored["crawl"]
  <2>1. CASE t # "crawl"
    <3>1. work'["crawl"] = work["crawl"]
      BY <2>1, <1>1, <1>4, CrawlTable DEF Typed
    <3>2. SeenFiles'
      BY <3>1, <1>2 DEF CInv, SeenFiles, Unique
    <3>3. lock' = w => lock = w \/ (~Crawled(w) /\ work = stored)
      BY <1>1, <1>4, <1>5 DEF Crawl, Stores
    <3>4. lock = w => Shows(w, work["crawl"], OnceSeen)
      BY <2>1, <1>5 DEF Crawl
    <3>5. ASSUME lock' = w PROVE Shows(w, work["crawl"], OnceSeen)'
      <4>1. CASE lock = w
        <5>1. \A i \in DOMAIN got[w] : /\ IsCrawl(w, i)' <=> IsCrawl(w, i)
                                       /\ Listed(got[w][i])' = Listed(got[w][i])
          BY <1>4 DEF IsCrawl, Listed
        <5>2. ItemsOf(work["crawl"])' = ItemsOf(work["crawl"])
          BY <3>1 DEF ItemsOf
        <5>3. QED  BY <4>1, <5>1, <5>2, <3>4, <1>2, <1>4 DEF Shows
      <4>2. CASE lock # w
        BY <4>2, <3>3, <3>5, <1>4 DEF Shows, Crawled, IsCrawl
      <4>3. QED  BY <4>1, <4>2
    <3>6. lock' = w /\ ~Crawled(w) => work'["crawl"] = stored["crawl"]
      BY <3>1, <3>3, <1>5 DEF Crawl
    <3>7. QED  BY <3>2, <3>5, <3>6
  <2>2. CASE t = "crawl"
    <3>1. PICK rows : rows = work["crawl"]
      OBVIOUS
    <3>2. PICK new : new = work'["crawl"]
      OBVIOUS
    <3>3. PICK resp : resp = got[w][Len(got[w])]
      OBVIOUS
    <3>4. /\ base[w] = rows /\ rows \in RowSets /\ Tidy(rows)
          /\ resp = Latest(w) /\ resp \in AllResponses
          /\ IsCrawl(w, Len(got[w])) /\ Crawled(w) /\ lock = w
      <4>1. IsCrawl(w, Len(got[w]))
        BY <2>2, <1>5 DEF IsCrawl, Replacing, ThisOp
      <4>2. Crawled(w)
        BY <4>1, <1>5 DEF Crawled
      <4>3. base[w] = rows /\ lock = w
        BY <4>2, <2>2, <3>1, <1>5 DEF Crawl
      <4>4. rows \in RowSets /\ Tidy(rows)
        BY <3>1, <1>1, CrawlTable DEF Typed, Stores
      <4>5. QED  BY <4>1, <4>2, <4>3, <4>4, <3>3, <1>5 DEF Latest
    <3>5. /\ Listed(resp) \subseteq ItemsOf(new)
          /\ Unique(rows) /\ Distinct(resp) =>
                ItemsOf(new) \subseteq Listed(resp) /\ Unique(new)
      <4>1. CASE NoChange(w) /\ UNCHANGED <<lock, work>>
        <5>1. new = {} /\ resp = <<>>
          BY <4>1, <3>1, <3>2, <3>4 DEF NoChange
        <5>2. QED  BY <5>1 DEF Listed, ItemsOf, Unique
      <4>2. CASE ~(NoChange(w) /\ UNCHANGED <<lock, work>>)
        <5>1. new \in Results(w, rows)
          BY <4>2, <2>2, <3>1, <3>2, <1>1, <1>4 DEF Typed
        <5>2. ThisOp(w) = "crawl" /\ TableOf(ThisOp(w)) \in Positional
          BY <2>2, <1>3, CrawlTable
        <5>3. PICK f \in Lookups(rows) : new = Place("crawl", f, rows, rows, resp)
          BY <5>1, <5>2, <3>4 DEF Results
        <5>4. QED  BY <5>3, <3>4, CrawlPlaceFacts
      <4>3. QED  BY <4>1, <4>2
    <3>6. OnceSeen' => Unique(rows) /\ Distinct(resp)
      <4> HAVE OnceSeen'
      <4>1. OnceSeen /\ Unique(rows)
        BY <3>1, <1>2 DEF CInv, SeenFiles
      <4>2. Once(w)
        BY <4>1, <3>4 DEF OnceSeen, Seen
      <4>3. QED  BY <4>1, <4>2, <3>3, <3>4, <1>5 DEF Once
    <3>7. SeenFiles'
      BY <3>2, <3>5, <3>6 DEF SeenFiles, Unique
    <3>8. Shows(w, work["crawl"], OnceSeen)'
      <4>1. \A i \in DOMAIN got[w] :
               (IsCrawl(w, i) /\ \A j \in DOMAIN got[w] : IsCrawl(w, j) => j <= i)
               => got[w][i] = resp
        <5> TAKE i \in DOMAIN got[w]
        <5> HAVE IsCrawl(w, i) /\ \A j \in DOMAIN got[w] : IsCrawl(w, j) => j <= i
        <5>1. Len(got[w]) <= i /\ i \in 1 .. Len(got[w])
          BY <3>4, <1>5
        <5>2. i = Len(got[w])
          BY <5>1, <1>5
        <5>3. QED  BY <5>2, <3>3
      <4>2. \A i \in DOMAIN got[w] : /\ IsCrawl(w, i)' <=> IsCrawl(w, i)
                                     /\ Listed(got[w][i])' = Listed(got[w][i])
        BY <1>4 DEF IsCrawl, Listed
      <4>3. ItemsOf(work["crawl"])' = ItemsOf(new)
        BY <3>2 DEF ItemsOf
      <4>4. QED  BY <4>1, <4>2, <4>3, <3>5, <3>6, <1>4 DEF Shows
    <3>9. QED  BY <3>4, <3>7, <3>8
  <2>3. QED  BY <2>1, <2>2
<1>8. Active(w)' /\ Crawled(w)' => lock' = w
  BY <1>4, <1>5 DEF Crawl
<1>9. Crawl(w)'
  BY <1>4, <1>5, <1>7, <1>8 DEF Crawl
<1>10. QED  BY <1>1, <1>2, <1>4, <1>5, <1>6, <1>7, <1>9, StepOfCrawl

LEMMA CommitKeepsFiles ==
    ASSUME IInv, CInv, NEW w \in Runs, Commit(w)
    PROVE  CInv'
<1>1. /\ IInv' /\ Typed /\ Typed' /\ Stores
      /\ \A v \in Runs \ {w} : Untouched(v)
      /\ \A v \in Runs : Remembers(v)
  BY CommitKeeps, RunFacts DEF IInv
<1>2. OnceSeen' => OnceSeen
  BY <1>1, OnceSeenKept
<1>3. /\ stored' = IF lock = w THEN work ELSE stored
      /\ lock' = IF lock = w THEN Nobody ELSE lock
      /\ last' = [t \in Tables |-> IF t \in Written(w) /\ ~NothingFound(w)
                                   THEN w ELSE last[t]]
      /\ pc' = [pc EXCEPT ![w] = "done"]
      /\ UNCHANGED <<work, plan, got>>
  BY DEF Commit, View, Goto
<1>4. /\ pc[w] = "fetch" /\ Active(w) /\ Crawl(w) /\ ~Replacing(w) /\ w # Nobody
      /\ DOMAIN got[w] = 1 .. Len(got[w])
      /\ pc'[w] = "done" /\ lock' # w
  BY <1>1, <1>3, RunFacts DEF Commit, Active, CInv, Replacing, Typed
<1>5. last'["crawl"] = IF Crawled(w) THEN w ELSE last["crawl"]
  <2>1. "crawl" \in Written(w) <=> Crawled(w)
    BY <1>4, CrawlTable DEF Written, Crawled, IsCrawl
  <2>2. Crawled(w) => ~NothingFound(w)
    <3> SUFFICES ASSUME NothingFound(w), Crawled(w) PROVE FALSE
      OBVIOUS
    <3>1. plan[w] = <<"integration", "timeline">> /\ Len(got[w]) = 1
      BY DEF NothingFound
    <3>2. plan[w][1] = "crawl"
      BY <3>1, <1>4 DEF Crawled, IsCrawl
    <3>3. QED  BY <3>1, <3>2
  <2>3. QED  BY <2>1, <2>2, <1>3, CrawlTable
<1>6. SeenFiles'
  BY <1>2, <1>3 DEF CInv, SeenFiles, Unique
<1>7. Crawl(w)'
  BY <1>4 DEF Crawl, Active, Replacing
<1>8. \A v \in Runs \ {w} : lock = v => UNCHANGED <<stored, work>>
  BY <1>3
<1>9. CASE ~Crawled(w)
  <2>1. stored'["crawl"] = stored["crawl"]
    BY <1>3, <1>4, <1>9 DEF Crawl
  <2>2. QED
    BY <2>1, <1>1, <1>2, <1>4, <1>5, <1>6, <1>7, <1>8, <1>9, StepOfCrawl
<1>10. CASE Crawled(w)
  <2>1. lock = w /\ Shows(w, work["crawl"], OnceSeen)
    BY <1>4, <1>10 DEF Crawl
  <2>2. OnceStored' => OnceSeen
    <3>1. \A v \in Runs : Seen(v) => pc'[v] = "done"
      BY <2>1, <1>1, <1>4 DEF Seen, Remembers
    <3>2. \A v \in Runs : Once(v)' <=> Once(v)
      BY <1>3 DEF Once, IsCrawl, Distinct
    <3>3. QED  BY <3>1, <3>2 DEF OnceStored, OnceSeen
  <2>3. stored' = work
    BY <2>1, <1>3
  <2>4. OnceStored' => Unique(stored["crawl"])'
    BY <2>2, <2>3 DEF CInv, SeenFiles, Unique
  <2>5. Crawled(w)'
    BY <1>3, <1>10 DEF Crawled, IsCrawl
  <2>6. Shows(w, stored["crawl"], OnceStored)'
    <3>1. \A i \in DOMAIN got[w] : /\ IsCrawl(w, i)' <=> IsCrawl(w, i)
                                   /\ Listed(got[w][i])' = Listed(got[w][i])
      BY <1>3 DEF IsCrawl, Listed
    <3>2. ItemsOf(stored["crawl"])' = ItemsOf(work["crawl"])
      BY <2>3 DEF ItemsOf
    <3>3. QED  BY <3>1, <3>2, <2>1, <2>2, <1>3 DEF Shows
  <2>7. StoredFiles'
    <3>1. last'["crawl"] = w
      BY <1>5, <1>10
    <3>2. QED  BY <3>1, <2>4, <2>5, <2>6, <1>4 DEF StoredFiles
  <2>8. QED  BY <2>7, <1>1, <1>2, <1>4, <1>6, <1>7, <1>8, StepOfCrawl
<1>11. QED  BY <1>9, <1>10

LEMMA FailsKeepsFiles ==
    ASSUME IInv, CInv, NEW w \in Runs, Fails(w)
    PROVE  CInv'
<1>1. /\ IInv' /\ Typed /\ Typed' /\ Stores
      /\ \A v \in Runs \ {w} : Untouched(v)
  BY FailsKeeps, RunFacts DEF IInv
<1>2. /\ work' = IF lock = w THEN stored ELSE work
      /\ stored' = stored /\ last' = last
      /\ lock' = IF lock = w THEN Nobody ELSE lock
      /\ pc' = [pc EXCEPT ![w] = "failed"]
  BY DEF Fails, Rollback, Goto
<1>3. /\ pc[w] # "done" /\ pc'[w] = "failed" /\ lock' # w /\ w # Nobody
  BY <1>1, <1>2, RunFacts DEF Fails, Active, Typed
<1>4. \A v \in Runs \ {w} : (Once(v)' <=> Once(v)) /\ pc'[v] = pc[v]
                            /\ (lock' = v <=> lock = v)
  <2> TAKE v \in Runs \ {w}
  <2>1. /\ pc'[v] = pc[v] /\ plan'[v] = plan[v] /\ got'[v] = got[v]
        /\ lock' = v <=> lock = v
    BY <1>1 DEF Untouched
  <2>2. QED  BY <2>1 DEF Once, IsCrawl, Distinct
<1>5. OnceStored' => OnceStored
  BY <1>3, <1>4 DEF OnceStored
<1>6. lock # w => (OnceSeen' => OnceSeen)
  BY <1>3, <1>4 DEF OnceSeen, Seen
<1>7. SeenFiles'
  <2>1. CASE lock # w
    BY <2>1, <1>2, <1>6 DEF CInv, SeenFiles, Unique
  <2>2. CASE lock = w
    <3>1. OnceSeen' => OnceStored'
      BY DEF OnceSeen, OnceStored, Seen
    <3>2. QED  BY <2>2, <3>1, <1>2, <1>5 DEF CInv, SeenFiles, StoredFiles, Unique
  <2>3. QED  BY <2>1, <2>2
<1>8. Crawl(w)'
  BY <1>3 DEF Crawl, Active, Replacing
<1>9. \A v \in Runs \ {w} : lock = v => /\ UNCHANGED <<stored, work>>
                                        /\ OnceSeen' => OnceSeen
  BY <1>2, <1>6
<1>10. QED  BY <1>1, <1>2, <1>3, <1>7, <1>8, <1>9, StepOfCrawl

LEMMA NextKeepsFiles == IInv /\ CInv /\ [Next]_vars => CInv'
<1> SUFFICES ASSUME IInv, CInv, [Next]_vars PROVE CInv'  OBVIOUS
<1>1. CASE UNCHANGED vars
  <2>1. UNCHANGED <<stored, work, lock, pc, plan, got, base, last, overlapped>>
    BY <1>1 DEF vars
  <2>2. Typed' /\ \A w \in Runs : Untouched(w)
    BY <2>1, NextKeeps DEF IInv, Untouched
  <2>3. OnceSeen' => OnceSeen
    BY <2>1 DEF OnceSeen, Seen, Once, IsCrawl, Distinct
  <2>4. SeenFiles'
    BY <2>1, <2>3 DEF CInv, SeenFiles, Unique
  <2>5. StoredFiles'
    BY <2>1, <2>2, StoredFilesKept DEF CInv
  <2>6. \A w \in Runs : Crawl(w)'
    BY <2>1, <2>2, <2>3, UntouchedCrawl DEF CInv
  <2>7. QED  BY <2>4, <2>5, <2>6 DEF CInv
<1>2. ASSUME NEW w \in Runs, Begin(w)         PROVE CInv'  BY <1>2, BeginKeepsFiles
<1>3. ASSUME NEW w \in Runs, FetchAndRead(w)  PROVE CInv'  BY <1>3, FetchKeepsFiles
<1>4. ASSUME NEW w \in Runs, Flush(w)         PROVE CInv'  BY <1>4, FlushKeepsFiles
<1>5. ASSUME NEW w \in Runs, Commit(w)        PROVE CInv'  BY <1>5, CommitKeepsFiles
<1>6. ASSUME NEW w \in Runs, Fails(w)         PROVE CInv'  BY <1>6, FailsKeepsFiles
<1>7. QED  BY <1>1, <1>2, <1>3, <1>4, <1>5, <1>6 DEF Next

\* NoFileTwice counts; here is what it means.
LEMMA DistinctFacts ==
    ASSUME NEW resp \in AllResponses
    PROVE  /\ IsFiniteSet(Listed(resp))
           /\ Cardinality(Listed(resp)) = Len(resp) => Distinct(resp)
<1>1. Len(resp) \in Nat /\ DOMAIN resp = 1 .. Len(resp)
  BY ResponseFacts
<1>2. IsFiniteSet(DOMAIN resp) /\ Cardinality(DOMAIN resp) = Len(resp)
  <2>1. PICK n \in Nat : n = Len(resp)
    BY <1>1
  <2>2. /\ IsFiniteSet(1 .. n)
        /\ Cardinality(1 .. n) = IF 1 > n THEN 0 ELSE n - 1 + 1
    BY FS_Interval
  <2>3. Cardinality(1 .. n) = n
    BY <2>2
  <2>4. QED  BY <2>1, <2>2, <2>3, <1>1
<1>3. resp \in Surjection(DOMAIN resp, Listed(resp))
  BY <1>1, ResponseFacts DEF Surjection, Listed
<1>4. IsFiniteSet(Listed(resp))
  BY <1>2, <1>3, FS_Surjection
<1>5. Cardinality(Listed(resp)) = Len(resp) =>
         resp \in Injection(DOMAIN resp, Listed(resp))
  BY <1>2, <1>3, FS_SurjSameCardinalityImpliesInj
<1>6. QED  BY <1>4, <1>5 DEF Injection, IsInjective, Distinct

\* Rows without a repeated item are as many as their items.
LEMMA UniqueFacts ==
    ASSUME NEW rows, Unique(rows), IsFiniteSet(ItemsOf(rows))
    PROVE  Cardinality(rows) = Cardinality(ItemsOf(rows))
<1> DEFINE g == [k \in ItemsOf(rows) |-> CHOOSE r \in rows : r.item = k]
<1>1. \A k \in ItemsOf(rows) : g[k] \in rows /\ g[k].item = k
  BY DEF ItemsOf
<1>2. \A r \in rows : r.item \in ItemsOf(rows) /\ g[r.item] = r
  BY <1>1 DEF Unique, ItemsOf
<1>3. g \in [ItemsOf(rows) -> rows]
  BY <1>1
<1>4. g \in Bijection(ItemsOf(rows), rows)
  <2> HIDE DEF g
  <2>1. \A a, b \in DOMAIN g : g[a] = g[b] => a = b
    BY <1>1, <1>3
  <2>2. \A r \in rows : \E k \in ItemsOf(rows) : g[k] = r
    BY <1>2
  <2>3. QED  BY <2>1, <2>2, <1>3 DEF Bijection, Injection, Surjection, IsInjective
<1>5. ExistsBijection(ItemsOf(rows), rows)
  BY <1>4 DEF ExistsBijection
<1>6. QED  BY <1>5, FS_Bijection

-----------------------------------------------------------------------------
(* Runs one after the other.                                               *)

\* A table that is replaced by the very run that has read it.
LEMMA ReplacedFacts ==
    ASSUME NEW w, NEW rows \in RowSets, Tidy(rows), base[w] = rows,
           Latest(w) \in AllResponses, TableOf(ThisOp(w)) \notin FileTables,
           NEW new \in Results(w, rows)
    PROVE  \E c \in Nat : new = Listing(c, Latest(w))
<1>1. PICK resp \in AllResponses : resp = Latest(w)
  OBVIOUS
<1>2. PICK top : top = TopId(rows)
  OBVIOUS
<1>3. top \in Nat /\ (\A r \in rows : r.id <= top) /\ DOMAIN resp = 1 .. Len(resp)
  BY <1>2, TopIdFacts, ResponseFacts
<1>4. \A r \in rows : r.id \in Nat
  BY DEF RowSets
<1>5. CASE TableOf(ThisOp(w)) \in Positional
  <2>1. ThisOp(w) = "change"
    BY <1>5 DEF Positional, FileTables, TableOf
  <2>2. PICK f : new = Place("change", f, rows, rows, resp)
    BY <2>1, <1>1, <1>5 DEF Results
  <2>3. new = {r \in rows : r.id \notin IdsOf(rows)}
              \cup {[id |-> i, item |-> resp[i]] : i \in DOMAIN resp}
    BY <2>2 DEF Place, Deleted, Inserted
  <2>4. new = {[id |-> i, item |-> resp[i]] : i \in DOMAIN resp}
    BY <2>3 DEF IdsOf
  <2>5. \A i \in DOMAIN resp : 0 + i = i
    BY <1>3
  <2>6. new = Listing(0, resp)
    BY <2>4, <2>5 DEF Listing
  <2>7. QED  BY <2>6, <1>1
<1>6. CASE TableOf(ThisOp(w)) \notin Positional
  <2>1. new = {r \in rows \cup Listing(top, resp) : r.id \notin IdsOf(rows)}
    BY <1>1, <1>2, <1>6 DEF Results, ReplaceAll, Listing
  <2>2. \A r \in Listing(top, resp) : r.id \notin IdsOf(rows)
    <3> TAKE r \in Listing(top, resp)
    <3>1. PICK i \in DOMAIN resp : r.id = top + i
      BY DEF Listing
    <3>2. QED  BY <3>1, <1>3, <1>4 DEF IdsOf
  <2>3. \A r \in rows : r.id \in IdsOf(rows)
    BY DEF IdsOf
  <2>4. new = Listing(top, resp)
    BY <2>1, <2>2, <2>3
  <2>5. QED  BY <2>4, <1>1, <1>3
<1>7. QED  BY <1>5, <1>6

\* Rows of a listing are as many as the response repeats their item.
LEMMA ListingFacts ==
    ASSUME NEW resp \in AllResponses, NEW c \in Nat, NEW n
    PROVE  Cardinality({r \in Listing(c, resp) : r.item = n}) = Count(n, resp)
<1>1. Len(resp) \in Nat /\ DOMAIN resp = 1 .. Len(resp)
  BY ResponseFacts
<1>2. PICK A : A = {i \in DOMAIN resp : resp[i] = n}
  OBVIOUS
<1>3. PICK B : B = {r \in Listing(c, resp) : r.item = n}
  OBVIOUS
<1>4. IsFiniteSet(A)
  <2>1. IsFiniteSet(DOMAIN resp)
    BY <1>1, FS_Interval
  <2>2. QED  BY <2>1, <1>2, FS_Subset
<1> DEFINE g == [i \in A |-> [id |-> c + i, item |-> resp[i]]]
<1>5. \A i \in A : g[i] \in B
  BY <1>2, <1>3 DEF Listing
<1>6. \A i, j \in A : g[i] = g[j] => i = j
  <2> TAKE i, j \in A
  <2> HAVE g[i] = g[j]
  <2>1. c + i = c + j /\ i \in Nat /\ j \in Nat
    BY <1>1, <1>2
  <2>2. QED  BY <2>1
<1>7. \A r \in B : \E i \in A : g[i] = r
  BY <1>2, <1>3 DEF Listing
<1>8. g \in Bijection(A, B)
  <2>1. g \in [A -> B] /\ DOMAIN g = A
    BY <1>5
  <2> HIDE DEF g
  <2>2. QED  BY <2>1, <1>6, <1>7 DEF Bijection, Injection, Surjection, IsInjective
<1>9. Cardinality(B) = Cardinality(A)
  BY <1>4, <1>8, FS_Bijection DEF ExistsBijection
<1>10. QED  BY <1>2, <1>3, <1>9 DEF Count

LEMMA InitSInv == Init => SInv
<1> SUFFICES ASSUME Init PROVE SInv  OBVIOUS
<1>1. \A w \in Runs : ~Active(w)
  BY DEF Init, Active
<1>2. \A t \in Tables, w \in Runs : last[t] # w
  BY NobodyAssumption DEF Init
<1>3. QED  BY <1>1, <1>2 DEF SInv, StoredCopies

\* As long as no run has overlapped, only the one that takes a step is active.
LEMMA AloneFacts ==
    ASSUME IInv, SInv, ~overlapped, NEW w \in Runs, Active(w)
    PROVE  /\ \A v \in Runs \ {w} : ~Active(v)
           /\ lock \in {w, Nobody} /\ View(w) = work /\ Serial(w) /\ StoredCopies
<1>1. \A v \in Runs \ {w} : ~Active(v)
  BY DEF SInv
<1>2. lock \in {w, Nobody}
  BY <1>1 DEF IInv, Typed, Run
<1>3. View(w) = work
  BY <1>2 DEF IInv, Stores, View
<1>4. QED  BY <1>1, <1>2, <1>3 DEF SInv

\* Committed runs stay what they are.
LEMMA StoredCopiesKept ==
    ASSUME IInv, StoredCopies, UNCHANGED <<stored, last>>,
           \A v \in Runs : pc[v] = "done" => Untouched(v)
    PROVE  StoredCopies'
<1> SUFFICES ASSUME NEW t \in Tables \ FileTables, NEW w \in Runs, last'[t] = w
             PROVE  (pc[w] = "done" /\ Wrote(w, t) /\ Copies(w, t, stored[t]))'
  BY DEF StoredCopies
<1>1. pc[w] = "done" /\ Wrote(w, t) /\ Copies(w, t, stored[t])
  BY DEF StoredCopies
<1>2. pc'[w] = "done" /\ plan'[w] = plan[w] /\ got'[w] = got[w]
  BY <1>1 DEF Untouched
<1>3. Wrote(w, t)'
  BY <1>1, <1>2 DEF Wrote
<1>4. Copies(w, t, stored[t])'
  BY <1>1, <1>2 DEF Copies, Listing
<1>5. QED  BY <1>2, <1>3, <1>4

LEMMA BeginKeepsSerial ==
    ASSUME IInv, SInv, NEW w \in Runs, Begin(w)
    PROVE  SInv'
<1> SUFFICES ASSUME ~overlapped' PROVE SInv'  BY DEF SInv
<1>1. /\ Typed /\ Stores /\ Run(w) /\ \A v \in Runs \ {w} : Untouched(v)
  BY BeginKeeps, RunFacts
<1>2. /\ ~overlapped /\ (\A v \in Runs : ~Active(v))
      /\ pc[w] = "idle" /\ pc'[w] = "fetch"
      /\ UNCHANGED <<stored, work, lock, got, last>>
  BY <1>1 DEF Begin, Goto, Typed
<1>3. \A v \in Runs \ {w} : ~Active(v)'
  BY <1>1, <1>2 DEF Untouched, Active
<1>4. work = stored
  BY <1>1, <1>2 DEF IInv, Run, Stores, Typed
<1>5. StoredCopies'
  BY <1>1, <1>2, StoredCopiesKept DEF SInv
<1>6. got[w] = <<>>
  BY <1>1, <1>2 DEF Run
<1>7. \A t : ~Wrote(w, t)'
  BY <1>2, <1>6 DEF Wrote
<1>8. Serial(w)'
  BY <1>2, <1>4, <1>7 DEF Serial
<1>9. QED  BY <1>3, <1>5, <1>8 DEF SInv

LEMMA FetchKeepsSerial ==
    ASSUME IInv, SInv, NEW w \in Runs, FetchAndRead(w)
    PROVE  SInv'
<1> SUFFICES ASSUME ~overlapped' PROVE SInv'  BY DEF SInv
<1>1. /\ Typed /\ \A v \in Runs \ {w} : Untouched(v)
  BY FetchAndReadKeeps, RunFacts
<1>2. PICK op : op = NextOp(w)
  OBVIOUS
<1>3. /\ pc[w] = "fetch" /\ ~Finished(w) /\ Active(w) /\ op \in Operations
      /\ got[w] \in Seq(AllResponses) /\ Len(got[w]) \in Nat
      /\ DOMAIN got[w] = 1 .. Len(got[w]) /\ plan[w] \in Plans
      /\ DOMAIN plan[w] = 1 .. Len(plan[w])
      /\ Len(got[w]) + 1 \in DOMAIN plan[w] /\ op = plan[w][Len(got[w]) + 1]
  BY <1>2, RunFacts, OperationFacts DEF FetchAndRead, Active, NextOp
<1>4. PICK resp \in AllResponses :
         /\ got'[w] = Append(got[w], resp)
         /\ \/ UNCHANGED <<base, pc>> /\ op = "integration" /\ resp = <<>>
            \/ /\ base' = [base EXCEPT ![w] = View(w)[TableOf(op)]]
               /\ pc' = [pc EXCEPT ![w] = "flush"]
               /\ ~(op = "integration" /\ resp = <<>>)
         /\ UNCHANGED <<stored, work, plan, last, overlapped>>
  <2>1. PICK r \in IF op = "timeline" THEN {Stages} ELSE Responses :
           /\ got' = [got EXCEPT ![w] = Append(@, r)]
           /\ IF op = "integration" /\ r = <<>>
              THEN UNCHANGED <<base, pc>>
              ELSE /\ base' = [base EXCEPT ![w] = View(w)[TableOf(op)]]
                   /\ Goto(w, "flush")
    BY <1>2 DEF FetchAndRead
  <2>2. r \in AllResponses
    BY <2>1 DEF AllResponses
  <2>3. got'[w] = Append(got[w], r)
    BY <2>1, <1>1 DEF Typed
  <2>4. UNCHANGED <<stored, work, plan, last, overlapped>>
    BY DEF FetchAndRead
  <2>5. QED  BY <2>1, <2>2, <2>3, <2>4 DEF Goto
<1>5. /\ ~overlapped /\ (\A v \in Runs \ {w} : ~Active(v))
      /\ View(w) = work /\ Serial(w) /\ StoredCopies
  BY <1>3, <1>4, AloneFacts
<1>6. StoredCopies'
  BY <1>1, <1>3, <1>4, <1>5, StoredCopiesKept DEF Active
<1>7. \A v \in Runs \ {w} : ~Active(v)'
  BY <1>1, <1>5 DEF Untouched, Active
<1>8. PICK n : n = Len(got[w]) + 1
  OBVIOUS
<1>9. /\ Len(got'[w]) = n /\ DOMAIN got'[w] = 1 .. n /\ n \in Nat
      /\ \A i \in DOMAIN got[w] : i \in DOMAIN got'[w] /\ got'[w][i] = got[w][i]
      /\ \A i \in DOMAIN got'[w] : i \in DOMAIN got[w] \/ i = n
      /\ plan'[w] = plan[w] /\ plan[w][n] = op
  BY <1>3, <1>4, <1>8
\* Without a flush, the contract process has found nothing.
<1>10. CASE UNCHANGED <<base, pc>> /\ op = "integration" /\ resp = <<>>
  <2>1. plan[w] = <<"integration", "timeline">>
    BY <1>3, <1>10, ContractAssumption
  <2>2. n = 1 /\ got[w] = <<>>
    <3>1. n \in 1 .. 2 /\ plan[w][2] = "timeline"
      BY <2>1, <1>3, <1>8
    <3>2. n = 1
      BY <3>1, <1>9, <1>10
    <3>3. QED  BY <3>2, <1>3, <1>8
  <2>3. NothingFound(w)'
    BY <2>1, <2>2, <1>4, <1>9, <1>10 DEF NothingFound
  <2>4. \A t : ~Wrote(w, t)
    BY <2>2 DEF Wrote
  <2>5. \A t \in Tables \ FileTables : work'[t] = stored'[t]
    BY <2>4, <1>4, <1>5 DEF Serial
  <2>6. pc'[w] # "flush"
    BY <1>3, <1>10
  <2>7. Serial(w)'
    BY <2>3, <2>5, <2>6 DEF Serial
  <2>8. QED  BY <2>7, <1>6, <1>7 DEF SInv
<1>11. CASE /\ base' = [base EXCEPT ![w] = View(w)[TableOf(op)]]
            /\ pc' = [pc EXCEPT ![w] = "flush"]
            /\ ~(op = "integration" /\ resp = <<>>)
  <2>1. pc'[w] = "flush" /\ base'[w] = work[TableOf(op)]
    BY <1>1, <1>5, <1>11 DEF Typed
  <2>2. ThisOp(w)' = op
    BY <1>9 DEF ThisOp
  <2>3. ~NothingFound(w)
    BY <1>3 DEF Finished
  <2>4. ~NothingFound(w)'
    <3> SUFFICES ASSUME plan[w] = <<"integration", "timeline">>, got'[w] = <<<<>>>>
                 PROVE  FALSE
      BY <1>9 DEF NothingFound
    <3>1. n = 1 /\ op = "integration"
      BY <1>9
    <3>2. got'[w][1] = <<>> /\ got'[w][n] = resp
      BY <1>3, <1>4, <1>8
    <3>3. QED  BY <3>1, <3>2, <1>11
  <2>5. ASSUME NEW t \in Tables \ FileTables, TableOf(op) # t
        PROVE  /\ Wrote(w, t)' <=> Wrote(w, t)
               /\ Copies(w, t, work[t]) => Copies(w, t, work[t])'
    <3>1. Wrote(w, t)' <=> Wrote(w, t)
      BY <2>5, <1>9 DEF Wrote
    <3>2. \A i \in DOMAIN got'[w] : TableOf(plan[w][i]) = t => i \in DOMAIN got[w]
      BY <2>5, <1>9
    <3>3. Copies(w, t, work[t]) => Copies(w, t, work[t])'
      BY <3>2, <1>4, <1>9 DEF Copies, Listing
    <3>4. QED  BY <3>1, <3>3
  <2>6. Wrote(w, TableOf(op))'
    <3>1. n \in DOMAIN got'[w] /\ plan'[w][n] = op
      BY <1>3, <1>8, <1>9
    <3>2. QED  BY <3>1 DEF Wrote
  <2>7. \A t \in Tables \ FileTables : ~Wrote(w, t)' => work'[t] = stored'[t]
    <3> TAKE t \in Tables \ FileTables
    <3> HAVE ~Wrote(w, t)'
    <3>1. TableOf(op) # t
      BY <2>6
    <3>2. ~Wrote(w, t)
      BY <2>5, <3>1
    <3>3. QED  BY <3>2, <1>4, <1>5 DEF Serial
  <2>8. \A t \in Tables \ FileTables :
           ~Wrote(w, t)' \/ TableOf(op) = t \/ Copies(w, t, work[t])'
    <3> TAKE t \in Tables \ FileTables
    <3> SUFFICES ASSUME Wrote(w, t)', TableOf(op) # t PROVE Copies(w, t, work[t])'
      OBVIOUS
    <3>1. Wrote(w, t) /\ pc[w] # "flush"
      BY <2>5, <1>3
    <3>2. Copies(w, t, work[t])
      BY <3>1, <2>3, <1>5 DEF Serial
    <3>3. QED  BY <3>2, <2>5
  <2>9. TableOf(ThisOp(w))' = TableOf(op)
    BY <2>2 DEF TableOf
  <2>10. Serial(w)'
    <3>1. base'[w] = work'[TableOf(ThisOp(w))']
      BY <2>1, <2>2, <1>4
    <3>2. QED  BY <3>1, <2>1, <2>2, <2>4, <2>7, <2>8, <2>9 DEF Serial
  <2>11. QED  BY <2>10, <1>6, <1>7 DEF SInv
<1>12. QED  BY <1>4, <1>10, <1>11

LEMMA FlushKeepsSerial ==
    ASSUME IInv, SInv, NEW w \in Runs, Flush(w)
    PROVE  SInv'
<1> SUFFICES ASSUME ~overlapped' PROVE SInv'  BY DEF SInv
<1>1. /\ Typed /\ Stores /\ \A v \in Runs \ {w} : Untouched(v)
  BY FlushKeeps, RunFacts
<1>2. PICK t : t = TableOf(ThisOp(w))
  OBVIOUS
<1>3. /\ pc[w] = "flush" /\ Active(w) /\ Latest(w) \in AllResponses
      /\ t \in Tables /\ Len(got[w]) \in DOMAIN got[w]
      /\ DOMAIN got[w] = 1 .. Len(got[w]) /\ Len(got[w]) \in Nat
  BY <1>2, RunFacts, OperationFacts, TableFacts DEF Flush, Active
<1>4. /\ pc'[w] = "fetch" /\ UNCHANGED <<stored, plan, got, last, overlapped>>
      /\ \/ NoChange(w) /\ UNCHANGED work
         \/ \E rows \in Results(w, work[t]) : work' = [work EXCEPT ![t] = rows]
  BY <1>1, <1>2 DEF Flush, Goto, Typed
<1>5. /\ ~overlapped /\ (\A v \in Runs \ {w} : ~Active(v))
      /\ Serial(w) /\ StoredCopies
  BY <1>3, <1>4, AloneFacts
<1>6. base[w] = work[t] /\ ~NothingFound(w)
  BY <1>2, <1>3, <1>5 DEF Serial
<1>7. \A q \in Tables \ {t} : work'[q] = work[q]
  BY <1>1, <1>3, <1>4 DEF Typed
<1>8. ASSUME t \notin FileTables
      PROVE  \E c \in Nat : work'[t] = Listing(c, Latest(w))
  <2>1. CASE NoChange(w) /\ UNCHANGED work
    <3>1. work'[t] = {} /\ Latest(w) = <<>>
      BY <2>1, <1>6 DEF NoChange
    <3>2. Listing(0, <<>>) = {}
      BY DEF Listing
    <3>3. QED  BY <3>1, <3>2
  <2>2. ASSUME NEW rows \in Results(w, work[t]), work' = [work EXCEPT ![t] = rows]
        PROVE  \E c \in Nat : work'[t] = Listing(c, Latest(w))
    <3>1. work[t] \in RowSets /\ Tidy(work[t]) /\ work'[t] = rows
      BY <2>2, <1>1, <1>3 DEF Typed, Stores
    <3>2. \E c \in Nat : rows = Listing(c, Latest(w))
      BY <3>1, <1>2, <1>3, <1>6, <1>8, ReplacedFacts
    <3>3. QED  BY <3>1, <3>2
  <2>3. QED  BY <2>1, <2>2, <1>4
<1>9. \A q \in Tables \ FileTables : ~Wrote(w, q) => work'[q] = stored[q]
  <2>1. Wrote(w, t)
    BY <1>2, <1>3 DEF Wrote, ThisOp
  <2>2. QED  BY <2>1, <1>5, <1>7 DEF Serial
<1>10. \A q \in Tables \ FileTables : ~Wrote(w, q) \/ Copies(w, q, work'[q])
  <2> TAKE q \in Tables \ FileTables
  <2>1. CASE q # t
    <3>1. ~Wrote(w, q) \/ Copies(w, q, work[q])
      BY <2>1, <1>2, <1>5, <1>6 DEF Serial
    <3>2. QED  BY <3>1, <2>1, <1>7
  <2>2. CASE q = t
    <3>1. PICK c \in Nat : work'[t] = Listing(c, Latest(w))
      BY <2>2, <1>8
    <3>2. ASSUME NEW i \in DOMAIN got[w],
                 \A j \in DOMAIN got[w] : TableOf(plan[w][j]) = t => j <= i
          PROVE  work'[t] = Listing(c, got[w][i])
      <4>1. Len(got[w]) <= i
        BY <3>2, <1>2, <1>3 DEF ThisOp
      <4>2. i = Len(got[w])
        BY <4>1, <1>3
      <4>3. QED  BY <4>2, <3>1 DEF Latest
    <3>3. QED  BY <3>2, <2>2 DEF Copies
  <2>3. QED  BY <2>1, <2>2
<1>11. \A q : /\ Wrote(w, q)' <=> Wrote(w, q)
              /\ Copies(w, q, work'[q]) => Copies(w, q, work[q])'
  BY <1>4 DEF Wrote, Copies, Listing
<1>12. ~NothingFound(w)' /\ pc'[w] # "flush"
  BY <1>4, <1>6 DEF NothingFound
<1>13. Serial(w)'
  BY <1>4, <1>9, <1>10, <1>11, <1>12 DEF Serial
<1>14. StoredCopies'
  BY <1>1, <1>3, <1>4, <1>5, StoredCopiesKept DEF Active
<1>15. \A v \in Runs \ {w} : ~Active(v)'
  BY <1>1, <1>5 DEF Untouched, Active
<1>16. QED  BY <1>13, <1>14, <1>15 DEF SInv

LEMMA CommitKeepsSerial ==
    ASSUME IInv, SInv, NEW w \in Runs, Commit(w)
    PROVE  SInv'
<1> SUFFICES ASSUME ~overlapped' PROVE SInv'  BY DEF SInv
<1>1. /\ Typed /\ \A v \in Runs \ {w} : Untouched(v)
  BY CommitKeeps, RunFacts
<1>2. /\ pc[w] = "fetch" /\ Active(w) /\ DOMAIN got[w] = 1 .. Len(got[w])
  BY RunFacts DEF Commit, Active
<1>3. /\ stored' = View(w) /\ pc'[w] = "done"
      /\ \A t \in Tables : last'[t] = IF t \in Written(w) /\ ~NothingFound(w)
                                      THEN w ELSE last[t]
      /\ UNCHANGED <<plan, got, overlapped>>
  BY <1>1 DEF Commit, Goto, Typed
<1>4. /\ ~overlapped /\ (\A v \in Runs \ {w} : ~Active(v))
      /\ View(w) = work /\ Serial(w) /\ StoredCopies
  BY <1>2, <1>3, AloneFacts
<1>5. \A t : t \in Written(w) <=> Wrote(w, t)
  BY <1>2 DEF Written, Wrote
<1>6. ASSUME NEW t \in Tables \ FileTables, NEW v \in Runs, last'[t] = v
      PROVE  pc'[v] = "done" /\ Wrote(v, t) /\ Copies(v, t, stored'[t])
  <2>1. CASE Wrote(w, t) /\ ~NothingFound(w)
    <3>1. v = w
      BY <2>1, <1>3, <1>5, <1>6
    <3>2. Copies(w, t, work[t])
      BY <2>1, <1>2, <1>4 DEF Serial
    <3>3. QED  BY <3>1, <3>2, <2>1, <1>3, <1>4
  <2>2. CASE ~Wrote(w, t) \/ NothingFound(w)
    <3>1. last[t] = v
      BY <2>2, <1>3, <1>5, <1>6
    <3>2. pc[v] = "done" /\ Wrote(v, t) /\ Copies(v, t, stored[t])
      BY <3>1, <1>4 DEF StoredCopies
    <3>3. pc'[v] = "done"
      BY <3>2, <1>1, <1>2 DEF Untouched
    <3>4. stored'[t] = stored[t]
      BY <2>2, <1>3, <1>4 DEF Serial
    <3>5. QED  BY <3>2, <3>3, <3>4
  <2>3. QED  BY <2>1, <2>2
<1>7. StoredCopies'
  <2>1. \A t, v : Wrote(v, t)' <=> Wrote(v, t)
    BY <1>3 DEF Wrote
  <2>2. \A t, v : Copies(v, t, stored'[t]) => Copies(v, t, stored[t])'
    BY <1>3 DEF Copies, Listing
  <2>3. QED  BY <2>1, <2>2, <1>6 DEF StoredCopies
<1>8. \A v \in Runs : ~Active(v)'
  BY <1>1, <1>3, <1>4 DEF Untouched, Active
<1>9. QED  BY <1>7, <1>8 DEF SInv

LEMMA FailsKeepsSerial ==
    ASSUME IInv, SInv, NEW w \in Runs, Fails(w)
    PROVE  SInv'
<1> SUFFICES ASSUME ~overlapped' PROVE SInv'  BY DEF SInv
<1>1. /\ Typed /\ \A v \in Runs \ {w} : Untouched(v)
  BY FailsKeeps, RunFacts
<1>2. /\ Active(w) /\ pc'[w] = "failed"
      /\ UNCHANGED <<stored, last, overlapped>>
  BY <1>1 DEF Fails, Rollback, Goto, Typed
<1>3. (\A v \in Runs \ {w} : ~Active(v)) /\ StoredCopies
  BY <1>2, AloneFacts
<1>4. StoredCopies'
  BY <1>1, <1>2, <1>3, StoredCopiesKept DEF Active
<1>5. \A v \in Runs : ~Active(v)'
  BY <1>1, <1>2, <1>3 DEF Untouched, Active
<1>6. QED  BY <1>4, <1>5 DEF SInv

LEMMA NextKeepsSerial == IInv /\ SInv /\ [Next]_vars => SInv'
<1> SUFFICES ASSUME IInv, SInv, [Next]_vars PROVE SInv'  OBVIOUS
<1>1. CASE UNCHANGED vars
  <2>1. UNCHANGED <<stored, work, lock, pc, plan, got, base, last, overlapped>>
    BY <1>1 DEF vars
  <2>2. \A v \in Runs : Active(v)' <=> Active(v)
    BY <2>1 DEF Active
  <2>3. \A v, t : /\ Wrote(v, t)' <=> Wrote(v, t)
                  /\ \A rows : Copies(v, t, rows)' <=> Copies(v, t, rows)
    BY <2>1 DEF Wrote, Copies, Listing
  <2>4. \A v, t : /\ Copies(v, t, work[t])' <=> Copies(v, t, work[t])
                  /\ Copies(v, t, stored[t])' <=> Copies(v, t, stored[t])
    BY <2>1 DEF Copies, Listing
  <2>5. ASSUME NEW v \in Runs, Serial(v)
        PROVE  Serial(v)'
    <3>1. NothingFound(v)' <=> NothingFound(v)
      BY <2>1 DEF NothingFound
    <3>2. TableOf(ThisOp(v))' = TableOf(ThisOp(v))
      BY <2>1 DEF ThisOp, TableOf
    <3>3. base'[v] = base[v] /\ work' = work /\ stored' = stored /\ pc'[v] = pc[v]
      BY <2>1
    <3>4. QED  BY <2>3, <2>4, <2>5, <3>1, <3>2, <3>3 DEF Serial
  <2>6. StoredCopies => StoredCopies'
    BY <2>1, <2>3, <2>4 DEF StoredCopies
  <2>7. QED  BY <2>1, <2>2, <2>5, <2>6 DEF SInv
<1>2. ASSUME NEW w \in Runs, Begin(w)         PROVE SInv'  BY <1>2, BeginKeepsSerial
<1>3. ASSUME NEW w \in Runs, FetchAndRead(w)  PROVE SInv'  BY <1>3, FetchKeepsSerial
<1>4. ASSUME NEW w \in Runs, Flush(w)         PROVE SInv'  BY <1>4, FlushKeepsSerial
<1>5. ASSUME NEW w \in Runs, Commit(w)        PROVE SInv'  BY <1>5, CommitKeepsSerial
<1>6. ASSUME NEW w \in Runs, Fails(w)         PROVE SInv'  BY <1>6, FailsKeepsSerial
<1>7. QED  BY <1>1, <1>2, <1>3, <1>4, <1>5, <1>6 DEF Next

-----------------------------------------------------------------------------
(* The theorems.                                                           *)

\* The inductive invariants: of the tables, and on top of it of crawls and of
\* runs that do not overlap.
THEOREM Invariance == Spec => [](IInv /\ CInv /\ SInv)
<1>1. Init => IInv /\ CInv /\ SInv
  BY InitIInv, InitCInv, InitSInv
<1>2. IInv /\ CInv /\ SInv /\ [Next]_vars => (IInv /\ CInv /\ SInv)'
  BY NextKeeps, NextKeepsFiles, NextKeepsSerial
<1>3. QED  BY <1>1, <1>2, PTL DEF Spec

\* Every variable has its type, and ids are not used twice.
THEOREM TypeCorrect == Spec => []TypeOK
<1>1. IInv => TypeOK
  <2> SUFFICES ASSUME IInv PROVE TypeOK  OBVIOUS
  <2>1. Typed /\ Stores /\ \A w \in Runs : Run(w)
    BY DEF IInv
  <2>2. \A t \in Tables : \A r, s \in work[t] : r.id = s.id => r = s
    BY <2>1 DEF Stores, Tidy
  <2>3. \A w \in Runs : /\ got[w] \in Seq(Responses \cup {Stages})
                        /\ Len(got[w]) <= Len(plan[w])
    BY <2>1 DEF Typed, Run, AllResponses
  <2>4. QED  BY <2>1, <2>2, <2>3 DEF Typed, TypeOK
<1>2. QED  BY <1>1, Invariance, PTL

\* Whatever overlaps and fails, the tables hold what committed runs were told.
THEOREM OnlyCommittedRows == Spec => []NothingFromFailedRuns
<1>1. IInv => NothingFromFailedRuns
  BY DEF IInv, Stores, Told, NothingFromFailedRuns
<1>2. QED  BY <1>1, Invariance, PTL

\* The attachments of the last committed crawl are stored, however runs
\* overlap, and no others unless a page lists a file twice.
THEOREM CurrentFiles == Spec => []CrawledFilesAreCurrent
<1>1. IInv /\ CInv => CrawledFilesAreCurrent
  <2> SUFFICES ASSUME IInv, CInv, last["crawl"] # Nobody
               PROVE  LET rows   == stored["crawl"]
                          listed == Listed(ResponseFor(last["crawl"], "crawl"))
                      IN  /\ listed \subseteq ItemsOf(rows)
                          /\ NoFileTwice("crawl") =>
                                /\ listed = ItemsOf(rows)
                                /\ Cardinality(rows) = Cardinality(listed)
    BY DEF CrawledFilesAreCurrent, Current
  <2>1. PICK w \in Runs : w = last["crawl"]
    BY CrawlTable DEF IInv, Typed
  <2>2. PICK rows : rows = stored["crawl"]
    OBVIOUS
  <2>3. /\ Crawled(w) /\ Shows(w, rows, OnceStored)
        /\ OnceStored => Unique(rows)
    BY <2>1, <2>2 DEF CInv, StoredFiles
  <2>4. /\ got[w] \in Seq(AllResponses) /\ Len(got[w]) \in Nat
        /\ DOMAIN got[w] = 1 .. Len(got[w])
    BY RunFacts
  <2> DEFINE at == {i \in DOMAIN got[w] : TableOf(plan[w][i]) = "crawl"}
  <2>5. \A i \in DOMAIN got[w] : i \in at <=> IsCrawl(w, i)
    BY CrawlTable DEF IsCrawl
  <2>6. \E i \in at : \A j \in at : j <= i
    <3>1. at \in SUBSET Nat /\ at # {} /\ \A i \in at : i <= Len(got[w])
      BY <2>3, <2>4, <2>5 DEF Crawled
    <3> HIDE DEF at
    <3>2. QED  BY <3>1, <2>4, LargestExists
  <2>7. PICK n \in at : /\ n = CHOOSE i \in at : \A j \in at : j <= i
                        /\ \A j \in at : j <= n
    BY <2>6
  <2>8. PICK listed : listed = Listed(got[w][n])
    OBVIOUS
  <2>9. /\ listed = Listed(ResponseFor(last["crawl"], "crawl"))
        /\ got[w][n] \in AllResponses /\ IsFiniteSet(listed)
    <3>1. ResponseFor(w, "crawl") = got[w][n]
      BY <2>7 DEF ResponseFor
    <3>2. got[w][n] \in AllResponses
      BY <2>4
    <3>3. QED  BY <3>1, <3>2, <2>1, <2>8, DistinctFacts
  <2>10. /\ listed \subseteq ItemsOf(rows)
         /\ OnceStored => ItemsOf(rows) \subseteq listed
    BY <2>3, <2>5, <2>7, <2>8 DEF Shows
  <2>11. NoFileTwice("crawl") => OnceStored
    <3> SUFFICES ASSUME NoFileTwice("crawl"), NEW v \in Runs,
                        NEW i \in DOMAIN got[v], IsCrawl(v, i)
                 PROVE  Distinct(got[v][i])
      BY DEF OnceStored, Once
    <3>1. Cardinality(Listed(got[v][i])) = Len(got[v][i])
      BY CrawlTable DEF NoFileTwice, IsCrawl
    <3>2. got[v][i] \in AllResponses
      BY RunFacts
    <3>3. QED  BY <3>1, <3>2, DistinctFacts
  <2>12. OnceStored => listed = ItemsOf(rows)
                       /\ Cardinality(rows) = Cardinality(listed)
    <3> HAVE OnceStored
    <3>1. listed = ItemsOf(rows) /\ Unique(rows)
      BY <2>3, <2>10
    <3>2. IsFiniteSet(ItemsOf(rows))
      BY <3>1, <2>9
    <3>3. QED  BY <3>1, <3>2, UniqueFacts
  <2> HIDE DEF at
  <2>13. QED  BY <2>2, <2>9, <2>10, <2>11, <2>12
<1>2. QED  BY <1>1, Invariance, PTL

\* As long as runs do not overlap, a table holds what the last run that wrote
\* it was told, as often as it was told it.
THEOREM SerialRuns == Spec => []SerialRunsMirror
<1>1. IInv /\ SInv => SerialRunsMirror
  <2> SUFFICES ASSUME IInv, SInv, ~overlapped, NEW t \in Tables \ FileTables,
                      last[t] # Nobody, NEW n \in Items
               PROVE  Cardinality({r \in stored[t] : r.item = n})
                      = Count(n, ResponseFor(last[t], t))
    BY DEF SerialRunsMirror, Mirrors
  <2>1. PICK w \in Runs : w = last[t]
    BY DEF IInv, Typed
  <2>2. PICK rows : rows = stored[t]
    OBVIOUS
  <2>3. Wrote(w, t) /\ Copies(w, t, rows)
    BY <2>1, <2>2 DEF SInv, StoredCopies
  <2>4. /\ got[w] \in Seq(AllResponses) /\ Len(got[w]) \in Nat
        /\ DOMAIN got[w] = 1 .. Len(got[w])
    BY RunFacts
  <2> DEFINE at == {i \in DOMAIN got[w] : TableOf(plan[w][i]) = t}
  <2>5. \E i \in at : \A j \in at : j <= i
    <3>1. at \in SUBSET Nat /\ at # {} /\ \A i \in at : i <= Len(got[w])
      BY <2>3, <2>4 DEF Wrote
    <3> HIDE DEF at
    <3>2. QED  BY <3>1, <2>4, LargestExists
  <2>6. PICK m \in at : /\ m = CHOOSE i \in at : \A j \in at : j <= i
                        /\ \A j \in at : j <= m
    BY <2>5
  <2>7. got[w][m] = ResponseFor(last[t], t) /\ got[w][m] \in AllResponses
    <3>1. ResponseFor(w, t) = got[w][m]
      BY <2>6 DEF ResponseFor
    <3>2. m \in DOMAIN got[w]
      BY <2>6
    <3>3. got[w][m] \in AllResponses
      BY <2>4, <3>2
    <3>4. QED  BY <3>1, <3>3, <2>1
  <2>8. PICK c \in Nat : rows = Listing(c, got[w][m])
    BY <2>3, <2>6 DEF Copies
  <2> HIDE DEF at
  <2>9. QED  BY <2>2, <2>7, <2>8, ListingFacts
<1>2. QED  BY <1>1, Invariance, PTL

===============================================================================
