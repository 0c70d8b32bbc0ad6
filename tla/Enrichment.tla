----------------------------- MODULE Enrichment -----------------------------
(***************************************************************************)
(* What the collection services keep about one bid, and how a run of a     *)
(* service replaces it (src/app/services: detail enrichment, contract      *)
(* process, change history, reference enrichment, page crawl).  A run      *)
(* goes through its operations in order; for each it fetches items, reads  *)
(* the rows stored for the operation's table and decides what to delete,   *)
(* keep and insert.  The changes reach the database at the next flush,     *)
(* which takes the SQLite write lock unless the run already has it; one    *)
(* commit ends the run.  Runs of the same bid are not kept apart: a        *)
(* resync, a manual action, a batch and a command may overlap.             *)
(*                                                                         *)
(* Most tables have serial ids; a run deletes all rows it read and inserts *)
(* what it fetched.  The rows of attachments and of the change history     *)
(* have the position in the response as their id.  A flush inserts before  *)
(* it deletes, a DELETE of a row that is gone is only a warning, an UPDATE *)
(* of one is an error, and so is an INSERT of an id in use.  Rows of other *)
(* bids, which share the tables and their serial ids, are left out.        *)
(***************************************************************************)
EXTENDS Integers, Sequences, FiniteSets

CONSTANTS
    Runs,        \* runs of services for this bid, each of which happens once
    Plans,       \* the sequences of operations they may have
    Names,       \* what tells items apart: a license, region or product name,
                 \* a contract, a change, or a file name with its URL
    MaxItems,    \* bound: items in a response
    Nobody       \* no run

Operations == {"license", "region", "eorder", "goods", "services", "foreign",
               "integration", "timeline", "change", "reference", "crawl"}

ASSUME PlansAssumption ==
    \A p \in Plans : p \in Seq(Operations) /\ Len(p) >= 1
\* The contract process service has the plan that NothingFound expects.
ASSUME ContractAssumption ==
    \A p \in Plans : \A i \in DOMAIN p :
        p[i] = "integration" => p = <<"integration", "timeline">>
ASSUME MaxItemsAssumption == MaxItems \in Nat
ASSUME NobodyAssumption == Nobody \notin Runs

VARIABLES
    stored,      \* the committed rows of each table
    work,        \* the same as the holder of the lock sees them
    lock,        \* the run that holds the write lock
    pc,          \* where each run is
    plan,        \* its operations
    got,         \* the responses it has got, one per operation begun
    base,        \* the rows it read for its current operation
    last,        \* the run that last committed rows of each table
    overlapped   \* two runs were under way at the same time

vars == <<stored, work, lock, pc, plan, got, base, last, overlapped>>

-----------------------------------------------------------------------------
(* Tables.                                                                 *)

\* The three purchase operations share a table.
TableOf(op) == IF op \in {"goods", "services", "foreign"} THEN "purchase"
               ELSE op
Tables      == {TableOf(op) : op \in Operations}
FileTables  == {"eorder", "crawl"}
Positional  == FileTables \cup {"change"}    \* ids are positions

\* _replace_timeline_snapshots always writes these three.
Stages    == <<"notice", "award", "contract">>
Items     == Names \cup {Stages[i] : i \in 1 .. 3}
Responses == UNION {[1 .. n -> Names] : n \in 0 .. MaxItems}

IdsOf(rows)   == {r.id : r \in rows}
ItemsOf(rows) == {r.item : r \in rows}
Listed(resp)  == {resp[i] : i \in DOMAIN resp}

TopId(rows) == IF rows = {} THEN 0
               ELSE CHOOSE n \in IdsOf(rows) : \A m \in IdsOf(rows) : m <= n

-----------------------------------------------------------------------------
(* One operation's changes: read says what the SELECT returned, rows what  *)
(* is there when they are flushed.                                         *)

\* A wrong ReplaceAll: the rows that were read stay.
AddAll(rows, read, resp) ==
    rows \cup {[id |-> TopId(rows) + i, item |-> resp[i]] : i \in DOMAIN resp}

\* _replace_license_limits, _replace_regions, _replace_purchase_items,
\* _replace_integrations, _replace_timeline_snapshots and the reference items.
ReplaceAll(rows, read, resp) ==
    {r \in rows \cup {[id |-> TopId(rows) + i, item |-> resp[i]] :
                         i \in DOMAIN resp} :
        r.id \notin IdsOf(read)}

\* _replace_attachments and crawl_bids delete the rows they found by a name
\* and URL that is not listed any more, _replace_changes deletes all.
Deleted(op, found, read, resp) ==
    IF op = "change" THEN IdsOf(read)
    ELSE {found[k] : k \in ItemsOf(read) \ Listed(resp)}

\* Positions that become a new object: of files without a known row, and of
\* all changes.
Inserted(op, read, resp) ==
    {i \in DOMAIN resp : op = "change" \/ resp[i] \notin ItemsOf(read)}

\* Rows that an UPDATE goes to: of listed files, and rows that are deleted and
\* inserted again in the same flush.
Updated(op, found, read, resp) ==
    (Deleted(op, found, read, resp) \cap Inserted(op, read, resp))
    \cup IF op = "change" THEN {}
         ELSE {found[k] : k \in ItemsOf(read) \cap Listed(resp)}

\* A wrong Accepted: ids in use are not refused.
AcceptsIdsInUse(op, found, rows, read, resp) ==
    Updated(op, found, read, resp) \subseteq IdsOf(rows)

\* No UPDATE of a row that is gone, no INSERT of an id in use.
Accepted(op, found, rows, read, resp) ==
    /\ Updated(op, found, read, resp) \subseteq IdsOf(rows)
    /\ \A i \in Inserted(op, read, resp) \ Deleted(op, found, read, resp) :
          i \notin IdsOf(rows)

Place(op, found, rows, read, resp) ==
    {r \in rows : r.id \notin Deleted(op, found, read, resp)}
    \cup {[id |-> i, item |-> resp[i]] : i \in Inserted(op, read, resp)}

\* existing_by_key: of several rows with the same name and URL, one is found.
Lookups(read) ==
    {f \in [ItemsOf(read) -> IdsOf(read)] :
        \A k \in ItemsOf(read) : [id |-> f[k], item |-> k] \in read}

-----------------------------------------------------------------------------

PCs == {"idle",    \* not begun
        "fetch",   \* about to call the remote API, or about to commit
        "flush",   \* has changes that are not in the database yet
        "done",    \* committed
        "failed"}  \* rolled back

Init ==
    /\ stored = [t \in Tables |-> {}]
    /\ work   = stored
    /\ lock   = Nobody
    /\ pc     = [w \in Runs |-> "idle"]
    /\ plan   = [w \in Runs |-> <<>>]
    /\ got    = [w \in Runs |-> <<>>]
    /\ base   = [w \in Runs |-> {}]
    /\ last   = [t \in Tables |-> Nobody]
    /\ overlapped = FALSE

Goto(w, where) == pc' = [pc EXCEPT ![w] = where]
Active(w)      == pc[w] \in {"fetch", "flush"}
View(w)        == IF lock = w THEN work ELSE stored
NextOp(w)      == plan[w][Len(got[w]) + 1]     \* pc[w] = "fetch"
ThisOp(w)      == plan[w][Len(got[w])]         \* pc[w] = "flush"
Latest(w)      == got[w][Len(got[w])]

Begin(w) ==
    /\ pc[w] = "idle"
    /\ \E p \in Plans : plan' = [plan EXCEPT ![w] = p]
    /\ overlapped' = (overlapped \/ \E v \in Runs : Active(v))
    /\ Goto(w, "fetch")
    /\ UNCHANGED <<stored, work, lock, got, base, last>>

\* The contract service writes nothing without items, so has no timeline step.
NothingFound(w) ==
    /\ plan[w] = <<"integration", "timeline">>
    /\ got[w] = <<<<>>>>

Finished(w) == Len(got[w]) = Len(plan[w]) \/ NothingFound(w)

\* A wrong TakesLockFirst: the crawl reads before it writes, like the others.
ReadsFirst(op) == FALSE

\* crawl_bids has changed the bid_details row when it reads the attachments,
\* so that the SELECT flushes first.
TakesLockFirst(op) == op = "crawl"

\* Fetch the items and read the rows they are to replace.
FetchAndRead(w) ==
    /\ pc[w] = "fetch"
    /\ ~Finished(w)
    /\ LET op == NextOp(w) IN
       \E resp \in IF op = "timeline" THEN {Stages} ELSE Responses :
         /\ got' = [got EXCEPT ![w] = Append(@, resp)]
         /\ IF TakesLockFirst(op) /\ lock # w
            THEN /\ lock = Nobody
                 /\ lock' = w
            ELSE UNCHANGED lock
         /\ IF op = "integration" /\ resp = <<>>
            THEN UNCHANGED <<base, pc>>
            ELSE /\ base' = [base EXCEPT ![w] = View(w)[TableOf(op)]]
                 /\ Goto(w, "flush")
    /\ UNCHANGED <<stored, work, plan, last, overlapped>>

\* What the flush of the current operation may make of rows.
Results(w, rows) ==
    LET op == ThisOp(w) IN
    IF TableOf(op) \in Positional
    THEN {Place(op, f, rows, base[w], Latest(w)) :
            f \in {g \in Lookups(base[w]) :
                     Accepted(op, g, rows, base[w], Latest(w))}}
    ELSE {ReplaceAll(rows, base[w], Latest(w))}

NoChange(w) == base[w] = {} /\ Latest(w) = <<>>

\* The next SELECT or the commit flushes the changes, if there are any.
Flush(w) ==
    LET t == TableOf(ThisOp(w)) IN
    /\ pc[w] = "flush"
    /\ IF NoChange(w)
       THEN UNCHANGED <<lock, work>>
       ELSE /\ lock \in {w, Nobody}
            /\ lock' = w
            /\ \E rows \in Results(w, work[t]) :
                  work' = [work EXCEPT ![t] = rows]
    /\ base' = [base EXCEPT ![w] = {}]
    /\ Goto(w, "fetch")
    /\ UNCHANGED <<stored, plan, got, last, overlapped>>

Written(w) == {TableOf(plan[w][i]) : i \in 1 .. Len(got[w])}

\* The detail service, the crawl, and the contract service when it found
\* something, write last_synced_at of the bid with the commit.
SyncsBid(w) == plan[w][1] \notin {"change", "reference"} /\ ~NothingFound(w)

Commit(w) ==
    /\ pc[w] = "fetch"
    /\ Finished(w)
    /\ SyncsBid(w) => lock \in {w, Nobody}
    /\ stored' = View(w)
    /\ lock' = IF lock = w THEN Nobody ELSE lock
    /\ last' = [t \in Tables |-> IF t \in Written(w) /\ ~NothingFound(w)
                                 THEN w ELSE last[t]]
    /\ Goto(w, "done")
    /\ UNCHANGED <<work, plan, got, base, overlapped>>

\* A wrong Rollback: what was flushed is committed.
KeepsFlushed(w) == work

Rollback(w) == IF lock = w THEN stored ELSE work

\* A remote call, a lock wait or a constraint fails, or the process stops.
Fails(w) ==
    /\ Active(w)
    /\ work' = Rollback(w)
    /\ stored' = IF lock = w THEN work' ELSE stored
    /\ lock' = IF lock = w THEN Nobody ELSE lock
    /\ plan' = [plan EXCEPT ![w] = <<>>]
    /\ got'  = [got EXCEPT ![w] = <<>>]
    /\ base' = [base EXCEPT ![w] = {}]
    /\ Goto(w, "failed")
    /\ UNCHANGED <<last, overlapped>>

Next == \E w \in Runs :
    Begin(w) \/ FetchAndRead(w) \/ Flush(w) \/ Commit(w) \/ Fails(w)

Spec == Init /\ [][Next]_vars

-----------------------------------------------------------------------------
(* Properties.                                                             *)

RowSets == SUBSET [id : Nat, item : Items]

\* Every variable has its type, and no two rows of a table have the same id.
TypeOK ==
    /\ stored \in [Tables -> RowSets]
    /\ work \in [Tables -> RowSets]
    /\ \A t \in Tables : \A r, s \in work[t] : r.id = s.id => r = s
    /\ lock \in Runs \cup {Nobody}
    /\ pc \in [Runs -> PCs]
    /\ plan \in [Runs -> Plans \cup {<<>>}]
    /\ \A w \in Runs : /\ got[w] \in Seq(Responses \cup {Stages})
                       /\ Len(got[w]) <= Len(plan[w])
    /\ base \in [Runs -> RowSets]
    /\ last \in [Tables -> Runs \cup {Nobody}]
    /\ overlapped \in BOOLEAN

\* The response a run got for a table (the last one, for purchase items).
ResponseFor(w, t) ==
    LET at == {i \in DOMAIN got[w] : TableOf(plan[w][i]) = t}
    IN  got[w][CHOOSE i \in at : \A j \in at : j <= i]

Count(n, seq) == Cardinality({i \in DOMAIN seq : seq[i] = n})

Mirrors(t) ==
    last[t] # Nobody =>
        \A n \in Items : Cardinality({r \in stored[t] : r.item = n})
                         = Count(n, ResponseFor(last[t], t))

\* As long as runs do not overlap, a table other than the attachments holds
\* exactly what the last run that wrote it was told, in spite of failed runs
\* and of contract lookups that found nothing.
SerialRunsMirror ==
    ~overlapped => \A t \in Tables \ FileTables : Mirrors(t)

\* Files of the responses so far have been told apart by name and URL.
NoFileTwice(t) ==
    \A w \in Runs : \A i \in DOMAIN got[w] :
        TableOf(plan[w][i]) = t =>
            Cardinality(Listed(got[w][i])) = Len(got[w][i])

Current(t) ==
    last[t] # Nobody =>
        LET listed == Listed(ResponseFor(last[t], t)) IN
        /\ listed \subseteq ItemsOf(stored[t])
        /\ NoFileTwice(t) => /\ listed = ItemsOf(stored[t])
                             /\ Cardinality(stored[t]) = Cardinality(listed)

\* The attachments found by the last crawl that committed are stored, and no
\* others unless a page lists a file twice: whatever runs at the same time,
\* because the crawl has the lock before it reads.
CrawledFilesAreCurrent == Current("crawl")

\* Whatever overlaps and fails, each stored row was in the response some
\* committed run got for its table.
NothingFromFailedRuns ==
    \A t \in Tables : \A r \in stored[t] :
        \E w \in Runs : /\ pc[w] = "done"
                        /\ \E i \in DOMAIN got[w] :
                              /\ TableOf(plan[w][i]) = t
                              /\ r.item \in Listed(got[w][i])

\* A new collection leaves no duplicates (phase-2-checklist.md): no row is
\* there more often than in some response a committed run got for the table.
NoDuplicates ==
    \A t \in Tables \ FileTables : \A r \in stored[t] :
        \E w \in Runs :
            /\ pc[w] = "done"
            /\ t \in Written(w)
            /\ Cardinality({s \in stored[t] : s.item = r.item})
               <= Count(r.item, ResponseFor(w, t))

\* Purchase items are stored per bid (phase-2.md): those of a response are
\* there when the run that got it was the last to commit.
PurchaseItemsAreKept ==
    LET w == last["purchase"] IN
    w # Nobody =>
        \A i \in DOMAIN got[w] :
            TableOf(plan[w][i]) = "purchase"
            => Listed(got[w][i]) \subseteq ItemsOf(stored["purchase"])

\* Attachments are upserted by name and URL (repository-migration-notes.md):
\* without another run, storing a list of files breaks no constraint.
FilesCanBeStored ==
    ~overlapped =>
        \A w \in Runs :
            /\ pc[w] = "flush"
            /\ TableOf(ThisOp(w)) \in FileTables
            => Results(w, work[TableOf(ThisOp(w))]) # {}

=============================================================================
