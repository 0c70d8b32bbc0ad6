---------------------------- MODULE BidVersions ----------------------------
(***************************************************************************)
(* The versions of one notice (one bid_no): rows of the bids table, one    *)
(* per bid_seq, that several writers keep up to date at the same time      *)
(* (src/app/services/g2b_bid_sync_service.py): sync_bid_notices upserts    *)
(* every item of a list response and commits once; a favorite save from    *)
(* the search page upserts one item, and then writes the row again in a    *)
(* second transaction (src/app/main.py); and users set statuses and        *)
(* favorites.                                                              *)
(*                                                                         *)
(* A session reads without a transaction until its first flush takes the   *)
(* SQLite write lock, so the object of its first item may be stale by      *)
(* then: the identity map is not refreshed by later SELECTs, and the       *)
(* UPDATE names only the columns whose value differs from the loaded one.  *)
(***************************************************************************)
EXTENDS Integers, Sequences

CONSTANTS
    Writers,     \* sessions of syncs and of favorite saves
    MaxSeq,      \* bound: bid_seq of the newest version
    Kinds,       \* ntceKindNm values that occur: of NoticeKinds
    Legacy,      \* versions that may be there from before the version columns
    MaxItems,    \* bound: items of this notice in one sync
    MaxEdits,    \* bound: changes made by users
    NoBid,       \* no row of bids has that key
    NoWriter     \* no writer

NoticeKinds == {"cancel", "rebid", "revise", "other"}
Types       == {"original", "revision", "rebid", "cancellation"}
\* Of the six statuses; see SetStatus.  An empty one, which _upsert_bid and
\* Favored would take for "collected", is not in the pages' selects.
Statuses    == {"collected", "favorite", "archived"}
Seqs        == 0 .. MaxSeq
NoSeq       == -1           \* no version

ASSUME MaxSeqAssumption   == MaxSeq \in Nat
ASSUME MaxItemsAssumption == MaxItems \in Nat \ {0} /\ MaxEdits \in Nat
ASSUME KindsAssumption    == Kinds \subseteq NoticeKinds
ASSUME LegacyAssumption   == Legacy \subseteq Seqs
ASSUME WritersAssumption  == NoWriter \notin Writers

VARIABLES
    bids,     \* the committed bids rows of the notice: bid_seq -> row
    raw,      \* committed bid_details.raw_api_data: whose item it holds
    work,     \* the same two as the holder of the lock sees them
    lock,     \* the writer that holds the SQLite write lock
    pc,       \* where each writer is
    saving,   \* it is a favorite save
    batch,    \* the items it was given, all operations together
    next,     \* index of the item it is at
    loaded,   \* its row as session.get read it
    edits     \* users' changes so far

vars == <<bids, raw, work, lock, pc, saving, batch, next, loaded, edits>>

Row == [type      : Types \cup {"none"},    \* notice_version_type, may be NULL
        effective : BOOLEAN,
        latest    : BOOLEAN,
        parent    : Seqs \cup {NoSeq},
        status    : Statuses,
        favorite  : BOOLEAN]

ASSUME NoBidAssumption == NoBid \notin Row

PCs == {"idle",     \* not begun
        "next",     \* about to read the row of the next item
        "flush",    \* has read it without the lock, about to write
        "reread",   \* a save that has committed its upsert
        "rewrite",  \* it has read the row again
        "done",     \* returned
        "failed",   \* nothing of it is stored
        "halfway"}  \* a save whose second transaction failed

-----------------------------------------------------------------------------
(* The data.                                                               *)

\* A wrong NoticeVersionType: what has no kind of its own is "unknown".
LeavesUnknown(notice, cancelled, seq) ==
    CASE notice = "cancel" -> "cancellation"
      [] notice = "rebid"  -> "rebid"
      [] notice = "revise" -> "revision"
      [] OTHER -> IF cancelled THEN "cancellation"
                  ELSE IF seq = 0 THEN "original" ELSE "unknown"

\* _notice_version_type; cancelled is _is_cancellation_notice.
NoticeVersionType(notice, cancelled, seq) ==
    CASE notice = "cancel" -> "cancellation"
      [] notice = "rebid"  -> "rebid"
      [] notice = "revise" -> "revision"
      [] OTHER -> IF cancelled THEN "cancellation"
                  ELSE IF seq = 0 THEN "original" ELSE "revision"

\* What a list response says of one version.
Item == {[seq |-> s, type |-> NoticeVersionType(n, c, s)] :
            s \in Seqs, n \in Kinds, c \in BOOLEAN}

\* A row of before _sync_sqlite_legacy_columns, and a new Bid(...), have the
\* same defaults.
BlankRow == [type |-> "none", effective |-> TRUE, latest |-> FALSE,
             parent |-> NoSeq, status |-> "collected", favorite |-> FALSE]

Present(table) == {s \in Seqs : table[s] # NoBid}

Newest(seqs) == CHOOSE s \in seqs : \A q \in seqs : q <= s

\* _parent_bid_id: the version just before, of those stored by now.
ParentOf(seqs, seq) ==
    LET earlier == {q \in seqs : q < seq} IN
    IF earlier = {} THEN NoSeq ELSE Newest(earlier)

\* A wrong Favored: any status gives way.
AlwaysFavorite(row) == [row EXCEPT !.favorite = TRUE, !.status = "favorite"]

\* The favorite part of upsert_bid_item and of _save_favorite_bid_from_search.
Favored(row) ==
    [row EXCEPT !.favorite = TRUE,
                !.status = IF @ = "collected" THEN "favorite" ELSE @]

\* A wrong Update: every column is written.
UpdateAllColumns(stored, base, new) == new

\* The UPDATE of a dirty object: columns that differ from what was loaded.
Update(stored, base, new) ==
    [c \in DOMAIN new |-> IF new[c] = base[c] THEN stored[c] ELSE new[c]]

\* A wrong RefreshLatest: earlier versions keep their mark.
MarksOnly(row, newest) == [row EXCEPT !.latest = @ \/ newest]

\* _refresh_version_group, for one row.
RefreshLatest(row, newest) == [row EXCEPT !.latest = newest]

\* The object of an item as _upsert_bid leaves it, base being its loaded row.
Upserted(base, item, seqs) ==
    LET row == [base EXCEPT !.type = item.type,
                            !.effective = item.type # "cancellation",
                            !.parent = ParentOf(seqs, item.seq)]
    IN  RefreshLatest(row, item.seq = Newest(seqs))

\* The table after the upsert of item.  The favorite part of a save works on
\* the row as it is by then: nothing keeps the first object, so the second
\* session.get reads it again.
UpsertInto(table, base, item, isSave) ==
    LET seqs   == Present(table) \cup {item.seq}
        stored == IF base = NoBid THEN Upserted(BlankRow, item, seqs)
                  ELSE Update(table[item.seq], base, Upserted(base, item, seqs))
    IN  [s \in Seqs |->
            IF s = item.seq THEN IF isSave THEN Favored(stored) ELSE stored
            ELSE IF table[s] = NoBid THEN NoBid
                 ELSE RefreshLatest(table[s], s = Newest(seqs))]

-----------------------------------------------------------------------------

Committed == [bids |-> bids, raw |-> raw]

Init ==
    /\ \E old \in SUBSET Legacy :
         bids = [s \in Seqs |-> IF s \in old THEN BlankRow ELSE NoBid]
    /\ raw    = [s \in Seqs |-> NoWriter]
    /\ work   = Committed
    /\ lock   = NoWriter
    /\ pc     = [w \in Writers |-> "idle"]
    /\ saving = [w \in Writers |-> FALSE]
    /\ batch  = [w \in Writers |-> <<>>]
    /\ next   = [w \in Writers |-> 1]
    /\ loaded = [w \in Writers |-> NoBid]
    /\ edits  = 0

Goto(w, where) == pc' = [pc EXCEPT ![w] = where]
Current(w)     == batch[w][next[w]]
Batches        == UNION {[1 .. n -> Item] : n \in 1 .. MaxItems}

\* Items of other notices and items without a bid_no are left out of batch.
StartSync(w) ==
    /\ pc[w] = "idle"
    /\ \E b \in Batches : batch' = [batch EXCEPT ![w] = b]
    /\ Goto(w, "next")
    /\ UNCHANGED <<bids, raw, work, lock, saving, next, loaded, edits>>

StartSave(w) ==
    /\ pc[w] = "idle"
    /\ \E i \in Item : batch' = [batch EXCEPT ![w] = <<i>>]
    /\ saving' = [saving EXCEPT ![w] = TRUE]
    /\ Goto(w, "next")
    /\ UNCHANGED <<bids, raw, work, lock, next, loaded, edits>>

\* session.get without a transaction.
ReadFirst(w) ==
    /\ pc[w] = "next"
    /\ next[w] = 1
    /\ loaded' = [loaded EXCEPT ![w] = bids[Current(w).seq]]
    /\ Goto(w, "flush")
    /\ UNCHANGED <<bids, raw, work, lock, saving, batch, next, edits>>

\* The rest of _upsert_bid, in the view of the lock's new holder.
Upsert(w, base) ==
    /\ work' = [bids |-> UpsertInto(work.bids, base, Current(w), saving[w]),
                raw  |-> [work.raw EXCEPT ![Current(w).seq] = w]]
    /\ next' = [next EXCEPT ![w] = @ + 1]
    /\ Goto(w, "next")

\* The first flush takes the lock.  An INSERT of a row that is there by now
\* fails: see Fails.
UpsertFirst(w) ==
    /\ pc[w] = "flush"
    /\ lock = NoWriter
    /\ loaded[w] = NoBid => bids[Current(w).seq] = NoBid
    /\ lock' = w
    /\ Upsert(w, loaded[w])
    /\ UNCHANGED <<bids, raw, saving, batch, loaded, edits>>

\* With the lock held, what is read is what is there.
UpsertNext(w) ==
    /\ pc[w] = "next"
    /\ next[w] \in 2 .. Len(batch[w])
    /\ Upsert(w, work.bids[Current(w).seq])
    /\ UNCHANGED <<bids, raw, lock, saving, batch, loaded, edits>>

Commit(w) ==
    /\ pc[w] = "next"
    /\ next[w] > Len(batch[w])
    /\ bids' = work.bids
    /\ raw'  = work.raw
    /\ lock' = NoWriter
    /\ Goto(w, IF saving[w] THEN "reread" ELSE "done")
    /\ UNCHANGED <<work, saving, batch, next, loaded, edits>>

\* commit expired the objects, so the row is read again.
ReadAgain(w) ==
    /\ pc[w] = "reread"
    /\ loaded' = [loaded EXCEPT ![w] = bids[batch[w][1].seq]]
    /\ Goto(w, "rewrite")
    /\ UNCHANGED <<bids, raw, work, lock, saving, batch, next, edits>>

\* The second transaction of a save: one flush and the commit.
SaveAgain(w) ==
    LET s == batch[w][1].seq IN
    /\ pc[w] = "rewrite"
    /\ lock = NoWriter
    /\ bids' = [bids EXCEPT ![s] = Update(@, loaded[w], Favored(loaded[w]))]
    /\ work' = [work EXCEPT !.bids = bids']
    /\ Goto(w, "done")
    /\ UNCHANGED <<raw, lock, saving, batch, next, loaded, edits>>

\* A wrong Rollback: the error path commits what was flushed.
CommitsOnError(w) ==
    /\ lock' = NoWriter
    /\ bids' = work.bids
    /\ raw'  = work.raw
    /\ UNCHANGED work

Rollback(w) ==
    /\ lock' = IF lock = w THEN NoWriter ELSE lock
    /\ work' = IF lock = w THEN Committed ELSE work
    /\ UNCHANGED <<bids, raw>>

\* A remote call, a flush or a lock wait fails, or the process stops.
Fails(w) ==
    /\ pc[w] \in {"next", "flush", "reread", "rewrite"}
    /\ Rollback(w)
    /\ Goto(w, IF pc[w] \in {"reread", "rewrite"} THEN "halfway" ELSE "failed")
    /\ UNCHANGED <<saving, batch, next, loaded, edits>>

-----------------------------------------------------------------------------
(* Users; each change is one column of one row in a transaction.           *)

UserChange(s, row) ==
    /\ edits < MaxEdits
    /\ edits' = edits + 1
    /\ lock = NoWriter
    /\ bids' = [bids EXCEPT ![s] = row]
    /\ work' = [work EXCEPT !.bids = bids']
    /\ UNCHANGED <<raw, lock, pc, saving, batch, next, loaded>>

\* update_bid_status.  Of the statuses only "collected" and "favorite" mean
\* something to the writers, and only "archived" to the readers.
SetStatus(s, status) ==
    /\ bids[s] # NoBid
    /\ UserChange(s, [bids[s] EXCEPT !.status = status])

\* set_bid_favorite.
SetFavorite(s, favorite) ==
    /\ bids[s] # NoBid
    /\ UserChange(s, [bids[s] EXCEPT !.favorite = favorite])

-----------------------------------------------------------------------------

SyncStep(w) ==
    \/ StartSync(w) \/ ReadFirst(w) \/ UpsertFirst(w) \/ UpsertNext(w)
    \/ Commit(w) \/ Fails(w)

SaveStep(w) == StartSave(w) \/ ReadAgain(w) \/ SaveAgain(w)

UserStep ==
    \E s \in Seqs : \/ \E status \in Statuses : SetStatus(s, status)
                    \/ \E favorite \in BOOLEAN : SetFavorite(s, favorite)

Next ==
    \/ \E w \in Writers : SyncStep(w) \/ SaveStep(w)
    \/ UserStep

Spec == Init /\ [][Next]_vars

-----------------------------------------------------------------------------
(* Properties.                                                             *)

\* Every variable has its type.
TypeOK ==
    /\ bids \in [Seqs -> Row \cup {NoBid}]
    /\ raw \in [Seqs -> Writers \cup {NoWriter}]
    /\ work \in [bids : [Seqs -> Row \cup {NoBid}],
                 raw  : [Seqs -> Writers \cup {NoWriter}]]
    /\ lock \in Writers \cup {NoWriter}
    /\ pc \in [Writers -> PCs]
    /\ saving \in [Writers -> BOOLEAN]
    /\ \A w \in Writers : batch[w] \in Batches \cup {<<>>}
    /\ next \in [Writers -> 1 .. MaxItems + 1]
    /\ loaded \in [Writers -> Row \cup {NoBid}]
    /\ edits \in 0 .. MaxEdits

\* Once a version of the notice was synced, the newest one in the table is
\* marked as the latest and no other is, in whatever order versions arrive and
\* whoever brings them.
OneLatestVersion ==
    LET seqs == Present(bids) IN
    (\E s \in seqs : bids[s].type # "none") =>
        \A s \in seqs : bids[s].latest = (s = Newest(seqs))

\* A sync is stored completely or not at all: what the table got from a writer
\* is from one that committed, and of such a one no item is missing.
AllOrNothing ==
    LET committed == {w \in Writers :
                        pc[w] \in {"reread", "rewrite", "done", "halfway"}}
    IN  /\ \A s \in Seqs : raw[s] \in committed \cup {NoWriter}
        /\ \A w \in committed : \A i \in 1 .. Len(batch[w]) :
              /\ raw[batch[w][i].seq] # NoWriter
              /\ bids[batch[w][i].seq].type # "none"

\* A sync never takes back what a user chose, even when the choice was made
\* after it had read the row: statuses and favorites of stored versions are
\* changed by users, and by favorite saves in their own direction.
SyncsKeepUserChoices ==
    [][\A w \in Writers : \A s \in Seqs :
          /\ SyncStep(w) \/ SaveStep(w)
          /\ bids[s] # NoBid
          => LET saved == saving[w] /\ s = batch[w][1].seq IN
             /\ bids'[s].status # bids[s].status
                => saved /\ bids'[s].status = "favorite"
             /\ bids'[s].favorite # bids[s].favorite
                => saved /\ bids'[s].favorite
      ]_vars

\* What a reader sees of a row, but for its type and its parent; and of the
\* writers, those that have committed and the saves among them still at work.
Seen(row) == [synced |-> row.type # "none", latest |-> row.latest,
              status |-> row.status, favorite |-> row.favorite]
Shown  == [s \in Present(bids) |-> Seen(bids[s])]
Stored == {w \in Writers : pc[w] \in {"reread", "rewrite", "done", "halfway"}}
Saves  == [w \in Writers |-> IF pc[w] \in {"reread", "rewrite"}
                             THEN batch[w][1].seq ELSE NoSeq]

Promise == INSTANCE NoticeVersions WITH
    rows <- Shown, source <- raw, stored <- Stored, saves <- Saves

\* Although syncs and saves overlap and write rows from stale objects, readers
\* see each of them happen at once, at its commit, to the rows that are there
\* by then: no write of another one, nor of a user, is lost on the way.
ImplementsNoticeVersions == Promise!Spec

\* is_effective_version says whether the version is a cancellation
\* (g2b-bid-version-field-mapping.md 4.3).
EffectiveFollowsType ==
    \A s \in Present(bids) :
        bids[s].effective = (bids[s].type # "cancellation")

\* _latest_effective_version of _list_bid_versions, what the drawer calls the
\* latest effective version: the newest one that is not archived.
LatestEffective ==
    LET shown == {s \in Present(bids) : bids[s].status # "archived"} IN
    IF shown = {} THEN NoSeq ELSE Newest(shown)

\* It is the newest one that is no cancellation (ibid.).
LatestEffectiveIsEffective ==
    LatestEffective # NoSeq
    /\ (\E s \in Present(bids) : bids[s].effective)
    => bids[LatestEffective].effective

=============================================================================
