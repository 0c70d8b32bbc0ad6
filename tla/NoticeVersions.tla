--------------------------- MODULE NoticeVersions ---------------------------
(***************************************************************************)
(* What those who read the versions of one notice can rely on, stated      *)
(* without sessions, stale objects or the database lock: a sync happens at *)
(* once, to the rows that are there at that moment; so does the save of a  *)
(* search result, which is confirmed later, or never; a user's change is   *)
(* one column of one row.                                                  *)
(***************************************************************************)
EXTENDS Integers

CONSTANTS
    Writers,    \* syncs and saves, each of which happens once
    Seqs,       \* versions
    Legacy,     \* versions that may be there to begin with
    Statuses,
    NoSeq,      \* no version
    NoWriter    \* no writer

VARIABLES
    rows,      \* the versions that are stored, as a reader sees them
    source,    \* source[s]: whose item the stored response of s holds
    stored,    \* the writers that have stored what they brought
    saves      \* saves[w]: the version that w has saved and not yet confirmed

vars == <<rows, source, stored, saves>>

Collected == [synced |-> FALSE, latest |-> FALSE, status |-> "collected",
              favorite |-> FALSE]

Init ==
    /\ \E old \in SUBSET Legacy : rows = [s \in old |-> Collected]
    /\ source = [s \in Seqs |-> NoWriter]
    /\ stored = {}
    /\ saves  = [w \in Writers |-> NoSeq]

Newest(seqs) == CHOOSE s \in seqs : \A q \in seqs : q <= s

\* The versions T are brought: no row goes, no user's column changes, and the
\* newest version of all is the latest.
Brought(T) ==
    LET all == DOMAIN rows \cup T IN
    [s \in all |->
        LET old == IF s \in DOMAIN rows THEN rows[s] ELSE Collected IN
        [old EXCEPT !.synced = @ \/ s \in T, !.latest = (s = Newest(all))]]

Favored(row) ==
    [row EXCEPT !.status = IF @ = "collected" THEN "favorite" ELSE @,
                !.favorite = TRUE]

Store(w, T) ==
    /\ w \notin stored
    /\ stored' = stored \cup {w}
    /\ source' = [s \in Seqs |-> IF s \in T THEN w ELSE source[s]]

Sync(w, T) ==
    /\ Store(w, T)
    /\ rows' = Brought(T)
    /\ UNCHANGED saves

Save(w, s) ==
    /\ Store(w, {s})
    /\ rows' = [Brought({s}) EXCEPT ![s] = Favored(@)]
    /\ saves' = [saves EXCEPT ![w] = s]

\* A save is confirmed from what it has read in between: it may find nothing
\* left to write, and overrules a user only towards the favorite.
Confirm(w) ==
    LET s == saves[w] IN
    /\ s # NoSeq
    /\ \E status \in {rows[s].status, "favorite"},
          favorite \in {rows[s].favorite, TRUE} :
          rows' = [rows EXCEPT ![s].status = status, ![s].favorite = favorite]
    /\ saves' = [saves EXCEPT ![w] = NoSeq]
    /\ UNCHANGED <<source, stored>>

Abandon(w) ==
    /\ saves[w] # NoSeq
    /\ saves' = [saves EXCEPT ![w] = NoSeq]
    /\ UNCHANGED <<rows, source, stored>>

SetStatus(s, status) ==
    /\ rows' = [rows EXCEPT ![s].status = status]
    /\ UNCHANGED <<source, stored, saves>>

SetFavorite(s, favorite) ==
    /\ rows' = [rows EXCEPT ![s].favorite = favorite]
    /\ UNCHANGED <<source, stored, saves>>

Next ==
    \/ \E w \in Writers :
          \/ \E T \in (SUBSET Seqs) \ {{}} : Sync(w, T)
          \/ \E s \in Seqs : Save(w, s)
          \/ Confirm(w) \/ Abandon(w)
    \/ \E s \in DOMAIN rows :
          \/ \E status \in Statuses : SetStatus(s, status)
          \/ \E favorite \in BOOLEAN : SetFavorite(s, favorite)

Spec == Init /\ [][Next]_vars

=============================================================================
