--------------------------- MODULE Browsing_proofs ---------------------------
(***************************************************************************)
(* Proofs about Browsing: clicks on the stars of the table cancel out, for *)
(* any number of requests, syncs, bids and readers.                        *)
(*                                                                         *)
(* A toggle of the table occupies the event loop from its read to its      *)
(* answer, so that there is one at most between the two; what it has read  *)
(* is still there when it writes, as nothing else that may happen to such  *)
(* a bid - a sync, a new status - touches the flag.                        *)
(***************************************************************************)
EXTENDS Browsing, LiveSearch_proofs

-----------------------------------------------------------------------------
(* The inductive invariant.                                                *)

Flagged(row) ==
    /\ DOMAIN row = {"changed", "status", "favorite"}
    /\ row.favorite \in BOOLEAN

FlaggedRows ==
    /\ DOMAIN table = Bids /\ \A b \in Bids : table[b] # Absent => Flagged(table[b])
    /\ DOMAIN samples = Bids /\ \A b \in SampleBids : Flagged(samples[b])

Typed ==
    /\ FlaggedRows
    /\ req \in [Requests -> Asked]
    /\ DOMAIN pc = Requests
    /\ flag \in [Requests -> BOOLEAN]
    /\ origin \in [Bids -> Row \cup {Absent}]

\* Who has begun with the table occupies the event loop.
Loop ==
    \A r \in Requests :
        (req[r].kind \in TableKinds /\ pc[r] \in {"write", "answer"}) => loop = r

\* A bid that was in the database, and whose flag only toggles of the table write.
Clickable(b) ==
    /\ Backend # "sample" /\ b \in Bids /\ origin[b] # Absent
    /\ \A r \in Requests : WritesFavorite(r, b) => req[r].kind = "tableToggle"

Written(r) == pc[r] \in {"answer", "done"}
Clicks(b)  == {r \in Requests : WritesFavorite(r, b) /\ Written(r)}

\* The number of its clicks tells what the flag is, and a click on its way has
\* read it.
Counted(b) ==
    /\ table[b] # Absent
    /\ IsFiniteSet(Clicks(b))
    /\ (table[b].favorite = origin[b].favorite) <=> (Cardinality(Clicks(b)) % 2 = 0)
    /\ \A r \in Requests :
          (WritesFavorite(r, b) /\ pc[r] = "write") => flag[r] = table[b].favorite

IInv == Typed /\ Loop /\ \A b \in Bids : Clickable(b) => Counted(b)

-----------------------------------------------------------------------------
(* Facts about the state.                                                  *)

LEMMA RequestFacts ==
    ASSUME Typed, NEW r \in Requests
    PROVE  req[r] \in Request /\ req[r].bid \in Bids /\ req[r].kind \in Kinds
<1>1. req[r] \in Request
  BY BrowsingAssumption DEF Typed
<1>2. QED  BY <1>1 DEF Request

LEMMA AbsentFacts == \A row : Flagged(row) => row # Absent
<1>1. DOMAIN Absent = {"absent"}
  BY DEF Absent
<1>2. QED  BY <1>1 DEF Flagged

\* A write of one bid writes one row, and it has a flag.
LEMMA PutFacts ==
    ASSUME FlaggedRows, NEW b \in Bids, NEW row, Put(b, row),
           InDatabase(b) \/ b \in SampleBids => Flagged(row)
    PROVE  /\ FlaggedRows'
           /\ \A c \in Bids \ {b} : table'[c] = table[c]
           /\ InDatabase(b) => table'[b] = row
           /\ ~InDatabase(b) => table' = table
<1>1. CASE InDatabase(b)
  <2>1. table' = [table EXCEPT ![b] = row] /\ samples' = samples
    BY <1>1 DEF Put, Store
  <2>2. QED  BY <2>1, <1>1 DEF FlaggedRows
<1>2. CASE ~InDatabase(b)
  <2>1. table' = table /\ samples' = [samples EXCEPT ![b] = row]
    BY <1>2 DEF Put, Store
  <2>2. QED  BY <2>1, <1>2, BidAssumption DEF FlaggedRows
<1>3. QED  BY <1>1, <1>2

LEMMA SetFavoriteFacts ==
    ASSUME FlaggedRows, NEW b \in Bids, NEW value \in BOOLEAN, SetFavorite(b, value)
    PROVE  /\ FlaggedRows'
           /\ \A c \in Bids \ {b} : table'[c] = table[c]
           /\ InDatabase(b) => table'[b] # Absent /\ table'[b].favorite = value
<1>1. PICK row : row = [Get(b) EXCEPT !.favorite = value]
  OBVIOUS
<1>2. InDatabase(b) \/ b \in SampleBids => Flagged(row) /\ row.favorite = value
  BY <1>1 DEF InDatabase, Stored, Get, FlaggedRows, Flagged
<1>3. Put(b, row)
  BY <1>1 DEF SetFavorite
<1>4. /\ FlaggedRows'
      /\ \A c \in Bids \ {b} : table'[c] = table[c]
      /\ InDatabase(b) => table'[b] = row
  BY <1>2, <1>3, PutFacts
<1>5. QED  BY <1>2, <1>4, AbsentFacts

\* Neither a new status nor a sync changes a flag.
SameFlags ==
    /\ FlaggedRows'
    /\ \A b \in Bids : table[b] # Absent =>
          table'[b] # Absent /\ table'[b].favorite = table[b].favorite

LEMMA SetStatusFacts ==
    ASSUME FlaggedRows, NEW b \in Bids, NEW value, SetStatus(b, value)
    PROVE  SameFlags
<1>1. PICK row : row = [Get(b) EXCEPT !.status = value]
  OBVIOUS
<1>2. /\ InDatabase(b) \/ b \in SampleBids => Flagged(row)
      /\ InDatabase(b) => row.favorite = table[b].favorite
  BY <1>1 DEF InDatabase, Stored, Get, FlaggedRows, Flagged
<1>3. Put(b, row)
  BY <1>1 DEF SetStatus
<1>4. /\ FlaggedRows'
      /\ \A c \in Bids \ {b} : table'[c] = table[c]
      /\ InDatabase(b) => table'[b] = row
      /\ ~InDatabase(b) => table' = table
  BY <1>2, <1>3, PutFacts
<1>5. QED  BY <1>2, <1>4, AbsentFacts DEF SameFlags

LEMMA SyncFacts ==
    ASSUME FlaggedRows, NEW b, NEW changed, Sync(b, changed)
    PROVE  SameFlags
<1>1. PICK row : row = IF table[b] = Absent
                       THEN [changed |-> changed, status |-> "collected",
                             favorite |-> FALSE]
                       ELSE [table[b] EXCEPT !.changed = changed]
  OBVIOUS
<1>2. table' = [table EXCEPT ![b] = row] /\ samples' = samples
  BY <1>1 DEF Sync, Store
<1>3. ASSUME b \in Bids
      PROVE  Flagged(row) /\ (table[b] # Absent => row.favorite = table[b].favorite)
  BY <1>1, <1>3 DEF FlaggedRows, Flagged
<1>4. FlaggedRows'
  BY <1>2, <1>3 DEF FlaggedRows
<1>5. QED  BY <1>2, <1>3, <1>4, AbsentFacts DEF SameFlags, FlaggedRows

LEMMA Parity == \A n \in Nat : ((n + 1) % 2 = 0) <=> ~(n % 2 = 0)
  OBVIOUS

-----------------------------------------------------------------------------
(* The steps.                                                              *)

\* A step that is no click leaves a bid as it is counted.
LEMMA CountedKept ==
    ASSUME Typed, UNCHANGED <<req, origin>>, NEW b, Counted(b),
           table'[b] # Absent, table'[b].favorite = table[b].favorite,
           \A r \in Requests : WritesFavorite(r, b) =>
               /\ Written(r)' <=> Written(r)
               /\ pc'[r] = "write" => pc[r] = "write" /\ flag'[r] = flag[r]
    PROVE  Counted(b)'
<1>1. \A r \in Requests : WritesFavorite(r, b)' <=> WritesFavorite(r, b)
  BY DEF WritesFavorite
<1>2. Clicks(b)' = Clicks(b)
  BY <1>1 DEF Clicks
<1>3. QED  BY <1>1, <1>2 DEF Counted

LEMMA ClickableKept ==
    ASSUME UNCHANGED <<req, origin>>, NEW b
    PROVE  Clickable(b)' <=> Clickable(b)
  BY DEF Clickable, WritesFavorite

\* A request that ends at once, and writes the flag of no bid that only toggles
\* of the table write.
LEMMA OthersKeep ==
    ASSUME IInv, NEW r \in Requests, NEW where \in {"answer", "done", "failed"},
           UNCHANGED <<req, flag, origin>>, pc' = [pc EXCEPT ![r] = where],
           Typed', Loop',
           req[r].kind = "tableToggle" => (Written(r) <=> where # "failed"),
           \A b \in Bids :
               (/\ WritesFavorite(r, b) => req[r].kind = "tableToggle"
                /\ table[b] # Absent) =>
                   table'[b] # Absent /\ table'[b].favorite = table[b].favorite
    PROVE  IInv'
<1> SUFFICES ASSUME NEW b \in Bids, Clickable(b)
             PROVE  Counted(b)'
  BY ClickableKept DEF IInv
<1>1. Typed /\ Counted(b)
  BY DEF IInv
<1>2. \A q \in Requests \ {r} : pc'[q] = pc[q]
  BY <1>1 DEF Typed
<1>3. pc'[r] = where
  BY <1>1 DEF Typed
<1>4. WritesFavorite(r, b) => req[r].kind = "tableToggle"
  BY DEF Clickable
<1>5. table'[b] # Absent /\ table'[b].favorite = table[b].favorite
  BY <1>1, <1>4 DEF Counted
<1>6. WritesFavorite(r, b) => (Written(r)' <=> Written(r)) /\ pc'[r] # "write"
  BY <1>3, <1>4 DEF Written
<1>7. \A q \in Requests : WritesFavorite(q, b) =>
         /\ Written(q)' <=> Written(q)
         /\ pc'[q] = "write" => pc[q] = "write" /\ flag'[q] = flag[q]
  BY <1>2, <1>6 DEF Written
<1>8. QED  BY <1>1, <1>5, <1>7, CountedKept

\* One that enters the loop finds it free, so that nobody else has begun.
LEMMA LoopEntered ==
    ASSUME Typed, Loop, NEW r \in Requests, NEW where, UNCHANGED req,
           pc' = [pc EXCEPT ![r] = where], Admitted(r)
    PROVE  Loop'
<1>1. \A q \in Requests \ {r} : pc'[q] = pc[q]
  BY DEF Typed
<1>2. CASE req[r].kind \in AsyncKinds
  <2>1. loop = Nobody /\ loop' = r
    BY <1>2 DEF Admitted
  <2>2. \A q \in Requests : loop # q
    BY <2>1, BrowsingAssumption
  <2>3. QED  BY <2>1, <2>2, <1>1 DEF Loop
<1>3. CASE req[r].kind \notin AsyncKinds
  <2>1. loop' = loop /\ req[r].kind \notin TableKinds
    BY <1>3 DEF Admitted, AsyncKinds, TableKinds
  <2>2. QED  BY <2>1, <1>1 DEF Loop
<1>4. QED  BY <1>2, <1>3

LEMMA LoopKept ==
    ASSUME Typed, Loop, NEW r \in Requests, NEW where, UNCHANGED <<req, loop>>,
           pc' = [pc EXCEPT ![r] = where],
           where = "answer" => loop = r,
           req[r].kind \in TableKinds => where # "write"
    PROVE  Loop'
<1>1. /\ \A q \in Requests \ {r} : pc'[q] = pc[q]
      /\ pc'[r] = where
  BY DEF Typed
<1>2. QED  BY <1>1 DEF Loop

LEMMA InitIInv == Init => IInv
<1> SUFFICES ASSUME Init PROVE IInv  OBVIOUS
<1>1. table \in [Bids -> Row \cup {Absent}] /\ origin = table
  BY BrowsingAssumption DEF Init
<1>2. Typed
  <2>1. ASSUME NEW b \in Bids, table[b] # Absent PROVE Flagged(table[b])
    <3>1. table[b] \in Row
      BY <1>1, <2>1
    <3>2. QED  BY <3>1 DEF Row, Flagged
  <2>2. DOMAIN samples = Bids /\ \A b \in SampleBids : Flagged(samples[b])
    BY BidAssumption DEF Init, Flagged
  <2>3. /\ req \in [Requests -> Asked] /\ DOMAIN pc = Requests
        /\ flag \in [Requests -> BOOLEAN]
    BY DEF Init
  <2>4. QED  BY <1>1, <2>1, <2>2, <2>3 DEF Typed, FlaggedRows
<1>3. \A r \in Requests : pc[r] = "new"
  BY DEF Init
<1>4. Loop
  BY <1>3 DEF Loop
<1>5. ASSUME NEW b \in Bids, Clickable(b) PROVE Counted(b)
  <2>1. Clicks(b) = {}
    BY <1>3 DEF Clicks, Written
  <2>2. IsFiniteSet(Clicks(b)) /\ Cardinality(Clicks(b)) = 0
    BY <2>1, FS_EmptySet
  <2>3. Cardinality(Clicks(b)) % 2 = 0
    BY <2>2
  <2>4. QED  BY <2>2, <2>3, <1>1, <1>3, <1>5 DEF Counted, Clickable
<1>6. QED  BY <1>2, <1>4, <1>5 DEF IInv

LEMMA ReadFlagKeeps ==
    ASSUME IInv, NEW r \in Requests, ReadFlag(r)
    PROVE  IInv'
<1>1. /\ Typed /\ Loop /\ pc[r] = "new" /\ Known(req[r].bid) /\ req[r].bid \in Bids
      /\ flag' = [flag EXCEPT ![r] = Get(req[r].bid).favorite]
      /\ pc' = [pc EXCEPT ![r] = "write"] /\ Admitted(r)
      /\ UNCHANGED <<table, samples, req, origin>>
  BY RequestFacts DEF IInv, ReadFlag, Go, store
<1>2. Typed'
  <2>1. Get(req[r].bid).favorite \in BOOLEAN
    BY <1>1 DEF Typed, FlaggedRows, Flagged, Known, InDatabase, Stored, Get
  <2>2. flag' \in [Requests -> BOOLEAN] /\ DOMAIN pc' = Requests
    BY <2>1, <1>1 DEF Typed
  <2>3. FlaggedRows'
    BY <1>1 DEF Typed, FlaggedRows, Flagged
  <2>4. QED  BY <2>2, <2>3, <1>1 DEF Typed
<1>3. Loop'
  BY <1>1, LoopEntered
<1>4. /\ pc'[r] = "write" /\ flag'[r] = Get(req[r].bid).favorite
      /\ \A q \in Requests \ {r} : pc'[q] = pc[q] /\ flag'[q] = flag[q]
  BY <1>1 DEF Typed
<1>5. ASSUME NEW b \in Bids, Clickable(b) PROVE Counted(b)'
  <2>1. Counted(b)
    BY <1>5 DEF IInv
  <2>2. \A q \in Requests : /\ WritesFavorite(q, b)' <=> WritesFavorite(q, b)
                            /\ Written(q)' <=> Written(q)
    BY <1>1, <1>4 DEF WritesFavorite, Written
  <2>3. Clicks(b)' = Clicks(b)
    BY <2>2 DEF Clicks
  <2>4. WritesFavorite(r, b) => flag'[r] = table[b].favorite
    <3> HAVE WritesFavorite(r, b)
    <3>1. req[r].bid = b /\ InDatabase(b)
      BY <2>1, <1>5 DEF WritesFavorite, Counted, Clickable, InDatabase, Stored
    <3>2. QED  BY <3>1, <1>4 DEF Get
  <2>5. \A q \in Requests : (WritesFavorite(q, b)' /\ pc'[q] = "write")
                            => flag'[q] = table'[b].favorite
    BY <2>1, <2>2, <2>4, <1>1, <1>4 DEF Counted
  <2>6. QED  BY <2>1, <2>3, <2>5, <1>1 DEF Counted
<1>6. QED  BY <1>1, <1>2, <1>3, <1>5, ClickableKept DEF IInv

\* The click itself: nobody else is between the read and the write, so that the
\* flag is turned over from what it is, and the clicks are one more.
LEMMA WriteFlagKeeps ==
    ASSUME IInv, NEW r \in Requests, WriteFlag(r)
    PROVE  IInv'
<1>1. PICK where : where = IF req[r].kind = "tableToggle" THEN "answer" ELSE "done"
  OBVIOUS
<1>2. /\ Typed /\ Loop /\ pc[r] = "write" /\ req[r].bid \in Bids
      /\ req[r].kind \in Toggles /\ SetFavorite(req[r].bid, ~flag[r])
      /\ pc' = [pc EXCEPT ![r] = where]
      /\ UNCHANGED <<req, flag, loop, origin>>
  BY <1>1, RequestFacts DEF IInv, WriteFlag, Go
<1>3. /\ FlaggedRows'
      /\ \A c \in Bids \ {req[r].bid} : table'[c] = table[c]
      /\ InDatabase(req[r].bid) => /\ table'[req[r].bid] # Absent
                                   /\ table'[req[r].bid].favorite = ~flag[r]
  <2>1. PICK value \in BOOLEAN : value = ~flag[r]
    BY <1>2 DEF Typed
  <2>2. PICK b \in Bids : b = req[r].bid
    BY <1>2
  <2>3. SetFavorite(b, value)
    BY <2>1, <2>2, <1>2
  <2>4. /\ FlaggedRows'
        /\ \A c \in Bids \ {b} : table'[c] = table[c]
        /\ InDatabase(b) => table'[b] # Absent /\ table'[b].favorite = value
    BY <2>3, <1>2, SetFavoriteFacts DEF Typed
  <2>5. QED  BY <2>1, <2>2, <2>4
<1>4. Typed'
  <2>1. DOMAIN pc' = Requests
    BY <1>2 DEF Typed
  <2>2. QED  BY <2>1, <1>2, <1>3 DEF Typed
<1>5. req[r].kind = "tableToggle" => loop = r
  BY <1>2 DEF Loop, TableKinds
<1>6. Loop'
  <2>1. where = "answer" => loop = r
    BY <1>1, <1>5
  <2>2. where # "write"
    BY <1>1
  <2>3. QED  BY <2>1, <2>2, <1>2, LoopKept
<1>7. /\ pc'[r] = where
      /\ \A q \in Requests \ {r} : pc'[q] = pc[q]
  BY <1>2 DEF Typed
<1>8. ASSUME NEW b \in Bids, Clickable(b) PROVE Counted(b)'
  <2>1. Counted(b)
    BY <1>8 DEF IInv
  <2>2. CASE ~WritesFavorite(r, b)
    <3>1. req[r].bid # b
      BY <2>2, <1>2 DEF WritesFavorite
    <3>2. table'[b] = table[b]
      BY <3>1, <1>3
    <3>3. \A q \in Requests : WritesFavorite(q, b) =>
             /\ Written(q)' <=> Written(q)
             /\ pc'[q] = "write" => pc[q] = "write" /\ flag'[q] = flag[q]
      BY <2>2, <1>2, <1>7 DEF Written
    <3>4. QED  BY <3>2, <3>3, <2>1, <1>2, CountedKept DEF Counted
  <2>3. CASE WritesFavorite(r, b)
    <3>1. req[r].bid = b /\ req[r].kind = "tableToggle" /\ where = "answer" /\ loop = r
      BY <2>3, <1>1, <1>5, <1>8 DEF WritesFavorite, Clickable
    <3>2. InDatabase(b)
      BY <2>1, <1>8 DEF InDatabase, Stored, Counted, Clickable
    <3>3. flag[r] = table[b].favorite
      BY <2>1, <2>3, <1>2 DEF Counted
    <3>4. table'[b] # Absent /\ table'[b].favorite = ~table[b].favorite
      BY <3>1, <3>2, <3>3, <1>3
    <3>5. \A q \in Requests : WritesFavorite(q, b)' <=> WritesFavorite(q, b)
      BY <1>2 DEF WritesFavorite
    <3>6. Clicks(b)' = Clicks(b) \cup {r} /\ r \notin Clicks(b)
      BY <3>1, <3>5, <2>3, <1>2, <1>7 DEF Clicks, Written
    <3>7. /\ IsFiniteSet(Clicks(b)')
          /\ Cardinality(Clicks(b)') = Cardinality(Clicks(b)) + 1
          /\ Cardinality(Clicks(b)) \in Nat
      BY <3>6, <2>1, FS_AddElement, FS_CardinalityType DEF Counted
    <3>8. (Cardinality(Clicks(b)') % 2 = 0) <=> ~(Cardinality(Clicks(b)) % 2 = 0)
      <4>1. PICK n \in Nat : n = Cardinality(Clicks(b))
        BY <3>7
      <4>2. ((n + 1) % 2 = 0) <=> ~(n % 2 = 0)
        BY Parity
      <4>3. QED  BY <3>7, <4>1, <4>2
    <3>9. table[b].favorite \in BOOLEAN /\ origin[b].favorite \in BOOLEAN
      BY <2>1, <1>2, <1>8 DEF Typed, FlaggedRows, Flagged, Counted, Clickable, Row
    <3>10. (table'[b].favorite = origin[b].favorite) <=> ~(table[b].favorite = origin[b].favorite)
      BY <3>4, <3>9, Zenon
    <3>11. ~\E q \in Requests : WritesFavorite(q, b) /\ pc'[q] = "write"
      <4> SUFFICES ASSUME NEW q \in Requests, WritesFavorite(q, b), pc'[q] = "write"
                   PROVE  FALSE
        OBVIOUS
      <4>1. q # r /\ pc[q] = "write"
        BY <3>1, <1>7
      <4>2. req[q].kind = "tableToggle"
        BY <1>8 DEF Clickable
      <4>3. loop = q
        BY <4>1, <4>2, <1>2 DEF Loop, TableKinds
      <4>4. QED  BY <4>1, <4>3, <3>1
    <3>12. (table'[b].favorite = origin'[b].favorite) <=> (Cardinality(Clicks(b)') % 2 = 0)
      <4>1. (table[b].favorite = origin[b].favorite) <=> (Cardinality(Clicks(b)) % 2 = 0)
        BY <2>1 DEF Counted
      <4>2. origin' = origin
        BY <1>2
      <4>3. QED  BY <4>1, <4>2, <3>8, <3>10, Zenon
    <3>13. QED  BY <3>4, <3>5, <3>7, <3>11, <3>12 DEF Counted
  <2>4. QED  BY <2>2, <2>3
<1>9. QED  BY <1>2, <1>4, <1>6, <1>8, ClickableKept DEF IInv

\* What is left of the preservation when the flags stay.
LEMMA TypedKept ==
    ASSUME Typed, FlaggedRows', UNCHANGED <<req, flag, origin>>,
           NEW r, NEW where, pc' = [pc EXCEPT ![r] = where]
    PROVE  Typed'
<1>1. DOMAIN pc' = Requests
  BY DEF Typed
<1>2. QED  BY <1>1 DEF Typed

LEMMA WriteTableStatusKeeps ==
    ASSUME IInv, NEW r \in Requests, WriteTableStatus(r)
    PROVE  IInv'
<1>1. /\ Typed /\ Loop /\ req[r].bid \in Bids /\ req[r].kind = "tableStatus"
      /\ SetStatus(req[r].bid, req[r].value) /\ Admitted(r)
      /\ pc' = [pc EXCEPT ![r] = "answer"]
      /\ UNCHANGED <<req, flag, origin>>
  BY RequestFacts DEF IInv, WriteTableStatus, Go
<1>2. SameFlags
  BY <1>1, SetStatusFacts DEF Typed
<1>3. Typed'
  BY <1>1, <1>2, TypedKept DEF SameFlags
<1>4. Loop'
  BY <1>1, LoopEntered
<1>5. QED  BY <1>1, <1>2, <1>3, <1>4, OthersKeep DEF SameFlags

LEMMA WriteStatusKeeps ==
    ASSUME IInv, NEW r \in Requests, WriteStatus(r)
    PROVE  IInv'
<1>1. /\ Typed /\ Loop /\ req[r].bid \in Bids
      /\ req[r].kind \in {"drawerStatus", "apiStatus"}
      /\ SetStatus(req[r].bid, req[r].value)
      /\ pc' = [pc EXCEPT ![r] = "done"]
      /\ UNCHANGED <<req, flag, loop, origin>>
  BY RequestFacts DEF IInv, WriteStatus, Go
<1>2. SameFlags
  BY <1>1, SetStatusFacts DEF Typed
<1>3. Typed'
  BY <1>1, <1>2, TypedKept DEF SameFlags
<1>4. Loop'
  BY <1>1, LoopKept
<1>5. QED  BY <1>1, <1>2, <1>3, <1>4, OthersKeep DEF SameFlags

LEMMA WriteFavoriteKeeps ==
    ASSUME IInv, NEW r \in Requests, WriteFavorite(r)
    PROVE  IInv'
<1>1. /\ Typed /\ Loop /\ req[r].bid \in Bids /\ req[r].kind = "apiFavorite"
      /\ SetFavorite(req[r].bid, req[r].value = "on")
      /\ pc' = [pc EXCEPT ![r] = "done"]
      /\ UNCHANGED <<req, flag, loop, origin>>
  BY RequestFacts DEF IInv, WriteFavorite, Go
<1>2. FlaggedRows' /\ \A c \in Bids \ {req[r].bid} : table'[c] = table[c]
  <2>1. PICK value \in BOOLEAN : value = (req[r].value = "on")
    OBVIOUS
  <2>2. SetFavorite(req[r].bid, value)
    BY <2>1, <1>1
  <2>3. QED  BY <2>2, <1>1, SetFavoriteFacts DEF Typed
<1>3. Typed'
  BY <1>1, <1>2, TypedKept
<1>4. Loop'
  BY <1>1, LoopKept
<1>5. \A b \in Bids : ~WritesFavorite(r, b) => table'[b] = table[b]
  BY <1>1, <1>2 DEF WritesFavorite
<1>6. QED  BY <1>1, <1>3, <1>4, <1>5, OthersKeep

LEMMA AnswerTableKeeps ==
    ASSUME IInv, NEW r \in Requests, AnswerTable(r)
    PROVE  IInv'
<1>1. /\ Typed /\ Loop /\ pc[r] = "answer" /\ Released(r)
      /\ pc' = [pc EXCEPT ![r] = "done"]
      /\ UNCHANGED <<table, samples, req, flag, origin>>
  BY DEF IInv, AnswerTable, Go, store
<1>2. Typed'
  <2>1. FlaggedRows'
    BY <1>1 DEF Typed, FlaggedRows, Flagged
  <2>2. QED  BY <2>1, <1>1, TypedKept
<1>3. Loop'
  <2>1. pc'[r] = "done" /\ \A q \in Requests \ {r} : pc'[q] = pc[q]
    BY <1>1 DEF Typed
  <2>2. \A q \in Requests \ {r} : loop = q => loop' = q
    BY <1>1 DEF Released
  <2>3. QED  BY <2>1, <2>2, <1>1 DEF Loop
<1>4. Written(r)
  BY <1>1 DEF Written
<1>5. QED  BY <1>1, <1>2, <1>3, <1>4, OthersKeep

LEMMA NotFoundKeeps ==
    ASSUME IInv, NEW r \in Requests, NotFound(r)
    PROVE  IInv'
<1>1. /\ Typed /\ Loop /\ pc[r] = "new"
      /\ pc' = [pc EXCEPT ![r] = "failed"]
      /\ UNCHANGED <<table, samples, req, flag, loop, origin>>
  BY DEF IInv, NotFound, Go, store
<1>2. Typed'
  <2>1. FlaggedRows'
    BY <1>1 DEF Typed, FlaggedRows, Flagged
  <2>2. QED  BY <2>1, <1>1, TypedKept
<1>3. Loop'
  BY <1>1, LoopKept
<1>4. ~Written(r)
  BY <1>1 DEF Written
<1>5. QED  BY <1>1, <1>2, <1>3, <1>4, OthersKeep

LEMMA SaveKeeps ==
    ASSUME IInv, NEW r \in Requests, Save(r)
    PROVE  IInv'
<1>1. PICK where \in {"done", "failed"} : pc' = [pc EXCEPT ![r] = where]
  BY DEF Save, Go
<1>2. /\ Typed /\ Loop /\ pc[r] = "new" /\ req[r].bid \in Bids /\ req[r].kind = "save"
      /\ UNCHANGED <<req, flag, loop, origin>>
      /\ \/ table' = [table EXCEPT ![req[r].bid] = Saved(req[r].bid)]
         \/ table' = table
      /\ samples' = samples
  BY RequestFacts DEF IInv, Save, Store, store
<1>3. FlaggedRows' /\ \A c \in Bids \ {req[r].bid} : table'[c] = table[c]
  <2>1. \A b : Flagged(Saved(b))
    BY DEF Saved, Flagged
  <2>2. QED  BY <2>1, <1>2 DEF Typed, FlaggedRows
<1>4. Typed'
  BY <1>1, <1>2, <1>3, TypedKept
<1>5. Loop'
  BY <1>1, <1>2, LoopKept
<1>6. \A b \in Bids : ~WritesFavorite(r, b) => table'[b] = table[b]
  BY <1>2, <1>3 DEF WritesFavorite
<1>7. QED  BY <1>1, <1>2, <1>4, <1>5, <1>6, OthersKeep

\* A sync, and whatever the reader does.
LEMMA RestKeeps ==
    ASSUME IInv, UNCHANGED <<req, pc, flag, loop, origin>>, SameFlags
    PROVE  IInv'
<1>1. Typed /\ Loop /\ FlaggedRows'
  BY DEF IInv, SameFlags
<1>2. Typed'
  BY <1>1 DEF Typed
<1>3. Loop'
  BY <1>1 DEF Loop
<1>4. ASSUME NEW b \in Bids, Clickable(b) PROVE Counted(b)'
  <2>1. Counted(b)
    BY <1>4 DEF IInv
  <2>2. table'[b] # Absent /\ table'[b].favorite = table[b].favorite
    BY <2>1 DEF Counted, SameFlags
  <2>3. \A r \in Requests : Written(r)' <=> Written(r)
    BY DEF Written
  <2>4. QED  BY <2>1, <2>2, <2>3, <1>1, CountedKept
<1>5. QED  BY <1>2, <1>3, <1>4, ClickableKept DEF IInv

LEMMA ReaderKeeps ==
    ASSUME IInv, UNCHANGED <<table, samples, req, pc, flag, loop, origin>>
    PROVE  IInv'
<1>1. SameFlags
  BY DEF IInv, Typed, FlaggedRows, Flagged, SameFlags
<1>2. QED  BY <1>1, RestKeeps

LEMMA NextKeeps == IInv /\ [Next]_vars => IInv'
<1> SUFFICES ASSUME IInv, [Next]_vars PROVE IInv'  OBVIOUS
<1> USE DEF store
<1>1. ASSUME NEW r \in Requests, ReadFlag(r)         PROVE IInv'  BY <1>1, ReadFlagKeeps
<1>2. ASSUME NEW r \in Requests, WriteFlag(r)        PROVE IInv'  BY <1>2, WriteFlagKeeps
<1>3. ASSUME NEW r \in Requests, WriteTableStatus(r) PROVE IInv'  BY <1>3, WriteTableStatusKeeps
<1>4. ASSUME NEW r \in Requests, WriteStatus(r)      PROVE IInv'  BY <1>4, WriteStatusKeeps
<1>5. ASSUME NEW r \in Requests, WriteFavorite(r)    PROVE IInv'  BY <1>5, WriteFavoriteKeeps
<1>6. ASSUME NEW r \in Requests, AnswerTable(r)      PROVE IInv'  BY <1>6, AnswerTableKeeps
<1>7. ASSUME NEW r \in Requests, NotFound(r)         PROVE IInv'  BY <1>7, NotFoundKeeps
<1>8. ASSUME NEW r \in Requests, Save(r)             PROVE IInv'  BY <1>8, SaveKeeps
<1>9. ASSUME NEW f \in Filters, OpenList(f)   PROVE IInv'  BY <1>9, ReaderKeeps DEF OpenList
<1>10. ASSUME NEW s \in Searches, StartSearch(s) PROVE IInv'  BY <1>10, ReaderKeeps DEF StartSearch
<1>11. CASE NextPage       BY <1>11, ReaderKeeps DEF NextPage
<1>12. CASE Fetch          BY <1>12, ReaderKeeps DEF Fetch
<1>13. CASE FetchFails     BY <1>13, ReaderKeeps DEF FetchFails
<1>14. CASE MarkFavorites  BY <1>14, ReaderKeeps DEF MarkFavorites
<1>15. ASSUME NEW b \in Synced, NEW changed \in 0 .. MaxChanged, Sync(b, changed)
       PROVE  IInv'
  <2>1. SameFlags
    BY <1>15, SyncFacts DEF IInv, Typed
  <2>2. QED  BY <2>1, <1>15, RestKeeps DEF Sync
<1>16. CASE UNCHANGED vars  BY <1>16, ReaderKeeps DEF vars
<1>17. QED
  BY <1>1, <1>2, <1>3, <1>4, <1>5, <1>6, <1>7, <1>8, <1>9, <1>10, <1>11, <1>12,
     <1>13, <1>14, <1>15, <1>16 DEF Next

-----------------------------------------------------------------------------
(* The theorems.                                                           *)

\* The inductive invariant: rows keep their flags, one toggle of the table is
\* under way at most, and the clicks on a star are counted by its flag.
THEOREM Invariance == Spec => []IInv
<1>1. QED  BY InitIInv, NextKeeps, PTL DEF Spec

\* Two clicks on a star of the table cancel out, whenever they come and
\* whatever syncs and other users do to the bid meanwhile.
THEOREM ClicksCancel == Spec => []TableTogglesCancel
<1>1. IInv => TableTogglesCancel
  <2> SUFFICES ASSUME IInv, NEW b \in Stored(table), OnlyTableToggles(b),
                      InDatabase(b), origin[b] # Absent
               PROVE  LET clicks == {r \in Requests : WritesFavorite(r, b) /\ pc[r] = "done"}
                          before == origin[b] # Absent /\ origin[b].favorite
                      IN  (table[b].favorite = before) <=> (Cardinality(clicks) % 2 = 0)
    BY DEF TableTogglesCancel
  <2>1. b \in Bids /\ Backend # "sample"
    BY DEF InDatabase, Stored
  <2>2. Counted(b)
    BY <2>1 DEF IInv, Clickable, OnlyTableToggles
  <2>3. Clicks(b) = {r \in Requests : WritesFavorite(r, b) /\ pc[r] = "done"}
    BY DEF Clicks, Written, OnlyTableToggles
  <2>4. origin[b].favorite \in BOOLEAN
    BY <2>1 DEF IInv, Typed, Row
  <2>5. (table[b].favorite = (origin[b] # Absent /\ origin[b].favorite))
        <=> (table[b].favorite = origin[b].favorite)
    BY <2>4, Zenon
  <2>6. (table[b].favorite = origin[b].favorite) <=> (Cardinality(Clicks(b)) % 2 = 0)
    BY <2>2 DEF Counted
  <2>7. (table[b].favorite = (origin[b] # Absent /\ origin[b].favorite))
        <=> (Cardinality(Clicks(b)) % 2 = 0)
    BY <2>5, <2>6, Zenon
  <2>8. QED  BY <2>3, <2>7, Zenon
<1>2. QED  BY <1>1, Invariance, PTL

===============================================================================
