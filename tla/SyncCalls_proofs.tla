--------------------------- MODULE SyncCalls_proofs ---------------------------
(***************************************************************************)
(* Proofs about SyncCalls, for any number of calls, bids and lookup values *)
(* and any requests that run no service twice.                             *)
(*                                                                         *)
(* The properties speak of what is left when a call is over; the inductive *)
(* invariant says for every place of a call what its services have         *)
(* selected, flushed and stored by then, what its rows are, and what it    *)
(* remembers of its last request.  All of it is about one call, and about  *)
(* the lock, which a call holds as long as it has something pending: so a  *)
(* step of one call leaves the invariant of every other alone.             *)
(***************************************************************************)
EXTENDS SyncCalls, TLAPS

-----------------------------------------------------------------------------
(* The inductive invariant.                                                *)

Try  == [bid : Bids \cup {Nobody}, key : Nat, tries : Seq(Errors)]

Types ==
    /\ bids \in [Bids -> BidStates]
    /\ lock \in Calls \cup {Other, Nobody}
    /\ pending \in [Calls -> SUBSET (Services \X Bids)]
    /\ stored \subseteq Calls \X Services \X Bids
    /\ rows \in [Calls -> Seq(Row)]
    /\ readBack \subseteq Calls /\ notified \subseteq Calls
    /\ req \in [Calls -> Requests]
    /\ pc \in [Calls -> PCs]
    /\ step \in [Calls -> Nat]
    /\ passed \in [Calls -> SUBSET Bids]
    /\ chosen \in [Calls -> Seq(SUBSET Bids)]
    /\ todo \in [Calls -> SUBSET Bids]
    /\ now \in [Calls -> Try]
    /\ gaveUp \in [Calls -> BOOLEAN]

InService == {"next", "fetch", "write"}
Unlogged  == InService \cup {"idle", "select"}

\* How many services have selected their bids at each place.
Places(c) ==
    /\ step[c] \in 1 .. Len(req[c].steps) + 1
    /\ pc[c] = "idle" => step[c] = 1
    /\ pc[c] \in {"idle", "select"} => Len(chosen[c]) = step[c] - 1
    /\ pc[c] \in InService => /\ step[c] <= Len(req[c].steps)
                              /\ Len(chosen[c]) = step[c]
                              /\ todo[c] \subseteq chosen[c][step[c]]
    /\ Len(chosen[c]) \in {step[c] - 1, step[c]}
    /\ pc[c] \in {"fetch", "write"} => now[c].bid \in todo[c]

\* What is flushed is flushed under the lock, and only within a service.
Flushes(c) ==
    /\ pending[c] # {} => lock = c
    /\ pc[c] \notin InService => pending[c] = {}
    /\ pc[c] \in InService =>
         LET service == req[c].steps[step[c]] IN
         /\ \A p \in pending[c] : /\ p[1] = service
                                  /\ p[2] \in chosen[c][step[c]]
         /\ service \notin {"contract", "list"} =>
               \A b \in chosen[c][step[c]] \ todo[c] : <<service, b>> \in pending[c]

\* ServicesAreAtomic, for one service and for one call.
AtomicAt(c, i) ==
    LET service == req[c].steps[i] IN
    IF i < step[c]
    THEN /\ StoredBy(c, service) \subseteq chosen[c][i]
         /\ service \notin {"contract", "list"} =>
               StoredBy(c, service) = chosen[c][i]
    ELSE StoredBy(c, service) = {}

Atomic(c) == \A i \in DOMAIN req[c].steps : AtomicAt(c, i)

\* LaterStepsKeepSelection, for one call, and what is handed on.
Kept(c) ==
    (req[c].narrows /\ chosen[c] # <<>> /\ req[c].steps[1] = "detail") =>
        /\ chosen[c][1] # {} =>
              \A i \in DOMAIN chosen[c] : chosen[c][i] \subseteq chosen[c][1]
        /\ step[c] > 1 => passed[c] = chosen[c][1]

\* The errors of the last request.
Tried(c) ==
    LET tries == now[c].tries IN
    /\ Len(tries) <= 3
    /\ pc[c] = "fetch" =>
         /\ \A k \in DOMAIN tries : tries[k] = "passing"
         /\ Len(tries) < MaxAttempts(req[c].steps[step[c]])
    /\ gaveUp[c] =>
         /\ pc[c] \notin Unlogged
         /\ step[c] <= Len(req[c].steps)
         /\ tries # <<>>
         /\ \A k \in 1 .. Len(tries) - 1 : tries[k] = "passing"
         /\ Len(tries) <= MaxAttempts(req[c].steps[step[c]])
         /\ tries[Len(tries)] = "passing"
            => Len(tries) = MaxAttempts(req[c].steps[step[c]])

\* At most two rows, the first of which is the one of a completed call if there
\* is a second.
Logged(c) ==
    /\ pc[c] \in Unlogged => rows[c] = <<>>
    /\ pc[c] = "failed" => rows[c] = <<>> \/ (/\ Len(rows[c]) = 1
                                              /\ rows[c][1].status = "completed")
    /\ pc[c] \in {"refresh", "notify"} => rows[c] # <<>>
    /\ pc[c] = "notify" => rows[c][Len(rows[c])].status = "failed"
    /\ Len(rows[c]) <= 2
    /\ Len(rows[c]) = 2 => /\ rows[c][1].status = "completed"
                           /\ rows[c][2].status = "failed"
    /\ \A i \in DOMAIN rows[c] :
          /\ rows[c][i].status = "completed" =>
                step[c] > Len(req[c].steps) /\ ~gaveUp[c]
          /\ (rows[c][i].status = "failed" /\ gaveUp[c]) =>
                rows[c][i].retries = FailureRetries(c)
    /\ c \in notified => HasFailedRow(c)
    /\ (HasFailedRow(c) /\ pc[c] = "answered") => c \in readBack
    /\ (HasFailedRow(c) /\ c \in readBack /\ pc[c] \in {"answered", "raised"})
       => c \in notified
    /\ c \in readBack => pc[c] \in {"notify", "answered", "raised", "stopped"}
    /\ pc[c] = "notify" => c \in readBack

CallInv(c) ==
    /\ Places(c) /\ Flushes(c) /\ Atomic(c)
    /\ Kept(c) /\ Tried(c) /\ Logged(c)

IInv == Types /\ \A c \in Calls : CallInv(c)

-----------------------------------------------------------------------------
(* Facts about the data.                                                   *)

LEMMA RequestFacts ==
    ASSUME Types, NEW c \in Calls
    PROVE  /\ req[c].steps \in Seq(Services)
           /\ req[c].ids \in SUBSET Bids
           /\ req[c].narrows \in BOOLEAN
           /\ \A i, j \in 1 .. Len(req[c].steps) :
                 req[c].steps[i] = req[c].steps[j] => i = j
           /\ req[c].narrows =>
                 \A i \in 1 .. Len(req[c].steps) : req[c].steps[i] # "list"
<1>1. req[c] \in Requests
  BY DEF Types
<1>2. req[c] \in Request
  BY <1>1, RequestAssumption
<1>3. req[c].steps \in Seq(Services) /\ req[c].ids \in SUBSET Bids /\ req[c].narrows \in BOOLEAN
  BY <1>2 DEF Request
<1>4. DOMAIN req[c].steps = 1 .. Len(req[c].steps)
  BY <1>3
<1>5. QED  BY <1>1, <1>3, <1>4, StepAssumption

\* What a step does to the calls that do not take it.
Untouched(c) ==
    /\ pending'[c] = pending[c] /\ rows'[c] = rows[c] /\ req'[c] = req[c]
    /\ pc'[c] = pc[c] /\ step'[c] = step[c] /\ passed'[c] = passed[c]
    /\ chosen'[c] = chosen[c] /\ todo'[c] = todo[c] /\ now'[c] = now[c]
    /\ gaveUp'[c] = gaveUp[c]
    /\ lock = c => lock' = c
    /\ \A s, b : <<c, s, b>> \in stored' <=> <<c, s, b>> \in stored
    /\ c \in notified' <=> c \in notified
    /\ c \in readBack' <=> c \in readBack

LEMMA UntouchedCall ==
    ASSUME NEW c \in Calls, CallInv(c), Untouched(c)
    PROVE  CallInv(c)'
<1>1. /\ pending'[c] = pending[c] /\ rows'[c] = rows[c] /\ req'[c] = req[c]
      /\ pc'[c] = pc[c] /\ step'[c] = step[c] /\ passed'[c] = passed[c]
      /\ chosen'[c] = chosen[c] /\ todo'[c] = todo[c] /\ now'[c] = now[c]
      /\ gaveUp'[c] = gaveUp[c]
  BY DEF Untouched
<1>2. \A s : StoredBy(c, s)' = StoredBy(c, s)
  BY DEF Untouched, StoredBy
<1>3. Places(c)'
  BY <1>1 DEF CallInv, Places
<1>4. Flushes(c)'
  BY <1>1 DEF CallInv, Flushes, Untouched
<1>5. Atomic(c)'
  BY <1>1, <1>2 DEF CallInv, Atomic, AtomicAt
<1>6. Kept(c)'
  BY <1>1 DEF CallInv, Kept
<1>7. Tried(c)'
  BY <1>1 DEF CallInv, Tried
<1>8. Logged(c)'
  BY <1>1 DEF CallInv, Logged, Untouched, HasFailedRow, FailureRetries, Service
<1>9. QED  BY <1>3, <1>4, <1>5, <1>6, <1>7, <1>8 DEF CallInv

LEMMA StepOfCall ==
    ASSUME IInv, Types', NEW c \in Calls, CallInv(c)',
           \A d \in Calls \ {c} : Untouched(d)
    PROVE  IInv'
<1>1. \A d \in Calls \ {c} : CallInv(d)'
  BY UntouchedCall DEF IInv
<1>2. QED  BY <1>1 DEF IInv

LEMMA InitIInv == Init => IInv
<1> SUFFICES ASSUME Init PROVE IInv  OBVIOUS
<1>1. Types
  BY DEF Init, Types, PCs, Nothing, Try
<1>2. ASSUME NEW c \in Calls PROVE CallInv(c)
  <2>1. /\ pc[c] = "idle" /\ step[c] = 1 /\ chosen[c] = <<>> /\ pending[c] = {}
        /\ rows[c] = <<>> /\ gaveUp[c] = FALSE /\ now[c].tries = <<>>
        /\ c \notin notified /\ c \notin readBack /\ stored = {}
    BY DEF Init, Nothing
  <2>2. Len(req[c].steps) \in Nat
    BY <1>1, RequestFacts
  <2>3. Places(c)
    BY <2>1, <2>2 DEF Places, InService
  <2>4. Flushes(c) /\ Atomic(c) /\ Kept(c)
    <3>1. Flushes(c)  BY <2>1 DEF Flushes, InService
    <3>2. \A s : StoredBy(c, s) = {}  BY <2>1 DEF StoredBy
    <3>3. Atomic(c)  BY <1>1, RequestFacts, <2>1, <3>2 DEF Atomic, AtomicAt
    <3>4. Kept(c)  BY <2>1 DEF Kept
    <3>5. QED  BY <3>1, <3>3, <3>4
  <2>5. Tried(c)
    BY <2>1 DEF Tried
  <2>6. Logged(c)
    BY <2>1 DEF Logged, HasFailedRow, Unlogged, InService
  <2>7. QED  BY <2>3, <2>4, <2>5, <2>6 DEF CallInv
<1>3. QED  BY <1>1, <1>2 DEF IInv

LEMMA AttemptFacts ==
    ASSUME NEW service \in Services
    PROVE  MaxAttempts(service) \in 1 .. 3
<1>1. CASE service \in {"detail", "contract"}  BY <1>1 DEF MaxAttempts
<1>2. CASE service = "crawl"  BY <1>2 DEF MaxAttempts
<1>3. CASE service \notin {"detail", "contract", "crawl"}  BY <1>3 DEF MaxAttempts
<1>4. QED  BY <1>1, <1>2, <1>3

\* What is known of a call at any place.
LEMMA CallFacts ==
    ASSUME IInv, NEW c \in Calls
    PROVE  /\ Types /\ Places(c) /\ Flushes(c) /\ Atomic(c) /\ Kept(c)
           /\ Tried(c) /\ Logged(c)
           /\ Len(req[c].steps) \in Nat /\ step[c] \in Nat
           /\ DOMAIN req[c].steps = 1 .. Len(req[c].steps)
           /\ chosen[c] \in Seq(SUBSET Bids) /\ Len(chosen[c]) \in Nat
           /\ pending[c] \in SUBSET (Services \X Bids)
           /\ todo[c] \in SUBSET Bids /\ passed[c] \in SUBSET Bids
           /\ now[c] \in Try /\ now[c].tries \in Seq(Errors)
           /\ rows[c] \in Seq(Row) /\ Len(rows[c]) \in Nat
<1>1. Types /\ CallInv(c)
  BY DEF IInv
<1>2. req[c].steps \in Seq(Services)
  BY <1>1, RequestFacts
<1>3. /\ step[c] \in Nat /\ chosen[c] \in Seq(SUBSET Bids)
      /\ pending[c] \in SUBSET (Services \X Bids)
      /\ todo[c] \in SUBSET Bids /\ passed[c] \in SUBSET Bids
      /\ now[c] \in Try /\ rows[c] \in Seq(Row)
  BY <1>1 DEF Types
<1>4. now[c].tries \in Seq(Errors)
  BY <1>3 DEF Try
<1>5. QED  BY <1>1, <1>2, <1>3, <1>4 DEF CallInv

\* What becomes of a call when its flushes are committed.
LEMMA CommittedFacts ==
    ASSUME IInv, NEW c \in Calls, stored' = Committed(c)
    PROVE  /\ stored' \subseteq Calls \X Services \X Bids
           /\ \A s : StoredBy(c, s)' =
                     StoredBy(c, s) \cup {b \in Bids : <<s, b>> \in pending[c]}
           /\ \A d \in Calls \ {c} : \A s, b :
                 <<d, s, b>> \in stored' <=> <<d, s, b>> \in stored
           /\ pending[c] = {} => stored' = stored
<1>1. /\ stored \subseteq Calls \X Services \X Bids
      /\ pending[c] \in SUBSET (Services \X Bids)
  BY CallFacts DEF Types
<1>2. stored' = stored \cup {<<c, p[1], p[2]>> : p \in pending[c]}
  BY DEF Committed
<1>3. stored' \subseteq Calls \X Services \X Bids
  BY <1>1, <1>2
<1>4. ASSUME NEW s, NEW b, <<s, b>> \in pending[c]
      PROVE  <<c, s, b>> \in stored'
  BY <1>2, <1>4
<1>5. ASSUME NEW d, NEW s, NEW b, <<d, s, b>> \in stored', <<d, s, b>> \notin stored
      PROVE  d = c /\ <<s, b>> \in pending[c]
  <2>1. PICK p \in pending[c] : <<d, s, b>> = <<c, p[1], p[2]>>
    BY <1>2, <1>5
  <2>2. p = <<p[1], p[2]>>
    BY <1>1
  <2>3. QED  BY <2>1, <2>2
<1>6. ASSUME NEW s
      PROVE  StoredBy(c, s)' = StoredBy(c, s) \cup {b \in Bids : <<s, b>> \in pending[c]}
  BY <1>2, <1>4, <1>5 DEF StoredBy
<1>7. QED  BY <1>2, <1>3, <1>5, <1>6

\* A step that leaves the selections and what is stored alone.
LEMMA SelectionsUntouched ==
    ASSUME IInv, NEW c \in Calls,
           step'[c] = step[c], req'[c] = req[c], chosen'[c] = chosen[c],
           passed'[c] = passed[c], \A s : StoredBy(c, s)' = StoredBy(c, s)
    PROVE  Atomic(c)' /\ Kept(c)'
<1>1. Atomic(c) /\ Kept(c)
  BY CallFacts
<1>2. Atomic(c)'
  BY <1>1 DEF Atomic, AtomicAt
<1>3. Kept(c)'
  BY <1>1 DEF Kept
<1>4. QED  BY <1>2, <1>3

\* A step to a place after the services.
LEMMA OutOfServices ==
    ASSUME IInv, NEW c \in Calls,
           step'[c] = step[c], req'[c] = req[c], chosen'[c] = chosen[c],
           pc'[c] \notin Unlogged, pending'[c] = {}
    PROVE  Places(c)' /\ Flushes(c)'
<1>1. Places(c)
  BY CallFacts
<1>2. pc'[c] \notin InService /\ pc'[c] \notin {"idle", "select", "fetch", "write"}
  BY DEF Unlogged, InService
<1>3. Places(c)'
  BY <1>1, <1>2 DEF Places
<1>4. Flushes(c)'
  BY <1>2 DEF Flushes
<1>5. QED  BY <1>3, <1>4

-----------------------------------------------------------------------------
(* The beginning of a call and of a service.                               *)

LEMMA BeginKeeps ==
    ASSUME IInv, NEW c \in Calls, Begin(c)
    PROVE  IInv'
<1>1. Types'
  <2>1. (IF req[c].favorites THEN Favorites ELSE req[c].ids) \in SUBSET Bids
    BY RequestFacts DEF IInv, Favorites
  <2>2. QED  BY <2>1 DEF IInv, Types, Begin, PCs, Goto, data
<1>2. \A d \in Calls \ {c} : Untouched(d)
  BY DEF IInv, Types, Begin, Goto, data, Untouched
<1>3. /\ pc[c] = "idle" /\ pc'[c] \in {"answered", "select"}
      /\ step'[c] = step[c] /\ req'[c] = req[c] /\ chosen'[c] = chosen[c]
      /\ pending' = pending /\ lock' = lock /\ stored' = stored /\ rows'[c] = rows[c]
      /\ notified' = notified /\ readBack' = readBack
      /\ now'[c] = now[c] /\ gaveUp'[c] = gaveUp[c]
  BY DEF IInv, Types, Begin, Goto, data
<1>4. /\ Places(c) /\ Flushes(c) /\ Atomic(c) /\ Kept(c) /\ Tried(c) /\ Logged(c)
      /\ chosen[c] = <<>>
  BY <1>3 DEF IInv, Types, CallInv, Places
<1>5. Places(c)' /\ Flushes(c)'
  BY <1>3, <1>4 DEF Places, Flushes, InService
<1>6. Atomic(c)'
  BY <1>3, <1>4 DEF Atomic, AtomicAt, StoredBy
<1>7. Kept(c)'
  BY <1>3, <1>4 DEF Kept
<1>8. Tried(c)'
  BY <1>3, <1>4 DEF Tried, Unlogged
<1>9. Logged(c)'
  BY <1>3, <1>4 DEF Logged, Unlogged, HasFailedRow
<1>10. QED  BY <1>1, <1>2, <1>5, <1>6, <1>7, <1>8, <1>9, StepOfCall DEF CallInv

\* A service selects bids; once the detail service of a batch has, the others
\* select among those they are handed.
LEMMA SelectionFacts ==
    ASSUME NEW service \in Services, NEW given \in SUBSET Bids, NEW mode,
           NEW selection \in Selections(service, given, mode)
    PROVE  /\ selection \in SUBSET Bids
           /\ service \notin {"list", "detail"} /\ given # {} => selection \subseteq given
  BY DEF Services, Selections, DetailBids, GivenOrAll, CrawledBids, ReferenceBids, Present

LEMMA SelectKeeps ==
    ASSUME IInv, NEW c \in Calls, Select(c)
    PROVE  IInv'
<1> DEFINE srv == req[c].steps[step[c]]
<1>1. /\ pc[c] = "select" /\ step[c] \in 1 .. Len(req[c].steps)
      /\ Len(chosen[c]) = step[c] - 1 /\ pending[c] = {} /\ rows[c] = <<>>
  <2>1. pc[c] = "select" /\ ~(step[c] > Len(req[c].steps))
    BY DEF Select, Finished
  <2>2. step[c] \in 1 .. Len(req[c].steps) /\ Len(chosen[c]) = step[c] - 1
    BY <2>1, CallFacts DEF Places
  <2>3. pending[c] = {}
    BY <2>1, CallFacts DEF Flushes, InService
  <2>4. rows[c] = <<>>
    BY <2>1, CallFacts DEF Logged, Unlogged
  <2>5. QED  BY <2>1, <2>2, <2>3, <2>4
<1>2. Types /\ srv \in Services
  BY <1>1, CallFacts, RequestFacts
<1>3. PICK selection \in Selections(srv, passed[c], req[c].mode) :
         /\ chosen' = [chosen EXCEPT ![c] = Append(@, selection)]
         /\ todo'   = [todo EXCEPT ![c] = selection]
  BY DEF Select, Service
<1> HIDE DEF srv
<1>4. /\ selection \in SUBSET Bids
      /\ srv \notin {"list", "detail"} /\ passed[c] # {} => selection \subseteq passed[c]
  BY <1>2, <1>3, CallFacts, SelectionFacts
<1>5. /\ pc' = [pc EXCEPT ![c] = "next"] /\ now' = [now EXCEPT ![c] = Nothing]
      /\ UNCHANGED <<data, lock, pending, req, step, passed, gaveUp>>
  BY DEF Select, Goto
<1>6. Types'
  <2>1. Append(chosen[c], selection) \in Seq(SUBSET Bids)
    BY <1>4, CallFacts
  <2>2. Nothing \in Try
    BY DEF Nothing, Try
  <2>3. QED  BY <1>2, <1>3, <1>4, <1>5, <2>1, <2>2 DEF Types, PCs, data
<1>7. \A d \in Calls \ {c} : Untouched(d)
  BY <1>2, <1>3, <1>5 DEF Types, Untouched, data
<1>8. /\ pc'[c] = "next" /\ step'[c] = step[c] /\ req'[c] = req[c]
      /\ chosen'[c] = Append(chosen[c], selection) /\ todo'[c] = selection
      /\ pending'[c] = {} /\ rows'[c] = rows[c] /\ passed'[c] = passed[c]
      /\ now'[c] = Nothing /\ gaveUp'[c] = gaveUp[c]
      /\ stored' = stored /\ notified' = notified /\ readBack' = readBack /\ lock' = lock
  BY <1>1, <1>2, <1>3, <1>5 DEF Types, data
<1>9. /\ Len(chosen'[c]) = step[c] /\ chosen'[c][step[c]] = selection
      /\ \A i \in 1 .. step[c] - 1 : chosen'[c][i] = chosen[c][i]
      /\ DOMAIN chosen[c] = 1 .. step[c] - 1 /\ DOMAIN chosen'[c] = 1 .. step[c]
  BY <1>1, <1>4, <1>8, CallFacts
<1>10. Places(c)'
  <2>1. Len(req[c].steps) \in Nat /\ step[c] \in Nat
    BY CallFacts
  <2>2. QED  BY <2>1, <1>1, <1>8, <1>9 DEF Places, InService
<1>11. Flushes(c)'
  BY <1>1, <1>8, <1>9 DEF Flushes
<1>12. Atomic(c)'
  <2>1. ASSUME NEW i \in DOMAIN req[c].steps
        PROVE  AtomicAt(c, i)'
    <3>1. \A s : StoredBy(c, s)' = StoredBy(c, s)
      BY <1>8 DEF StoredBy
    <3>2. AtomicAt(c, i) /\ i \in Nat /\ i >= 1
      BY CallFacts DEF Atomic
    <3>3. CASE i < step[c]
      <4>1. chosen'[c][i] = chosen[c][i]
        BY <3>2, <3>3, <1>1, <1>9
      <4>2. QED  BY <3>1, <3>2, <3>3, <4>1, <1>8 DEF AtomicAt
    <3>4. CASE ~(i < step[c])
      BY <3>1, <3>2, <3>4, <1>8 DEF AtomicAt
    <3>5. QED  BY <3>3, <3>4
  <2>2. QED  BY <2>1, <1>8 DEF Atomic
<1>13. Kept(c)'
  <2> SUFFICES ASSUME req[c].narrows, req[c].steps[1] = "detail" PROVE Kept(c)'
    BY <1>8 DEF Kept
  <2>1. CASE step[c] = 1
    BY <2>1, <1>8, <1>9 DEF Kept
  <2>2. CASE step[c] > 1
    <3>1. Len(chosen[c]) >= 1 /\ chosen[c] # <<>>
      BY <1>1, <2>2
    <3>2. /\ passed[c] = chosen[c][1]
          /\ chosen[c][1] # {} =>
                \A i \in DOMAIN chosen[c] : chosen[c][i] \subseteq chosen[c][1]
      BY <2>2, <3>1, CallFacts DEF Kept
    <3>3. srv \notin {"list", "detail"}
      BY <1>1, <1>2, <2>2, RequestFacts DEF srv
    <3>4. chosen'[c][1] = chosen[c][1]
      BY <1>1, <1>9, <2>2
    <3>5. ASSUME chosen[c][1] # {}, NEW i \in 1 .. step[c]
          PROVE chosen'[c][i] \subseteq chosen[c][1]
      <4>1. CASE i = step[c]
        BY <4>1, <3>5, <3>2, <3>3, <1>4, <1>9
      <4>2. CASE i # step[c]
        <5>1. i \in 1 .. step[c] - 1
          BY <4>2, <1>1, <3>5
        <5>2. QED  BY <5>1, <3>5, <3>2, <1>9
      <4>3. QED  BY <4>1, <4>2
    <3>6. QED  BY <3>2, <3>4, <3>5, <1>8, <1>9 DEF Kept
  <2>3. QED  BY <2>1, <2>2, <1>1
<1>14. Tried(c)'
  <2>1. ~gaveUp[c]
    BY <1>1, CallFacts DEF Tried, Unlogged
  <2>2. QED  BY <2>1, <1>8 DEF Tried, Nothing
<1>15. Logged(c)'
  <2>1. Logged(c)  BY CallFacts
  <2>2. QED  BY <2>1, <1>1, <1>8 DEF Logged, HasFailedRow
<1>16. QED
  BY <1>6, <1>7, <1>10, <1>11, <1>12, <1>13, <1>14, <1>15, StepOfCall DEF CallInv

-----------------------------------------------------------------------------
(* One bid of a service.                                                   *)

LEMMA NextBidKeeps ==
    ASSUME IInv, NEW c \in Calls, NextBid(c)
    PROVE  IInv'
<1>1. Types /\ pc[c] = "next"
  BY CallFacts DEF NextBid
<1>2. PICK b \in todo[c] : now' = [now EXCEPT ![c] = [bid |-> b, key |-> 1, tries |-> <<>>]]
  BY DEF NextBid
<1>3. /\ pc' = [pc EXCEPT ![c] = "fetch"]
      /\ UNCHANGED <<data, lock, pending, req, step, passed, chosen, todo, gaveUp>>
  BY DEF NextBid, Goto
<1>4. Types'
  <2>1. [bid |-> b, key |-> 1, tries |-> <<>>] \in Try
    BY <1>2, CallFacts DEF Try
  <2>2. QED  BY <1>1, <1>2, <1>3, <2>1 DEF Types, PCs, data
<1>5. \A d \in Calls \ {c} : Untouched(d)
  BY <1>1, <1>2, <1>3 DEF Types, Untouched, data
<1>6. /\ pc'[c] = "fetch" /\ step' = step /\ req' = req /\ chosen' = chosen
      /\ todo' = todo /\ pending' = pending /\ rows' = rows /\ passed' = passed
      /\ now'[c].bid = b /\ now'[c].tries = <<>> /\ gaveUp' = gaveUp
      /\ stored' = stored /\ notified' = notified /\ readBack' = readBack /\ lock' = lock
  BY <1>1, <1>2, <1>3 DEF Types, data
<1>7. Places(c)'
  <2>1. Places(c)  BY CallFacts
  <2>2. QED  BY <2>1, <1>1, <1>2, <1>6 DEF Places, InService
<1>8. Flushes(c)'
  <2>1. Flushes(c)  BY CallFacts
  <2>2. QED  BY <2>1, <1>1, <1>6 DEF Flushes, InService
<1>9. Atomic(c)' /\ Kept(c)'
  <2>1. \A s : StoredBy(c, s)' = StoredBy(c, s)  BY <1>6 DEF StoredBy
  <2>2. QED  BY <2>1, <1>6, SelectionsUntouched
<1>10. Tried(c)'
  <2>1. ~gaveUp[c]
    BY <1>1, CallFacts DEF Tried, Unlogged, InService
  <2>2. MaxAttempts(req[c].steps[step[c]]) \in 1 .. 3
    BY <1>1, CallFacts, RequestFacts, AttemptFacts DEF Places, InService
  <2>3. QED  BY <2>1, <2>2, <1>6 DEF Tried
<1>11. Logged(c)'
  <2>1. Logged(c) /\ ~gaveUp[c]
    BY <1>1, CallFacts DEF Tried, Unlogged, InService
  <2>2. QED  BY <2>1, <1>1, <1>6 DEF Logged, Unlogged, InService, HasFailedRow
<1>12. QED
  BY <1>4, <1>5, <1>7, <1>8, <1>9, <1>10, <1>11, StepOfCall DEF CallInv

\* A step within a service: what is left to show for the call.
LEMMA WithinService ==
    ASSUME IInv, NEW c \in Calls, Types', \A d \in Calls \ {c} : Untouched(d),
           pc[c] \in InService, pc'[c] \in InService,
           UNCHANGED <<stored, rows, readBack, notified, req, step, passed, chosen, gaveUp>>,
           Places(c)', Flushes(c)', Tried(c)'
    PROVE  IInv'
<1>1. Atomic(c)' /\ Kept(c)'
  <2>1. \A s : StoredBy(c, s)' = StoredBy(c, s)  BY DEF StoredBy
  <2>2. QED  BY <2>1, SelectionsUntouched
<1>2. Logged(c)'
  <2>1. Logged(c) /\ ~gaveUp[c] /\ rows[c] = <<>>
    BY CallFacts DEF Tried, Logged, Unlogged
  <2>2. QED  BY <2>1 DEF Logged, Unlogged, InService, HasFailedRow
<1>3. QED
  BY <1>1, <1>2, StepOfCall DEF CallInv

\* An error ends the services.
LEMMA RaiseKeeps ==
    ASSUME IInv, NEW c \in Calls, Raise(c), pc[c] \in InService \cup {"select"},
           UNCHANGED <<data, req, step, passed, chosen, todo>>,
           now' \in [Calls -> Try], gaveUp' \in [Calls -> BOOLEAN],
           \A d \in Calls \ {c} : now'[d] = now[d] /\ gaveUp'[d] = gaveUp[d],
           Tried(c)'
    PROVE  IInv'
<1>1. Types
  BY CallFacts
<1>2. /\ pending' = [pending EXCEPT ![c] = {}] /\ pc' = [pc EXCEPT ![c] = "failed"]
      /\ lock' = IF lock = c THEN Nobody ELSE lock
  BY DEF Raise, Rollback, Goto
<1>3. Types'
  BY <1>1, <1>2 DEF Types, PCs, data
<1>4. \A d \in Calls \ {c} : Untouched(d)
  BY <1>1, <1>2 DEF Types, Untouched, data
<1>5. pc'[c] = "failed" /\ pending'[c] = {} /\ rows' = rows
      /\ notified' = notified /\ readBack' = readBack
  BY <1>1, <1>2 DEF Types, data
<1>6. Places(c)' /\ Flushes(c)'
  BY <1>5, OutOfServices DEF Unlogged, InService
<1>7. Atomic(c)' /\ Kept(c)'
  <2>1. \A s : StoredBy(c, s)' = StoredBy(c, s)  BY DEF StoredBy, data
  <2>2. QED  BY <2>1, SelectionsUntouched
<1>8. Logged(c)'
  <2>1. Logged(c) /\ rows[c] = <<>>
    BY CallFacts DEF Logged, Unlogged
  <2>2. QED  BY <2>1, <1>5 DEF Logged, Unlogged, InService, HasFailedRow
<1>9. QED
  BY <1>3, <1>4, <1>6, <1>7, <1>8, StepOfCall DEF CallInv

LEMMA AttemptKeeps ==
    ASSUME IInv, NEW c \in Calls, Attempt(c)
    PROVE  IInv'
<1>1. /\ Types /\ pc[c] = "fetch" /\ pc[c] \in InService /\ ~gaveUp[c]
      /\ UNCHANGED <<bids, stored, rows, readBack, notified, req, step, passed, chosen>>
  BY CallFacts DEF Attempt, Tried, Unlogged, InService, data
<1>2. /\ step[c] \in 1 .. Len(req[c].steps) /\ req[c].steps[step[c]] \in Services
      /\ now[c].bid \in todo[c] /\ Len(chosen[c]) = step[c]
      /\ todo[c] \subseteq chosen[c][step[c]]
      /\ MaxAttempts(req[c].steps[step[c]]) \in 1 .. 3
  <2>1. step[c] \in 1 .. Len(req[c].steps) /\ now[c].bid \in todo[c]
        /\ Len(chosen[c]) = step[c] /\ todo[c] \subseteq chosen[c][step[c]]
    BY <1>1, CallFacts DEF Places
  <2>2. req[c].steps[step[c]] \in Services
    BY <2>1, <1>1, RequestFacts
  <2>3. QED  BY <2>1, <2>2, AttemptFacts
<1>3. Places(c) /\ Flushes(c) /\ Tried(c) /\ now[c] \in Try /\ now[c].tries \in Seq(Errors)
  BY CallFacts
<1>4. CASE /\ Goto(c, "write")
           /\ UNCHANGED <<lock, pending, todo, now, gaveUp>>
  <2>1. Types' /\ (\A d \in Calls \ {c} : Untouched(d)) /\ pc'[c] = "write"
    BY <1>1, <1>4 DEF Types, Untouched, PCs, Goto
  <2>2. Places(c)'
    BY <2>1, <1>1, <1>3, <1>4 DEF Places, InService
  <2>3. Flushes(c)'
    BY <2>1, <1>1, <1>3, <1>4 DEF Flushes, InService
  <2>4. Tried(c)'
    BY <2>1, <1>1, <1>3, <1>4 DEF Tried
  <2>5. QED  BY <2>1, <2>2, <2>3, <2>4, <1>1, <1>4, WithinService DEF InService
<1>5. CASE NextKey(c)
  <2>1. /\ now' = [now EXCEPT ![c].key = @ + 1, ![c].tries = <<>>]
        /\ UNCHANGED <<lock, pending, pc, todo, gaveUp>>
    BY <1>5 DEF NextKey
  <2>2. /\ now'[c].bid = now[c].bid /\ now'[c].tries = <<>> /\ now' \in [Calls -> Try]
        /\ \A d \in Calls \ {c} : now'[d] = now[d]
    <3>1. now \in [Calls -> Try] /\ now[c].key + 1 \in Nat /\ <<>> \in Seq(Errors)
      BY <1>1, <1>3 DEF Types, Try
    <3>2. QED  BY <2>1, <3>1 DEF Try
  <2>3. Types' /\ (\A d \in Calls \ {c} : Untouched(d))
    BY <2>1, <2>2, <1>1 DEF Types, Untouched
  <2>4. Places(c)' /\ Flushes(c)'
    BY <2>1, <2>2, <1>1, <1>3 DEF Places, Flushes
  <2>5. Tried(c)'
    BY <2>1, <2>2, <1>1, <1>2 DEF Tried
  <2>6. QED  BY <2>1, <2>3, <2>4, <2>5, <1>1, WithinService
<1>6. CASE /\ NothingFound(c)
           /\ UNCHANGED <<lock, pending, now, gaveUp>>
  <2>1. CASE req[c].steps[step[c]] \in {"contract", "list"}
    <3>1. /\ todo' = [todo EXCEPT ![c] = @ \ {now[c].bid}]
          /\ pc' = [pc EXCEPT ![c] = "next"]
      BY <1>6, <2>1 DEF NothingFound, Service, Goto
    <3>2. /\ Types' /\ (\A d \in Calls \ {c} : Untouched(d)) /\ pc'[c] = "next"
          /\ todo'[c] \subseteq todo[c]
      BY <1>1, <1>6, <3>1 DEF Types, Untouched, PCs
    <3>3. Places(c)'
      BY <3>2, <1>1, <1>2, <1>3 DEF Places, InService
    <3>4. Flushes(c)'
      BY <3>2, <1>1, <1>3, <1>6, <2>1 DEF Flushes, InService
    <3>5. Tried(c)'
      BY <3>2, <1>1, <1>3, <1>6 DEF Tried
    <3>6. QED  BY <3>2, <3>3, <3>4, <3>5, <1>1, <1>6, WithinService DEF InService
  <2>2. CASE req[c].steps[step[c]] \notin {"contract", "list"}
    BY <1>4, <1>6, <2>2 DEF NothingFound, Service
  <2>3. QED  BY <2>1, <2>2
<1>7. CASE \E error \in Errors :
              /\ now' = [now EXCEPT ![c].tries = Append(@, error)]
              /\ IF /\ Len(now'[c].tries) < MaxAttempts(Service(c))
                    /\ ShouldRetry(error)
                 THEN UNCHANGED <<lock, pending, pc, todo, gaveUp>>
                 ELSE /\ GiveUp(c)
                      /\ gaveUp' = [gaveUp EXCEPT ![c] = TRUE]
  <2>1. PICK error \in Errors :
              /\ now' = [now EXCEPT ![c].tries = Append(@, error)]
              /\ IF /\ Len(now'[c].tries) < MaxAttempts(Service(c))
                    /\ ShouldRetry(error)
                 THEN UNCHANGED <<lock, pending, pc, todo, gaveUp>>
                 ELSE /\ GiveUp(c)
                      /\ gaveUp' = [gaveUp EXCEPT ![c] = TRUE]
    BY <1>7
  <2>2. /\ now'[c].bid = now[c].bid /\ now'[c].tries = Append(now[c].tries, error)
        /\ now' \in [Calls -> Try]
        /\ \A d \in Calls \ {c} : now'[d] = now[d]
    <3>1. now \in [Calls -> Try] /\ Append(now[c].tries, error) \in Seq(Errors)
      BY <1>1, <1>3 DEF Types
    <3>2. QED  BY <2>1, <3>1 DEF Try
  <2>3. /\ Len(now'[c].tries) = Len(now[c].tries) + 1 /\ Len(now[c].tries) \in Nat
        /\ now'[c].tries # <<>>
        /\ now'[c].tries[Len(now'[c].tries)] = error
        /\ \A k \in 1 .. Len(now[c].tries) : now'[c].tries[k] = "passing"
        /\ Len(now'[c].tries) <= MaxAttempts(req[c].steps[step[c]])
    <3>1. /\ \A k \in 1 .. Len(now[c].tries) : now[c].tries[k] = "passing"
          /\ Len(now[c].tries) < MaxAttempts(req[c].steps[step[c]])
      BY <1>1, <1>3 DEF Tried
    <3>2. /\ Len(now'[c].tries) = Len(now[c].tries) + 1
          /\ now'[c].tries[Len(now'[c].tries)] = error
          /\ \A k \in 1 .. Len(now[c].tries) : now'[c].tries[k] = now[c].tries[k]
          /\ Len(now[c].tries) \in Nat
      <4> DEFINE tries == now[c].tries
                 more  == Append(tries, error)
      <4>1. tries \in Seq(Errors)
        BY <1>3
      <4> HIDE DEF tries
      <4>2. /\ Len(more) = Len(tries) + 1 /\ more[Len(more)] = error
            /\ \A k \in 1 .. Len(tries) : more[k] = tries[k]
            /\ Len(tries) \in Nat
        BY <4>1
      <4> HIDE DEF more
      <4>3. now'[c].tries = more
        BY <2>2 DEF more, tries
      <4>4. QED  BY <4>2, <4>3, Zenon DEF tries
    <3>3. now'[c].tries # <<>>
      BY <2>2, <1>3
    <3>4. \A k \in 1 .. Len(now[c].tries) : now'[c].tries[k] = "passing"
      BY <3>1, <3>2, Zenon
    <3>5. Len(now'[c].tries) <= MaxAttempts(req[c].steps[step[c]])
      <4> DEFINE before == Len(now[c].tries)
                 after  == Len(now'[c].tries)
                 most   == MaxAttempts(req[c].steps[step[c]])
      <4>1. after = before + 1 /\ before \in Nat /\ before < most
        BY <3>1, <3>2, Zenon
      <4>2. most \in Nat
        BY <1>2 DEF MaxAttempts
      <4> HIDE DEF before, after, most
      <4>3. after <= most
        BY <4>1, <4>2
      <4>4. QED  BY <4>3 DEF after, most
    <3>6. QED  BY <3>2, <3>3, <3>4, <3>5, Zenon
  <2>4. CASE Len(now'[c].tries) < MaxAttempts(Service(c)) /\ ShouldRetry(error)
    <3>1. UNCHANGED <<lock, pending, pc, todo, gaveUp>>
      BY <2>1, <2>4
    <3>2. Types' /\ (\A d \in Calls \ {c} : Untouched(d))
      BY <3>1, <2>2, <1>1 DEF Types, Untouched
    <3>3. Places(c)' /\ Flushes(c)'
      BY <3>1, <2>2, <1>1, <1>3 DEF Places, Flushes
    <3>4. Tried(c)'
      <4>1. now'[c].tries \in Seq(Errors)
        BY <2>2, <1>1, <1>3
      <4>2. DOMAIN now'[c].tries = 1 .. Len(now[c].tries) + 1
        BY <4>1, <2>3
      <4>3. \A k \in DOMAIN now'[c].tries : now'[c].tries[k] = "passing"
        BY <4>2, <2>3, <2>4 DEF ShouldRetry
      <4>4. QED  BY <4>3, <2>3, <2>4, <3>1, <1>1, <1>2 DEF Tried, Service
    <3>5. QED  BY <3>1, <3>2, <3>3, <3>4, <1>1, WithinService
  <2>5. CASE ~(Len(now'[c].tries) < MaxAttempts(Service(c)) /\ ShouldRetry(error))
    <3>1. Raise(c) /\ UNCHANGED todo /\ gaveUp' = [gaveUp EXCEPT ![c] = TRUE]
      BY <2>1, <2>5 DEF GiveUp
    <3>2. pc'[c] = "failed" /\ gaveUp' \in [Calls -> BOOLEAN]
          /\ \A d \in Calls \ {c} : gaveUp'[d] = gaveUp[d]
      BY <3>1, <1>1 DEF Types, Raise, Goto
    <3>3. Tried(c)'
      <4>1. error = "passing" => Len(now'[c].tries) = MaxAttempts(req[c].steps[step[c]])
        BY <2>3, <2>5, <1>2 DEF ShouldRetry, Service
      <4>2. QED
        BY <4>1, <3>2, <2>3, <1>1, <1>2 DEF Tried, Unlogged, InService
    <3>4. QED  BY <3>1, <3>2, <3>3, <2>2, <1>1, RaiseKeeps DEF data
  <2>6. QED  BY <2>4, <2>5
<1>8. QED  BY <1>4, <1>5, <1>6, <1>7 DEF Attempt

LEMMA WriteKeeps ==
    ASSUME IInv, NEW c \in Calls, Write(c)
    PROVE  IInv'
<1> DEFINE srv == req[c].steps[step[c]]
<1>1. /\ Types /\ pc[c] = "write" /\ lock \in {c, Nobody}
      /\ UNCHANGED <<bids, stored, rows, readBack, notified, req, step, passed, chosen,
                     now, gaveUp>>
  BY CallFacts DEF Write, data
<1>2. Places(c) /\ Flushes(c) /\ Tried(c)
  BY CallFacts
<1>3. /\ step[c] \in 1 .. Len(req[c].steps) /\ srv \in Services
      /\ now[c].bid \in todo[c] /\ Len(chosen[c]) = step[c]
      /\ todo[c] \subseteq chosen[c][step[c]] /\ now[c].bid \in Bids
  <2>1. step[c] \in 1 .. Len(req[c].steps) /\ now[c].bid \in todo[c]
        /\ Len(chosen[c]) = step[c] /\ todo[c] \subseteq chosen[c][step[c]]
    BY <1>1, <1>2, CallFacts DEF Places, InService
  <2>2. QED  BY <2>1, <1>1, CallFacts, RequestFacts
<1>4. /\ lock' = c /\ pc' = [pc EXCEPT ![c] = "next"]
      /\ pending' = [pending EXCEPT ![c] = @ \cup {<<srv, now[c].bid>>}]
      /\ todo' = [todo EXCEPT ![c] = @ \ {now[c].bid}]
  BY DEF Write, Service, Goto
<1>5. /\ pc'[c] = "next" /\ pending'[c] = pending[c] \cup {<<srv, now[c].bid>>}
      /\ todo'[c] = todo[c] \ {now[c].bid}
  BY <1>1, <1>4 DEF Types
<1>6. Types'
  BY <1>1, <1>3, <1>4 DEF Types, PCs
<1>7. \A d \in Calls \ {c} : Untouched(d)
  <2>1. \A d \in Calls \ {c} : lock # d
    BY <1>1, CallAssumption
  <2>2. QED  BY <2>1, <1>1, <1>4 DEF Types, Untouched
<1>8. Places(c)'
  BY <1>1, <1>2, <1>3, <1>5 DEF Places, InService
<1>9. Flushes(c)'
  BY <1>1, <1>2, <1>3, <1>4, <1>5 DEF Flushes, InService
<1>10. Tried(c)'
  BY <1>1, <1>2, <1>5 DEF Tried, Unlogged, InService
<1>11. QED
  BY <1>1, <1>5, <1>6, <1>7, <1>8, <1>9, <1>10, WithinService DEF InService

LEMMA CommitKeeps ==
    ASSUME IInv, NEW c \in Calls, Commit(c)
    PROVE  IInv'
<1>0. PICK srv : srv = req[c].steps[step[c]]
  OBVIOUS
<1>1. /\ Types /\ pc[c] = "next" /\ todo[c] = {} /\ stored' = Committed(c)
      /\ bids' = [b \in Bids |-> IF b \in Upserted(c) THEN "due" ELSE bids[b]]
      /\ pending' = [pending EXCEPT ![c] = {}]
      /\ lock' = IF lock = c THEN Nobody ELSE lock
      /\ passed' = [passed EXCEPT ![c] = IF req[c].narrows /\ srv = "detail"
                                         THEN chosen[c][step[c]] ELSE @]
      /\ step' = [step EXCEPT ![c] = @ + 1] /\ pc' = [pc EXCEPT ![c] = "select"]
      /\ UNCHANGED <<rows, readBack, notified, req, chosen, todo, now, gaveUp>>
  BY <1>0, CallFacts DEF Commit, Service, Narrowed, Goto
<1>2. Places(c) /\ Flushes(c) /\ Tried(c) /\ Atomic(c) /\ Kept(c) /\ Logged(c)
  BY CallFacts
<1>3. /\ step[c] \in 1 .. Len(req[c].steps) /\ Len(chosen[c]) = step[c]
      /\ chosen[c] \in Seq(SUBSET Bids) /\ chosen[c][step[c]] \in SUBSET Bids
  <2>1. step[c] \in 1 .. Len(req[c].steps) /\ Len(chosen[c]) = step[c]
    BY <1>1, <1>2, CallFacts DEF Places, InService
  <2>2. QED  BY <2>1, CallFacts
<1>4. /\ pc'[c] = "select" /\ pending'[c] = {} /\ step'[c] = step[c] + 1
      /\ passed'[c] = IF req[c].narrows /\ srv = "detail"
                      THEN chosen[c][step[c]] ELSE passed[c]
      /\ pc[c] \in InService
  BY <1>1 DEF Types, InService
<1>5. Types'
  <2>1. stored' \subseteq Calls \X Services \X Bids
    BY <1>1, CommittedFacts
  <2>2. bids' \in [Bids -> BidStates]
    BY <1>1 DEF Types, BidStates
  <2>3. QED  BY <2>1, <2>2, <1>1, <1>3 DEF Types, PCs
<1>6. \A d \in Calls \ {c} : Untouched(d)
  <2>1. \A d \in Calls \ {c} : \A s, b :
           <<d, s, b>> \in stored' <=> <<d, s, b>> \in stored
    BY <1>1, CommittedFacts
  <2>2. QED  BY <2>1, <1>1 DEF Types, Untouched
<1>7. Places(c)' /\ Flushes(c)'
  <2>1. Len(req[c].steps) \in Nat
    BY CallFacts
  <2>2. Places(c)'
    BY <2>1, <1>1, <1>3, <1>4 DEF Places, InService
  <2>3. Flushes(c)'
    BY <1>4 DEF Flushes, InService
  <2>4. QED  BY <2>2, <2>3
<1>8. Atomic(c)'
  <2>1. \A s : StoredBy(c, s)' =
               StoredBy(c, s) \cup {b \in Bids : <<s, b>> \in pending[c]}
    BY <1>1, CommittedFacts
  <2>2. /\ \A p \in pending[c] : p[1] = srv /\ p[2] \in chosen[c][step[c]]
        /\ srv \notin {"contract", "list"} =>
              \A b \in chosen[c][step[c]] : <<srv, b>> \in pending[c]
    BY <1>0, <1>1, <1>2, <1>4 DEF Flushes
  <2>3. \A s, b : <<s, b>> \in pending[c] => s = srv /\ b \in chosen[c][step[c]]
    BY <2>2
  <2>4. ASSUME NEW i \in DOMAIN req[c].steps
        PROVE  AtomicAt(c, i)'
    <3>1. AtomicAt(c, i) /\ i \in 1 .. Len(req[c].steps) /\ step[c] \in Nat
      BY <1>2, CallFacts DEF Atomic
    <3>2. PICK s : s = req[c].steps[i]
      OBVIOUS
    <3>3. AtomicAt(c, i)' <=>
             IF i < step'[c]
             THEN /\ StoredBy(c, s)' \subseteq chosen[c][i]
                  /\ s \notin {"contract", "list"} => StoredBy(c, s)' = chosen[c][i]
             ELSE StoredBy(c, s)' = {}
      <4>1. s = req'[c].steps[i] /\ chosen' = chosen
        BY <3>2, <1>1
      <4>2. QED  BY <4>1 DEF AtomicAt
    <3>4. CASE i = step[c]
      <4>1. StoredBy(c, s) = {} /\ s = srv
        BY <3>1, <3>2, <3>4, <1>0 DEF AtomicAt
      <4>2. StoredBy(c, s)' = {b \in Bids : <<s, b>> \in pending[c]}
        BY <4>1, <2>1
      <4>3. StoredBy(c, s)' \subseteq chosen[c][i]
        BY <4>2, <2>3, <3>4
      <4>4. s \notin {"contract", "list"} => StoredBy(c, s)' = chosen[c][i]
        BY <4>1, <4>2, <2>2, <2>3, <1>3, <3>4
      <4>5. i < step'[c]
        BY <3>1, <3>4, <1>4
      <4>6. QED
        BY <4>3, <4>4, <4>5, <3>3
    <3>5. CASE i # step[c]
      <4>1. s # srv
        BY <3>1, <3>2, <3>5, <1>0, <1>1, <1>3, RequestFacts
      <4>2. StoredBy(c, s)' = StoredBy(c, s)
        BY <4>1, <2>1, <2>3
      <4>3. i < step'[c] <=> i < step[c]
        BY <3>1, <3>5, <1>4
      <4>4. QED  BY <4>2, <4>3, <3>1, <3>2, <3>3 DEF AtomicAt
    <3>6. QED  BY <3>4, <3>5
  <2>5. QED  BY <2>4, <1>1 DEF Atomic
<1>9. Kept(c)'
  <2> SUFFICES ASSUME req[c].narrows, req[c].steps[1] = "detail" PROVE Kept(c)'
    BY <1>1 DEF Kept
  <2>1. chosen[c] # <<>>
    BY <1>3
  <2>2. /\ chosen[c][1] # {} =>
              \A i \in DOMAIN chosen[c] : chosen[c][i] \subseteq chosen[c][1]
        /\ step[c] > 1 => passed[c] = chosen[c][1]
    BY <2>1, <1>2 DEF Kept
  <2>3. passed'[c] = chosen[c][1]
    <3>1. CASE step[c] = 1
      BY <3>1, <1>0, <1>4
    <3>2. CASE step[c] > 1
      <4>1. srv # "detail"
        BY <3>2, <1>0, <1>1, <1>3, RequestFacts
      <4>2. QED  BY <4>1, <3>2, <2>2, <1>4
    <3>3. QED  BY <3>1, <3>2, <1>3
  <2>4. QED  BY <2>2, <2>3, <1>1 DEF Kept
<1>10. Tried(c)'
  BY <1>1, <1>2, <1>4 DEF Tried, Unlogged
<1>11. Logged(c)'
  <2>1. rows[c] = <<>>
    BY <1>2, <1>4 DEF Logged, Unlogged
  <2>2. QED  BY <2>1, <1>1, <1>2, <1>4 DEF Logged, HasFailedRow
<1>12. QED
  BY <1>5, <1>6, <1>7, <1>8, <1>9, <1>10, <1>11, StepOfCall DEF CallInv

LEMMA StoreFailsKeeps ==
    ASSUME IInv, NEW c \in Calls, StoreFails(c)
    PROVE  IInv'
<1>1. /\ Types /\ Raise(c) /\ pc[c] \in {"select", "next", "write"}
      /\ pc[c] \in InService \cup {"select"} /\ pc[c] \in Unlogged
      /\ UNCHANGED <<data, req, step, passed, chosen, todo, gaveUp>>
      /\ pc'[c] = "failed"
  BY CallFacts DEF StoreFails, InService, Unlogged, Raise, Goto, Types
<1>2. PICK fault \in Try : now' = [now EXCEPT ![c] = fault] /\ Len(fault.tries) <= 3
  <2>1. Nothing \in Try /\ Len(Nothing.tries) <= 3
    BY DEF Nothing, Try
  <2>2. <<"lasting">> \in Seq(Errors) /\ Len(<<"lasting">>) <= 3
    BY DEF Errors
  <2>3. [bid |-> Nobody, key |-> 0, tries |-> <<"lasting">>] \in Try
    BY <2>2 DEF Try
  <2>4. QED  BY <2>1, <2>2, <2>3 DEF StoreFails
<1>3. /\ now' \in [Calls -> Try] /\ now'[c] = fault
      /\ \A d \in Calls \ {c} : now'[d] = now[d]
  BY <1>1, <1>2 DEF Types
<1>4. Tried(c)'
  <2>1. ~gaveUp[c]
    BY <1>1, CallFacts DEF Tried
  <2>2. QED  BY <2>1, <1>1, <1>2, <1>3 DEF Tried
<1>5. gaveUp' \in [Calls -> BOOLEAN]
  BY <1>1 DEF Types
<1>6. QED  BY <1>1, <1>3, <1>4, <1>5, RaiseKeeps DEF data

-----------------------------------------------------------------------------
(* log_sync_job, and the end of the call.                                  *)

\* A step after the services: what is left to show for the call.
LEMMA AfterServices ==
    ASSUME IInv, NEW c \in Calls, Types', \A d \in Calls \ {c} : Untouched(d),
           pc'[c] \notin Unlogged, pending'[c] = {},
           UNCHANGED <<stored, req, step, passed, chosen, gaveUp>>,
           \/ now'[c] = now[c]
           \/ ~gaveUp[c] /\ Len(now'[c].tries) <= 3,
           gaveUp[c] => pc[c] \notin Unlogged,
           Logged(c)'
    PROVE  IInv'
<1>1. Places(c)' /\ Flushes(c)'
  BY OutOfServices
<1>2. Atomic(c)' /\ Kept(c)'
  <2>1. \A s : StoredBy(c, s)' = StoredBy(c, s)  BY DEF StoredBy
  <2>2. QED  BY <2>1, SelectionsUntouched
<1>3. Tried(c)'
  <2>1. Tried(c) /\ pc'[c] # "fetch"
    BY CallFacts DEF Unlogged, InService
  <2>2. QED  BY <2>1 DEF Tried
<1>4. QED
  BY <1>1, <1>2, <1>3, StepOfCall DEF CallInv

\* A row is written by a call that has nothing pending.
LEMMA LogRowFacts ==
    ASSUME IInv, NEW c \in Calls, NEW row \in Row, LogRow(c, row),
           pc[c] \notin InService
    PROVE  /\ Types' /\ \A d \in Calls \ {c} : Untouched(d)
           /\ rows'[c] = Append(rows[c], row)
           /\ pc'[c] = "refresh" /\ pending'[c] = {}
           /\ UNCHANGED <<stored, readBack, notified, req, step, passed, chosen, now, gaveUp>>
<1>1. /\ Types /\ lock \in {c, Nobody} /\ rows' = [rows EXCEPT ![c] = Append(@, row)]
      /\ stored' = Committed(c) /\ pending' = [pending EXCEPT ![c] = {}]
      /\ lock' = Nobody /\ pc' = [pc EXCEPT ![c] = "refresh"]
      /\ UNCHANGED <<bids, readBack, notified, req, step, passed, chosen, todo, now, gaveUp>>
  BY CallFacts DEF LogRow, Goto
<1>2. stored' = stored
  <2>1. pending[c] = {}
    BY CallFacts DEF Flushes
  <2>2. QED  BY <2>1, <1>1, CommittedFacts
<1>3. Types'
  <2>1. Append(rows[c], row) \in Seq(Row)
    BY CallFacts
  <2>2. QED  BY <2>1, <1>1, <1>2 DEF Types, PCs
<1>4. \A d \in Calls \ {c} : Untouched(d)
  <2>1. \A d \in Calls \ {c} : lock # d
    BY <1>1, CallAssumption
  <2>2. QED  BY <2>1, <1>1, <1>2 DEF Types, Untouched
<1>5. QED  BY <1>1, <1>2, <1>3, <1>4 DEF Types

LEMMA LogCompletedKeeps ==
    ASSUME IInv, NEW c \in Calls, LogCompleted(c)
    PROVE  IInv'
<1> DEFINE row == [status |-> "completed", retries |-> NoCount]
<1>1. /\ pc[c] = "select" /\ pc[c] \notin InService /\ pc[c] \in Unlogged
      /\ step[c] > Len(req[c].steps) /\ LogRow(c, row) /\ row \in Row
  BY DEF LogCompleted, Finished, InService, Unlogged, Row
<1> HIDE DEF row
<1>2. /\ Types' /\ (\A d \in Calls \ {c} : Untouched(d))
      /\ rows'[c] = Append(rows[c], row)
      /\ pc'[c] = "refresh" /\ pending'[c] = {}
      /\ UNCHANGED <<stored, readBack, notified, req, step, passed, chosen, now, gaveUp>>
  BY <1>1, LogRowFacts
<1>3. rows[c] = <<>> /\ ~gaveUp[c] /\ c \notin notified /\ c \notin readBack
  BY <1>1, CallFacts DEF Logged, Tried, HasFailedRow
<1>4. Len(rows'[c]) = 1 /\ rows'[c][1] = row /\ DOMAIN rows'[c] = {1} /\ rows'[c] # <<>>
  BY <1>2, <1>3
<1>5. pc'[c] \notin Unlogged
  BY <1>2 DEF Unlogged, InService
<1>6. row.status = "completed"
  BY DEF row
<1>7. Logged(c)'
  BY <1>1, <1>2, <1>3, <1>4, <1>5, <1>6 DEF Logged
<1>8. QED  BY <1>2, <1>3, <1>5, <1>7, AfterServices

LEMMA LogFailedKeeps ==
    ASSUME IInv, NEW c \in Calls, LogFailed(c)
    PROVE  IInv'
<1> DEFINE row == [status |-> "failed", retries |-> FailureRetries(c)]
<1>1. /\ pc[c] = "failed" /\ pc[c] \notin InService /\ pc[c] \notin Unlogged
      /\ LogRow(c, row)
  BY DEF LogFailed, InService, Unlogged
<1>2. row \in Row
  <2>1. now[c].tries # <<>> => Len(now[c].tries) - 1 \in Nat
    BY CallFacts
  <2>2. FailureRetries(c) \in Nat \cup {NoCount}
    BY <2>1 DEF FailureRetries, RetryCount
  <2>3. QED  BY <2>2 DEF Row
<1>3. row.status = "failed" /\ row.retries = FailureRetries(c)
  OBVIOUS
<1> HIDE DEF row
<1>4. /\ Types' /\ (\A d \in Calls \ {c} : Untouched(d))
      /\ rows'[c] = Append(rows[c], row)
      /\ pc'[c] = "refresh" /\ pending'[c] = {}
      /\ UNCHANGED <<stored, readBack, notified, req, step, passed, chosen, now, gaveUp>>
  BY <1>1, <1>2, LogRowFacts
<1>5. pc'[c] \notin Unlogged
  BY <1>4 DEF Unlogged, InService
<1>6. FailureRetries(c)' = FailureRetries(c)
  BY <1>4 DEF FailureRetries, Service
<1>7. Logged(c) /\ rows[c] \in Seq(Row) /\ c \notin readBack'
  BY <1>1, <1>4, CallFacts DEF Logged
<1>8. CASE rows[c] = <<>>
  <2>1. Len(rows'[c]) = 1 /\ rows'[c][1] = row /\ DOMAIN rows'[c] = {1} /\ rows'[c] # <<>>
    BY <1>4, <1>8
  <2>2. Logged(c)'
    BY <2>1, <1>3, <1>4, <1>5, <1>6, <1>7 DEF Logged, HasFailedRow
  <2>3. QED  BY <2>2, <1>1, <1>4, <1>5, AfterServices
<1>9. CASE Len(rows[c]) = 1 /\ rows[c][1].status = "completed"
  <2>1. /\ Len(rows'[c]) = 2 /\ rows'[c][1] = rows[c][1] /\ rows'[c][2] = row
        /\ DOMAIN rows'[c] = {1, 2} /\ rows'[c] # <<>>
    BY <1>2, <1>4, <1>7, <1>9
  <2>2. step[c] > Len(req[c].steps) /\ ~gaveUp[c]
    BY <1>7, <1>9 DEF Logged
  <2>3. Logged(c)'
    BY <2>1, <2>2, <1>3, <1>4, <1>5, <1>6, <1>7, <1>9 DEF Logged, HasFailedRow
  <2>4. QED  BY <2>3, <1>1, <1>4, <1>5, AfterServices
<1>10. QED  BY <1>1, <1>7, <1>8, <1>9 DEF Logged

\* What the last row says of all of them.
LEMMA LastRowFacts ==
    ASSUME IInv, NEW c \in Calls, rows[c] # <<>>
    PROVE  /\ Len(rows[c]) \in {1, 2} /\ DOMAIN rows[c] = 1 .. Len(rows[c])
           /\ LastRow(c).status \in {"completed", "failed"}
           /\ LastRow(c).status = "failed" => HasFailedRow(c)
           /\ LastRow(c).status # "failed" =>
                 /\ Len(rows[c]) = 1 /\ rows[c][1].status = "completed"
                 /\ ~HasFailedRow(c) /\ ~gaveUp[c]
<1>1. Logged(c) /\ rows[c] \in Seq(Row) /\ Len(rows[c]) \in Nat
  BY CallFacts
<1>2. Len(rows[c]) \in {1, 2} /\ DOMAIN rows[c] = 1 .. Len(rows[c])
  <2>1. Len(rows[c]) <= 2
    BY <1>1 DEF Logged
  <2>2. Len(rows[c]) # 0 /\ DOMAIN rows[c] = 1 .. Len(rows[c])
    BY <1>1
  <2>3. \A n \in Nat : n <= 2 /\ n # 0 => n \in {1, 2}
    OBVIOUS
  <2>4. Len(rows[c]) \in Nat
    BY <1>1
  <2>5. QED  BY <2>1, <2>2, <2>3, <2>4
<1>3. LastRow(c) \in Row /\ LastRow(c) = rows[c][Len(rows[c])]
  BY <1>1, <1>2 DEF LastRow
<1>4. LastRow(c).status \in {"completed", "failed"}
  BY <1>3 DEF Row
<1>5. LastRow(c).status = "failed" => HasFailedRow(c)
  BY <1>2, <1>3 DEF HasFailedRow
<1>6. ASSUME LastRow(c).status # "failed"
      PROVE  /\ Len(rows[c]) = 1 /\ rows[c][1].status = "completed"
             /\ ~HasFailedRow(c) /\ ~gaveUp[c]
  <2>1. Len(rows[c]) = 1 /\ rows[c][1].status = "completed"
    BY <1>1, <1>2, <1>3, <1>4, <1>6 DEF Logged
  <2>2. QED  BY <2>1, <1>1, <1>2 DEF Logged, HasFailedRow
<1>7. QED  BY <1>2, <1>4, <1>5, <1>6

\* A step that goes somewhere and changes neither the database nor the lock.
LEMMA GotoFacts ==
    ASSUME IInv, NEW c \in Calls, NEW where \in PCs, Goto(c, where),
           UNCHANGED <<bids, stored, rows, lock, pending, req, step, passed, chosen,
                       todo, gaveUp>>,
           now' \in [Calls -> Try], \A d \in Calls \ {c} : now'[d] = now[d],
           notified' \subseteq Calls, readBack' \subseteq Calls,
           \A d \in Calls \ {c} : d \in notified' <=> d \in notified,
           \A d \in Calls \ {c} : d \in readBack' <=> d \in readBack
    PROVE  /\ Types' /\ \A d \in Calls \ {c} : Untouched(d)
           /\ pc'[c] = where
<1>1. Types
  BY CallFacts
<1>2. QED  BY <1>1 DEF Types, Untouched, Goto

LEMMA EndFacts ==
    ASSUME NEW c \in Calls, End(c)
    PROVE  \E where \in {"answered", "raised"} :
              /\ Goto(c, where)
              /\ LastRow(c).status # "failed" => where = "answered"
  BY DEF End

LEMMA RefreshKeeps ==
    ASSUME IInv, NEW c \in Calls, Refresh(c)
    PROVE  IInv'
<1>1. /\ pc[c] = "refresh" /\ pc[c] \notin Unlogged /\ pc[c] \notin InService
      /\ readBack' = readBack \cup {c}
      /\ UNCHANGED <<bids, stored, rows, notified, lock, pending, req, step, passed,
                     chosen, todo, now, gaveUp>>
  BY DEF Refresh, Unlogged, InService
<1>2. /\ Types /\ Logged(c) /\ pending[c] = {} /\ rows[c] # <<>>
  <2>1. Types /\ Logged(c) /\ Flushes(c)  BY CallFacts
  <2>2. QED  BY <2>1, <1>1 DEF Flushes, Logged
<1>3. PICK where \in {"notify", "answered"} :
         /\ Goto(c, where)
         /\ where = "notify" <=> LastRow(c).status = "failed"
  BY EndFacts DEF Refresh, Alerts, End
<1>4. /\ Types' /\ (\A d \in Calls \ {c} : Untouched(d)) /\ pc'[c] = where
  BY <1>1, <1>2, <1>3, GotoFacts DEF Types, PCs
<1>5. pc'[c] \notin Unlogged /\ pc'[c] \notin {"failed", "refresh"}
  BY <1>4 DEF Unlogged, InService
<1>6. where = "answered" => ~HasFailedRow(c)
  BY <1>2, <1>3, LastRowFacts
<1>7. where = "notify" => rows[c][Len(rows[c])].status = "failed"
  BY <1>3 DEF LastRow
<1>8. Logged(c)'
  <2>1. FailureRetries(c)' = FailureRetries(c) /\ HasFailedRow(c)' = HasFailedRow(c)
    BY <1>1 DEF FailureRetries, Service, HasFailedRow
  <2>2. QED  BY <2>1, <1>1, <1>2, <1>4, <1>5, <1>6, <1>7 DEF Logged
<1>9. QED  BY <1>1, <1>2, <1>4, <1>5, <1>8, AfterServices

LEMMA RefreshFailsKeeps ==
    ASSUME IInv, NEW c \in Calls, RefreshFails(c)
    PROVE  IInv'
<1>1. /\ pc[c] = "refresh" /\ pc[c] \notin Unlogged /\ pc[c] \notin InService
      /\ Goto(c, IF LastRow(c).status = "failed" THEN "raised" ELSE "failed")
      /\ now' = [now EXCEPT ![c] = IF LastRow(c).status = "failed" THEN @ ELSE Nothing]
      /\ UNCHANGED <<data, lock, pending, req, step, passed, chosen, todo, gaveUp>>
  BY DEF RefreshFails, Unlogged, InService
<1>2. /\ Types /\ Logged(c) /\ pending[c] = {} /\ rows[c] # <<>>
  <2>1. Types /\ Logged(c) /\ Flushes(c)  BY CallFacts
  <2>2. QED  BY <2>1, <1>1 DEF Flushes, Logged
<1>3. /\ now' \in [Calls -> Try] /\ \A d \in Calls \ {c} : now'[d] = now[d]
      /\ now'[c] = IF LastRow(c).status = "failed" THEN now[c] ELSE Nothing
  <2>1. Nothing \in Try  BY DEF Nothing, Try
  <2>2. QED  BY <2>1, <1>1, <1>2 DEF Types
<1>4. /\ Types' /\ (\A d \in Calls \ {c} : Untouched(d))
      /\ pc'[c] = IF LastRow(c).status = "failed" THEN "raised" ELSE "failed"
  BY <1>1, <1>2, <1>3, GotoFacts DEF Types, PCs, data
<1>5. pc'[c] \notin Unlogged /\ pc'[c] \in {"failed", "raised"}
  BY <1>4 DEF Unlogged, InService
<1>6. HasFailedRow(c)' = HasFailedRow(c)
  BY <1>1 DEF HasFailedRow, data
<1>7. CASE LastRow(c).status = "failed"
  <2>1. FailureRetries(c)' = FailureRetries(c)
    BY <1>1, <1>3, <1>7 DEF FailureRetries, Service
  <2>2. pc'[c] = "raised"
    BY <1>4, <1>7
  <2>3. Logged(c)'
    BY <2>1, <2>2, <1>1, <1>2, <1>5, <1>6 DEF Logged, data
  <2>4. QED  BY <2>3, <1>1, <1>2, <1>3, <1>4, <1>5, <1>7, AfterServices DEF data
<1>8. CASE LastRow(c).status # "failed"
  <2>1. /\ Len(rows[c]) = 1 /\ rows[c][1].status = "completed" /\ DOMAIN rows[c] = 1 .. 1
        /\ ~HasFailedRow(c) /\ ~gaveUp[c]
    BY <1>2, <1>8, LastRowFacts
  <2>2. pc'[c] = "failed" /\ Len(now'[c].tries) <= 3
    BY <1>3, <1>4, <1>8 DEF Nothing
  <2>3. Logged(c)'
    BY <2>1, <2>2, <1>1, <1>2, <1>5, <1>6 DEF Logged, data
  <2>4. QED  BY <2>1, <2>2, <2>3, <1>1, <1>2, <1>4, <1>5, AfterServices DEF data
<1>9. QED  BY <1>7, <1>8

LEMMA NotifyKeeps ==
    ASSUME IInv, NEW c \in Calls, Notify(c)
    PROVE  IInv'
<1>1. /\ pc[c] = "notify" /\ pc[c] \notin Unlogged /\ pc[c] \notin InService
      /\ notified' = notified \cup {c}
      /\ UNCHANGED <<bids, stored, rows, readBack, lock, pending, req, step, passed, chosen,
                     todo, now, gaveUp>>
  BY DEF Notify, Unlogged, InService
<1>2. /\ Types /\ Logged(c) /\ pending[c] = {} /\ rows[c] # <<>>
      /\ LastRow(c).status = "failed"
  <2>1. Types /\ Logged(c) /\ Flushes(c)  BY CallFacts
  <2>2. QED  BY <2>1, <1>1 DEF Flushes, Logged, LastRow
<1>3. PICK where \in {"answered", "raised"} : Goto(c, where)
  BY EndFacts DEF Notify
<1>4. /\ Types' /\ (\A d \in Calls \ {c} : Untouched(d)) /\ pc'[c] = where
  BY <1>1, <1>2, <1>3, GotoFacts DEF Types, PCs
<1>5. pc'[c] \notin Unlogged /\ pc'[c] \notin {"failed", "refresh", "notify"}
  BY <1>4 DEF Unlogged, InService
<1>6. HasFailedRow(c)
  BY <1>2, LastRowFacts
<1>7. Logged(c)'
  <2>1. FailureRetries(c)' = FailureRetries(c) /\ HasFailedRow(c)' = HasFailedRow(c)
    BY <1>1 DEF FailureRetries, Service, HasFailedRow
  <2>2. QED  BY <2>1, <1>1, <1>2, <1>4, <1>5, <1>6 DEF Logged
<1>8. QED  BY <1>1, <1>2, <1>4, <1>5, <1>7, AfterServices

LEMMA LogFailsKeeps ==
    ASSUME IInv, NEW c \in Calls, LogFails(c)
    PROVE  IInv'
<1>1. /\ pc[c] = "failed" /\ pc[c] \notin Unlogged /\ pc[c] \notin InService
      /\ Goto(c, "raised")
      /\ UNCHANGED <<data, lock, pending, req, step, passed, chosen, todo, now, gaveUp>>
  BY DEF LogFails, Unlogged, InService
<1>2. Types /\ Logged(c) /\ pending[c] = {}
  <2>1. Types /\ Logged(c) /\ Flushes(c)  BY CallFacts
  <2>2. QED  BY <2>1, <1>1 DEF Flushes
<1>3. /\ Types' /\ (\A d \in Calls \ {c} : Untouched(d)) /\ pc'[c] = "raised"
  BY <1>1, <1>2, GotoFacts DEF Types, PCs, data
<1>4. pc'[c] \notin Unlogged
  BY <1>3 DEF Unlogged, InService
<1>5. Logged(c)'
  <2>1. FailureRetries(c)' = FailureRetries(c) /\ HasFailedRow(c)' = HasFailedRow(c)
    BY <1>1 DEF FailureRetries, Service, HasFailedRow, data
  <2>2. QED  BY <2>1, <1>1, <1>2, <1>3, <1>4 DEF Logged, data
<1>6. QED  BY <1>1, <1>2, <1>3, <1>4, <1>5, AfterServices DEF data

LEMMA StopKeeps ==
    ASSUME IInv, NEW c \in Calls, Stop(c)
    PROVE  IInv'
<1>1. /\ pc[c] # "idle" /\ ~Over(c)
      /\ pending' = [pending EXCEPT ![c] = {}]
      /\ lock' = IF lock = c THEN Nobody ELSE lock
      /\ pc' = [pc EXCEPT ![c] = "stopped"]
      /\ UNCHANGED <<bids, stored, rows, readBack, notified, req, step, passed, chosen,
                     todo, now, gaveUp>>
  BY DEF Stop, Running, Goto, data
<1>2. Types /\ Logged(c) /\ Tried(c)
  BY CallFacts
<1>3. Types' /\ (\A d \in Calls \ {c} : Untouched(d))
  BY <1>1, <1>2 DEF Types, Untouched, PCs
<1>4. pc'[c] = "stopped" /\ pending'[c] = {} /\ pc'[c] \notin Unlogged
  BY <1>1, <1>2 DEF Types, Unlogged, InService
<1>5. Logged(c)'
  <2>1. FailureRetries(c)' = FailureRetries(c) /\ HasFailedRow(c)' = HasFailedRow(c)
    BY <1>1 DEF FailureRetries, Service, HasFailedRow
  <2>2. QED  BY <2>1, <1>1, <1>2, <1>4 DEF Logged
<1>6. gaveUp[c] => pc[c] \notin Unlogged
  BY <1>2 DEF Tried
<1>7. QED  BY <1>1, <1>3, <1>4, <1>5, <1>6, AfterServices

-----------------------------------------------------------------------------
(* The others, and the theorems.                                           *)

\* Users, time and other writers leave the calls alone.
LEMMA OthersKeep ==
    ASSUME IInv, BidChanges \/ OtherTakes \/ OtherCommits
    PROVE  IInv'
<1>1. Types
  BY DEF IInv
<1>2. /\ bids' \in [Bids -> BidStates] /\ lock' \in Calls \cup {Other, Nobody}
      /\ \A d \in Calls : lock = d => lock' = d
      /\ UNCHANGED <<pending, stored, rows, readBack, notified, req, pc, step, passed, chosen,
                     todo, now, gaveUp>>
  <2>1. CASE BidChanges
    BY <2>1, <1>1 DEF BidChanges, Types, BidStates
  <2>2. CASE OtherTakes
    BY <2>2, <1>1, CallAssumption DEF OtherTakes, Types, data
  <2>3. CASE OtherCommits
    BY <2>3, <1>1, CallAssumption DEF OtherCommits, Types, BidStates
  <2>4. QED  BY <2>1, <2>2, <2>3
<1>3. Types' /\ \A d \in Calls : Untouched(d)
  BY <1>1, <1>2 DEF Types, Untouched
<1>4. QED  BY <1>3, UntouchedCall DEF IInv

LEMMA NextKeepsIInv == IInv /\ [Next]_vars => IInv'
<1> SUFFICES ASSUME IInv, [Next]_vars PROVE IInv'
  OBVIOUS
<1>1. ASSUME NEW c \in Calls, Begin(c) PROVE IInv'
  BY <1>1, BeginKeeps
<1>2. ASSUME NEW c \in Calls, CallStep(c) PROVE IInv'
  BY <1>2, SelectKeeps, NextBidKeeps, AttemptKeeps, WriteKeeps, CommitKeeps,
     StoreFailsKeeps, LogCompletedKeeps, LogFailedKeeps, LogFailsKeeps,
     RefreshKeeps, RefreshFailsKeeps, NotifyKeeps DEF CallStep
<1>3. ASSUME NEW c \in Calls, Stop(c) PROVE IInv'
  BY <1>3, StopKeeps
<1>4. CASE BidChanges \/ OtherTakes \/ OtherCommits
  BY <1>4, OthersKeep
<1>5. CASE UNCHANGED vars
  <2>1. Types' /\ \A d \in Calls : Untouched(d)
    BY <1>5 DEF vars, data, IInv, Types, Untouched
  <2>2. QED  BY <2>1, UntouchedCall DEF IInv
<1>6. QED  BY <1>1, <1>2, <1>3, <1>4, <1>5 DEF Next

\* The inductive invariant holds in every state of every behaviour.
THEOREM Invariance == Spec => []IInv
  BY InitIInv, NextKeepsIInv, PTL DEF Spec

\* However a call ends, each of its services has stored all it selected or
\* nothing, in order.
THEOREM Atomicity == Spec => []ServicesAreAtomic
<1>1. IInv => ServicesAreAtomic
  BY CallFacts DEF Atomic, AtomicAt, ServicesAreAtomic
<1>2. QED  BY <1>1, Invariance, PTL

\* A row says "completed" only if all services of the call have committed and
\* none of its remote requests was given up.
THEOREM HonestCompletion == Spec => []CompletedIsTrue
<1>1. IInv => CompletedIsTrue
  BY CallFacts DEF Logged, CompletedIsTrue, Finished
<1>2. QED  BY <1>1, Invariance, PTL

\* Once the detail service of a batch has selected bids, the later steps keep
\* to them.
THEOREM SelectionKept == Spec => []LaterStepsKeepSelection
<1>1. IInv => LaterStepsKeepSelection
  BY CallFacts DEF Kept, LaterStepsKeepSelection
<1>2. QED  BY <1>1, Invariance, PTL

\* Operators are alerted to a failure only when it is in the log, and to every
\* failure that is, whether the call then answers or raises its error again,
\* unless the process stops or the row cannot be read back.
THEOREM Alerting == Spec => []FailuresAreAlerted
<1>1. IInv => FailuresAreAlerted
  BY CallFacts DEF Logged, FailuresAreAlerted
<1>2. QED  BY <1>1, Invariance, PTL

\* The retry count of a failed row is the number of attempts made after the
\* first, which followed passing errors only; a passing error is reported only
\* after the last attempt the policy allows.
THEOREM HonestRetries == Spec => []RetriesAreHonest
<1>1. ASSUME IInv PROVE RetriesAreHonest
  <2> SUFFICES ASSUME NEW c \in Calls, NEW i \in DOMAIN rows[c],
                      rows[c][i].status = "failed", gaveUp[c], now[c].tries # <<>>
               PROVE  /\ \A k \in 1 .. Len(now[c].tries) - 1 : now[c].tries[k] = "passing"
                      /\ now[c].tries[Len(now[c].tries)] = "passing"
                         => Len(now[c].tries) = MaxAttempts(Service(c))
                      /\ rows[c][i].retries \in {Len(now[c].tries) - 1, NoCount}
                      /\ Len(now[c].tries) > 1
                         => rows[c][i].retries = Len(now[c].tries) - 1
    BY DEF RetriesAreHonest
  <2>1. Tried(c) /\ Logged(c) /\ Len(now[c].tries) \in Nat
    BY <1>1, CallFacts
  <2>2. /\ \A k \in 1 .. Len(now[c].tries) - 1 : now[c].tries[k] = "passing"
        /\ now[c].tries[Len(now[c].tries)] = "passing"
           => Len(now[c].tries) = MaxAttempts(Service(c))
        /\ Len(now[c].tries) <= MaxAttempts(Service(c))
    BY <2>1 DEF Tried, Service
  <2>3. rows[c][i].retries = RetryCount(Service(c), now[c].tries)
    BY <2>1 DEF Logged, FailureRetries
  <2>4. Service(c) \notin {"detail", "contract", "crawl"} => Len(now[c].tries) <= 1
    <3>1. Service(c) \notin {"detail", "contract", "crawl"} => MaxAttempts(Service(c)) = 1
      BY DEF MaxAttempts
    <3>2. QED  BY <3>1, <2>1, <2>2
  <2>5. QED  BY <2>1, <2>2, <2>3, <2>4 DEF RetryCount
<1>2. QED  BY <1>1, Invariance, PTL

\* Every variable keeps its type, and who has something pending has the lock.
THEOREM TypeCorrect == Spec => []TypeOK
<1>1. ASSUME IInv PROVE TypeOK
  <2>1. Types
    BY <1>1 DEF IInv
  <2>2. ASSUME NEW c \in Calls
        PROVE  /\ pending[c] # {} => lock = c
               /\ step[c] \in 1 .. Len(req[c].steps) + 1
               /\ Len(rows[c]) <= 2 /\ \A i \in DOMAIN rows[c] : rows[c][i] \in Row
               /\ chosen[c] \in Seq(SUBSET Bids)
               /\ Len(now[c].tries) <= 3
    BY <1>1, CallFacts DEF Flushes, Places, Logged, Tried
  <2>3. QED  BY <2>1, <2>2 DEF Types, TypeOK
<1>2. QED  BY <1>1, Invariance, PTL

===============================================================================
