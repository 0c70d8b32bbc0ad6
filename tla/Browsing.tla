------------------------------ MODULE Browsing ------------------------------
(***************************************************************************)
(* Users of the pages and of the JSON API: one who reads lists page by     *)
(* page or searches, and others who click meanwhile - favorite toggles,    *)
(* status changes, saves of search results - while syncs add and change    *)
(* bids.  Handlers declared "async" run on the event loop, one at a time;  *)
(* all others, and syncs, run in threads beside it.                        *)
(***************************************************************************)
EXTENDS LiveSearch

CONSTANTS
    Requests,    \* requests that write, each of which comes once
    Asked,       \* what they may be
    Filters,     \* the lists the reader may read
    Searches,    \* what the reader may search for
    Responses,   \* what an operation may answer with
    Tables,      \* the bids that may be there to begin with
    Synced,      \* the bids a sync may store
    MaxSyncs,    \* bound: syncs
    MaxChanged,  \* bound: last_changed_at
    Nobody       \* no request is on the event loop

Toggles    == {"tableToggle", "drawerToggle"}
TableKinds == {"tableToggle", "tableStatus"}
StatusKinds == {"tableStatus", "drawerStatus", "apiStatus"}
AsyncKinds == {"tableToggle", "tableStatus", "drawerStatus", "save"}
Kinds      == AsyncKinds \cup {"drawerToggle", "apiStatus", "apiFavorite"}

Request == [kind : Kinds, bid : Bids, value : Statuses \cup {"on", "off", Empty},
            filter : Filter, page : Nat \ {0}]

\* The pages offer the statuses to choose from; the handlers take what comes.
ASSUME BrowsingAssumption ==
    /\ Asked \subseteq Request
    /\ \A q \in Asked : q.kind \in StatusKinds => q.value \in Statuses
    /\ Filters \subseteq Filter
    /\ Searches \subseteq Search
    /\ Responses \subseteq Seq(Item)
    /\ Tables \subseteq [Bids -> Row \cup {Absent}]
    /\ MaxSyncs \in Nat /\ MaxChanged \in Nat
    /\ Nobody \notin Requests

VARIABLES
    table,     \* the bids of the database
    samples,   \* those of the sample data, with the process's overrides
    req, pc,   \* what a request is, and where it is
    flag,      \* the favorite flag it has read
    loop,      \* the request on the event loop
    answer,    \* the table it was answered with
    reader,    \* what the reader has read so far
    syncs,     \* how many syncs there were
    origin     \* the bids at the beginning

store == <<table, samples>>
vars  == <<table, samples, req, pc, flag, loop, answer, reader, syncs, origin>>

NoAnswer == [items |-> <<>>, page |-> 1, total |-> 0, asked |-> 1, list |-> <<>>]

\* The reader of a list, and the one who searches.
Walk    == [at : {"list"}, filter : Filter, page : Nat, more : BOOLEAN,
            got : Seq(Bids), clean : BOOLEAN]
Finding == [at : {"search", "found", "failed"}, search : Search, op : Nat,
            items : Seq(Item), marked : SUBSET Bids]

Idle == [at |-> "idle"]

Init ==
    /\ table \in Tables
    /\ samples = [b \in Bids |->
                    IF b \in SampleBids
                    THEN [changed |-> 1, status |-> "collected", favorite |-> TRUE]
                    ELSE Absent]
    /\ req \in [Requests -> Asked]
    /\ pc     = [r \in Requests |-> "new"]
    /\ flag   = [r \in Requests |-> FALSE]
    /\ loop   = Nobody
    /\ answer = [r \in Requests |-> NoAnswer]
    /\ reader = Idle
    /\ syncs  = 0
    /\ origin = table

-----------------------------------------------------------------------------
(* Reads and writes of one bid.                                            *)

InDatabase(b) == Backend # "sample" /\ b \in Stored(table)

\* get_raw_bid and the writes: "auto" falls back to the sample data.
Known(b) == InDatabase(b) \/ (Backend # "sqlmodel" /\ b \in SampleBids)

Get(b) == IF InDatabase(b) THEN table[b] ELSE samples[b]

\* The walk of a reader is clean as long as no write changes the list; after
\* that it goes on over another list, and what it has got is not followed up.
Store(newTable, newSamples) ==
    /\ table' = newTable
    /\ samples' = newSamples
    /\ reader' = IF /\ reader.at = "list"
                    /\ WholeList(table, samples, reader.filter)
                          # WholeList(newTable, newSamples, reader.filter)
                 THEN [reader EXCEPT !.clean = FALSE, !.got = <<>>] ELSE reader

Put(b, row) ==
    IF InDatabase(b) THEN Store([table EXCEPT ![b] = row], samples)
    ELSE Store(table, [samples EXCEPT ![b] = row])

SetFavorite(b, value) == Put(b, [Get(b) EXCEPT !.favorite = value])
SetStatus(b, value)   == Put(b, [Get(b) EXCEPT !.status = value])

-----------------------------------------------------------------------------
(* Requests that write.                                                    *)

\* A wrong Admitted: handlers on the loop do not exclude each other.
InThreadPool(r) == UNCHANGED loop

\* An async handler occupies the event loop until it has answered.
Admitted(r) ==
    IF req[r].kind \in AsyncKinds
    THEN loop = Nobody /\ loop' = r
    ELSE UNCHANGED loop

\* It has answered: the loop takes the next.
Released(r) == loop' = IF loop = r THEN Nobody ELSE loop

\* Handlers without a step in between, on the loop or not.
AtOnce(r) == req[r].kind \in AsyncKinds => loop = Nobody

Go(r, where) == pc' = [pc EXCEPT ![r] = where]

\* Both toggles read the bid in a session of its own.
ReadFlag(r) ==
    /\ pc[r] = "new"
    /\ req[r].kind \in Toggles
    /\ Known(req[r].bid)
    /\ Admitted(r)
    /\ flag' = [flag EXCEPT ![r] = Get(req[r].bid).favorite]
    /\ Go(r, "write")
    /\ UNCHANGED <<store, req, answer, reader, syncs, origin>>

\* and write the opposite in another one.
WriteFlag(r) ==
    /\ pc[r] = "write"
    /\ req[r].kind \in Toggles
    /\ SetFavorite(req[r].bid, ~flag[r])
    /\ Go(r, IF req[r].kind = "tableToggle" THEN "answer" ELSE "done")
    /\ UNCHANGED <<req, flag, loop, answer, syncs, origin>>

\* The status field of the table.
WriteTableStatus(r) ==
    /\ pc[r] = "new"
    /\ req[r].kind = "tableStatus"
    /\ Known(req[r].bid)
    /\ Admitted(r)
    /\ SetStatus(req[r].bid, req[r].value)
    /\ Go(r, "answer")
    /\ UNCHANGED <<req, flag, answer, syncs, origin>>

\* The status field of the drawer, PATCH status.
WriteStatus(r) ==
    /\ pc[r] = "new"
    /\ req[r].kind \in {"drawerStatus", "apiStatus"}
    /\ Known(req[r].bid)
    /\ AtOnce(r)
    /\ SetStatus(req[r].bid, req[r].value)
    /\ Go(r, "done")
    /\ UNCHANGED <<req, flag, loop, answer, syncs, origin>>

\* POST and DELETE favorite.
WriteFavorite(r) ==
    /\ pc[r] = "new"
    /\ req[r].kind = "apiFavorite"
    /\ Known(req[r].bid)
    /\ SetFavorite(req[r].bid, req[r].value = "on")
    /\ Go(r, "done")
    /\ UNCHANGED <<req, flag, loop, answer, syncs, origin>>

\* The list's filter comes back in the form of the action, in which "status" is
\* also the name of the field with the new status.
FormFilter(r) ==
    IF req[r].kind = "tableStatus"
    THEN [req[r].filter EXCEPT !.status = req[r].value] ELSE req[r].filter

\* get_bids_page_context: the table that both actions of the list answer with.
AnswerTable(r) ==
    LET shown == ListPage(table, samples, FormFilter(r), req[r].page) IN
    /\ pc[r] = "answer"
    /\ answer' = [answer EXCEPT ![r] =
          [items |-> shown.items, total |-> shown.total, asked |-> req[r].page,
           page |-> CurrentPage(req[r].page, shown.total),
           list |-> WholeList(table, samples, FormFilter(r))]]
    /\ Go(r, "done")
    /\ Released(r)
    /\ UNCHANGED <<store, req, flag, reader, syncs, origin>>

\* A bid that was not found: 404, or an error page.
NotFound(r) ==
    /\ pc[r] = "new"
    /\ req[r].kind # "save"
    /\ ~Known(req[r].bid)
    /\ AtOnce(r)
    /\ Go(r, "failed")
    /\ UNCHANGED <<store, req, flag, loop, answer, reader, syncs, origin>>

\* What a form of the search results can save: the results are shown without a
\* form when they are favorites already.
Offered ==
    IF reader.at # "found" THEN {}
    ELSE {b \in {Results(reader.items, reader.search)[i].bid :
                    i \in DOMAIN Results(reader.items, reader.search)} :
             b \notin reader.marked}

\* The form does not carry chgDt: the opening time is taken for the change.
Saved(b) ==
    [changed  |-> Column["opened_at"][b],
     status   |-> IF table[b] = Absent \/ table[b].status = "collected"
                  THEN "favorite" ELSE table[b].status,
     favorite |-> TRUE]

\* The job for the favorite may not be queued after the bid is stored: the
\* answer is an error all the same.
Save(r) ==
    /\ pc[r] = "new"
    /\ req[r].kind = "save"
    /\ AtOnce(r)
    /\ req[r].bid \in Offered
    /\ \/ /\ Store([table EXCEPT ![req[r].bid] = Saved(req[r].bid)], samples)
          /\ Go(r, "done") \/ Go(r, "failed")
       \/ /\ Go(r, "failed")
          /\ UNCHANGED <<store, reader>>
    /\ UNCHANGED <<req, flag, loop, answer, syncs, origin>>

-----------------------------------------------------------------------------
(* The reader.                                                             *)

\* GET /api/v1/bids: a page, or 404 when the list is empty.
Read(f, page, got, clean) ==
    LET shown == ListPage(table, samples, f, page) IN
    reader' = [at |-> "list", filter |-> f, page |-> page,
               more |-> page < TotalPages(shown.total),
               got |-> IF clean THEN got \o shown.items ELSE <<>>, clean |-> clean]

OpenList(f) ==
    /\ reader = Idle
    /\ Read(f, 1, <<>>, TRUE)
    /\ UNCHANGED <<store, req, pc, flag, loop, answer, syncs, origin>>

NextPage ==
    /\ reader.at = "list"
    /\ reader.more
    /\ Read(reader.filter, reader.page + 1, reader.got, reader.clean)
    /\ UNCHANGED <<store, req, pc, flag, loop, answer, syncs, origin>>

StartSearch(s) ==
    /\ reader = Idle
    /\ reader' = [at |-> "search", search |-> s, op |-> 1, items |-> <<>>,
                  marked |-> {}]
    /\ UNCHANGED <<store, req, pc, flag, loop, answer, syncs, origin>>

\* Asked for a notice by number, an operation answers with that notice's items.
Response(items) ==
    IF IsExact(reader.search)
    THEN At(items, {i \in DOMAIN items : items[i].bid.no = reader.search.query})
    ELSE items

Fetch ==
    /\ reader.at = "search"
    /\ reader.op <= Len(Operations)
    /\ \E items \in Responses :
          reader' = [reader EXCEPT !.op = @ + 1, !.items = @ \o Response(items)]
    /\ UNCHANGED <<store, req, pc, flag, loop, answer, syncs, origin>>

\* No request is repeated.
FetchFails ==
    /\ reader.at = "search"
    /\ reader.op <= Len(Operations)
    /\ reader' = [reader EXCEPT !.at = "failed"]
    /\ UNCHANGED <<store, req, pc, flag, loop, answer, syncs, origin>>

\* The database is asked last which of the bids are favorites.
MarkFavorites ==
    /\ reader.at = "search"
    /\ reader.op > Len(Operations)
    /\ reader' = [reader EXCEPT !.at = "found",
                    !.marked = {b \in Stored(table) : table[b].favorite}]
    /\ UNCHANGED <<store, req, pc, flag, loop, answer, syncs, origin>>

\* A sync stores a new version or changes one; users' columns it leaves alone.
Sync(b, changed) ==
    /\ syncs < MaxSyncs
    /\ syncs' = syncs + 1
    /\ Store([table EXCEPT ![b] =
                IF @ = Absent
                THEN [changed |-> changed, status |-> "collected",
                      favorite |-> FALSE]
                ELSE [@ EXCEPT !.changed = changed]], samples)
    /\ UNCHANGED <<req, pc, flag, loop, answer, origin>>

Next ==
    \/ \E r \in Requests :
          \/ ReadFlag(r) \/ WriteFlag(r) \/ WriteTableStatus(r) \/ WriteStatus(r)
          \/ WriteFavorite(r) \/ AnswerTable(r) \/ NotFound(r) \/ Save(r)
    \/ \E f \in Filters : OpenList(f)
    \/ \E s \in Searches : StartSearch(s)
    \/ NextPage \/ Fetch \/ FetchFails \/ MarkFavorites
    \/ \E b \in Synced, changed \in 0 .. MaxChanged : Sync(b, changed)

Spec == Init /\ [][Next]_vars

-----------------------------------------------------------------------------
(* Properties.                                                             *)

\* Every variable has its type; the page an answer marks is one it has.
TypeOK ==
    /\ table \in [Bids -> Row \cup {Absent}]
    /\ samples \in [Bids -> Row \cup {Absent}]
    /\ req \in [Requests -> Asked]
    /\ pc \in [Requests -> {"new", "write", "answer", "done", "failed"}]
    /\ flag \in [Requests -> BOOLEAN]
    /\ loop \in Requests \cup {Nobody}
    /\ \A r \in Requests : answer[r].page \in 1 .. TotalPages(answer[r].total)
    /\ \/ reader = Idle
       \/ reader.at = "list" /\ reader \in Walk
       \/ reader.at # "list" /\ reader \in Finding
    /\ syncs \in 0 .. MaxSyncs

Done(walk) == walk.at = "list" /\ ~walk.more /\ walk.clean

\* Who reads a list to its last page, while no write changes that list, has read
\* what the export holds, in its order: pages overlap nowhere and leave nothing
\* out, whatever else is written.
PagesMakeTheExport ==
    Done(reader) => reader.got = WholeList(table, samples, reader.filter)

\* A list read to its end holds one version of every notice with a version that
\* the filter wants, an effective one if there is any, unless the versions, or a
\* notice by its number, were asked for.
NoticesAreListedOnce ==
    (/\ Done(reader) /\ reader.filter.query \notin {b.no : b \in Bids}
     /\ ~reader.filter.versions /\ ListStatement(table, reader.filter) # <<>>
     /\ Backend # "sample")
    => LET got  == reader.got
           hits == ToSet(ListStatement(table, reader.filter))
       IN  /\ {got[i].no : i \in DOMAIN got} = {b.no : b \in hits}
           /\ \A i, j \in DOMAIN got : got[i].no = got[j].no => i = j
           /\ \A i \in DOMAIN got : \A b \in hits :
                 (b.no = got[i].no /\ table[got[i]].status = "archived")
                 => table[b].status = "archived"

\* The unfiltered list begins with the notices that had news last, so that what
\* is new, changed or cancelled comes first (phase-3-checklist.md:52): a notice
\* stands before all whose versions changed earlier than one of its own did, even
\* when users have archived that version and an older one is shown.  Of its
\* versions that are not archived none has changed later than the one shown.
NewsComeFirst ==
    LET list == DatabaseList(table, NoFilter)
        VersionsOf(no) == {b \in Stored(table) : b.no = no}
    IN  /\ \A i, j \in DOMAIN list : i < j =>
              \E a \in VersionsOf(list[i].no) : \A b \in VersionsOf(list[j].no) :
                  table[a].changed >= table[b].changed
        /\ \A i \in DOMAIN list : \A b \in VersionsOf(list[i].no) :
              table[b].status # "archived" =>
                  table[b].changed <= table[list[i]].changed

\* The favorites page shows every notice with a favorite version once, whatever
\* versions syncs have added and whatever users have archived.
FavoritesAreListed ==
    LET favored == {b \in Stored(table) : table[b].favorite}
        page    == FavoritesPage(table, samples, Empty)
    IN  (Backend # "sample" /\ favored # {}) =>
            /\ {page[i].no : i \in DOMAIN page} = {b.no : b \in favored}
            /\ Len(page) = Cardinality({b.no : b \in favored})
            /\ \A i \in DOMAIN page : page[i] \in favored

\* A table shows the page its pagination marks, of one list; only when the list
\* has become too short for the page asked for it shows nothing.
TablesShowTheirPage ==
    \A r \in Requests :
        LET a == answer[r] IN
        /\ a.total = Len(a.list)
        /\ a.items = IF a.asked <= TotalPages(a.total) THEN PageOf(a.list, a.page)
                     ELSE <<>>

WritesFavorite(r, b) ==
    req[r].bid = b /\ req[r].kind \in Toggles \cup {"apiFavorite", "save"}

OnlyTableToggles(b) ==
    \A r \in Requests : WritesFavorite(r, b) =>
        req[r].kind = "tableToggle" /\ pc[r] \in {"new", "done", "failed"}

\* Toggles of the list never get lost: as they run on the event loop, two clicks
\* on a star cancel out, whenever they come.  (Those of the drawer may both
\* read the same flag.)
TableTogglesCancel ==
    \A b \in Stored(table) : OnlyTableToggles(b) =>
        LET clicks == {r \in Requests : WritesFavorite(r, b) /\ pc[r] = "done"}
            before == origin[b] # Absent /\ origin[b].favorite
        IN  InDatabase(b) /\ origin[b] # Absent =>
                (table[b].favorite = before) <=> (Cardinality(clicks) % 2 = 0)

\* A search shows each bid once, as the newest of the items fetched says (the
\* last one of those that are as new), and every bid that this item lets through,
\* whatever older ones say, unless Limit others come first.
SearchShowsNewest ==
    reader.at = "found" =>
        LET s       == reader.search
            items   == reader.items
            shown   == Results(items, s)
            Newest(i) ==
                \A j \in DOMAIN items : items[j].bid = items[i].bid =>
                    \/ items[j].changed < items[i].changed
                    \/ items[j].changed = items[i].changed /\ j <= i
        IN
        /\ \A k, l \in DOMAIN shown : shown[k].bid = shown[l].bid => k = l
        /\ \A k \in DOMAIN shown :
              /\ MatchesSearch(shown[k], s)
              /\ \E i \in DOMAIN items : Newest(i) /\ items[i] = shown[k]
        /\ \A i \in DOMAIN items :
              (/\ Newest(i) /\ MatchesSearch(items[i], s)
               /\ \A k \in DOMAIN shown : shown[k].bid # items[i].bid)
              => Len(shown) = Limit

\* When a search is cut, what it leaves out does not come before what it shows.
SearchKeepsBest ==
    reader.at = "found" =>
        LET s     == reader.search
            shown == Results(reader.items, s)
            out   == {b \in Bids :
                        /\ PlacesOf(reader.items, b) # {}
                        /\ MatchesSearch(NewestOf(reader.items, b), s)
                        /\ \A k \in DOMAIN shown : shown[k].bid # b}
            Key(item) == SearchKey(item, s.sort, EndOf(reader.items))
        IN  \A b \in out : \A k \in DOMAIN shown :
                IF Ascending(s.sort)
                THEN Key(shown[k]) <= Key(NewestOf(reader.items, b))
                ELSE Key(shown[k]) >= Key(NewestOf(reader.items, b))

=============================================================================
