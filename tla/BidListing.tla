----------------------------- MODULE BidListing -----------------------------
(***************************************************************************)
(* What the lists of bids show: the JSON API and its pages, the CSV        *)
(* export, the favorites page and the table that the actions of the list   *)
(* answer with.  A list is a query (filter, order), reduced to one version *)
(* of each notice, and cut into pages; with the backend "auto" the sample  *)
(* data stands in when the database has nothing to show.                   *)
(***************************************************************************)
EXTENDS Integers, Sequences, FiniteSets, SequencesExt, FiniteSetsExt

CONSTANTS
    Bids,        \* versions of notices, [no, seq]
    SampleBids,  \* those of the sample data
    Column,      \* a bid's columns that nothing changes; 0 is NULL
    Texts,       \* what one can search for, numbers of notices among them
    Mentions,    \* the bids in which a field finds a text
    Empty,       \* a filter that is not given
    Backend,     \* the setting bid_data_backend
    PageSize

Ranges  == {"closed_at", "budget_amount"}
Columns == Ranges \cup {"posted_at", "opened_at", "notice_org", "title"}
Fields  == {"query", "keyword", "org"}

ASSUME BidAssumption ==
    /\ Bids \subseteq [no : Nat, seq : Nat] /\ IsFiniteSet(Bids)
    /\ SampleBids \subseteq Bids
    /\ Column \in [Columns -> [Bids -> Nat]]
    /\ Mentions \in [Fields -> [Texts -> SUBSET Bids]]
ASSUME SettingAssumption ==
    /\ Backend \in {"sample", "sqlmodel", "auto"}
    /\ PageSize \in Nat \ {0}
    /\ Empty \notin Texts \cup {b.no : b \in Bids}

\* "changed" is last_changed_at, which an item of the API need not have.
Statuses == {"collected", "favorite", "archived"}
Row      == [changed : Nat, status : Statuses, favorite : BOOLEAN]
Absent   == [absent |-> TRUE]

Stored(table) == {b \in Bids : table[b] # Absent}

Filter ==
    [query : Texts \cup {Empty}, keyword : Texts \cup {Empty},
     org : Texts \cup {Empty}, status : Statuses \cup {Empty},
     favorites : BOOLEAN, versions : BOOLEAN,
     from : [Ranges -> Nat], to : [Ranges -> Nat],       \* 0: not given
     sort : Columns \cup {"updated_at"}, order : {"asc", "desc"}]

NoFilter ==
    [query |-> Empty, keyword |-> Empty, org |-> Empty, status |-> Empty,
     favorites |-> FALSE, versions |-> FALSE,
     from |-> [c \in Ranges |-> 0], to |-> [c \in Ranges |-> 0],
     sort |-> "updated_at", order |-> "desc"]

-----------------------------------------------------------------------------
(* Sequences in order.                                                     *)

\* The elements of S in the order R: each has as many before it as precede it.
Sequenced(S, R) ==
    [k \in 1 .. Cardinality(S) |->
        CHOOSE x \in S : Cardinality({y \in S : <<y, x>> \in R}) = k - 1]

\* What a list has at some of its places.
At(list, places) ==
    LET increasing == Sequenced(places, {p \in places \X places : p[1] < p[2]})
    IN  [k \in DOMAIN increasing |-> list[increasing[k]]]

-----------------------------------------------------------------------------
(* The query of SqlModelBidRepository.                                     *)

\* A bid without the value is in no range.
InRange(value, from, to) ==
    /\ from # 0 => value # 0 /\ value >= from
    /\ to # 0 => value # 0 /\ value <= to

MatchesTexts(b, f) ==
    /\ f.query # Empty => b \in Mentions["query"][f.query]
    /\ f.keyword # Empty => b \in Mentions["keyword"][f.keyword]
    /\ f.org # Empty => b \in Mentions["org"][f.org]

MatchesRow(row, f) ==
    /\ f.status # Empty => row.status = f.status
    /\ f.favorites => row.favorite

SortKey(table, b, f) ==
    IF f.sort = "updated_at" THEN table[b].changed ELSE Column[f.sort][b]

IdBefore(a, b) == a.no < b.no \/ (a.no = b.no /\ a.seq < b.seq)

\* NULL comes before every value; ties are broken by bid_id.
KeyBefore(table, a, b, f) ==
    \/ SortKey(table, a, f) < SortKey(table, b, f)
    \/ SortKey(table, a, f) = SortKey(table, b, f) /\ IdBefore(a, b)

InOrder(table, S, f) ==
    Sequenced(S, {p \in S \X S : IF f.order = "asc"
                                 THEN KeyBefore(table, p[1], p[2], f)
                                 ELSE KeyBefore(table, p[2], p[1], f)})

ListStatement(table, f) ==
    InOrder(table,
            {b \in Stored(table) :
                /\ MatchesTexts(b, f) /\ MatchesRow(table[b], f)
                /\ \A c \in Ranges : InRange(Column[c][b], f.from[c], f.to[c])},
            f)

NonEffective(table, b) == table[b].status = "archived"

\* Where the versions of a notice are.
VersionsIn(list, no) == {i \in DOMAIN list : list[i].no = no}

\* A wrong Representative: effective or not.
FirstVersion(table, list, no) == list[Min(VersionsIn(list, no))]

\* The first version of the list that is effective, or else the first.
Representative(table, list, no) ==
    LET versions  == VersionsIn(list, no)
        effective == {i \in versions : ~NonEffective(table, list[i])}
    IN  list[Min(IF effective # {} THEN effective ELSE versions)]

\* Where the list comes upon a notice.
FirstPlaces(list) ==
    {i \in DOMAIN list : \A j \in 1 .. i - 1 : list[j].no # list[i].no}

\* A wrong VersionSelection: a notice goes where the version chosen is.
PlacedAsChosen(table, list, f) ==
    IF f.versions \/ \E i \in DOMAIN list : list[i].no = f.query
    THEN list
    ELSE At(list, {i \in DOMAIN list :
                      list[i] = Representative(table, list, list[i].no)})

\* One bid of each notice, unless versions are wanted or a notice was asked for
\* by its number.  A notice goes where its first version is.
VersionSelection(table, list, f) ==
    IF f.versions \/ \E i \in DOMAIN list : list[i].no = f.query
    THEN list
    ELSE LET heads == At(list, FirstPlaces(list)) IN
         [k \in DOMAIN heads |-> Representative(table, list, heads[k].no)]

\* A wrong DatabaseList: versions are selected first, and then filtered.
SelectsFirst(table, f) ==
    LET latest == VersionSelection(table, InOrder(table, Stored(table), f), f) IN
    At(latest, {i \in DOMAIN latest : /\ MatchesTexts(latest[i], f)
                                      /\ MatchesRow(table[latest[i]], f)})

DatabaseList(table, f) == VersionSelection(table, ListStatement(table, f), f)

-----------------------------------------------------------------------------
(* The sample repository: no selection of versions, and a bid without the  *)
(* value has the lowest one.                                               *)

SampleInRange(value, from, to) ==
    (from # 0 => value >= from) /\ (to # 0 => value <= to)

SampleList(samples, f) ==
    InOrder(samples,
            {b \in Stored(samples) :
                /\ MatchesTexts(b, f) /\ MatchesRow(samples[b], f)
                /\ \A c \in Ranges :
                      SampleInRange(Column[c][b], f.from[c], f.to[c])},
            f)

-----------------------------------------------------------------------------
(* Backends and pages.                                                     *)

\* list_raw_bids: the whole list.
WholeList(table, samples, f) ==
    LET found == DatabaseList(table, f) IN
    IF Backend # "sample" /\ (found # <<>> \/ Backend = "sqlmodel")
    THEN found ELSE SampleList(samples, f)

\* A wrong PageOf: pages are counted from 0.
PageFromZero(list, page) ==
    SubSeq(list, page * PageSize + 1, Min({(page + 1) * PageSize, Len(list)}))

PageOf(list, page) ==
    SubSeq(list, (page - 1) * PageSize + 1, Min({page * PageSize, Len(list)}))

\* A wrong HasResult: an empty page is taken for an empty list.
HasItems(items, total) == items # <<>>

HasResult(items, total) == items # <<>> \/ total > 0

\* list_raw_bids_page: one page, and the length of the list.
ListPage(table, samples, f, page) ==
    LET found   == DatabaseList(table, f)
        items   == PageOf(found, page)
        instead == SampleList(samples, f)
    IN
    IF /\ Backend # "sample"
       /\ HasResult(items, Len(found)) \/ Backend = "sqlmodel"
    THEN [items |-> items, total |-> Len(found)]
    ELSE [items |-> PageOf(instead, page), total |-> Len(instead)]

TotalPages(total) == Max({1, (total + PageSize - 1) \div PageSize})

\* A wrong CurrentPage: the page that was asked for.
AsAsked(page, total) == page

\* The page the pagination marks: it is not asked whether it is the one shown.
CurrentPage(page, total) == Min({Max({page, 1}), TotalPages(total)})

\* The sorts of the pages, as the repository's.
PageSort(name) ==
    CASE name = "closed_at_asc"  -> [sort |-> "closed_at", order |-> "asc"]
      [] name = "closed_at_desc" -> [sort |-> "closed_at", order |-> "desc"]
      [] name = "posted_at"      -> [sort |-> "posted_at", order |-> "desc"]
      [] name = "notice_org"     -> [sort |-> "notice_org", order |-> "asc"]
      [] name = "title"          -> [sort |-> "title", order |-> "asc"]
      [] OTHER                   -> [sort |-> "updated_at", order |-> "desc"]

SortedAs(f, name) ==
    [f EXCEPT !.sort = PageSort(name).sort, !.order = PageSort(name).order]

\* The favorites page shows the whole list.
FavoritesPage(table, samples, status) ==
    WholeList(table, samples, [NoFilter EXCEPT !.favorites = TRUE, !.status = status])

=============================================================================
