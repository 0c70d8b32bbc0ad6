----------------------------- MODULE LiveSearch -----------------------------
(***************************************************************************)
(* The live search of the bids page: one request to each list operation of *)
(* the remote API; the items are put together, each bid once, filtered,    *)
(* sorted and cut.  Nothing is stored.                                     *)
(***************************************************************************)
EXTENDS BidListing

CONSTANTS
    Operations,   \* the operations that are asked, in order
    NumberLike,   \* the texts that look like the number of a notice
    Limit         \* LIVE_SEARCH_PAGE_SIZE

\* The numbers of notices look like what they are; others may do so, too.
ASSUME SearchAssumption ==
    /\ Operations \in Seq(STRING) /\ Limit \in Nat \ {0}
    /\ NumberLike \subseteq Texts
    /\ \A b \in Bids : b.no \in Texts => b.no \in NumberLike

\* "changed" and "closed" as the operation knows them; 0: it does not.
Item == [bid : Bids, changed : Nat, closed : Nat]

Sorts ==
    {"updated_at", "closed_at_asc", "closed_at_desc", "posted_at", "notice_org",
     "title"}

Search == [query : Texts \cup {Empty}, org : Texts \cup {Empty},
           from : Nat, to : Nat, sort : Sorts]

\* A query that looks like the number of a notice is taken for one, whether or
\* not there is such a notice.
IsExact(s) == s.query \in NumberLike

-----------------------------------------------------------------------------
(* _dedupe_items: a later item that is not older replaces an earlier one,  *)
(* in whose place it goes.                                                 *)

PlacesOf(items, b) == {i \in DOMAIN items : items[i].bid = b}

\* A wrong NewestOf: the first item of a bid is kept.
FirstOf(items, b) == items[Min(PlacesOf(items, b))]

NewestOf(items, b) ==
    items[Max({i \in PlacesOf(items, b) :
                  \A j \in PlacesOf(items, b) : items[j].changed <= items[i].changed})]

Deduped(items) ==
    LET heads == At(items, {Min(PlacesOf(items, items[i].bid)) : i \in DOMAIN items})
    IN  [k \in DOMAIN heads |-> NewestOf(items, heads[k].bid)]

-----------------------------------------------------------------------------

MatchesQuery(item, s) ==
    \/ s.query = Empty
    \/ IF IsExact(s) THEN item.bid.no = s.query
                     ELSE item.bid \in Mentions["query"][s.query]

MatchesOrg(item, s) == s.org # Empty => item.bid \in Mentions["org"][s.org]

MatchesClosedRange(item, s) ==
    IF item.closed = 0 THEN s.from = 0 /\ s.to = 0
    ELSE (s.from # 0 => item.closed >= s.from) /\ (s.to # 0 => item.closed <= s.to)

MatchesSearch(item, s) ==
    MatchesQuery(item, s) /\ MatchesOrg(item, s) /\ MatchesClosedRange(item, s)

\* A bid without a closing time comes last in either order.
SearchKey(item, sort, end) ==
    CASE sort = "closed_at_asc"  -> IF item.closed = 0 THEN end ELSE item.closed
      [] sort = "closed_at_desc" -> item.closed
      [] sort \in {"posted_at", "notice_org", "title"} -> Column[sort][item.bid]
      [] OTHER                   -> item.changed

Ascending(sort) == sort \in {"closed_at_asc", "notice_org", "title"}

\* Later than every closing time.
EndOf(items) == 1 + Max({0} \cup {items[i].closed : i \in DOMAIN items})

\* A stable sort, and the reverse of one.
SearchSorted(items, sort) ==
    LET Key(i) == SearchKey(items[i], sort, EndOf(items))
        places == Sequenced(DOMAIN items,
                     {p \in (DOMAIN items) \X (DOMAIN items) :
                         \/ Key(p[1]) < Key(p[2])
                         \/ Key(p[1]) = Key(p[2]) /\ p[1] < p[2]})
        sorted == [k \in DOMAIN places |-> items[places[k]]]
    IN  IF Ascending(sort) THEN sorted ELSE Reverse(sorted)

\* What the search lets through, of each bid once.
Found(items, s) ==
    LET deduped == Deduped(items) IN
    At(deduped, {i \in DOMAIN deduped : MatchesSearch(deduped[i], s)})

\* A wrong Results: cut before the sort.
CutFirst(items, s) ==
    LET found == Found(items, s)
    IN  SearchSorted(SubSeq(found, 1, Min({Limit, Len(found)})), s.sort)

Results(items, s) ==
    LET sorted == SearchSorted(Found(items, s), s.sort)
    IN  SubSeq(sorted, 1, Min({Limit, Len(sorted)}))

=============================================================================
