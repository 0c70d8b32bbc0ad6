----------------------------- MODULE MCBrowsing -----------------------------
(* Browsing with three notices, the first in two versions, and one sample.  *)
EXTENDS Browsing, TLC

CONSTANTS r1, r2, word

a0 == [no |-> 1, seq |-> 0]
a1 == [no |-> 1, seq |-> 1]
b0 == [no |-> 2, seq |-> 0]
c0 == [no |-> 3, seq |-> 0]
s0 == [no |-> 9, seq |-> 0]

MCRequests   == {r1, r2}
MCBids       == {a0, a1, b0, c0, s0}
MCSampleBids == {s0}
MCTexts      == {word, 1, 2, 7}
MCNumberLike == {1, 2, 7}
MCOperations == <<"Servc", "Thng">>

\* b0 has no closing time, and two bids share the others' values.
Values(x0, x1, y, z, s) ==
    [b \in MCBids |-> CASE b = a0 -> x0 [] b = a1 -> x1 [] b = b0 -> y
                        [] b = c0 -> z [] b = s0 -> s]
MCColumn ==
    [c \in Columns |-> IF c = "opened_at" THEN Values(0, 2, 1, 0, 0)
                       ELSE Values(1, 2, 0, 2, 1)]

\* The title of c0 names the first notice, and one that there is not.
MCMentions ==
    [f \in Fields |->
        [t \in MCTexts |-> CASE t = word -> {a0, b0, c0}
                             [] t = 1    -> {a0, a1, c0}
                             [] t = 2    -> {b0}
                             [] t = 7    -> {c0}]]

Versions == [NoFilter EXCEPT !.versions = TRUE]
Archived == [NoFilter EXCEPT !.status = "archived"]
MCFilters ==
    {NoFilter, Versions, Archived, [NoFilter EXCEPT !.query = 1],
     [SortedAs(NoFilter, "closed_at_asc") EXCEPT !.query = word],
     [SortedAs(NoFilter, "closed_at_desc") EXCEPT !.to["closed_at"] = 2]}

Asks(kind, b, value, f, page) ==
    [kind |-> kind, bid |-> b, value |-> value, filter |-> f, page |-> page]
MCAsked ==
    {Asks("tableToggle", a0, Empty, [NoFilter EXCEPT !.favorites = TRUE], 2),
     Asks("tableToggle", b0, Empty, Versions, 2),
     Asks("drawerToggle", a0, Empty, NoFilter, 1),
     Asks("apiFavorite", a1, "on", NoFilter, 1),
     Asks("tableStatus", a0, "archived", Versions, 2),
     Asks("drawerStatus", a1, "archived", NoFilter, 1),
     Asks("apiStatus", s0, "archived", NoFilter, 1),
     Asks("save", a1, Empty, NoFilter, 1)}

Finds(query, from, sort) ==
    [query |-> query, org |-> Empty, from |-> from, to |-> 0, sort |-> sort]
MCSearches ==
    {Finds(Empty, 0, "updated_at"), Finds(1, 0, "closed_at_desc"),
     Finds(7, 0, "title"), Finds(word, 1, "closed_at_asc")}

\* The second knows a0 and b0 by a newer change: without a closing time any
\* more, and with one at last.
Reports(b, changed, closed) == [bid |-> b, changed |-> changed, closed |-> closed]
MCResponses ==
    {<<>>, <<Reports(b0, 0, 0), Reports(a0, 1, 1), Reports(a1, 2, 2)>>,
     <<Reports(c0, 1, 2), Reports(a0, 2, 0), Reports(b0, 1, 1)>>}

Here(changed, favorite) ==
    [changed |-> changed, status |-> "collected", favorite |-> favorite]
MCTables ==
    {[b \in MCBids |-> IF b \in {a0, b0, c0} THEN Here(1, b = a0) ELSE Absent],
     [b \in MCBids |-> IF b = s0 THEN Absent ELSE Here(b.seq, b = c0)],
     [b \in MCBids |-> Absent]}
MCSynced == {a0, a1}

RequestSymmetry == Permutations(MCRequests)
=============================================================================
