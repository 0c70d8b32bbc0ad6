---------------------------- MODULE Reading_proofs ----------------------------
(***************************************************************************)
(* Proofs about Browsing, from what BidListing_proofs and LiveSearch_proofs *)
(* say of a list and of a search: the types, what a reader has read, what  *)
(* the tables, the favorites page and the searches show, for any number of *)
(* bids, versions, requests and syncs, any filters and any size of a page. *)
(***************************************************************************)
EXTENDS Browsing_proofs

-----------------------------------------------------------------------------
(* The inductive invariant.                                                *)

\* The beginning of a list, to the end of a page.
Upto(list, page) ==
    LET next == Before(page + 1)
    IN  SubSeq(list, 1, IF next <= Len(list) THEN next ELSE Len(list))

\* What a reader has read of a list that no write has changed: its beginning, to
\* the end of a page that there is.
Walked ==
    (reader.at = "list" /\ reader.clean) =>
        LET list == WholeList(table, samples, reader.filter) IN
        /\ reader.page \in 1 .. TotalPages(Len(list))
        /\ reader.more <=> reader.page < TotalPages(Len(list))
        /\ reader.got = Upto(list, reader.page)

ReaderTyped ==
    \/ reader = Idle
    \/ reader.at = "list" /\ reader \in Walk
    \/ reader.at # "list" /\ reader \in Finding

\* The bids and the reader.
ListsOK ==
    /\ table \in AnyTable /\ samples \in AnyTable
    /\ \A b \in SampleBids : samples[b] # Absent
    /\ ReaderTyped /\ Walked

\* The requests and their answers.
RequestsOK ==
    /\ req \in [Requests -> Asked]
    /\ pc \in [Requests -> {"new", "write", "answer", "done", "failed"}]
    /\ flag \in [Requests -> BOOLEAN]
    /\ loop \in Requests \cup {Nobody}
    /\ DOMAIN answer = Requests
    /\ \A r \in Requests : answer[r].page \in 1 .. TotalPages(answer[r].total)
    /\ TablesShowTheirPage
    /\ syncs \in 0 .. MaxSyncs

\* What a request has found to write to stays there.
Ready == \A r \in Requests : pc[r] = "write" => Known(req[r].bid)

RInv == ListsOK /\ RequestsOK /\ Ready

LEMMA RInvTypes == RInv => TypeOK
BY DEF RInv, ListsOK, RequestsOK, ReaderTyped, TypeOK, AnyTable

-----------------------------------------------------------------------------
(* What holds in every state that has its types.                           *)

LEMMA TypesOfTables ==
    ASSUME TypeOK
    PROVE  table \in AnyTable /\ samples \in AnyTable
BY DEF TypeOK, AnyTable

LEMMA NoFilterIsFilter ==
    /\ NoFilter \in Filter
    /\ [NoFilter EXCEPT !.favorites = TRUE, !.status = Empty] \in Filter
BY DEF NoFilter, Filter, Columns, Ranges

LEMMA EmptyIsNoNumber == \A b \in Bids : b.no # Empty
BY SettingAssumption

\* All that are stored, and what is archived.
LEMMA NoFilterFacts ==
    ASSUME TypeOK
    PROVE  /\ Selects(NoFilter) /\ NoFilter.order # "asc" /\ NoFilter.sort = "updated_at"
           /\ Wanted(table, NoFilter) = Stored(table)
<1>1. Selects(NoFilter)
  BY EmptyIsNoNumber DEF Selects, NoFilter
<1>2. \A b : MatchesTexts(b, NoFilter) /\ MatchesRow(table[b], NoFilter)
  BY DEF MatchesTexts, MatchesRow, NoFilter
<1>3. \A b : \A c \in Ranges : InRange(Column[c][b], NoFilter.from[c], NoFilter.to[c])
  BY DEF InRange, NoFilter
<1>4. Wanted(table, NoFilter) = Stored(table)
  BY <1>2, <1>3 DEF Wanted
<1>5. QED  BY <1>1, <1>4 DEF NoFilter

LEMMA NewsFirst ==
    ASSUME TypeOK
    PROVE  NewsComeFirst
<1> DEFINE list == DatabaseList(table, NoFilter)
           VersionsOf(no) == {b \in Stored(table) : b.no = no}
<1> SUFFICES /\ \A i, j \in DOMAIN list : i < j =>
                   \E a \in VersionsOf(list[i].no) : \A b \in VersionsOf(list[j].no) :
                       table[a].changed >= table[b].changed
             /\ \A i \in DOMAIN list : \A b \in VersionsOf(list[i].no) :
                   table[b].status # "archived" =>
                       table[b].changed <= table[list[i]].changed
  BY DEF NewsComeFirst
<1>1. /\ list \in Seq(Bids)
      /\ \A k \in 1 .. Len(list) : list[k] \in Stored(table)
      /\ \A k \in 1 .. Len(list) : \A b \in Stored(table) :
            (b.no = list[k].no /\ ~NonEffective(table, b))
            => b = list[k] \/ KeyBefore(table, b, list[k], NoFilter)
      /\ \A k, l \in 1 .. Len(list) : k < l =>
            \E a \in Stored(table) :
               /\ a.no = list[k].no
               /\ \A b \in Stored(table) :
                     b.no = list[l].no => KeyBefore(table, b, a, NoFilter)
  BY TypesOfTables, NoFilterIsFilter, NoFilterFacts, SelectedFacts
<1>2. DOMAIN list = 1 .. Len(list)
  BY <1>1
<1> HIDE DEF list
<1>3. \A b \in Stored(table) : table[b].changed \in Nat
  BY TypesOfTables, StoredFacts DEF Row
<1>4. \A a, b \in Stored(table) :
         KeyBefore(table, b, a, NoFilter) => table[b].changed <= table[a].changed
  BY <1>3 DEF KeyBefore, SortKey, NoFilter
<1>5. ASSUME NEW i \in DOMAIN list, NEW j \in DOMAIN list, i < j
      PROVE  \E a \in VersionsOf(list[i].no) : \A b \in VersionsOf(list[j].no) :
                table[a].changed >= table[b].changed
  <2>1. PICK a \in Stored(table) :
            /\ a.no = list[i].no
            /\ \A b \in Stored(table) :
                  b.no = list[j].no => KeyBefore(table, b, a, NoFilter)
    BY <1>1, <1>2, <1>5
  <2>2. \A b \in VersionsOf(list[j].no) : table[a].changed >= table[b].changed
    BY <1>3, <1>4, <2>1
  <2>3. QED  BY <2>1, <2>2
<1>6. ASSUME NEW i \in DOMAIN list, NEW b \in VersionsOf(list[i].no),
             table[b].status # "archived"
      PROVE  table[b].changed <= table[list[i]].changed
  <2>1. b = list[i] \/ KeyBefore(table, b, list[i], NoFilter)
    BY <1>1, <1>2, <1>6 DEF NonEffective
  <2>2. list[i] \in Stored(table) /\ b \in Stored(table)
    BY <1>1, <1>2
  <2>3. QED  BY <1>3, <1>4, <2>1, <2>2
<1>7. QED  BY <1>5, <1>6

LEMMA FavoritesShown ==
    ASSUME TypeOK
    PROVE  FavoritesAreListed
<1> DEFINE f       == [NoFilter EXCEPT !.favorites = TRUE, !.status = Empty]
           favored == {b \in Stored(table) : table[b].favorite}
           page    == FavoritesPage(table, samples, Empty)
           list    == DatabaseList(table, f)
           numbers == {b.no : b \in favored}
<1> SUFFICES ASSUME Backend # "sample", favored # {}
             PROVE  /\ {page[i].no : i \in DOMAIN page} = numbers
                    /\ Len(page) = Cardinality(numbers)
                    /\ \A i \in DOMAIN page : page[i] \in favored
  BY DEF FavoritesAreListed
<1>1. f \in Filter /\ Selects(f)
  BY NoFilterIsFilter, EmptyIsNoNumber DEF Selects, NoFilter
<1>2. Wanted(table, f) = favored
  <2>1. \A b : MatchesTexts(b, f)
    BY DEF MatchesTexts, NoFilter
  <2>2. \A b : MatchesRow(table[b], f) <=> table[b].favorite
    BY DEF MatchesRow, NoFilter
  <2>3. \A b : \A c \in Ranges : InRange(Column[c][b], f.from[c], f.to[c])
    BY DEF InRange, NoFilter
  <2>4. QED  BY <2>1, <2>2, <2>3 DEF Wanted
<1>3. page = WholeList(table, samples, f)
  BY DEF FavoritesPage
<1> HIDE DEF f
<1>4. ListStatement(table, f) # <<>>
  <2>1. PICK b : b \in Wanted(table, f)
    BY <1>2
  <2>2. \E i \in 1 .. Len(ListStatement(table, f)) : ListStatement(table, f)[i] = b
    BY <1>1, <2>1, TypesOfTables, ListStatementFacts
  <2>3. Len(ListStatement(table, f)) # 0
    BY <2>2
  <2>4. QED  BY <2>3, EmptySeq
<1>5. page = list
  BY <1>1, <1>3, <1>4, TypesOfTables, WholeListFacts
<1>6. /\ list \in Seq(Bids)
      /\ \A k \in 1 .. Len(list) : list[k] \in favored
      /\ \A b \in favored : \E k \in 1 .. Len(list) : list[k].no = b.no
      /\ \A k, l \in 1 .. Len(list) : list[k].no = list[l].no => k = l
  BY <1>1, <1>2, TypesOfTables, SelectedFacts
<1> HIDE DEF list, page, favored
<1>7. Len(list) \in Nat /\ DOMAIN list = 1 .. Len(list)
  BY <1>6
<1>8. {list[i].no : i \in DOMAIN list} = numbers
  BY <1>6, <1>7
<1>9. Len(list) = Cardinality(numbers)
  <2> DEFINE g == [i \in 1 .. Len(list) |-> list[i].no]
  <2>1. g \in Injection(1 .. Len(list), numbers)
    BY <1>6 DEF Injection, IsInjective
  <2>2. g \in Surjection(1 .. Len(list), numbers)
    BY <1>6 DEF Surjection
  <2>3. IsFiniteSet(1 .. Len(list)) /\ Cardinality(1 .. Len(list)) = Len(list)
    BY <1>7, IntervalFacts
  <2> HIDE DEF g, numbers
  <2>4. Cardinality(numbers) = Cardinality(1 .. Len(list))
    BY <2>1, <2>2, <2>3, FS_Surjection
  <2>5. QED  BY <2>3, <2>4
<1>10. /\ {list[i].no : i \in DOMAIN list} = numbers
       /\ Len(list) = Cardinality(numbers)
       /\ \A i \in DOMAIN list : list[i] \in favored
  BY <1>6, <1>7, <1>8, <1>9
<1> HIDE DEF numbers
<1>11. QED  BY <1>5, <1>10, Zenon

LEMMA WalkTypes ==
    ASSUME TypeOK, reader.at = "list"
    PROVE  reader \in Walk /\ reader.filter \in Filter
<1>1. reader \in Walk
  BY DEF TypeOK, Idle
<1>2. QED  BY <1>1 DEF Walk

\* What the reader reads to the end of is the list, of which SelectedFacts speaks.
LEMMA NoticesRead ==
    ASSUME TypeOK, PagesMakeTheExport
    PROVE  NoticesAreListedOnce
<1> DEFINE f    == reader.filter
           got  == reader.got
           list == DatabaseList(table, f)
           stmt == ListStatement(table, f)
           hits == ToSet(stmt)
<1> SUFFICES ASSUME Done(reader), f.query \notin {b.no : b \in Bids}, ~f.versions,
                    stmt # <<>>, Backend # "sample"
             PROVE  /\ {got[i].no : i \in DOMAIN got} = {b.no : b \in hits}
                    /\ \A i, j \in DOMAIN got : got[i].no = got[j].no => i = j
                    /\ \A i \in DOMAIN got : \A b \in hits :
                          (b.no = got[i].no /\ table[got[i]].status = "archived")
                          => table[b].status = "archived"
  BY DEF NoticesAreListedOnce
<1>1. f \in Filter /\ Selects(f)
  BY WalkTypes DEF Done, Selects
<1>2. got = WholeList(table, samples, f)
  BY DEF PagesMakeTheExport
<1> HIDE DEF f, got
<1>3. got = list
  BY <1>1, <1>2, TypesOfTables, WholeListFacts
<1>4. /\ DOMAIN stmt = 1 .. Len(stmt)
      /\ \A i \in 1 .. Len(stmt) : stmt[i] \in Wanted(table, f)
      /\ \A b \in Wanted(table, f) : \E i \in 1 .. Len(stmt) : stmt[i] = b
  BY <1>1, TypesOfTables, ListStatementFacts
<1> HIDE DEF stmt
<1>5. \A b : b \in hits <=> b \in Wanted(table, f)
  BY <1>4 DEF ToSet
<1>6. /\ list \in Seq(Bids)
      /\ \A k \in 1 .. Len(list) : list[k] \in Wanted(table, f)
      /\ \A b \in Wanted(table, f) : \E k \in 1 .. Len(list) : list[k].no = b.no
      /\ \A k, l \in 1 .. Len(list) : list[k].no = list[l].no => k = l
      /\ \A k \in 1 .. Len(list) : \A b \in Wanted(table, f) :
            (b.no = list[k].no /\ ~NonEffective(table, b))
            => ~NonEffective(table, list[k])
  BY <1>1, TypesOfTables, SelectedFacts
<1> HIDE DEF list, hits
<1>7. DOMAIN list = 1 .. Len(list)
  BY <1>6
<1>8. {list[i].no : i \in DOMAIN list} = {b.no : b \in hits}
  <2>1. \A i \in DOMAIN list : list[i] \in hits
    BY <1>5, <1>6, <1>7
  <2>2. \A b \in hits : \E i \in DOMAIN list : list[i].no = b.no
    BY <1>5, <1>6, <1>7
  <2>3. QED  BY <2>1, <2>2
<1>9. \A i \in DOMAIN list : \A b \in hits :
         (b.no = list[i].no /\ table[list[i]].status = "archived")
         => table[b].status = "archived"
  BY <1>5, <1>6, <1>7 DEF NonEffective
<1>10. \A i, j \in DOMAIN list : list[i].no = list[j].no => i = j
  BY <1>6, <1>7
<1>11. QED  BY <1>3, <1>8, <1>9, <1>10, Zenon

-----------------------------------------------------------------------------
(* Searches.                                                               *)

LEMMA FoundTypes ==
    ASSUME TypeOK, reader.at = "found"
    PROVE  reader.items \in Seq(Item)
BY DEF TypeOK, Finding, Idle

LEMMA NewestShown ==
    ASSUME TypeOK
    PROVE  SearchShowsNewest
<1> DEFINE s      == reader.search
           items  == reader.items
           found  == Found(items, s)
           sorted == SearchSorted(found, s.sort)
           shown  == Results(items, s)
           Newest(i) ==
               \A j \in DOMAIN items : items[j].bid = items[i].bid =>
                   \/ items[j].changed < items[i].changed
                   \/ items[j].changed = items[i].changed /\ j <= i
<1> SUFFICES ASSUME reader.at = "found"
             PROVE  /\ \A k, l \in DOMAIN shown : shown[k].bid = shown[l].bid => k = l
                    /\ \A k \in DOMAIN shown :
                          /\ MatchesSearch(shown[k], s)
                          /\ \E i \in DOMAIN items : Newest(i) /\ items[i] = shown[k]
                    /\ \A i \in DOMAIN items :
                          (/\ Newest(i) /\ MatchesSearch(items[i], s)
                           /\ \A k \in DOMAIN shown : shown[k].bid # items[i].bid)
                          => Len(shown) = Limit
  BY DEF SearchShowsNewest
<1>1. items \in Seq(Item)
  BY FoundTypes
<1> HIDE DEF items, s
<1>2. DOMAIN items = 1 .. Len(items)
  BY <1>1
<1>3. \A i : IsNewest(items, i) <=> Newest(i)
  BY DEF IsNewest
<1>4. /\ found \in Seq(Item)
      /\ \A k \in 1 .. Len(found) :
            /\ MatchesSearch(found[k], s)
            /\ \E i \in 1 .. Len(items) : found[k] = items[i] /\ IsNewest(items, i)
      /\ \A i \in 1 .. Len(items) :
            MatchesSearch(NewestOf(items, items[i].bid), s)
            => \E k \in 1 .. Len(found) : found[k] = NewestOf(items, items[i].bid)
      /\ \A k, l \in 1 .. Len(found) : found[k].bid = found[l].bid => k = l
  BY <1>1, FoundFacts
<1>5. /\ DOMAIN shown = 1 .. Len(shown)
      /\ Len(shown) = IF Limit <= Len(sorted) THEN Limit ELSE Len(sorted)
      /\ \A k \in 1 .. Len(shown) : k \in 1 .. Len(sorted) /\ shown[k] = sorted[k]
  BY <1>1, ResultsFacts
<1> HIDE DEF found, shown, Newest
<1>6. /\ Len(sorted) = Len(found)
      /\ \A k \in 1 .. Len(found) : \E i \in 1 .. Len(found) : sorted[k] = found[i]
      /\ \A i \in 1 .. Len(found) : \E k \in 1 .. Len(found) : sorted[k] = found[i]
      /\ \A k, l \in 1 .. Len(found) : sorted[k].bid = sorted[l].bid => k = l
  <2>1. found \in Seq(Item) /\ \A i, j \in 1 .. Len(found) :
                                   found[i].bid = found[j].bid => i = j
    BY <1>4
  <2>2. QED  BY <2>1, SearchSortedFacts, Zenon
<1> HIDE DEF sorted
<1>7. \A k, l \in DOMAIN shown : shown[k].bid = shown[l].bid => k = l
  <2> TAKE k, l \in DOMAIN shown
  <2>1. /\ k \in 1 .. Len(found) /\ l \in 1 .. Len(found)
        /\ shown[k] = sorted[k] /\ shown[l] = sorted[l]
    BY <1>5, <1>6
  <2>2. QED  BY <1>6, <2>1
<1>8. ASSUME NEW k \in DOMAIN shown
      PROVE  /\ MatchesSearch(shown[k], s)
             /\ \E i \in DOMAIN items : Newest(i) /\ items[i] = shown[k]
  <2>1. k \in 1 .. Len(found) /\ shown[k] = sorted[k]
    BY <1>5, <1>6
  <2>2. PICK j \in 1 .. Len(found) : sorted[k] = found[j]
    BY <1>6, <2>1
  <2>3. MatchesSearch(found[j], s)
    BY <1>4
  <2>4. PICK i \in 1 .. Len(items) : found[j] = items[i] /\ IsNewest(items, i)
    BY <1>4
  <2>5. QED  BY <1>2, <1>3, <2>1, <2>2, <2>3, <2>4
<1>9. ASSUME NEW i \in DOMAIN items, Newest(i), MatchesSearch(items[i], s),
             \A k \in DOMAIN shown : shown[k].bid # items[i].bid
      PROVE  Len(shown) = Limit
  <2>1. PlacesOf(items, items[i].bid) # {}
    BY DEF PlacesOf
  <2>2. PICK n \in 1 .. Len(items) :
            /\ items[n] = NewestOf(items, items[i].bid) /\ items[n].bid = items[i].bid
            /\ IsNewest(items, n)
    BY <1>1, <2>1, NewestOfFacts
  <2>3. MatchesSearch(NewestOf(items, items[i].bid), s)
    <3>1. \/ items[n].changed < items[i].changed
          \/ items[n].changed = items[i].changed /\ n <= i
      BY <1>2, <1>9, <2>2 DEF Newest
    <3>2. \/ items[i].changed < items[n].changed
          \/ items[i].changed = items[n].changed /\ i <= n
      BY <1>2, <2>2 DEF IsNewest
    <3>3. items[n].changed \in Nat /\ items[i].changed \in Nat /\ i \in Nat /\ n \in Nat
      BY <1>1, <1>2, ItemsFacts
    <3>4. i = n
      BY <3>1, <3>2, <3>3
    <3>5. QED  BY <1>9, <2>2, <3>4
  <2>4. PICK m \in 1 .. Len(found) : found[m] = NewestOf(items, items[i].bid)
    BY <1>2, <1>4, <2>3
  <2>5. PICK k \in 1 .. Len(found) : sorted[k] = found[m]
    BY <1>6
  <2>6. sorted[k].bid = items[i].bid
    BY <2>2, <2>4, <2>5
  <2>7. k \notin 1 .. Len(shown)
    BY <1>5, <1>9, <2>6
  <2>8. Len(shown) # Len(sorted)
    BY <1>6, <2>7
  <2>9. QED  BY <1>5, <2>8
<1>10. QED  BY <1>7, <1>8, <1>9

LEMMA BestKept ==
    ASSUME TypeOK
    PROVE  SearchKeepsBest
<1> DEFINE s      == reader.search
           items  == reader.items
           found  == Found(items, s)
           sorted == SearchSorted(found, s.sort)
           shown  == Results(items, s)
           Key(x, e) == SearchKey(x, s.sort, e)
<1> SUFFICES ASSUME reader.at = "found", NEW b \in Bids,
                    PlacesOf(items, b) # {}, MatchesSearch(NewestOf(items, b), s),
                    \A k \in DOMAIN shown : shown[k].bid # b,
                    NEW k \in DOMAIN shown
             PROVE  IF Ascending(s.sort)
                    THEN Key(shown[k], EndOf(items)) <= Key(NewestOf(items, b), EndOf(items))
                    ELSE Key(shown[k], EndOf(items)) >= Key(NewestOf(items, b), EndOf(items))
  BY DEF SearchKeepsBest
<1>1. items \in Seq(Item)
  BY FoundTypes
<1> HIDE DEF items, s
<1>2. /\ found \in Seq(Item)
      /\ \A n \in 1 .. Len(found) : \E i \in 1 .. Len(items) : found[n] = items[i]
      /\ \A i \in 1 .. Len(items) :
            MatchesSearch(NewestOf(items, items[i].bid), s)
            => \E n \in 1 .. Len(found) : found[n] = NewestOf(items, items[i].bid)
  BY <1>1, FoundFacts
<1>3. /\ DOMAIN shown = 1 .. Len(shown)
      /\ Len(shown) = IF Limit <= Len(sorted) THEN Limit ELSE Len(sorted)
      /\ \A n \in 1 .. Len(shown) : n \in 1 .. Len(sorted) /\ shown[n] = sorted[n]
  BY <1>1, ResultsFacts
<1> HIDE DEF found, shown
<1>4. /\ Len(sorted) = Len(found) /\ Len(sorted) \in Nat
      /\ \A n \in 1 .. Len(found) : \E i \in 1 .. Len(found) : sorted[n] = found[i]
      /\ \A i \in 1 .. Len(found) : \E n \in 1 .. Len(found) : sorted[n] = found[i]
      /\ \A n, m \in 1 .. Len(found) :
            n < m => IF Ascending(s.sort)
                     THEN Key(sorted[n], EndOf(found)) <= Key(sorted[m], EndOf(found))
                     ELSE Key(sorted[m], EndOf(found)) <= Key(sorted[n], EndOf(found))
  <2>1. /\ Len(sorted) = Len(found)
        /\ \A n \in 1 .. Len(found) : \E i \in 1 .. Len(found) : sorted[n] = found[i]
        /\ \A i \in 1 .. Len(found) : \E n \in 1 .. Len(found) : sorted[n] = found[i]
    BY <1>2, SearchSortedFacts
  <2>2. \A n, m \in 1 .. Len(found) :
            n < m => IF Ascending(s.sort)
                     THEN Key(sorted[n], EndOf(found)) <= Key(sorted[m], EndOf(found))
                     ELSE Key(sorted[m], EndOf(found)) <= Key(sorted[n], EndOf(found))
    <3>1. found \in Seq(Item)
      BY <1>2
    <3>2. QED  BY <3>1, SearchSortedFacts, Zenon
  <2>3. Len(found) \in Nat
    BY <1>2
  <2> HIDE DEF sorted, Key
  <2>4. QED  BY <2>1, <2>2, <2>3
<1> HIDE DEF sorted
<1>5. PICK l \in 1 .. Len(found) : sorted[l] = NewestOf(items, b) /\ sorted[l].bid = b
  <2>1. PICK i \in 1 .. Len(items) : items[i] = NewestOf(items, b) /\ items[i].bid = b
    BY <1>1, NewestOfFacts
  <2>2. PICK n \in 1 .. Len(found) : found[n] = NewestOf(items, b)
    BY <1>2, <2>1
  <2>3. PICK m \in 1 .. Len(found) : sorted[m] = found[n]
    BY <1>4
  <2>4. sorted[m] = NewestOf(items, b) /\ sorted[m].bid = b
    BY <2>1, <2>2, <2>3, Zenon
  <2>5. QED  BY <1>4, <2>4
<1>6. k \in 1 .. Len(found) /\ shown[k] = sorted[k] /\ k < l
  <2>1. l \notin 1 .. Len(shown)
    BY <1>3, <1>5
  <2>2. Len(shown) \in Nat /\ k \in 1 .. Len(shown)
    BY <1>3, <1>4, SearchAssumption
  <2>3. k < l
    BY <1>4, <2>1, <2>2
  <2>4. k \in 1 .. Len(found) /\ shown[k] = sorted[k]
    BY <1>3, <1>4, <2>2
  <2>5. QED  BY <2>3, <2>4
<1>7. \A n \in 1 .. Len(found) :
         /\ sorted[n] \in Item
         /\ sorted[n].closed < EndOf(found) /\ sorted[n].closed < EndOf(items)
  <2> TAKE n \in 1 .. Len(found)
  <2>1. PICK m \in 1 .. Len(found) : sorted[n] = found[m]
    BY <1>4
  <2>2. PICK i \in 1 .. Len(items) : found[m] = items[i]
    BY <1>2
  <2>3. found[m].closed < EndOf(found) /\ items[i].closed < EndOf(items)
    BY <1>1, <1>2, EndOfFacts
  <2>4. found[m] \in Item
    BY <1>2
  <2>5. QED  BY <2>1, <2>2, <2>3, <2>4
<1>8. \A n, m \in 1 .. Len(found) :
         Key(sorted[n], EndOf(found)) <= Key(sorted[m], EndOf(found))
         <=> Key(sorted[n], EndOf(items)) <= Key(sorted[m], EndOf(items))
  <2> TAKE n, m \in 1 .. Len(found)
  <2>1. EndOf(found) \in Nat /\ EndOf(items) \in Nat
    BY <1>1, <1>2, EndOfFacts
  <2>2. QED  BY <1>7, <2>1, AnyEndWillDo
<1>9. IF Ascending(s.sort)
      THEN Key(sorted[k], EndOf(items)) <= Key(sorted[l], EndOf(items))
      ELSE Key(sorted[l], EndOf(items)) <= Key(sorted[k], EndOf(items))
  BY <1>4, <1>5, <1>6, <1>8
<1>10. Key(sorted[k], EndOf(items)) \in Nat /\ Key(sorted[l], EndOf(items)) \in Nat
  BY <1>1, <1>5, <1>6, <1>7, EndOfFacts, SearchKeyIsNat
<1> HIDE DEF Key
<1>11. QED  BY <1>5, <1>6, <1>9, <1>10

-----------------------------------------------------------------------------
(* Pages one after the other.                                              *)

LEMMA FirstPageRead ==
    ASSUME NEW list \in Seq(Bids)
    PROVE  1 \in 1 .. TotalPages(Len(list)) /\ PageOf(list, 1) = Upto(list, 1)
<1>1. Len(list) \in Nat /\ PageSize \in Nat \ {0}
  BY SettingAssumption
<1>2. Before(1) = 0 /\ Before(1 + 1) = PageSize
  BY <1>1 DEF Before
<1>3. TotalPages(Len(list)) \in Nat \ {0}
  BY <1>1, TotalPagesFacts
<1> DEFINE last == IF PageSize <= Len(list) THEN PageSize ELSE Len(list)
           cut  == IF Before(1) + PageSize <= Len(list) THEN Before(1) + PageSize
                                                        ELSE Len(list)
<1>4. cut = last /\ Before(1) + 1 = 1
  BY <1>1, <1>2
<1>5. PageOf(list, 1) = SubSeq(list, Before(1) + 1, cut)
  BY PageOfFacts
<1>6. Upto(list, 1) = SubSeq(list, 1, last)
  BY <1>2 DEF Upto
<1>7. 1 \in 1 .. TotalPages(Len(list))
  BY <1>3
<1> HIDE DEF cut, last
<1>8. PageOf(list, 1) = Upto(list, 1)
  BY <1>4, <1>5, <1>6, Zenon
<1>9. QED  BY <1>7, <1>8, Zenon

LEMMA NextPageRead ==
    ASSUME NEW list \in Seq(Bids), NEW page \in Nat \ {0},
           page < TotalPages(Len(list))
    PROVE  /\ page + 1 \in 1 .. TotalPages(Len(list))
           /\ Upto(list, page) \o PageOf(list, page + 1) = Upto(list, page + 1)
<1> DEFINE n == Len(list)
           k == Before(page + 1)
           m == IF k + PageSize <= n THEN k + PageSize ELSE n
<1>1. n \in Nat /\ PageSize \in Nat \ {0} /\ page + 1 \in Nat \ {0}
      /\ page + 1 + 1 \in Nat \ {0}
  BY SettingAssumption
<1>2. k \in Nat /\ Before(page + 1 + 1) = k + PageSize
  <2>1. Before(page + 1) \in Nat
    BY <1>1, BeforeFacts
  <2>2. (page + 1) * PageSize = Before(page + 1) + PageSize
    BY <1>1, BeforeFacts
  <2>3. Before(page + 1 + 1) = (page + 1) * PageSize
    <3>1. page + 1 + 1 - 1 = page + 1
      OBVIOUS
    <3>2. QED  BY <3>1 DEF Before
  <2>4. QED  BY <2>1, <2>2, <2>3
<1>3. TotalPages(n) \in Nat \ {0} /\ page + 1 <= TotalPages(n)
  BY <1>1, TotalPagesFacts
<1>4. k < n
  <2>1. page + 1 # 1
    OBVIOUS
  <2>2. QED  BY <1>1, <1>3, <2>1, TotalPagesFacts
<1> HIDE DEF k
<1>5. m \in k .. n
  BY <1>1, <1>2, <1>4
<1>6. Upto(list, page) = SubSeq(list, 1, k)
  BY <1>4, <1>1, <1>2 DEF Upto, k
<1>7. PageOf(list, page + 1) = SubSeq(list, k + 1, m)
  BY <1>1, PageOfFacts DEF k
<1>8. Upto(list, page + 1) = SubSeq(list, 1, m)
  BY <1>2 DEF Upto
<1> HIDE DEF m
<1>9. SubSeq(list, 1, k) \o SubSeq(list, k + 1, m) = SubSeq(list, 1, m)
  <2>1. 1 \in 1 .. Len(list) + 1 /\ k \in 1 - 1 .. Len(list) /\ m \in k .. Len(list)
    BY <1>1, <1>2, <1>4, <1>5
  <2>2. QED  BY <2>1, ConcatAdjacentSubSeq
<1>10. Upto(list, page) \o PageOf(list, page + 1) = Upto(list, page + 1)
  BY <1>6, <1>7, <1>8, <1>9
<1>11. page + 1 \in 1 .. TotalPages(n)
  <2> HIDE DEF n
  <2>1. QED  BY <1>3
<1>12. QED  BY <1>10, <1>11

LEMMA LastPageRead ==
    ASSUME NEW list \in Seq(Bids), NEW page \in 1 .. TotalPages(Len(list)),
           ~(page < TotalPages(Len(list)))
    PROVE  Upto(list, page) = list
<1>1. Len(list) \in Nat
  OBVIOUS
<1>2. TotalPages(Len(list)) \in Nat \ {0} /\ page + 1 \in Nat \ {0} /\ page + 1 # 1
  BY <1>1, TotalPagesFacts
<1>3. ~(page + 1 <= TotalPages(Len(list)))
  BY <1>2
<1>4. ~(Before(page + 1) < Len(list)) /\ Before(page + 1) \in Nat
  BY <1>1, <1>2, <1>3, TotalPagesFacts, BeforeFacts
<1>5. Upto(list, page) = SubSeq(list, 1, Len(list))
  BY <1>1, <1>4 DEF Upto
<1>6. QED  BY <1>5, SubSeqFull

LEMMA UptoIsSeq ==
    ASSUME NEW list \in Seq(Bids), NEW page \in Nat
    PROVE  Upto(list, page) \in Seq(Bids)
<1> DEFINE n == IF Before(page + 1) <= Len(list) THEN Before(page + 1) ELSE Len(list)
<1>1. page + 1 \in Nat \ {0} /\ Len(list) \in Nat
  OBVIOUS
<1>2. n \in Nat /\ n <= Len(list)
  BY <1>1, BeforeFacts
<1>3. Upto(list, page) = SubSeq(list, 1, n)
  BY DEF Upto
<1> HIDE DEF n
<1>4. QED  BY <1>2, <1>3, FirstOfSeq

\* The page that is marked is the one that was asked for, if there is such a page.
LEMMA CurrentPageFacts ==
    ASSUME NEW page \in Nat \ {0}, NEW total \in Nat
    PROVE  /\ CurrentPage(page, total) \in 1 .. TotalPages(total)
           /\ page <= TotalPages(total) => CurrentPage(page, total) = page
<1>1. TotalPages(total) \in Nat \ {0}
  BY TotalPagesFacts
<1>2. Max({page, 1}) = page
  BY MaxOfTwo
<1>3. Min({page, TotalPages(total)})
          = IF page <= TotalPages(total) THEN page ELSE TotalPages(total)
  BY <1>1, MinOfTwo
<1>4. QED  BY <1>1, <1>2, <1>3 DEF CurrentPage

-----------------------------------------------------------------------------
(* Writes.                                                                 *)

LEMMA ListsTyped ==
    ASSUME ListsOK, reader.at = "list"
    PROVE  /\ reader \in Walk /\ reader.filter \in Filter /\ reader.page \in Nat
           /\ reader.got \in Seq(Bids) /\ reader.clean \in BOOLEAN
<1>1. reader \in Walk
  BY DEF ListsOK, ReaderTyped, Idle
<1>2. QED  BY <1>1 DEF Walk

LEMMA StoreKeeps ==
    ASSUME ListsOK, NEW t \in AnyTable, NEW s \in AnyTable, Store(t, s),
           \A b \in SampleBids : s[b] # Absent
    PROVE  ListsOK'
<1>1. table' = t /\ samples' = s
  BY DEF Store
<1>2. CASE /\ reader.at = "list"
           /\ WholeList(table, samples, reader.filter) # WholeList(t, s, reader.filter)
  <2>1. reader' = [reader EXCEPT !.clean = FALSE, !.got = <<>>]
    BY <1>2 DEF Store
  <2>2. reader \in Walk /\ <<>> \in Seq(Bids)
    BY <1>2, ListsTyped, EmptySeq
  <2>3. reader' \in Walk /\ reader'.at = "list" /\ ~reader'.clean
    BY <2>1, <2>2 DEF Walk
  <2>4. QED  BY <1>1, <2>3 DEF ListsOK, ReaderTyped, Walked
<1>3. CASE reader.at = "list"
           => WholeList(table, samples, reader.filter) = WholeList(t, s, reader.filter)
  <2>1. reader' = reader
    BY <1>3 DEF Store
  <2>2. QED  BY <1>1, <1>3, <2>1 DEF ListsOK, ReaderTyped, Walked
<1>4. QED  BY <1>2, <1>3

LEMMA RowIsThere == \A row \in Row : row # Absent
<1>1. DOMAIN Absent = {"absent"}
  BY DEF Absent
<1>2. \A row \in Row : DOMAIN row = {"changed", "status", "favorite"}
  BY DEF Row
<1>3. QED  BY <1>1, <1>2

LEMMA GetIsRow ==
    ASSUME ListsOK, NEW b \in Bids, Known(b)
    PROVE  Get(b) \in Row
BY DEF ListsOK, AnyTable, Known, Get, InDatabase, Stored

\* What is known stays known.
StaysKnown == \A b : Known(b) => Known(b)'

LEMMA PutKeeps ==
    ASSUME ListsOK, NEW b \in Bids, NEW row \in Row, Put(b, row)
    PROVE  ListsOK' /\ StaysKnown
<1>1. row # Absent
  BY RowIsThere
<1>2. CASE InDatabase(b)
  <2> DEFINE t == [table EXCEPT ![b] = row]
  <2>1. Store(t, samples)
    BY <1>2 DEF Put
  <2>2. t \in AnyTable /\ \A c \in Bids : table[c] # Absent => t[c] # Absent
    BY <1>1 DEF ListsOK, AnyTable
  <2> HIDE DEF t
  <2>3. ListsOK'
    BY <2>1, <2>2, StoreKeeps DEF ListsOK
  <2>4. table' = t
    BY <2>1 DEF Store
  <2>5. QED  BY <2>2, <2>3, <2>4 DEF StaysKnown, Known, InDatabase, Stored
<1>3. CASE ~InDatabase(b)
  <2> DEFINE s == [samples EXCEPT ![b] = row]
  <2>1. Store(table, s)
    BY <1>3 DEF Put
  <2>2. s \in AnyTable /\ \A c \in SampleBids : s[c] # Absent
    BY <1>1, BidAssumption DEF ListsOK, AnyTable
  <2> HIDE DEF s
  <2>3. ListsOK'
    BY <2>1, <2>2, StoreKeeps DEF ListsOK
  <2>4. table' = table
    BY <2>1 DEF Store
  <2>5. QED  BY <2>3, <2>4 DEF StaysKnown, Known, InDatabase, Stored
<1>4. QED  BY <1>2, <1>3

LEMMA SetFavoriteKeeps ==
    ASSUME ListsOK, NEW b \in Bids, Known(b), NEW value \in BOOLEAN,
           SetFavorite(b, value)
    PROVE  ListsOK' /\ StaysKnown
<1>1. [Get(b) EXCEPT !.favorite = value] \in Row
  BY GetIsRow DEF Row
<1>2. QED  BY <1>1, PutKeeps DEF SetFavorite

LEMMA SetStatusKeeps ==
    ASSUME ListsOK, NEW b \in Bids, Known(b), NEW value \in Statuses,
           SetStatus(b, value)
    PROVE  ListsOK' /\ StaysKnown
<1>1. [Get(b) EXCEPT !.status = value] \in Row
  BY GetIsRow DEF Row
<1>2. QED  BY <1>1, PutKeeps DEF SetStatus

LEMMA SavedIsRow ==
    ASSUME ListsOK, NEW b \in Bids
    PROVE  Saved(b) \in Row
<1>1. Column["opened_at"][b] \in Nat
  BY BidAssumption DEF Columns
<1>2. table[b] = Absent \/ table[b].status \in Statuses
  BY DEF ListsOK, AnyTable, Row
<1>3. "favorite" \in Statuses
  BY DEF Statuses
<1>4. QED  BY <1>1, <1>2, <1>3 DEF Saved, Row

\* A table that is given a row for a bid, or the same table.
LEMMA TableKeeps ==
    ASSUME ListsOK, NEW b, NEW row, b \in Bids => row \in Row,
           Store([table EXCEPT ![b] = row], samples)
    PROVE  ListsOK' /\ StaysKnown
<1> DEFINE t == [table EXCEPT ![b] = row]
<1>1. b \in Bids => row # Absent
  BY RowIsThere
<1>2. t \in AnyTable /\ \A c \in Bids : table[c] # Absent => t[c] # Absent
  BY <1>1 DEF ListsOK, AnyTable
<1> HIDE DEF t
<1>3. ListsOK'
  BY <1>2, StoreKeeps DEF ListsOK, t
<1>4. table' = t
  BY DEF Store, t
<1>5. QED  BY <1>2, <1>3, <1>4 DEF StaysKnown, Known, InDatabase, Stored

LEMMA ListsUnchanged ==
    ASSUME ListsOK, UNCHANGED <<store, reader>>
    PROVE  ListsOK' /\ StaysKnown
BY DEF ListsOK, ReaderTyped, Walked, StaysKnown, Known, InDatabase, Stored, store

-----------------------------------------------------------------------------
(* The steps.                                                              *)

LEMMA RequestTypes ==
    ASSUME RInv, NEW r \in Requests
    PROVE  /\ req[r] \in Request /\ req[r].bid \in Bids /\ req[r].filter \in Filter
           /\ req[r].page \in Nat \ {0}
           /\ req[r].kind \in StatusKinds => req[r].value \in Statuses
<1>1. req[r] \in Asked
  BY DEF RInv, RequestsOK
<1>2. req[r] \in Request /\ (req[r].kind \in StatusKinds => req[r].value \in Statuses)
  BY <1>1, BrowsingAssumption
<1>3. QED  BY <1>2 DEF Request

\* A request goes on, and no answer is given.
LEMMA RequestGoes ==
    ASSUME RInv, NEW r \in Requests,
           NEW where \in {"new", "write", "answer", "done", "failed"},
           Go(r, where), UNCHANGED <<req, answer, syncs>>,
           flag' \in [Requests -> BOOLEAN], loop' \in Requests \cup {Nobody},
           ListsOK' /\ StaysKnown, where = "write" => Known(req[r].bid)
    PROVE  RInv'
<1>1. pc' = [pc EXCEPT ![r] = where]
  BY DEF Go
<1>2. RequestsOK'
  BY <1>1 DEF RInv, RequestsOK, TablesShowTheirPage
<1>3. \A q \in Requests : pc'[q] = "write" => Known(req[q].bid)
  BY <1>1 DEF RInv, RequestsOK, Ready
<1>4. Ready'
  <2> SUFFICES ASSUME NEW q \in Requests, pc'[q] = "write"
               PROVE  Known(req[q].bid)'
    BY DEF Ready
  <2>1. Known(req[q].bid)
    BY <1>3
  <2>2. PICK b : b = req[q].bid
    OBVIOUS
  <2>3. Known(b)'
    BY <2>1, <2>2 DEF StaysKnown
  <2>4. req' = req
    OBVIOUS
  <2>5. QED  BY <2>2, <2>3, <2>4 DEF Known, InDatabase
<1>5. QED  BY <1>2, <1>4 DEF RInv

\* The reader goes on, and nothing else does.
LEMMA ReaderGoes ==
    ASSUME RInv, UNCHANGED <<store, req, pc, flag, loop, answer, syncs>>,
           ReaderTyped', Walked'
    PROVE  RInv'
<1>1. ListsOK'
  BY DEF RInv, ListsOK, store
<1>2. RequestsOK'
  BY DEF RInv, RequestsOK, TablesShowTheirPage
<1>3. Ready'
  BY DEF RInv, Ready, Known, InDatabase, store
<1>4. QED  BY <1>1, <1>2, <1>3 DEF RInv

LEMMA InitRInv == Init => RInv
<1> SUFFICES ASSUME Init PROVE RInv  OBVIOUS
<1>1. table \in AnyTable
  BY BrowsingAssumption DEF Init, AnyTable
<1>2. samples \in AnyTable /\ \A b \in SampleBids : samples[b] # Absent
  <2>1. [changed |-> 1, status |-> "collected", favorite |-> TRUE] \in Row
    BY DEF Row, Statuses
  <2>2. \A b \in Bids :
           samples[b] = IF b \in SampleBids
                        THEN [changed |-> 1, status |-> "collected", favorite |-> TRUE]
                        ELSE Absent
    BY DEF Init
  <2>3. \A b \in SampleBids : b \in Bids /\ samples[b] \in Row
    BY <2>1, <2>2, BidAssumption
  <2>4. \A b \in Bids : samples[b] \in Row \cup {Absent}
    BY <2>1, <2>2
  <2>5. samples = [b \in Bids |-> samples[b]]
    BY DEF Init
  <2>6. QED  BY <2>3, <2>4, <2>5, RowIsThere DEF AnyTable
<1>3. ReaderTyped /\ Walked
  BY DEF Init, ReaderTyped, Walked, Idle
<1>4. \A r \in Requests : answer[r] = NoAnswer
  BY DEF Init
<1>5. /\ <<>> \in Seq(Bids) /\ Len(<<>>) = 0 /\ 1 \in 1 .. TotalPages(0)
      /\ 1 <= TotalPages(0) /\ PageOf(<<>>, 1) = <<>>
  <2>1. <<>> \in Seq(Bids) /\ Len(<<>>) = 0
    BY EmptySeq
  <2>2. TotalPages(0) \in Nat \ {0}
    BY TotalPagesFacts
  <2>3. 1 \in Nat \ {0} /\ Len(<<>>) <= Before(1)
    BY <2>1, BeforeFacts
  <2>4. PageOf(<<>>, 1) = <<>>
    BY <2>1, <2>3, PageOfFacts
  <2>5. QED  BY <2>1, <2>2, <2>4
<1>6. TablesShowTheirPage
  BY <1>4, <1>5 DEF TablesShowTheirPage, NoAnswer
<1>7. \A r \in Requests : answer[r].page \in 1 .. TotalPages(answer[r].total)
  BY <1>4, <1>5 DEF NoAnswer
<1>8. RequestsOK
  BY <1>6, <1>7, BrowsingAssumption DEF Init, RequestsOK
<1>9. Ready
  BY DEF Init, Ready
<1>10. QED  BY <1>1, <1>2, <1>3, <1>8, <1>9 DEF RInv, ListsOK

LEMMA LoopTypes ==
    ASSUME RInv, NEW r \in Requests, Admitted(r) \/ Released(r) \/ UNCHANGED loop
    PROVE  loop' \in Requests \cup {Nobody}
BY DEF RInv, RequestsOK, Admitted, Released

LEMMA WritesKeep ==
    ASSUME RInv, NEW r \in Requests,
           \/ ReadFlag(r) \/ WriteFlag(r) \/ WriteTableStatus(r) \/ WriteStatus(r)
           \/ WriteFavorite(r) \/ NotFound(r) \/ Save(r)
    PROVE  RInv'
<1>1. ListsOK /\ flag \in [Requests -> BOOLEAN]
  BY DEF RInv, RequestsOK
<1>2. req[r].bid \in Bids /\ (req[r].kind \in StatusKinds => req[r].value \in Statuses)
  BY RequestTypes
<1>3. CASE ReadFlag(r)
  <2>1. ListsOK' /\ StaysKnown
    BY <1>1, <1>3, ListsUnchanged DEF ReadFlag
  <2>2. Get(req[r].bid).favorite \in BOOLEAN
    BY <1>1, <1>2, <1>3, GetIsRow DEF ReadFlag, Row
  <2>3. flag' \in [Requests -> BOOLEAN]
    BY <1>1, <1>3, <2>2 DEF ReadFlag
  <2>4. QED  BY <1>3, <2>1, <2>3, LoopTypes, RequestGoes DEF ReadFlag
<1>4. CASE WriteFlag(r)
  <2>1. Known(req[r].bid)
    BY <1>4 DEF WriteFlag, RInv, Ready
  <2>2. (~flag[r]) \in BOOLEAN
    OBVIOUS
  <2>3. ListsOK' /\ StaysKnown
    BY <1>1, <1>2, <1>4, <2>1, <2>2, SetFavoriteKeeps DEF WriteFlag
  <2>4. QED  BY <1>1, <1>4, <2>3, LoopTypes, RequestGoes DEF WriteFlag
<1>5. CASE WriteTableStatus(r)
  <2>1. ListsOK' /\ StaysKnown
    BY <1>1, <1>2, <1>5, SetStatusKeeps DEF WriteTableStatus, StatusKinds
  <2>2. QED  BY <1>1, <1>5, <2>1, LoopTypes, RequestGoes DEF WriteTableStatus
<1>6. CASE WriteStatus(r)
  <2>1. ListsOK' /\ StaysKnown
    BY <1>1, <1>2, <1>6, SetStatusKeeps DEF WriteStatus, StatusKinds
  <2>2. QED  BY <1>1, <1>6, <2>1, LoopTypes, RequestGoes DEF WriteStatus
<1>7. CASE WriteFavorite(r)
  <2>1. (req[r].value = "on") \in BOOLEAN
    OBVIOUS
  <2>2. ListsOK' /\ StaysKnown
    BY <1>1, <1>2, <1>7, <2>1, SetFavoriteKeeps DEF WriteFavorite
  <2>3. QED  BY <1>1, <1>7, <2>2, LoopTypes, RequestGoes DEF WriteFavorite
<1>8. CASE NotFound(r)
  <2>1. ListsOK' /\ StaysKnown
    BY <1>1, <1>8, ListsUnchanged DEF NotFound
  <2>2. QED  BY <1>1, <1>8, <2>1, LoopTypes, RequestGoes DEF NotFound
<1>9. CASE Save(r)
  <2>1. ListsOK' /\ StaysKnown
    <3>1. CASE Store([table EXCEPT ![req[r].bid] = Saved(req[r].bid)], samples)
      BY <1>1, <1>2, <3>1, SavedIsRow, TableKeeps
    <3>2. CASE UNCHANGED <<store, reader>>
      BY <1>1, <3>2, ListsUnchanged
    <3>3. QED  BY <1>9, <3>1, <3>2 DEF Save
  <2>2. Go(r, "done") \/ Go(r, "failed")
    BY <1>9 DEF Save
  <2>3. QED  BY <1>1, <1>9, <2>1, <2>2, LoopTypes, RequestGoes DEF Save
<1>10. QED  BY <1>3, <1>4, <1>5, <1>6, <1>7, <1>8, <1>9

LEMMA FormFilterIsFilter ==
    ASSUME RInv, NEW r \in Requests
    PROVE  FormFilter(r) \in Filter
<1>1. CASE req[r].kind = "tableStatus"
  <2>1. req[r].filter \in Filter /\ req[r].value \in Statuses
    BY <1>1, RequestTypes DEF StatusKinds
  <2>2. [req[r].filter EXCEPT !.status = req[r].value] \in Filter
    BY <2>1 DEF Filter
  <2>3. QED  BY <1>1, <2>2 DEF FormFilter
<1>2. CASE req[r].kind # "tableStatus"
  BY <1>2, RequestTypes DEF FormFilter
<1>3. QED  BY <1>1, <1>2

LEMMA AnswerKeeps ==
    ASSUME RInv, NEW r \in Requests, AnswerTable(r)
    PROVE  RInv'
<1> DEFINE list == WholeList(table, samples, FormFilter(r))
           page == req[r].page
           a    == answer'[r]
<1>1. list \in Seq(Bids) /\ Len(list) \in Nat
  BY FormFilterIsFilter, WholeListFacts DEF RInv, ListsOK
<1>2. page \in Nat \ {0}
  BY RequestTypes
<1>3. ListPage(table, samples, FormFilter(r), page)
          = [items |-> PageOf(list, page), total |-> Len(list)]
  BY <1>2, FormFilterIsFilter, ListPageFacts DEF RInv, ListsOK
<1>4. DOMAIN answer = Requests
  BY DEF RInv, RequestsOK
<1>5. answer' = [answer EXCEPT ![r] =
                    [items |-> PageOf(list, page), total |-> Len(list), asked |-> page,
                     page |-> CurrentPage(page, Len(list)), list |-> list]]
  BY <1>3 DEF AnswerTable
<1>6. /\ a = [items |-> PageOf(list, page), total |-> Len(list), asked |-> page,
              page |-> CurrentPage(page, Len(list)), list |-> list]
      /\ \A q \in Requests \ {r} : answer'[q] = answer[q]
      /\ DOMAIN answer' = Requests
  BY <1>4, <1>5
<1> HIDE DEF list, page
<1>7. /\ a.items = PageOf(list, page) /\ a.total = Len(list) /\ a.asked = page
      /\ a.page = CurrentPage(page, Len(list)) /\ a.list = list
  BY <1>6
<1> HIDE DEF a
<1>8. a.page \in 1 .. TotalPages(a.total)
  BY <1>1, <1>2, <1>7, CurrentPageFacts
<1>9. a.items = IF a.asked <= TotalPages(a.total) THEN PageOf(a.list, a.page) ELSE <<>>
  <2>1. CASE page <= TotalPages(Len(list))
    BY <1>1, <1>2, <1>7, <2>1, CurrentPageFacts
  <2>2. CASE ~(page <= TotalPages(Len(list)))
    <3>1. ~(Before(page) < Len(list)) /\ Before(page) \in Nat
      BY <1>1, <1>2, <2>2, TotalPagesFacts, BeforeFacts
    <3>2. Len(list) <= Before(page)
      BY <1>1, <3>1
    <3>3. PageOf(list, page) = <<>>
      BY <1>1, <1>2, <3>2, PageOfFacts
    <3>4. QED  BY <1>7, <2>2, <3>3
  <2>3. QED  BY <2>1, <2>2
<1>10. \A q \in Requests : q = r \/ answer'[q] = answer[q]
  BY <1>6
<1>11. TablesShowTheirPage'
  <2> SUFFICES ASSUME NEW q \in Requests
               PROVE  /\ answer'[q].total = Len(answer'[q].list)
                      /\ answer'[q].items = IF answer'[q].asked <= TotalPages(answer'[q].total)
                                            THEN PageOf(answer'[q].list, answer'[q].page)
                                            ELSE <<>>
    BY DEF TablesShowTheirPage
  <2>1. CASE q = r
    BY <1>7, <1>9, <2>1 DEF a
  <2>2. CASE answer'[q] = answer[q]
    BY <2>2 DEF RInv, RequestsOK, TablesShowTheirPage
  <2>3. QED  BY <1>10, <2>1, <2>2
<1>12. \A q \in Requests : answer'[q].page \in 1 .. TotalPages(answer'[q].total)
  <2> TAKE q \in Requests
  <2>1. CASE q = r
    BY <1>8, <2>1 DEF a
  <2>2. CASE answer'[q] = answer[q]
    BY <2>2 DEF RInv, RequestsOK
  <2>3. QED  BY <1>10, <2>1, <2>2
<1>13. pc' = [pc EXCEPT ![r] = "done"] /\ UNCHANGED <<store, req, flag, reader, syncs>>
       /\ loop' \in Requests \cup {Nobody}
  BY LoopTypes DEF AnswerTable, Go
<1>14. RequestsOK'
  BY <1>6, <1>11, <1>12, <1>13 DEF RInv, RequestsOK
<1>15. ListsOK'
  BY <1>13, ListsUnchanged DEF RInv
<1>16. Ready'
  BY <1>13 DEF RInv, RequestsOK, Ready, Known, InDatabase, store
<1>17. QED  BY <1>14, <1>15, <1>16 DEF RInv

LEMMA ReadFacts ==
    ASSUME ListsOK, NEW f \in Filter, NEW page \in Nat \ {0}, NEW got, NEW clean,
           Read(f, page, got, clean)
    PROVE  LET list == WholeList(table, samples, f) IN
           reader' = [at |-> "list", filter |-> f, page |-> page,
                      more |-> page < TotalPages(Len(list)),
                      got |-> IF clean THEN got \o PageOf(list, page) ELSE <<>>,
                      clean |-> clean]
<1> DEFINE list  == WholeList(table, samples, f)
           shown == ListPage(table, samples, f, page)
<1>1. reader' = [at |-> "list", filter |-> f, page |-> page,
                 more |-> page < TotalPages(shown.total),
                 got |-> IF clean THEN got \o shown.items ELSE <<>>, clean |-> clean]
  BY DEF Read
<1>2. shown = [items |-> PageOf(list, page), total |-> Len(list)]
  BY ListPageFacts DEF ListsOK
<1> HIDE DEF shown, list
<1>3. shown.items = PageOf(list, page) /\ shown.total = Len(list)
  BY <1>2
<1>4. reader' = [at |-> "list", filter |-> f, page |-> page,
                 more |-> page < TotalPages(Len(list)),
                 got |-> IF clean THEN got \o PageOf(list, page) ELSE <<>>, clean |-> clean]
  BY <1>1, <1>3, Zenon
<1>5. QED  BY <1>4 DEF list

LEMMA OpenListKeeps ==
    ASSUME RInv, NEW f \in Filters, OpenList(f)
    PROVE  RInv'
<1> DEFINE list == WholeList(table, samples, f)
<1>1. f \in Filter /\ table \in AnyTable /\ samples \in AnyTable
  BY BrowsingAssumption DEF RInv, ListsOK
<1>2. list \in Seq(Bids) /\ Len(list) \in Nat
  BY <1>1, WholeListFacts
<1>3. Read(f, 1, <<>>, TRUE) /\ ListsOK
  BY Zenon DEF OpenList, RInv
<1>4. UNCHANGED <<store, req, pc, flag, loop, answer, syncs>>
  BY DEF OpenList
<1>5. reader' = [at |-> "list", filter |-> f, page |-> 1,
                 more |-> 1 < TotalPages(Len(list)),
                 got |-> IF TRUE THEN <<>> \o PageOf(list, 1) ELSE <<>>, clean |-> TRUE]
  <2>1. 1 \in Nat \ {0}
    OBVIOUS
  <2>2. QED  BY <1>1, <1>3, <2>1, ReadFacts, Zenon
<1> HIDE DEF list
<1>6. /\ 1 \in 1 .. TotalPages(Len(list)) /\ PageOf(list, 1) = Upto(list, 1)
      /\ Upto(list, 1) \in Seq(Bids)
  BY <1>2, FirstPageRead, UptoIsSeq
<1>7. (IF TRUE THEN <<>> \o PageOf(list, 1) ELSE <<>>) = Upto(list, 1)
  BY <1>6, ConcatEmptySeq
<1>8. reader' = [at |-> "list", filter |-> f, page |-> 1,
                 more |-> 1 < TotalPages(Len(list)), got |-> Upto(list, 1), clean |-> TRUE]
  BY <1>5, <1>7, Zenon
<1>9. ReaderTyped'
  BY <1>1, <1>6, <1>8 DEF ReaderTyped, Walk
<1>10. Walked'
  <2>1. WholeList(table', samples', f) = list
    BY <1>4 DEF list, store
  <2>2. QED  BY <1>6, <1>8, <2>1 DEF Walked
<1>11. QED  BY <1>4, <1>9, <1>10, ReaderGoes

LEMMA NextPageKeeps ==
    ASSUME RInv, NextPage
    PROVE  RInv'
<1> DEFINE f    == reader.filter
           list == WholeList(table, samples, f)
           page == reader.page
           next == IF reader.clean THEN reader.got \o PageOf(list, page + 1) ELSE <<>>
<1>1. /\ reader.at = "list" /\ reader.more
      /\ UNCHANGED <<store, req, pc, flag, loop, answer, syncs>>
  BY DEF NextPage
<1>2. /\ f \in Filter /\ page \in Nat /\ reader.got \in Seq(Bids)
      /\ reader.clean \in BOOLEAN /\ table \in AnyTable /\ samples \in AnyTable
  BY <1>1, ListsTyped DEF RInv, ListsOK
<1>3. list \in Seq(Bids) /\ Len(list) \in Nat /\ page + 1 \in Nat \ {0}
  BY <1>2, WholeListFacts
<1>4. Read(f, page + 1, reader.got, reader.clean) /\ ListsOK
  BY DEF NextPage, RInv
<1>5. reader' = [at |-> "list", filter |-> f, page |-> page + 1,
                 more |-> page + 1 < TotalPages(Len(list)), got |-> next,
                 clean |-> reader.clean]
  BY <1>2, <1>3, <1>4, ReadFacts
<1>6. reader.clean => /\ page \in 1 .. TotalPages(Len(list))
                      /\ page < TotalPages(Len(list))
                      /\ reader.got = Upto(list, page)
  BY <1>1 DEF RInv, ListsOK, Walked
<1>7. PageOf(list, page + 1) \in Seq(Bids) /\ TotalPages(Len(list)) \in Nat
  BY <1>3, PageOfFacts, TotalPagesFacts
<1>8. next \in Seq(Bids)
  BY <1>2, <1>7, EmptySeq, ConcatProperties
<1> HIDE DEF list, f, page
<1>9. reader.clean => /\ page + 1 \in 1 .. TotalPages(Len(list))
                      /\ next = Upto(list, page + 1)
  <2> HAVE reader.clean
  <2>1. page \in Nat \ {0} /\ page < TotalPages(Len(list)) /\ reader.got = Upto(list, page)
    BY <1>6
  <2>2. /\ page + 1 \in 1 .. TotalPages(Len(list))
        /\ Upto(list, page) \o PageOf(list, page + 1) = Upto(list, page + 1)
    BY <1>3, <2>1, NextPageRead
  <2>3. QED  BY <2>1, <2>2
<1> HIDE DEF next
<1>10. ReaderTyped'
  BY <1>2, <1>3, <1>5, <1>8 DEF ReaderTyped, Walk
<1>11. Walked'
  <2>1. WholeList(table', samples', f) = list
    BY <1>1 DEF list, store
  <2>2. QED  BY <1>5, <1>9, <2>1 DEF Walked
<1>12. QED  BY <1>1, <1>10, <1>11, ReaderGoes

LEMMA ResponseIsSeq ==
    ASSUME NEW items \in Responses
    PROVE  Response(items) \in Seq(Item)
<1>1. items \in Seq(Item)
  BY BrowsingAssumption
<1>2. At(items, {i \in DOMAIN items : items[i].bid.no = reader.search.query}) \in Seq(Item)
  BY <1>1, AtIsSeq
<1>3. QED  BY <1>1, <1>2 DEF Response

LEMMA SearchKeeps ==
    ASSUME RInv,
           \/ \E s \in Searches : StartSearch(s)
           \/ Fetch \/ FetchFails \/ MarkFavorites
    PROVE  RInv'
<1>1. /\ UNCHANGED <<store, req, pc, flag, loop, answer, syncs>>
      /\ table \in AnyTable
  BY DEF StartSearch, Fetch, FetchFails, MarkFavorites, RInv, ListsOK
<1>2. reader = Idle \/ reader \in Walk \/ reader \in Finding
  BY DEF RInv, ListsOK, ReaderTyped
<1>3. ASSUME reader' \in Finding
      PROVE  RInv'
  <2>1. reader'.at # "list"
    BY <1>3 DEF Finding
  <2>2. ReaderTyped' /\ Walked'
    BY <1>3, <2>1 DEF ReaderTyped, Walked
  <2>3. QED  BY <1>1, <2>2, ReaderGoes
<1>4. reader.at = "search" => reader \in Finding
  BY <1>2 DEF Idle, Walk
<1>5. ASSUME NEW s \in Searches, StartSearch(s)
      PROVE  reader' \in Finding
  <2>1. s \in Search /\ <<>> \in Seq(Item)
    BY BrowsingAssumption, EmptySeq
  <2>2. QED  BY <1>5, <2>1 DEF StartSearch, Finding
<1>6. CASE Fetch
  <2>1. reader \in Finding
    BY <1>4, <1>6 DEF Fetch
  <2>2. PICK items \in Responses :
            reader' = [reader EXCEPT !.op = @ + 1, !.items = @ \o Response(items)]
    BY <1>6 DEF Fetch
  <2>3. reader.items \in Seq(Item)
    BY <2>1 DEF Finding
  <2>4. reader.items \o Response(items) \in Seq(Item)
    BY <2>3, ResponseIsSeq, ConcatProperties
  <2> DEFINE all == reader.items \o Response(items)
  <2>5. reader' = [reader EXCEPT !.op = @ + 1, !.items = all]
    BY <2>2
  <2>6. all \in Seq(Item)
    BY <2>4
  <2> HIDE DEF all
  <2>7. /\ reader.at \in {"search", "found", "failed"} /\ reader.search \in Search
        /\ reader.op + 1 \in Nat /\ reader.marked \in SUBSET Bids
        /\ reader = [at |-> reader.at, search |-> reader.search, op |-> reader.op,
                     items |-> reader.items, marked |-> reader.marked]
    BY <2>1 DEF Finding
  <2>8. reader' = [at |-> reader.at, search |-> reader.search, op |-> reader.op + 1,
                   items |-> all, marked |-> reader.marked]
    BY <2>5, <2>7
  <2>9. reader' \in Finding
    BY <2>6, <2>7, <2>8 DEF Finding
  <2>10. QED  BY <1>3, <2>9
<1>7. CASE FetchFails
  BY <1>3, <1>4, <1>7 DEF FetchFails, Finding
<1>8. CASE MarkFavorites
  <2>1. {b \in Stored(table) : table[b].favorite} \subseteq Bids
    BY DEF Stored
  <2>2. QED  BY <1>3, <1>4, <1>8, <2>1 DEF MarkFavorites, Finding
<1>9. QED  BY <1>3, <1>5, <1>6, <1>7, <1>8

LEMMA SyncKeeps ==
    ASSUME RInv, NEW b, NEW changed \in 0 .. MaxChanged, Sync(b, changed)
    PROVE  RInv'
<1> DEFINE row == IF table[b] = Absent
                  THEN [changed |-> changed, status |-> "collected", favorite |-> FALSE]
                  ELSE [table[b] EXCEPT !.changed = changed]
<1>1. ListsOK /\ changed \in Nat
  BY BrowsingAssumption DEF RInv
<1>2. b \in Bids => row \in Row
  BY <1>1 DEF ListsOK, AnyTable, Row, Statuses
<1>3. Store([table EXCEPT ![b] = row], samples)
  BY DEF Sync
<1> HIDE DEF row
<1>4. ListsOK' /\ StaysKnown
  BY <1>1, <1>2, <1>3, TableKeeps
<1>5. UNCHANGED <<req, pc, flag, loop, answer>> /\ syncs' \in 0 .. MaxSyncs
  BY BrowsingAssumption DEF Sync, RInv, RequestsOK
<1>6. RequestsOK'
  BY <1>5 DEF RInv, RequestsOK, TablesShowTheirPage
<1>7. Ready'
  BY <1>4, <1>5 DEF RInv, Ready, StaysKnown, Known, InDatabase
<1>8. QED  BY <1>4, <1>6, <1>7 DEF RInv

LEMMA NextRInv == RInv /\ [Next]_vars => RInv'
<1> SUFFICES ASSUME RInv, [Next]_vars PROVE RInv'  OBVIOUS
<1>1. ASSUME NEW r \in Requests,
             \/ ReadFlag(r) \/ WriteFlag(r) \/ WriteTableStatus(r) \/ WriteStatus(r)
             \/ WriteFavorite(r) \/ NotFound(r) \/ Save(r)
      PROVE  RInv'
  BY <1>1, WritesKeep
<1>2. ASSUME NEW r \in Requests, AnswerTable(r) PROVE RInv'
  BY <1>2, AnswerKeeps
<1>3. ASSUME NEW f \in Filters, OpenList(f) PROVE RInv'
  BY <1>3, OpenListKeeps
<1>4. CASE NextPage
  BY <1>4, NextPageKeeps
<1>5. CASE (\E s \in Searches : StartSearch(s)) \/ Fetch \/ FetchFails \/ MarkFavorites
  BY <1>5, SearchKeeps
<1>6. ASSUME NEW b \in Synced, NEW changed \in 0 .. MaxChanged, Sync(b, changed)
      PROVE  RInv'
  BY <1>6, SyncKeeps
<1>7. CASE UNCHANGED vars
  <2>1. UNCHANGED <<store, req, pc, flag, loop, answer, syncs, reader>>
    BY <1>7 DEF vars, store
  <2>2. ReaderTyped' /\ Walked'
    BY <2>1 DEF RInv, ListsOK, ReaderTyped, Walked, store
  <2>3. QED  BY <2>1, <2>2, ReaderGoes
<1>8. QED  BY <1>1, <1>2, <1>3, <1>4, <1>5, <1>6, <1>7 DEF Next

-----------------------------------------------------------------------------
(* The results.                                                            *)

\* What a walk without a write that touches its list has read, when it has come
\* to the last page, is the whole list.
LEMMA WalkIsWhole == RInv => PagesMakeTheExport
<1> SUFFICES ASSUME RInv, Done(reader)
             PROVE  reader.got = WholeList(table, samples, reader.filter)
  BY DEF PagesMakeTheExport
<1> DEFINE list == WholeList(table, samples, reader.filter)
<1>1. reader.filter \in Filter
  BY RInvTypes, WalkTypes DEF Done
<1>2. list \in Seq(Bids)
  BY <1>1, WholeListFacts DEF RInv, ListsOK
<1>3. /\ reader.page \in 1 .. TotalPages(Len(list))
      /\ ~(reader.page < TotalPages(Len(list)))
      /\ reader.got = Upto(list, reader.page)
  BY DEF Done, RInv, ListsOK, Walked
<1> HIDE DEF list
<1>4. TotalPages(Len(list)) \in Nat
  BY <1>2, TotalPagesFacts
<1>5. reader.page = TotalPages(Len(list))
  BY <1>3, <1>4
<1>6. QED  BY <1>2, <1>3, <1>5, LastPageRead DEF list

\* However many requests, syncs and bids there are, every step keeps what a
\* reader has read, what the tables show and what a request is about to write.
THEOREM ReadingInvariance == Spec => []RInv
BY InitRInv, NextRInv, PTL DEF Spec

\* Every variable has its type, and the page that get_bids_page_context marks in
\* an answer is one the pagination has.
THEOREM BrowsingTyped == Spec => []TypeOK
BY ReadingInvariance, RInvTypes, PTL

\* Who pages through a list of GET /api/v1/bids while no write changes that list
\* has read what the CSV export holds, whatever the filter, order and page size:
\* list_raw_bids_page never repeats nor skips a bid.
THEOREM PagesAreTheExport == Spec => []PagesMakeTheExport
BY ReadingInvariance, WalkIsWhole, PTL

\* Such a reader has seen one version of every notice with a version that the
\* filter wants, an effective one if the filter wants any.
THEOREM EveryNoticeOnce == Spec => []NoticesAreListedOnce
<1>1. RInv => NoticesAreListedOnce
  BY RInvTypes, WalkIsWhole, NoticesRead
<1>2. QED  BY <1>1, ReadingInvariance, PTL

\* The unfiltered list puts the notices with the latest news first, and shows of
\* each the version that changed last of those no user has archived, whatever the
\* order in which syncs, favorite saves and users write to the versions.
THEOREM NewsAreListedFirst == Spec => []NewsComeFirst
<1>1. RInv => NewsComeFirst
  BY RInvTypes, NewsFirst
<1>2. QED  BY <1>1, ReadingInvariance, PTL

\* The favorites page shows every notice with a favorite version exactly once,
\* as a favorite version, in every state that clicks, saves and syncs lead to.
THEOREM EveryFavoriteOnce == Spec => []FavoritesAreListed
<1>1. RInv => FavoritesAreListed
  BY RInvTypes, FavoritesShown
<1>2. QED  BY <1>1, ReadingInvariance, PTL

\* The table that an action of the list answers with shows the page it marks, of
\* the list and the length it was made from; nothing when that page is gone.
THEOREM AnswersShowTheirPage == Spec => []TablesShowTheirPage
<1>1. RInv => TablesShowTheirPage
  BY DEF RInv, RequestsOK
<1>2. QED  BY <1>1, ReadingInvariance, PTL

\* Whatever the operations of the remote API answer, and in however many pieces,
\* a search shows each bid once, as the newest item says, and leaves one out only
\* when Limit others are shown or its newest item does not fit.
THEOREM NewestIsShown == Spec => []SearchShowsNewest
<1>1. RInv => SearchShowsNewest
  BY RInvTypes, NewestShown
<1>2. QED  BY <1>1, ReadingInvariance, PTL

\* What the cut to LIVE_SEARCH_PAGE_SIZE leaves out of a search comes after what
\* it shows, in each of the sorts.
THEOREM BestIsShown == Spec => []SearchKeepsBest
<1>1. RInv => SearchKeepsBest
  BY RInvTypes, BestKept
<1>2. QED  BY <1>1, ReadingInvariance, PTL

=============================================================================
