-------------------------- MODULE LiveSearch_proofs --------------------------
(***************************************************************************)
(* Facts about the live search: which items it keeps of those fetched, and *)
(* in which order it shows them.                                           *)
(***************************************************************************)
EXTENDS LiveSearch, BidListing_proofs

-----------------------------------------------------------------------------
(* Finite sets of numbers.                                                 *)

\* The last in the order of the numbers is the largest.
LEMMA FiniteMax ==
    ASSUME NEW S \in SUBSET Nat, IsFiniteSet(S), S # {}
    PROVE  Max(S) \in S /\ \A k \in S : k <= Max(S)
<1> DEFINE R == {p \in S \X S : p[1] < p[2]}
           n == Cardinality(S)
           s == Sequenced(S, R)
<1>1. Orders(S, R)
  BY DEF Orders
<1>2. Lists(s, S, R)
  <2> HIDE DEF R
  <2>1. QED  BY <1>1, SequencedFacts
<1>3. n \in Nat /\ n # 0
  BY FS_EmptySet, FS_CardinalityType
<1>4. /\ s \in [1 .. n -> S] /\ \A x \in S : \E k \in 1 .. n : s[k] = x
      /\ \A i, j \in 1 .. n : (<<s[i], s[j]>> \in R) <=> (i < j)
  BY <1>2 DEF Lists
<1> HIDE DEF s, n
<1>5. n \in 1 .. n /\ s[n] \in S
  BY <1>3, <1>4
<1>6. \A k \in S : k <= s[n]
  <2> TAKE x \in S
  <2>1. PICK k \in 1 .. n : s[k] = x
    BY <1>4
  <2>2. k = n \/ k < n
    BY <1>3
  <2>3. k < n => <<s[k], s[n]>> \in R
    BY <1>4, <1>5
  <2>4. k < n => s[k] < s[n]
    BY <2>3
  <2>5. s[n] \in Nat /\ x \in Nat
    BY <1>5
  <2> HIDE DEF R
  <2>6. QED  BY <2>1, <2>2, <2>4, <2>5
<1>7. s[n] \in Nat
  BY <1>5
<1>8. QED  BY <1>5, <1>6, <1>7, MaxFacts

LEMMA ChangesFinite ==
    ASSUME NEW items \in Seq(Item), NEW P \in SUBSET (1 .. Len(items))
    PROVE  IsFiniteSet({items[i].changed : i \in P})
<1> DEFINE T == {items[i].changed : i \in P}
           f == [i \in P |-> items[i].changed]
<1>1. IsFiniteSet(P)
  <2>1. IsFiniteSet(1 .. Len(items))
    BY FS_Interval
  <2>2. QED  BY <2>1, FS_Subset
<1>2. f \in Surjection(P, T)
  BY DEF Surjection
<1> HIDE DEF f, T
<1>3. QED  BY <1>1, <1>2, FS_Surjection DEF T

LEMMA ClosingsFinite ==
    ASSUME NEW items \in Seq(Item)
    PROVE  IsFiniteSet({items[i].closed : i \in DOMAIN items})
<1> DEFINE P == DOMAIN items
           T == {items[i].closed : i \in P}
           f == [i \in P |-> items[i].closed]
<1>1. IsFiniteSet(P)
  <2>1. Len(items) \in Nat /\ P = 1 .. Len(items)
    OBVIOUS
  <2>2. QED  BY <2>1, FS_Interval
<1>2. f \in Surjection(P, T)
  BY DEF Surjection
<1> HIDE DEF f, T, P
<1>3. IsFiniteSet(T)
  BY <1>1, <1>2, FS_Surjection
<1>4. QED  BY <1>3 DEF T, P

-----------------------------------------------------------------------------
(* What is put together.                                                   *)

LEMMA ItemsFacts ==
    ASSUME NEW items \in Seq(Item)
    PROVE  /\ Len(items) \in Nat /\ DOMAIN items = 1 .. Len(items)
           /\ \A i \in 1 .. Len(items) :
                 /\ items[i] \in Item /\ items[i].bid \in Bids
                 /\ items[i].changed \in Nat /\ items[i].closed \in Nat
<1>1. Len(items) \in Nat /\ DOMAIN items = 1 .. Len(items)
      /\ \A i \in 1 .. Len(items) : items[i] \in Item
  OBVIOUS
<1>2. \A x \in Item : x.bid \in Bids /\ x.changed \in Nat /\ x.closed \in Nat
  BY DEF Item
<1>3. QED  BY <1>1, <1>2

\* No item of the bid is newer, and none as new comes later.
IsNewest(items, i) ==
    \A j \in DOMAIN items : items[j].bid = items[i].bid =>
        \/ items[j].changed < items[i].changed
        \/ items[j].changed = items[i].changed /\ j <= i

LEMMA NewestOfFacts ==
    ASSUME NEW items \in Seq(Item), NEW b, PlacesOf(items, b) # {}
    PROVE  \E i \in 1 .. Len(items) :
              items[i] = NewestOf(items, b) /\ items[i].bid = b /\ IsNewest(items, i)
<1> DEFINE P       == PlacesOf(items, b)
           changes == {items[i].changed : i \in P}
           late    == {i \in P : \A j \in P : items[j].changed <= items[i].changed}
<1>1. /\ Len(items) \in Nat /\ DOMAIN items = 1 .. Len(items)
      /\ \A i \in 1 .. Len(items) : items[i].changed \in Nat
  BY ItemsFacts
<1>2. \A i : i \in P <=> (i \in 1 .. Len(items) /\ items[i].bid = b)
  BY <1>1 DEF PlacesOf
<1>3. NewestOf(items, b) = items[Max(late)]
  BY DEF NewestOf
<1> HIDE DEF P
<1>4. P \in SUBSET (1 .. Len(items)) /\ P # {}
  BY <1>2 DEF P
<1>5. changes \in SUBSET Nat /\ changes # {} /\ IsFiniteSet(changes)
  BY <1>1, <1>4, ChangesFinite
<1>6. Max(changes) \in changes /\ \A c \in changes : c <= Max(changes)
  <2> HIDE DEF changes
  <2>1. QED  BY <1>5, FiniteMax
<1>7. PICK m \in P : items[m].changed = Max(changes)
  BY <1>6
<1>8. \A j \in P : items[j].changed <= items[m].changed
  BY <1>6, <1>7
<1>9. \A i : i \in late <=>
             (i \in P /\ \A j \in P : items[j].changed <= items[i].changed)
  OBVIOUS
<1> HIDE DEF late
<1>10. late \in SUBSET Nat /\ late # {} /\ \A i \in late : i <= Len(items)
  <2>1. \A i \in late : i \in 1 .. Len(items)
    BY <1>4, <1>9
  <2>2. m \in late
    BY <1>8, <1>9
  <2>3. QED  BY <1>1, <2>1, <2>2
<1>11. Max(late) \in late /\ \A i \in late : i <= Max(late)
  BY <1>1, <1>10, MaxFacts
<1>12. ASSUME NEW j \in 1 .. Len(items), items[j].bid = items[Max(late)].bid
       PROVE  \/ items[j].changed < items[Max(late)].changed
              \/ items[j].changed = items[Max(late)].changed /\ j <= Max(late)
  <2>1. /\ Max(late) \in P /\ Max(late) \in 1 .. Len(items)
        /\ \A i \in P : items[i].changed <= items[Max(late)].changed
    BY <1>2, <1>9, <1>11
  <2>2. j \in P /\ items[j].changed <= items[Max(late)].changed
    BY <1>2, <1>12, <2>1
  <2>3. items[j].changed = items[Max(late)].changed => j \in late
    BY <1>9, <2>1, <2>2
  <2>4. QED  BY <1>1, <1>11, <2>1, <2>2, <2>3
<1>13. IsNewest(items, Max(late))
  BY <1>1, <1>12 DEF IsNewest
<1>14. QED  BY <1>2, <1>3, <1>9, <1>11, <1>13

LEMMA DedupedFacts ==
    ASSUME NEW items \in Seq(Item)
    PROVE  LET d == Deduped(items) IN
           /\ d \in Seq(Item)
           /\ \A k \in 1 .. Len(d) : \E i \in 1 .. Len(items) :
                 d[k] = items[i] /\ d[k] = NewestOf(items, items[i].bid) /\ IsNewest(items, i)
           /\ \A i \in 1 .. Len(items) : \E k \in 1 .. Len(d) :
                 d[k] = NewestOf(items, items[i].bid)
           /\ \A k, l \in 1 .. Len(d) : d[k].bid = d[l].bid => k = l
<1> DEFINE d      == Deduped(items)
           n      == Len(items)
           first(i) == Min(PlacesOf(items, items[i].bid))
           firsts == {first(i) : i \in DOMAIN items}
           heads  == At(items, firsts)
           m      == Cardinality(firsts)
           inc    == Increasing(firsts)
           New(k) == NewestOf(items, items[inc[k]].bid)
<1>1. /\ n \in Nat /\ DOMAIN items = 1 .. n
      /\ \A i \in 1 .. n : items[i] \in Item
  BY ItemsFacts
<1>2. \A b : \A i : i \in PlacesOf(items, b) <=> (i \in 1 .. n /\ items[i].bid = b)
  BY <1>1 DEF PlacesOf
<1>3. \A i \in 1 .. n : first(i) \in 1 .. n /\ items[first(i)].bid = items[i].bid
  <2> TAKE i \in 1 .. n
  <2> DEFINE places == PlacesOf(items, items[i].bid)
  <2>1. \A p : p \in places <=> (p \in 1 .. n /\ items[p].bid = items[i].bid)
    BY <1>2
  <2>2. first(i) = Min(places)
    OBVIOUS
  <2> HIDE DEF places, first
  <2>3. i \in places
    BY <2>1
  <2>4. \A p \in places : p \in Nat
    <3>1. \A p \in 1 .. n : p \in Nat
      OBVIOUS
    <3>2. QED  BY <2>1, <3>1, Zenon
  <2>5. first(i) \in places
    BY <2>2, <2>3, <2>4, MinFacts
  <2>6. QED  BY <2>1, <2>5
<1>4. \A i, j \in 1 .. n : items[i].bid = items[j].bid => first(i) = first(j)
  OBVIOUS
<1>5. d = [k \in DOMAIN heads |-> NewestOf(items, heads[k].bid)]
  BY DEF Deduped
<1> HIDE DEF n, first
<1>6. firsts \in SUBSET (1 .. n)
  BY <1>1, <1>3
<1>7. \A p : p \in firsts <=> \E i \in 1 .. n : p = first(i)
  BY <1>1
<1> HIDE DEF firsts
<1>8. m \in 0 .. n /\ inc \in [1 .. m -> firsts]
  BY <1>1, <1>6, IncreasingFacts
<1>9. \A p \in firsts : \E k \in 1 .. m : inc[k] = p
  BY <1>1, <1>6, IncreasingFacts
<1>10. \A i, j \in 1 .. m : inc[i] < inc[j] <=> i < j
  BY <1>1, <1>6, IncreasingFacts
<1>11. heads = [k \in 1 .. m |-> items[inc[k]]]
  BY <1>1, <1>6, AtFacts
<1> HIDE DEF heads, m, inc, d
<1>12. d = [k \in 1 .. m |-> New(k)]
  BY <1>5, <1>11
<1>13. \A k \in 1 .. m : inc[k] \in 1 .. n
  BY <1>6, <1>8
<1>14. \A k \in 1 .. m : \E i \in 1 .. n :
          New(k) = items[i] /\ items[i].bid = items[inc[k]].bid /\ IsNewest(items, i)
  <2> TAKE k \in 1 .. m
  <2>1. inc[k] \in 1 .. n
    BY <1>13
  <2>2. PlacesOf(items, items[inc[k]].bid) # {}
    BY <1>2, <2>1
  <2>3. QED  BY <2>2, NewestOfFacts DEF n
<1>15. \A k \in 1 .. m : New(k) = NewestOf(items, items[inc[k]].bid)
  OBVIOUS
<1> HIDE DEF New
<1>16. d \in [1 .. m -> Item]
  BY <1>1, <1>12, <1>14
<1>17. d \in Seq(Item) /\ Len(d) = m /\ m \in Nat
  BY <1>8, <1>16, FunctionIsSeq
<1>18. \A k \in 1 .. m : d[k] = New(k) /\ d[k].bid = items[inc[k]].bid
  BY <1>12, <1>14
<1>19. \A k \in 1 .. m : \E i \in 1 .. n :
          d[k] = items[i] /\ d[k] = NewestOf(items, items[i].bid) /\ IsNewest(items, i)
  <2> TAKE k \in 1 .. m
  <2>1. PICK i \in 1 .. n :
            New(k) = items[i] /\ items[i].bid = items[inc[k]].bid /\ IsNewest(items, i)
    BY <1>14
  <2>2. QED  BY <2>1, <1>15, <1>18
<1>20. \A i \in 1 .. n : \E k \in 1 .. m : d[k] = NewestOf(items, items[i].bid)
  <2> TAKE i \in 1 .. n
  <2>1. first(i) \in firsts
    BY <1>7
  <2>2. PICK k \in 1 .. m : inc[k] = first(i)
    BY <1>9, <2>1
  <2>3. QED  BY <1>3, <1>15, <1>18, <2>2
<1>21. \A k, l \in 1 .. m : d[k].bid = d[l].bid => k = l
  <2> TAKE k, l \in 1 .. m
  <2> HAVE d[k].bid = d[l].bid
  <2>1. items[inc[k]].bid = items[inc[l]].bid
    BY <1>18
  <2>2. inc[k] \in firsts /\ inc[l] \in firsts
    BY <1>8
  <2>3. PICK i \in 1 .. n : inc[k] = first(i)
    BY <1>7, <2>2
  <2>4. PICK j \in 1 .. n : inc[l] = first(j)
    BY <1>7, <2>2
  <2>5. inc[k] = inc[l]
    BY <1>3, <1>4, <2>1, <2>3, <2>4
  <2>6. inc[k] \in Nat
    BY <1>13
  <2>7. ~(k < l) /\ ~(l < k)
    BY <1>10, <2>5, <2>6
  <2>8. QED  BY <1>17, <2>7
<1>22. QED  BY <1>17, <1>19, <1>20, <1>21 DEF d, n

-----------------------------------------------------------------------------
(* The sort.                                                               *)

LEMMA EndOfFacts ==
    ASSUME NEW items \in Seq(Item)
    PROVE  EndOf(items) \in Nat /\ \A i \in 1 .. Len(items) : items[i].closed < EndOf(items)
<1> DEFINE closings == {items[i].closed : i \in DOMAIN items}
           T        == {0} \cup closings
<1>1. /\ DOMAIN items = 1 .. Len(items)
      /\ \A i \in 1 .. Len(items) : items[i].closed \in Nat
  BY ItemsFacts
<1>2. IsFiniteSet(closings)
  BY ClosingsFinite
<1>3. closings \in SUBSET Nat /\ \A i \in 1 .. Len(items) : items[i].closed \in closings
  BY <1>1
<1>4. EndOf(items) = 1 + Max(T)
  BY DEF EndOf
<1> HIDE DEF closings
<1>5. T \in SUBSET Nat /\ T # {} /\ IsFiniteSet(T)
  <2>1. IsFiniteSet({0})
    BY FS_Singleton
  <2>2. IsFiniteSet(T)
    BY <1>2, <2>1, FS_Union
  <2>3. QED  BY <1>3, <2>2
<1>6. Max(T) \in T /\ \A k \in T : k <= Max(T)
  <2> HIDE DEF T
  <2>1. QED  BY <1>5, FiniteMax
<1>7. Max(T) \in Nat
  BY <1>5, <1>6
<1>8. \A i \in 1 .. Len(items) : items[i].closed <= Max(T)
  BY <1>3, <1>6
<1> HIDE DEF T
<1>9. QED  BY <1>1, <1>4, <1>7, <1>8

LEMMA SearchKeyIsNat ==
    ASSUME NEW item \in Item, NEW sort, NEW end \in Nat
    PROVE  SearchKey(item, sort, end) \in Nat
<1>1. item.bid \in Bids /\ item.changed \in Nat /\ item.closed \in Nat
  BY DEF Item
<1>2. \A c \in {"posted_at", "notice_org", "title"} : Column[c][item.bid] \in Nat
  BY <1>1, BidAssumption DEF Columns
<1>3. QED  BY <1>1, <1>2 DEF SearchKey

\* Any time later than both will do for a closing time that is not known.
LEMMA AnyEndWillDo ==
    ASSUME NEW x \in Item, NEW y \in Item, NEW sort, NEW d \in Nat, NEW e \in Nat,
           x.closed < d, y.closed < d, x.closed < e, y.closed < e
    PROVE  SearchKey(x, sort, d) <= SearchKey(y, sort, d)
           <=> SearchKey(x, sort, e) <= SearchKey(y, sort, e)
<1>1. x.closed \in Nat /\ y.closed \in Nat
  BY DEF Item
<1>2. CASE sort = "closed_at_asc"
  BY <1>1, <1>2 DEF SearchKey
<1>3. CASE sort # "closed_at_asc"
  BY <1>3 DEF SearchKey
<1>4. QED  BY <1>2, <1>3

LEMMA SearchSortedFacts ==
    ASSUME NEW items \in Seq(Item), NEW sort
    PROVE  LET sorted == SearchSorted(items, sort)
               n      == Len(items)
               Key(x) == SearchKey(x, sort, EndOf(items))
           IN  /\ sorted \in Seq(Item) /\ Len(sorted) = n
               /\ \A k \in 1 .. n : \E i \in 1 .. n : sorted[k] = items[i]
               /\ \A i \in 1 .. n : \E k \in 1 .. n : sorted[k] = items[i]
               /\ (\A i, j \in 1 .. n : items[i].bid = items[j].bid => i = j)
                  => \A k, l \in 1 .. n : sorted[k].bid = sorted[l].bid => k = l
               /\ \A k, l \in 1 .. n :
                     k < l => IF Ascending(sort) THEN Key(sorted[k]) <= Key(sorted[l])
                                                 ELSE Key(sorted[l]) <= Key(sorted[k])
<1> DEFINE n      == Len(items)
           S      == DOMAIN items
           Key(i) == SearchKey(items[i], sort, EndOf(items))
           R      == {p \in S \X S : \/ Key(p[1]) < Key(p[2])
                                     \/ Key(p[1]) = Key(p[2]) /\ p[1] < p[2]}
           places == Sequenced(S, R)
           stable == [k \in DOMAIN places |-> items[places[k]]]
<1>1. n \in Nat /\ S = 1 .. n /\ \A i \in 1 .. n : items[i] \in Item
  BY ItemsFacts
<1>2. \A i \in S : Key(i) \in Nat
  <2> TAKE i \in S
  <2>1. items[i] \in Item /\ EndOf(items) \in Nat
    BY <1>1, EndOfFacts
  <2>2. QED  BY <2>1, SearchKeyIsNat
<1>3. SearchSorted(items, sort) = IF Ascending(sort) THEN stable ELSE Reverse(stable)
  BY DEF SearchSorted
<1> HIDE DEF Key
<1>4. Orders(S, R)
  BY <1>1, <1>2 DEF Orders
<1>5. IsFiniteSet(S) /\ Cardinality(S) = n
  <2>1. IsFiniteSet(1 .. n) /\ Cardinality(1 .. n) = n
    <3> HIDE DEF n
    <3>1. QED  BY <1>1, FS_Interval
  <2>2. QED  BY <1>1, <2>1
<1>6. Lists(places, S, R)
  <2> HIDE DEF R, S
  <2>1. QED  BY <1>4, <1>5, SequencedFacts
<1> HIDE DEF places
<1>7. /\ places \in [1 .. n -> 1 .. n]
      /\ \A i \in 1 .. n : \E k \in 1 .. n : places[k] = i
      /\ \A k, l \in 1 .. n : (<<places[k], places[l]>> \in R) <=> (k < l)
  BY <1>1, <1>5, <1>6 DEF Lists
<1>8. \A k, l \in 1 .. n : k < l => Key(places[k]) <= Key(places[l])
  <2> TAKE k, l \in 1 .. n
  <2> HAVE k < l
  <2>1. <<places[k], places[l]>> \in R
    BY <1>7
  <2>2. Key(places[k]) < Key(places[l]) \/ Key(places[k]) = Key(places[l])
    BY <2>1
  <2>3. Key(places[k]) \in Nat /\ Key(places[l]) \in Nat
    BY <1>1, <1>2, <1>7
  <2>4. QED  BY <2>2, <2>3
<1>9. \A k, l \in 1 .. n : places[k] = places[l] => k = l
  <2> TAKE k, l \in 1 .. n
  <2> HAVE places[k] = places[l]
  <2>1. (k < l) <=> (l < k)
    BY <1>7
  <2>2. QED  BY <2>1
<1>10. stable = [k \in 1 .. n |-> items[places[k]]]
  BY <1>7
<1> HIDE DEF stable, R
<1>11. stable \in [1 .. n -> Item]
  BY <1>1, <1>7, <1>10
<1>12. stable \in Seq(Item) /\ Len(stable) = n
  BY <1>1, <1>11, FunctionIsSeq
<1> DEFINE sorted == SearchSorted(items, sort)
           Turned(k) == IF Ascending(sort) THEN k ELSE n + 1 - k
<1>13. sorted = [k \in 1 .. n |-> items[places[Turned(k)]]]
  <2>1. CASE Ascending(sort)
    BY <1>3, <1>10, <2>1
  <2>2. CASE ~Ascending(sort)
    <3>1. sorted = [k \in 1 .. n |-> stable[(n - k) + 1]]
      BY <1>3, <1>12, <2>2 DEF Reverse
    <3>2. \A k \in 1 .. n : (n - k) + 1 = Turned(k) /\ Turned(k) \in 1 .. n
      BY <1>1, <2>2
    <3>3. \A k \in 1 .. n : stable[(n - k) + 1] = items[places[Turned(k)]]
      BY <1>10, <3>2
    <3> HIDE DEF sorted, Turned
    <3>4. QED  BY <3>1, <3>3
  <2>3. QED  BY <2>1, <2>2
<1>14. \A k \in 1 .. n : Turned(k) \in 1 .. n /\ Turned(Turned(k)) = k
  BY <1>1
<1>15. \A k, l \in 1 .. n : Turned(k) = Turned(l) => k = l
  BY <1>1
<1>16. \A k, l \in 1 .. n :
          k < l => IF Ascending(sort) THEN Turned(k) < Turned(l) ELSE Turned(l) < Turned(k)
  BY <1>1
<1> HIDE DEF sorted, Turned
<1>17. \A k \in 1 .. n : /\ places[Turned(k)] \in 1 .. n
                         /\ sorted[k] = items[places[Turned(k)]]
  BY <1>7, <1>13, <1>14
<1>18. sorted \in [1 .. n -> Item]
  BY <1>1, <1>13, <1>17
<1>19. sorted \in Seq(Item) /\ Len(sorted) = n
  BY <1>1, <1>18, FunctionIsSeq
<1>20. \A i \in 1 .. n : \E k \in 1 .. n : sorted[k] = items[i]
  <2> TAKE i \in 1 .. n
  <2>1. PICK k \in 1 .. n : places[k] = i
    BY <1>7
  <2>2. Turned(k) \in 1 .. n /\ Turned(Turned(k)) = k
    BY <1>14
  <2>3. sorted[Turned(k)] = items[i]
    BY <1>17, <2>1, <2>2
  <2>4. QED  BY <2>2, <2>3
<1>21. ASSUME \A i, j \in 1 .. n : items[i].bid = items[j].bid => i = j
       PROVE  \A k, l \in 1 .. n : sorted[k].bid = sorted[l].bid => k = l
  <2> TAKE k, l \in 1 .. n
  <2> HAVE sorted[k].bid = sorted[l].bid
  <2>1. places[Turned(k)] = places[Turned(l)]
    BY <1>17, <1>21
  <2>2. Turned(k) = Turned(l)
    BY <1>9, <1>14, <2>1
  <2>3. QED  BY <1>15, <2>2
<1>22. ASSUME NEW k \in 1 .. n, NEW l \in 1 .. n, k < l
       PROVE  IF Ascending(sort)
              THEN SearchKey(sorted[k], sort, EndOf(items))
                       <= SearchKey(sorted[l], sort, EndOf(items))
              ELSE SearchKey(sorted[l], sort, EndOf(items))
                       <= SearchKey(sorted[k], sort, EndOf(items))
  <2>1. /\ SearchKey(sorted[k], sort, EndOf(items)) = Key(places[Turned(k)])
        /\ SearchKey(sorted[l], sort, EndOf(items)) = Key(places[Turned(l)])
    BY <1>17 DEF Key
  <2>2. Turned(k) \in 1 .. n /\ Turned(l) \in 1 .. n
    BY <1>14
  <2>3. IF Ascending(sort) THEN Turned(k) < Turned(l) ELSE Turned(l) < Turned(k)
    BY <1>16, <1>22
  <2>4. QED  BY <1>8, <2>1, <2>2, <2>3
<1>23. QED  BY <1>17, <1>19, <1>20, <1>21, <1>22 DEF sorted, n

-----------------------------------------------------------------------------
(* What is shown.                                                          *)

LEMMA FoundFacts ==
    ASSUME NEW items \in Seq(Item), NEW s
    PROVE  LET found == Found(items, s) IN
           /\ found \in Seq(Item)
           /\ \A k \in 1 .. Len(found) :
                 /\ MatchesSearch(found[k], s)
                 /\ \E i \in 1 .. Len(items) : found[k] = items[i] /\ IsNewest(items, i)
           /\ \A i \in 1 .. Len(items) :
                 MatchesSearch(NewestOf(items, items[i].bid), s)
                 => \E k \in 1 .. Len(found) : found[k] = NewestOf(items, items[i].bid)
           /\ \A k, l \in 1 .. Len(found) : found[k].bid = found[l].bid => k = l
<1> DEFINE d      == Deduped(items)
           places == {i \in DOMAIN d : MatchesSearch(d[i], s)}
           found  == At(d, places)
           m      == Cardinality(places)
           inc    == Increasing(places)
<1>1. /\ d \in Seq(Item)
      /\ \A k \in 1 .. Len(d) : \E i \in 1 .. Len(items) :
            d[k] = items[i] /\ d[k] = NewestOf(items, items[i].bid) /\ IsNewest(items, i)
      /\ \A i \in 1 .. Len(items) : \E k \in 1 .. Len(d) :
            d[k] = NewestOf(items, items[i].bid)
      /\ \A k, l \in 1 .. Len(d) : d[k].bid = d[l].bid => k = l
  BY DedupedFacts
<1>2. Found(items, s) = found
  BY DEF Found
<1> HIDE DEF d
<1>3. Len(d) \in Nat /\ DOMAIN d = 1 .. Len(d) /\ \A i \in 1 .. Len(d) : d[i] \in Item
  BY <1>1
<1>4. \A p : p \in places <=> (p \in 1 .. Len(d) /\ MatchesSearch(d[p], s))
  BY <1>3
<1> HIDE DEF places
<1>5. places \in SUBSET (1 .. Len(d))
  BY <1>4
<1>6. m \in 0 .. Len(d) /\ inc \in [1 .. m -> places]
  BY <1>3, <1>5, IncreasingFacts
<1>7. \A p \in places : \E k \in 1 .. m : inc[k] = p
  BY <1>3, <1>5, IncreasingFacts
<1>8. \A i, j \in 1 .. m : inc[i] < inc[j] <=> i < j
  BY <1>3, <1>5, IncreasingFacts
<1>9. found = [k \in 1 .. m |-> d[inc[k]]]
  BY <1>3, <1>5, AtFacts
<1> HIDE DEF m, inc, found
<1>10. \A k \in 1 .. m : /\ inc[k] \in places /\ inc[k] \in 1 .. Len(d)
                         /\ found[k] = d[inc[k]]
  BY <1>5, <1>6, <1>9
<1>11. found \in [1 .. m -> Item]
  BY <1>3, <1>9, <1>10
<1>12. found \in Seq(Item) /\ Len(found) = m /\ m \in Nat
  BY <1>6, <1>11, FunctionIsSeq
<1>13. \A k \in 1 .. m :
          /\ MatchesSearch(found[k], s)
          /\ \E i \in 1 .. Len(items) : found[k] = items[i] /\ IsNewest(items, i)
  <2> TAKE k \in 1 .. m
  <2>1. MatchesSearch(found[k], s)
    BY <1>4, <1>10
  <2>2. PICK i \in 1 .. Len(items) : d[inc[k]] = items[i] /\ IsNewest(items, i)
    BY <1>1, <1>10
  <2>3. QED  BY <1>10, <2>1, <2>2
<1>14. ASSUME NEW i \in 1 .. Len(items), MatchesSearch(NewestOf(items, items[i].bid), s)
       PROVE  \E k \in 1 .. m : found[k] = NewestOf(items, items[i].bid)
  <2>1. PICK p \in 1 .. Len(d) : d[p] = NewestOf(items, items[i].bid)
    BY <1>1
  <2>2. p \in places
    BY <1>4, <1>14, <2>1
  <2>3. PICK k \in 1 .. m : inc[k] = p
    BY <1>7, <2>2
  <2>4. QED  BY <1>10, <2>1, <2>3
<1>15. \A k, l \in 1 .. m : found[k].bid = found[l].bid => k = l
  <2> TAKE k, l \in 1 .. m
  <2> HAVE found[k].bid = found[l].bid
  <2>1. d[inc[k]].bid = d[inc[l]].bid /\ inc[k] \in 1 .. Len(d) /\ inc[l] \in 1 .. Len(d)
    BY <1>10
  <2>2. \A p, q \in 1 .. Len(d) : d[p].bid = d[q].bid => p = q
    BY <1>1
  <2>3. inc[k] = inc[l]
    BY <2>1, <2>2
  <2>4. inc[k] \in Nat
    BY <2>1
  <2>5. ~(k < l) /\ ~(l < k)
    BY <1>8, <2>3, <2>4
  <2>6. QED  BY <1>12, <2>5
<1>16. QED  BY <1>2, <1>12, <1>13, <1>14, <1>15

LEMMA FirstOfSeq ==
    ASSUME NEW T, NEW s \in Seq(T), NEW n \in Nat, n <= Len(s)
    PROVE  /\ SubSeq(s, 1, n) \in Seq(T) /\ Len(SubSeq(s, 1, n)) = n
           /\ \A k \in 1 .. n : SubSeq(s, 1, n)[k] = s[k]
<1>1. n \in 0 .. Len(s) /\ \A k \in 1 .. n : s[k] \in T
  OBVIOUS
<1>2. SubSeq(s, 1, n) = [k \in 1 .. n |-> s[k]]
  BY <1>1, SubSeqRestrict DEF Restrict
<1>3. [k \in 1 .. n |-> s[k]] \in [1 .. n -> T]
  BY <1>1
<1>4. QED  BY <1>2, <1>3, FunctionIsSeq

\* What the search shows of what it found: the best, in order.
LEMMA ResultsFacts ==
    ASSUME NEW items \in Seq(Item), NEW s
    PROVE  LET found  == Found(items, s)
               sorted == SearchSorted(found, s.sort)
               shown  == Results(items, s)
           IN  /\ sorted \in Seq(Item) /\ shown \in Seq(Item)
               /\ DOMAIN shown = 1 .. Len(shown)
               /\ Len(shown) = IF Limit <= Len(sorted) THEN Limit ELSE Len(sorted)
               /\ \A k \in 1 .. Len(shown) : k \in 1 .. Len(sorted) /\ shown[k] = sorted[k]
<1> DEFINE found  == Found(items, s)
           sorted == SearchSorted(found, s.sort)
           last   == IF Limit <= Len(sorted) THEN Limit ELSE Len(sorted)
<1>1. found \in Seq(Item)
  BY FoundFacts
<1>2. sorted \in Seq(Item)
  <2> HIDE DEF found
  <2>1. QED  BY <1>1, SearchSortedFacts
<1>3. Results(items, s) = SubSeq(sorted, 1, Min({Limit, Len(sorted)}))
  BY DEF Results
<1> HIDE DEF sorted
<1>4. Len(sorted) \in Nat /\ \A k \in 1 .. Len(sorted) : sorted[k] \in Item
  BY <1>2
<1>5. Limit \in Nat \ {0}
  BY SearchAssumption
<1>6. last \in Nat /\ last <= Len(sorted) /\ last = Min({Limit, Len(sorted)})
  BY <1>4, <1>5, MinOfTwo
<1> DEFINE shown == SubSeq(sorted, 1, last)
<1>7. \A k \in 1 .. last : k \in 1 .. Len(sorted) /\ sorted[k] \in Item
  BY <1>4, <1>6
<1> HIDE DEF last
<1>8. /\ shown \in Seq(Item) /\ Len(shown) = last
      /\ \A k \in 1 .. last : shown[k] = sorted[k]
  BY <1>2, <1>6, FirstOfSeq
<1>9. Results(items, s) = shown
  BY <1>3, <1>6
<1>10. DOMAIN shown = 1 .. Len(shown)
  BY <1>8
<1> HIDE DEF shown
<1>11. QED  BY <1>2, <1>7, <1>8, <1>9, <1>10 DEF sorted, last

=============================================================================
