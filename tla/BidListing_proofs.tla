-------------------------- MODULE BidListing_proofs --------------------------
(***************************************************************************)
(* Facts about the lists of bids: what a sequence in order is, that a list *)
(* is one, which versions of its notices a list keeps, and how pages cut   *)
(* it.                                                                     *)
(***************************************************************************)
EXTENDS BidListing, TLAPS, FiniteSetTheorems, SequenceTheorems

-----------------------------------------------------------------------------
(* Numbers.                                                                *)

LEMMA MinFacts ==
    ASSUME NEW S \in SUBSET Nat, S # {}
    PROVE  Min(S) \in S /\ \A k \in S : Min(S) <= k
<1>1. IsWellFoundedOn(OpToRel(<, Nat), Nat)
  BY NatLessThanWellFounded
<1>2. PICK x \in S : \A y \in S : ~(<<y, x>> \in OpToRel(<, Nat))
  BY <1>1, WFMin
<1>3. \A y \in S : ~(y < x)
  BY <1>2 DEF OpToRel
<1>4. \A y \in S : x <= y
  BY <1>3
<1>5. QED  BY <1>4 DEF Min

LEMMA MaxFacts ==
    ASSUME NEW S \in SUBSET Nat, S # {}, NEW n \in Nat, \A k \in S : k <= n
    PROVE  Max(S) \in S /\ \A k \in S : k <= Max(S)
<1> DEFINE M == {n - k : k \in S}
<1>1. M \in SUBSET Nat /\ M # {}
  <2>1. \A k \in S : n - k \in Nat
    OBVIOUS
  <2>2. PICK k : k \in S
    OBVIOUS
  <2>3. QED  BY <2>1, <2>2
<1>2. Min(M) \in M /\ \A d \in M : Min(M) <= d
  <2> HIDE DEF M
  <2>1. QED  BY <1>1, MinFacts
<1>3. PICK m \in S : Min(M) = n - m
  BY <1>2
<1>4. \A k \in S : n - m <= n - k
  BY <1>2, <1>3
<1>5. \A k \in S : m >= k
  BY <1>4
<1>6. Max(S) \in S /\ \A k \in S : Max(S) >= k
  BY <1>5 DEF Max
<1>7. QED  BY <1>6

LEMMA IntervalFacts ==
    ASSUME NEW n \in Nat
    PROVE  IsFiniteSet(1 .. n) /\ Cardinality(1 .. n) = n
BY FS_Interval

LEMMA MinOfTwo ==
    ASSUME NEW a \in Int, NEW b \in Int
    PROVE  Min({a, b}) = IF a <= b THEN a ELSE b
<1>1. CASE a <= b
  <2>1. \A y \in {a, b} : a <= y
    BY <1>1
  <2>2. \A x \in {a, b} : (\A y \in {a, b} : x <= y) => x = a
    BY <1>1
  <2>3. QED  BY <1>1, <2>1, <2>2 DEF Min
<1>2. CASE ~(a <= b)
  <2>1. \A y \in {a, b} : b <= y
    BY <1>2
  <2>2. \A x \in {a, b} : (\A y \in {a, b} : x <= y) => x = b
    BY <1>2
  <2>3. QED  BY <1>2, <2>1, <2>2 DEF Min
<1>3. QED  BY <1>1, <1>2

LEMMA MaxOfTwo ==
    ASSUME NEW a \in Int, NEW b \in Int
    PROVE  Max({a, b}) = IF a >= b THEN a ELSE b
<1>1. CASE a >= b
  <2>1. \A y \in {a, b} : a >= y
    BY <1>1
  <2>2. \A x \in {a, b} : (\A y \in {a, b} : x >= y) => x = a
    BY <1>1
  <2>3. QED  BY <1>1, <2>1, <2>2 DEF Max
<1>2. CASE ~(a >= b)
  <2>1. \A y \in {a, b} : b >= y
    BY <1>2
  <2>2. \A x \in {a, b} : (\A y \in {a, b} : x >= y) => x = b
    BY <1>2
  <2>3. QED  BY <1>2, <2>1, <2>2 DEF Max
<1>3. QED  BY <1>1, <1>2

-----------------------------------------------------------------------------
(* Sequences in order.                                                     *)

\* A strict order in which any two elements of S are comparable.
Orders(S, R) ==
    /\ \A x \in S : <<x, x>> \notin R
    /\ \A x, y, z \in S : (<<x, y>> \in R /\ <<y, z>> \in R) => <<x, z>> \in R
    /\ \A x, y \in S : x # y => (<<x, y>> \in R \/ <<y, x>> \in R)

\* The sequence s has every element of S once, in the order R.
Lists(s, S, R) ==
    /\ Cardinality(S) \in Nat
    /\ s \in [1 .. Cardinality(S) -> S]
    /\ \A x \in S : \E k \in 1 .. Cardinality(S) : s[k] = x
    /\ \A i, j \in 1 .. Cardinality(S) : (<<s[i], s[j]>> \in R) <=> (i < j)

\* The rank of an element, the number of those before it, is what only it has.
LEMMA SequencedFacts ==
    ASSUME NEW S, IsFiniteSet(S), NEW R, Orders(S, R)
    PROVE  Lists(Sequenced(S, R), S, R)
<1> DEFINE n         == Cardinality(S)
           Before(x) == {y \in S : <<y, x>> \in R}
           rank      == [x \in S |-> Cardinality(Before(x))]
           s         == Sequenced(S, R)
<1>1. n \in Nat
  BY FS_CardinalityType
<1>2. \A x \in S : rank[x] \in 0 .. n - 1
  <2> TAKE x \in S
  <2>1. Before(x) \in SUBSET S /\ x \notin Before(x)
    BY DEF Orders
  <2>2. /\ IsFiniteSet(Before(x)) /\ Cardinality(Before(x)) <= n
        /\ n = Cardinality(Before(x)) => S = Before(x)
    BY <2>1, FS_Subset
  <2>3. Cardinality(Before(x)) \in Nat
    BY <2>2, FS_CardinalityType
  <2>4. Cardinality(Before(x)) # n
    BY <2>1, <2>2
  <2> HIDE DEF Before
  <2>5. QED  BY <1>1, <2>2, <2>3, <2>4
<1>3. \A x, y \in S : <<x, y>> \in R => rank[x] < rank[y]
  <2> TAKE x, y \in S
  <2> HAVE <<x, y>> \in R
  <2>1. Before(x) \in SUBSET Before(y) /\ x \in Before(y) /\ x \notin Before(x)
    BY DEF Orders
  <2>2. IsFiniteSet(Before(y))
    <3>1. Before(y) \in SUBSET S
      OBVIOUS
    <3>2. QED  BY <3>1, FS_Subset
  <2>3. /\ Cardinality(Before(x)) <= Cardinality(Before(y))
        /\ Cardinality(Before(x)) = Cardinality(Before(y)) => Before(x) = Before(y)
    <3> HIDE DEF Before
    <3>1. QED  BY <2>1, <2>2, FS_Subset
  <2>4. Cardinality(Before(x)) # Cardinality(Before(y))
    BY <2>1, <2>3
  <2>5. rank[x] \in Int /\ rank[y] \in Int
    BY <1>2
  <2>6. rank[x] = Cardinality(Before(x)) /\ rank[y] = Cardinality(Before(y))
    OBVIOUS
  <2> HIDE DEF Before, rank
  <2>7. QED  BY <2>3, <2>4, <2>5, <2>6
<1>4. \A x, y \in S : rank[x] = rank[y] => x = y
  <2> TAKE x, y \in S
  <2>1. rank[x] \in Int /\ rank[y] \in Int
    BY <1>2
  <2>2. ~(rank[x] < rank[y]) /\ ~(rank[y] < rank[x]) => x = y
    <3> HIDE DEF rank
    <3>1. QED  BY <1>3 DEF Orders
  <2> HIDE DEF rank
  <2>3. QED  BY <2>1, <2>2
<1>5. \A k \in 0 .. n - 1 : \E x \in S : rank[x] = k
  <2>1. rank \in [S -> 0 .. n - 1]
    <3>1. rank = [x \in S |-> rank[x]]
      <4> HIDE DEF Before
      <4>1. QED  OBVIOUS
    <3> HIDE DEF rank
    <3>2. QED  BY <1>2, <3>1
  <2>2. rank \in Injection(S, 0 .. n - 1)
    <3> HIDE DEF rank
    <3>1. QED  BY <1>4, <2>1 DEF Injection, IsInjective
  <2>3. IsFiniteSet(0 .. n - 1) /\ Cardinality(0 .. n - 1) = n
    BY <1>1, FS_Interval
  <2>4. rank \in Surjection(S, 0 .. n - 1)
    <3> HIDE DEF rank
    <3>1. QED  BY <2>2, <2>3, FS_Injection, Zenon
  <2> HIDE DEF rank
  <2>5. QED  BY <2>4 DEF Surjection
<1> DEFINE e(k) == CHOOSE x \in S : Cardinality(Before(x)) = k - 1
<1>6. \A k \in 1 .. n : e(k) \in S /\ rank[e(k)] = k - 1
  <2> TAKE k \in 1 .. n
  <2>1. k - 1 \in 0 .. n - 1
    BY <1>1
  <2>2. \E x \in S : rank[x] = k - 1
    BY <1>5, <2>1
  <2>3. \A x \in S : rank[x] = Cardinality(Before(x))
    OBVIOUS
  <2> HIDE DEF Before, rank
  <2>4. \E x \in S : Cardinality(Before(x)) = k - 1
    BY <2>2, <2>3
  <2>5. e(k) \in S /\ Cardinality(Before(e(k))) = k - 1
    BY <2>4
  <2>6. QED  BY <2>3, <2>5
<1>7. s = [k \in 1 .. n |-> e(k)]
  BY DEF Sequenced
<1> HIDE DEF e
<1>8. s \in [1 .. n -> S] /\ \A k \in 1 .. n : rank[s[k]] = k - 1
  <2> HIDE DEF s, rank
  <2>1. QED  BY <1>6, <1>7
<1> HIDE DEF s, rank, n
<1>9. \A x \in S : \E k \in 1 .. n : s[k] = x
  <2> TAKE x \in S
  <2>1. rank[x] + 1 \in 1 .. n
    BY <1>1, <1>2
  <2>2. s[rank[x] + 1] \in S /\ rank[s[rank[x] + 1]] = rank[x]
    BY <1>2, <1>8, <2>1
  <2>3. s[rank[x] + 1] = x
    BY <1>4, <2>2
  <2>4. QED  BY <2>1, <2>3
<1>10. \A i, j \in 1 .. n : (<<s[i], s[j]>> \in R) <=> (i < j)
  <2> TAKE i, j \in 1 .. n
  <2>1. s[i] \in S /\ s[j] \in S /\ rank[s[i]] = i - 1 /\ rank[s[j]] = j - 1
    BY <1>8
  <2>2. i < j => <<s[i], s[j]>> \in R
    <3> HAVE i < j
    <3>1. s[i] # s[j] /\ ~(rank[s[j]] < rank[s[i]])
      BY <2>1, <1>1
    <3>2. <<s[j], s[i]>> \notin R
      BY <1>3, <2>1, <3>1
    <3>3. QED  BY <2>1, <3>1, <3>2 DEF Orders
  <2>3. <<s[i], s[j]>> \in R => i < j
    <3> HAVE <<s[i], s[j]>> \in R
    <3>1. rank[s[i]] < rank[s[j]]
      BY <1>3, <2>1
    <3>2. QED  BY <1>1, <2>1, <3>1
  <2>4. QED  BY <2>2, <2>3
<1>11. QED  BY <1>1, <1>8, <1>9, <1>10 DEF Lists, s, n

LEMMA FunctionIsSeq ==
    ASSUME NEW T, NEW n \in Nat, NEW s \in [1 .. n -> T]
    PROVE  s \in Seq(T) /\ Len(s) = n /\ DOMAIN s = 1 .. n
OBVIOUS

Increasing(places) == Sequenced(places, {p \in places \X places : p[1] < p[2]})

\* Places in increasing order.
LEMMA IncreasingFacts ==
    ASSUME NEW n \in Nat, NEW places \in SUBSET (1 .. n)
    PROVE  LET m   == Cardinality(places)
               inc == Increasing(places)
           IN  /\ m \in 0 .. n
               /\ inc \in [1 .. m -> places]
               /\ \A p \in places : \E k \in 1 .. m : inc[k] = p
               /\ \A i, j \in 1 .. m : inc[i] < inc[j] <=> i < j
<1> DEFINE R   == {p \in places \X places : p[1] < p[2]}
           inc == Increasing(places)
           m   == Cardinality(places)
<1>1. IsFiniteSet(places) /\ m \in 0 .. n
  <2>1. IsFiniteSet(1 .. n) /\ Cardinality(1 .. n) = n
    BY FS_Interval
  <2>2. IsFiniteSet(places) /\ m <= n
    BY <2>1, FS_Subset
  <2>3. QED  BY <2>2, FS_CardinalityType
<1>2. Orders(places, R)
  BY DEF Orders
<1>3. Lists(inc, places, R)
  <2>1. inc = Sequenced(places, R)
    BY DEF Increasing
  <2> HIDE DEF R, inc
  <2>2. QED  BY <1>1, <1>2, <2>1, SequencedFacts
<1>4. inc \in [1 .. m -> places] /\ \A p \in places : \E k \in 1 .. m : inc[k] = p
  BY <1>3 DEF Lists
<1>5. \A i, j \in 1 .. m : inc[i] < inc[j] <=> i < j
  <2> TAKE i, j \in 1 .. m
  <2>1. inc[i] \in places /\ inc[j] \in places
    BY <1>4
  <2>2. (<<inc[i], inc[j]>> \in R) <=> (i < j)
    BY <1>3 DEF Lists
  <2> HIDE DEF inc
  <2>3. QED  BY <2>1, <2>2
<1> HIDE DEF inc, m
<1>6. QED  BY <1>1, <1>4, <1>5 DEF inc, m

LEMMA AtFacts ==
    ASSUME NEW n \in Nat, NEW places \in SUBSET (1 .. n), NEW list
    PROVE  At(list, places)
               = [k \in 1 .. Cardinality(places) |-> list[Increasing(places)[k]]]
<1> DEFINE inc == Increasing(places)
           m   == Cardinality(places)
<1>1. At(list, places) = [k \in DOMAIN inc |-> list[inc[k]]]
  BY DEF At, Increasing
<1>2. inc \in [1 .. m -> places]
  BY IncreasingFacts
<1> HIDE DEF inc, m
<1>3. DOMAIN inc = 1 .. m
  BY <1>2
<1>4. At(list, places) = [k \in 1 .. m |-> list[inc[k]]]
  BY <1>1, <1>3
<1>5. QED  BY <1>4 DEF inc, m

LEMMA AtIsSeq ==
    ASSUME NEW T, NEW list \in Seq(T), NEW places \in SUBSET DOMAIN list
    PROVE  At(list, places) \in Seq(T) /\ Len(At(list, places)) <= Len(list)
<1> DEFINE m   == Cardinality(places)
           inc == Increasing(places)
<1>1. Len(list) \in Nat /\ DOMAIN list = 1 .. Len(list)
      /\ \A i \in 1 .. Len(list) : list[i] \in T
  OBVIOUS
<1>2. /\ m \in 0 .. Len(list) /\ inc \in [1 .. m -> places]
      /\ At(list, places) = [k \in 1 .. m |-> list[inc[k]]]
  <2>1. places \in SUBSET (1 .. Len(list))
    BY <1>1
  <2>2. m \in 0 .. Len(list) /\ inc \in [1 .. m -> places]
    BY <1>1, <2>1, IncreasingFacts
  <2>3. At(list, places) = [k \in 1 .. m |-> list[inc[k]]]
    BY <1>1, <2>1, AtFacts
  <2>4. QED  BY <2>2, <2>3
<1> HIDE DEF m, inc
<1>3. [k \in 1 .. m |-> list[inc[k]]] \in [1 .. m -> T]
  BY <1>1, <1>2
<1>4. QED  BY <1>1, <1>2, <1>3, FunctionIsSeq

-----------------------------------------------------------------------------
(* The query.                                                              *)

AnyTable == [Bids -> Row \cup {Absent}]

LEMMA StoredFacts ==
    ASSUME NEW table \in AnyTable
    PROVE  Stored(table) \in SUBSET Bids /\ \A b \in Stored(table) : table[b] \in Row
BY DEF AnyTable, Stored

LEMMA BidFacts ==
    /\ \A b \in Bids : b.no \in Nat /\ b.seq \in Nat
    /\ \A a, b \in Bids : (a.no = b.no /\ a.seq = b.seq) => a = b
BY BidAssumption

LEMMA SortKeyIsNat ==
    ASSUME NEW table \in AnyTable, NEW f \in Filter, NEW b \in Stored(table)
    PROVE  SortKey(table, b, f) \in Nat
<1>1. b \in Bids /\ table[b].changed \in Nat
  BY StoredFacts DEF Row
<1>2. f.sort \in Columns \cup {"updated_at"}
  BY DEF Filter
<1>3. QED  BY <1>1, <1>2, BidAssumption DEF SortKey

\* Any two bids differ in the key or in the number.
LEMMA KeyBeforeOrders ==
    ASSUME NEW table \in AnyTable, NEW f \in Filter
    PROVE  /\ \A a \in Stored(table) : ~KeyBefore(table, a, a, f)
           /\ \A a, b, c \in Stored(table) :
                 (KeyBefore(table, a, b, f) /\ KeyBefore(table, b, c, f))
                 => KeyBefore(table, a, c, f)
           /\ \A a, b \in Stored(table) :
                 a # b => (KeyBefore(table, a, b, f) \/ KeyBefore(table, b, a, f))
<1>1. \A b \in Stored(table) : SortKey(table, b, f) \in Nat
  BY SortKeyIsNat
<1>2. \A b \in Stored(table) : b \in Bids /\ b.no \in Nat /\ b.seq \in Nat
  BY StoredFacts, BidFacts
<1>3. \A a, b \in Stored(table) : (a.no = b.no /\ a.seq = b.seq) => a = b
  BY <1>2, BidFacts
<1>4. QED  BY <1>1, <1>2, <1>3 DEF KeyBefore, IdBefore

Order(table, S, f) ==
    {p \in S \X S : IF f.order = "asc" THEN KeyBefore(table, p[1], p[2], f)
                                       ELSE KeyBefore(table, p[2], p[1], f)}

LEMMA OrderOrders ==
    ASSUME NEW table \in AnyTable, NEW f \in Filter, NEW S \in SUBSET Stored(table)
    PROVE  Orders(S, Order(table, S, f))
<1>1. CASE f.order = "asc"
  <2>1. \A a, b \in S : (<<a, b>> \in Order(table, S, f)) <=> KeyBefore(table, a, b, f)
    BY <1>1 DEF Order
  <2>2. QED  BY <2>1, KeyBeforeOrders DEF Orders
<1>2. CASE f.order # "asc"
  <2>1. \A a, b \in S : (<<a, b>> \in Order(table, S, f)) <=> KeyBefore(table, b, a, f)
    BY <1>2 DEF Order
  <2>2. QED  BY <2>1, KeyBeforeOrders DEF Orders
<1>3. QED  BY <1>1, <1>2

LEMMA InOrderFacts ==
    ASSUME NEW table \in AnyTable, NEW f \in Filter, NEW S \in SUBSET Stored(table)
    PROVE  LET list == InOrder(table, S, f)
               n    == Cardinality(S)
           IN  /\ n \in Nat /\ list \in [1 .. n -> S] /\ list \in Seq(Bids)
               /\ Len(list) = n /\ DOMAIN list = 1 .. n
               /\ \A b \in S : \E k \in 1 .. n : list[k] = b
               /\ \A i, j \in 1 .. n : list[i] = list[j] => i = j
               /\ \A i, j \in 1 .. n :
                     i < j => IF f.order = "asc"
                              THEN KeyBefore(table, list[i], list[j], f)
                              ELSE KeyBefore(table, list[j], list[i], f)
<1> DEFINE list == InOrder(table, S, f)
           n    == Cardinality(S)
<1>1. S \in SUBSET Bids /\ IsFiniteSet(S)
  <2>1. S \in SUBSET Bids
    BY StoredFacts
  <2>2. QED  BY <2>1, BidAssumption, FS_Subset
<1>2. Lists(list, S, Order(table, S, f))
  <2>1. list = Sequenced(S, Order(table, S, f))
    BY DEF InOrder, Order
  <2>2. QED  BY <1>1, <2>1, OrderOrders, SequencedFacts
<1> HIDE DEF list
<1>3. /\ n \in Nat /\ list \in [1 .. n -> S]
      /\ \A b \in S : \E k \in 1 .. n : list[k] = b
      /\ \A i, j \in 1 .. n : (<<list[i], list[j]>> \in Order(table, S, f)) <=> (i < j)
  BY <1>2 DEF Lists
<1>4. list \in Seq(S) /\ Len(list) = n /\ DOMAIN list = 1 .. n
  BY <1>3, FunctionIsSeq
<1>5. list \in Seq(Bids)
  BY <1>1, <1>4, SeqMonotonic
<1>6. \A i, j \in 1 .. n : list[i] = list[j] => i = j
  <2> SUFFICES ASSUME NEW i \in 1 .. n, NEW j \in 1 .. n, list[i] = list[j], i # j
               PROVE  FALSE
    OBVIOUS
  <2>1. list[i] \in S
    BY <1>3
  <2>2. <<list[i], list[i]>> \notin Order(table, S, f)
    BY <2>1, OrderOrders DEF Orders
  <2>3. i < j \/ j < i
    BY <1>3
  <2>4. QED  BY <1>3, <2>2, <2>3
<1>7. \A i, j \in 1 .. n :
          i < j => IF f.order = "asc" THEN KeyBefore(table, list[i], list[j], f)
                                      ELSE KeyBefore(table, list[j], list[i], f)
  <2> TAKE i, j \in 1 .. n
  <2> HAVE i < j
  <2>1. <<list[i], list[j]>> \in Order(table, S, f)
    BY <1>3
  <2>2. QED  BY <2>1 DEF Order
<1>8. QED  BY <1>3, <1>4, <1>5, <1>6, <1>7 DEF list

\* The stored bids that the filter of a query wants.
Wanted(table, f) ==
    {b \in Stored(table) :
        /\ MatchesTexts(b, f) /\ MatchesRow(table[b], f)
        /\ \A c \in Ranges : InRange(Column[c][b], f.from[c], f.to[c])}

LEMMA ListStatementFacts ==
    ASSUME NEW table \in AnyTable, NEW f \in Filter
    PROVE  LET list == ListStatement(table, f) IN
           /\ list \in Seq(Bids) /\ Len(list) \in Nat /\ DOMAIN list = 1 .. Len(list)
           /\ \A i \in 1 .. Len(list) : list[i] \in Wanted(table, f)
           /\ \A b \in Wanted(table, f) : \E i \in 1 .. Len(list) : list[i] = b
           /\ \A i, j \in 1 .. Len(list) : list[i] = list[j] => i = j
           /\ \A i, j \in 1 .. Len(list) :
                 i < j => IF f.order = "asc"
                          THEN KeyBefore(table, list[i], list[j], f)
                          ELSE KeyBefore(table, list[j], list[i], f)
<1> DEFINE list == InOrder(table, Wanted(table, f), f)
           n    == Cardinality(Wanted(table, f))
<1>1. ListStatement(table, f) = list
  BY DEF ListStatement, Wanted
<1>2. Wanted(table, f) \in SUBSET Stored(table)
  BY DEF Wanted
<1>3. /\ n \in Nat /\ list \in [1 .. n -> Wanted(table, f)] /\ list \in Seq(Bids)
      /\ Len(list) = n /\ DOMAIN list = 1 .. n
      /\ \A b \in Wanted(table, f) : \E k \in 1 .. n : list[k] = b
      /\ \A i, j \in 1 .. n : list[i] = list[j] => i = j
      /\ \A i, j \in 1 .. n :
            i < j => IF f.order = "asc" THEN KeyBefore(table, list[i], list[j], f)
                                        ELSE KeyBefore(table, list[j], list[i], f)
  BY <1>2, InOrderFacts
<1> HIDE DEF list, n
<1>4. QED  BY <1>1, <1>3

-----------------------------------------------------------------------------
(* The selection of versions.                                              *)

LEMMA RepresentativeFacts ==
    ASSUME NEW table, NEW list \in Seq(Bids), NEW no,
           \E i \in 1 .. Len(list) : list[i].no = no
    PROVE  \E j \in 1 .. Len(list) :
              /\ Representative(table, list, no) = list[j] /\ list[j].no = no
              /\ \A i \in 1 .. Len(list) :
                    (list[i].no = no /\ ~NonEffective(table, list[i]))
                    => (~NonEffective(table, list[j]) /\ j <= i)
<1> DEFINE versions  == VersionsIn(list, no)
           effective == {i \in versions : ~NonEffective(table, list[i])}
<1>1. Representative(table, list, no)
          = list[Min(IF effective # {} THEN effective ELSE versions)]
  BY DEF Representative
<1>2. \A i : i \in versions <=> (i \in 1 .. Len(list) /\ list[i].no = no)
  BY DEF VersionsIn
<1>3. versions \in SUBSET Nat /\ versions # {}
  BY <1>2
<1> HIDE DEF versions
<1>4. CASE effective # {}
  <2>1. effective \in SUBSET Nat
    BY <1>3
  <2>2. \A i : i \in effective <=> (i \in versions /\ ~NonEffective(table, list[i]))
    OBVIOUS
  <2> HIDE DEF effective
  <2>3. Min(effective) \in effective /\ \A i \in effective : Min(effective) <= i
    BY <1>4, <2>1, MinFacts
  <2>4. Representative(table, list, no) = list[Min(effective)]
    BY <1>1, <1>4
  <2>5. QED  BY <1>2, <2>2, <2>3, <2>4
<1>5. CASE effective = {}
  <2>1. Min(versions) \in versions
    BY <1>3, MinFacts
  <2>2. Representative(table, list, no) = list[Min(versions)]
    BY <1>1, <1>5
  <2>3. \A i \in versions : NonEffective(table, list[i])
    BY <1>5
  <2> HIDE DEF effective
  <2>4. QED  BY <1>2, <2>1, <2>2, <2>3
<1>6. QED  BY <1>4, <1>5

LEMMA FirstPlacesFacts ==
    ASSUME NEW list \in Seq(Bids)
    PROVE  /\ FirstPlaces(list) \in SUBSET (1 .. Len(list))
           /\ \A i \in 1 .. Len(list) :
                 \E p \in FirstPlaces(list) : list[p].no = list[i].no
           /\ \A p, q \in FirstPlaces(list) : list[p].no = list[q].no => p = q
           /\ \A p \in FirstPlaces(list) : \A i \in 1 .. Len(list) :
                 list[i].no = list[p].no => p <= i
<1>1. Len(list) \in Nat /\ DOMAIN list = 1 .. Len(list)
  OBVIOUS
<1>2. \A p : p \in FirstPlaces(list) <=>
             (p \in 1 .. Len(list) /\ \A j \in 1 .. p - 1 : list[j].no # list[p].no)
  BY <1>1 DEF FirstPlaces
<1>3. ASSUME NEW i \in 1 .. Len(list)
      PROVE  \E p \in FirstPlaces(list) : list[p].no = list[i].no
  <2> DEFINE places == VersionsIn(list, list[i].no)
  <2>1. \A p : p \in places <=> (p \in 1 .. Len(list) /\ list[p].no = list[i].no)
    BY <1>1 DEF VersionsIn
  <2> HIDE DEF places
  <2>2. places \in SUBSET Nat /\ places # {}
    BY <1>1, <2>1
  <2>3. Min(places) \in places /\ \A p \in places : Min(places) <= p
    BY <2>2, MinFacts
  <2>4. \A j \in 1 .. Min(places) - 1 : list[j].no # list[Min(places)].no
    BY <1>1, <2>1, <2>3
  <2>5. QED  BY <1>2, <2>1, <2>3, <2>4
<1>4. ASSUME NEW p \in FirstPlaces(list), NEW q \in FirstPlaces(list),
             list[p].no = list[q].no
      PROVE  p = q
  <2>1. ~(p < q) /\ ~(q < p)
    BY <1>1, <1>2, <1>4
  <2>2. QED  BY <1>1, <1>2, <2>1
<1>5. ASSUME NEW p \in FirstPlaces(list), NEW i \in 1 .. Len(list),
             list[i].no = list[p].no
      PROVE  p <= i
  <2>1. ~(i \in 1 .. p - 1)
    BY <1>2, <1>5
  <2>2. QED  BY <1>1, <1>2, <2>1
<1>6. QED  BY <1>2, <1>3, <1>4, <1>5

\* A list by its versions is left as it is.
LEMMA VersionsAreKept ==
    ASSUME NEW table, NEW list, NEW f,
           f.versions \/ \E i \in DOMAIN list : list[i].no = f.query
    PROVE  VersionSelection(table, list, f) = list
BY DEF VersionSelection

\* Otherwise one bid stands for each notice of it, and the notices are in the
\* order in which the list comes upon them.
LEMMA SelectionFacts ==
    ASSUME NEW table, NEW list \in Seq(Bids), NEW f, ~f.versions,
           \A i \in 1 .. Len(list) : list[i].no # f.query
    PROVE  LET latest == VersionSelection(table, list, f) IN
           /\ latest \in Seq(Bids) /\ Len(latest) <= Len(list)
           /\ \A k \in 1 .. Len(latest) : \E j \in 1 .. Len(list) :
                 /\ latest[k] = list[j]
                 /\ \A i \in 1 .. Len(list) :
                       (list[i].no = list[j].no /\ ~NonEffective(table, list[i]))
                       => (~NonEffective(table, list[j]) /\ j <= i)
           /\ \A i \in 1 .. Len(list) :
                 \E k \in 1 .. Len(latest) : latest[k].no = list[i].no
           /\ \A k, l \in 1 .. Len(latest) : latest[k].no = latest[l].no => k = l
           /\ \A k, l \in 1 .. Len(latest) : k < l => \E p \in 1 .. Len(list) :
                 /\ list[p].no = latest[k].no
                 /\ \A i \in 1 .. Len(list) : list[i].no = latest[l].no => p < i
<1> DEFINE latest == VersionSelection(table, list, f)
           n      == Len(list)
           first  == FirstPlaces(list)
           heads  == At(list, first)
           m      == Cardinality(first)
           inc    == Increasing(first)
           Rep(k) == Representative(table, list, list[inc[k]].no)
<1>1. n \in Nat /\ DOMAIN list = 1 .. n /\ \A i \in 1 .. n : list[i] \in Bids
  OBVIOUS
<1>2. /\ first \in SUBSET (1 .. n)
      /\ \A i \in 1 .. n : \E p \in first : list[p].no = list[i].no
      /\ \A p, q \in first : list[p].no = list[q].no => p = q
      /\ \A p \in first : \A i \in 1 .. n : list[i].no = list[p].no => p <= i
  BY FirstPlacesFacts
<1>3. latest = [k \in DOMAIN heads |-> Representative(table, list, heads[k].no)]
  BY <1>1 DEF VersionSelection
<1> HIDE DEF n, first
<1>4. /\ m \in 0 .. n /\ inc \in [1 .. m -> first]
      /\ \A p \in first : \E k \in 1 .. m : inc[k] = p
      /\ \A i, j \in 1 .. m : inc[i] < inc[j] <=> i < j
      /\ heads = [k \in 1 .. m |-> list[inc[k]]]
  <2>1. first \in SUBSET (1 .. n)
    BY <1>2
  <2>2. m \in 0 .. n /\ inc \in [1 .. m -> first]
    BY <1>1, <2>1, IncreasingFacts
  <2>3. \A p \in first : \E k \in 1 .. m : inc[k] = p
    BY <1>1, <2>1, IncreasingFacts
  <2>4. \A i, j \in 1 .. m : inc[i] < inc[j] <=> i < j
    BY <1>1, <2>1, IncreasingFacts
  <2>5. heads = [k \in 1 .. m |-> list[inc[k]]]
    BY <1>1, <2>1, AtFacts
  <2>6. QED  BY <2>2, <2>3, <2>4, <2>5
<1> HIDE DEF heads, m, inc, latest
<1>5. latest = [k \in 1 .. m |-> Rep(k)]
  BY <1>3, <1>4
<1>6. \A k \in 1 .. m : inc[k] \in 1 .. n
  BY <1>2, <1>4
<1>7. \A k \in 1 .. m : \E j \in 1 .. n :
          /\ Rep(k) = list[j] /\ list[j].no = list[inc[k]].no
          /\ \A i \in 1 .. n :
                (list[i].no = list[inc[k]].no /\ ~NonEffective(table, list[i]))
                => (~NonEffective(table, list[j]) /\ j <= i)
  <2> TAKE k \in 1 .. m
  <2>1. inc[k] \in 1 .. n
    BY <1>6
  <2>2. QED  BY <2>1, RepresentativeFacts DEF n
<1> HIDE DEF Rep
<1>8. latest \in [1 .. m -> Bids]
  BY <1>1, <1>5, <1>7
<1>9. latest \in Seq(Bids) /\ Len(latest) = m /\ m \in Nat
  BY <1>4, <1>8, FunctionIsSeq
<1>10. \A k \in 1 .. m : latest[k] = Rep(k) /\ latest[k].no = list[inc[k]].no
  BY <1>5, <1>7
<1>11. \A k, l \in 1 .. m : latest[k].no = latest[l].no => k = l
  <2> TAKE k, l \in 1 .. m
  <2> HAVE latest[k].no = latest[l].no
  <2>1. inc[k] \in first /\ inc[l] \in first /\ inc[k] \in 1 .. n
    BY <1>4, <1>6
  <2>2. list[inc[k]].no = list[inc[l]].no
    BY <1>10
  <2>3. inc[k] = inc[l]
    BY <1>2, <2>1, <2>2
  <2>4. ~(k < l) /\ ~(l < k)
    BY <1>1, <1>4, <2>1, <2>3
  <2>5. QED  BY <1>4, <2>4
<1>12. \A i \in 1 .. n : \E k \in 1 .. m : latest[k].no = list[i].no
  BY <1>2, <1>4, <1>10
<1>13. \A k \in 1 .. m : \E j \in 1 .. n :
          /\ latest[k] = list[j]
          /\ \A i \in 1 .. n :
                (list[i].no = list[j].no /\ ~NonEffective(table, list[i]))
                => (~NonEffective(table, list[j]) /\ j <= i)
  BY <1>7, <1>10
<1>14. ASSUME NEW k \in 1 .. m, NEW l \in 1 .. m, k < l
       PROVE  \E p \in 1 .. n :
                 /\ list[p].no = latest[k].no
                 /\ \A i \in 1 .. n : list[i].no = latest[l].no => p < i
  <2>1. /\ inc[k] \in 1 .. n /\ inc[l] \in 1 .. n /\ inc[l] \in first
        /\ inc[k] < inc[l]
    BY <1>4, <1>6, <1>14
  <2>2. \A i \in 1 .. n : list[i].no = latest[l].no => inc[l] <= i
    BY <1>2, <1>10, <2>1
  <2>3. \A i \in 1 .. n : list[i].no = latest[l].no => inc[k] < i
    BY <1>1, <2>1, <2>2
  <2>4. QED  BY <1>10, <2>1, <2>3
<1>15. QED  BY <1>4, <1>9, <1>11, <1>12, <1>13, <1>14 DEF latest, n

-----------------------------------------------------------------------------
(* Pages.                                                                  *)

LEMMA TimesMonotone ==
    ASSUME NEW a \in Nat, NEW b \in Nat, NEW c \in Nat, a <= b
    PROVE  a * c <= b * c
<1>1. PICK d \in Nat : b = a + d
  <2>1. b - a \in Nat /\ b = a + (b - a)
    OBVIOUS
  <2>2. QED  BY <2>1
<1>2. b * c = a * c + d * c
  BY <1>1
<1>3. d * c \in Nat /\ a * c \in Nat
  BY <1>1
<1>4. QED  BY <1>2, <1>3

LEMMA DivFacts ==
    ASSUME NEW a \in Nat, NEW c \in Nat \ {0}
    PROVE  LET q == a \div c IN q \in Nat /\ q * c <= a /\ a < (q + 1) * c
OBVIOUS

\* How many bids come before a page.
Before(page) == (page - 1) * PageSize

LEMMA BeforeFacts ==
    ASSUME NEW page \in Nat \ {0}
    PROVE  /\ Before(page) \in Nat
           /\ page * PageSize = Before(page) + PageSize
           /\ page = 1 => Before(page) = 0
<1>1. page - 1 \in Nat /\ PageSize \in Nat \ {0}
  BY SettingAssumption
<1>2. page * PageSize = (page - 1) * PageSize + PageSize
  <2>1. page = (page - 1) + 1
    OBVIOUS
  <2>2. \A k \in Nat : (k + 1) * PageSize = k * PageSize + PageSize
    BY <1>1
  <2>3. QED  BY <1>1, <2>1, <2>2
<1>3. (page - 1) * PageSize \in Nat
  BY <1>1
<1>4. QED  BY <1>1, <1>2, <1>3 DEF Before

\* A page after the first exists if there are bids on it.
LEMMA TotalPagesFacts ==
    ASSUME NEW total \in Nat
    PROVE  /\ TotalPages(total) \in Nat \ {0}
           /\ \A page \in Nat \ {0} :
                 page <= TotalPages(total) <=> (page = 1 \/ Before(page) < total)
<1> DEFINE q == (total + PageSize - 1) \div PageSize
<1>1. PageSize \in Nat \ {0}
  BY SettingAssumption
<1>2. q \in Nat /\ q * PageSize <= total + PageSize - 1
      /\ total + PageSize - 1 < (q + 1) * PageSize
  <2>1. total + PageSize - 1 \in Nat
    BY <1>1
  <2>2. QED  BY <1>1, <2>1, DivFacts
<1>3. TotalPages(total) = Max({1, q})
  BY DEF TotalPages
<1> HIDE DEF q
<1>4. TotalPages(total) = IF 1 >= q THEN 1 ELSE q
  BY <1>2, <1>3, MaxOfTwo
<1>5. ASSUME NEW page \in Nat \ {0}
      PROVE  page <= q <=> Before(page) < total
  <2>1. Before(page) \in Nat /\ page * PageSize = Before(page) + PageSize
    BY BeforeFacts
  <2>2. CASE page <= q
    <3>1. page * PageSize <= q * PageSize
      BY <1>1, <1>2, <2>2, TimesMonotone
    <3>2. q * PageSize \in Nat
      BY <1>1, <1>2
    <3>3. QED  BY <1>1, <1>2, <2>1, <2>2, <3>1, <3>2
  <2>3. CASE q + 1 <= page
    <3>1. (q + 1) * PageSize <= page * PageSize
      BY <1>1, <1>2, <2>3, TimesMonotone
    <3>2. (q + 1) * PageSize \in Nat
      BY <1>1, <1>2
    <3>3. QED  BY <1>1, <1>2, <2>1, <2>3, <3>1, <3>2
  <2>4. QED  BY <1>2, <2>2, <2>3
<1>6. QED  BY <1>2, <1>4, <1>5

LEMMA PageOfFacts ==
    ASSUME NEW list \in Seq(Bids), NEW page \in Nat \ {0}
    PROVE  LET last == IF Before(page) + PageSize <= Len(list)
                       THEN Before(page) + PageSize ELSE Len(list)
           IN  /\ PageOf(list, page) = SubSeq(list, Before(page) + 1, last)
               /\ PageOf(list, page) \in Seq(Bids)
               /\ Len(list) <= Before(page) => PageOf(list, page) = <<>>
<1> DEFINE last == IF Before(page) + PageSize <= Len(list)
                   THEN Before(page) + PageSize ELSE Len(list)
<1>1. /\ Before(page) \in Nat /\ page * PageSize = Before(page) + PageSize
      /\ PageSize \in Nat \ {0} /\ Len(list) \in Nat
  <2>1. Before(page) \in Nat /\ page * PageSize = Before(page) + PageSize
    BY BeforeFacts
  <2>2. PageSize \in Nat \ {0}
    BY SettingAssumption
  <2>3. Len(list) \in Nat
    OBVIOUS
  <2>4. QED  BY <2>1, <2>2, <2>3
<1>2. last = Min({page * PageSize, Len(list)}) /\ last \in Nat /\ last <= Len(list)
  BY <1>1, MinOfTwo
<1>3. PageOf(list, page) = SubSeq(list, Before(page) + 1, last)
  BY <1>2 DEF PageOf, Before
<1>4. \A i \in Before(page) + 1 .. last : list[i] \in Bids
  BY <1>1, <1>2
<1>5. PageOf(list, page) \in Seq(Bids)
  BY <1>1, <1>2, <1>3, <1>4, SubSeqProperties
<1>6. ASSUME Len(list) <= Before(page) PROVE PageOf(list, page) = <<>>
  BY <1>1, <1>2, <1>3, <1>6, SubSeqEmpty
<1>7. QED  BY <1>3, <1>5, <1>6

-----------------------------------------------------------------------------
(* The lists of the backends.                                              *)

\* One version is selected: none was asked for by its number, and not all.
Selects(f) == ~f.versions /\ f.query \notin {b.no : b \in Bids}

LEMMA DatabaseListFacts ==
    ASSUME NEW table \in AnyTable, NEW f \in Filter
    PROVE  /\ DatabaseList(table, f) \in Seq(Bids)
           /\ DatabaseList(table, f) = <<>> <=> ListStatement(table, f) = <<>>
<1> DEFINE list == ListStatement(table, f)
<1>1. list \in Seq(Bids) /\ Len(list) \in Nat /\ DOMAIN list = 1 .. Len(list)
  BY ListStatementFacts
<1>2. DatabaseList(table, f) = VersionSelection(table, list, f)
  BY DEF DatabaseList
<1> HIDE DEF list
<1>3. CASE f.versions \/ \E i \in DOMAIN list : list[i].no = f.query
  <2>1. DatabaseList(table, f) = list
    BY <1>2, <1>3, VersionsAreKept
  <2>2. QED  BY <1>1, <2>1 DEF list
<1>4. CASE ~f.versions /\ \A i \in 1 .. Len(list) : list[i].no # f.query
  <2> DEFINE latest == VersionSelection(table, list, f)
  <2>1. /\ latest \in Seq(Bids) /\ Len(latest) <= Len(list)
        /\ \A i \in 1 .. Len(list) : \E k \in 1 .. Len(latest) : latest[k].no = list[i].no
    BY <1>1, <1>4, SelectionFacts
  <2> HIDE DEF latest
  <2>2. Len(latest) \in Nat
    BY <2>1
  <2>3. list = <<>> => latest = <<>>
    BY <1>1, <2>1, <2>2, EmptySeq
  <2>4. latest = <<>> => list = <<>>
    <3> HAVE latest = <<>>
    <3>1. Len(latest) = 0
      BY EmptySeq
    <3>2. ~(1 \in 1 .. Len(list))
      BY <2>1, <3>1
    <3>3. Len(list) = 0
      BY <1>1, <3>2
    <3>4. QED  BY <1>1, <3>3, EmptySeq
  <2>5. QED  BY <1>2, <2>1, <2>3, <2>4 DEF latest, list
<1>5. QED  BY <1>1, <1>3, <1>4

\* A list with one version of each notice: which ones there are, which version it
\* is (an effective one if the filter wants one, and then the one that comes
\* first), and the order: a notice goes where the first of its versions would.
LEMMA SelectedFacts ==
    ASSUME NEW table \in AnyTable, NEW f \in Filter, Selects(f)
    PROVE  LET list == DatabaseList(table, f) IN
           /\ list \in Seq(Bids)
           /\ \A k \in 1 .. Len(list) : list[k] \in Wanted(table, f)
           /\ \A b \in Wanted(table, f) : \E k \in 1 .. Len(list) : list[k].no = b.no
           /\ \A k, l \in 1 .. Len(list) : list[k].no = list[l].no => k = l
           /\ \A k \in 1 .. Len(list) : \A b \in Wanted(table, f) :
                 (b.no = list[k].no /\ ~NonEffective(table, b))
                 => /\ ~NonEffective(table, list[k])
                    /\ \/ b = list[k]
                       \/ IF f.order = "asc" THEN KeyBefore(table, list[k], b, f)
                                             ELSE KeyBefore(table, b, list[k], f)
           /\ \A k, l \in 1 .. Len(list) : k < l =>
                 \E a \in Wanted(table, f) :
                    /\ a.no = list[k].no
                    /\ \A b \in Wanted(table, f) : b.no = list[l].no =>
                          IF f.order = "asc" THEN KeyBefore(table, a, b, f)
                                             ELSE KeyBefore(table, b, a, f)
<1> DEFINE list   == ListStatement(table, f)
           latest == VersionSelection(table, list, f)
<1>1. /\ list \in Seq(Bids) /\ Len(list) \in Nat /\ DOMAIN list = 1 .. Len(list)
      /\ \A i \in 1 .. Len(list) : list[i] \in Wanted(table, f)
      /\ \A b \in Wanted(table, f) : \E i \in 1 .. Len(list) : list[i] = b
      /\ \A i, j \in 1 .. Len(list) :
            i < j => IF f.order = "asc" THEN KeyBefore(table, list[i], list[j], f)
                                        ELSE KeyBefore(table, list[j], list[i], f)
  BY ListStatementFacts
<1>2. DatabaseList(table, f) = latest
  BY DEF DatabaseList
<1> HIDE DEF list
<1>3. ~f.versions /\ \A i \in 1 .. Len(list) : list[i].no # f.query
  <2>1. \A i \in 1 .. Len(list) : list[i] \in Bids
    BY <1>1
  <2>2. QED  BY <2>1 DEF Selects
<1>4. /\ latest \in Seq(Bids) /\ Len(latest) <= Len(list)
      /\ \A k \in 1 .. Len(latest) : \E j \in 1 .. Len(list) :
            /\ latest[k] = list[j]
            /\ \A i \in 1 .. Len(list) :
                  (list[i].no = list[j].no /\ ~NonEffective(table, list[i]))
                  => (~NonEffective(table, list[j]) /\ j <= i)
      /\ \A i \in 1 .. Len(list) : \E k \in 1 .. Len(latest) : latest[k].no = list[i].no
      /\ \A k, l \in 1 .. Len(latest) : latest[k].no = latest[l].no => k = l
      /\ \A k, l \in 1 .. Len(latest) : k < l => \E p \in 1 .. Len(list) :
            /\ list[p].no = latest[k].no
            /\ \A i \in 1 .. Len(list) : list[i].no = latest[l].no => p < i
  BY <1>1, <1>3, SelectionFacts
<1> HIDE DEF latest
<1>5. \A k \in 1 .. Len(latest) : latest[k] \in Wanted(table, f)
  BY <1>1, <1>4
<1>6. \A b \in Wanted(table, f) : \E k \in 1 .. Len(latest) : latest[k].no = b.no
  <2> TAKE b \in Wanted(table, f)
  <2>1. PICK i \in 1 .. Len(list) : list[i] = b
    BY <1>1
  <2>2. PICK k \in 1 .. Len(latest) : latest[k].no = list[i].no
    BY <1>4
  <2>3. QED  BY <2>1, <2>2
<1>7. ASSUME NEW k \in 1 .. Len(latest), NEW b \in Wanted(table, f),
             b.no = latest[k].no, ~NonEffective(table, b)
      PROVE  /\ ~NonEffective(table, latest[k])
             /\ \/ b = latest[k]
                \/ IF f.order = "asc" THEN KeyBefore(table, latest[k], b, f)
                                      ELSE KeyBefore(table, b, latest[k], f)
  <2>1. PICK j \in 1 .. Len(list) :
            /\ latest[k] = list[j]
            /\ \A i \in 1 .. Len(list) :
                  (list[i].no = list[j].no /\ ~NonEffective(table, list[i]))
                  => (~NonEffective(table, list[j]) /\ j <= i)
    BY <1>4
  <2>2. PICK i \in 1 .. Len(list) : list[i] = b
    BY <1>1
  <2>3. ~NonEffective(table, list[j]) /\ j <= i
    BY <1>7, <2>1, <2>2
  <2>4. i = j \/ j < i
    BY <2>3
  <2>5. QED  BY <1>1, <2>1, <2>2, <2>3, <2>4
<1>8. ASSUME NEW k \in 1 .. Len(latest), NEW l \in 1 .. Len(latest), k < l
      PROVE  \E a \in Wanted(table, f) :
                /\ a.no = latest[k].no
                /\ \A b \in Wanted(table, f) : b.no = latest[l].no =>
                      IF f.order = "asc" THEN KeyBefore(table, a, b, f)
                                         ELSE KeyBefore(table, b, a, f)
  <2>1. PICK p \in 1 .. Len(list) :
            /\ list[p].no = latest[k].no
            /\ \A i \in 1 .. Len(list) : list[i].no = latest[l].no => p < i
    BY <1>4, <1>8
  <2>2. ASSUME NEW b \in Wanted(table, f), b.no = latest[l].no
        PROVE  IF f.order = "asc" THEN KeyBefore(table, list[p], b, f)
                                  ELSE KeyBefore(table, b, list[p], f)
    <3>1. PICK i \in 1 .. Len(list) : list[i] = b
      BY <1>1
    <3>2. p < i
      BY <2>1, <2>2, <3>1
    <3>3. QED  BY <1>1, <3>1, <3>2
  <2>3. QED  BY <1>1, <2>1, <2>2
<1>9. QED  BY <1>2, <1>4, <1>5, <1>6, <1>7, <1>8

LEMMA SampleListIsSeq ==
    ASSUME NEW samples \in AnyTable, NEW f \in Filter
    PROVE  SampleList(samples, f) \in Seq(Bids)
<1> DEFINE S == {b \in Stored(samples) :
                   /\ MatchesTexts(b, f) /\ MatchesRow(samples[b], f)
                   /\ \A c \in Ranges : SampleInRange(Column[c][b], f.from[c], f.to[c])}
<1>1. S \in SUBSET Stored(samples) /\ SampleList(samples, f) = InOrder(samples, S, f)
  BY DEF SampleList
<1> HIDE DEF S
<1>2. QED  BY <1>1, InOrderFacts

LEMMA WholeListFacts ==
    ASSUME NEW table \in AnyTable, NEW samples \in AnyTable, NEW f \in Filter
    PROVE  /\ WholeList(table, samples, f) \in Seq(Bids)
           /\ (Backend # "sample" /\ ListStatement(table, f) # <<>>)
              => WholeList(table, samples, f) = DatabaseList(table, f)
<1>1. DatabaseList(table, f) \in Seq(Bids) /\ SampleList(samples, f) \in Seq(Bids)
  BY DatabaseListFacts, SampleListIsSeq
<1>2. QED  BY <1>1, DatabaseListFacts DEF WholeList

\* A page is one of the whole list.
LEMMA ListPageFacts ==
    ASSUME NEW table \in AnyTable, NEW samples \in AnyTable, NEW f \in Filter,
           NEW page \in Nat \ {0}
    PROVE  LET list == WholeList(table, samples, f) IN
           ListPage(table, samples, f, page)
               = [items |-> PageOf(list, page), total |-> Len(list)]
<1> DEFINE found   == DatabaseList(table, f)
           instead == SampleList(samples, f)
<1>1. found \in Seq(Bids) /\ Len(found) \in Nat
  BY DatabaseListFacts
<1>2. ListPage(table, samples, f, page) =
          IF /\ Backend # "sample"
             /\ HasResult(PageOf(found, page), Len(found)) \/ Backend = "sqlmodel"
          THEN [items |-> PageOf(found, page), total |-> Len(found)]
          ELSE [items |-> PageOf(instead, page), total |-> Len(instead)]
  BY DEF ListPage
<1>3. WholeList(table, samples, f) =
          IF Backend # "sample" /\ (found # <<>> \/ Backend = "sqlmodel")
          THEN found ELSE instead
  BY DEF WholeList
<1> HIDE DEF found, instead
<1>4. HasResult(PageOf(found, page), Len(found)) <=> found # <<>>
  <2>1. CASE found = <<>>
    <3>1. Len(found) = 0 /\ Before(page) \in Nat
      BY <2>1, EmptySeq, BeforeFacts
    <3>2. Len(found) <= Before(page)
      BY <3>1
    <3>3. PageOf(found, page) = <<>>
      BY <1>1, <3>2, PageOfFacts
    <3>4. QED  BY <2>1, <3>1, <3>3 DEF HasResult
  <2>2. CASE found # <<>>
    <3>1. Len(found) > 0
      BY <1>1, <2>2, EmptySeq
    <3>2. QED  BY <2>2, <3>1 DEF HasResult
  <2>3. QED  BY <2>1, <2>2
<1>5. QED  BY <1>2, <1>3, <1>4

=============================================================================
