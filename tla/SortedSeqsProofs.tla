-------------------------- MODULE SortedSeqsProofs --------------------------
(***************************************************************************)
(* What the proofs know of sorted lists and of sets of numbers.            *)
(***************************************************************************)
EXTENDS SortedSeqs, SequencesExt, TLAPS, WellFoundedInduction, FiniteSetTheorems

LessThan == {pair \in Nat \X Nat : pair[1] < pair[2]}

\* A set of numbers that is not empty has a least element.
LEMMA LeastElement ==
  ASSUME NEW S, S \subseteq Nat, S # {}
  PROVE  \E k \in S : \A l \in S : k <= l
  <1>1. IsWellFoundedOn(LessThan, Nat)
    BY NatLessThanWellFounded DEF OpToRel, LessThan
  <1>2. \E k \in S : \A l \in S : <<l, k>> \notin LessThan
    BY <1>1, WFMin
  <1>3. \A k, l \in Nat : <<l, k>> \notin LessThan => k <= l
    BY DEF LessThan
  <1> QED
    BY <1>2, <1>3

LEMMA MinOfPlaces ==
  ASSUME NEW S, S \subseteq Nat, S # {}
  PROVE  Min(S) \in S /\ \A l \in S : Min(S) <= l
  BY LeastElement DEF Min

LEMMA MaxOfPlaces ==
  ASSUME NEW n \in Nat, NEW S, S \subseteq 1 .. n, S # {}
  PROVE  Max(S) \in S /\ \A l \in S : l <= Max(S)
  <1> DEFINE above == {k \in Nat : n - k \in S}
  <1>1. PICK k \in above : \A l \in above : k <= l
    <2>1. PICK l \in S : TRUE
      OBVIOUS
    <2>2. l \in Int /\ n - l \in Nat /\ n - (n - l) = l
      OBVIOUS
    <2>3. n - l \in above
      BY <2>1, <2>2
    <2> QED
      BY <2>3, LeastElement
  <1>2. n - k \in S
    BY <1>1
  <1>3. ASSUME NEW l \in S PROVE l <= n - k
    <2>1. l \in Int /\ n - l \in Nat /\ n - (n - l) = l
      OBVIOUS
    <2>2. k <= n - l
      BY <1>1, <2>1
    <2> QED
      BY <1>1, <2>1, <2>2
  <1>4. \E m \in S : \A l \in S : m >= l
    <2>1. \A l \in S : n - k >= l
      BY <1>2, <1>3
    <2> QED
      BY <1>2, <2>1
  <1>5. Max(S) \in S /\ \A l \in S : Max(S) >= l
    BY <1>4 DEF Max
  <1> QED
    BY <1>5

\* Ranks grow with the numbers: the numbers up to the smaller one are fewer.
LEMMA RankGrows ==
  ASSUME NEW S, S \subseteq Int, IsFiniteSet(S)
  PROVE  /\ Cardinality(S) \in Nat
         /\ \A n \in S : Rank(S, n) \in 1 .. Cardinality(S)
         /\ \A m, n \in S : m < n => Rank(S, m) < Rank(S, n)
  <1> DEFINE UpTo(n) == {m \in S : m <= n}
  <1>1. Cardinality(S) \in Nat
    BY FS_CardinalityType
  <1>2. ASSUME NEW n \in S
        PROVE  IsFiniteSet(UpTo(n)) /\ Rank(S, n) \in 1 .. Cardinality(S)
    <2>1. UpTo(n) \in SUBSET S /\ n \in UpTo(n)
      BY <1>2
    <2>2. /\ IsFiniteSet(UpTo(n)) /\ Cardinality(UpTo(n)) \in Nat
          /\ Cardinality(UpTo(n)) <= Cardinality(S)
      BY <2>1, FS_Subset, FS_CardinalityType
    <2>3. Cardinality(UpTo(n)) # 0
      BY <2>1, <2>2, FS_EmptySet
    <2> QED
      BY <1>1, <2>2, <2>3 DEF Rank
  <1>3. ASSUME NEW m \in S, NEW n \in S, m < n
        PROVE  Rank(S, m) < Rank(S, n)
    <2>0. m \in Int /\ n \in Int /\ ~(n <= m) /\ n <= n
      BY <1>3
    <2>1. n \in UpTo(n) /\ n \notin UpTo(m)
      BY <2>0
    <2>6. ASSUME NEW k \in S, k <= m PROVE k <= n
      BY <1>3, <2>0, <2>6
    <2>5. UpTo(m) \in SUBSET UpTo(n)
      BY <2>6
    <2>2. UpTo(m) # UpTo(n)
      BY <2>1
    <2>3. Cardinality(UpTo(m)) <= Cardinality(UpTo(n)) /\ Cardinality(UpTo(m)) # Cardinality(UpTo(n))
      BY <1>2, <2>5, <2>2, FS_Subset
    <2>4. Cardinality(UpTo(m)) \in Int /\ Cardinality(UpTo(n)) \in Int
      BY <1>2 DEF Rank
    <2> QED
      BY <2>3, <2>4 DEF Rank
  <1> QED
    BY <1>1, <1>2, <1>3

\* Every rank is that of one number.
LEMMA AscendingRanks ==
  ASSUME NEW S, S \subseteq Int, IsFiniteSet(S), NEW k \in 1 .. Cardinality(S)
  PROVE  Ascending(S)[k] \in S /\ Rank(S, Ascending(S)[k]) = k
  <1> DEFINE c == Cardinality(S)
             rank == [n \in S |-> Rank(S, n)]
  <1>1. c \in Nat /\ rank \in [S -> 1 .. c] /\ \A m, n \in S : m < n => rank[m] < rank[n]
    BY RankGrows
  <1>2. IsFiniteSet(1 .. c) /\ Cardinality(1 .. c) = c
    BY <1>1, FS_Interval
  <1>3. \A m, n \in S : rank[m] = rank[n] => m = n
    BY <1>1
  <1>4. rank \in Injection(S, 1 .. c)
    BY <1>1, <1>3 DEF Injection, IsInjective
  <1>5. rank \in Surjection(S, 1 .. c)
    BY <1>2, <1>4, FS_Injection
  <1>6. \E n \in S : rank[n] = k
    BY <1>5 DEF Surjection
  <1>7. \E n \in S : Rank(S, n) = k
    BY <1>6
  <1>8. Ascending(S)[k] = CHOOSE n \in S : Rank(S, n) = k
    BY DEF Ascending
  <1> QED
    BY <1>7, <1>8

\* Sorting loses nothing, adds nothing and ascends.
LEMMA AscendingSorts ==
  ASSUME NEW S, S \subseteq Int, IsFiniteSet(S)
  PROVE  /\ Cardinality(S) \in Nat
         /\ Ascending(S) \in [1 .. Cardinality(S) -> S]
         /\ \A n \in S : Rank(S, n) \in 1 .. Cardinality(S) /\ Ascending(S)[Rank(S, n)] = n
         /\ \A k, l \in 1 .. Cardinality(S) : k < l => Ascending(S)[k] < Ascending(S)[l]
  <1> DEFINE c == Cardinality(S)
             rank == [n \in S |-> Rank(S, n)]
  <1>1. c \in Nat /\ rank \in [S -> 1 .. c] /\ \A m, n \in S : m < n => rank[m] < rank[n]
    BY RankGrows
  <1>3. \A m, n \in S : rank[m] = rank[n] => m = n
    BY <1>1
  <1>6. \A k \in 1 .. c : Ascending(S)[k] \in S /\ Rank(S, Ascending(S)[k]) = k
    BY AscendingRanks
  <1>7. ASSUME NEW n \in S
        PROVE  Rank(S, n) \in 1 .. c /\ Ascending(S)[Rank(S, n)] = n
    <2>1. Rank(S, n) \in 1 .. c /\ rank[n] = Rank(S, n)
      BY <1>1
    <2>2. Ascending(S)[Rank(S, n)] \in S /\ rank[Ascending(S)[Rank(S, n)]] = Rank(S, n)
      BY <2>1, <1>6
    <2> QED
      BY <2>1, <2>2, <1>3
  <1>8. ASSUME NEW k \in 1 .. c, NEW l \in 1 .. c, k < l
        PROVE  Ascending(S)[k] < Ascending(S)[l]
    <2>1. ~(Ascending(S)[l] < Ascending(S)[k])
      <3>1. /\ Ascending(S)[l] \in S /\ rank[Ascending(S)[l]] = l
            /\ Ascending(S)[k] \in S /\ rank[Ascending(S)[k]] = k
        BY <1>6
      <3>2. ~(l < k)
        BY <1>1, <1>8
      <3> HIDE DEF rank
      <3> QED
        BY <1>1, <3>1, <3>2
    <2>2. Ascending(S)[k] # Ascending(S)[l]
      BY <1>6, <1>8
    <2>3. Ascending(S)[k] \in Int /\ Ascending(S)[l] \in Int
      BY <1>6
    <2> QED
      BY <2>1, <2>2, <2>3
  <1>9. Ascending(S) \in [1 .. c -> S]
    BY <1>6 DEF Ascending
  <1> QED
    BY <1>1, <1>7, <1>8, <1>9

\* A number above all others comes last.
LEMMA AscendingGrows ==
  ASSUME NEW S, S \subseteq Int, IsFiniteSet(S), NEW x \in Int, \A n \in S : n < x
  PROVE  /\ Cardinality(S \cup {x}) = Cardinality(S) + 1
         /\ \A k \in 1 .. Cardinality(S) : Ascending(S \cup {x})[k] = Ascending(S)[k]
         /\ Ascending(S \cup {x})[Cardinality(S) + 1] = x
  <1> DEFINE T == S \cup {x}
             c == Cardinality(S)
  <1>1. T \subseteq Int /\ x \notin S /\ c \in Nat /\ IsFiniteSet(T) /\ Cardinality(T) = c + 1
    BY FS_CardinalityType, FS_AddElement
  <1>2. Ascending(T)[Rank(T, x)] = x /\ \A n \in S : Ascending(T)[Rank(T, n)] = n
    BY <1>1, AscendingSorts
  <1>3. Rank(T, x) = c + 1
    <2>1. ASSUME NEW m \in T PROVE m <= x
      <3>1. CASE m \in S
        BY <3>1
      <3> QED
        BY <3>1
    <2>2. {m \in T : m <= x} = T
      BY <2>1
    <2> QED
      BY <1>1, <2>2 DEF Rank
  <1>4. ASSUME NEW n \in S
        PROVE  Rank(T, n) = Rank(S, n)
    <2>1. n \in Int /\ n < x
      BY <1>4
    <2>2. {m \in T : m <= n} = {m \in S : m <= n}
      BY <2>1
    <2> QED
      BY <2>2 DEF Rank
  <1>5. ASSUME NEW k \in 1 .. c
        PROVE  Ascending(T)[k] = Ascending(S)[k]
    <2>1. Ascending(S)[k] \in S /\ Rank(S, Ascending(S)[k]) = k
      BY AscendingRanks
    <2> QED
      BY <1>2, <1>4, <2>1
  <1> QED
    BY <1>1, <1>2, <1>3, <1>5

\* What is picked from a list: as many elements as places, in their order.
ArePicked(picked, s, places) ==
  /\ picked = [k \in 1 .. Cardinality(places) |-> s[Ascending(places)[k]]]
  /\ \A k \in 1 .. Cardinality(places) : \E i \in places : picked[k] = s[i]
  /\ \A i \in places : \E k \in 1 .. Cardinality(places) : picked[k] = s[i]

LEMMA PickedElements ==
  ASSUME NEW s, NEW places, places \subseteq Int, IsFiniteSet(places)
  PROVE  Cardinality(places) \in Nat /\ ArePicked(Picked(s, places), s, places)
  <1>1. /\ Cardinality(places) \in Nat
        /\ Ascending(places) \in [1 .. Cardinality(places) -> places]
        /\ \A n \in places : /\ Rank(places, n) \in 1 .. Cardinality(places)
                             /\ Ascending(places)[Rank(places, n)] = n
    BY AscendingSorts
  <1>2. Picked(s, places) = [k \in 1 .. Cardinality(places) |-> s[Ascending(places)[k]]]
    BY <1>1 DEF Picked
  <1> DEFINE c == Cardinality(places)
             order == Ascending(places)
             picked == Picked(s, places)
  <1>3. c \in Nat /\ \A k \in 1 .. c : order[k] \in places /\ picked[k] = s[order[k]]
    BY <1>1, <1>2
  <1>4. \A n \in places : Rank(places, n) \in 1 .. c /\ order[Rank(places, n)] = n
    BY <1>1
  <1> HIDE DEF c, order, picked
  <1>5. \A k \in 1 .. c : \E i \in places : picked[k] = s[i]
    BY <1>3
  <1>6. \A i \in places : \E k \in 1 .. c : picked[k] = s[i]
    BY <1>3, <1>4
  <1> QED
    BY <1>2, <1>3, <1>5, <1>6 DEF ArePicked, c, order, picked

LEMMA ListIsFunction ==
  ASSUME NEW T, NEW s \in Seq(T)
  PROVE  Len(s) \in Nat /\ DOMAIN s = 1 .. Len(s) /\ \A i \in 1 .. Len(s) : s[i] \in T
  OBVIOUS

LEMMA FunctionIsList ==
  ASSUME NEW T, NEW n \in Nat, NEW f \in [1 .. n -> T]
  PROVE  f \in Seq(T) /\ Len(f) = n
  OBVIOUS

\* A place behind all others appends its element.
LEMMA PickedGrows ==
  ASSUME NEW T, NEW s \in Seq(T), NEW x \in 1 .. Len(s), NEW places \in SUBSET (1 .. x - 1)
  PROVE  /\ Picked(s, places) \in Seq(T)
         /\ Picked(s, places \cup {x}) = Append(Picked(s, places), s[x])
  <1> DEFINE c == Cardinality(places)
             old == Picked(s, places)
             more == places \cup {x}
  <1>8. /\ Len(s) \in Nat /\ x \in Int /\ s[x] \in T /\ places \subseteq Int
        /\ \A i \in places : i < x /\ s[i] \in T
    <2>1. Len(s) \in Nat /\ \A i \in 1 .. Len(s) : s[i] \in T
      BY ListIsFunction
    <2>2. \A i \in places : i \in 1 .. Len(s) /\ i < x
      BY <2>1
    <2> QED
      BY <2>1, <2>2
  <1>9. IsFiniteSet(places)
    <2> DEFINE m == x - 1
    <2>1. m \in Nat /\ places \in SUBSET (1 .. m)
      BY <1>8
    <2> HIDE DEF m
    <2>2. IsFiniteSet(1 .. m)
      BY <2>1, FS_Interval
    <2> QED
      BY <2>1, <2>2, FS_Subset
  <1>1. c \in Nat /\ Ascending(places) \in [1 .. c -> places]
    BY <1>8, <1>9, AscendingSorts
  <1>2. /\ Cardinality(more) = c + 1
        /\ \A k \in 1 .. c : Ascending(more)[k] = Ascending(places)[k]
        /\ Ascending(more)[c + 1] = x
    BY <1>8, <1>9, AscendingGrows
  <1>3. old = [k \in 1 .. c |-> s[Ascending(places)[k]]]
    BY <1>1 DEF Picked
  <1>4. old \in Seq(T) /\ Len(old) = c
    <2>1. \A k \in 1 .. c : s[Ascending(places)[k]] \in T
      BY <1>1, <1>8
    <2> HIDE DEF old, c
    <2> QED
      BY <1>1, <1>3, <2>1
  <1>5. Picked(s, more) = [k \in 1 .. c + 1 |-> s[Ascending(more)[k]]]
    BY <1>2 DEF Picked, Ascending
  <1> HIDE DEF old, c, more
  <1>6. Append(old, s[x]) = [k \in 1 .. c + 1 |-> IF k = c + 1 THEN s[x] ELSE old[k]]
    BY <1>1, <1>4, <1>8
  <1>7. \A k \in 1 .. c + 1 :
          s[Ascending(more)[k]] = IF k = c + 1 THEN s[x] ELSE old[k]
    BY <1>1, <1>2, <1>3
  <1> QED
    BY <1>4, <1>5, <1>6, <1>7 DEF old, more

\* Two lists are equal if their elements are.
LEMMA SameElements ==
  ASSUME NEW S, NEW s \in Seq(S), NEW t \in Seq(S),
         Len(s) = Len(t), \A i \in 1 .. Len(s) : s[i] = t[i]
  PROVE  s = t
  <1>1. s = [i \in 1 .. Len(s) |-> s[i]] /\ t = [i \in 1 .. Len(t) |-> t[i]]
    OBVIOUS
  <1>2. [i \in 1 .. Len(s) |-> s[i]] = [i \in 1 .. Len(t) |-> t[i]]
    OBVIOUS
  <1> QED
    BY <1>1, <1>2, Zenon

\* Sorting a list: it ascends and has the same elements.
Before(s, l, k) == s[l] < s[k] \/ (s[l] = s[k] /\ l <= k)

LEMMA BeforeIsTransitive ==
  ASSUME NEW s, NEW m \in Int, NEW k \in Int, NEW l \in Int,
         s[m] \in Int, s[k] \in Int, s[l] \in Int, Before(s, m, k), Before(s, k, l)
  PROVE  Before(s, m, l)
  BY DEF Before

LEMMA PlacesGrow ==
  ASSUME NEW s \in Seq(Int)
  PROVE  /\ \A k \in 1 .. Len(s) : Place(s, k) \in 1 .. Len(s)
         /\ \A k, l \in 1 .. Len(s) : k # l /\ Before(s, k, l) => Place(s, k) < Place(s, l)
  <1> DEFINE n == Len(s)
             UpTo(k) == {l \in 1 .. n : Before(s, l, k)}
  <1>1. n \in Nat /\ DOMAIN s = 1 .. n /\ \A k \in 1 .. n : s[k] \in Int
    BY ListIsFunction
  <1>2. IsFiniteSet(1 .. n) /\ Cardinality(1 .. n) = n
    <2> HIDE DEF n
    <2> QED
      BY <1>1, FS_Interval
  <1>3. \A k : Place(s, k) = Cardinality(UpTo(k))
    BY <1>1 DEF Place, Before
  <1> HIDE DEF n
  <1>4. ASSUME NEW k \in 1 .. n
        PROVE  /\ IsFiniteSet(UpTo(k)) /\ k \in UpTo(k) /\ Cardinality(UpTo(k)) \in 1 .. n
    <2>1. UpTo(k) \in SUBSET (1 .. n)
      OBVIOUS
    <2>2. k \in UpTo(k)
      BY <1>1 DEF Before
    <2> HIDE DEF UpTo
    <2>3. /\ IsFiniteSet(UpTo(k)) /\ Cardinality(UpTo(k)) \in Nat /\ Cardinality(UpTo(k)) <= n
      BY <1>2, <2>1, FS_Subset, FS_CardinalityType
    <2>4. Cardinality(UpTo(k)) # 0
      BY <2>2, <2>3, FS_EmptySet
    <2> QED
      BY <1>1, <2>2, <2>3, <2>4
  <1>5. ASSUME NEW k \in 1 .. n, NEW l \in 1 .. n, k # l, Before(s, k, l)
        PROVE  Cardinality(UpTo(k)) < Cardinality(UpTo(l))
    <2>1. k \in Int /\ l \in Int /\ s[k] \in Int /\ s[l] \in Int
      BY <1>1
    <2>2. ASSUME NEW m \in 1 .. n, Before(s, m, k) PROVE Before(s, m, l)
      <3>1. m \in Int /\ s[m] \in Int
        BY <1>1
      <3>2. Before(s, k, l)
        BY <1>5
      <3> QED
        BY <2>1, <2>2, <3>1, <3>2, BeforeIsTransitive
    <2>3. UpTo(k) \in SUBSET UpTo(l)
      BY <2>2
    <2>4. l \notin UpTo(k)
      BY <1>5, <2>1 DEF Before
    <2>5. UpTo(k) # UpTo(l)
      BY <1>4, <2>4
    <2>6. /\ IsFiniteSet(UpTo(l))
          /\ Cardinality(UpTo(k)) \in 1 .. n /\ Cardinality(UpTo(l)) \in 1 .. n
      BY <1>4
    <2> HIDE DEF UpTo
    <2>7. Cardinality(UpTo(k)) <= Cardinality(UpTo(l)) /\ Cardinality(UpTo(k)) # Cardinality(UpTo(l))
      BY <2>3, <2>5, <2>6, FS_Subset
    <2> QED
      BY <2>6, <2>7
  <1> QED
    BY <1>3, <1>4, <1>5 DEF n

\* Every element has a place of its own, and every place an element.
Placed(s, k, n) == k \in 1 .. Len(s) /\ Place(s, k) = n /\ Sorted(s)[n] = s[k]

LEMMA PlacesAreTaken ==
  ASSUME NEW s \in Seq(Int)
  PROVE  /\ \A n \in 1 .. Len(s) : \E k : Placed(s, k, n)
         /\ \A k \in 1 .. Len(s) : Place(s, k) \in 1 .. Len(s) /\ Placed(s, k, Place(s, k))
  <1> DEFINE c == Len(s)
             place == [k \in 1 .. c |-> Place(s, k)]
             At(n) == CHOOSE k \in 1 .. c : Place(s, k) = n
  <1>1. c \in Nat /\ DOMAIN s = 1 .. c /\ \A k \in 1 .. c : s[k] \in Int
    BY ListIsFunction
  <1>2. IsFiniteSet(1 .. c) /\ Cardinality(1 .. c) = c
    <2> HIDE DEF c
    <2> QED
      BY <1>1, FS_Interval
  <1>3. place \in [1 .. c -> 1 .. c]
    BY PlacesGrow
  <1>4. ASSUME NEW k \in 1 .. c, NEW l \in 1 .. c, Place(s, k) = Place(s, l)
        PROVE  k = l
    <2>1. Before(s, k, l) \/ Before(s, l, k)
      BY <1>1 DEF Before
    <2>2. Place(s, k) \in 1 .. c /\ Place(s, l) \in 1 .. c
      BY PlacesGrow
    <2> QED
      BY <1>4, <2>1, <2>2, PlacesGrow
  <1>5. place \in Injection(1 .. c, 1 .. c)
    BY <1>3, <1>4 DEF Injection, IsInjective
  <1>6. place \in Surjection(1 .. c, 1 .. c)
    BY <1>2, <1>5, FS_Injection
  <1>7. \A n \in 1 .. c : \E k \in 1 .. c : Place(s, k) = n
    BY <1>6 DEF Surjection
  <1>8. \A n \in 1 .. c : At(n) \in 1 .. c /\ Place(s, At(n)) = n
    BY <1>7
  <1>9. \A n \in 1 .. c : Sorted(s)[n] = s[At(n)]
    BY <1>1 DEF Sorted
  <1>10. \A k \in 1 .. c : Place(s, k) \in 1 .. c
    BY PlacesGrow
  <1> HIDE DEF At
  <1>11. \A k \in 1 .. c : At(Place(s, k)) = k
    BY <1>4, <1>8, <1>10
  <1> QED
    BY <1>8, <1>9, <1>10, <1>11 DEF Placed

LEMMA SortedSorts ==
  ASSUME NEW s \in Seq(Int)
  PROVE  /\ Sorted(s) \in Seq(Int) /\ Len(Sorted(s)) = Len(s) /\ ToSet(Sorted(s)) = ToSet(s)
         /\ \A k, l \in 1 .. Len(s) : k <= l => Sorted(s)[k] <= Sorted(s)[l]
  <1> DEFINE c == Len(s)
             t == Sorted(s)
  <1>1. c \in Nat /\ DOMAIN s = 1 .. c /\ \A k \in 1 .. c : s[k] \in Int
    BY ListIsFunction
  <1>2. /\ \A n \in 1 .. c : \E k \in 1 .. c : Placed(s, k, n)
        /\ \A k \in 1 .. c : Place(s, k) \in 1 .. c /\ Placed(s, k, Place(s, k))
    BY PlacesAreTaken DEF Placed
  <1>3. DOMAIN t = 1 .. c /\ t = [n \in 1 .. c |-> t[n]]
    BY <1>1 DEF Sorted
  <1> HIDE DEF t, c
  <1>4. \A n \in 1 .. c : \E k \in 1 .. c : t[n] = s[k]
    BY <1>2 DEF Placed, t
  <1>5. \A n \in 1 .. c : t[n] \in Int
    BY <1>1, <1>4
  <1>6. t \in Seq(Int) /\ Len(t) = c
    <2>1. t \in [1 .. c -> Int]
      BY <1>3, <1>5
    <2> QED
      BY <1>1, <2>1, FunctionIsList
  <1>7. ToSet(t) = ToSet(s)
    <2>1. \A k \in 1 .. c : \E n \in 1 .. c : t[n] = s[k]
      BY <1>2 DEF Placed, t
    <2> QED
      BY <1>1, <1>3, <1>4, <2>1 DEF ToSet
  <1>8. ASSUME NEW m \in 1 .. c, NEW n \in 1 .. c, m <= n
        PROVE  t[m] <= t[n]
    <2>1. PICK k \in 1 .. c : Place(s, k) = m /\ t[m] = s[k]
      BY <1>2 DEF Placed, t
    <2>2. PICK l \in 1 .. c : Place(s, l) = n /\ t[n] = s[l]
      BY <1>2 DEF Placed, t
    <2>3. s[k] \in Int /\ s[l] \in Int
      BY <1>1
    <2>4. ASSUME s[l] < s[k] PROVE FALSE
      <3>1. Before(s, l, k) /\ l # k
        BY <2>3, <2>4 DEF Before
      <3>2. Place(s, l) < Place(s, k)
        BY <3>1, PlacesGrow DEF c
      <3> QED
        BY <1>1, <1>8, <2>1, <2>2, <3>2
    <2> QED
      BY <2>1, <2>2, <2>3, <2>4
  <1> QED
    BY <1>6, <1>7, <1>8 DEF t, c

\* Of a list that ascends, one of each element is left.
LEMMA DedupAscends ==
  ASSUME NEW s \in Seq(Int), \A k, l \in 1 .. Len(s) : k <= l => s[k] <= s[l]
  PROVE  /\ Dedup(s) \in Seq(Int) /\ ToSet(Dedup(s)) = ToSet(s)
         /\ \A k, l \in 1 .. Len(Dedup(s)) : k < l => Dedup(s)[k] < Dedup(s)[l]
  <1> DEFINE n == Len(s)
             heads == {k \in 1 .. n : k = 1 \/ s[k - 1] # s[k]}
             order == Ascending(heads)
             c == Cardinality(heads)
             t == Dedup(s)
  <1>1. n \in Nat /\ DOMAIN s = 1 .. n /\ \A k \in 1 .. n : s[k] \in Int
    BY ListIsFunction
  <1>2. heads \subseteq Int /\ IsFiniteSet(heads)
    <2>1. heads \in SUBSET (1 .. n) /\ 1 .. n \subseteq Int
      BY <1>1
    <2> HIDE DEF heads, n
    <2>2. IsFiniteSet(1 .. n)
      BY <1>1, FS_Interval
    <2> QED
      BY <2>1, <2>2, FS_Subset
  <1>3. /\ c \in Nat /\ order \in [1 .. c -> heads]
        /\ \A p \in heads : \E i \in 1 .. c : order[i] = p
        /\ \A i, j \in 1 .. c : i < j => order[i] < order[j]
    BY <1>2, AscendingSorts
  <1>4. t = [i \in 1 .. c |-> s[order[i]]]
    BY <1>1, <1>3 DEF Dedup, Picked
  <1> HIDE DEF c, order, t, n
  <1>5. t \in Seq(Int) /\ Len(t) = c
    <2>1. t \in [1 .. c -> Int]
      BY <1>1, <1>3, <1>4
    <2> QED
      BY <1>3, <2>1, FunctionIsList
  \* The first of several that are equal is kept.
  <1>6. ASSUME NEW k \in 1 .. n
        PROVE  \E p \in heads : s[p] = s[k]
    <2> DEFINE same == {l \in 1 .. n : s[l] = s[k]}
    <2>1. same \subseteq Nat /\ k \in same
      BY <1>1
    <2>2. PICK p \in same : \A l \in same : p <= l
      BY <2>1, LeastElement
    <2>3. ASSUME p # 1 PROVE s[p - 1] # s[p]
      <3>1. p - 1 \in 1 .. n /\ ~(p <= p - 1)
        BY <1>1, <2>2, <2>3
      <3> QED
        BY <2>2, <3>1
    <2> QED
      BY <2>2, <2>3
  <1>7. ToSet(t) = ToSet(s)
    <2>1. ASSUME NEW x \in ToSet(t) PROVE x \in ToSet(s)
      BY <1>1, <1>3, <1>4 DEF ToSet
    <2>2. ASSUME NEW x \in ToSet(s) PROVE x \in ToSet(t)
      <3>1. PICK k \in 1 .. n : x = s[k]
        BY <1>1 DEF ToSet
      <3>2. PICK p \in heads : s[p] = x
        BY <1>6, <3>1
      <3>3. PICK i \in 1 .. c : order[i] = p
        BY <1>3
      <3> QED
        BY <1>4, <3>2, <3>3 DEF ToSet
    <2> QED
      BY <2>1, <2>2
  <1>8. ASSUME NEW i \in 1 .. c, NEW j \in 1 .. c, i < j
        PROVE  t[i] < t[j]
    <2>1. /\ order[i] \in heads /\ order[j] \in heads /\ order[i] < order[j]
          /\ t[i] = s[order[i]] /\ t[j] = s[order[j]]
      BY <1>3, <1>4, <1>8
    <2> DEFINE p == order[i]
               q == order[j]
    <2>2. /\ p \in 1 .. n /\ q \in 1 .. n /\ p < q /\ s[q - 1] # s[q]
          /\ t[i] = s[p] /\ t[j] = s[q]
      BY <1>1, <2>1
    <2> HIDE DEF p, q
    <2>3. q - 1 \in 1 .. n /\ p <= q - 1 /\ q - 1 <= q
      BY <1>1, <2>2
    <2>4. s[p] <= s[q - 1] /\ s[q - 1] <= s[q]
      BY <2>2, <2>3 DEF n
    <2>5. s[p] \in Int /\ s[q - 1] \in Int /\ s[q] \in Int
      BY <1>1, <2>2, <2>3
    <2>6. \A x, y, z \in Int : x <= y /\ y <= z /\ y # z => x < z
      OBVIOUS
    <2>7. s[p] < s[q]
      BY <2>2, <2>4, <2>5, <2>6, Zenon
    <2> QED
      BY <2>2, <2>7
  <1> QED
    BY <1>5, <1>7, <1>8 DEF t

\* What is in a list that is put together from two.
LEMMA ContainsConcat ==
  ASSUME NEW T, NEW s \in Seq(T), NEW t \in Seq(T), NEW x
  PROVE  Contains(s \o t, x) <=> Contains(s, x) \/ Contains(t, x)
  <1> DEFINE st == s \o t
  <1>1. /\ Len(s) \in Nat /\ Len(t) \in Nat /\ Len(st) = Len(s) + Len(t)
        /\ \A i \in 1 .. Len(s) : st[i] = s[i]
        /\ \A i \in 1 .. Len(t) : st[Len(s) + i] = t[i]
    OBVIOUS
  <1> HIDE DEF st
  <1>2. ASSUME Contains(s, x) PROVE Contains(st, x)
    <2>1. PICK i \in 1 .. Len(s) : s[i] = x
      BY <1>2 DEF Contains
    <2>2. i \in 1 .. Len(st) /\ st[i] = x
      BY <1>1, <2>1
    <2> QED
      BY <2>2 DEF Contains
  <1>3. ASSUME Contains(t, x) PROVE Contains(st, x)
    <2>1. PICK i \in 1 .. Len(t) : t[i] = x
      BY <1>3 DEF Contains
    <2>2. Len(s) + i \in 1 .. Len(st) /\ st[Len(s) + i] = x
      BY <1>1, <2>1
    <2> QED
      BY <2>2 DEF Contains
  <1>4. ASSUME Contains(st, x) PROVE Contains(s, x) \/ Contains(t, x)
    <2>1. PICK i \in 1 .. Len(st) : st[i] = x
      BY <1>4 DEF Contains
    <2>2. CASE i <= Len(s)
      <3>1. i \in 1 .. Len(s) /\ s[i] = x
        BY <1>1, <2>1, <2>2
      <3> QED
        BY <3>1 DEF Contains
    <2>3. CASE ~(i <= Len(s))
      <3>1. i - Len(s) \in 1 .. Len(t) /\ Len(s) + (i - Len(s)) = i
        BY <1>1, <2>1, <2>3
      <3>2. t[i - Len(s)] = x
        BY <1>1, <2>1, <3>1
      <3> QED
        BY <3>1, <3>2 DEF Contains
    <2> QED
      BY <2>2, <2>3
  <1> QED
    BY <1>2, <1>3, <1>4 DEF st

-----------------------------------------------------------------------------
(* Lists of lists *)

IsJoin(f, lists, count) ==
  f = [i \in 1 .. count |-> IF i = 1 THEN lists[i] ELSE f[i - 1] \o lists[i]]

LEMMA JoinExists ==
  ASSUME NEW lists, NEW count \in Nat
  PROVE  \E f : IsJoin(f, lists, count)
  <1> DEFINE without == {k \in Nat : ~\E f : IsJoin(f, lists, k)}
  <1>1. ASSUME without # {} PROVE FALSE
    <2>1. PICK k \in without : \A l \in without : k <= l
      BY <1>1, LeastElement
    <2>2. k \in Nat /\ ~\E f : IsJoin(f, lists, k)
      BY <2>1
    <2>3. k # 0
      <3>1. IsJoin([i \in 1 .. 0 |-> lists[i]], lists, 0)
        BY DEF IsJoin
      <3> QED
        BY <2>2, <3>1
    <2>4. k - 1 \in Nat /\ ~(k <= k - 1)
      BY <2>2, <2>3
    <2>5. PICK g : IsJoin(g, lists, k - 1)
      BY <2>1, <2>4
    <2>6. \A i \in 1 .. k - 1 : g[i] = IF i = 1 THEN lists[i] ELSE g[i - 1] \o lists[i]
      BY <2>5 DEF IsJoin
    <2> DEFINE Joined(i) == IF i = 1 THEN lists[i] ELSE g[i - 1] \o lists[i]
               f == [i \in 1 .. k |-> IF i < k THEN g[i] ELSE Joined(i)]
    <2>7. ASSUME NEW i \in 1 .. k
          PROVE  f[i] = IF i = 1 THEN lists[i] ELSE f[i - 1] \o lists[i]
      <3>1. f[i] = Joined(i)
        BY <2>2, <2>6
      <3>2. i # 1 => f[i - 1] = g[i - 1]
        BY <2>2
      <3> QED
        BY <3>1, <3>2
    <2>8. IsJoin(f, lists, k)
      <3>1. f = [i \in 1 .. k |-> f[i]]
        OBVIOUS
      <3> HIDE DEF f
      <3> QED
        BY <2>7, <3>1 DEF IsJoin
    <2> QED
      BY <2>2, <2>8
  <1> QED
    BY <1>1

\* Two joins agree as far as their lists do.
LEMMA JoinIsUnique ==
  ASSUME NEW f, NEW g, NEW lists, NEW others, NEW count \in Nat, NEW more \in Nat,
         IsJoin(f, lists, more), IsJoin(g, others, count), count <= more,
         \A i \in 1 .. count : others[i] = lists[i]
  PROVE  \A i \in 1 .. count : f[i] = g[i]
  <1> DEFINE wrong == {i \in 1 .. count : f[i] # g[i]}
  <1>1. ASSUME wrong # {} PROVE FALSE
    <2>1. wrong \subseteq Nat
      OBVIOUS
    <2>2. PICK k \in wrong : \A l \in wrong : k <= l
      BY <1>1, <2>1, LeastElement
    <2>3. k \in 1 .. count /\ f[k] # g[k]
      BY <2>2
    <2>4. /\ f[k] = IF k = 1 THEN lists[k] ELSE f[k - 1] \o lists[k]
          /\ g[k] = IF k = 1 THEN others[k] ELSE g[k - 1] \o others[k]
      <3>1. \A i \in 1 .. more : f[i] = IF i = 1 THEN lists[i] ELSE f[i - 1] \o lists[i]
        BY DEF IsJoin
      <3>2. \A i \in 1 .. count : g[i] = IF i = 1 THEN others[i] ELSE g[i - 1] \o others[i]
        BY DEF IsJoin
      <3>3. k \in 1 .. more
        BY <2>3
      <3> QED
        BY <2>3, <3>1, <3>2, <3>3
    <2>5. CASE k = 1
      BY <2>3, <2>4, <2>5
    <2>6. CASE k # 1
      <3>1. k - 1 \in 1 .. count /\ ~(k <= k - 1)
        BY <2>3, <2>6
      <3>2. f[k - 1] = g[k - 1]
        BY <2>2, <3>1
      <3> QED
        BY <2>3, <2>4, <2>6, <3>2
    <2> QED
      BY <2>5, <2>6
  <1> QED
    BY <1>1

JoinOf(lists) == CHOOSE f : IsJoin(f, lists, Len(lists))

LEMMA JoinStep ==
  ASSUME NEW lists, Len(lists) \in Nat
  PROVE  /\ IsJoin(JoinOf(lists), lists, Len(lists))
         /\ \A i \in 1 .. Len(lists) :
              JoinOf(lists)[i] = IF i = 1 THEN lists[i] ELSE JoinOf(lists)[i - 1] \o lists[i]
         /\ FlattenSeq(lists) = IF Len(lists) = 0 THEN lists ELSE JoinOf(lists)[Len(lists)]
  <1>1. IsJoin(JoinOf(lists), lists, Len(lists))
    BY JoinExists DEF JoinOf
  <1>2. FlattenSeq(lists) = IF Len(lists) = 0 THEN lists ELSE JoinOf(lists)[Len(lists)]
    BY DEF FlattenSeq, JoinOf, IsJoin
  <1>3. ASSUME NEW f, IsJoin(f, lists, Len(lists))
        PROVE  \A i \in 1 .. Len(lists) :
                 f[i] = IF i = 1 THEN lists[i] ELSE f[i - 1] \o lists[i]
    BY <1>3 DEF IsJoin
  <1> QED
    BY <1>1, <1>2, <1>3

\* One list more is appended at the end.
LEMMA FlattenGrows ==
  ASSUME NEW T, NEW lists \in Seq(Seq(T)), NEW list \in Seq(T)
  PROVE  FlattenSeq(Append(lists, list)) = FlattenSeq(lists) \o list
  <1> DEFINE n == Len(lists)
             all == Append(lists, list)
  <1>1. /\ n \in Nat /\ Len(all) = n + 1 /\ all[n + 1] = list
        /\ \A i \in 1 .. n : lists[i] = all[i]
    OBVIOUS
  <1> HIDE DEF all
  <1>2. /\ JoinOf(all)[n + 1] = IF n = 0 THEN list ELSE JoinOf(all)[n] \o list
        /\ IsJoin(JoinOf(all), all, n + 1) /\ FlattenSeq(all) = JoinOf(all)[n + 1]
    <2>1. Len(all) \in Nat /\ n + 1 \in 1 .. Len(all) /\ (n + 1 = 1 <=> n = 0) /\ (n + 1) - 1 = n
          /\ Len(all) # 0
      BY <1>1
    <2> HIDE DEF n
    <2>2. JoinOf(all)[n + 1] = IF n + 1 = 1 THEN all[n + 1] ELSE JoinOf(all)[(n + 1) - 1] \o all[n + 1]
      BY <2>1, JoinStep
    <2>3. IsJoin(JoinOf(all), all, n + 1) /\ FlattenSeq(all) = JoinOf(all)[n + 1]
      BY <1>1, <2>1, JoinStep
    <2> QED
      BY <1>1, <2>1, <2>2, <2>3
  <1>3. CASE n = 0
    <2>1. lists = << >> /\ FlattenSeq(lists) = lists
      BY <1>3, JoinStep
    <2> QED
      BY <1>2, <1>3, <2>1 DEF all
  <1>4. CASE n # 0
    <2>1. IsJoin(JoinOf(lists), lists, n) /\ FlattenSeq(lists) = JoinOf(lists)[n]
      BY <1>4, JoinStep
    <2>2. n + 1 \in Nat /\ n <= n + 1 /\ n \in 1 .. n
      BY <1>1, <1>4
    <2>3. JoinOf(all)[n] = JoinOf(lists)[n]
      <3> DEFINE f == JoinOf(all)
                 g == JoinOf(lists)
                 more == n + 1
      <3>1. /\ n \in Nat /\ more \in Nat /\ n <= more /\ \A i \in 1 .. n : lists[i] = all[i]
            /\ IsJoin(f, all, more) /\ IsJoin(g, lists, n)
        BY <1>1, <1>2, <2>1, <2>2
      <3> HIDE DEF f, g, more, n
      <3>2. \A i \in 1 .. n : f[i] = g[i]
        BY <3>1, JoinIsUnique
      <3> QED
        BY <2>2, <3>2 DEF f, g
    <2> QED
      BY <1>2, <1>4, <2>1, <2>3 DEF all
  <1> QED
    BY <1>3, <1>4

LEMMA JoinType ==
  ASSUME NEW T, NEW lists \in Seq(Seq(T))
  PROVE  \A i \in 1 .. Len(lists) : JoinOf(lists)[i] \in Seq(T)
  <1> DEFINE n == Len(lists)
             wrong == {i \in 1 .. n : JoinOf(lists)[i] \notin Seq(T)}
  <1>1. n \in Nat /\ \A i \in 1 .. n : lists[i] \in Seq(T)
    OBVIOUS
  <1>2. \A i \in 1 .. n : JoinOf(lists)[i] = IF i = 1 THEN lists[i] ELSE JoinOf(lists)[i - 1] \o lists[i]
    BY <1>1, JoinStep
  <1> HIDE DEF n
  <1>3. ASSUME wrong # {} PROVE FALSE
    <2>1. wrong \subseteq Nat
      BY <1>1
    <2>2. PICK k \in wrong : \A l \in wrong : k <= l
      BY <1>3, <2>1, LeastElement
    <2>3. k \in 1 .. n /\ JoinOf(lists)[k] \notin Seq(T)
      BY <2>2
    <2>4. k # 1
      BY <1>1, <1>2, <2>3
    <2>5. k - 1 \in 1 .. n /\ ~(k <= k - 1)
      BY <1>1, <2>3, <2>4
    <2>6. JoinOf(lists)[k - 1] \in Seq(T)
      BY <2>2, <2>5
    <2>7. JoinOf(lists)[k] = JoinOf(lists)[k - 1] \o lists[k] /\ lists[k] \in Seq(T)
      BY <1>1, <1>2, <2>3, <2>4
    <2> QED
      BY <2>3, <2>6, <2>7
  <1> QED
    BY <1>3 DEF n

LEMMA FlattenType ==
  ASSUME NEW T, NEW lists \in Seq(Seq(T))
  PROVE  FlattenSeq(lists) \in Seq(T)
  <1>1. CASE Len(lists) = 0
    <2>1. FlattenSeq(lists) = << >>
      BY <1>1, JoinStep
    <2>2. << >> \in Seq(T)
      OBVIOUS
    <2> QED
      BY <2>1, <2>2, Zenon
  <1>2. CASE Len(lists) # 0
    <2>1. FlattenSeq(lists) = JoinOf(lists)[Len(lists)] /\ Len(lists) \in 1 .. Len(lists)
      BY <1>2, JoinStep
    <2> QED
      BY <2>1, JoinType
  <1> QED
    BY <1>1, <1>2

\* Nothing of a list is lost.
LEMMA FlattenHolds ==
  ASSUME NEW T, NEW lists \in Seq(Seq(T)), NEW i \in DOMAIN lists, NEW j \in DOMAIN lists[i]
  PROVE  \E k \in DOMAIN FlattenSeq(lists) : FlattenSeq(lists)[k] = lists[i][j]
  <1> DEFINE n == Len(lists)
             x == lists[i][j]
             Holds(s) == \E k \in DOMAIN s : s[k] = x
             wrong == {m \in i .. n : ~(JoinOf(lists)[m] \in Seq(T) /\ Holds(JoinOf(lists)[m]))}
  <1>1. n \in Nat /\ i \in 1 .. n /\ \A m \in 1 .. n : lists[m] \in Seq(T)
    OBVIOUS
  <1>2. \A m \in 1 .. n : JoinOf(lists)[m] = IF m = 1 THEN lists[m] ELSE JoinOf(lists)[m - 1] \o lists[m]
    BY <1>1, JoinStep
  <1>3. \A m \in 1 .. n : JoinOf(lists)[m] \in Seq(T)
    BY JoinType
  <1>4. Holds(lists[i])
    BY <1>1
  <1>5. ASSUME NEW s \in Seq(T), NEW t \in Seq(T), Holds(s) \/ Holds(t)
        PROVE  Holds(s \o t)
    <2>1. CASE Holds(s)
      <3>1. PICK k \in DOMAIN s : s[k] = x
        BY <2>1
      <3>2. k \in DOMAIN (s \o t) /\ (s \o t)[k] = s[k]
        OBVIOUS
      <3> QED
        BY <3>1, <3>2
    <2>2. CASE Holds(t)
      <3>1. PICK k \in DOMAIN t : t[k] = x
        BY <2>2
      <3>2. Len(s) \in Nat /\ Len(t) \in Nat /\ k \in 1 .. Len(t)
        OBVIOUS
      <3>3. Len(s) + k \in 1 .. Len(s) + Len(t) /\ (Len(s) + k) - Len(s) = k /\ Len(s) + k > Len(s)
        <4> DEFINE before == Len(s)
                   count == Len(t)
        <4> HIDE DEF before, count
        <4>1. \A l \in 1 .. count : before \in Nat /\ count \in Nat =>
                before + l \in 1 .. before + count /\ (before + l) - before = l /\ before + l > before
          OBVIOUS
        <4> QED
          BY <3>2, <4>1 DEF before, count
      <3>5. DOMAIN (s \o t) = 1 .. Len(s) + Len(t)
        OBVIOUS
      <3>6. (s \o t)[Len(s) + k] = t[(Len(s) + k) - Len(s)]
        BY <3>2, <3>3
      <3>4. Len(s) + k \in DOMAIN (s \o t) /\ (s \o t)[Len(s) + k] = t[k]
        BY <3>3, <3>5, <3>6
      <3> QED
        BY <3>1, <3>4
    <2> QED
      BY <1>5, <2>1, <2>2
  <1> HIDE DEF n, Holds
  <1>6. ASSUME wrong # {} PROVE FALSE
    <2>1. wrong \subseteq Nat
      BY <1>1
    <2>2. PICK k \in wrong : \A l \in wrong : k <= l
      BY <1>6, <2>1, LeastElement
    <2>3. k \in i .. n /\ k \in 1 .. n /\ ~Holds(JoinOf(lists)[k])
      BY <1>1, <1>3, <2>2
    <2>4. CASE k = i
      <3>1. CASE k = 1
        BY <1>2, <1>4, <2>3, <2>4, <3>1
      <3>2. CASE k # 1
        <4>1. k - 1 \in 1 .. n
          BY <1>1, <2>3, <3>2
        <4> QED
          BY <1>1, <1>2, <1>3, <1>4, <1>5, <2>3, <2>4, <3>2, <4>1
      <3> QED
        BY <3>1, <3>2
    <2>5. CASE k # i
      <3>1. k - 1 \in i .. n /\ k - 1 \in 1 .. n /\ k # 1 /\ ~(k <= k - 1)
        BY <1>1, <2>3, <2>5
      <3>2. Holds(JoinOf(lists)[k - 1])
        BY <2>2, <3>1
      <3> QED
        BY <1>1, <1>2, <1>3, <1>5, <2>3, <3>1, <3>2
    <2> QED
      BY <2>4, <2>5
  <1>7. FlattenSeq(lists) = JoinOf(lists)[n]
    BY <1>1, JoinStep DEF n
  <1>8. n \in i .. n
    BY <1>1
  <1> QED
    BY <1>6, <1>7, <1>8 DEF Holds

-----------------------------------------------------------------------------
(* Sums *)

IsSum(f, s, n) == f = [k \in 0 .. n |-> IF k = 0 THEN 0 ELSE f[k - 1] + s[k]]

LEMMA SumExists ==
  ASSUME NEW s, NEW n \in Nat
  PROVE  \E f : IsSum(f, s, n)
  <1> DEFINE without == {k \in Nat : ~\E f : IsSum(f, s, k)}
  <1>1. ASSUME without # {} PROVE FALSE
    <2>1. PICK k \in without : \A l \in without : k <= l
      BY <1>1, LeastElement
    <2>2. k \in Nat /\ ~\E f : IsSum(f, s, k)
      BY <2>1
    <2>3. k # 0
      <3>1. IsSum([l \in 0 .. 0 |-> 0], s, 0)
        BY DEF IsSum
      <3> QED
        BY <2>2, <3>1
    <2>4. k - 1 \in Nat /\ ~(k <= k - 1)
      BY <2>2, <2>3
    <2>5. PICK g : IsSum(g, s, k - 1)
      BY <2>1, <2>4
    <2>6. \A l \in 0 .. k - 1 : g[l] = IF l = 0 THEN 0 ELSE g[l - 1] + s[l]
      BY <2>5 DEF IsSum
    <2> DEFINE Added(l) == IF l = 0 THEN 0 ELSE g[l - 1] + s[l]
               f == [l \in 0 .. k |-> IF l < k THEN g[l] ELSE Added(l)]
    <2>7. ASSUME NEW l \in 0 .. k
          PROVE  f[l] = IF l = 0 THEN 0 ELSE f[l - 1] + s[l]
      <3>1. f[l] = Added(l)
        BY <2>2, <2>6
      <3>2. l # 0 => f[l - 1] = g[l - 1]
        BY <2>2
      <3> QED
        BY <3>1, <3>2
    <2>8. IsSum(f, s, k)
      <3>1. f = [l \in 0 .. k |-> f[l]]
        OBVIOUS
      <3> HIDE DEF f
      <3> QED
        BY <2>7, <3>1 DEF IsSum
    <2> QED
      BY <2>2, <2>8
  <1> QED
    BY <1>1

\* Two sums agree as far as their lists do.
LEMMA SumIsUnique ==
  ASSUME NEW f, NEW g, NEW s, NEW t, NEW n \in Nat, NEW more \in Nat,
         IsSum(f, s, more), IsSum(g, t, n), n <= more, \A l \in 1 .. n : t[l] = s[l]
  PROVE  \A l \in 0 .. n : f[l] = g[l]
  <1> DEFINE wrong == {l \in 0 .. n : f[l] # g[l]}
  <1>1. ASSUME wrong # {} PROVE FALSE
    <2>1. wrong \subseteq Nat
      OBVIOUS
    <2>2. PICK k \in wrong : \A l \in wrong : k <= l
      BY <1>1, <2>1, LeastElement
    <2>3. k \in 0 .. n /\ f[k] # g[k]
      BY <2>2
    <2>4. /\ f[k] = IF k = 0 THEN 0 ELSE f[k - 1] + s[k]
          /\ g[k] = IF k = 0 THEN 0 ELSE g[k - 1] + t[k]
      <3>1. \A l \in 0 .. more : f[l] = IF l = 0 THEN 0 ELSE f[l - 1] + s[l]
        BY DEF IsSum
      <3>2. \A l \in 0 .. n : g[l] = IF l = 0 THEN 0 ELSE g[l - 1] + t[l]
        BY DEF IsSum
      <3>3. k \in 0 .. more
        BY <2>3
      <3> QED
        BY <2>3, <3>1, <3>2, <3>3
    <2>5. CASE k = 0
      BY <2>3, <2>4, <2>5
    <2>6. CASE k # 0
      <3>1. k - 1 \in 0 .. n /\ ~(k <= k - 1) /\ k \in 1 .. n
        BY <2>3, <2>6
      <3>2. f[k - 1] = g[k - 1]
        BY <2>2, <3>1
      <3> QED
        BY <2>3, <2>4, <2>6, <3>1, <3>2
    <2> QED
      BY <2>5, <2>6
  <1> QED
    BY <1>1

SumOf(s, n) == CHOOSE f : IsSum(f, s, n)

\* A sum has one element more than the sum of a list that is one shorter.
LEMMA SumGrows ==
  ASSUME NEW s, NEW n \in Nat
  PROVE  /\ SumTo(s, 0) = 0
         /\ SumTo(s, n + 1) = SumTo(s, n) + s[n + 1]
         /\ \A t : (\A l \in 1 .. n : t[l] = s[l]) => SumTo(t, n) = SumTo(s, n)
  <1>1. \A t : \A k \in Nat : IsSum(SumOf(t, k), t, k) /\ SumTo(t, k) = SumOf(t, k)[k]
    <2> TAKE t
    <2> TAKE k \in Nat
    <2>1. IsSum(SumOf(t, k), t, k)
      BY SumExists DEF SumOf
    <2>2. SumTo(t, k) = SumOf(t, k)[k]
      BY DEF SumTo, SumOf, IsSum
    <2> QED
      BY <2>1, <2>2
  <1>2. SumTo(s, 0) = 0
    <2>1. IsSum(SumOf(s, 0), s, 0) /\ SumTo(s, 0) = SumOf(s, 0)[0]
      BY <1>1
    <2> QED
      BY <2>1 DEF IsSum
  <1>3. SumTo(s, n + 1) = SumTo(s, n) + s[n + 1]
    <2> DEFINE f == SumOf(s, n + 1)
               g == SumOf(s, n)
               more == n + 1
    <2>1. /\ more \in Nat /\ n <= more /\ more \in 0 .. more /\ more # 0 /\ more - 1 = n /\ n \in 0 .. n
          /\ IsSum(f, s, more) /\ IsSum(g, s, n) /\ SumTo(s, more) = f[more] /\ SumTo(s, n) = g[n]
      BY <1>1
    <2> HIDE DEF f, g, more
    <2>2. f[n] = g[n]
      BY <2>1, SumIsUnique
    <2>3. f[more] = f[more - 1] + s[more]
      BY <2>1 DEF IsSum
    <2> QED
      BY <2>1, <2>2, <2>3 DEF more
  <1>4. ASSUME NEW t, \A l \in 1 .. n : t[l] = s[l]
        PROVE  SumTo(t, n) = SumTo(s, n)
    <2> DEFINE f == SumOf(s, n)
               g == SumOf(t, n)
    <2>1. /\ n <= n /\ n \in 0 .. n /\ IsSum(f, s, n) /\ IsSum(g, t, n)
          /\ SumTo(s, n) = f[n] /\ SumTo(t, n) = g[n]
      BY <1>1
    <2> HIDE DEF f, g
    <2>2. f[n] = g[n]
      BY <1>4, <2>1, SumIsUnique
    <2> QED
      BY <2>1, <2>2
  <1> QED
    BY <1>2, <1>3, <1>4
=============================================================================
