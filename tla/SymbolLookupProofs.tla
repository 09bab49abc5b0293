------------------------- MODULE SymbolLookupProofs -------------------------
(***************************************************************************)
(* Theorems about the symbol table and the lookups of one object, for all  *)
(* objects, address widths and lists of addresses.                         *)
(***************************************************************************)
EXTENDS SymbolLookup, SortedSeqsProofs

Entry == [address : Int, name : Seq(Nat)]

-----------------------------------------------------------------------------
(* The first entry of each address *)

Ascends(list) ==
  /\ list \in Seq(Entry)
  /\ \A k, l \in 1 .. Len(list) : k < l => list[k].address < list[l].address

\* What the sort and the removal of duplicates leave of a list.
Keeps(firsts, list) ==
  /\ Ascends(firsts)
  /\ \A i \in 1 .. Len(firsts) : \E k \in 1 .. Len(list) :
       firsts[i] = list[k] /\ \A l \in 1 .. Len(list) : l < k => list[l].address # list[k].address
  /\ \A k \in 1 .. Len(list) : \E i \in 1 .. Len(firsts) : firsts[i].address = list[k].address

LEMMA KeepsAddresses ==
  ASSUME NEW firsts, NEW list, Keeps(firsts, list), NEW k \in 1 .. Len(list)
  PROVE  \E i \in 1 .. Len(firsts) : firsts[i].address = list[k].address
  BY DEF Keeps

LEMMA FirstsAreKept ==
  ASSUME NEW list \in Seq(Entry)
  PROVE  Keeps(FirstOfEachAddress(list), list)
  <1> DEFINE n == Len(list)
             all == {list[k].address : k \in 1 .. n}
             addresses == Ascending(all)
             c == Cardinality(all)
             at(a) == {i \in 1 .. n : list[i].address = a}
             firsts == FirstOfEachAddress(list)
  <1>1. n \in Nat /\ DOMAIN list = 1 .. n /\ \A k \in 1 .. n : list[k] \in Entry /\ list[k].address \in Int
    <2>1. \A e \in Entry : e.address \in Int
      BY DEF Entry
    <2>2. n \in Nat /\ DOMAIN list = 1 .. n /\ \A k \in 1 .. n : list[k] \in Entry
      OBVIOUS
    <2> QED
      BY <2>1, <2>2
  <1>2. all \subseteq Int /\ IsFiniteSet(all)
    <2> DEFINE f == [k \in 1 .. n |-> list[k].address]
    <2>1. f \in Surjection(1 .. n, all)
      BY DEF Surjection
    <2>2. IsFiniteSet(1 .. n)
      BY <1>1, FS_Interval
    <2> HIDE DEF f
    <2>3. IsFiniteSet(all)
      BY <2>1, <2>2, FS_Surjection
    <2> QED
      BY <1>1, <2>3
  <1>3. /\ c \in Nat /\ addresses \in [1 .. c -> all]
        /\ \A a \in all : \E i \in 1 .. c : addresses[i] = a
        /\ \A i, j \in 1 .. c : i < j => addresses[i] < addresses[j]
    BY <1>2, AscendingSorts
  <1>4. firsts = [i \in 1 .. c |-> list[IF at(addresses[i]) # {} THEN Min(at(addresses[i])) ELSE 0]]
    BY <1>1, <1>3 DEF FirstOfEachAddress, SelectInSeq
  <1>5. ASSUME NEW i \in 1 .. c
        PROVE  \E k \in 1 .. n : /\ firsts[i] = list[k] /\ list[k].address = addresses[i]
                                 /\ \A l \in 1 .. n : l < k => list[l].address # list[k].address
    <2> DEFINE a == addresses[i]
    <2>1. PICK k \in 1 .. n : list[k].address = a
      <3>1. a \in all
        BY <1>3
      <3> QED
        BY <3>1
    <2>2. at(a) \subseteq Nat /\ at(a) # {}
      <3>1. k \in at(a) /\ 1 .. n \subseteq Nat
        BY <1>1, <2>1
      <3> QED
        BY <3>1
    <2>3. Min(at(a)) \in at(a) /\ \A l \in at(a) : Min(at(a)) <= l
      BY <2>2, MinOfPlaces
    <2>4. firsts[i] = list[Min(at(a))]
      BY <1>4, <2>2
    <2> DEFINE m == Min(at(a))
    <2>5. m \in 1 .. n /\ list[m].address = a
      BY <2>3
    <2>6. ASSUME NEW l \in 1 .. n, l < m PROVE list[l].address # a
      <3>1. ~(m <= l)
        BY <1>1, <2>5, <2>6
      <3> HIDE DEF m, a
      <3>2. l \notin at(a)
        BY <2>3, <3>1 DEF m
      <3> QED
        BY <3>2
    <2> QED
      BY <2>4, <2>5, <2>6
  <1> HIDE DEF firsts, addresses, all, c, n
  <1>6. firsts \in Seq(Entry) /\ Len(firsts) = c
    <2>1. \A i \in 1 .. c : firsts[i] \in Entry
      BY <1>1, <1>5
    <2>2. firsts \in [1 .. c -> Entry]
      BY <1>4, <2>1
    <2> QED
      BY <1>3, <2>2, FunctionIsList
  <1>7. \A i \in 1 .. c : firsts[i].address = addresses[i]
    BY <1>5
  <1>8. Ascends(firsts)
    BY <1>3, <1>6, <1>7 DEF Ascends
  <1>9. ASSUME NEW k \in 1 .. n
        PROVE  \E i \in 1 .. c : firsts[i].address = list[k].address
    <2>1. list[k].address \in all
      BY DEF all
    <2> QED
      BY <1>3, <1>7, <2>1
  <1> QED
    BY <1>5, <1>6, <1>8, <1>9 DEF Keeps, n, firsts

-----------------------------------------------------------------------------
(* The lists of an object *)

LEMMA EntriesOfSymbols ==
  ASSUME object \in ObjectFields, NEW symbols \in Symbols
  PROVE  /\ RelativeSymbols(symbols) \in Seq(Entry)
         /\ \A x : Contains(RelativeSymbols(symbols), x) <=>
                   \E y : Contains(symbols, y) /\ x = Named(Relative(y.address), y.name)
  <1> DEFINE n == Len(symbols)
             relative == RelativeSymbols(symbols)
             Of(y) == Named(Relative(y.address), y.name)
  <1>1. /\ n \in Nat /\ DOMAIN symbols = 1 .. n
        /\ \A k \in 1 .. n : symbols[k] \in [address : U64, name : Seq(Nat)]
    BY ListIsFunction DEF Symbols
  <1>2. relative = [k \in 1 .. n |-> Of(symbols[k])]
    BY <1>1 DEF RelativeSymbols
  <1>3. ASSUME NEW k \in 1 .. n
        PROVE  Of(symbols[k]) \in Entry
    <2>1. symbols[k].address \in Int /\ symbols[k].name \in Seq(Nat)
      BY <1>1, LookupAssumption DEF U64
    <2>2. object.base \in Int /\ U32Size \in Nat \ {0}
      BY LookupAssumption DEF ObjectFields, U64
    <2>3. Relative(symbols[k].address) \in Int
      BY <2>1, <2>2 DEF Relative
    <2> QED
      BY <2>1, <2>3 DEF Named, Entry
  <1>4. relative \in [1 .. n -> Entry]
    BY <1>2, <1>3
  <1> HIDE DEF relative, n
  <1>5. relative \in Seq(Entry) /\ Len(relative) = n
    BY <1>1, <1>4, FunctionIsList
  <1>6. \A x : Contains(relative, x) <=> \E y : Contains(symbols, y) /\ x = Of(y)
    BY <1>2, <1>5 DEF Contains, n
  <1> QED
    BY <1>5, <1>6 DEF relative

LEMMA SynthesizedEntries ==
  ASSUME object \in ObjectFields
  PROVE  SynthesizedSymbols \in Seq(Entry)
  <1> DEFINE n == Len(object.starts)
  <1>1. n \in Nat /\ DOMAIN object.starts = 1 .. n /\ \A k \in 1 .. n : object.starts[k] \in Nat
    BY LookupAssumption DEF ObjectFields, U32
  <1>2. \A a \in Nat : Named(a, Synthesized(a)) \in Entry
    BY DEF Named, Synthesized, Entry
  <1>3. SynthesizedSymbols \in [1 .. n -> Entry]
    BY <1>1, <1>2 DEF SynthesizedSymbols
  <1> HIDE DEF n
  <1> QED
    BY <1>1, <1>3, FunctionIsList

LEMMA EntriesOfEnds ==
  ASSUME NEW n \in Nat, NEW ends \in [1 .. n -> Int]
  PROVE  /\ EndEntries(ends) \in Seq(Entry)
         /\ \A x : Contains(EndEntries(ends), x) <=> \E k \in 1 .. n : x = Named(ends[k], BadName)
  <1>1. \A a \in Int : Named(a, BadName) \in Entry
    BY LookupAssumption DEF Named, Entry
  <1>2. EndEntries(ends) = [k \in 1 .. n |-> Named(ends[k], BadName)]
    BY DEF EndEntries
  <1>3. EndEntries(ends) \in [1 .. n -> Entry]
    BY <1>1, <1>2
  <1>4. EndEntries(ends) \in Seq(Entry) /\ Len(EndEntries(ends)) = n
    BY <1>3, FunctionIsList
  <1> QED
    BY <1>2, <1>4 DEF Contains

LEMMA TextEndsAreFinite ==
  ASSUME object \in ObjectFields
  PROVE  TextEnds \subseteq Int /\ IsFiniteSet(TextEnds)
  <1>1. IsFiniteSet(0 .. U32Size - 1)
    BY LookupAssumption, FS_Interval
  <1>2. TextEnds \in SUBSET (0 .. U32Size - 1)
    BY DEF TextEnds, U32
  <1>3. IsFiniteSet(TextEnds)
    BY <1>1, <1>2, FS_Subset
  <1> QED
    BY <1>2, <1>3

\* Every end of a text section and of a function is an entry.
LEMMA EndsAreEntries ==
  ASSUME object \in ObjectFields
  PROVE  /\ EndEntries(Ascending(TextEnds)) \in Seq(Entry)
         /\ EndEntries(object.ends) \in Seq(Entry)
         /\ \A x : Contains(EndEntries(Ascending(TextEnds)), x) <=>
                   \E end \in TextEnds : x = Named(end, BadName)
         /\ \A x : Contains(EndEntries(object.ends), x) <=>
                   \E end \in ToSet(object.ends) : x = Named(end, BadName)
  <1> DEFINE c == Cardinality(TextEnds)
             n == Len(object.ends)
  <1>1. /\ c \in Nat /\ Ascending(TextEnds) \in [1 .. c -> TextEnds]
        /\ \A end \in TextEnds : \E k \in 1 .. c : Ascending(TextEnds)[k] = end
    BY TextEndsAreFinite, AscendingSorts
  <1>2. Ascending(TextEnds) \in [1 .. c -> Int]
    BY <1>1, TextEndsAreFinite
  <1>3. n \in Nat /\ object.ends \in [1 .. n -> Int] /\ DOMAIN object.ends = 1 .. n
    BY LookupAssumption DEF ObjectFields, U32
  <1> HIDE DEF c, n
  <1>4. /\ EndEntries(Ascending(TextEnds)) \in Seq(Entry)
        /\ \A x : Contains(EndEntries(Ascending(TextEnds)), x) <=>
                  \E k \in 1 .. c : x = Named(Ascending(TextEnds)[k], BadName)
    BY <1>1, <1>2, EntriesOfEnds
  <1>5. /\ EndEntries(object.ends) \in Seq(Entry)
        /\ \A x : Contains(EndEntries(object.ends), x) <=>
                  \E k \in 1 .. n : x = Named(object.ends[k], BadName)
    BY <1>3, EntriesOfEnds
  <1>6. \A x : (\E k \in 1 .. c : x = Named(Ascending(TextEnds)[k], BadName))
              <=> \E end \in TextEnds : x = Named(end, BadName)
    BY <1>1
  <1>7. \A x : (\E k \in 1 .. n : x = Named(object.ends[k], BadName))
              <=> \E end \in ToSet(object.ends) : x = Named(end, BadName)
    BY <1>3 DEF ToSet
  <1> QED
    BY <1>4, <1>5, <1>6, <1>7

IsPrefixOf(s, t) == Len(s) <= Len(t) /\ \A i \in 1 .. Len(s) : t[i] = s[i]

LEMMA PrefixGrows ==
  ASSUME NEW T, NEW r \in Seq(T), NEW s \in Seq(T), NEW t \in Seq(T), IsPrefixOf(r, s)
  PROVE  IsPrefixOf(r, s \o t)
  <1> DEFINE st == s \o t
  <1>1. /\ Len(r) \in Nat /\ Len(s) \in Nat /\ Len(st) >= Len(s) /\ Len(st) \in Nat
        /\ \A i \in 1 .. Len(s) : st[i] = s[i]
    OBVIOUS
  <1> HIDE DEF st
  <1>2. IsPrefixOf(r, st)
    BY <1>1 DEF IsPrefixOf
  <1> QED
    BY <1>2 DEF st

\* What lookups find first: the symbols that the object has itself.
ObjectSymbols == RelativeSymbols(object.symbols \o object.dynamic \o object.exports)

\* Both lists have the decoded symbols and the synthesized ones, in different orders.
LEMMA SameSymbols ==
  ASSUME object \in ObjectFields
  PROVE  /\ AllEntries \in Seq(Entry) /\ FullMap \in Seq(Entry)
         /\ \A x : Contains(FullMap, x) => Contains(AllEntries, x)
         /\ \A x : Contains(AllEntries, x) /\ x.name # BadName => Contains(FullMap, x)
         /\ \A end \in TextEnds \cup ToSet(object.ends) : Contains(AllEntries, Named(end, BadName))
         /\ SynthesizedSymbols \in Seq(Entry) /\ DecodedSymbols \in Seq(Entry)
         /\ ObjectSymbols \in Seq(Entry) /\ IsPrefixOf(ObjectSymbols, AllEntries)
         /\ \A x : Contains(DecodedSymbols, x) <=> Contains(ObjectSymbols, x) /\ x.name # BadName
  <1> DEFINE S == [address : U64, name : Seq(Nat)]
             best == object.symbols \o object.dynamic \o object.exports
             worst == object.dynamic \o object.symbols \o object.exports
             good == {k \in DOMAIN RelativeSymbols(worst) : RelativeSymbols(worst)[k].name # BadName}
             textEnds == EndEntries(Ascending(TextEnds))
             ends == EndEntries(object.ends)
  <1>1. object.symbols \in Seq(S) /\ object.dynamic \in Seq(S) /\ object.exports \in Seq(S)
    BY DEF ObjectFields, Symbols
  <1>2. /\ best \in Seq(S) /\ worst \in Seq(S)
        /\ \A x : Contains(best, x) <=> Contains(worst, x)
    <2> HIDE DEF S
    <2> DEFINE first == object.symbols \o object.dynamic
               second == object.dynamic \o object.symbols
    <2>1. /\ first \in Seq(S) /\ second \in Seq(S)
          /\ \A x : Contains(first, x) <=> Contains(object.symbols, x) \/ Contains(object.dynamic, x)
          /\ \A x : Contains(second, x) <=> Contains(object.symbols, x) \/ Contains(object.dynamic, x)
      BY <1>1, ContainsConcat
    <2> HIDE DEF first, second
    <2>2. /\ first \o object.exports \in Seq(S) /\ second \o object.exports \in Seq(S)
          /\ \A x : Contains(first \o object.exports, x) <=> Contains(first, x) \/ Contains(object.exports, x)
          /\ \A x : Contains(second \o object.exports, x) <=> Contains(second, x) \/ Contains(object.exports, x)
      BY <1>1, <2>1, ContainsConcat
    <2>3. best = first \o object.exports /\ worst = second \o object.exports
      BY DEF first, second
    <2> HIDE DEF best, worst
    <2> QED
      BY <2>1, <2>2, <2>3
  <1> HIDE DEF best, worst
  <1>3. /\ RelativeSymbols(best) \in Seq(Entry) /\ RelativeSymbols(worst) \in Seq(Entry)
        /\ \A x : Contains(RelativeSymbols(best), x) <=> Contains(RelativeSymbols(worst), x)
    <2>1. best \in Symbols /\ worst \in Symbols
      BY <1>2 DEF Symbols
    <2> QED
      BY <1>2, <2>1, EntriesOfSymbols
  <1>4. /\ DecodedSymbols = Picked(RelativeSymbols(worst), good)
        /\ DecodedSymbols \in Seq(Entry)
        /\ \A x : Contains(DecodedSymbols, x) <=> Contains(RelativeSymbols(worst), x) /\ x.name # BadName
    <2> DEFINE list == RelativeSymbols(worst)
               m == Len(list)
               c == Cardinality(good)
    <2>1. DecodedSymbols = Picked(list, good)
      BY DEF DecodedSymbols, Decoded, worst
    <2>2. m \in Nat /\ DOMAIN list = 1 .. m /\ \A k \in 1 .. m : list[k] \in Entry
      BY <1>3, ListIsFunction
    <2>3. IsFiniteSet(good) /\ good \subseteq Int
      <3>1. IsFiniteSet(1 .. m) /\ good \in SUBSET (1 .. m)
        BY <2>2, FS_Interval
      <3> QED
        BY <2>2, <3>1, FS_Subset
    <2> HIDE DEF list, m
    <2>4. c \in Nat /\ ArePicked(DecodedSymbols, list, good)
      <3> HIDE DEF good
      <3> QED
        BY <2>1, <2>3, PickedElements
    <2>5. \A i : i \in good <=> i \in 1 .. m /\ list[i].name # BadName
      BY <2>2 DEF list
    <2> HIDE DEF good, c
    <2>6. DecodedSymbols \in [1 .. c -> Entry]
      BY <2>2, <2>4, <2>5 DEF ArePicked, c
    <2>7. DecodedSymbols \in Seq(Entry) /\ Len(DecodedSymbols) = c
      BY <2>4, <2>6, FunctionIsList
    <2>8. \A x : Contains(DecodedSymbols, x) <=> Contains(list, x) /\ x.name # BadName
      <3>1. /\ \A k \in 1 .. c : \E i \in good : DecodedSymbols[k] = list[i]
            /\ \A i \in good : \E k \in 1 .. c : DecodedSymbols[k] = list[i]
        BY <2>4 DEF ArePicked, c
      <3>2. ASSUME NEW x, Contains(DecodedSymbols, x)
            PROVE  Contains(list, x) /\ x.name # BadName
        <4>1. PICK k \in 1 .. c : DecodedSymbols[k] = x
          BY <2>7, <3>2 DEF Contains
        <4>2. PICK i \in good : list[i] = x
          BY <3>1, <4>1
        <4> QED
          BY <2>5, <4>2 DEF Contains, m
      <3>3. ASSUME NEW x, Contains(list, x), x.name # BadName
            PROVE  Contains(DecodedSymbols, x)
        <4>1. PICK i \in 1 .. m : list[i] = x
          BY <3>3 DEF Contains, m
        <4>2. PICK k \in 1 .. c : DecodedSymbols[k] = x
          BY <2>5, <3>1, <3>3, <4>1
        <4> QED
          BY <2>7, <4>2 DEF Contains
      <3> QED
        BY <3>2, <3>3
    <2> QED
      BY <2>1, <2>7, <2>8 DEF list, good
  <1>5. SynthesizedSymbols \in Seq(Entry)
    BY SynthesizedEntries
  <1>6. /\ textEnds \in Seq(Entry) /\ ends \in Seq(Entry)
        /\ \A x : Contains(textEnds, x) <=> \E end \in TextEnds : x = Named(end, BadName)
        /\ \A x : Contains(ends, x) <=> \E end \in ToSet(object.ends) : x = Named(end, BadName)
    BY EndsAreEntries
  <1>7. FullMap = SynthesizedSymbols \o DecodedSymbols
        /\ AllEntries = RelativeSymbols(best) \o SynthesizedSymbols \o textEnds \o ends
    BY DEF FullMap, AllEntries, best
  <1> HIDE DEF textEnds, ends, good
  <1>8. /\ FullMap \in Seq(Entry)
        /\ \A x : Contains(FullMap, x) <=> Contains(SynthesizedSymbols, x) \/ Contains(DecodedSymbols, x)
    BY <1>4, <1>5, <1>7, ContainsConcat
  <1>9. /\ AllEntries \in Seq(Entry) /\ IsPrefixOf(RelativeSymbols(best), AllEntries)
        /\ \A x : Contains(AllEntries, x) <=>
                  \/ Contains(RelativeSymbols(best), x) \/ Contains(SynthesizedSymbols, x)
                  \/ Contains(textEnds, x) \/ Contains(ends, x)
    <2> DEFINE a == RelativeSymbols(best) \o SynthesizedSymbols
               b == a \o textEnds
    <2>1. a \in Seq(Entry) /\ \A x : Contains(a, x) <=> \/ Contains(RelativeSymbols(best), x)
                                                      \/ Contains(SynthesizedSymbols, x)
      BY <1>3, <1>5, ContainsConcat
    <2>0. IsPrefixOf(RelativeSymbols(best), a)
      <3> DEFINE r == RelativeSymbols(best)
      <3>1. r \in Seq(Entry) /\ Len(r) \in Nat
        BY <1>3, ListIsFunction
      <3>2. IsPrefixOf(r, r)
        BY <3>1 DEF IsPrefixOf
      <3> HIDE DEF r
      <3>3. IsPrefixOf(r, r \o SynthesizedSymbols)
        BY <1>5, <3>1, <3>2, PrefixGrows
      <3> QED
        BY <3>3 DEF r
    <2> HIDE DEF a
    <2>2. b \in Seq(Entry) /\ \A x : Contains(b, x) <=> Contains(a, x) \/ Contains(textEnds, x)
      BY <1>6, <2>1, ContainsConcat
    <2> HIDE DEF b
    <2>3. AllEntries = b \o ends
      BY <1>7 DEF b, a
    <2>4. AllEntries \in Seq(Entry) /\ \A x : Contains(AllEntries, x) <=> Contains(b, x) \/ Contains(ends, x)
      BY <1>6, <2>2, <2>3, ContainsConcat
    <2>5. IsPrefixOf(RelativeSymbols(best), b)
      BY <1>3, <1>6, <2>0, <2>1, PrefixGrows DEF b
    <2>6. IsPrefixOf(RelativeSymbols(best), AllEntries)
      BY <1>3, <1>6, <2>2, <2>3, <2>5, PrefixGrows
    <2> QED
      BY <2>1, <2>2, <2>4, <2>6
  <1>10. \A end : Named(end, BadName).name = BadName
    BY DEF Named
  <1>11. ObjectSymbols = RelativeSymbols(best)
    BY DEF ObjectSymbols, best
  <1> QED
    BY <1>3, <1>4, <1>5, <1>6, <1>8, <1>9, <1>10, <1>11

-----------------------------------------------------------------------------
(* The inductive invariant *)

\* What was made stays as it was made from the object, and a symbol that was found is the one
\* that the entries have for its address.
Inv ==
  /\ object \in ObjectFields /\ next \in Nat
  /\ next > 0 => table = MakeTable(FullMap)
  /\ next > 1 => entries = FirstOfEachAddress(AllEntries)
  /\ results = [a \in ToSet(Lookups) |-> results[a]]
  /\ \A a \in ToSet(Lookups) : Found(a) => next > 1 /\ results[a] = SymbolOf(a)

LEMMA InvHolds == Spec => []Inv
  <1>1. Init => Inv
    <2> SUFFICES ASSUME Init PROVE Inv
      OBVIOUS
    <2>1. object \in ObjectFields /\ next = 0
      BY LookupAssumption DEF Init
    <2>2. results = [a \in ToSet(Lookups) |-> NoSymbol]
      BY DEF Init
    <2> QED
      BY <2>1, <2>2 DEF Inv, Found
  <1>2. ASSUME Inv, [Next]_vars PROVE Inv'
    <2>1. object' = object
      BY <1>2 DEF Next, vars, GetTable, CollectEntries, LookUp, Done
    <2>2. FullMap' = FullMap /\ AllEntries' = AllEntries
      BY <2>1 DEF FullMap, AllEntries, SynthesizedSymbols, DecodedSymbols, RelativeSymbols, Relative,
        TextEnds
    <2>3. entries' = entries => \A a : SymbolOf(a)' = SymbolOf(a)
      BY DEF SymbolOf, EntryAt, SelectLastInSeq
    <2>4. CASE GetTable
      BY <1>2, <2>1, <2>2, <2>3, <2>4 DEF Inv, GetTable, Found
    <2>5. CASE CollectEntries
      BY <1>2, <2>1, <2>2, <2>5 DEF Inv, CollectEntries, Found
    <2>6. CASE LookUp
      <3>1. /\ next > 1 /\ next \in Nat /\ next' = next + 1 /\ table' = table /\ entries' = entries
            /\ results' = [results EXCEPT ![Lookups[next - 1]] = SymbolOf(Lookups[next - 1])]
        BY <1>2, <2>6 DEF Inv, LookUp
      <3>2. /\ results' = [a \in ToSet(Lookups) |-> results'[a]]
            /\ \A a \in ToSet(Lookups) : results'[a] = results[a] \/ results'[a] = SymbolOf(a)
        BY <1>2, <3>1 DEF Inv
      <3>3. \A a \in ToSet(Lookups) : results'[a] # NoSymbol => results'[a] = SymbolOf(a)
        BY <1>2, <3>2 DEF Inv, Found
      <3> QED
        BY <1>2, <2>1, <2>2, <2>3, <3>1, <3>2, <3>3 DEF Inv, Found
    <2>7. CASE UNCHANGED vars
      BY <1>2, <2>1, <2>2, <2>3, <2>7 DEF Inv, vars, Found
    <2> QED
      BY <1>2, <2>4, <2>5, <2>6, <2>7 DEF Next, Done
  <1> QED
    BY <1>1, <1>2, PTL DEF Spec

-----------------------------------------------------------------------------
(* The lookups *)

\* The symbol of an address comes from the last entry at or before it, and the next entry is
\* behind the address.
ComesFrom(symbol, a, e) ==
  /\ e \in 1 .. Len(entries) /\ e + 1 \in 1 .. Len(entries)
  /\ entries[e].address <= a /\ a < entries[e + 1].address
  /\ entries[e].name # BadName
  /\ symbol = [address |-> entries[e].address, name |-> entries[e].name,
               size |-> entries[e + 1].address - entries[e].address]

LEMMA FoundSymbol ==
  ASSUME Ascends(entries), NEW a \in Int, SymbolOf(a) # NoSymbol
  PROVE  \E e : ComesFrom(SymbolOf(a), a, e)
  <1> DEFINE n == Len(entries)
             upTo == {i \in 1 .. n : entries[i].address <= a}
             e == EntryAt(a)
  <1>1. /\ n \in Nat /\ \A k \in 1 .. n : entries[k].address \in Int
    <2>1. \A x \in Entry : x.address \in Int
      BY DEF Entry
    <2> QED
      BY <2>1, ListIsFunction DEF Ascends
  <1>2. e = IF upTo # {} THEN Max(upTo) ELSE 0
    BY DEF EntryAt, SelectLastInSeq
  <1>3. /\ e # 0 /\ e # n /\ entries[e].name # BadName
        /\ SymbolOf(a) = [address |-> entries[e].address, name |-> entries[e].name,
                          size |-> entries[e + 1].address - entries[e].address]
    BY DEF SymbolOf
  <1>4. e \in upTo /\ \A k \in upTo : k <= e
    <2>1. upTo # {} /\ upTo \subseteq 1 .. n
      BY <1>2, <1>3
    <2>2. e = Max(upTo)
      BY <1>2, <2>1
    <2> HIDE DEF upTo, n, e
    <2>3. Max(upTo) \in upTo /\ \A k \in upTo : k <= Max(upTo)
      BY <1>1, <2>1, MaxOfPlaces
    <2> QED
      BY <2>2, <2>3
  <1>5. e \in 1 .. n /\ entries[e].address <= a
    BY <1>4
  <1> HIDE DEF e, n
  <1>6. e + 1 \in 1 .. n /\ ~(e + 1 <= e)
    BY <1>1, <1>3, <1>5
  <1>7. ~(entries[e + 1].address <= a)
    BY <1>4, <1>6
  <1>8. a < entries[e + 1].address
    BY <1>1, <1>6, <1>7
  <1>9. ComesFrom(SymbolOf(a), a, e)
    BY <1>3, <1>5, <1>6, <1>8 DEF ComesFrom, n
  <1> QED
    BY <1>9

LEMMA EntriesAreKept ==
  ASSUME Inv, next > 1
  PROVE  Keeps(entries, AllEntries) /\ Ascends(entries)
  <1>1. entries = FirstOfEachAddress(AllEntries) /\ AllEntries \in Seq(Entry)
    BY SameSymbols DEF Inv
  <1>2. Keeps(FirstOfEachAddress(AllEntries), AllEntries)
    BY <1>1, FirstsAreKept
  <1>3. Keeps(entries, AllEntries)
    BY <1>1, <1>2
  <1> QED
    BY <1>3 DEF Keeps

LEMMA FoundComesFrom ==
  ASSUME Inv, NEW a \in ToSet(Lookups), Found(a)
  PROVE  /\ a \in Int /\ Keeps(entries, AllEntries) /\ Ascends(entries)
         /\ \E e : ComesFrom(results[a], a, e)
  <1>1. a \in Int
    <2>1. \A k \in DOMAIN Lookups : Lookups[k] \in Int
      BY LookupAssumption DEF U32
    <2> QED
      BY <2>1 DEF ToSet
  <1>2. next > 1 /\ results[a] = SymbolOf(a) /\ SymbolOf(a) # NoSymbol
    BY DEF Inv, Found
  <1>3. Keeps(entries, AllEntries) /\ Ascends(entries)
    BY <1>2, EntriesAreKept
  <1>4. \E e : ComesFrom(SymbolOf(a), a, e)
    BY <1>1, <1>2, <1>3, FoundSymbol
  <1> QED
    BY <1>1, <1>2, <1>3, <1>4

LEMMA EntryNumbers ==
  ASSUME Ascends(entries)
  PROVE  /\ Len(entries) \in Nat
         /\ \A k \in 1 .. Len(entries) : entries[k] \in Entry /\ entries[k].address \in Int
         /\ \A k, l \in 1 .. Len(entries) : k <= l => entries[k].address <= entries[l].address
         /\ \A k, l \in 1 .. Len(entries) : entries[k].address < entries[l].address => k < l
  <1>1. \A x \in Entry : x.address \in Int
    BY DEF Entry
  <1>2. /\ Len(entries) \in Nat
        /\ \A k \in 1 .. Len(entries) : entries[k] \in Entry /\ entries[k].address \in Int
    BY <1>1, ListIsFunction DEF Ascends
  <1>3. ASSUME NEW k \in 1 .. Len(entries), NEW l \in 1 .. Len(entries), k <= l
        PROVE  entries[k].address <= entries[l].address
    <2>1. CASE k = l
      BY <1>2, <2>1
    <2>2. CASE k # l
      BY <1>2, <1>3, <2>2 DEF Ascends
    <2> QED
      BY <2>1, <2>2
  <1>4. ASSUME NEW k \in 1 .. Len(entries), NEW l \in 1 .. Len(entries),
               entries[k].address < entries[l].address
        PROVE  k < l
    BY <1>2, <1>3, <1>4
  <1> QED
    BY <1>2, <1>3, <1>4

\* For every object and list of addresses: the functions that are found hold their addresses and
\* do not overlap.
THEOREM FoundFunctionsAreDisjoint == Spec => []FunctionsAreDisjoint
  <1>1. Inv => FunctionsAreDisjoint
    <2> SUFFICES ASSUME Inv PROVE FunctionsAreDisjoint
      OBVIOUS
    <2>1. ASSUME NEW a \in ToSet(Lookups), Found(a)
          PROVE  a - results[a].address \in 0 .. results[a].size - 1
      <3>1. PICK e : ComesFrom(results[a], a, e)
        BY <2>1, FoundComesFrom
      <3>2. /\ a \in Int /\ entries[e].address \in Int /\ entries[e + 1].address \in Int
            /\ entries[e].address <= a /\ a < entries[e + 1].address
            /\ results[a].address = entries[e].address
            /\ results[a].size = entries[e + 1].address - entries[e].address
        BY <2>1, <3>1, FoundComesFrom, EntryNumbers DEF ComesFrom
      <3> QED
        BY <3>2
    <2>2. ASSUME NEW a \in ToSet(Lookups), NEW b \in ToSet(Lookups), Found(a), Found(b)
          PROVE  \/ results[a] = results[b]
                 \/ results[a].address + results[a].size <= results[b].address
                 \/ results[b].address + results[b].size <= results[a].address
      <3>1. PICK e : ComesFrom(results[a], a, e)
        BY <2>2, FoundComesFrom
      <3>2. PICK f : ComesFrom(results[b], b, f)
        BY <2>2, FoundComesFrom
      <3>3. Ascends(entries)
        BY <2>2, FoundComesFrom
      <3>4. /\ e \in 1 .. Len(entries) /\ e + 1 \in 1 .. Len(entries)
            /\ f \in 1 .. Len(entries) /\ f + 1 \in 1 .. Len(entries)
            /\ entries[e].address \in Int /\ entries[e + 1].address \in Int
            /\ entries[f].address \in Int /\ entries[f + 1].address \in Int
            /\ results[a].address = entries[e].address
            /\ results[a].address + results[a].size = entries[e + 1].address
            /\ results[b].address = entries[f].address
            /\ results[b].address + results[b].size = entries[f + 1].address
        <4>1. results[a].size = entries[e + 1].address - entries[e].address
              /\ results[b].size = entries[f + 1].address - entries[f].address
          BY <3>1, <3>2 DEF ComesFrom
        <4>2. /\ e \in 1 .. Len(entries) /\ e + 1 \in 1 .. Len(entries)
              /\ results[a].address = entries[e].address
          BY <3>1 DEF ComesFrom
        <4>3. /\ f \in 1 .. Len(entries) /\ f + 1 \in 1 .. Len(entries)
              /\ results[b].address = entries[f].address
          BY <3>2 DEF ComesFrom
        <4>4. /\ entries[e].address \in Int /\ entries[e + 1].address \in Int
              /\ entries[f].address \in Int /\ entries[f + 1].address \in Int
          BY <3>3, <4>2, <4>3, EntryNumbers
        <4>5. \A m, n \in Int : m + (n - m) = n
          OBVIOUS
        <4> QED
          BY <4>1, <4>2, <4>3, <4>4, <4>5
      <3>5. CASE e = f
        BY <3>1, <3>2, <3>5 DEF ComesFrom
      <3>6. CASE e < f
        <4>1. e + 1 <= f
          BY <3>3, <3>4, <3>6, EntryNumbers
        <4>2. entries[e + 1].address <= entries[f].address
          BY <3>3, <3>4, <4>1, EntryNumbers
        <4> QED
          BY <3>4, <4>2
      <3>7. CASE f < e
        <4>1. f + 1 <= e
          BY <3>3, <3>4, <3>7, EntryNumbers
        <4>2. entries[f + 1].address <= entries[e].address
          BY <3>3, <3>4, <4>1, EntryNumbers
        <4> QED
          BY <3>4, <4>2
      <3> QED
        BY <3>3, <3>4, <3>5, <3>6, <3>7, EntryNumbers
    <2> QED
      BY <2>1, <2>2 DEF FunctionsAreDisjoint
  <1> QED
    BY <1>1, InvHolds, PTL

\* For every object: no address at or behind the end of a text section or of a function is given
\* to a symbol before that end.
THEOREM NoSymbolReachesTheDeadSpace == Spec => []DeadSpaceHasNoSymbol
  <1>1. Inv => DeadSpaceHasNoSymbol
    <2> SUFFICES ASSUME Inv, NEW a \in ToSet(Lookups), NEW end \in TextEnds \cup ToSet(object.ends),
                        Found(a), end <= a
                 PROVE  end <= results[a].address
      BY DEF DeadSpaceHasNoSymbol
    <2>1. PICK e : ComesFrom(results[a], a, e)
      BY FoundComesFrom
    <2>2. a \in Int /\ Keeps(entries, AllEntries) /\ Ascends(entries)
      BY FoundComesFrom
    <2>3. Contains(AllEntries, Named(end, BadName))
      BY SameSymbols DEF Inv
    <2>4. PICK k \in 1 .. Len(AllEntries) : AllEntries[k] = Named(end, BadName)
      BY <2>3 DEF Contains
    <2>5. PICK i \in 1 .. Len(entries) : entries[i].address = end
      <3>1. AllEntries[k].address = end
        BY <2>4 DEF Named
      <3> QED
        BY <2>2, <3>1 DEF Keeps
    <2>6. /\ e \in 1 .. Len(entries) /\ e + 1 \in 1 .. Len(entries) /\ a < entries[e + 1].address
          /\ results[a].address = entries[e].address
      BY <2>1 DEF ComesFrom
    <2>7. \A l \in 1 .. Len(entries) : entries[l].address \in Int
      BY <2>2, EntryNumbers
    <2>8. entries[i].address < entries[e + 1].address
      <3>1. entries[i].address \in Int /\ entries[e + 1].address \in Int
        BY <2>5, <2>6, <2>7
      <3> QED
        BY <2>2, <2>5, <2>6, <3>1
    <2>9. i < e + 1
      BY <2>2, <2>5, <2>6, <2>8, EntryNumbers
    <2>10. i <= e
      BY <2>5, <2>6, <2>9
    <2>11. entries[i].address <= entries[e].address
      BY <2>2, <2>5, <2>6, <2>10, EntryNumbers
    <2> QED
      BY <2>5, <2>6, <2>11
  <1> QED
    BY <1>1, InvHolds, PTL

-----------------------------------------------------------------------------
(* The table *)

\* The addresses of a table ascend and are those of the map.
LEMMA TableEntries ==
  ASSUME Inv, next > 0
  PROVE  \E symbols :
           /\ Keeps(symbols, Reverse(FullMap)) /\ table = TableOf(symbols)
           /\ symbols \in Seq(Entry) /\ Reverse(FullMap) \in Seq(Entry)
  <1> DEFINE n == Len(FullMap)
             symbols == FirstOfEachAddress(Reverse(FullMap))
  <1>1. n \in Nat /\ \A k \in 1 .. n : FullMap[k] \in Entry
    BY SameSymbols, ListIsFunction DEF Inv
  <1>2. Reverse(FullMap) \in [1 .. n -> Entry]
    <2>1. \A k \in 1 .. n : n - k + 1 \in 1 .. n
      BY <1>1
    <2> HIDE DEF n
    <2> QED
      BY <1>1, <2>1 DEF Reverse, n
  <1>3. Reverse(FullMap) \in Seq(Entry)
    BY <1>1, <1>2, FunctionIsList
  <1>4. Keeps(symbols, Reverse(FullMap)) /\ symbols \in Seq(Entry)
    BY <1>3, FirstsAreKept DEF Keeps, Ascends
  <1>5. table = TableOf(symbols)
    BY DEF Inv, MakeTable
  <1> QED
    BY <1>3, <1>4, <1>5

LEMMA ReverseContains ==
  ASSUME NEW s, Len(s) \in Nat, NEW x
  PROVE  Contains(Reverse(s), x) <=> Contains(s, x)
  <1> DEFINE n == Len(s)
  <1>1. /\ Len(Reverse(s)) = n /\ \A i \in 1 .. n : Reverse(s)[i] = s[(n - i) + 1]
        /\ n \in Nat
    BY DEF Reverse
  <1>2. \A i \in 1 .. n : (n - i) + 1 \in 1 .. n /\ (n - ((n - i) + 1)) + 1 = i
    BY <1>1
  <1> HIDE DEF n
  <1>3. \A i \in 1 .. n : Reverse(s)[(n - i) + 1] = s[i]
    BY <1>1, <1>2
  <1> QED
    BY <1>1, <1>2, <1>3 DEF Contains, n

\* A symbol that is found for an address starts where the table says.
LEMMA SameStart ==
  ASSUME Inv, NEW a \in ToSet(Lookups), Found(a), NEW symbols, Keeps(symbols, Reverse(FullMap)),
         table = TableOf(symbols), symbols \in Seq(Entry), Reverse(FullMap) \in Seq(Entry)
  PROVE  /\ TableSymbol(a) \in 1 .. Len(symbols)
         /\ symbols[TableSymbol(a)].address = results[a].address
         /\ table.addr[TableSymbol(a)] = results[a].address
  <1>1. PICK e : ComesFrom(results[a], a, e)
    BY FoundComesFrom
  <1>2. a \in Int /\ Keeps(entries, AllEntries) /\ Ascends(entries) /\ next > 0
    BY FoundComesFrom DEF Inv, Found
  <1>3. /\ Keeps(symbols, Reverse(FullMap)) /\ table = TableOf(symbols)
        /\ symbols \in Seq(Entry) /\ Reverse(FullMap) \in Seq(Entry)
    OBVIOUS
  <1> DEFINE n == Len(symbols)
             upTo == {i \in 1 .. n : table.addr[i] <= a}
  <1>4. n \in Nat /\ \A i \in 1 .. n : symbols[i].address \in Int /\ table.addr[i] = symbols[i].address
    <2>1. \A x \in Entry : x.address \in Int
      BY DEF Entry
    <2>2. n \in Nat /\ DOMAIN symbols = 1 .. n /\ \A i \in 1 .. n : symbols[i] \in Entry
      BY <1>3, ListIsFunction
    <2>3. table.addr = [i \in DOMAIN symbols |-> symbols[i].address]
      BY <1>3 DEF TableOf
    <2> QED
      BY <2>1, <2>2, <2>3
  <1>5. Len(table.addr) = n
    <2>1. DOMAIN symbols = 1 .. n /\ table.addr = [i \in DOMAIN symbols |-> symbols[i].address]
      BY <1>3, ListIsFunction DEF TableOf
    <2> QED
      BY <1>4, <2>1
  <1>6. TableSymbol(a) = IF upTo # {} THEN Max(upTo) ELSE 0
    BY <1>5 DEF TableSymbol, SelectLastInSeq
  \* The entry that is found is in the table.
  <1>7. \E j \in 1 .. n : symbols[j].address = entries[e].address
    <2>1. e \in 1 .. Len(entries) /\ entries[e].name # BadName
      BY <1>1 DEF ComesFrom
    <2>2. PICK k \in 1 .. Len(AllEntries) : entries[e] = AllEntries[k]
      BY <1>2, <2>1 DEF Keeps
    <2>3. Contains(AllEntries, entries[e])
      BY <2>2 DEF Contains
    <2>4. Contains(FullMap, entries[e])
      BY <2>1, <2>3, SameSymbols DEF Inv
    <2>5. Contains(Reverse(FullMap), entries[e])
      BY <2>4, SameSymbols, ListIsFunction, ReverseContains DEF Inv
    <2>6. PICK l \in 1 .. Len(Reverse(FullMap)) : Reverse(FullMap)[l] = entries[e]
      BY <2>5 DEF Contains
    <2>7. \E j \in 1 .. n : symbols[j].address = Reverse(FullMap)[l].address
      BY <1>3, <2>6, KeepsAddresses
    <2> QED
      BY <2>6, <2>7
  \* Every symbol of the table is an entry.
  <1>8. ASSUME NEW j \in 1 .. n
        PROVE  \E i \in 1 .. Len(entries) : entries[i].address = symbols[j].address
    <2>1. PICK l \in 1 .. Len(Reverse(FullMap)) : symbols[j] = Reverse(FullMap)[l]
      BY <1>3 DEF Keeps
    <2>2. Contains(Reverse(FullMap), symbols[j])
      BY <2>1 DEF Contains
    <2>3. Contains(FullMap, symbols[j])
      BY <2>2, SameSymbols, ListIsFunction, ReverseContains DEF Inv
    <2>4. Contains(AllEntries, symbols[j])
      BY <2>3, SameSymbols DEF Inv
    <2>5. PICK k \in 1 .. Len(AllEntries) : AllEntries[k] = symbols[j]
      BY <2>4 DEF Contains
    <2>6. \E i \in 1 .. Len(entries) : entries[i].address = AllEntries[k].address
      BY <1>2, KeepsAddresses
    <2> QED
      BY <2>5, <2>6
  <1>9. /\ e \in 1 .. Len(entries) /\ e + 1 \in 1 .. Len(entries)
        /\ entries[e].address <= a /\ a < entries[e + 1].address
        /\ results[a].address = entries[e].address
    BY <1>1 DEF ComesFrom
  <1>10. \A l \in 1 .. Len(entries) : entries[l].address \in Int
    BY <1>2, EntryNumbers
  <1> HIDE DEF n, upTo
  <1>11. PICK j \in 1 .. n : symbols[j].address = entries[e].address
    BY <1>7
  <1>12. j \in upTo /\ upTo \subseteq 1 .. n
    BY <1>4, <1>9, <1>11 DEF upTo
  <1>13. TableSymbol(a) \in upTo /\ \A l \in upTo : l <= TableSymbol(a)
    BY <1>4, <1>6, <1>12, MaxOfPlaces
  <1> DEFINE t == TableSymbol(a)
  <1>14. t \in 1 .. n /\ j <= t /\ symbols[t].address <= a
    BY <1>4, <1>12, <1>13 DEF upTo
  <1> HIDE DEF t
  <1>15. symbols[j].address <= symbols[t].address
    <2>1. CASE j = t
      BY <1>4, <2>1
    <2>2. CASE j # t
      <3>1. j < t
        BY <1>4, <1>14, <2>2
      <3>2. symbols[j].address < symbols[t].address
        BY <1>3, <1>14, <3>1 DEF Keeps, Ascends, n
      <3> QED
        BY <1>4, <1>14, <3>2
    <2> QED
      BY <2>1, <2>2
  <1>16. symbols[t].address <= entries[e].address
    <2>1. PICK i \in 1 .. Len(entries) : entries[i].address = symbols[t].address
      BY <1>8, <1>14
    <2>2. entries[i].address < entries[e + 1].address
      <3>1. entries[i].address \in Int /\ entries[e + 1].address \in Int
        BY <1>9, <1>10
      <3>2. entries[i].address <= a /\ a \in Int
        BY <1>2, <1>14, <2>1
      <3> QED
        BY <1>9, <3>1, <3>2
    <2>3. i < e + 1
      BY <1>2, <1>9, <2>2, EntryNumbers
    <2>4. i <= e
      BY <1>9, <2>3
    <2>5. entries[i].address <= entries[e].address
      BY <1>2, <1>9, <2>4, EntryNumbers
    <2> QED
      BY <2>1, <2>5
  <1>17. symbols[t].address = entries[e].address
    BY <1>4, <1>9, <1>10, <1>11, <1>14, <1>15, <1>16
  <1>18. t \in 1 .. n /\ table.addr[t] = entries[e].address
    BY <1>4, <1>14, <1>17
  <1> QED
    BY <1>9, <1>17, <1>18 DEF t, n

\* The buffer after some of the names.
NamesOf(symbols, count) == [k \in 1 .. count |-> symbols[k].name]
BufferOf(symbols, count) == FlattenSeq(NamesOf(symbols, count))

LEMMA BufferGrows ==
  ASSUME NEW symbols \in Seq(Entry), NEW count \in 1 .. Len(symbols)
  PROVE  /\ BufferOf(symbols, count - 1) \in Seq(Nat) /\ BufferOf(symbols, count) \in Seq(Nat)
         /\ symbols[count].name \in Seq(Nat)
         /\ BufferOf(symbols, count) = BufferOf(symbols, count - 1) \o symbols[count].name
  <1>1. /\ Len(symbols) \in Nat
        /\ \A k \in 1 .. Len(symbols) : symbols[k].name \in Seq(Nat)
    <2>1. \A x \in Entry : x.name \in Seq(Nat)
      BY DEF Entry
    <2> QED
      BY <2>1, ListIsFunction
  <1> DEFINE before == NamesOf(symbols, count - 1)
             all == NamesOf(symbols, count)
  <1>2. count - 1 \in Nat /\ count \in Nat
    BY <1>1
  <1>3. before \in [1 .. count - 1 -> Seq(Nat)] /\ all \in [1 .. count -> Seq(Nat)]
    BY <1>1, <1>2 DEF NamesOf
  <1>4. before \in Seq(Seq(Nat)) /\ Len(before) = count - 1 /\ all \in Seq(Seq(Nat)) /\ Len(all) = count
    BY <1>2, <1>3, FunctionIsList
  <1>5. all = Append(before, symbols[count].name)
    <2>1. Append(before, symbols[count].name) =
            [k \in 1 .. count |-> IF k = count THEN symbols[count].name ELSE before[k]]
      <3> HIDE DEF before
      <3> QED
        BY <1>2, <1>4
    <2>2. \A k \in 1 .. count :
            all[k] = IF k = count THEN symbols[count].name ELSE before[k]
      BY <1>2 DEF NamesOf
    <2>3. all = [k \in 1 .. count |-> all[k]]
      BY DEF NamesOf
    <2> HIDE DEF all, before
    <2> QED
      BY <2>1, <2>2, <2>3
  <1> HIDE DEF all, before
  <1>6. FlattenSeq(all) = FlattenSeq(before) \o symbols[count].name
    BY <1>1, <1>4, <1>5, FlattenGrows
  <1>7. FlattenSeq(before) \in Seq(Nat) /\ FlattenSeq(all) \in Seq(Nat)
    BY <1>4, FlattenType
  <1> QED
    BY <1>1, <1>6, <1>7 DEF BufferOf, before, all

\* What is written to the buffer stays.
LEMMA BufferKeeps ==
  ASSUME NEW symbols \in Seq(Entry), NEW count \in 1 .. Len(symbols)
  PROVE  /\ BufferOf(symbols, Len(symbols)) \in Seq(Nat)
         /\ IsPrefixOf(BufferOf(symbols, count), BufferOf(symbols, Len(symbols)))
  <1> DEFINE n == Len(symbols)
             B(k) == BufferOf(symbols, k)
             wrong == {d \in 0 .. n - count : ~IsPrefixOf(B(count), B(count + d))}
  <1>1. n \in Nat /\ \A k \in 1 .. n : /\ B(k) \in Seq(Nat) /\ B(k - 1) \in Seq(Nat)
                                      /\ symbols[k].name \in Seq(Nat)
                                      /\ B(k) = B(k - 1) \o symbols[k].name
    <2>1. n \in Nat
      OBVIOUS
    <2> QED
      BY <2>1, BufferGrows
  <1> HIDE DEF n, B
  <1>2. ASSUME NEW r \in Seq(Nat), NEW s \in Seq(Nat), NEW t \in Seq(Nat), IsPrefixOf(r, s)
        PROVE  IsPrefixOf(r, s \o t)
    <2> DEFINE st == s \o t
    <2>1. /\ Len(r) \in Nat /\ Len(s) \in Nat /\ Len(st) >= Len(s) /\ Len(st) \in Nat
          /\ \A i \in 1 .. Len(s) : st[i] = s[i]
      OBVIOUS
    <2> HIDE DEF st
    <2>2. IsPrefixOf(r, st)
      BY <1>2, <2>1 DEF IsPrefixOf
    <2> QED
      BY <2>2 DEF st
  <1>3. ASSUME wrong # {} PROVE FALSE
    <2>1. wrong \subseteq Nat
      BY <1>1
    <2>2. PICK d \in wrong : \A l \in wrong : d <= l
      BY <1>3, <2>1, LeastElement
    <2>3. d \in 0 .. n - count /\ ~IsPrefixOf(B(count), B(count + d)) /\ count \in 1 .. n
      BY <2>2 DEF n
    <2>4. CASE d = 0
      <3>1. B(count + d) = B(count)
        BY <1>1, <2>3, <2>4
      <3> QED
        BY <1>1, <2>3, <3>1 DEF IsPrefixOf
    <2>5. CASE d # 0
      <3>1. d - 1 \in 0 .. n - count /\ ~(d <= d - 1) /\ count + d \in 1 .. n
            /\ (count + d) - 1 = count + (d - 1) /\ count \in 1 .. n
        BY <1>1, <2>3, <2>5
      <3>2. IsPrefixOf(B(count), B(count + (d - 1)))
        BY <2>2, <3>1
      <3>3. B(count + d) = B(count + (d - 1)) \o symbols[count + d].name
            /\ B(count) \in Seq(Nat) /\ B(count + (d - 1)) \in Seq(Nat)
            /\ symbols[count + d].name \in Seq(Nat)
        BY <1>1, <3>1
      <3> QED
        BY <1>2, <2>3, <3>2, <3>3
    <2> QED
      BY <2>4, <2>5
  <1>4. n - count \in 0 .. n - count /\ count + (n - count) = n /\ n \in 1 .. n
    BY <1>1 DEF n
  <1>5. IsPrefixOf(B(count), B(n)) /\ B(n) \in Seq(Nat)
    BY <1>1, <1>3, <1>4
  <1> QED
    BY <1>5 DEF B, n

LEMMA SmallRest ==
  ASSUME NEW n \in Nat, NEW m \in Nat, m < n
  PROVE  m % n = m
  OBVIOUS

LEMMA PartOfList ==
  ASSUME NEW list \in Seq(Nat), NEW from \in Nat, NEW count \in Nat, from + count <= Len(list)
  PROVE  LET part == SubSeq(list, from + 1, from + count)
         IN  /\ part \in Seq(Nat) /\ Len(part) = count
             /\ \A i \in 1 .. count : part[i] = list[from + i]
  <1> DEFINE part == SubSeq(list, from + 1, from + count)
  <1>1. (from + count) - (from + 1) + 1 = count /\ \A i \in 1 .. count : (from + 1) + i - 1 = from + i
    OBVIOUS
  <1>2. /\ Len(list) \in Nat
        /\ \A i \in 1 .. count : from + i \in 1 .. Len(list) /\ list[from + i] \in Nat
    OBVIOUS
  <1>3. part = [i \in 1 .. count |-> list[from + i]]
    BY <1>1
  <1>4. part \in Seq(Nat) /\ Len(part) = count
    BY <1>2, <1>3
  <1> QED
    BY <1>3, <1>4

\* What TableRoundTrips says of a table, by its symbols.
LEMMA NamesInTable ==
  ASSUME NEW symbols \in Seq(Entry), table = TableOf(symbols), Len(table.buffer) < U32Size
  PROVE  /\ Len(table.index) = Len(symbols) + 1 /\ table.index[Len(symbols) + 1] = Len(table.buffer)
         /\ \A k \in 1 .. Len(symbols) : NameInTable(k) = symbols[k].name
  <1> DEFINE n == Len(symbols)
             B(k) == BufferOf(symbols, k)
             L(k) == Len(B(k))
  <1>1. n \in Nat /\ DOMAIN symbols = 1 .. n
    BY ListIsFunction
  <1>2. /\ table.index = [k \in 1 .. n + 1 |-> L(k - 1) % U32Size]
        /\ table.buffer = B(n)
    BY DEF TableOf, BufferOf, NamesOf
  <1>3. B(0) = << >> /\ B(0) \in Seq(Nat)
    <2>1. NamesOf(symbols, 0) = << >>
      BY DEF NamesOf
    <2>2. Len(<< >>) = 0 /\ 0 \in Nat
      OBVIOUS
    <2>3. FlattenSeq(<< >>) = << >>
      BY <2>2, JoinStep
    <2>4. FlattenSeq(NamesOf(symbols, 0)) = << >>
      BY <2>1, <2>3
    <2>5. << >> \in Seq(Nat)
      OBVIOUS
    <2> QED
      BY <2>4, <2>5 DEF BufferOf, B
  <1>4. \A k \in 1 .. n : /\ B(k) \in Seq(Nat) /\ symbols[k].name \in Seq(Nat) /\ B(k - 1) \in Seq(Nat)
                         /\ B(k) = B(k - 1) \o symbols[k].name
                         /\ IsPrefixOf(B(k), B(n))
    BY <1>1, BufferGrows, BufferKeeps
  <1> HIDE DEF B
  <1>5. B(n) \in Seq(Nat)
    <2>1. n = 0 \/ n \in 1 .. n
      BY <1>1
    <2> QED
      BY <1>3, <1>4, <2>1
  <1>6. ASSUME NEW k \in 0 .. n
        PROVE  L(k) \in Nat /\ L(k) <= L(n) /\ L(n) \in Nat
    <2>1. L(n) \in Nat
      BY <1>5
    <2>2. CASE k = 0
      BY <1>3, <2>1, <2>2
    <2>3. CASE k # 0
      <3>1. k \in 1 .. n
        BY <1>1, <2>3
      <3>2. B(k) \in Seq(Nat) /\ IsPrefixOf(B(k), B(n))
        BY <1>4, <3>1
      <3> QED
        BY <2>1, <3>2 DEF IsPrefixOf
    <2> QED
      BY <2>2, <2>3
  <1>7. ASSUME NEW k \in 0 .. n
        PROVE  L(k) % U32Size = L(k)
    <2>1. L(n) < U32Size /\ U32Size \in Nat
      BY <1>2, LookupAssumption
    <2>2. L(k) \in Nat /\ L(k) < U32Size
      <3> HIDE DEF L
      <3> QED
        BY <1>6, <2>1
    <2> HIDE DEF L
    <2> QED
      BY <2>1, <2>2, SmallRest
  <1>8. \A k \in 1 .. n + 1 : table.index[k] = L(k - 1)
    <2>1. \A k \in 1 .. n + 1 : k - 1 \in 0 .. n
      BY <1>1
    <2> HIDE DEF L, n
    <2> QED
      BY <1>2, <1>7, <2>1
  <1>9. ASSUME NEW k \in 1 .. n
        PROVE  NameInTable(k) = symbols[k].name
    <2> DEFINE before == B(k - 1)
               name == symbols[k].name
               all == B(n)
    <2>1. k \in 1 .. n + 1 /\ k + 1 \in 1 .. n + 1 /\ (k + 1) - 1 = k
      BY <1>1
    <2>2. NameInTable(k) = SubSeq(all, Len(before) + 1, Len(B(k)))
      <3>1. table.index[k] = Len(before) /\ table.index[k + 1] = Len(B(k))
        BY <1>8, <2>1
      <3> QED
        BY <1>2, <3>1 DEF NameInTable
    <2>3. /\ before \in Seq(Nat) /\ name \in Seq(Nat) /\ all \in Seq(Nat) /\ B(k) \in Seq(Nat)
          /\ B(k) = before \o name /\ IsPrefixOf(B(k), all)
      BY <1>4, <1>5
    <2> HIDE DEF before, name, all
    <2>4. /\ Len(before) \in Nat /\ Len(name) \in Nat /\ Len(B(k)) = Len(before) + Len(name)
          /\ \A i \in 1 .. Len(name) : B(k)[Len(before) + i] = name[i]
      BY <2>3
    <2>5. Len(B(k)) <= Len(all) /\ \A i \in 1 .. Len(B(k)) : all[i] = B(k)[i]
      BY <2>3 DEF IsPrefixOf
    <2> DEFINE part == SubSeq(all, Len(before) + 1, Len(B(k)))
    <2>6. /\ part \in Seq(Nat) /\ Len(part) = Len(name)
          /\ \A i \in 1 .. Len(name) : part[i] = all[Len(before) + i]
      <3>1. Len(before) \in Nat /\ Len(name) \in Nat /\ Len(before) + Len(name) <= Len(all)
        BY <2>4, <2>5
      <3>2. part = SubSeq(all, Len(before) + 1, Len(before) + Len(name))
        BY <2>4
      <3> HIDE DEF part
      <3> DEFINE from == Len(before)
                 count == Len(name)
      <3>3. from \in Nat /\ count \in Nat /\ from + count <= Len(all)
            /\ part = SubSeq(all, from + 1, from + count)
        BY <3>1, <3>2
      <3> HIDE DEF from, count
      <3>4. /\ part \in Seq(Nat) /\ Len(part) = count
            /\ \A i \in 1 .. count : part[i] = all[from + i]
        BY <2>3, <3>3, PartOfList
      <3> QED
        BY <3>4 DEF from, count
    <2> HIDE DEF part
    <2>7. ASSUME NEW i \in 1 .. Len(name)
          PROVE  part[i] = name[i]
      <3>1. Len(before) + i \in 1 .. Len(B(k))
        BY <2>4
      <3>2. all[Len(before) + i] = B(k)[Len(before) + i]
        BY <2>5, <3>1
      <3> QED
        BY <2>4, <2>6, <3>2
    <2>8. part = name
      BY <2>3, <2>6, <2>7, SameElements
    <2> QED
      BY <2>2, <2>8 DEF part, name
  <1>10. Len(table.index) = n + 1 /\ table.index[n + 1] = Len(table.buffer)
    <2>1. Len(table.index) = n + 1
      BY <1>1, <1>2
    <2>2. n + 1 \in 1 .. n + 1 /\ (n + 1) - 1 = n
      BY <1>1
    <2> QED
      BY <1>2, <1>8, <2>1, <2>2
  <1> QED
    BY <1>9, <1>10

\* The last symbol of an address in a list is the first in its reverse.
LEMMA LastIsFirst ==
  ASSUME NEW list \in Seq(Entry), NEW p \in 1 .. Len(list),
         \A l \in 1 .. Len(list) : l < p => Reverse(list)[l].address # Reverse(list)[p].address
  PROVE  list[SelectLastInSeq(list, LAMBDA s : s.address = Reverse(list)[p].address)] = Reverse(list)[p]
  <1> DEFINE n == Len(list)
             address == Reverse(list)[p].address
             q == (n - p) + 1
             same == {i \in 1 .. n : list[i].address = address}
  <1>1. n \in Nat /\ \A i \in 1 .. n : (n - i) + 1 \in 1 .. n /\ (n - ((n - i) + 1)) + 1 = i
    OBVIOUS
  <1>2. \A i \in 1 .. n : Reverse(list)[i] = list[(n - i) + 1]
    BY DEF Reverse
  <1> HIDE DEF n
  <1>3. \A i \in 1 .. n : list[i] = Reverse(list)[(n - i) + 1]
    BY <1>1, <1>2
  <1>4. p \in 1 .. n
    BY DEF n
  <1>5. q \in 1 .. n /\ list[q] = Reverse(list)[p]
    BY <1>1, <1>2, <1>4
  <1>6. q \in same
    BY <1>5
  <1>7. ASSUME NEW i \in same
        PROVE  i <= q
    <2>1. i \in 1 .. n /\ (n - i) + 1 \in 1 .. n /\ Reverse(list)[(n - i) + 1].address = address
      BY <1>1, <1>3
    <2>2. ~((n - i) + 1 < p)
      BY <2>1 DEF n
    <2> QED
      BY <1>1, <1>4, <2>1, <2>2
  <1>8. Max(same) \in same /\ \A i \in same : i <= Max(same)
    <2>1. same \subseteq 1 .. n /\ same # {}
      BY <1>6
    <2> HIDE DEF same
    <2> QED
      BY <1>1, <2>1, MaxOfPlaces
  <1> DEFINE m == Max(same)
  <1>9. m \in 1 .. n /\ m <= q /\ q <= m
    BY <1>6, <1>7, <1>8
  <1> HIDE DEF m
  <1>10. m = q
    BY <1>1, <1>5, <1>9
  <1>11. SelectLastInSeq(list, LAMBDA s : s.address = address) = m
    BY <1>6 DEF SelectLastInSeq, m, n
  <1> QED
    BY <1>5, <1>10, <1>11

\* For every object whose names fit the index: what is read back from the table is the map, each
\* address once, ascending, with the name that the map has last for it.  (`as u32` wraps the
\* index of a longer buffer.)
THEOREM TableGivesBackTheMap ==
  Spec => [](Len(table.buffer) < U32Size => TableRoundTrips)
  <1>1. ASSUME Inv, Len(table.buffer) < U32Size
        PROVE  TableRoundTrips
    <2> SUFFICES ASSUME next > 0 PROVE TableRoundTrips
      BY DEF TableRoundTrips
    <2> DEFINE reversed == Reverse(FullMap)
               c == Len(FullMap)
    <2>1. PICK symbols : /\ Keeps(symbols, reversed) /\ table = TableOf(symbols)
                         /\ symbols \in Seq(Entry) /\ reversed \in Seq(Entry)
      BY <1>1, TableEntries
    <2> DEFINE n == Len(symbols)
    <2>2. /\ n \in Nat /\ DOMAIN symbols = 1 .. n
          /\ table.addr = [k \in 1 .. n |-> symbols[k].address]
      BY <2>1, ListIsFunction DEF TableOf
    <2>3. DOMAIN table.addr = 1 .. n /\ Len(table.addr) = n
          /\ \A k \in 1 .. n : table.addr[k] = symbols[k].address
      <3> HIDE DEF n
      <3> QED
        BY <2>2
    <2>4. /\ Len(table.index) = n + 1 /\ table.index[n + 1] = Len(table.buffer)
          /\ \A k \in 1 .. n : NameInTable(k) = symbols[k].name
      BY <1>1, <2>1, NamesInTable
    <2>5. /\ FullMap \in Seq(Entry) /\ c \in Nat /\ DOMAIN FullMap = 1 .. c
          /\ Len(reversed) = c
      <3>1. FullMap \in Seq(Entry)
        BY <1>1, SameSymbols DEF Inv
      <3>2. c \in Nat /\ DOMAIN FullMap = 1 .. c
        BY <3>1, ListIsFunction
      <3> QED
        BY <3>1, <3>2 DEF Reverse
    <2> HIDE DEF n, c, reversed
    <2>6. \A k, l \in DOMAIN table.addr : k < l => table.addr[k] < table.addr[l]
      <3>1. \A k, l \in 1 .. n : k < l => symbols[k].address < symbols[l].address
        BY <2>1 DEF Keeps, Ascends, n
      <3> QED
        BY <2>3, <3>1
    <2>7. ASSUME NEW k \in 1 .. n
          PROVE  \E p \in 1 .. c : /\ symbols[k] = reversed[p]
                                   /\ \A l \in 1 .. c : l < p => reversed[l].address # reversed[p].address
      BY <2>1, <2>5 DEF Keeps, n
    <2>8. ToSet(table.addr) = {symbol.address : symbol \in ToSet(FullMap)}
      <3>1. \A x : Contains(reversed, x) <=> x \in ToSet(FullMap)
        <4>1. \A x : Contains(reversed, x) <=> Contains(FullMap, x)
          BY <2>5, ReverseContains DEF c, reversed
        <4>2. \A x : Contains(FullMap, x) <=> x \in ToSet(FullMap)
          BY <2>5 DEF Contains, ToSet, c
        <4> QED
          BY <4>1, <4>2
      <3>2. ASSUME NEW a \in ToSet(table.addr)
            PROVE  a \in {symbol.address : symbol \in ToSet(FullMap)}
        <4>1. PICK k \in 1 .. n : a = symbols[k].address
          BY <2>3 DEF ToSet
        <4>2. PICK p \in 1 .. c : symbols[k] = reversed[p]
          BY <2>7
        <4>3. Contains(reversed, symbols[k])
          BY <2>5, <4>2 DEF Contains
        <4> QED
          BY <3>1, <4>1, <4>3
      <3>3. ASSUME NEW symbol \in ToSet(FullMap)
            PROVE  symbol.address \in ToSet(table.addr)
        <4>1. Contains(reversed, symbol)
          BY <3>1
        <4>2. PICK p \in 1 .. Len(reversed) : reversed[p] = symbol
          BY <4>1 DEF Contains
        <4>3. PICK k \in 1 .. n : symbols[k].address = symbol.address
          BY <2>1, <4>2 DEF Keeps, n
        <4> QED
          BY <2>3, <4>3 DEF ToSet
      <3> QED
        BY <3>2, <3>3
    <2>9. ASSUME NEW k \in DOMAIN table.addr
          PROVE  NameInTable(k) =
                   FullMap[SelectLastInSeq(FullMap, LAMBDA s : s.address = table.addr[k])].name
      <3>1. k \in 1 .. n
        BY <2>3
      <3>2. PICK p \in 1 .. c :
              /\ symbols[k] = reversed[p]
              /\ \A l \in 1 .. c : l < p => reversed[l].address # reversed[p].address
        BY <2>7, <3>1
      <3>3. FullMap[SelectLastInSeq(FullMap, LAMBDA s : s.address = reversed[p].address)] = reversed[p]
        BY <2>5, <3>2, LastIsFirst DEF c, reversed
      <3>4. table.addr[k] = reversed[p].address
        BY <2>3, <3>1, <3>2
      <3> QED
        BY <2>4, <3>1, <3>2, <3>3, <3>4
    <2> QED
      BY <2>3, <2>4, <2>6, <2>8, <2>9 DEF TableRoundTrips
  <1> QED
    BY <1>1, InvHolds, PTL

-----------------------------------------------------------------------------
(* The two ways, compared *)

IsFirstOf(list, k) ==
  /\ k \in 1 .. Len(list)
  /\ \A l \in 1 .. Len(list) : l < k => list[l].address # list[k].address

IsLastOf(list, k) ==
  /\ k \in 1 .. Len(list)
  /\ \A l \in 1 .. Len(list) : l > k => list[l].address # list[k].address

\* The first entry of an address is in the front part of a list, if the part has the address.
LEMMA FirstIsInFront ==
  ASSUME NEW front \in Seq(Entry), NEW list \in Seq(Entry), IsPrefixOf(front, list),
         NEW k, IsFirstOf(list, k), NEW y, Contains(front, y), y.address = list[k].address
  PROVE  Contains(front, list[k])
  <1>1. Len(front) \in Nat /\ Len(list) \in Nat /\ k \in 1 .. Len(list)
    BY DEF IsFirstOf
  <1>2. PICK p \in 1 .. Len(front) : front[p] = y
    BY DEF Contains
  <1>3. p \in 1 .. Len(list) /\ list[p].address = list[k].address
    BY <1>1, <1>2 DEF IsPrefixOf
  <1>4. ~(p < k)
    BY <1>3 DEF IsFirstOf
  <1>5. k \in 1 .. Len(front)
    BY <1>1, <1>2, <1>4
  <1> QED
    BY <1>5 DEF Contains, IsPrefixOf

\* And the last one is in the back part.
LEMMA LastIsInBack ==
  ASSUME NEW front \in Seq(Entry), NEW back \in Seq(Entry), NEW list, list = front \o back,
         NEW k, IsLastOf(list, k), NEW y, Contains(back, y), y.address = list[k].address
  PROVE  Contains(back, list[k])
  <1> DEFINE m == Len(front)
             n == Len(back)
  <1>1. /\ m \in Nat /\ n \in Nat /\ Len(list) = m + n
        /\ \A i \in 1 .. n : list[m + i] = back[i]
    OBVIOUS
  <1>2. PICK p \in 1 .. n : back[p] = y
    BY DEF Contains
  <1> HIDE DEF m, n
  <1>3. m + p \in 1 .. Len(list) /\ list[m + p].address = list[k].address
    <2>1. m + p \in 1 .. m + n
      BY <1>1, <1>2
    <2>2. list[m + p] = y
      BY <1>1, <1>2
    <2> QED
      BY <1>1, <2>1, <2>2
  <1>4. k \in 1 .. Len(list) /\ ~(m + p > k)
    BY <1>3 DEF IsLastOf
  <1>5. k - m \in 1 .. n /\ m + (k - m) = k
    BY <1>1, <1>2, <1>4
  <1>6. list[k] = back[k - m]
    BY <1>1, <1>5
  <1> QED
    BY <1>5, <1>6 DEF Contains, n

LEMMA SynthesizedName ==
  ASSUME NEW x, Contains(SynthesizedSymbols, x)
  PROVE  x.name = Synthesized(x.address)
  BY DEF Contains, SynthesizedSymbols, Named

\* The first entry and the last symbol of an address have one name, or are two of its symbols.
LEMMA SameName ==
  ASSUME object \in ObjectFields, NEW k, IsFirstOf(AllEntries, k), AllEntries[k].name # BadName,
         NEW p, IsLastOf(FullMap, p), FullMap[p].address = AllEntries[k].address
  PROVE  \/ FullMap[p].name = AllEntries[k].name
         \/ {FullMap[p].name, AllEntries[k].name} \subseteq SymbolNames(AllEntries[k].address)
  <1> DEFINE x == AllEntries[k]
             y == FullMap[p]
  <1>1. /\ AllEntries \in Seq(Entry) /\ FullMap \in Seq(Entry)
        /\ \A z : Contains(AllEntries, z) /\ z.name # BadName => Contains(FullMap, z)
        /\ SynthesizedSymbols \in Seq(Entry) /\ DecodedSymbols \in Seq(Entry)
        /\ ObjectSymbols \in Seq(Entry) /\ IsPrefixOf(ObjectSymbols, AllEntries)
        /\ \A z : Contains(DecodedSymbols, z) <=> Contains(ObjectSymbols, z) /\ z.name # BadName
    BY SameSymbols
  <1>2. /\ FullMap = SynthesizedSymbols \o DecodedSymbols
        /\ \A z : Contains(FullMap, z) <=>
                    Contains(SynthesizedSymbols, z) \/ Contains(DecodedSymbols, z)
    BY <1>1, ContainsConcat DEF FullMap
  <1>3. Contains(FullMap, x) /\ Contains(FullMap, y)
    BY <1>1 DEF IsFirstOf, IsLastOf, Contains
  <1>4. CASE \E z : Contains(DecodedSymbols, z) /\ z.address = x.address
    <2>1. PICK z : Contains(DecodedSymbols, z) /\ z.address = x.address
      BY <1>4
    <2>2. Contains(ObjectSymbols, z)
      BY <1>1, <2>1
    <2>3. Contains(ObjectSymbols, x)
      BY <1>1, <2>1, <2>2, FirstIsInFront
    <2>4. Contains(DecodedSymbols, x)
      BY <1>1, <2>3
    <2>5. Contains(DecodedSymbols, y)
      BY <1>1, <1>2, <2>1, LastIsInBack
    <2> HIDE DEF x, y
    <2>6. x \in ToSet(DecodedSymbols) /\ y \in ToSet(DecodedSymbols)
      BY <1>1, <2>4, <2>5 DEF Contains, ToSet
    <2>7. x.address = y.address
      BY DEF x, y
    <2>8. {y.name, x.name} \subseteq SymbolNames(x.address)
      BY <2>6, <2>7 DEF SymbolNames
    <2> QED
      BY <2>8 DEF x, y
  <1>5. CASE ~ \E z : Contains(DecodedSymbols, z) /\ z.address = x.address
    <2>1. Contains(SynthesizedSymbols, x) /\ Contains(SynthesizedSymbols, y)
      BY <1>2, <1>3, <1>5
    <2>2. x.name = Synthesized(x.address) /\ y.name = Synthesized(y.address)
      BY <2>1, SynthesizedName
    <2> QED
      BY <2>2
  <1> QED
    BY <1>4, <1>5

\* For every object whose names fit the index: a symbol that is found for an address starts where
\* the table says, and has the name that the table has, unless both are names of symbols there.
THEOREM TableAndLookupsAgree ==
  Spec => [](Len(table.buffer) < U32Size => SameFunctionInTable)
  <1>1. ASSUME Inv, Len(table.buffer) < U32Size
        PROVE  SameFunctionInTable
    <2> SUFFICES ASSUME NEW a \in ToSet(Lookups), Found(a)
                 PROVE  LET t == TableSymbol(a)
                        IN  /\ t # 0 /\ table.addr[t] = results[a].address
                            /\ \/ NameInTable(t) = results[a].name
                               \/ {NameInTable(t), results[a].name}
                                    \subseteq SymbolNames(results[a].address)
      BY DEF SameFunctionInTable
    <2> DEFINE t == TableSymbol(a)
               reversed == Reverse(FullMap)
               c == Len(FullMap)
    <2>1. next > 0
      BY <1>1 DEF Inv
    <2>2. PICK symbols : /\ Keeps(symbols, reversed) /\ table = TableOf(symbols)
                         /\ symbols \in Seq(Entry) /\ reversed \in Seq(Entry)
      BY <1>1, <2>1, TableEntries
    <2>3. /\ t \in 1 .. Len(symbols) /\ table.addr[t] = results[a].address
          /\ symbols[t].address = results[a].address
      BY <1>1, <2>2, SameStart
    <2>4. NameInTable(t) = symbols[t].name
      BY <1>1, <2>2, <2>3, NamesInTable
    <2>5. PICK e : ComesFrom(results[a], a, e)
      BY <1>1, FoundComesFrom
    <2>6. /\ e \in 1 .. Len(entries) /\ entries[e].name # BadName
          /\ results[a].address = entries[e].address /\ results[a].name = entries[e].name
      BY <2>5 DEF ComesFrom
    <2>7. PICK k \in 1 .. Len(AllEntries) : entries[e] = AllEntries[k] /\ IsFirstOf(AllEntries, k)
      <3>1. Keeps(entries, AllEntries)
        BY <1>1, FoundComesFrom
      <3> QED
        BY <2>6, <3>1 DEF Keeps, IsFirstOf
    <2>8. PICK q \in 1 .. Len(reversed) : symbols[t] = reversed[q] /\ IsFirstOf(reversed, q)
      BY <2>2, <2>3 DEF Keeps, IsFirstOf
    <2> DEFINE p == (c - q) + 1
    <2>9. /\ c \in Nat /\ Len(reversed) = c /\ \A i \in 1 .. c : reversed[i] = FullMap[(c - i) + 1]
      <3>1. c \in Nat
        BY <1>1, SameSymbols, ListIsFunction DEF Inv
      <3> QED
        BY <3>1 DEF Reverse
    <2> HIDE DEF c, reversed
    <2>10. p \in 1 .. c /\ FullMap[p] = symbols[t]
      BY <2>8, <2>9
    <2>11. ASSUME NEW l \in 1 .. c, l > p PROVE FullMap[l].address # FullMap[p].address
      <3>1. (c - l) + 1 \in 1 .. c /\ (c - l) + 1 < q /\ (c - ((c - l) + 1)) + 1 = l
        BY <2>8, <2>9, <2>11
      <3>2. reversed[(c - l) + 1] = FullMap[l]
        BY <2>9, <3>1
      <3>3. reversed[(c - l) + 1].address # reversed[q].address
        BY <2>8, <2>9, <3>1 DEF IsFirstOf
      <3> QED
        BY <2>8, <2>10, <3>2, <3>3
    <2>12. IsLastOf(FullMap, p)
      BY <2>10, <2>11 DEF IsLastOf, c
    <2> HIDE DEF p, t
    <2>13. \/ FullMap[p].name = AllEntries[k].name
           \/ {FullMap[p].name, AllEntries[k].name} \subseteq SymbolNames(AllEntries[k].address)
      <3>1. object \in ObjectFields
        BY <1>1 DEF Inv
      <3> QED
        BY <2>3, <2>6, <2>7, <2>10, <2>12, <3>1, SameName
    <2>14. t # 0
      BY <2>3
    <2> QED
      BY <2>3, <2>4, <2>6, <2>7, <2>10, <2>13, <2>14 DEF t
  <1> QED
    BY <1>1, InvHolds, PTL
=============================================================================
