---------------------------- MODULE FunctionProofs ----------------------------
(***************************************************************************)
(* Theorems about where functions start and end, and which addresses they  *)
(* have: FunctionLists, with the decoder of FunctionStarts, for all files, *)
(* MatchFuns, for all sorted lists, and ObjectTraversal, which looks for   *)
(* the addresses in other object files, for all file systems.              *)
(***************************************************************************)
EXTENDS FunctionLists, MatchFuns, ObjectTraversal, SortedSeqsProofs

-----------------------------------------------------------------------------
(* Remainders                                                                *)

\* A digit more of a number below w, in the radix.
LEMMA SmallerTimes ==
  ASSUME NEW w \in Nat, NEW r \in Nat, r < w, NEW low \in Nat, NEW radix \in Nat, low <= radix - 1
  PROVE r + low * w \in Nat /\ r + low * w < radix * w
  <1> DEFINE d == radix - 1 - low
  <1>1. d \in Nat /\ radix = low + 1 + d
    OBVIOUS
  <1> HIDE DEF d
  <1>2. radix * w = low * w + w + d * w /\ d * w \in Nat /\ low * w \in Nat
    BY <1>1
  <1> QED
    BY <1>2

\* Remainders: what is left of a multiple and less than one more.
LEMMA RestOfMultiple ==
  ASSUME NEW m \in Nat \ {0}, NEW q \in Nat, NEW r \in 0 .. m - 1
  PROVE  (q * m + r) % m = r
  OBVIOUS

\* Every number is a multiple and a remainder.
LEMMA RestExists ==
  ASSUME NEW x \in Nat, NEW m \in Nat \ {0}
  PROVE  \E q \in Nat, r \in 0 .. m - 1 : x = q * m + r /\ x % m = r
  <1> DEFINE q == x \div m
             r == x - q * m
  <1>1. q \in Nat /\ q * m <= x /\ x < q * m + m
    OBVIOUS
  <1> HIDE DEF q
  <1>2. q * m \in Int
    BY <1>1
  <1>3. r \in 0 .. m - 1 /\ x = q * m + r
    BY <1>1, <1>2
  <1> HIDE DEF r
  <1>4. x % m = r
    BY <1>1, <1>3, RestOfMultiple
  <1> QED
    BY <1>1, <1>3, <1>4

\* A sum may wrap as it grows.
LEMMA RestOfSum ==
  ASSUME NEW x \in Nat, NEW y \in Nat, NEW m \in Nat \ {0}
  PROVE  ((x % m) + y) % m = (x + y) % m
  <1>1. PICK q \in Nat, r \in 0 .. m - 1 : x = q * m + r /\ x % m = r
    BY RestExists
  <1>2. PICK p \in Nat, s \in 0 .. m - 1 : r + y = p * m + s /\ (r + y) % m = s
    <2>1. r + y \in Nat
      OBVIOUS
    <2> QED
      BY <2>1, RestExists
  <1>3. (q + p) * m = q * m + p * m /\ q * m \in Nat /\ p * m \in Nat /\ q + p \in Nat
    OBVIOUS
  <1>4. x + y = (q + p) * m + s
    BY <1>1, <1>2, <1>3
  <1>5. (x + y) % m = s
    BY <1>3, <1>4, RestOfMultiple
  <1> QED
    BY <1>1, <1>2, <1>5

\* A sum that wrapped at n still has its remainder by a divisor of n.
LEMMA RestOfRest ==
  ASSUME NEW x \in Nat, NEW m \in Nat \ {0}, NEW n \in Nat \ {0}, n % m = 0
  PROVE  (x % n) % m = x % m
  <1>1. PICK q \in Nat, r \in 0 .. n - 1 : x = q * n + r /\ x % n = r
    BY RestExists
  <1>2. PICK k \in Nat, z \in 0 .. m - 1 : n = k * m + z /\ n % m = z
    BY RestExists
  <1>3. PICK p \in Nat, s \in 0 .. m - 1 : r = p * m + s /\ r % m = s
    <2>1. r \in Nat
      OBVIOUS
    <2> QED
      BY <2>1, RestExists
  <1>4. n = k * m
    BY <1>2
  <1>5. q * n = (q * k) * m /\ q * k \in Nat
    BY <1>4
  <1> DEFINE a == q * k
  <1> HIDE DEF a
  <1>6. q * n = a * m /\ a \in Nat
    BY <1>5 DEF a
  <1>7. (a + p) * m = a * m + p * m /\ a + p \in Nat /\ a * m \in Nat /\ p * m \in Nat
    BY <1>6
  <1>8. x = (a + p) * m + s
    BY <1>1, <1>3, <1>6, <1>7
  <1>9. x % m = s
    BY <1>7, <1>8, RestOfMultiple
  <1> QED
    BY <1>1, <1>3, <1>9

-----------------------------------------------------------------------------
(* Weights: a one in a group stands for Radix ones in the group before it.   *)

\* The equation of Weight, up to n.
IsWeight(f, n) == f = [group \in 0 .. n |-> IF group = 0 THEN 1 ELSE Radix * f[group - 1]]

\* The equation of Weight has a solution.
LEMMA WeightExists ==
  ASSUME NEW n \in Nat
  PROVE  \E f : IsWeight(f, n)
  <1> DEFINE without == {k \in Nat : ~\E f : IsWeight(f, k)}
  <1>1. ASSUME without # {} PROVE FALSE
    <2>1. PICK k \in without : \A l \in without : k <= l
      BY <1>1, LeastElement
    <2>2. k \in Nat /\ ~\E f : IsWeight(f, k)
      BY <2>1
    <2>3. k # 0
      <3>1. IsWeight([l \in 0 .. 0 |-> 1], 0)
        BY DEF IsWeight
      <3> QED
        BY <2>2, <3>1
    <2>4. k - 1 \in Nat /\ ~(k <= k - 1)
      BY <2>2, <2>3
    <2>5. PICK g : IsWeight(g, k - 1)
      BY <2>1, <2>4
    <2>6. \A l \in 0 .. k - 1 : g[l] = IF l = 0 THEN 1 ELSE Radix * g[l - 1]
      BY <2>5 DEF IsWeight
    <2> DEFINE Times(l) == IF l = 0 THEN 1 ELSE Radix * g[l - 1]
               f == [l \in 0 .. k |-> IF l < k THEN g[l] ELSE Times(l)]
    <2>7. ASSUME NEW l \in 0 .. k
          PROVE  f[l] = IF l = 0 THEN 1 ELSE Radix * f[l - 1]
      <3>1. f[l] = Times(l)
        BY <2>2, <2>6
      <3>2. l # 0 => f[l - 1] = g[l - 1]
        BY <2>2
      <3> QED
        BY <3>1, <3>2
    <2>8. IsWeight(f, k)
      <3>1. f = [l \in 0 .. k |-> f[l]]
        OBVIOUS
      <3> HIDE DEF f
      <3> QED
        BY <2>7, <3>1 DEF IsWeight
    <2> QED
      BY <2>2, <2>8
  <1> QED
    BY <1>1

\* Weight is that solution, and positive.
LEMMA Weights ==
  /\ Weight[0] = 1
  /\ \A k \in 1 .. LastShift : Weight[k] = Radix * Weight[k - 1]
  /\ \A k \in 0 .. LastShift : Weight[k] \in Nat /\ Weight[k] # 0
  <1>1. LastShift \in Nat /\ Radix \in Nat /\ Radix # 0
    BY StartsAssumption
  <1>2. IsWeight(Weight, LastShift)
    BY <1>1, WeightExists DEF Weight, IsWeight
  <1>3. Weight[0] = 1 /\ \A k \in 1 .. LastShift : Weight[k] = Radix * Weight[k - 1]
    BY <1>1, <1>2 DEF IsWeight
  <1> DEFINE wrong == {k \in 0 .. LastShift : ~(Weight[k] \in Nat /\ Weight[k] # 0)}
  <1>4. ASSUME wrong # {} PROVE FALSE
    <2>1. wrong \subseteq Nat
      BY <1>1
    <2>2. PICK k \in wrong : \A l \in wrong : k <= l
      BY <1>4, <2>1, LeastElement
    <2>3. k # 0 /\ k \in 0 .. LastShift
      BY <1>3, <2>2
    <2>4. k - 1 \in 0 .. LastShift /\ ~(k <= k - 1) /\ k \in 1 .. LastShift
      BY <1>1, <2>3
    <2>5. Weight[k - 1] \in Nat /\ Weight[k - 1] # 0
      BY <2>2, <2>4
    <2> DEFINE w == Weight[k - 1]
    <2>6. Radix * w \in Nat /\ Radix * w # 0
      <3>1. w \in Nat /\ w # 0
        BY <2>5
      <3> HIDE DEF w
      <3> QED
        BY <1>1, <3>1
    <2> QED
      BY <1>3, <2>2, <2>4, <2>6
  <1> QED
    BY <1>3, <1>4

\* Weights grow.
LEMMA WeightsGrow ==
  \A k \in 0 .. LastShift : Weight[k] <= Weight[LastShift]
  <1>1. LastShift \in Nat /\ Radix \in Nat /\ Radix # 0
    BY StartsAssumption
  <1> DEFINE above == {d \in 0 .. LastShift : ~(Weight[LastShift - d] <= Weight[LastShift])}
  <1>2. ASSUME above # {} PROVE FALSE
    <2>1. above \subseteq Nat
      BY <1>1
    <2>2. PICK d \in above : \A l \in above : d <= l
      BY <1>2, <2>1, LeastElement
    <2>3. d \in 0 .. LastShift /\ ~(Weight[LastShift - d] <= Weight[LastShift])
      BY <2>2
    <2>4. d # 0
      <3>1. LastShift - 0 = LastShift /\ LastShift \in 0 .. LastShift
        BY <1>1
      <3> QED
        BY <2>3, <3>1, Weights
    <2> DEFINE k == LastShift - d
    <2>5. /\ d - 1 \in 0 .. LastShift /\ ~(d <= d - 1) /\ LastShift - (d - 1) = k + 1
          /\ k \in 0 .. LastShift /\ k + 1 \in 1 .. LastShift /\ (k + 1) - 1 = k
      BY <1>1, <2>3, <2>4
    <2> HIDE DEF k
    <2>6. Weight[k + 1] <= Weight[LastShift]
      BY <2>2, <2>5
    <2> DEFINE w == Weight[k]
    <2>7. Weight[k + 1] = Radix * w /\ w \in Nat /\ Weight[LastShift] \in Nat
      BY <1>1, <2>5, Weights
    <2> HIDE DEF w
    <2>8. w <= Radix * w
      BY <1>1, <2>7
    <2>9. w <= Weight[LastShift]
      BY <1>1, <2>6, <2>7, <2>8
    <2> QED
      BY <2>3, <2>9 DEF w, k
  <1>3. \A k \in 0 .. LastShift : /\ LastShift - k \in 0 .. LastShift /\ LastShift - (LastShift - k) = k
    BY <1>1
  <1> QED
    BY <1>2, <1>3

-----------------------------------------------------------------------------
(* The format of the function starts: numbers, and where they begin          *)

\* No byte from first up to i ends a number, and the one before does.
BeginsAt(first, i) ==
  /\ first = 1 \/ IsFinal(first - 1)
  /\ \A j \in first .. i - 1 : ~IsFinal(j)

\* A number that begins at first and ends at i has the bytes from first to i.
LEMMA SizeIs ==
  ASSUME NEW i \in Nat, NEW first \in 1 .. i, BeginsAt(first, i)
  PROVE  Size(i) = i - first + 1
  <1> DEFINE size == i - first + 1
             Fit(n) == (n = i \/ IsFinal(i - n)) /\ \A j \in i - n + 1 .. i - 1 : ~IsFinal(j)
  <1>1. size \in 1 .. i /\ i - size = first - 1 /\ i - size + 1 = first
    OBVIOUS
  <1>2. Fit(size)
    BY <1>1 DEF BeginsAt
  <1>3. ASSUME NEW n \in 1 .. i, Fit(n) PROVE n = size
    <2>1. CASE n < size
      <3>1. n # i /\ i - n \in first .. i - 1
        BY <1>1, <2>1
      <3> QED
        BY <1>3, <3>1 DEF BeginsAt
    <2>2. CASE size < n
      <3>1. size # i /\ first - 1 \in i - n + 1 .. i - 1 /\ first # 1
        BY <1>1, <2>2
      <3> QED
        BY <1>3, <3>1 DEF BeginsAt
    <2> QED
      BY <1>1, <2>1, <2>2
  <1>4. Size(i) = CHOOSE n \in 1 .. i : Fit(n)
    BY DEF Size
  <1> HIDE DEF size, Fit
  <1>5. Size(i) = size
    BY <1>1, <1>2, <1>3, <1>4
  <1> QED
    BY <1>5 DEF size

\* The groups of the number that begins at a byte.
Groups(first) == [n \in Nat |-> data[first - 1 + n].low * Weight[n - 1]]

\* Its value is that of its groups but the last, and the last.
LEMMA ValueIs ==
  ASSUME NEW i \in Nat, NEW first \in 1 .. i, BeginsAt(first, i)
  PROVE  Value(i) = SumTo(Groups(first), i - first) + data[i].low * Weight[i - first]
  <1> DEFINE n == i - first
             t == [k \in 1 .. n + 1 |-> data[i - (n + 1) + k].low * Weight[k - 1]]
             s == Groups(first)
  <1>1. n \in Nat /\ Size(i) = n + 1 /\ first - 1 + (n + 1) = i /\ (n + 1) - 1 = n /\ n + 1 \in Nat
    BY SizeIs
  <1>2. Value(i) = SumTo(t, n + 1)
    BY <1>1 DEF Value
  <1>3. \A k \in 1 .. n + 1 : t[k] = s[k]
    <2> TAKE k \in 1 .. n + 1
    <2>1. i - (n + 1) + k = first - 1 + k /\ k \in Nat
      BY <1>1
    <2> QED
      BY <2>1 DEF Groups
  <1>4. s[n + 1] = data[i].low * Weight[n]
    BY <1>1 DEF Groups
  <1> HIDE DEF n, t, s
  <1>5. SumTo(t, n + 1) = SumTo(s, n + 1) /\ SumTo(s, n + 1) = SumTo(s, n) + s[n + 1]
    BY <1>1, <1>3, SumGrows
  <1> QED
    BY <1>2, <1>4, <1>5 DEF n, s

\* What byte i adds to the running sum.
Gain(i) == IF i \in Deltas THEN Value(i) ELSE 0

\* The running sums: each adds the delta that ends there, if one does.
LEMMA TotalGrows ==
  /\ Total(0) = 0
  /\ \A i \in Nat : Total(i + 1) = Total(i) + Gain(i + 1)
  <1> DEFINE s == [i \in Nat |-> Gain(i)]
             t(i) == [n \in 1 .. i |-> IF n \in Deltas THEN Value(n) ELSE 0]
  <1>1. \A i \in Nat : Total(i) = SumTo(t(i), i) /\ \A n \in 1 .. i : t(i)[n] = s[n]
    BY DEF Total, Gain
  <1>2. \A i \in Nat : s[i + 1] = Gain(i + 1)
    OBVIOUS
  <1> HIDE DEF s, t
  <1>3. \A i \in Nat : Total(i) = SumTo(s, i)
    <2> TAKE i \in Nat
    <2> DEFINE u == t(i)
    <2>1. \A n \in 1 .. i : u[n] = s[n]
      BY <1>1
    <2>2. Total(i) = SumTo(u, i)
      BY <1>1
    <2> HIDE DEF u
    <2>3. SumTo(u, i) = SumTo(s, i)
      BY <2>1, SumGrows
    <2> QED
      BY <2>2, <2>3
  <1>4. 0 \in Nat /\ SumTo(s, 0) = 0
    BY SumGrows
  <1>5. \A i \in Nat : SumTo(s, i + 1) = SumTo(s, i) + s[i + 1]
    BY SumGrows
  <1>6. Total(0) = 0
    BY <1>3, <1>4
  <1>7. ASSUME NEW i \in Nat PROVE Total(i + 1) = Total(i) + Gain(i + 1)
    <2>1. i + 1 \in Nat
      OBVIOUS
    <2> QED
      BY <1>2, <1>3, <1>5, <2>1
  <1> QED
    BY <1>6, <1>7

-----------------------------------------------------------------------------
(* The decoder in the middle of a number                                     *)

\* The number that is being read began shift bytes ago, and result is what its groups make so
\* far; every number before it was a delta, and prev_address is what they come to.
NumberInv ==
  /\ shift < pos /\ BeginsAt(pos - shift, pos)
  /\ result = SumTo(Groups(pos - shift), shift)
  /\ result \in Nat /\ result < Weight[shift]
  /\ \A j \in FinalBytes : j < pos => j \in Deltas
  /\ Total(pos - 1) \in Nat /\ prev_address = Total(pos - 1) % Word

\* Where the decoder is; between numbers and after the last, no number is being read.
DecoderInv ==
  /\ data \in Seq(Bytes)
  /\ pos \in 1 .. Len(data) + 1 /\ shift \in 0 .. LastShift
  /\ state = "read" => NumberInv

\* The word is a number.
LEMMA WordIs == Word \in Nat /\ Word # 0 /\ Word = 2 * Weight[LastShift]
  <1> DEFINE w == Weight[LastShift]
  <1>1. w \in Nat /\ w # 0
    BY Weights, StartsAssumption
  <1>2. Word = 2 * w
    BY DEF Word
  <1> HIDE DEF w
  <1> QED
    BY <1>1, <1>2 DEF w

\* A byte that fits keeps the result below the weight of the next group, and in the word.
LEMMA LowBitsFit ==
  ASSUME DecoderInv, Reading, Fits(Byte)
  PROVE  /\ Byte.low \in Nat /\ WithLowBits(Byte.low) \in Nat
         /\ WithLowBits(Byte.low) < Word
         /\ shift # LastShift => WithLowBits(Byte.low) < Weight[shift + 1]
  <1> DEFINE low == Byte.low
             w == Weight[shift]
             last == Weight[LastShift]
  <1>1. /\ LastShift \in Nat /\ Radix \in Nat /\ shift \in 0 .. LastShift
        /\ result \in Nat /\ result < w /\ low \in Nat /\ low <= Radix - 1
    <2>1. Byte \in Bytes
      BY ListIsFunction DEF DecoderInv, Reading, Byte
    <2>2. low \in 0 .. Radix - 1
      BY <2>1, StartsAssumption DEF Bytes
    <2>3. result \in Nat /\ result < w /\ shift \in 0 .. LastShift
      BY DEF DecoderInv, Reading, NumberInv
    <2> HIDE DEF low, w
    <2> QED
      BY <2>2, <2>3, StartsAssumption
  <1>2. w \in Nat /\ last \in Nat /\ w <= last
    BY <1>1, Weights, WeightsGrow
  <1>3. WithLowBits(low) = result + low * w
    BY DEF WithLowBits
  <1>4. Word = 2 * last
    BY WordIs
  <1>5. CASE shift = LastShift
    <2>1. low \in {0, 1} /\ w = last
      BY <1>5 DEF Fits
    <2> HIDE DEF low, w, last
    <2>2. low * w \in {0, w}
      BY <1>2, <2>1
    <2>3. result + low * w \in Nat /\ result + low * w < 2 * last
      BY <1>1, <1>2, <2>1, <2>2
    <2> QED
      BY <1>1, <1>3, <1>4, <1>5, <2>3 DEF low
  <1>6. CASE shift # LastShift
    <2>1. shift + 1 \in 0 .. LastShift /\ Weight[shift + 1] = Radix * w
      <3>1. shift + 1 \in 1 .. LastShift /\ (shift + 1) - 1 = shift
        BY <1>1, <1>6
      <3> QED
        BY <3>1, Weights
    <2>2. Radix * w <= last
      BY <2>1, WeightsGrow
    <2> HIDE DEF low, w, last
    <2>3. result + low * w \in Nat /\ result + low * w < Radix * w
      BY <1>1, <1>2, SmallerTimes
    <2>4. result + low * w < 2 * last
      <3>1. Radix * w \in Nat
        BY <1>1, <1>2
      <3> QED
        BY <1>2, <2>2, <2>3, <3>1
    <2> QED
      BY <1>1, <1>3, <1>4, <2>1, <2>3, <2>4 DEF low
  <1> QED
    BY <1>5, <1>6

\* Where a number ends, the decoder has its size and its value.
LEMMA NumberIs ==
  ASSUME DecoderInv, Reading
  PROVE  /\ pos \in Nat /\ pos - 1 \in Nat /\ pos \in DOMAIN data
         /\ shift \in Nat /\ pos - shift \in 1 .. pos
         /\ Size(pos) = shift + 1 /\ Value(pos) = WithLowBits(Byte.low)
  <1> DEFINE first == pos - shift
  <1>1. /\ pos \in 1 .. Len(data) /\ shift \in 0 .. LastShift /\ shift < pos
        /\ BeginsAt(first, pos) /\ result = SumTo(Groups(first), shift)
        /\ DOMAIN data = 1 .. Len(data) /\ Len(data) \in Nat
    BY ListIsFunction DEF DecoderInv, Reading, NumberInv
  <1>2. LastShift \in Nat
    BY StartsAssumption
  <1>3. /\ pos \in Nat /\ pos - 1 \in Nat /\ shift \in Nat /\ first \in 1 .. pos
        /\ pos - first = shift /\ pos - first + 1 = shift + 1
    BY <1>1, <1>2
  <1> HIDE DEF first
  <1>4. Size(pos) = shift + 1
    BY <1>1, <1>3, SizeIs
  <1>5. Value(pos) = SumTo(Groups(first), pos - first) + data[pos].low * Weight[pos - first]
    BY <1>1, <1>3, ValueIs
  <1>6. Value(pos) = result + Byte.low * Weight[shift]
    BY <1>1, <1>3, <1>5 DEF Byte
  <1> QED
    BY <1>1, <1>3, <1>4, <1>6 DEF WithLowBits, first

\* Nothing is decoded behind a number that is not a delta.
LEMMA NoDeltaFollows ==
  ASSUME DecoderInv, state = "read",
         pos <= Len(data) => ~Fits(Byte) \/ (~Byte.more /\ ~IsDelta(pos))
  PROVE  \A i \in Deltas : i < pos
  <1> DEFINE finals == {j \in FinalBytes : pos <= j}
  <1>1. /\ Len(data) \in Nat /\ DOMAIN data = 1 .. Len(data) /\ pos \in 1 .. Len(data) + 1
    BY ListIsFunction DEF DecoderInv
  <1>2. FinalBytes \subseteq 1 .. Len(data) /\ Deltas \subseteq FinalBytes
    BY <1>1 DEF FinalBytes, Deltas
  <1> SUFFICES ASSUME NEW i \in Deltas, pos <= i PROVE FALSE
    BY <1>1, <1>2
  <1>3. finals \subseteq Nat /\ i \in finals
    <2>1. \A j \in FinalBytes : j \in Nat
      BY <1>1, <1>2
    <2> QED
      BY <1>2, <2>1
  <1>4. PICK k \in finals : \A l \in finals : k <= l
    BY <1>3, LeastElement
  <1>5. k \in FinalBytes /\ pos <= k /\ k <= i /\ k \in 1 .. Len(data)
    BY <1>2, <1>3, <1>4
  <1>6. IsDelta(k) /\ IsFinal(k)
    BY <1>5 DEF Deltas, FinalBytes
  <1>7. \A j \in pos .. k - 1 : ~IsFinal(j)
    <2> SUFFICES ASSUME NEW j \in pos .. k - 1, IsFinal(j) PROVE FALSE
      OBVIOUS
    <2>1. j \in DOMAIN data /\ pos <= j /\ ~(k <= j)
      BY <1>1, <1>5
    <2> QED
      BY <1>4, <2>1 DEF FinalBytes
  <1>8. Reading
    BY <1>1, <1>5 DEF Reading
  <1>9. CASE k = pos
    <2>1. ~Byte.more
      BY <1>6, <1>9 DEF IsFinal, Byte
    <2>2. IsDelta(pos) /\ Value(pos) < Word
      BY <1>6, <1>9, WordIs DEF IsDelta
    <2>3. shift = LastShift /\ Byte.low \notin {0, 1}
      BY <1>8, <2>1, <2>2 DEF Fits, Reading
    <2> DEFINE low == Byte.low
               w == Weight[shift]
    <2>4. low \in Nat /\ w \in Nat /\ result \in Nat /\ low # 0 /\ low # 1 /\ Word = 2 * w
      <3>1. Byte \in Bytes
        BY <1>8, ListIsFunction DEF DecoderInv, Reading, Byte
      <3>2. low \in 0 .. Radix - 1
        BY <3>1, StartsAssumption DEF Bytes
      <3>3. w \in Nat /\ Word = 2 * w
        BY <2>3, StartsAssumption, Weights, WordIs
      <3>4. result \in Nat
        BY <1>8 DEF DecoderInv, Reading, NumberInv
      <3> HIDE DEF low, w
      <3> QED
        BY <2>3, <3>2, <3>3, <3>4, StartsAssumption DEF low
    <2>5. Value(pos) = result + low * w
      BY <1>8, NumberIs DEF WithLowBits
    <2> HIDE DEF low, w
    <2>6. 2 * w <= low * w
      BY <2>4
    <2> QED
      BY <2>2, <2>4, <2>5, <2>6
  <1>10. CASE pos < k
    <2> DEFINE first == pos - shift
    <2>1. /\ first \in 1 .. pos /\ BeginsAt(first, pos) /\ shift \in Nat /\ pos \in Nat
      BY <1>8, NumberIs DEF DecoderInv, Reading, NumberInv
    <2>2. k \in Nat /\ first \in 1 .. k
      BY <1>5, <2>1
    <2>3. BeginsAt(first, k)
      BY <1>5, <1>7, <2>1 DEF BeginsAt
    <2>4. Size(k) = k - first + 1
      BY <2>2, <2>3, SizeIs
    <2>5. k - first + 1 <= LastShift + 1
      BY <1>6, <2>4 DEF IsDelta
    <2>6. shift # LastShift
      BY <1>10, <2>1, <2>2, <2>5, StartsAssumption
    <2>7. IsFinal(pos)
      BY <1>8, <2>6 DEF Fits, Byte, IsFinal, Reading
    <2> QED
      BY <1>1, <1>5, <1>7, <1>10, <2>7
  <1> QED
    BY <1>1, <1>5, <1>9, <1>10

-----------------------------------------------------------------------------
(* The starts that were decoded                                              *)

\* The deltas that end before the byte that is read next.
Decoded == {i \in Deltas : i < pos}

\* The starts that were decoded are the running sums, the k-th at its place.
StartsInv ==
  format = "macho" /\ state \in {"read", "done"} =>
    /\ function_starts \in Seq(Nat)
    /\ Len(function_starts) = Cardinality(Decoded)
    /\ \A i \in Decoded : function_starts[Rank(Decoded, i)] = Total(i) % AddressSize
    /\ state = "done" => Decoded = Deltas

\* The format depends on nothing but the data.
LEMMA SameData ==
  ASSUME data' = data
  PROVE  /\ \A i : IsFinal(i)' = IsFinal(i) /\ Gain(i)' = Gain(i) /\ Total(i)' = Total(i)
         /\ \A first, i : BeginsAt(first, i)' = BeginsAt(first, i)
         /\ \A first : Groups(first)' = Groups(first)
         /\ FinalBytes' = FinalBytes /\ Deltas' = Deltas
  <1>1. \A i : IsFinal(i)' = IsFinal(i)
    BY DEF IsFinal
  <1>2. FinalBytes' = FinalBytes
    BY DEF FinalBytes, IsFinal
  <1>3. \A i : Size(i)' = Size(i)
    BY DEF Size, IsFinal
  <1>4. \A i : Value(i)' = Value(i)
    BY <1>3 DEF Value
  <1>5. Deltas' = Deltas
    BY <1>2, <1>3, <1>4 DEF Deltas, IsDelta
  <1>6. \A i : Total(i)' = Total(i)
    BY <1>4, <1>5 DEF Total
  <1>7. \A i : Gain(i)' = Gain(i)
    BY <1>4, <1>5 DEF Gain
  <1>8. \A first, i : BeginsAt(first, i)' = BeginsAt(first, i)
    BY DEF BeginsAt, IsFinal
  <1>9. \A first : Groups(first)' = Groups(first)
    BY DEF Groups
  <1> QED
    BY <1>1, <1>2, <1>5, <1>6, <1>7, <1>8, <1>9

\* A byte that goes on.
LEMMA ReadMoreKeeps ==
  ASSUME DecoderInv, ReadMore
  PROVE  DecoderInv' /\ Decoded' = Decoded
  <1> DEFINE first == pos - shift
             low == Byte.low
  <1>1. /\ Reading /\ Fits(Byte) /\ Byte.more /\ state = "read"
        /\ result' = WithLowBits(low) /\ shift' = shift + 1 /\ pos' = pos + 1
        /\ data' = data /\ prev_address' = prev_address
    BY DEF ReadMore, Reading
  <1>2. /\ pos \in 1 .. Len(data) /\ shift \in 0 .. LastShift /\ shift < pos /\ data \in Seq(Bytes)
        /\ BeginsAt(first, pos) /\ result = SumTo(Groups(first), shift)
        /\ \A j \in FinalBytes : j < pos => j \in Deltas
        /\ Total(pos - 1) \in Nat /\ prev_address = Total(pos - 1) % Word
        /\ DOMAIN data = 1 .. Len(data) /\ Len(data) \in Nat
    BY <1>1, ListIsFunction DEF DecoderInv, Reading, NumberInv
  <1>3. LastShift \in Nat /\ shift # LastShift
    BY <1>1, StartsAssumption DEF Fits
  <1>4. /\ pos + 1 \in 1 .. Len(data) + 1 /\ shift + 1 \in 0 .. LastShift /\ shift + 1 < pos + 1
        /\ (pos + 1) - (shift + 1) = first /\ (pos + 1) - 1 = pos /\ (pos - 1) + 1 = pos
        /\ pos - 1 \in Nat /\ shift \in Nat /\ first \in 1 .. pos
    BY <1>2, <1>3
  <1>5. ~IsFinal(pos) /\ pos \notin FinalBytes /\ pos \notin Deltas
    BY <1>1 DEF IsFinal, Byte, FinalBytes, Deltas
  <1>6. /\ BeginsAt(first, pos + 1)
        /\ \A j \in FinalBytes : j < pos + 1 => j \in Deltas
    <2>1. \A j \in first .. (pos + 1) - 1 : j \in first .. pos - 1 \/ j = pos
      BY <1>4
    <2>2. BeginsAt(first, pos + 1)
      BY <1>2, <1>5, <2>1 DEF BeginsAt
    <2>3. \A j \in FinalBytes : j < pos + 1 => j < pos
      BY <1>2, <1>5 DEF FinalBytes
    <2> QED
      BY <1>2, <2>2, <2>3
  <1>7. Total(pos) = Total(pos - 1)
    <2> DEFINE t == Total(pos - 1)
    <2>1. Total(pos) = t + Gain(pos) /\ Gain(pos) = 0
      BY <1>4, <1>5, TotalGrows DEF Gain
    <2>2. t \in Nat
      BY <1>2
    <2> HIDE DEF t
    <2> QED
      BY <2>1, <2>2 DEF t
  <1>8. WithLowBits(low) = SumTo(Groups(first), shift + 1)
    <2>1. Groups(first)[shift + 1] = low * Weight[shift]
      <3>1. /\ first - 1 + (shift + 1) = pos /\ (shift + 1) - 1 = shift /\ shift + 1 \in Nat
        BY <1>2, <1>4
      <3> QED
        BY <3>1 DEF Groups, Byte
    <2> DEFINE g == Groups(first)
    <2> HIDE DEF g
    <2>2. SumTo(g, shift + 1) = SumTo(g, shift) + g[shift + 1]
      BY <1>4, SumGrows
    <2> QED
      BY <1>2, <2>1, <2>2 DEF WithLowBits, g
  <1>9. WithLowBits(low) \in Nat /\ WithLowBits(low) < Weight[shift + 1]
    BY <1>1, <1>3, LowBitsFit
  <1>10. Decoded' = Decoded
    <2>1. Deltas' = Deltas
      BY <1>1, SameData
    <2>2. \A i \in Deltas : i \in Nat
      BY <1>2 DEF Deltas, FinalBytes
    <2>3. \A i \in Deltas : i < pos + 1 <=> i < pos
      BY <1>2, <1>5, <2>2
    <2> QED
      BY <1>1, <2>1, <2>3 DEF Decoded
  <1>11. NumberInv'
    <2> HIDE DEF first, low
    <2>1. pos' - shift' = first /\ pos' - 1 = pos
      BY <1>1, <1>4
    <2>2. /\ shift' < pos' /\ result' \in Nat /\ result' < Weight[shift']
      BY <1>1, <1>4, <1>9
    <2>3. BeginsAt(pos - shift, pos)' /\ (result = SumTo(Groups(pos - shift), shift))'
      BY <1>1, <1>6, <1>8, <2>1, SameData
    <2>4. \A j \in FinalBytes' : j < pos' => j \in Deltas'
      BY <1>1, <1>6, SameData
    <2>5. (Total(pos - 1) \in Nat /\ prev_address = Total(pos - 1) % Word)'
      BY <1>1, <1>2, <1>7, <2>1, SameData
    <2> QED
      BY <2>1, <2>2, <2>3, <2>4, <2>5 DEF NumberInv
  <1> QED
    BY <1>1, <1>2, <1>4, <1>10, <1>11 DEF DecoderInv

\* A set of numbers and one above them all: the ranks stay, and it has the next.
LEMMA RanksGrow ==
  ASSUME NEW S, S \subseteq Int, IsFiniteSet(S), NEW x \in Int, \A n \in S : n < x
  PROVE  /\ Cardinality(S) \in Nat /\ Cardinality(S \cup {x}) = Cardinality(S) + 1
         /\ \A n \in S : Rank(S, n) \in 1 .. Cardinality(S) /\ Rank(S \cup {x}, n) = Rank(S, n)
         /\ Rank(S \cup {x}, x) = Cardinality(S) + 1
  <1>1. Cardinality(S) \in Nat /\ \A n \in S : Rank(S, n) \in 1 .. Cardinality(S)
    BY RankGrows
  <1>2. Cardinality(S \cup {x}) = Cardinality(S) + 1
    BY AscendingGrows
  <1>3. ASSUME NEW n \in S PROVE Rank(S \cup {x}, n) = Rank(S, n)
    <2>1. {m \in S \cup {x} : m <= n} = {m \in S : m <= n}
      OBVIOUS
    <2> QED
      BY <2>1 DEF Rank
  <1>4. Rank(S \cup {x}, x) = Cardinality(S) + 1
    <2>1. \A m \in S \cup {x} : m <= x
      OBVIOUS
    <2>2. {m \in S \cup {x} : m <= x} = S \cup {x}
      BY <2>1
    <2> QED
      BY <1>2, <2>2 DEF Rank
  <1> QED
    BY <1>1, <1>2, <1>3, <1>4

\* A number that is pushed is a delta, as every number before it.
LEMMA PushedIsADelta ==
  ASSUME DecoderInv, HasDelta, Delta # 0
  PROVE  /\ pos \in Deltas /\ Delta \in Nat /\ Gain(pos) = Delta
         /\ \A j \in FinalBytes : j < pos + 1 => j \in Deltas
  <1>1. Reading /\ Fits(Byte) /\ ~Byte.more
    BY DEF HasDelta
  <1>2. /\ pos \in Nat /\ pos \in DOMAIN data /\ shift \in Nat
        /\ Size(pos) = shift + 1 /\ Value(pos) = Delta
    BY <1>1, NumberIs DEF Delta
  <1>3. Delta \in Nat /\ Delta < Word
    BY <1>1, LowBitsFit DEF Delta
  <1>4. IsDelta(pos)
    <2>1. shift + 1 <= LastShift + 1
      BY <1>1, <1>2, StartsAssumption DEF DecoderInv
    <2> DEFINE v == Value(pos)
    <2>2. v \in 1 .. Word - 1
      <3>1. v \in Nat /\ v # 0 /\ v < Word
        BY <1>2, <1>3
      <3> HIDE DEF v
      <3> QED
        BY <3>1, WordIs
    <2> QED
      BY <1>2, <2>1, <2>2 DEF IsDelta
  <1>5. \A j \in FinalBytes : j < pos => j \in Deltas
    BY <1>1 DEF DecoderInv, NumberInv, Reading
  <1>6. DOMAIN data \subseteq Nat
    BY ListIsFunction DEF DecoderInv
  <1>7. \A j \in FinalBytes : j \in Nat /\ (j <= pos => j < pos \/ j = pos)
    BY <1>2, <1>6 DEF FinalBytes
  <1>8. \A j \in FinalBytes : j < pos => IsDelta(j)
    BY <1>5, <1>7 DEF Deltas
  <1>9. pos \in FinalBytes
    BY <1>1, <1>2 DEF FinalBytes, IsFinal, Byte
  <1>10. pos \in Deltas
    BY <1>4, <1>7, <1>8, <1>9 DEF Deltas
  <1>11. \A j \in FinalBytes : j < pos + 1 => j \in Deltas
    BY <1>2, <1>5, <1>7, <1>10
  <1> QED
    BY <1>2, <1>3, <1>10, <1>11 DEF Gain

\* A delta is added, in a build that wraps and in one that does not.
LEMMA PushKeeps ==
  ASSUME DecoderInv, StartsInv, HasDelta, Delta # 0, UNCHANGED format,
         Push((prev_address + Delta) % Word)
  PROVE  DecoderInv' /\ StartsInv'
  <1> DEFINE sum == Total(pos - 1)
             total == Total(pos)
             address == (prev_address + Delta) % Word
  <1>1. /\ function_starts' = Append(function_starts, address % AddressSize)
        /\ prev_address' = address /\ pos' = pos + 1 /\ result' = 0 /\ shift' = 0
        /\ data' = data /\ state' = state
    BY DEF Push
  <1>2. Reading /\ Fits(Byte) /\ ~Byte.more /\ state = "read"
    BY DEF HasDelta, Reading
  <1>3. /\ pos \in 1 .. Len(data) /\ data \in Seq(Bytes) /\ Len(data) \in Nat
        /\ sum \in Nat /\ prev_address = sum % Word
        /\ DOMAIN data = 1 .. Len(data)
    BY <1>2, ListIsFunction DEF DecoderInv, Reading, NumberInv
  <1>4. /\ pos \in Deltas /\ Delta \in Nat /\ Gain(pos) = Delta
        /\ \A j \in FinalBytes : j < pos + 1 => j \in Deltas
    BY PushedIsADelta
  <1>5. /\ pos + 1 \in 1 .. Len(data) + 1 /\ (pos + 1) - 0 = pos + 1 /\ (pos + 1) - 1 = pos
        /\ (pos - 1) + 1 = pos /\ pos - 1 \in Nat /\ 0 < pos + 1
    BY <1>3
  <1>6. total = sum + Delta /\ total \in Nat
    <2>1. total = sum + Gain(pos)
      BY <1>5, TotalGrows
    <2> DEFINE d == Delta
    <2>2. total = sum + d /\ d \in Nat
      BY <1>4, <2>1
    <2> HIDE DEF sum, total, d
    <2>3. total = sum + d /\ total \in Nat
      BY <1>3, <2>2
    <2> QED
      BY <2>3 DEF d
  <1>7. address = total % Word /\ address \in Nat /\ address % AddressSize = total % AddressSize
    <2> DEFINE d == Delta
               word == Word
    <2>1. word \in Nat \ {0} /\ AddressSize \in Nat \ {0} /\ word % AddressSize = 0
      BY WordIs, StartsAssumption
    <2>2. d \in Nat /\ address = ((sum % word) + d) % word /\ total = sum + d
      BY <1>3, <1>4, <1>6
    <2> HIDE DEF sum, total, d, word, address
    <2>3. address = total % word
      BY <1>3, <2>1, <2>2, RestOfSum
    <2>4. (total % word) % AddressSize = total % AddressSize /\ total % word \in Nat
      <3>1. total % word \in 0 .. word - 1
        BY <1>6, <2>1
      <3> QED
        BY <1>6, <2>1, <3>1, RestOfRest
    <2> QED
      BY <2>3, <2>4 DEF word
  <1>8. NumberInv'
    <2>1. BeginsAt(pos + 1, pos + 1)
      <3>1. IsFinal(pos) /\ (pos + 1) - 1 = pos /\ (pos + 1) .. pos = {}
        BY <1>2, <1>5, <1>3 DEF IsFinal, Byte
      <3> QED
        BY <3>1 DEF BeginsAt
    <2>2. pos' - shift' = pos + 1 /\ pos' - 1 = pos /\ shift' < pos'
      BY <1>1, <1>5
    <2>3. BeginsAt(pos - shift, pos)'
      BY <1>1, <2>1, <2>2, SameData
    <2>4. (result = SumTo(Groups(pos - shift), shift))'
      <3> DEFINE g == Groups(pos + 1)
      <3>1. SumTo(g, 0) = 0
        <4> HIDE DEF g
        <4> QED
          BY SumGrows
      <3> QED
        BY <1>1, <2>2, <3>1, SameData
    <2>5. result' \in Nat /\ result' < Weight[shift']
      BY <1>1, Weights, StartsAssumption
    <2>6. (\A j \in FinalBytes : j < pos => j \in Deltas)'
      BY <1>1, <1>4, SameData
    <2>7. (Total(pos - 1) \in Nat /\ prev_address = Total(pos - 1) % Word)'
      BY <1>1, <1>6, <1>7, <2>2, SameData
    <2> QED
      BY <2>2, <2>3, <2>4, <2>5, <2>6, <2>7 DEF NumberInv
  <1>9. DecoderInv'
    BY <1>1, <1>3, <1>5, <1>8, StartsAssumption DEF DecoderInv
  <1>10. ASSUME format = "macho" PROVE StartsInv'
    <2> DEFINE S == Decoded
               starts == function_starts
               x == address % AddressSize
    <2>1. /\ starts \in Seq(Nat) /\ Len(starts) = Cardinality(S)
          /\ \A i \in S : starts[Rank(S, i)] = Total(i) % AddressSize
      BY <1>2, <1>10 DEF StartsInv
    <2>2. Deltas \subseteq Nat /\ S \subseteq 1 .. pos - 1
      <3>1. \A i \in Deltas : i \in 1 .. Len(data)
        BY <1>3 DEF Deltas, FinalBytes
      <3> QED
        BY <1>3, <3>1 DEF Decoded
    <2>3. Decoded' = S \cup {pos}
      <3>1. Decoded' = {i \in Deltas : i < pos + 1}
        BY <1>1, SameData DEF Decoded
      <3>2. \A i \in Deltas : i < pos + 1 <=> i < pos \/ i = pos
        BY <1>3, <2>2
      <3> QED
        BY <1>4, <3>1, <3>2 DEF Decoded
    <2>4. IsFiniteSet(S) /\ S \subseteq Int /\ \A i \in S : i < pos
      <3> DEFINE n == pos - 1
      <3>1. n \in Nat /\ S \subseteq 1 .. n
        BY <1>5, <2>2
      <3> HIDE DEF n, S
      <3>2. IsFiniteSet(1 .. n)
        BY <3>1, FS_Interval
      <3>3. IsFiniteSet(S)
        BY <3>1, <3>2, FS_Subset
      <3>4. \A i \in S : i < pos
        BY <1>3, <3>1 DEF n
      <3> QED
        BY <3>1, <3>3, <3>4
    <2>5. x \in Nat /\ x = total % AddressSize
      <3> HIDE DEF address, total
      <3>1. x \in 0 .. AddressSize - 1
        BY <1>7, StartsAssumption
      <3> QED
        BY <1>7, <3>1, StartsAssumption
    <2> DEFINE T == S \cup {pos}
               c == Cardinality(S)
    <2> HIDE DEF S, x, starts, address, total
    <2>6. /\ c \in Nat /\ Cardinality(T) = c + 1
          /\ \A i \in S : Rank(S, i) \in 1 .. c /\ Rank(T, i) = Rank(S, i)
          /\ Rank(T, pos) = c + 1
      <3>1. pos \in Int
        BY <1>3
      <3> QED
        BY <2>4, <3>1, RanksGrow
    <2> HIDE DEF T, c
    <2>7. /\ Append(starts, x) \in Seq(Nat) /\ Len(Append(starts, x)) = c + 1
          /\ Append(starts, x)[c + 1] = x
          /\ \A k \in 1 .. c : Append(starts, x)[k] = starts[k]
      BY <2>1, <2>5, <2>6 DEF c
    <2> DEFINE more == Append(starts, x)
    <2> HIDE DEF more
    <2>8. \A i \in T : more[Rank(T, i)] = Total(i) % AddressSize
      <3> TAKE i \in T
      <3>1. CASE i = pos
        BY <2>5, <2>6, <2>7, <3>1 DEF more, total
      <3>2. CASE i \in S
        BY <2>1, <2>6, <2>7, <3>2 DEF more
      <3> QED
        BY <3>1, <3>2 DEF T
    <2>9. function_starts' = more /\ Decoded' = T /\ state' = "read"
      BY <1>1, <1>2, <2>3 DEF more, starts, x, T
    <2>10. (\A i \in Decoded : function_starts[Rank(Decoded, i)] = Total(i) % AddressSize)'
      BY <1>1, <2>8, <2>9, SameData
    <2>11. more \in Seq(Nat) /\ Len(more) = Cardinality(T)
      BY <2>6, <2>7 DEF more
    <2> QED
      BY <2>9, <2>10, <2>11 DEF StartsInv
  <1> QED
    BY <1>9, <1>10 DEF StartsInv

\* The end: a terminator, a number that does not fit, or no bytes.
LEMMA EndKeeps ==
  ASSUME DecoderInv, StartsInv, StopReading \/ ReadTerminator, UNCHANGED format
  PROVE  DecoderInv' /\ StartsInv'
  <1>1. /\ state = "read" /\ state' = "done"
        /\ pos' = pos \/ (pos' = pos + 1 /\ pos <= Len(data))
        /\ UNCHANGED <<data, shift, function_starts>>
    BY DEF StopReading, ReadTerminator, HasDelta, Reading
  <1>2. /\ pos \in 1 .. Len(data) + 1 /\ data \in Seq(Bytes) /\ Len(data) \in Nat
        /\ DOMAIN data = 1 .. Len(data)
    BY ListIsFunction DEF DecoderInv
  <1>3. pos <= Len(data) => ~Fits(Byte) \/ (~Byte.more /\ ~IsDelta(pos))
    <2>1. CASE StopReading
      BY <2>1 DEF StopReading
    <2>2. CASE ReadTerminator
      <3>1. HasDelta /\ Delta = 0 /\ Reading /\ ~Byte.more
        BY <2>2 DEF ReadTerminator, HasDelta
      <3>2. Value(pos) = 0
        BY <3>1, NumberIs DEF Delta
      <3>3. ~IsDelta(pos)
        BY <3>2, WordIs DEF IsDelta
      <3> QED
        BY <3>1, <3>3
    <2> QED
      BY <2>1, <2>2
  <1>4. \A i \in Deltas : i < pos
    BY <1>1, <1>3, NoDeltaFollows
  <1>5. Deltas \subseteq Nat
    BY <1>2 DEF Deltas, FinalBytes
  <1>6. Decoded = Deltas /\ Decoded' = Deltas /\ Deltas' = Deltas
    <2>1. \A i \in Deltas : i < pos + 1
      BY <1>2, <1>4, <1>5
    <2> QED
      BY <1>1, <1>4, <2>1, SameData DEF Decoded
  <1>7. DecoderInv'
    BY <1>1, <1>2 DEF DecoderInv
  <1>8. StartsInv'
    <2> SUFFICES ASSUME format = "macho" PROVE StartsInv'
      BY DEF StartsInv
    <2>1. /\ function_starts \in Seq(Nat) /\ Len(function_starts) = Cardinality(Deltas)
          /\ \A i \in Deltas : function_starts[Rank(Deltas, i)] = Total(i) % AddressSize
      BY <1>1, <1>6 DEF StartsInv
    <2>2. (\A i \in Decoded : function_starts[Rank(Decoded, i)] = Total(i) % AddressSize)'
      BY <1>1, <1>6, <2>1, SameData
    <2> QED
      BY <1>1, <1>6, <2>1, <2>2 DEF StartsInv
  <1> QED
    BY <1>7, <1>8

\* Every step of the decoder.
LEMMA DecodeKeeps ==
  ASSUME DecoderInv, StartsInv, DecodeStarts
  PROVE  DecoderInv' /\ StartsInv'
  <1>1. UNCHANGED format
    BY DEF DecodeStarts
  <1>2. CASE StopReading \/ ReadTerminator
    BY <1>1, <1>2, EndKeeps
  <1>3. CASE ReadMore
    <2>1. DecoderInv' /\ Decoded' = Decoded
      BY <1>3, ReadMoreKeeps
    <2>2. UNCHANGED <<data, function_starts, state>> /\ state = "read"
      BY <1>3 DEF ReadMore, Reading
    <2>3. StartsInv'
      BY <1>1, <2>1, <2>2, SameData DEF StartsInv
    <2> QED
      BY <2>1, <2>3
  <1>4. CASE PushStart \/ PushWrapped
    <2> DEFINE sum == prev_address + Delta
               prev == prev_address
               d == Delta
               word == Word
    <2>1. HasDelta /\ Reading /\ Fits(Byte)
      BY <1>4 DEF PushStart, PushWrapped, HasDelta
    <2>2. d \in Nat /\ d < word /\ prev \in Nat /\ prev < word /\ word \in Nat
      <3>1. d \in Nat /\ d < word
        BY <2>1, LowBitsFit DEF Delta
      <3> DEFINE t == Total(pos - 1)
      <3>2. t \in Nat /\ prev = t % word
        BY <2>1 DEF DecoderInv, Reading, NumberInv
      <3>3. word \in Nat \ {0}
        BY WordIs
      <3> HIDE DEF t, word, d, prev
      <3>4. prev \in 0 .. word - 1
        BY <3>2, <3>3
      <3> QED
        BY <3>1, <3>3, <3>4
    <2>3. Delta # 0 /\ Push(sum % Word)
      <3>1. CASE PushStart
        <4>1. ~(sum >= Word) /\ Delta # 0 /\ Push(sum) /\ sum = prev + d
          BY <3>1 DEF PushStart, Overflows
        <4> HIDE DEF prev, d, word, sum
        <4>2. sum \in 0 .. word - 1 /\ word \in Nat \ {0}
          BY <2>2, <4>1 DEF word
        <4>3. sum % word = sum
          BY <4>2
        <4> QED
          BY <4>1, <4>3 DEF word
      <3>2. CASE PushWrapped
        <4>1. sum >= Word /\ Push(sum % Word) /\ sum = prev + d
          BY <3>2 DEF PushWrapped, Overflows
        <4> HIDE DEF prev, d, word, sum
        <4>2. d # 0
          BY <2>2, <4>1 DEF word
        <4> QED
          BY <4>1, <4>2 DEF d
      <3> QED
        BY <1>4, <3>1, <3>2
    <2> QED
      BY <1>1, <2>1, <2>3, PushKeeps
  <1>5. CASE Panic
    <2>1. UNCHANGED <<data, pos, shift>> /\ state' = "panicked"
      BY <1>5 DEF Panic
    <2> QED
      BY <1>1, <2>1 DEF DecoderInv, StartsInv
  <1> QED
    BY <1>2, <1>3, <1>4, <1>5 DEF DecodeStarts, Step

\* And no other step disturbs what it left.
LEMMA DecoderInvHolds == ListsSpec => [](DecoderInv /\ StartsInv)
  <1>1. ListsInit => DecoderInv /\ StartsInv
    <2> SUFFICES ASSUME ListsInit PROVE DecoderInv /\ StartsInv
      OBVIOUS
    <2>1. /\ data \in Seq(Bytes) /\ pos = 1 /\ result = 0 /\ shift = 0 /\ prev_address = 0
          /\ function_starts = << >> /\ state = "read"
      <3>1. \A n \in 0 .. MaxBytes : \A bytes \in [1 .. n -> Bytes] : bytes \in Seq(Bytes)
        BY StartsAssumption
      <3>2. << >> \in Seq(Bytes)
        OBVIOUS
      <3> QED
        BY <3>1, <3>2 DEF ListsInit, StartsInit, InitWith
    <2>2. Len(data) \in Nat /\ DOMAIN data = 1 .. Len(data)
      BY <2>1, ListIsFunction
    <2>3. FinalBytes \subseteq 1 .. Len(data) /\ Deltas \subseteq FinalBytes
      BY <2>2 DEF FinalBytes, Deltas
    <2>4. \A j \in FinalBytes : ~(j < pos)
      BY <2>1, <2>3
    <2>5. NumberInv
      <3>1. shift < pos /\ pos - shift = 1 /\ pos - 1 = 0
        BY <2>1
      <3>2. BeginsAt(1, pos)
        BY <2>1 DEF BeginsAt
      <3>3. result = SumTo(Groups(1), 0)
        <4> DEFINE g == Groups(1)
        <4> HIDE DEF g
        <4>1. SumTo(g, 0) = 0
          BY SumGrows
        <4> QED
          BY <2>1, <4>1 DEF g
      <3>4. result \in Nat /\ result < Weight[shift]
        BY <2>1, Weights, StartsAssumption
      <3>5. Total(0) \in Nat /\ prev_address = Total(0) % Word
        <4> DEFINE word == Word
        <4>1. word \in Nat \ {0}
          BY WordIs
        <4> HIDE DEF word
        <4>2. 0 = 0 % word
          BY <4>1
        <4> QED
          BY <2>1, <4>2, TotalGrows DEF word
      <3> QED
        BY <2>1, <2>4, <3>1, <3>2, <3>3, <3>4, <3>5 DEF NumberInv
    <2>6. DecoderInv
      BY <2>1, <2>2, <2>5, StartsAssumption DEF DecoderInv
    <2>7. Decoded = {}
      BY <2>3, <2>4 DEF Decoded
    <2>8. StartsInv
      BY <2>1, <2>7, FS_EmptySet DEF StartsInv
    <2> QED
      BY <2>6, <2>8
  <1>2. DecoderInv /\ StartsInv /\ [ListsNext]_listVars => (DecoderInv /\ StartsInv)'
    <2> SUFFICES ASSUME DecoderInv, StartsInv, [ListsNext]_listVars
                 PROVE  DecoderInv' /\ StartsInv'
      OBVIOUS
    <2>1. CASE DecodeStarts
      BY <2>1, DecodeKeeps
    <2>2. CASE /\ UNCHANGED <<data, format, pos, result, shift, prev_address>>
               /\ state' = "read" => state = "read"
               /\ format = "macho" => state' = "unwind" \/ UNCHANGED <<state, function_starts>>
      <3>1. NumberInv => NumberInv'
        <4>1. (Total(pos - 1) = Total(pos - 1)') /\ Groups(pos - shift) = Groups(pos - shift)'
          BY <2>2, SameData
        <4>2. BeginsAt(pos - shift, pos) = BeginsAt(pos - shift, pos)'
          BY <2>2, SameData
        <4> QED
          BY <2>2, <4>1, <4>2, SameData DEF NumberInv
      <3>2. DecoderInv'
        BY <2>2, <3>1 DEF DecoderInv
      <3>3. Decoded' = Decoded
        BY <2>2, SameData DEF Decoded
      <3>4. StartsInv'
        BY <2>2, <3>3, SameData DEF StartsInv
      <3> QED
        BY <3>2, <3>4
    <2>3. CASE AddUnwindInfo \/ ReadCie \/ ReadFde \/ EndEhFrame \/ ReadPdata \/ EndPdata
      BY <2>2, <2>3 DEF AddUnwindInfo, ReadCie, ReadFde, EndEhFrame, ReadPdata, EndPdata,
                        HasEntry, inputs, decoder
    <2>4. CASE UNCHANGED listVars
      BY <2>2, <2>4 DEF listVars, inputs, decoder
    <2> QED
      BY <2>1, <2>3, <2>4 DEF ListsNext, ListsTerminated
  <1> QED
    BY <1>1, <1>2, PTL DEF ListsSpec

\* read_uleb128 never shifts by the width of u64 or more and never shifts a bit out, whatever the
\* bytes are.
THEOREM NoBitIsLost == ListsSpec => []ShiftFits
  <1>1. DecoderInv => ShiftFits
    <2> SUFFICES ASSUME DecoderInv PROVE ShiftFits
      OBVIOUS
    <2>1. shift <= LastShift
      BY StartsAssumption DEF DecoderInv
    <2>2. state = "read" => result < Weight[shift]
      BY DEF DecoderInv, NumberInv
    <2> QED
      BY <2>1, <2>2, LowBitsFit DEF ShiftFits
  <1> QED
    BY <1>1, DecoderInvHolds, PTL

\* get_function_starts gives the running sums of the deltas of its data, up to the first that
\* is zero, too long or cut off.
THEOREM DecodedStartsAreSums == ListsSpec => []DeltasAreSummed
  <1>1. StartsInv => DeltasAreSummed
    BY DEF StartsInv, DeltasAreSummed, StartsAreRunningSums
  <1> QED
    BY <1>1, DecoderInvHolds, PTL

-----------------------------------------------------------------------------
(* What is read from .eh_frame: every FDE with its own CIE                   *)

\* The places before n of FDEs that can be parsed, and (below) what the lists have for an FDE.
FdesBefore(n) == {k \in 1 .. n - 1 : IsFde(k)}

\* The FDEs before one entry more.
LEMMA FdesGrow ==
  ASSUME entries \in Seq(EntryFields), NEW n \in 1 .. Len(entries)
  PROVE  LET fdes == Picked(entries, FdesBefore(n))
             more == Picked(entries, FdesBefore(n + 1))
         IN  /\ fdes \in Seq(EntryFields)
             /\ IsFde(n) => more = Append(fdes, entries[n])
             /\ ~IsFde(n) => more = fdes
  <1> DEFINE places == FdesBefore(n)
  <1>1. Len(entries) \in Nat
    BY ListIsFunction
  <1>2. places \in SUBSET (1 .. n - 1)
    BY DEF FdesBefore
  <1>3. IsFde(n) => FdesBefore(n + 1) = places \cup {n}
    BY <1>1 DEF FdesBefore
  <1>4. ~IsFde(n) => FdesBefore(n + 1) = places
    BY <1>1 DEF FdesBefore
  <1> HIDE DEF places
  <1>5. /\ Picked(entries, places) \in Seq(EntryFields)
        /\ Picked(entries, places \cup {n}) = Append(Picked(entries, places), entries[n])
    BY <1>2, PickedGrows
  <1> QED
    BY <1>3, <1>4, <1>5 DEF places

\* What is picked are entries.
LEMMA PickedTypes ==
  ASSUME entries \in Seq(EntryFields), at \in 1 .. Len(entries) + 1
  PROVE  LET fdes == Picked(entries, {k \in 1 .. at - 1 : IsFde(k)})
         IN  \A k \in DOMAIN fdes : fdes[k] \in EntryFields
  <1> DEFINE places == {k \in 1 .. at - 1 : IsFde(k)}
  <1>1. Len(entries) \in Nat /\ \A k \in 1 .. Len(entries) : entries[k] \in EntryFields
    BY ListIsFunction
  <1>2. places \in SUBSET (1 .. at - 1) /\ at - 1 \in Nat
    BY <1>1
  <1>3. \A k \in places : entries[k] \in EntryFields
    BY <1>1
  <1>4. IsFiniteSet(places) /\ places \subseteq Int
    <2> DEFINE m == at - 1
    <2> HIDE DEF m
    <2>1. IsFiniteSet(1 .. m)
      BY <1>2, FS_Interval DEF m
    <2> QED
      BY <1>2, <2>1, FS_Subset DEF m
  <1> HIDE DEF places
  <1>5. ArePicked(Picked(entries, places), entries, places) /\ Cardinality(places) \in Nat
    BY <1>4, PickedElements
  <1> QED
    BY <1>3, <1>5 DEF ArePicked, places

\* What an element more of a list makes of the list of its values.
LEMMA ValuesGrow ==
  ASSUME NEW S, NEW T, NEW f \in [S -> T], NEW s \in Seq(S), NEW x \in S
  PROVE  /\ [k \in DOMAIN s |-> f[s[k]]] \in Seq(T)
         /\ [k \in DOMAIN Append(s, x) |-> f[Append(s, x)[k]]]
              = Append([k \in DOMAIN s |-> f[s[k]]], f[x])
  <1> DEFINE n == Len(s)
             t == Append(s, x)
             values == [k \in DOMAIN s |-> f[s[k]]]
             more == [k \in DOMAIN t |-> f[t[k]]]
  <1>1. n \in Nat /\ DOMAIN s = 1 .. n /\ \A k \in 1 .. n : s[k] \in S
    BY ListIsFunction
  <1>2. /\ t \in Seq(S) /\ Len(t) = n + 1 /\ DOMAIN t = 1 .. n + 1 /\ t[n + 1] = x
        /\ \A k \in 1 .. n : t[k] = s[k]
    OBVIOUS
  <1>3. values \in [1 .. n -> T]
    BY <1>1
  <1>4. values \in Seq(T) /\ Len(values) = n
    <2> HIDE DEF n, values
    <2> QED
      BY <1>1, <1>3, FunctionIsList
  <1>5. \A k \in 1 .. n + 1 : t[k] \in S
    BY <1>2, ListIsFunction
  <1>6. more \in [1 .. n + 1 -> T]
    BY <1>2, <1>5
  <1>7. more \in Seq(T) /\ Len(more) = n + 1
    <2> DEFINE m == n + 1
    <2>1. m \in Nat /\ more \in [1 .. m -> T]
      BY <1>1, <1>6
    <2> HIDE DEF m, more
    <2> QED
      BY <2>1, FunctionIsList DEF m
  <1>8. f[x] \in T
    OBVIOUS
  <1>9. /\ \A k \in 1 .. n : values[k] = f[s[k]] /\ more[k] = f[s[k]]
        /\ more[n + 1] = f[x]
    BY <1>1, <1>2
  <1> HIDE DEF values, more, n, t
  <1> DEFINE last == Append(values, f[x])
  <1>10. /\ last \in Seq(T) /\ Len(last) = n + 1 /\ last[n + 1] = f[x]
         /\ \A k \in 1 .. n : last[k] = values[k]
    BY <1>1, <1>4, <1>8
  <1> HIDE DEF last
  <1>11. \A k \in 1 .. Len(more) : more[k] = last[k]
    <2>1. \A k \in 1 .. n + 1 : k \in 1 .. n \/ k = n + 1
      BY <1>1
    <2> QED
      BY <1>7, <1>9, <1>10, <2>1
  <1>12. more = last
    BY <1>7, <1>10, <1>11, SameElements
  <1> QED
    BY <1>4, <1>12 DEF values, more, last, t

Starts == [fde \in EntryFields |-> U32(Own(fde))]
Ends == [fde \in EntryFields |-> U32(Own(fde) + fde.len)]

\* The CIE that was parsed last is one, so that it is found again for the FDEs that name it.
CieInv ==
  /\ \A cie \in cur_cie : IsCie(cie.offset) /\ cie = Cie(cie.offset)
  /\ \A cie, other \in cur_cie : cie = other

\* Every FDE before the next entry has given its start and its end.
ElfInv ==
  format = "elf" =>
    /\ entries \in Seq(EntryFields) /\ at \in 1 .. Len(entries) + 1
    /\ CieInv
    /\ function_starts = [k \in DOMAIN ReadFdes |-> Starts[ReadFdes[k]]]
    /\ function_ends = [k \in DOMAIN ReadFdes |-> Ends[ReadFdes[k]]]

\* Three words have been read for every pair of addresses, and the end comes before three more.
PeInv ==
  format = "pe" =>
    /\ entries \in Seq(Nat) /\ state \in {"read", "done"}
    /\ function_starts \in Seq(Nat) /\ function_ends \in Seq(Nat)
    /\ Len(function_starts) = Len(function_ends)
    /\ at = 3 * Len(function_starts) + 1 /\ at <= Len(entries) + 1
    /\ state = "done" => at + 2 > Len(entries)
    /\ \A k \in 1 .. Len(function_starts) :
         function_starts[k] = entries[3 * k - 2] /\ function_ends[k] = entries[3 * k - 1]

\* CieAt finds the CIE of an FDE, whichever was parsed last.
LEMMA CieIsFound ==
  ASSUME CieInv, NEW offset
  PROVE  CieAt(offset) = IF IsCie(offset) THEN {Cie(offset)} ELSE {}
  <1>1. CASE \E cie \in cur_cie : cie.offset = offset
    <2>1. PICK cie \in cur_cie : cie.offset = offset
      BY <1>1
    <2>2. IsCie(offset) /\ cie = Cie(offset) /\ cur_cie = {cie}
      BY <2>1 DEF CieInv
    <2> QED
      BY <1>1, <2>2 DEF CieAt
  <1>2. CASE ~\E cie \in cur_cie : cie.offset = offset
    BY <1>2 DEF CieAt
  <1> QED
    BY <1>1, <1>2

\* What CieAt finds is a CIE of the file.
LEMMA FoundCieKeeps ==
  ASSUME CieInv, NEW offset, CieAt(offset) # {}, cur_cie' = CieAt(offset), UNCHANGED entries
  PROVE  CieInv'
  <1>1. IsCie(offset) /\ cur_cie' = {Cie(offset)}
    BY CieIsFound
  <1>2. Cie(offset).offset = offset
    BY DEF Cie
  <1> QED
    BY <1>1, <1>2 DEF CieInv, IsCie, Cie

\* Where the iterator goes on without an FDE.
LEMMA NoFdeKeeps ==
  ASSUME ElfInv, format = "elf", at \in 1 .. Len(entries), ~IsFde(at), CieInv',
         at' = at + 1, UNCHANGED <<format, entries, function_starts, function_ends>>
  PROVE  ElfInv'
  <1>1. entries \in Seq(EntryFields) /\ Len(entries) \in Nat
    BY DEF ElfInv
  <1>2. at + 1 \in 1 .. Len(entries) + 1
    BY <1>1
  <1>3. Picked(entries, FdesBefore(at + 1)) = Picked(entries, FdesBefore(at))
    BY <1>1, FdesGrow
  <1>4. ReadFdes = Picked(entries, FdesBefore(at))
    BY DEF ReadFdes, FdesBefore
  <1>5. ReadFdes' = Picked(entries, FdesBefore(at + 1))
    BY DEF ReadFdes, FdesBefore, IsFde, IsCie
  <1>6. ReadFdes' = ReadFdes /\ Starts' = Starts /\ Ends' = Ends
    BY <1>3, <1>4, <1>5 DEF Starts, Ends, Own, Cie, InitialAddress
  <1> QED
    BY <1>1, <1>2, <1>6 DEF ElfInv

\* An FDE that can be parsed.
LEMMA FdeKeeps ==
  ASSUME ElfInv, format = "elf", at \in 1 .. Len(entries), IsFde(at), CieInv',
         at' = at + 1, UNCHANGED <<format, entries>>,
         function_starts' = Append(function_starts, U32(Own(entries[at]))),
         function_ends' = Append(function_ends, U32(Own(entries[at]) + entries[at].len))
  PROVE  ElfInv'
  <1> DEFINE fdes == ReadFdes
             fde == entries[at]
  <1>1. entries \in Seq(EntryFields) /\ Len(entries) \in Nat /\ fde \in EntryFields
    BY DEF ElfInv
  <1>2. at + 1 \in 1 .. Len(entries) + 1
    BY <1>1
  <1>3. fdes = Picked(entries, FdesBefore(at))
    BY DEF ReadFdes, FdesBefore
  <1>4. ReadFdes' = Picked(entries, FdesBefore(at + 1))
    BY DEF ReadFdes, FdesBefore, IsFde, IsCie
  <1>5. fdes \in Seq(EntryFields) /\ ReadFdes' = Append(fdes, fde)
    BY <1>1, <1>3, <1>4, FdesGrow
  <1>6. Starts' = Starts /\ Ends' = Ends
    BY DEF Starts, Ends, Own, Cie, InitialAddress
  <1> DEFINE StartSet == {Starts[x] : x \in EntryFields}
             EndSet == {Ends[x] : x \in EntryFields}
  <1>7. Starts \in [EntryFields -> StartSet] /\ Ends \in [EntryFields -> EndSet]
    BY DEF Starts, Ends
  <1>8. /\ function_starts = [k \in DOMAIN fdes |-> Starts[fdes[k]]]
        /\ function_ends = [k \in DOMAIN fdes |-> Ends[fdes[k]]]
    BY DEF ElfInv
  <1>9. /\ function_starts' = Append(function_starts, Starts[fde])
        /\ function_ends' = Append(function_ends, Ends[fde])
    BY <1>1 DEF Starts, Ends
  <1> HIDE DEF fdes, fde, StartSet, EndSet
  <1>10. function_starts' = [k \in DOMAIN Append(fdes, fde) |-> Starts[Append(fdes, fde)[k]]]
    BY <1>1, <1>5, <1>7, <1>8, <1>9, ValuesGrow
  <1>11. function_ends' = [k \in DOMAIN Append(fdes, fde) |-> Ends[Append(fdes, fde)[k]]]
    BY <1>1, <1>5, <1>7, <1>8, <1>9, ValuesGrow
  <1> QED
    BY <1>1, <1>2, <1>5, <1>6, <1>10, <1>11 DEF ElfInv

\* Steps at which no list and no CIE changes.
LEMMA NothingReadKeeps ==
  ASSUME ElfInv, UNCHANGED <<format, entries, at, cur_cie, function_starts, function_ends>>
  PROVE  ElfInv'
  <1>1. CieInv => CieInv'
    BY DEF CieInv, IsCie, Cie
  <1>2. ReadFdes' = ReadFdes
    BY DEF ReadFdes, IsFde, IsCie
  <1>3. Starts' = Starts /\ Ends' = Ends
    BY DEF Starts, Ends, Own, Cie, InitialAddress
  <1> QED
    BY <1>1, <1>2, <1>3 DEF ElfInv

\* A CIE.
LEMMA ReadCieKeeps ==
  ASSUME ElfInv, ReadCie
  PROVE  ElfInv'
  <1>1. /\ format = "elf" /\ at <= Len(entries) /\ entries[at].kind = "cie"
        /\ cur_cie' = {Cie(at)} /\ at' = at + 1
        /\ UNCHANGED <<format, entries, function_starts, function_ends>>
    BY DEF ReadCie, HasEntry, Entry, inputs
  <1>2. at \in 1 .. Len(entries) /\ at \in DOMAIN entries
    BY <1>1, ListIsFunction DEF ElfInv
  <1>3. CieInv'
    <2>1. IsCie(at) /\ Cie(at).offset = at
      BY <1>1, <1>2 DEF IsCie, Cie
    <2> QED
      BY <1>1, <2>1 DEF CieInv, IsCie, Cie
  <1>4. ~IsFde(at)
    BY <1>1 DEF IsFde
  <1> QED
    BY <1>1, <1>2, <1>3, <1>4, NoFdeKeeps

\* An FDE: skipped, listed, or the end of the program.
LEMMA ReadFdeKeeps ==
  ASSUME ElfInv, ReadFde
  PROVE  ElfInv'
  <1> DEFINE found == CieAt(Entry.cie)
  <1>1. /\ format = "elf" /\ at <= Len(entries) /\ Entry.kind = "fde" /\ Entry = entries[at]
        /\ UNCHANGED <<format, entries>>
    BY DEF ReadFde, HasEntry, Entry, inputs
  <1>2. at \in 1 .. Len(entries) /\ CieInv
    BY <1>1, ListIsFunction DEF ElfInv
  <1>3. found = IF IsCie(Entry.cie) THEN {Cie(Entry.cie)} ELSE {}
    BY <1>2, CieIsFound
  <1>4. IsFde(at) <=> Entry.ok /\ found # {}
    BY <1>1, <1>3 DEF IsFde
  <1>5. \/ /\ found = {} \/ ~Entry.ok
           /\ cur_cie' = (IF found = {} THEN cur_cie ELSE found)
           /\ at' = at + 1
           /\ UNCHANGED <<function_starts, function_ends>>
        \/ \E cie \in found :
             /\ Entry.ok /\ cur_cie' = found /\ at' = at + 1
             /\ function_starts' = Append(function_starts, U32(InitialAddress(Entry, cie)))
             /\ function_ends' = Append(function_ends, U32(InitialAddress(Entry, cie) + Entry.len))
        \/ UNCHANGED <<function_starts, function_ends, at, cur_cie>>
    BY DEF ReadFde
  <1>6. CASE /\ found = {} \/ ~Entry.ok
             /\ cur_cie' = (IF found = {} THEN cur_cie ELSE found)
             /\ at' = at + 1
             /\ UNCHANGED <<function_starts, function_ends>>
    <2>1. CieInv'
      <3>1. CASE found = {}
        BY <1>1, <1>2, <1>6, <3>1 DEF CieInv, IsCie, Cie
      <3>2. CASE found # {}
        BY <1>1, <1>2, <1>6, <3>2, FoundCieKeeps
      <3> QED
        BY <3>1, <3>2
    <2> QED
      BY <1>1, <1>2, <1>4, <1>6, <2>1, NoFdeKeeps
  <1>7. CASE \E cie \in found :
               /\ Entry.ok /\ cur_cie' = found /\ at' = at + 1
               /\ function_starts' = Append(function_starts, U32(InitialAddress(Entry, cie)))
               /\ function_ends' = Append(function_ends, U32(InitialAddress(Entry, cie) + Entry.len))
    <2>1. PICK cie \in found :
               /\ Entry.ok /\ cur_cie' = found /\ at' = at + 1
               /\ function_starts' = Append(function_starts, U32(InitialAddress(Entry, cie)))
               /\ function_ends' = Append(function_ends, U32(InitialAddress(Entry, cie) + Entry.len))
      BY <1>7
    <2>2. InitialAddress(Entry, cie) = Own(entries[at])
      BY <1>1, <1>3 DEF Own
    <2>3. CieInv'
      BY <1>1, <1>2, <2>1, FoundCieKeeps
    <2> QED
      BY <1>1, <1>2, <1>4, <2>1, <2>2, <2>3, FdeKeeps
  <1>8. CASE UNCHANGED <<function_starts, function_ends, at, cur_cie>>
    BY <1>1, <1>8, NothingReadKeeps
  <1> QED
    BY <1>5, <1>6, <1>7, <1>8

\* An entry of three words.
LEMMA ReadPdataKeeps ==
  ASSUME PeInv, ReadPdata
  PROVE  PeInv'
  <1> DEFINE n == Len(function_starts)
  <1>1. /\ format = "pe" /\ state = "read" /\ at + 2 <= Len(entries)
        /\ function_starts' = Append(function_starts, entries[at])
        /\ function_ends' = Append(function_ends, entries[at + 1])
        /\ at' = at + 3 /\ UNCHANGED <<format, entries, state>>
    BY DEF ReadPdata, EntryWords, inputs, PeInv
  <1>2. /\ entries \in Seq(Nat) /\ function_starts \in Seq(Nat) /\ function_ends \in Seq(Nat)
        /\ n \in Nat /\ Len(function_ends) = n /\ at = 3 * n + 1 /\ Len(entries) \in Nat
        /\ \A k \in 1 .. n :
             function_starts[k] = entries[3 * k - 2] /\ function_ends[k] = entries[3 * k - 1]
    BY <1>1 DEF PeInv
  <1>3. entries[at] \in Nat /\ entries[at + 1] \in Nat
    <2>1. at \in Nat /\ at >= 1
      BY <1>2
    <2>2. at + 2 <= Len(entries) /\ Len(entries) \in Nat
      BY <1>1, <1>2
    <2>3. at \in 1 .. Len(entries) /\ at + 1 \in 1 .. Len(entries)
      BY <2>1, <2>2
    <2> QED
      BY <1>2, <2>3, ListIsFunction
  <1>4. /\ function_starts' \in Seq(Nat) /\ Len(function_starts') = n + 1
        /\ function_starts'[n + 1] = entries[at]
        /\ \A k \in 1 .. n : function_starts'[k] = function_starts[k]
    BY <1>1, <1>2, <1>3
  <1>5. /\ function_ends' \in Seq(Nat) /\ Len(function_ends') = n + 1
        /\ function_ends'[n + 1] = entries[at + 1]
        /\ \A k \in 1 .. n : function_ends'[k] = function_ends[k]
    <2> DEFINE ends == function_ends
               x == entries[at + 1]
    <2>1. ends \in Seq(Nat) /\ x \in Nat /\ Len(ends) = n /\ n \in Nat
      BY <1>2, <1>3
    <2> HIDE DEF ends, x, n
    <2>2. /\ Append(ends, x) \in Seq(Nat) /\ Len(Append(ends, x)) = n + 1
          /\ Append(ends, x)[n + 1] = x /\ \A k \in 1 .. n : Append(ends, x)[k] = ends[k]
      BY <2>1
    <2> QED
      BY <1>1, <2>2 DEF ends, x
  <1> HIDE DEF n
  <1>6. ASSUME NEW k \in 1 .. n + 1
        PROVE  function_starts'[k] = entries[3 * k - 2] /\ function_ends'[k] = entries[3 * k - 1]
    <2>1. CASE k \in 1 .. n
      BY <1>2, <1>4, <1>5, <2>1
    <2>2. CASE k = n + 1
      <3>1. 3 * k - 2 = at /\ 3 * k - 1 = at + 1
        BY <1>2, <2>2
      <3> QED
        BY <1>4, <1>5, <2>2, <3>1
    <2> QED
      BY <1>2, <2>1, <2>2
  <1>7. at' = 3 * (n + 1) + 1 /\ at' <= Len(entries) + 1
    BY <1>1, <1>2
  <1> QED
    BY <1>1, <1>2, <1>4, <1>5, <1>6, <1>7 DEF PeInv

BoundsInv == format \in {"macho", "elf", "pe"} /\ ElfInv /\ PeInv

\* The invariant of the lists of ELF and PE files.
LEMMA BoundsInvHolds == ListsSpec => []BoundsInv
  <1>1. ListsInit => BoundsInv
    <2> SUFFICES ASSUME ListsInit PROVE BoundsInv
      OBVIOUS
    <2>1. /\ format \in {"macho", "elf", "pe"} /\ at = 1 /\ cur_cie = {} /\ function_ends = << >>
          /\ format = "elf" => entries \in EhFrames
          /\ format = "pe" => entries \in Pdatas
          /\ format # "macho" => function_starts = << >> /\ state = "read"
      BY DEF ListsInit, InitWith
    <2>2. ElfInv
      <3> SUFFICES ASSUME format = "elf" PROVE ElfInv
        BY DEF ElfInv
      <3>1. entries \in Seq(EntryFields) /\ Len(entries) \in Nat
        BY <2>1, ListsAssumption
      <3>2. FdesBefore(1) = {}
        BY DEF FdesBefore
      <3>3. ReadFdes = << >>
        <4>1. ReadFdes = Picked(entries, {})
          BY <2>1, <3>2 DEF ReadFdes, FdesBefore
        <4>2. Cardinality({}) = 0
          BY FS_EmptySet
        <4> QED
          BY <4>1, <4>2 DEF Picked, Ascending
      <3>4. at \in 1 .. Len(entries) + 1 /\ CieInv
        BY <2>1, <3>1 DEF CieInv
      <3> QED
        BY <2>1, <3>1, <3>3, <3>4 DEF ElfInv
    <2>3. PeInv
      <3> SUFFICES ASSUME format = "pe" PROVE PeInv
        BY DEF PeInv
      <3>1. entries \in Seq(Nat) /\ Len(entries) \in Nat
        BY <2>1, ListsAssumption
      <3> QED
        BY <2>1, <3>1 DEF PeInv
    <2> QED
      BY <2>1, <2>2, <2>3 DEF BoundsInv
  <1>2. BoundsInv /\ [ListsNext]_listVars => BoundsInv'
    <2> SUFFICES ASSUME BoundsInv, [ListsNext]_listVars PROVE BoundsInv'
      OBVIOUS
    <2>1. CASE ReadCie
      BY <2>1, ReadCieKeeps DEF BoundsInv, ReadCie, PeInv, inputs
    <2>2. CASE ReadFde
      BY <2>2, ReadFdeKeeps DEF BoundsInv, ReadFde, PeInv, inputs
    <2>3. CASE ReadPdata
      BY <2>3, ReadPdataKeeps DEF BoundsInv, ReadPdata, ElfInv, inputs
    <2>4. CASE DecodeStarts \/ AddUnwindInfo
      BY <2>4 DEF BoundsInv, DecodeStarts, AddUnwindInfo, ElfInv, PeInv, inputs
    <2>5. CASE EndEhFrame
      BY <2>5, NothingReadKeeps DEF BoundsInv, EndEhFrame, PeInv, inputs
    <2>6. CASE EndPdata
      BY <2>6 DEF BoundsInv, EndPdata, ElfInv, PeInv, inputs, EntryWords
    <2>7. CASE UNCHANGED listVars
      BY <2>7, NothingReadKeeps DEF BoundsInv, PeInv, listVars, inputs
    <2> QED
      BY <2>1, <2>2, <2>3, <2>4, <2>5, <2>6, <2>7 DEF ListsNext, ListsTerminated
  <1> QED
    BY <1>1, <1>2, PTL DEF ListsSpec

\* Starts and ends stay in pairs, each of one function: every FDE of an ELF file gives what its
\* own CIE says, and of the words of a PE file none but the first two of an entry is taken.
THEOREM BoundsStayInPairs == ListsSpec => []BoundsAreOfOneFunction
  <1>1. BoundsInv => BoundsAreOfOneFunction
    <2> SUFFICES ASSUME BoundsInv PROVE BoundsAreOfOneFunction
      OBVIOUS
    <2>1. ASSUME format = "elf"
          PROVE  /\ function_starts = [k \in DOMAIN ReadFdes |-> U32(Own(ReadFdes[k]))]
                 /\ function_ends = [k \in DOMAIN ReadFdes |-> U32(Own(ReadFdes[k]) + ReadFdes[k].len)]
      <3>1. /\ entries \in Seq(EntryFields) /\ at \in 1 .. Len(entries) + 1
            /\ function_starts = [k \in DOMAIN ReadFdes |-> Starts[ReadFdes[k]]]
            /\ function_ends = [k \in DOMAIN ReadFdes |-> Ends[ReadFdes[k]]]
        BY <2>1 DEF BoundsInv, ElfInv
      <3>2. \A k \in DOMAIN ReadFdes : ReadFdes[k] \in EntryFields
        BY <3>1, PickedTypes DEF ReadFdes
      <3> QED
        BY <3>1, <3>2 DEF Starts, Ends
    <2>2. ASSUME format = "pe"
          PROVE  /\ Len(function_starts) = Len(function_ends)
                 /\ state = "done" => Len(function_starts) = Len(entries) \div 3
                 /\ \A k \in DOMAIN function_starts :
                      /\ function_starts[k] = entries[3 * k - 2]
                      /\ function_ends[k] = entries[3 * k - 1]
      <3>1. Len(entries) \in Nat /\ Len(function_starts) \in Nat /\ DOMAIN function_starts = 1 .. Len(function_starts)
        BY <2>2, ListIsFunction DEF BoundsInv, PeInv
      <3>2. state = "done" => Len(function_starts) = Len(entries) \div 3
        <4> DEFINE n == Len(function_starts)
                   size == Len(entries)
        <4>1. /\ state = "done" => 3 * n + 3 > size
              /\ 3 * n <= size /\ n \in Nat /\ size \in Nat
          BY <2>2, <3>1 DEF BoundsInv, PeInv
        <4> HIDE DEF n, size
        <4>2. 3 * n + 3 > size /\ 3 * n <= size /\ n \in Nat /\ size \in Nat => n = size \div 3
          OBVIOUS
        <4> QED
          BY <4>1, <4>2 DEF n, size
      <3> QED
        BY <2>2, <3>1, <3>2 DEF BoundsInv, PeInv
    <2> QED
      BY <2>1, <2>2 DEF BoundsAreOfOneFunction
  <1> QED
    BY <1>1, BoundsInvHolds, PTL

-----------------------------------------------------------------------------
(* The pass over functions and addresses: MatchFuns                          *)

\* Where the pass is: it leaves its loop when one of the lists is used up.
Positions ==
  /\ funs \in FunLists /\ pairs \in PairLists
  /\ cur_addr \in 1 .. Len(pairs) + 1
  /\ cur_fun \in 1 .. Len(funs) + 1
  /\ pc # "match" => ~HasAddr \/ ~HasFun

Inv == Positions /\ NeverLooksBack

-----------------------------------------------------------------------------
(* The lists *)

\* Indexed from 1, with numbers for addresses and sizes, and sorted.
Lists ==
  /\ Len(funs) \in Nat /\ DOMAIN funs = 1 .. Len(funs)
  /\ Len(pairs) \in Nat /\ DOMAIN pairs = 1 .. Len(pairs)
  /\ \A f \in 1 .. Len(funs) : funs[f].address \in Nat /\ funs[f].size \in Nat
  /\ \A p \in 1 .. Len(pairs) : pairs[p].vmaddr_in_this_object \in Nat
  /\ \A f, g \in 1 .. Len(funs) : f < g => funs[f].address <= funs[g].address
  /\ \A p, q \in 1 .. Len(pairs) :
       p < q => pairs[p].vmaddr_in_this_object <= pairs[q].vmaddr_in_this_object

\* A list is indexed from 1 to its length.
LEMMA IndexedFromOne ==
  ASSUME NEW list, IsList(list)
  PROVE  Len(list) \in Nat /\ DOMAIN list = 1 .. Len(list)
  BY DEF IsList

\* What MatchAssumption says of the two lists, with their positions as numbers.
LEMMA ListsAreSorted ==
  ASSUME funs \in FunLists, pairs \in PairLists
  PROVE  Lists
  <1>1. IsList(funs) /\ IsList(pairs)
    BY MatchAssumption
  <1>2. /\ Len(funs) \in Nat /\ DOMAIN funs = 1 .. Len(funs)
        /\ Len(pairs) \in Nat /\ DOMAIN pairs = 1 .. Len(pairs)
    BY <1>1, IndexedFromOne
  <1>3. /\ \A f \in DOMAIN funs : funs[f].address \in Nat /\ funs[f].size \in Nat
        /\ \A p \in DOMAIN pairs : pairs[p].vmaddr_in_this_object \in Nat
    BY MatchAssumption
  <1>4. \A f, g \in DOMAIN funs : f < g => funs[f].address <= funs[g].address
    BY MatchAssumption DEF IsSortedBy
  <1>5. \A p, q \in DOMAIN pairs :
          p < q => pairs[p].vmaddr_in_this_object <= pairs[q].vmaddr_in_this_object
    BY MatchAssumption DEF IsSortedBy
  <1> QED
    BY <1>2, <1>3, <1>4, <1>5 DEF Lists

-----------------------------------------------------------------------------
(* FunctionAt *)

\* FunctionAt is 0 for an address that no function covers.
LEMMA NoFunction ==
  ASSUME NEW list, NEW v, \A f \in DOMAIN list : ~Covers(list[f], v)
  PROVE  FunctionAt(list, v) = 0
  BY DEF FunctionAt

\* The first function that covers an address is the only one that no other is before.
LEMMA FirstFunction ==
  ASSUME NEW list, NEW n \in Nat, DOMAIN list = 1 .. n, NEW v, NEW f \in 1 .. n,
         Covers(list[f], v), \A g \in 1 .. f - 1 : ~Covers(list[g], v)
  PROVE  FunctionAt(list, v) = f
  <1> DEFINE IsFirst(h) == Covers(list[h], v) /\ \A g \in 1 .. h - 1 : ~Covers(list[g], v)
  <1>1. FunctionAt(list, v) = CHOOSE h \in 1 .. n : IsFirst(h)
    BY DEF FunctionAt
  <1>2. IsFirst(f)
    OBVIOUS
  <1>3. \A h \in 1 .. n : IsFirst(h) => h = f
    <2> SUFFICES ASSUME NEW h \in 1 .. n, IsFirst(h) PROVE h = f
      OBVIOUS
    <2>1. ~(h < f) /\ ~(f < h)
      OBVIOUS
    <2> QED
      BY <2>1
  <1> HIDE DEF IsFirst
  <1> QED
    BY <1>1, <1>2, <1>3

\* FunctionAt is 0 or the index of a function that covers the address.
LEMMA FunctionOrNone ==
  ASSUME NEW list, NEW n \in Nat, DOMAIN list = 1 .. n, NEW v
  PROVE  /\ FunctionAt(list, v) \in 0 .. n
         /\ FunctionAt(list, v) # 0 => Covers(list[FunctionAt(list, v)], v)
  <1>1. CASE \A f \in DOMAIN list : ~Covers(list[f], v)
    BY <1>1, NoFunction
  <1>2. CASE \E f \in DOMAIN list : Covers(list[f], v)
    <2> DEFINE covering == {f \in 1 .. n : Covers(list[f], v)}
    <2>1. covering \subseteq Nat /\ covering # {}
      BY <1>2
    <2>2. \E f \in covering : \A g \in covering : f <= g
      <3> HIDE DEF covering
      <3> QED
        BY <2>1, LeastElement
    <2>3. PICK f \in covering : \A g \in covering : f <= g
      BY <2>2
    <2>4. \A g \in 1 .. f - 1 : ~Covers(list[g], v)
      BY <2>3
    <2> QED
      BY <2>3, <2>4, FirstFunction
  <1> QED
    BY <1>1, <1>2

-----------------------------------------------------------------------------
(* One pass *)

\* A function behind the current one starts where it does or later.
LEMMA LaterFunctions ==
  ASSUME Lists, HasFun, cur_fun \in 1 .. Len(funs) + 1,
         NEW f \in cur_fun .. Len(funs), NEW v \in Nat, v < funs[cur_fun].address
  PROVE  ~Covers(funs[f], v)
  <1>1. funs[cur_fun].address \in Nat /\ funs[f].address \in Nat
    BY DEF Lists, HasFun
  <1>2. funs[cur_fun].address <= funs[f].address
    BY <1>1 DEF Lists, HasFun
  <1> QED
    BY <1>1, <1>2 DEF Covers

\* The address before the current function is in none: those that were passed do not cover it.
LEMMA BetweenFunctions ==
  ASSUME Inv, HasAddr, HasFun, funs[cur_fun].address > Vmaddr
  PROVE  FunctionAt(funs, Vmaddr) = 0
  <1>1. Lists
    BY ListsAreSorted DEF Inv, Positions
  <1>2. cur_addr \in 1 .. Len(pairs) /\ Vmaddr \in Nat /\ funs[cur_fun].address \in Nat
    BY <1>1 DEF Inv, Positions, HasAddr, HasFun, Vmaddr, Lists
  <1>3. \A f \in 1 .. cur_fun - 1 : ~Covers(funs[f], Vmaddr)
    BY <1>1, <1>2 DEF Inv, NeverLooksBack, Vmaddr, Lists
  <1>4. \A f \in cur_fun .. Len(funs) : ~Covers(funs[f], Vmaddr)
    BY <1>1, <1>2, LaterFunctions DEF Inv, Positions
  <1>5. \A f \in DOMAIN funs : ~Covers(funs[f], Vmaddr)
    BY <1>1, <1>3, <1>4 DEF Lists, Inv, Positions
  <1> QED
    BY <1>5, NoFunction

\* The address that the current function covers is assigned to it.
LEMMA InCurrentFunction ==
  ASSUME Inv, HasAddr, HasFun, Covers(funs[cur_fun], Vmaddr)
  PROVE  FunctionAt(funs, Vmaddr) = cur_fun
  <1>1. Lists
    BY ListsAreSorted DEF Inv, Positions
  <1>2. cur_addr \in 1 .. Len(pairs) /\ cur_fun \in 1 .. Len(funs)
    BY <1>1 DEF Inv, Positions, HasAddr, HasFun, Lists
  <1>3. \A f \in 1 .. cur_fun - 1 : ~Covers(funs[f], Vmaddr)
    BY <1>1, <1>2 DEF Inv, NeverLooksBack, Vmaddr, Lists
  <1> QED
    BY <1>1, <1>2, <1>3, FirstFunction DEF Lists

\* Behind the last function there is none.
LEMMA BehindAllFunctions ==
  ASSUME Inv, HasAddr, ~HasFun
  PROVE  FunctionAt(funs, Vmaddr) = 0
  <1>1. Lists
    BY ListsAreSorted DEF Inv, Positions
  <1>2. cur_addr \in 1 .. Len(pairs) /\ cur_fun = Len(funs) + 1
    BY <1>1 DEF Inv, Positions, HasAddr, HasFun, Lists
  <1>3. \A f \in DOMAIN funs : ~Covers(funs[f], Vmaddr)
    BY <1>1, <1>2 DEF Inv, NeverLooksBack, Vmaddr, Lists
  <1> QED
    BY <1>3, NoFunction

\* Passing an address that is in no function, or in the current one.
LEMMA PassAddress ==
  ASSUME Inv, HasAddr, FunctionAt(funs, Vmaddr) \in {0, cur_fun},
         cur_addr' = cur_addr + 1, UNCHANGED <<lists, cur_fun>>
  PROVE  NeverLooksBack'
  <1>1. Lists
    BY ListsAreSorted DEF Inv, Positions
  <1>2. /\ cur_addr \in 1 .. Len(pairs) /\ cur_fun \in 1 .. Len(funs) + 1
        /\ funs' = funs /\ pairs' = pairs /\ cur_fun' = cur_fun
    BY <1>1 DEF Inv, Positions, HasAddr, Lists, lists
  <1>3. \A f \in 1 .. cur_fun - 1, p \in cur_addr + 1 .. Len(pairs) :
          ~Covers(funs[f], pairs[p].vmaddr_in_this_object)
    BY <1>1, <1>2 DEF Inv, NeverLooksBack, Lists
  <1>4. \A p \in 1 .. cur_addr - 1 :
          FunctionAt(funs, pairs[p].vmaddr_in_this_object) <= cur_fun
    BY <1>2 DEF Inv, NeverLooksBack
  <1>5. FunctionAt(funs, pairs[cur_addr].vmaddr_in_this_object) <= cur_fun
    BY <1>1, <1>2 DEF Vmaddr, Lists
  <1>6. \A p \in 1 .. cur_addr :
          FunctionAt(funs, pairs[p].vmaddr_in_this_object) <= cur_fun
    BY <1>1, <1>2, <1>4, <1>5 DEF Lists
  <1> QED
    BY <1>1, <1>2, <1>3, <1>6 DEF NeverLooksBack, Lists

\* With the current address all later ones are behind the current function.
LEMMA BehindCurrentFunction ==
  ASSUME Inv, AdvanceFun
  PROVE  \A p \in cur_addr .. Len(pairs) :
           ~Covers(funs[cur_fun], pairs[p].vmaddr_in_this_object)
  <1>1. Lists /\ cur_addr \in 1 .. Len(pairs) /\ cur_fun \in 1 .. Len(funs)
    BY ListsAreSorted DEF Inv, Positions, AdvanceFun, HasAddr, HasFun, Lists
  <1> SUFFICES ASSUME NEW p \in cur_addr .. Len(pairs)
               PROVE  ~Covers(funs[cur_fun], pairs[p].vmaddr_in_this_object)
    OBVIOUS
  <1>2. p \in 1 .. Len(pairs)
    BY <1>1 DEF Lists
  <1>3. /\ Vmaddr \in Nat /\ pairs[p].vmaddr_in_this_object \in Nat
        /\ Vmaddr <= pairs[p].vmaddr_in_this_object
    BY <1>1, <1>2 DEF Lists, Vmaddr
  <1>4. funs[cur_fun].address \in Nat /\ funs[cur_fun].size \in Nat
    BY <1>1 DEF Lists
  <1> QED
    BY <1>3, <1>4 DEF AdvanceFun, Covers

\* Passing a function that the current address is behind.
LEMMA PassFunction ==
  ASSUME Inv, AdvanceFun
  PROVE  NeverLooksBack'
  <1>1. Lists
    BY ListsAreSorted DEF Inv, Positions
  <1>2. /\ cur_addr \in 1 .. Len(pairs) /\ cur_fun \in 1 .. Len(funs)
        /\ funs' = funs /\ pairs' = pairs /\ cur_fun' = cur_fun + 1 /\ cur_addr' = cur_addr
    BY <1>1 DEF Inv, Positions, AdvanceFun, HasAddr, HasFun, Lists, lists
  <1>3. \A p \in cur_addr .. Len(pairs) : ~Covers(funs[cur_fun], pairs[p].vmaddr_in_this_object)
    BY BehindCurrentFunction
  <1>4. \A f \in 1 .. cur_fun - 1, p \in cur_addr .. Len(pairs) :
          ~Covers(funs[f], pairs[p].vmaddr_in_this_object)
    BY DEF Inv, NeverLooksBack
  <1>5. \A f \in 1 .. cur_fun, p \in cur_addr .. Len(pairs) :
          ~Covers(funs[f], pairs[p].vmaddr_in_this_object)
    BY <1>2, <1>3, <1>4
  <1>6. \A p \in 1 .. cur_addr - 1 :
          FunctionAt(funs, pairs[p].vmaddr_in_this_object) <= cur_fun + 1
    <2> SUFFICES ASSUME NEW p \in 1 .. cur_addr - 1
                 PROVE  FunctionAt(funs, pairs[p].vmaddr_in_this_object) <= cur_fun + 1
      OBVIOUS
    <2>1. FunctionAt(funs, pairs[p].vmaddr_in_this_object) <= cur_fun
      BY DEF Inv, NeverLooksBack
    <2>2. FunctionAt(funs, pairs[p].vmaddr_in_this_object) \in Int
      BY <1>1, FunctionOrNone DEF Lists
    <2> QED
      BY <1>2, <2>1, <2>2
  <1>7. cur_fun' - 1 = cur_fun
    BY <1>2
  <1>8. \A f \in 1 .. cur_fun' - 1, p \in cur_addr' .. Len(pairs') :
          ~Covers(funs'[f], pairs'[p].vmaddr_in_this_object)
    BY <1>2, <1>5, <1>7
  <1>9. \A p \in 1 .. cur_addr' - 1 :
          FunctionAt(funs', pairs'[p].vmaddr_in_this_object) <= cur_fun'
    BY <1>2, <1>6
  <1> QED
    BY <1>8, <1>9 DEF NeverLooksBack

\* No step makes the pass look back.
LEMMA KeepsNeverLooksBack ==
  ASSUME Inv, Next
  PROVE  NeverLooksBack'
  <1>1. CASE KeepInternal
    <2>1. FunctionAt(funs, Vmaddr) = 0
      BY <1>1, BetweenFunctions DEF KeepInternal
    <2> QED
      BY <1>1, <2>1, PassAddress DEF KeepInternal
  <1>2. CASE AdvanceFun
    BY <1>2, PassFunction
  <1>3. CASE CollectAddress
    <2>1. FunctionAt(funs, Vmaddr) = cur_fun
      BY <1>3, InCurrentFunction DEF CollectAddress
    <2> QED
      BY <1>3, <2>1, PassAddress DEF CollectAddress
  <1>4. CASE KeepRest
    <2>1. ~HasFun
      BY <1>4 DEF Inv, Positions, KeepRest
    <2>2. FunctionAt(funs, Vmaddr) = 0
      BY <1>4, <2>1, BehindAllFunctions DEF KeepRest
    <2> QED
      BY <1>4, <2>2, PassAddress DEF KeepRest
  <1>5. CASE FlushFinalFun \/ Return \/ Done
    BY <1>5 DEF Inv, NeverLooksBack, FlushFinalFun, Return, Done, vars, lists
  <1> QED
    BY <1>1, <1>2, <1>3, <1>4, <1>5 DEF Next

\* No step runs over the end of a list, and the loop is left at the end of one.
LEMMA KeepsPositions ==
  ASSUME Inv, Next
  PROVE  Positions'
  <1>1. Lists
    BY ListsAreSorted DEF Inv, Positions
  <1>2. /\ funs' = funs /\ pairs' = pairs
        /\ cur_addr' = cur_addr \/ (HasAddr /\ cur_addr' = cur_addr + 1)
        /\ cur_fun' = cur_fun \/ (HasFun /\ cur_fun' = cur_fun + 1)
    BY DEF Next, KeepInternal, AdvanceFun, CollectAddress, FlushFinalFun, KeepRest, Return, Done,
           vars, lists
  <1>3. pc' # "match" => ~HasAddr \/ ~HasFun
    BY DEF Inv, Positions, Next, KeepInternal, AdvanceFun, CollectAddress, FlushFinalFun, KeepRest,
           Return, Done, vars
  <1> QED
    BY <1>1, <1>2, <1>3 DEF Inv, Positions, HasAddr, HasFun, Lists

\* The pass is always between the lists' ends and has nothing to look back for.
LEMMA InvHolds == Spec => []Inv
  <1>1. Init => Inv
    <2> SUFFICES ASSUME Init PROVE Inv
      OBVIOUS
    <2>1. Lists
      BY ListsAreSorted DEF Init
    <2> QED
      BY <2>1 DEF Init, Inv, Positions, NeverLooksBack, Lists
  <1>2. Inv /\ [Next]_vars => Inv'
    <2>1. Inv /\ Next => Inv'
      BY KeepsNeverLooksBack, KeepsPositions DEF Inv
    <2>2. Inv /\ UNCHANGED vars => Inv'
      BY DEF Inv, Positions, NeverLooksBack, HasAddr, HasFun, vars, lists
    <2> QED
      BY <2>1, <2>2
  <1> QED
    BY <1>1, <1>2, PTL DEF Spec

\* One pass over the two lists is enough, however the functions overlap: no function that was
\* passed covers an address to come, and no address that was passed is in a function to come.
THEOREM OnePassIsEnough == Spec => []NeverLooksBack
  BY InvHolds, PTL DEF Inv

-----------------------------------------------------------------------------
(***************************************************************************)
(* What is returned.  Under(f) is what function f gets in the end; an      *)
(* entry for f is kept until a later function of its name has addresses.   *)
(***************************************************************************)
At(p) == FunctionAt(funs, pairs[p].vmaddr_in_this_object)
Under(f) == AddressesUnder(funs, AllPairs, f)
Kept(f, n) ==
  /\ Under(f) # {}
  /\ \A g \in f + 1 .. n : SharesEntry(funs[f], funs[g]) => Under(g) = {}
IsEntryOf(e, f) ==
  /\ e.object = funs[f].object /\ e.name = funs[f].name
  /\ e.addresses # << >> /\ RangeOf(e.addresses) = Under(f)

\* The functions whose addresses were written to external_funs.
Flushed == IF pc = "match" THEN cur_fun - 1 ELSE Len(funs)

FunsAscend(list) ==
  \A a, b \in DOMAIN list :
    a < b => list[a].vmaddr_in_this_object <= list[b].vmaddr_in_this_object

InternalInv ==
  /\ IsList(internal_addresses)
  /\ RangeOf(internal_addresses) = {pairs[p] : p \in {q \in 1 .. cur_addr - 1 : At(q) = 0}}
  /\ FunsAscend(internal_addresses)

CurrentInv ==
  /\ IsList(cur_fun_addresses)
  /\ pc = "match" =>
       RangeOf(cur_fun_addresses) =
         {InFunction(funs[cur_fun], pairs[p]) : p \in {q \in 1 .. cur_addr - 1 : At(q) = cur_fun}}

\* The entries after n functions.
EntriesAre(listed, n) ==
  /\ \A e \in listed : \E f \in 1 .. n : Kept(f, n) /\ IsEntryOf(e, f)
  /\ \A f \in 1 .. n : Kept(f, n) => \E e \in listed : IsEntryOf(e, f)

ExternalInv == EntriesAre(external_funs, Flushed)

\* The pass ends when both lists are used up.
EndInv == pc \in {"match", "rest", "done"} /\ (pc = "done" => ~HasAddr)

\* Appending adds one element to what is in a list.
LEMMA AppendToList ==
  ASSUME NEW s, IsList(s), NEW x
  PROVE  /\ IsList(Append(s, x)) /\ Append(s, x) # << >>
         /\ RangeOf(Append(s, x)) = RangeOf(s) \cup {x}
  <1> DEFINE new == RangeOf(s) \cup {x}
  <1>1. s \in Seq(new) /\ x \in new
    BY DEF IsList
  <1>2. /\ Append(s, x) \in Seq(new) /\ Len(Append(s, x)) = Len(s) + 1
        /\ DOMAIN Append(s, x) = 1 .. Len(s) + 1 /\ Len(s) \in Nat /\ DOMAIN s = 1 .. Len(s)
        /\ \A k \in 1 .. Len(s) : Append(s, x)[k] = s[k]
        /\ Append(s, x)[Len(s) + 1] = x
    BY <1>1
  <1>3. RangeOf(Append(s, x)) = new
    BY <1>2 DEF RangeOf
  <1>4. Append(s, x) # << >>
    BY <1>2
  <1> QED
    BY <1>2, <1>3, <1>4 DEF IsList

\* The empty list is one, with nothing in it.
LEMMA EmptyIsList == IsList(<< >>) /\ RangeOf(<< >>) = {}
  BY DEF IsList, RangeOf

\* Only the empty list has nothing in it.
LEMMA EmptyRange ==
  ASSUME NEW s, IsList(s)
  PROVE  s = << >> <=> RangeOf(s) = {}
  <1>1. Len(s) \in Nat /\ DOMAIN s = 1 .. Len(s) /\ s \in Seq(RangeOf(s))
    BY IndexedFromOne DEF IsList
  <1>2. RangeOf(s) = {} => Len(s) = 0
    <2> SUFFICES ASSUME Len(s) # 0 PROVE RangeOf(s) # {}
      OBVIOUS
    <2>1. s[1] \in RangeOf(s)
      BY <1>1 DEF RangeOf
    <2> QED
      BY <2>1
  <1> QED
    BY <1>1, <1>2, EmptyIsList

\* What function f gets, by position.
LEMMA UnderByPosition ==
  ASSUME Lists, NEW f
  PROVE  Under(f) = {InFunction(funs[f], pairs[p]) : p \in {q \in 1 .. Len(pairs) : At(q) = f}}
  BY DEF Under, AddressesUnder, AllPairs, RangeOf, At, Lists

\* When a function was passed, what was collected is all it gets.
LEMMA CollectedAll ==
  ASSUME Inv, CurrentInv, pc = "match", HasFun,
         \A p \in cur_addr .. Len(pairs) : ~Covers(funs[cur_fun], pairs[p].vmaddr_in_this_object)
  PROVE  RangeOf(cur_fun_addresses) = Under(cur_fun)
  <1>1. Lists /\ cur_fun \in 1 .. Len(funs) /\ cur_addr \in 1 .. Len(pairs) + 1
    BY ListsAreSorted DEF Inv, Positions, HasFun, Lists
  <1>2. \A p \in cur_addr .. Len(pairs) : At(p) # cur_fun
    <2>1. Len(funs) \in Nat /\ DOMAIN funs = 1 .. Len(funs) /\ cur_fun # 0
      BY <1>1 DEF Lists
    <2>2. \A p : At(p) # 0 => Covers(funs[At(p)], pairs[p].vmaddr_in_this_object)
      BY <2>1, FunctionOrNone DEF At
    <2> QED
      BY <2>1, <2>2
  <1> DEFINE found(q) == At(q) = cur_fun
  <1>3. {q \in 1 .. cur_addr - 1 : At(q) = cur_fun} = {q \in 1 .. Len(pairs) : At(q) = cur_fun}
    <2>1. Len(pairs) \in Nat
      BY <1>1 DEF Lists
    <2>2. \A q \in cur_addr .. Len(pairs) : ~found(q)
      BY <1>2
    <2> HIDE DEF found
    <2>3. {q \in 1 .. cur_addr - 1 : found(q)} = {q \in 1 .. Len(pairs) : found(q)}
      BY <1>1, <2>1, <2>2
    <2> QED
      BY <2>3 DEF found
  <1> QED
    BY <1>1, <1>3, UnderByPosition DEF CurrentInv

\* Functions without addresses leave the entries as they are.
LEMMA PassWithoutAddresses ==
  ASSUME NEW n \in Nat, NEW m \in Nat, n <= m, \A g \in n + 1 .. m : Under(g) = {},
         NEW listed, EntriesAre(listed, n)
  PROVE  EntriesAre(listed, m)
  <1>1. \A f \in 1 .. n : Kept(f, m) <=> Kept(f, n)
    <2> SUFFICES ASSUME NEW f \in 1 .. n PROVE Kept(f, m) <=> Kept(f, n)
      OBVIOUS
    <2>1. \A g \in f + 1 .. m : g \in f + 1 .. n \/ Under(g) = {}
      OBVIOUS
    <2>2. f + 1 .. n \subseteq f + 1 .. m
      OBVIOUS
    <2> QED
      BY <2>1, <2>2 DEF Kept
  <1>2. \A f \in 1 .. m : Kept(f, m) => f \in 1 .. n
    BY DEF Kept
  <1> QED
    BY <1>1, <1>2 DEF EntriesAre

\* A function with addresses takes the place of the entry of its name.
LEMMA PassWithAddresses ==
  ASSUME NEW n \in Nat, NEW list, list # << >>, RangeOf(list) = Under(n + 1), Under(n + 1) # {},
         NEW listed, EntriesAre(listed, n)
  PROVE  EntriesAre({e \in listed : ~SharesEntry(e, funs[n + 1])}
                    \cup {[object |-> funs[n + 1].object, name |-> funs[n + 1].name,
                           addresses |-> list]}, n + 1)
  <1> DEFINE new == [object |-> funs[n + 1].object, name |-> funs[n + 1].name, addresses |-> list]
             others == {e \in listed : ~SharesEntry(e, funs[n + 1])}
  <1>1. IsEntryOf(new, n + 1)
    BY DEF IsEntryOf
  <1>2. Kept(n + 1, n + 1)
    BY DEF Kept
  <1>3. \A f \in 1 .. n : Kept(f, n + 1) <=> Kept(f, n) /\ ~SharesEntry(funs[f], funs[n + 1])
    <2> SUFFICES ASSUME NEW f \in 1 .. n
                 PROVE  Kept(f, n + 1) <=> Kept(f, n) /\ ~SharesEntry(funs[f], funs[n + 1])
      OBVIOUS
    <2>1. f + 1 .. n + 1 = (f + 1 .. n) \cup {n + 1}
      OBVIOUS
    <2> QED
      BY <2>1 DEF Kept
  <1>4. \A f \in 1 .. n, e \in listed :
          IsEntryOf(e, f) => (SharesEntry(e, funs[n + 1]) <=> SharesEntry(funs[f], funs[n + 1]))
    BY DEF IsEntryOf, SharesEntry
  <1>5. \A e \in others : \E f \in 1 .. n + 1 : Kept(f, n + 1) /\ IsEntryOf(e, f)
    BY <1>3, <1>4 DEF EntriesAre
  <1>6. \A f \in 1 .. n : Kept(f, n + 1) => \E e \in others : IsEntryOf(e, f)
    BY <1>3, <1>4 DEF EntriesAre
  <1> HIDE DEF new, others
  <1>7. \A e \in others \cup {new} : \E f \in 1 .. n + 1 : Kept(f, n + 1) /\ IsEntryOf(e, f)
    BY <1>1, <1>2, <1>5
  <1>8. \A f \in 1 .. n + 1 : Kept(f, n + 1) => \E e \in others \cup {new} : IsEntryOf(e, f)
    BY <1>1, <1>6
  <1>9. EntriesAre(others \cup {new}, n + 1)
    BY <1>7, <1>8 DEF EntriesAre
  <1> QED
    BY <1>9 DEF others, new

\* Writing what was collected for the current function makes the entries those of one
\* function more, whether anything was collected or not.
LEMMA FlushedEntries ==
  ASSUME cur_fun \in Nat \ {0}, IsList(cur_fun_addresses),
         RangeOf(cur_fun_addresses) = Under(cur_fun),
         EntriesAre(external_funs, cur_fun - 1), FlushCurFun(funs[cur_fun])
  PROVE  EntriesAre(external_funs', cur_fun)
  <1>1. CASE cur_fun_addresses = << >>
    <2>1. \A g \in (cur_fun - 1) + 1 .. cur_fun : Under(g) = {}
      BY <1>1, EmptyRange
    <2>2. external_funs' = external_funs
      BY <1>1 DEF FlushCurFun
    <2> QED
      BY <2>1, <2>2, PassWithoutAddresses
  <1>2. CASE cur_fun_addresses # << >>
    <2> DEFINE n == cur_fun - 1
    <2>1. n \in Nat /\ n + 1 = cur_fun
      OBVIOUS
    <2>2. Under(n + 1) # {} /\ RangeOf(cur_fun_addresses) = Under(n + 1)
      BY <1>2, <2>1, EmptyRange
    <2>3. external_funs' =
            {e \in external_funs : ~SharesEntry(e, funs[n + 1])}
            \cup {[object |-> funs[n + 1].object, name |-> funs[n + 1].name,
                   addresses |-> cur_fun_addresses]}
      BY <1>2, <2>1 DEF FlushCurFun, InsertFunction
    <2> HIDE DEF n
    <2>4. EntriesAre(external_funs, n)
      BY DEF n
    <2>5. EntriesAre(external_funs', n + 1)
      BY <1>2, <2>1, <2>2, <2>3, <2>4, PassWithAddresses
    <2> QED
      BY <2>1, <2>5
  <1> QED
    BY <1>1, <1>2

\* The entries of n functions depend on nothing but the lists.
LEMMA EntriesStay ==
  ASSUME UNCHANGED lists, NEW n, EntriesAre(external_funs', n)
  PROVE  EntriesAre(external_funs, n)'
  BY DEF EntriesAre, Kept, IsEntryOf, Under, AllPairs, lists

MatchInv == Inv /\ EndInv /\ InternalInv /\ CurrentInv /\ ExternalInv

-----------------------------------------------------------------------------
(* The addresses that stay internal *)

\* A list that ascends does so with an element appended that is not smaller than any in it.
LEMMA AppendAscending ==
  ASSUME NEW list, IsList(list), FunsAscend(list), NEW pair,
         \A k \in DOMAIN list : list[k].vmaddr_in_this_object <= pair.vmaddr_in_this_object
  PROVE  FunsAscend(Append(list, pair))
  <1>1. /\ Len(list) \in Nat /\ DOMAIN list = 1 .. Len(list)
        /\ DOMAIN Append(list, pair) = 1 .. Len(list) + 1
        /\ \A k \in 1 .. Len(list) : Append(list, pair)[k] = list[k]
        /\ Append(list, pair)[Len(list) + 1] = pair
    BY DEF IsList
  <1> QED
    BY <1>1 DEF FunsAscend

\* The current address is in no function, and stays internal.
LEMMA KeepsPair ==
  ASSUME Inv, InternalInv, HasAddr, FunctionAt(funs, Vmaddr) = 0,
         internal_addresses' = Append(internal_addresses, pairs[cur_addr]),
         cur_addr' = cur_addr + 1, UNCHANGED lists
  PROVE  InternalInv'
  <1>1. Lists /\ cur_addr \in 1 .. Len(pairs)
    BY ListsAreSorted DEF Inv, Positions, HasAddr, Lists
  <1>2. \A k \in DOMAIN internal_addresses :
          internal_addresses[k].vmaddr_in_this_object <= pairs[cur_addr].vmaddr_in_this_object
    <2> SUFFICES ASSUME NEW k \in DOMAIN internal_addresses
                 PROVE  internal_addresses[k].vmaddr_in_this_object
                          <= pairs[cur_addr].vmaddr_in_this_object
      OBVIOUS
    <2>1. internal_addresses[k] \in RangeOf(internal_addresses)
      BY DEF RangeOf
    <2>2. PICK q \in 1 .. cur_addr - 1 : internal_addresses[k] = pairs[q]
      BY <2>1 DEF InternalInv
    <2>3. q \in 1 .. Len(pairs) /\ q < cur_addr /\ Len(pairs) \in Nat
      BY <1>1, <2>2 DEF Lists
    <2>4. pairs[q].vmaddr_in_this_object <= pairs[cur_addr].vmaddr_in_this_object
      BY <1>1, <2>3 DEF Lists
    <2> QED
      BY <2>2, <2>4
  <1>3. FunsAscend(internal_addresses')
    BY <1>2, AppendAscending DEF InternalInv
  <1>4. /\ IsList(internal_addresses')
        /\ RangeOf(internal_addresses') = RangeOf(internal_addresses) \cup {pairs[cur_addr]}
    BY AppendToList DEF InternalInv
  <1>5. {q \in 1 .. cur_addr : At(q) = 0} = {q \in 1 .. cur_addr - 1 : At(q) = 0} \cup {cur_addr}
    BY <1>1 DEF At, Vmaddr
  <1>6. RangeOf(internal_addresses') = {pairs[p] : p \in {q \in 1 .. cur_addr : At(q) = 0}}
    BY <1>4, <1>5 DEF InternalInv
  <1>7. (cur_addr + 1) - 1 = cur_addr
    BY <1>1
  <1> QED
    BY <1>3, <1>4, <1>6, <1>7 DEF InternalInv, At, FunsAscend, IsList, RangeOf, lists

\* Every step keeps the internal addresses those that were passed and are in no function.
LEMMA KeepsInternalInv ==
  ASSUME MatchInv, Next
  PROVE  InternalInv'
  <1>1. CASE KeepInternal
    <2>1. FunctionAt(funs, Vmaddr) = 0
      BY <1>1, BetweenFunctions DEF KeepInternal, MatchInv
    <2> QED
      BY <1>1, <2>1, KeepsPair DEF KeepInternal, MatchInv
  <1>2. CASE KeepRest
    <2>1. FunctionAt(funs, Vmaddr) = 0
      BY <1>2, BehindAllFunctions DEF KeepRest, MatchInv, Inv, Positions
    <2> QED
      BY <1>2, <2>1, KeepsPair DEF KeepRest, MatchInv
  <1>3. CASE CollectAddress
    <2>1. Lists /\ cur_addr \in 1 .. Len(pairs) /\ cur_fun \in 1 .. Len(funs)
      BY <1>3, ListsAreSorted DEF CollectAddress, MatchInv, Inv, Positions, HasAddr, HasFun, Lists
    <2>2. At(cur_addr) # 0
      BY <1>3, <2>1, InCurrentFunction DEF CollectAddress, MatchInv, At, Vmaddr
    <2>3. {q \in 1 .. (cur_addr + 1) - 1 : At(q) = 0} = {q \in 1 .. cur_addr - 1 : At(q) = 0}
      BY <2>1, <2>2
    <2>4. /\ internal_addresses' = internal_addresses /\ funs' = funs /\ pairs' = pairs
          /\ cur_addr' = cur_addr + 1
      BY <1>3 DEF CollectAddress, lists
    <2> QED
      BY <2>3, <2>4 DEF MatchInv, InternalInv, At, FunsAscend, IsList, RangeOf
  <1>4. CASE AdvanceFun \/ FlushFinalFun \/ Return \/ Done
    <2>1. /\ internal_addresses' = internal_addresses /\ funs' = funs /\ pairs' = pairs
          /\ cur_addr' = cur_addr
      BY <1>4 DEF AdvanceFun, FlushFinalFun, Return, Done, vars, lists
    <2> QED
      BY <2>1 DEF MatchInv, InternalInv, At, FunsAscend, IsList, RangeOf
  <1> QED
    BY <1>1, <1>2, <1>3, <1>4 DEF Next

-----------------------------------------------------------------------------
(* The addresses of the current function *)

\* Every step keeps what is collected the passed addresses of the current function.
LEMMA KeepsCurrentInv ==
  ASSUME MatchInv, Next
  PROVE  CurrentInv'
  <1>0. Lists /\ cur_addr \in Nat \ {0} /\ cur_fun \in Nat \ {0}
    BY ListsAreSorted DEF MatchInv, Inv, Positions, Lists
  <1> DEFINE collected(n, f) == {q \in 1 .. n : At(q) = f}
  <1>1. CASE KeepInternal
    <2>1. At(cur_addr) = 0
      BY <1>1, BetweenFunctions DEF KeepInternal, MatchInv, At, Vmaddr
    <2>2. collected((cur_addr + 1) - 1, cur_fun) = collected(cur_addr - 1, cur_fun)
      BY <1>0, <2>1
    <2>3. /\ cur_fun_addresses' = cur_fun_addresses /\ funs' = funs /\ pairs' = pairs
          /\ cur_addr' = cur_addr + 1 /\ cur_fun' = cur_fun /\ pc' = pc
      BY <1>1 DEF KeepInternal, lists
    <2> QED
      BY <2>2, <2>3 DEF MatchInv, CurrentInv, At, IsList, RangeOf
  <1>2. CASE AdvanceFun
    <2>1. \A q \in 1 .. cur_addr - 1 : At(q) # cur_fun + 1
      <3> SUFFICES ASSUME NEW q \in 1 .. cur_addr - 1 PROVE At(q) # cur_fun + 1
        OBVIOUS
      <3>1. At(q) <= cur_fun /\ At(q) \in Int
        BY <1>0, FunctionOrNone DEF MatchInv, Inv, NeverLooksBack, At, Lists
      <3> QED
        BY <1>0, <3>1
    <2>2. /\ cur_fun_addresses' = << >> /\ funs' = funs /\ pairs' = pairs
          /\ cur_addr' = cur_addr /\ cur_fun' = cur_fun + 1
      BY <1>2 DEF AdvanceFun, lists
    <2>3. {q \in 1 .. cur_addr' - 1 : At(q)' = cur_fun'} = {}
      BY <2>1, <2>2 DEF At
    <2>4. IsList(cur_fun_addresses') /\ RangeOf(cur_fun_addresses') = {}
      BY <2>2, EmptyIsList
    <2> QED
      BY <2>3, <2>4 DEF CurrentInv, IsList, RangeOf
  <1>3. CASE CollectAddress
    <2>1. At(cur_addr) = cur_fun
      BY <1>3, InCurrentFunction DEF CollectAddress, MatchInv, At, Vmaddr
    <2>2. collected((cur_addr + 1) - 1, cur_fun) = collected(cur_addr - 1, cur_fun) \cup {cur_addr}
      BY <1>0, <2>1
    <2>3. /\ IsList(cur_fun_addresses')
          /\ RangeOf(cur_fun_addresses') =
               RangeOf(cur_fun_addresses) \cup {InFunction(funs[cur_fun], pairs[cur_addr])}
      BY <1>3, AppendToList DEF CollectAddress, MatchInv, CurrentInv
    <2>4. RangeOf(cur_fun_addresses') =
            {InFunction(funs[cur_fun], pairs[p]) : p \in collected((cur_addr + 1) - 1, cur_fun)}
      BY <1>3, <2>2, <2>3 DEF CollectAddress, MatchInv, CurrentInv
    <2>5. /\ funs' = funs /\ pairs' = pairs /\ cur_addr' = cur_addr + 1 /\ cur_fun' = cur_fun
      BY <1>3 DEF CollectAddress, lists
    <2> QED
      BY <2>3, <2>4, <2>5 DEF CurrentInv, At, IsList, RangeOf
  <1>4. CASE FlushFinalFun
    <2>1. cur_fun_addresses' = << >> /\ pc' # "match"
      BY <1>4 DEF FlushFinalFun
    <2> QED
      BY <2>1, EmptyIsList DEF CurrentInv, IsList, RangeOf
  <1>5. CASE KeepRest \/ Return \/ Done
    <2>1. cur_fun_addresses' = cur_fun_addresses /\ pc' # "match"
      BY <1>5 DEF KeepRest, Return, Done, vars
    <2> QED
      BY <2>1 DEF MatchInv, CurrentInv, IsList, RangeOf
  <1> QED
    BY <1>1, <1>2, <1>3, <1>4, <1>5 DEF Next
-----------------------------------------------------------------------------
(* The entries *)

\* When no address is left, later functions get none.
LEMMA NothingForLaterFunctions ==
  ASSUME Inv, ~HasAddr
  PROVE  \A g \in cur_fun + 1 .. Len(funs) : Under(g) = {}
  <1>1. Lists /\ cur_addr = Len(pairs) + 1 /\ cur_fun \in Nat
    <2>1. Lists
      BY ListsAreSorted DEF Inv, Positions
    <2>2. /\ cur_addr \in 1 .. Len(pairs) + 1 /\ cur_fun \in 1 .. Len(funs) + 1
          /\ ~(cur_addr <= Len(pairs))
      BY DEF Inv, Positions, HasAddr
    <2>3. Len(pairs) \in Nat /\ Len(funs) \in Nat
      BY <2>1 DEF Lists
    <2> QED
      BY <2>1, <2>2, <2>3
  <1>2. \A q \in 1 .. Len(pairs) : At(q) <= cur_fun
    BY <1>1 DEF Inv, NeverLooksBack, At, Lists
  <1>3. \A g \in cur_fun + 1 .. Len(funs) : {q \in 1 .. Len(pairs) : At(q) = g} = {}
    BY <1>1, <1>2 DEF Lists
  <1> QED
    BY <1>1, <1>3, UnderByPosition

\* Every step keeps the entries those of the functions that were passed.
LEMMA KeepsExternalInv ==
  ASSUME MatchInv, Next
  PROVE  ExternalInv'
  <1>0. Lists /\ cur_addr \in Nat \ {0} /\ cur_fun \in 1 .. Len(funs) + 1 /\ funs' = funs
    BY ListsAreSorted DEF MatchInv, Inv, Positions, Lists, Next, KeepInternal, AdvanceFun,
       CollectAddress, FlushFinalFun, KeepRest, Return, Done, vars, lists
  <1>1. UNCHANGED lists
    BY DEF Next, KeepInternal, AdvanceFun, CollectAddress, FlushFinalFun, KeepRest, Return, Done,
           vars, lists
  <1>2. CASE AdvanceFun
    <2>1. RangeOf(cur_fun_addresses) = Under(cur_fun)
      BY <1>2, CollectedAll, BehindCurrentFunction DEF MatchInv, AdvanceFun
    <2>2. EntriesAre(external_funs, cur_fun - 1)
      BY <1>2 DEF MatchInv, ExternalInv, Flushed, AdvanceFun
    <2>3. EntriesAre(external_funs', cur_fun)
      BY <1>0, <1>2, <2>1, <2>2, FlushedEntries DEF AdvanceFun, MatchInv, CurrentInv
    <2>4. Flushed' = cur_fun
      BY <1>0, <1>2 DEF AdvanceFun, Flushed
    <2> QED
      BY <1>1, <2>3, <2>4, EntriesStay DEF ExternalInv
  <1>3. CASE FlushFinalFun /\ HasFun
    <2>1. ~HasAddr /\ cur_fun \in 1 .. Len(funs)
      BY <1>0, <1>3 DEF FlushFinalFun, HasFun, Lists
    <2>2. \A p \in cur_addr .. Len(pairs) :
            ~Covers(funs[cur_fun], pairs[p].vmaddr_in_this_object)
      BY <1>0, <2>1 DEF HasAddr, Lists
    <2>3. RangeOf(cur_fun_addresses) = Under(cur_fun)
      BY <1>3, <2>2, CollectedAll DEF MatchInv, FlushFinalFun
    <2>4. EntriesAre(external_funs, cur_fun - 1)
      BY <1>3 DEF MatchInv, ExternalInv, Flushed, FlushFinalFun
    <2>5. EntriesAre(external_funs', cur_fun)
      BY <1>0, <1>3, <2>3, <2>4, FlushedEntries DEF FlushFinalFun, MatchInv, CurrentInv
    <2>6. EntriesAre(external_funs', Len(funs))
      <3>1. cur_fun \in Nat /\ Len(funs) \in Nat /\ cur_fun <= Len(funs)
        BY <1>0, <2>1 DEF Lists
      <3>2. \A g \in cur_fun + 1 .. Len(funs) : Under(g) = {}
        BY <2>1, NothingForLaterFunctions DEF MatchInv
      <3> QED
        BY <2>5, <3>1, <3>2, PassWithoutAddresses
    <2>7. Flushed' = Len(funs)
      BY <1>0, <1>3 DEF FlushFinalFun, Flushed
    <2> QED
      BY <1>1, <2>6, <2>7, EntriesStay DEF ExternalInv
  <1>4. CASE FlushFinalFun /\ ~HasFun
    <2>1. cur_fun = Len(funs) + 1
      BY <1>0, <1>4 DEF HasFun, Lists
    <2>2. Flushed = Len(funs) /\ Flushed' = Len(funs) /\ external_funs' = external_funs
      BY <1>0, <1>4, <2>1 DEF FlushFinalFun, Flushed, Lists
    <2>3. EntriesAre(external_funs', Len(funs))
      BY <2>2 DEF MatchInv, ExternalInv
    <2> QED
      BY <1>1, <2>2, <2>3, EntriesStay DEF ExternalInv
  <1>5. CASE KeepInternal \/ CollectAddress \/ KeepRest \/ Return \/ Done
    <2>1. Flushed' = Flushed /\ external_funs' = external_funs
      BY <1>0, <1>5 DEF KeepInternal, CollectAddress, KeepRest, Return, Done, vars, Flushed
    <2>2. EntriesAre(external_funs', Flushed)
      BY <2>1 DEF MatchInv, ExternalInv
    <2> QED
      BY <1>1, <2>1, <2>2, EntriesStay DEF ExternalInv
  <1> QED
    BY <1>2, <1>3, <1>4, <1>5 DEF Next

-----------------------------------------------------------------------------
(* The result *)

\* The entries say what the doc of the function says.
LEMMA EntriesAsDocumented ==
  ASSUME Lists, EntriesAre(external_funs, Len(funs))
  PROVE  /\ {<<e.object, e.name>> : e \in external_funs} =
              UNION {{<<o, n>> : n \in DOMAIN FunctionsOf(funs, AllPairs, o)} :
                       o \in ObjectsWithAddresses(funs, AllPairs)}
         /\ \A e \in external_funs :
              /\ e.addresses # << >>
              /\ RangeOf(e.addresses) = FunctionsOf(funs, AllPairs, e.object)[e.name]
  <1> DEFINE kept(o) == {f \in DOMAIN funs : funs[f].object = o /\ Kept(f, Len(funs))}
             names(o) == {funs[f].name : f \in kept(o)}
  <1>1. \A f \in DOMAIN funs : KeepsItsEntry(funs, AllPairs, f) <=> Kept(f, Len(funs))
    <2> SUFFICES ASSUME NEW f \in DOMAIN funs
                 PROVE  KeepsItsEntry(funs, AllPairs, f) <=> Kept(f, Len(funs))
      OBVIOUS
    <2>1. \A g : g \in f + 1 .. Len(funs) <=> g \in DOMAIN funs /\ g > f
      BY DEF Lists
    <2> QED
      BY <2>1 DEF KeepsItsEntry, Kept, Under
  <1>2. \A o : kept(o) = {f \in DOMAIN funs : funs[f].object = o /\ KeepsItsEntry(funs, AllPairs, f)}
    BY <1>1
  <1>3. \A o : \A f, g \in kept(o) : funs[f].name = funs[g].name => f = g
    <2> SUFFICES ASSUME NEW o, NEW f \in kept(o), NEW g \in kept(o), funs[f].name = funs[g].name
                 PROVE  f = g
      OBVIOUS
    <2>1. f \in 1 .. Len(funs) /\ g \in 1 .. Len(funs) /\ Len(funs) \in Nat
      BY DEF Lists
    <2>2. SharesEntry(funs[f], funs[g]) /\ SharesEntry(funs[g], funs[f])
      BY DEF SharesEntry
    <2>3. ~(g \in f + 1 .. Len(funs)) /\ ~(f \in g + 1 .. Len(funs))
      BY <2>2 DEF Kept
    <2> QED
      BY <2>1, <2>3
  <1>4. \A e \in external_funs : \E f \in kept(e.object) : IsEntryOf(e, f)
    <2> SUFFICES ASSUME NEW e \in external_funs
                 PROVE  \E f \in kept(e.object) : IsEntryOf(e, f)
      OBVIOUS
    <2>1. PICK f \in 1 .. Len(funs) : Kept(f, Len(funs)) /\ IsEntryOf(e, f)
      BY DEF EntriesAre
    <2>2. f \in DOMAIN funs /\ funs[f].object = e.object
      BY <2>1 DEF Lists, IsEntryOf
    <2> QED
      BY <2>1, <2>2
  <1>5. \A o : \A f \in kept(o) : \E e \in external_funs : IsEntryOf(e, f) /\ e.object = o
    <2> SUFFICES ASSUME NEW o, NEW f \in kept(o)
                 PROVE  \E e \in external_funs : IsEntryOf(e, f) /\ e.object = o
      OBVIOUS
    <2>1. f \in 1 .. Len(funs) /\ funs[f].object = o /\ Kept(f, Len(funs))
      BY DEF Lists
    <2>2. PICK e \in external_funs : IsEntryOf(e, f)
      BY <2>1 DEF EntriesAre
    <2>3. e.object = o
      BY <2>1, <2>2 DEF IsEntryOf
    <2> QED
      BY <2>2, <2>3
  <1>6. \A o : \A f \in kept(o) : o \in ObjectsWithAddresses(funs, AllPairs)
    BY DEF ObjectsWithAddresses, Kept, Under
  <1>7. \A o : /\ DOMAIN FunctionsOf(funs, AllPairs, o) = names(o)
               /\ \A f \in kept(o) : FunctionsOf(funs, AllPairs, o)[funs[f].name] = Under(f)
    <2> SUFFICES ASSUME NEW o
                 PROVE  /\ DOMAIN FunctionsOf(funs, AllPairs, o) = names(o)
                        /\ \A f \in kept(o) :
                             FunctionsOf(funs, AllPairs, o)[funs[f].name] = Under(f)
      OBVIOUS
    <2> DEFINE k == {f \in DOMAIN funs : funs[f].object = o /\ KeepsItsEntry(funs, AllPairs, f)}
               taken == FunctionsOf(funs, AllPairs, o)
    <2>1. taken = [n \in {funs[f].name : f \in k} |->
                      AddressesUnder(funs, AllPairs, CHOOSE f \in k : funs[f].name = n)]
      BY DEF FunctionsOf
    <2>2. k = kept(o)
      BY <1>2
    <2> HIDE DEF k, kept, taken
    <2>3. /\ DOMAIN taken = {funs[f].name : f \in k}
          /\ \A n \in {funs[f].name : f \in k} :
               taken[n] = AddressesUnder(funs, AllPairs, CHOOSE f \in k : funs[f].name = n)
      BY <2>1, Zenon
    <2>4. \A f \in k : (CHOOSE g \in k : funs[g].name = funs[f].name) = f
      BY <1>3, <2>2
    <2>5. ASSUME NEW f \in k
          PROVE  taken[funs[f].name] = AddressesUnder(funs, AllPairs, f)
      <3> DEFINE chosen == CHOOSE g \in k : funs[g].name = funs[f].name
      <3>1. taken[funs[f].name] = AddressesUnder(funs, AllPairs, chosen)
        BY <2>3, Zenon
      <3>2. chosen = f
        BY <2>4
      <3> HIDE DEF chosen
      <3> QED
        BY <3>1, <3>2
    <2> QED
      BY <2>2, <2>3, <2>5 DEF taken, Under
  <1>8. \A o, n : n \in names(o) <=> \E f \in kept(o) : funs[f].name = n
    OBVIOUS
  <1> HIDE DEF kept, names
  <1>9. \A e \in external_funs :
          e.name \in names(e.object) /\ e.object \in ObjectsWithAddresses(funs, AllPairs)
    BY <1>4, <1>6, <1>8 DEF IsEntryOf
  <1>10. \A o, n : n \in names(o) =>
            \E e \in external_funs : e.object = o /\ e.name = n
    BY <1>5, <1>8 DEF IsEntryOf
  <1>11. {<<e.object, e.name>> : e \in external_funs} =
           UNION {{<<o, n>> : n \in names(o)} : o \in ObjectsWithAddresses(funs, AllPairs)}
    BY <1>9, <1>10
  <1>12. \A e \in external_funs :
           /\ e.addresses # << >>
           /\ RangeOf(e.addresses) = FunctionsOf(funs, AllPairs, e.object)[e.name]
    <2> SUFFICES ASSUME NEW e \in external_funs
                 PROVE  /\ e.addresses # << >>
                        /\ RangeOf(e.addresses) = FunctionsOf(funs, AllPairs, e.object)[e.name]
      OBVIOUS
    <2>1. PICK f \in kept(e.object) : IsEntryOf(e, f)
      BY <1>4
    <2>2. funs[f].name = e.name
      BY <2>1 DEF IsEntryOf
    <2>3. FunctionsOf(funs, AllPairs, e.object)[e.name] = Under(f)
      BY <1>7, <2>2
    <2> QED
      BY <2>1, <2>3 DEF IsEntryOf
  <1> QED
    BY <1>7, <1>11, <1>12

\* When both lists are used up the result is the documented one.
LEMMA DoneAsDocumented ==
  ASSUME MatchInv
  PROVE  MatchesAsDocumented
  <1> SUFFICES ASSUME pc = "done" PROVE MatchesAsDocumented
    BY DEF MatchesAsDocumented
  <1>1. Lists /\ cur_addr = Len(pairs) + 1
    BY ListsAreSorted DEF MatchInv, Inv, Positions, EndInv, HasAddr, Lists
  <1>2. EntriesAre(external_funs, Len(funs))
    BY DEF MatchInv, ExternalInv, Flushed
  <1>3. RangeOf(internal_addresses) = {pairs[p] : p \in {q \in 1 .. Len(pairs) : At(q) = 0}}
    BY <1>1 DEF MatchInv, InternalInv, Lists
  <1>4. RangeOf(internal_addresses) = InternalPairs(funs, AllPairs)
    BY <1>1, <1>3 DEF InternalPairs, AllPairs, RangeOf, At, Lists
  <1>5. IsSortedBy(internal_addresses, LAMBDA pair : pair.vmaddr_in_this_object)
    BY DEF MatchInv, InternalInv, FunsAscend, IsSortedBy
  <1>6. EntriesAre(external_funs, Len(funs)) => MatchesAsDocumented
    BY <1>1, <1>4, <1>5, EntriesAsDocumented DEF MatchesAsDocumented
  <1> QED
    BY <1>2, <1>6

\* MatchInv is inductive.
LEMMA MatchInvHolds == Spec => []MatchInv
  <1>1. Init => MatchInv
    <2> SUFFICES ASSUME Init PROVE MatchInv
      OBVIOUS
    <2>1. Lists
      BY ListsAreSorted DEF Init
    <2>2. Inv /\ EndInv
      BY <2>1 DEF Init, Inv, Positions, NeverLooksBack, Lists, EndInv
    <2>3. InternalInv
      BY EmptyIsList DEF Init, InternalInv, FunsAscend
    <2>4. CurrentInv
      BY EmptyIsList DEF Init, CurrentInv
    <2>5. ExternalInv
      BY DEF Init, ExternalInv, EntriesAre, Flushed
    <2> QED
      BY <2>2, <2>3, <2>4, <2>5 DEF MatchInv
  <1>2. MatchInv /\ [Next]_vars => MatchInv'
    <2>1. ASSUME MatchInv, Next PROVE MatchInv'
      <3>1. Inv'
        BY <2>1, KeepsNeverLooksBack, KeepsPositions DEF MatchInv, Inv
      <3>2. EndInv'
        BY <2>1 DEF MatchInv, EndInv, Next, KeepInternal, AdvanceFun, CollectAddress,
                    FlushFinalFun, KeepRest, Return, Done, vars, HasAddr, lists
      <3> QED
        BY <2>1, <3>1, <3>2, KeepsInternalInv, KeepsCurrentInv, KeepsExternalInv DEF MatchInv
    <2>2. ASSUME MatchInv, UNCHANGED vars PROVE MatchInv'
      <3>1. UNCHANGED lists /\ external_funs' = external_funs /\ Flushed' = Flushed
        BY <2>2 DEF vars, lists, Flushed
      <3>2. ExternalInv'
        BY <2>2, <3>1, EntriesStay DEF MatchInv, ExternalInv
      <3>3. Inv'
        BY <2>2 DEF MatchInv, Inv, Positions, NeverLooksBack, HasAddr, HasFun, vars, lists
      <3>4. EndInv'
        BY <2>2 DEF MatchInv, EndInv, HasAddr, vars, lists
      <3>5. InternalInv'
        BY <2>2 DEF MatchInv, InternalInv, At, FunsAscend, IsList, RangeOf, vars, lists
      <3>6. CurrentInv'
        BY <2>2 DEF MatchInv, CurrentInv, At, IsList, RangeOf, vars, lists
      <3> QED
        BY <3>2, <3>3, <3>4, <3>5, <3>6 DEF MatchInv
    <2> QED
      BY <2>1, <2>2
  <1> QED
    BY <1>1, <1>2, PTL DEF Spec

\* match_funs_to_addresses returns what its doc says, for all sorted lists of functions and
\* addresses: the addresses that no function covers stay internal and sorted, and the entry of
\* a name has exactly the addresses of the last function of this name that has any.
THEOREM PassMatchesAsDocumented == Spec => []MatchesAsDocumented
  BY MatchInvHolds, DoneAsDocumented, PTL


-----------------------------------------------------------------------------
(* The traversal of object files: ObjectTraversal.                           *)
(* The addresses of a query in maps from function names                      *)

\* The addresses that a map from function names holds, and that it holds each for one name.
Held(functions) == UNION {Original(functions[n]) : n \in DOMAIN functions}
HoldsOnce(functions) ==
  \A m, n \in DOMAIN functions : \A x \in functions[m], y \in functions[n] :
    x.original_relative_address = y.original_relative_address => m = n /\ x = y

ArePairs(located) ==
  \A p, q \in located : p.original_relative_address = q.original_relative_address => p = q

\* The addresses that are in a function that is in another object.
Assigned(o, located, index) ==
  Original({p \in located : \E f \in DOMAIN o.funs :
    o.funs[f].object = index /\ FunctionAt(o.funs, p.vmaddr_in_this_object) = f})

\* What goes to two objects is disjoint.
LEMMA AssignedOnce ==
  ASSUME NEW o, NEW located, ArePairs(located), DOMAIN o.funs = 1 .. Len(o.funs), Len(o.funs) \in Nat
  PROVE  /\ \A i : Assigned(o, located, i) \subseteq Original(located)
         /\ \A i : Assigned(o, located, i) \cap Original(InternalPairs(o.funs, located)) = {}
         /\ \A i, j : i # j => Assigned(o, located, i) \cap Assigned(o, located, j) = {}
  <1>1. \A f \in DOMAIN o.funs : f # 0
    OBVIOUS
  <1>2. ASSUME NEW i PROVE Assigned(o, located, i) \subseteq Original(located)
    BY DEF Assigned, Original
  <1>3. ASSUME NEW i, NEW a \in Assigned(o, located, i), a \in Original(InternalPairs(o.funs, located))
        PROVE  FALSE
    <2>1. PICK p \in located : /\ p.original_relative_address = a
                               /\ FunctionAt(o.funs, p.vmaddr_in_this_object) \in DOMAIN o.funs
      BY DEF Assigned, Original
    <2>2. PICK q \in located : /\ q.original_relative_address = a
                               /\ FunctionAt(o.funs, q.vmaddr_in_this_object) = 0
      BY <1>3 DEF InternalPairs, Original
    <2>3. p = q
      BY <2>1, <2>2 DEF ArePairs
    <2> QED
      BY <1>1, <2>1, <2>2, <2>3
  <1>4. ASSUME NEW i, NEW j, i # j, NEW a \in Assigned(o, located, i), a \in Assigned(o, located, j)
        PROVE  FALSE
    <2>1. PICK p \in located : /\ p.original_relative_address = a
                               /\ o.funs[FunctionAt(o.funs, p.vmaddr_in_this_object)].object = i
      BY DEF Assigned, Original
    <2>2. PICK q \in located : /\ q.original_relative_address = a
                               /\ o.funs[FunctionAt(o.funs, q.vmaddr_in_this_object)].object = j
      BY <1>4 DEF Assigned, Original
    <2>3. p = q
      BY <2>1, <2>2 DEF ArePairs
    <2> QED
      BY <1>4, <2>1, <2>2, <2>3
  <1> QED
    BY <1>2, <1>3, <1>4

\* What is assigned to the functions of an object is held once.
LEMMA FunctionsHoldOnce ==
  ASSUME NEW o, NEW located, ArePairs(located), NEW index
  PROVE  /\ HoldsOnce(FunctionsOf(o.funs, located, index))
         /\ Held(FunctionsOf(o.funs, located, index)) \subseteq Assigned(o, located, index)
  <1> DEFINE list == o.funs
             kept == {f \in DOMAIN list : list[f].object = index /\ KeepsItsEntry(list, located, f)}
             names == {list[f].name : f \in kept}
             named(n) == CHOOSE f \in kept : list[f].name = n
             under(f) == AddressesUnder(list, located, f)
             functions == FunctionsOf(list, located, index)
  <1>1. functions = [n \in names |-> under(named(n))]
    BY DEF FunctionsOf
  <1>2. \A n \in names : named(n) \in kept /\ list[named(n)].name = n
    OBVIOUS
  <1>3. \A f : \A x \in under(f) : \E p \in located :
          /\ FunctionAt(list, p.vmaddr_in_this_object) = f /\ x = InFunction(list[f], p)
          /\ x.original_relative_address = p.original_relative_address
    BY DEF AddressesUnder, InFunction, WithOffset
  <1>4. \A f \in kept : f \in DOMAIN list /\ list[f].object = index
    OBVIOUS
  <1> HIDE DEF list, kept, named, under, functions
  <1>5. DOMAIN functions = names /\ \A n \in names : functions[n] = under(named(n))
    BY <1>1
  <1>6. ASSUME NEW m \in DOMAIN functions, NEW n \in DOMAIN functions,
               NEW x \in functions[m], NEW y \in functions[n],
               x.original_relative_address = y.original_relative_address
        PROVE  m = n /\ x = y
    <2> HIDE DEF names
    <2>1. PICK p \in located :
            /\ FunctionAt(list, p.vmaddr_in_this_object) = named(m) /\ x = InFunction(list[named(m)], p)
            /\ x.original_relative_address = p.original_relative_address
      BY <1>3, <1>5
    <2>2. PICK q \in located :
            /\ FunctionAt(list, q.vmaddr_in_this_object) = named(n) /\ y = InFunction(list[named(n)], q)
            /\ y.original_relative_address = q.original_relative_address
      BY <1>3, <1>5
    <2>3. p = q
      BY <1>6, <2>1, <2>2 DEF ArePairs
    <2>4. named(m) = named(n)
      BY <2>1, <2>2, <2>3
    <2> QED
      BY <1>2, <1>5, <2>1, <2>2, <2>3, <2>4
  <1>7. ASSUME NEW a \in Held(functions) PROVE a \in Assigned(o, located, index)
    <2> HIDE DEF names
    <2>1. PICK n \in DOMAIN functions : \E x \in functions[n] : x.original_relative_address = a
      BY DEF Held, Original
    <2>2. PICK p \in located :
            FunctionAt(list, p.vmaddr_in_this_object) = named(n) /\ p.original_relative_address = a
      BY <1>3, <1>5, <2>1
    <2>3. named(n) \in DOMAIN list /\ list[named(n)].object = index
      BY <1>2, <1>4, <1>5
    <2> QED
      BY <2>2, <2>3 DEF Assigned, Original, list
  <1> QED
    BY <1>6, <1>7 DEF HoldsOnce, functions, list

\* Addresses stay apart where they are translated.
LEMMA TranslatedArePairs ==
  ASSUME NEW o, NEW functions, HoldsOnce(functions)
  PROVE  /\ ArePairs(TranslateAddresses(o, functions))
         /\ Original(TranslateAddresses(o, functions)) \subseteq Held(functions)
  <1>1. \A p \in TranslateAddresses(o, functions) : \E n \in DOMAIN functions : \E x \in functions[n] :
          p = Pair(x.original_relative_address,
                   o.symbols[FirstSymbol(o, n)].address + x.offset_from_function_start)
    BY DEF TranslateAddresses
  <1>2. \A a, v : Pair(a, v).original_relative_address = a
    BY DEF Pair
  <1>3. ASSUME NEW p \in TranslateAddresses(o, functions), NEW q \in TranslateAddresses(o, functions),
               p.original_relative_address = q.original_relative_address
        PROVE  p = q
    <2>1. PICK m \in DOMAIN functions : \E x \in functions[m] :
            p = Pair(x.original_relative_address,
                     o.symbols[FirstSymbol(o, m)].address + x.offset_from_function_start)
      BY <1>1
    <2>2. PICK x \in functions[m] :
            p = Pair(x.original_relative_address,
                     o.symbols[FirstSymbol(o, m)].address + x.offset_from_function_start)
      BY <2>1
    <2>3. PICK n \in DOMAIN functions : \E y \in functions[n] :
            q = Pair(y.original_relative_address,
                     o.symbols[FirstSymbol(o, n)].address + y.offset_from_function_start)
      BY <1>1
    <2>4. PICK y \in functions[n] :
            q = Pair(y.original_relative_address,
                     o.symbols[FirstSymbol(o, n)].address + y.offset_from_function_start)
      BY <2>3
    <2>5. x.original_relative_address = y.original_relative_address
      BY <1>2, <1>3, <2>2, <2>4
    <2>6. m = n /\ x = y
      BY <2>5 DEF HoldsOnce
    <2> QED
      BY <2>2, <2>4, <2>6
  <1>4. Original(TranslateAddresses(o, functions)) \subseteq Held(functions)
    BY <1>1, <1>2 DEF Original, Held
  <1> QED
    BY <1>3, <1>4 DEF ArePairs

-----------------------------------------------------------------------------
(* The references that an object adds to the queue                           *)

\* The image of a finite set.
LEMMA FiniteImage ==
  ASSUME NEW S, IsFiniteSet(S), NEW f
  PROVE  IsFiniteSet({f[x] : x \in S})
  <1> DEFINE T == {f[x] : x \in S}
             g == [x \in S |-> f[x]]
  <1>1. g \in Surjection(S, T)
    BY DEF Surjection
  <1> HIDE DEF g
  <1> QED
    BY <1>1, FS_Surjection

\* A list of the elements of a finite set.
LEMMA ListOfSet ==
  ASSUME NEW S, IsFiniteSet(S), NEW list \in SetToSeqs(S)
  PROVE  /\ list \in Seq(S) /\ Len(list) \in Nat /\ DOMAIN list = 1 .. Len(list)
         /\ \A k \in DOMAIN list : list[k] \in S
         /\ \A k, l \in DOMAIN list : k # l => list[k] # list[l]
         /\ \A x \in S : \E k \in DOMAIN list : list[k] = x
  <1> DEFINE n == Cardinality(S)
  <1>1. n \in Nat
    BY FS_CardinalityType
  <1>2. list \in [1 .. n -> S] /\ \A k, l \in 1 .. n : k # l => list[k] # list[l]
    BY DEF SetToSeqs
  <1>3. list \in Surjection(1 .. n, S)
    <2>1. Cardinality(1 .. n) = n
      BY <1>1, FS_Interval
    <2>2. list \in Injection(1 .. n, S)
      BY <1>2 DEF Injection, IsInjective
    <2> QED
      BY <2>1, <2>2, FS_Injection
  <1> HIDE DEF n
  <1>4. list \in Seq(S) /\ Len(list) = n
    BY <1>1, <1>2, FunctionIsList
  <1>5. \A x \in S : \E k \in 1 .. n : list[k] = x
    BY <1>3 DEF Surjection
  <1> QED
    BY <1>1, <1>2, <1>4, <1>5

\* A list behind another.
LEMMA ListsJoin ==
  ASSUME NEW T, NEW s \in Seq(T), NEW t \in Seq(T)
  PROVE  /\ s \o t \in Seq(T) /\ Len(s) \in Nat /\ Len(t) \in Nat /\ Len(s \o t) = Len(s) + Len(t)
         /\ \A k \in 1 .. Len(s) : (s \o t)[k] = s[k]
         /\ \A k \in 1 .. Len(s) + Len(t) :
              ~(k <= Len(s)) => k - Len(s) \in 1 .. Len(t) /\ (s \o t)[k] = t[k - Len(s)]
  OBVIOUS

\* What is picked from a list without repetitions has none.
LEMMA PickedOnce ==
  ASSUME NEW s, NEW n \in Nat, DOMAIN s = 1 .. n, \A k, l \in 1 .. n : k # l => s[k] # s[l],
         NEW places \in SUBSET (1 .. n)
  PROVE  LET picked == Picked(s, places)
         IN  /\ Cardinality(places) \in Nat /\ DOMAIN picked = 1 .. Cardinality(places)
             /\ \A k \in DOMAIN picked : \E i \in places : picked[k] = s[i]
             /\ \A i \in places : \E k \in DOMAIN picked : picked[k] = s[i]
             /\ \A k, l \in DOMAIN picked : k # l => picked[k] # picked[l]
  <1> DEFINE c == Cardinality(places)
             order == Ascending(places)
             picked == Picked(s, places)
  <1>1. IsFiniteSet(places) /\ places \subseteq Int
    <2>1. IsFiniteSet(1 .. n)
      BY FS_Interval
    <2>2. IsFiniteSet(places)
      BY <2>1, FS_Subset
    <2> QED
      BY <2>2
  <1>2. /\ c \in Nat /\ order \in [1 .. c -> places]
        /\ \A k, l \in 1 .. c : k < l => order[k] < order[l]
    BY <1>1, AscendingSorts
  <1>3. picked = [k \in 1 .. c |-> s[order[k]]]
    BY <1>2 DEF Picked
  <1> HIDE DEF c, order, picked
  <1>4. \A k, l \in 1 .. c : k # l => order[k] # order[l]
    <2> TAKE k, l \in 1 .. c
    <2> HAVE k # l
    <2>1. order[k] \in Int /\ order[l] \in Int
      BY <1>1, <1>2
    <2>2. k < l \/ l < k
      BY <1>2
    <2> QED
      BY <1>2, <2>1, <2>2
  <1>5. \A k \in 1 .. c : order[k] \in places /\ picked[k] = s[order[k]]
    BY <1>2, <1>3
  <1>6. \A k, l \in 1 .. c : k # l => picked[k] # picked[l]
    <2> TAKE k, l \in 1 .. c
    <2> HAVE k # l
    <2>1. order[k] \in 1 .. n /\ order[l] \in 1 .. n /\ order[k] # order[l]
      BY <1>4, <1>5
    <2> QED
      BY <1>5, <2>1
  <1>7. \A i \in places : \E k \in 1 .. c : picked[k] = s[i]
    <2>1. ArePicked(picked, s, places)
      BY <1>1, PickedElements DEF picked
    <2> QED
      BY <2>1 DEF ArePicked, c
  <1> QED
    BY <1>2, <1>3, <1>5, <1>6, <1>7 DEF c, picked

\* The path and the member that an object is named by, and that references name it by.
IsName(o, index, path, member) ==
  index \in DOMAIN o.objects /\ o.objects[index].path = path /\ o.objects[index].member = member
AreNamed(refs, o, located) ==
  /\ \A k \in DOMAIN refs : NoMember \in DOMAIN refs[k].members => DOMAIN refs[k].members = {NoMember}
  /\ \A i \in ObjectsWithAddresses(o.funs, located) :
       \E k \in DOMAIN refs : \E m \in DOMAIN refs[k].members : IsName(o, i, refs[k].path, m)

\* No two references are for the functions of one object: of[k][m] is the object that the
\* member m of the reference k is for.  Every object that gets addresses has a reference.
AreReferences(refs, o, located) ==
  /\ \E T : refs \in Seq(T)
  /\ \A k \in DOMAIN refs : refs[k].path \in Paths /\ IsFiniteSet(DOMAIN refs[k].members)
  /\ AreNamed(refs, o, located)
  /\ \E of :
       /\ \A k \in DOMAIN refs : \A m \in DOMAIN refs[k].members :
            /\ refs[k].members[m] = FunctionsOf(o.funs, located, of[k][m])
            /\ IsName(o, of[k][m], refs[k].path, m)
       /\ \A k, l \in DOMAIN refs : \A m \in DOMAIN refs[k].members, n \in DOMAIN refs[l].members :
            of[k][m] = of[l][n] => k = l /\ m = n

\* The objects that get addresses are finitely many of the objects of the file.
LEMMA FiniteObjects ==
  ASSUME NEW o, IsObject(o), NEW located
  PROVE  /\ IsFiniteSet(ObjectsWithAddresses(o.funs, located))
         /\ ObjectsWithAddresses(o.funs, located) \subseteq DOMAIN o.objects
  <1> DEFINE with == {g \in DOMAIN o.funs : AddressesUnder(o.funs, located, g) # {}}
             object == [g \in DOMAIN o.funs |-> o.funs[g].object]
             n == Len(o.funs)
  <1>1. n \in Nat /\ with \subseteq 1 .. n /\ \A g \in DOMAIN o.funs : object[g] = o.funs[g].object
    BY DEF IsObject
  <1>2. \A g \in with : object[g] \in DOMAIN o.objects /\ object[g] = o.funs[g].object
    BY DEF IsObject
  <1>3. ObjectsWithAddresses(o.funs, located) = {object[g] : g \in with}
    BY <1>1 DEF ObjectsWithAddresses
  <1> HIDE DEF with, object, n
  <1>4. IsFiniteSet(with)
    <2>1. IsFiniteSet(1 .. n)
      BY <1>1, FS_Interval
    <2> QED
      BY <1>1, <2>1, FS_Subset
  <1>5. IsFiniteSet({object[g] : g \in with})
    BY <1>4, FiniteImage
  <1> QED
    BY <1>2, <1>3, <1>5

LEMMA ReferencesAre ==
  ASSUME NEW o, IsObject(o), NEW located,
         NEW order \in SetToSeqs(ObjectsWithAddresses(o.funs, located)),
         NEW archives \in SetToSeqs({o.objects[index].path :
                            index \in {k \in ObjectsWithAddresses(o.funs, located) :
                                         o.objects[k].member # NoMember}})
  PROVE  AreReferences(References(o, located, order, archives), o, located)
  <1> DEFINE used == ObjectsWithAddresses(o.funs, located)
             object == o.objects
             inFile(i) == object[i].member = NoMember
             paths == {object[i].path : i \in {k \in used : object[k].member # NoMember}}
             F(i) == FunctionsOf(o.funs, located, i)
             places == {k \in DOMAIN order : inFile(order[k])}
             regular == Picked(order, places)
             reference(i) == [path |-> object[i].path, members |-> [m \in {NoMember} |-> F(i)]]
             inArchive(path) == {k \in DOMAIN order : object[order[k]].path = path /\ ~inFile(order[k])}
             members(path, m) == {k \in inArchive(path) : object[order[k]].member = m}
             last(path, m) == order[Max(members(path, m))]
             archive(path) ==
               [path |-> path,
                members |-> [m \in {object[order[k]].member : k \in inArchive(path)} |-> F(last(path, m))]]
             regs == [k \in DOMAIN regular |-> reference(regular[k])]
             archs == [k \in DOMAIN archives |-> archive(archives[k])]
             IsMember(i, path, m) ==
               i \in used /\ ~inFile(i) /\ object[i].path = path /\ object[i].member = m
             refs == References(o, located, order, archives)
  <1>1. refs = regs \o archs
    BY DEF References
  <1>2. IsFiniteSet(used) /\ \A i \in used : i \in DOMAIN object /\ object[i].path \in Paths
    BY FiniteObjects DEF IsObject
  <1>3. /\ order \in Seq(used) /\ Len(order) \in Nat /\ DOMAIN order = 1 .. Len(order)
        /\ \A k \in DOMAIN order : order[k] \in used
        /\ \A k, l \in DOMAIN order : k # l => order[k] # order[l]
        /\ \A i \in used : \E k \in DOMAIN order : order[k] = i
    <2> HIDE DEF used
    <2> QED
      BY <1>2, ListOfSet DEF used
  <1>4. IsFiniteSet(paths) /\ paths \subseteq Paths
    <2> DEFINE S == {k \in used : object[k].member # NoMember}
               f == [i \in used |-> object[i].path]
    <2>1. paths = {f[i] : i \in S}
      OBVIOUS
    <2>2. IsFiniteSet(S)
      BY <1>2, FS_Subset
    <2> HIDE DEF S, f
    <2>3. IsFiniteSet({f[i] : i \in S})
      BY <2>2, FiniteImage
    <2> QED
      BY <1>2, <2>1, <2>3
  <1>5. /\ archives \in Seq(paths) /\ Len(archives) \in Nat /\ DOMAIN archives = 1 .. Len(archives)
        /\ \A k \in DOMAIN archives : archives[k] \in Paths
        /\ \A k, l \in DOMAIN archives : k # l => archives[k] # archives[l]
        /\ \A path \in paths : \E k \in DOMAIN archives : archives[k] = path
    <2>1. archives \in SetToSeqs(paths)
      OBVIOUS
    <2> HIDE DEF paths
    <2>2. \A path \in paths : path \in Paths
      BY <1>4
    <2> QED
      BY <1>4, <2>1, <2>2, ListOfSet
  <1> DEFINE r == Cardinality(places)
             c == Len(archives)
  <1>6. /\ r \in Nat /\ DOMAIN regular = 1 .. r
        /\ \A k \in DOMAIN regular : \E i \in places : regular[k] = order[i]
        /\ \A i \in places : \E k \in DOMAIN regular : regular[k] = order[i]
        /\ \A k, l \in DOMAIN regular : k # l => regular[k] # regular[l]
    <2> DEFINE n == Len(order)
    <2>1. n \in Nat /\ DOMAIN order = 1 .. n /\ places \in SUBSET (1 .. n)
      BY <1>3
    <2> HIDE DEF n, places
    <2>2. /\ Cardinality(places) \in Nat /\ DOMAIN Picked(order, places) = 1 .. Cardinality(places)
          /\ \A k \in DOMAIN Picked(order, places) : \E i \in places : Picked(order, places)[k] = order[i]
          /\ \A i \in places : \E k \in DOMAIN Picked(order, places) : Picked(order, places)[k] = order[i]
          /\ \A k, l \in DOMAIN Picked(order, places) :
               k # l => Picked(order, places)[k] # Picked(order, places)[l]
      <3>1. \A k, l \in 1 .. n : k # l => order[k] # order[l]
        BY <1>3, <2>1
      <3> QED
        BY <2>1, <3>1, PickedOnce
    <2> QED
      BY <2>2
  <1>7. \A k \in 1 .. r : regular[k] \in used /\ inFile(regular[k])
    BY <1>3, <1>6
  <1>8. ASSUME NEW path, NEW k \in inArchive(path)
        PROVE  IsMember(last(path, object[order[k]].member), path, object[order[k]].member)
    <2> DEFINE m == object[order[k]].member
               S == members(path, m)
               n == Len(order)
    <2>1. S \subseteq 1 .. n /\ S # {} /\ n \in Nat
      BY <1>3
    <2>2. \A l \in S : IsMember(order[l], path, m)
      BY <1>3
    <2> HIDE DEF S, n
    <2>3. Max(S) \in S
      BY <2>1, MaxOfPlaces
    <2> QED
      BY <2>2, <2>3 DEF S
  <1>9. \A path : IsFiniteSet({object[order[k]].member : k \in inArchive(path)})
    <2> TAKE path
    <2> DEFINE f == [k \in DOMAIN order |-> object[order[k]].member]
               S == inArchive(path)
               n == Len(order)
    <2>1. {object[order[k]].member : k \in inArchive(path)} = {f[k] : k \in S}
      OBVIOUS
    <2>2. S \subseteq 1 .. n /\ n \in Nat
      BY <1>3
    <2> HIDE DEF f, S, n
    <2>3. IsFiniteSet(1 .. n)
      BY <2>2, FS_Interval
    <2>4. IsFiniteSet(S)
      BY <2>2, <2>3, FS_Subset
    <2>5. IsFiniteSet({f[k] : k \in S})
      BY <2>4, FiniteImage
    <2> QED
      BY <2>1, <2>5
  <1> DEFINE RegSet == {regs[k] : k \in 1 .. r}
             ArchSet == {archs[k] : k \in 1 .. c}
             T == RegSet \cup ArchSet
  <1>10. /\ regs \in Seq(T) /\ Len(regs) = r /\ archs \in Seq(T) /\ Len(archs) = c
    <2>1. regs \in [1 .. r -> T] /\ archs \in [1 .. c -> T] /\ c \in Nat
      BY <1>5, <1>6
    <2> HIDE DEF regs, archs, T, r, c
    <2> QED
      BY <1>6, <2>1, FunctionIsList
  <1>11. /\ \A k \in 1 .. r : regs[k] = reference(regular[k])
         /\ \A k \in 1 .. c : archs[k] = archive(archives[k])
    BY <1>5, <1>6
  <1>17. \A i : /\ reference(i).path = object[i].path
                /\ DOMAIN reference(i).members = {NoMember}
                /\ reference(i).members[NoMember] = F(i)
    OBVIOUS
  <1>18. \A path :
            /\ archive(path).path = path
            /\ DOMAIN archive(path).members = {object[order[k]].member : k \in inArchive(path)}
            /\ \A m \in DOMAIN archive(path).members : archive(path).members[m] = F(last(path, m))
    OBVIOUS
  <1> HIDE DEF regs, archs, T, r, c, refs, reference, archive, F
  <1>12. /\ refs \in Seq(T) /\ Len(refs) = r + c /\ r \in Nat /\ c \in Nat /\ DOMAIN refs = 1 .. r + c
         /\ \A k \in 1 .. r : refs[k] = reference(regular[k])
         /\ \A k \in 1 .. r + c : ~(k <= r) => k - r \in 1 .. c /\ refs[k] = archive(archives[k - r])
    <2>1. c \in Nat
      BY <1>5 DEF c
    <2>2. refs \in Seq(T) /\ Len(refs) = r + c /\ DOMAIN refs = 1 .. r + c
      <3>1. refs \in Seq(T) /\ Len(refs) = r + c
        BY <1>1, <1>10, ListsJoin
      <3> QED
        BY <3>1, ListIsFunction
    <2>3. \A k \in 1 .. r : refs[k] = regs[k]
      BY <1>1, <1>10, ListsJoin
    <2>4. \A k \in 1 .. r + c : ~(k <= r) => k - r \in 1 .. c /\ refs[k] = archs[k - r]
      BY <1>1, <1>10, ListsJoin
    <2> QED
      BY <1>6, <1>11, <2>1, <2>2, <2>3, <2>4
  <1> DEFINE of == [k \in 1 .. r + c |->
                      [m \in DOMAIN refs[k].members |->
                         IF k <= r THEN regular[k] ELSE last(archives[k - r], m)]]
             Found(k, m, i) ==
               /\ refs[k].members[m] = F(i) /\ object[i].member = m
               /\ i \in used /\ object[i].path = refs[k].path
               /\ IF k <= r THEN i = regular[k] /\ inFile(i)
                  ELSE ~inFile(i) /\ object[i].path = archives[k - r]
  <1>13. ASSUME NEW k \in 1 .. r + c
         PROVE  /\ refs[k].path \in Paths /\ IsFiniteSet(DOMAIN refs[k].members)
                /\ \A m \in DOMAIN refs[k].members : Found(k, m, of[k][m])
    <2>1. CASE k <= r
      <3>1. k \in 1 .. r /\ refs[k] = reference(regular[k])
        BY <1>12, <2>1
      <3>2. refs[k].path = object[regular[k]].path /\ DOMAIN refs[k].members = {NoMember}
        BY <3>1, <1>17
      <3>3. refs[k].members[NoMember] = F(regular[k])
        BY <3>1, <1>17
      <3> QED
        BY <1>2, <1>7, <2>1, <3>1, <3>2, <3>3, FS_Singleton
    <2>2. CASE ~(k <= r)
      <3> DEFINE path == archives[k - r]
      <3>1. k - r \in 1 .. c /\ refs[k] = archive(path)
        BY <1>12, <2>2
      <3>2. /\ refs[k].path = path
            /\ DOMAIN refs[k].members = {object[order[j]].member : j \in inArchive(path)}
            /\ \A m \in DOMAIN refs[k].members : refs[k].members[m] = F(last(path, m))
        <4> HIDE DEF path, last, inArchive
        <4> QED
          BY <3>1, <1>18
      <3>3. path \in Paths
        BY <1>5, <3>1 DEF c
      <3>4. \A m \in DOMAIN refs[k].members : of[k][m] = last(path, m)
        BY <2>2
      <3> HIDE DEF path, of
      <3>5. \A m \in DOMAIN refs[k].members : IsMember(last(path, m), path, m)
        <4> TAKE m \in DOMAIN refs[k].members
        <4>1. PICK j \in inArchive(path) : m = object[order[j]].member
          BY <3>2
        <4> HIDE DEF last, inArchive, IsMember
        <4> QED
          BY <1>8, <4>1
      <3>6. IsFiniteSet(DOMAIN refs[k].members)
        <4> HIDE DEF inArchive
        <4> QED
          BY <1>9, <3>2
      <3>7. \A m \in DOMAIN refs[k].members : Found(k, m, of[k][m])
        <4> HIDE DEF last
        <4> QED
          BY <2>2, <3>2, <3>4, <3>5 DEF path
      <3> QED
        BY <3>2, <3>3, <3>6, <3>7
    <2> QED
      BY <2>1, <2>2
  <1> HIDE DEF of, F, regular, object
  <1>14. ASSUME NEW k \in 1 .. r + c, NEW l \in 1 .. r + c,
                NEW m \in DOMAIN refs[k].members, NEW n \in DOMAIN refs[l].members,
                of[k][m] = of[l][n]
         PROVE  k = l /\ m = n
    <2> DEFINE i == of[k][m]
    <2>1. Found(k, m, i) /\ Found(l, n, i)
      BY <1>13, <1>14
    <2> HIDE DEF i
    <2>2. m = n /\ (k <= r <=> l <= r)
      BY <2>1
    <2>3. CASE k <= r
      <3>1. k \in 1 .. r /\ l \in 1 .. r /\ regular[k] = regular[l]
        BY <1>12, <2>1, <2>2, <2>3
      <3> QED
        BY <1>6, <2>2, <3>1
    <2>4. CASE ~(k <= r)
      <3>1. k - r \in 1 .. c /\ l - r \in 1 .. c /\ archives[k - r] = archives[l - r]
        BY <1>12, <2>1, <2>2, <2>4
      <3>2. k - r = l - r
        BY <1>5, <3>1 DEF c
      <3> QED
        BY <1>12, <2>2, <3>2
    <2> QED
      BY <2>3, <2>4
  <1>15. \A k \in DOMAIN refs : \A m \in DOMAIN refs[k].members :
           refs[k].members[m] = F(of[k][m]) /\ IsName(o, of[k][m], refs[k].path, m)
    BY <1>2, <1>12, <1>13 DEF IsName, object
  <1>16. \E S : refs \in Seq(S)
    BY <1>12
  <1>19. \A k, l \in DOMAIN refs : \A m \in DOMAIN refs[k].members, n \in DOMAIN refs[l].members :
           of[k][m] = of[l][n] => k = l /\ m = n
    BY <1>12, <1>14
  <1>20. \A k \in DOMAIN refs : refs[k].path \in Paths /\ IsFiniteSet(DOMAIN refs[k].members)
    BY <1>12, <1>13
  <1>21. ASSUME NEW k \in DOMAIN refs, NoMember \in DOMAIN refs[k].members
         PROVE  DOMAIN refs[k].members = {NoMember}
    <2>1. CASE k <= r
      BY <1>12, <1>17, <2>1
    <2>2. CASE ~(k <= r)
      BY <1>12, <1>13, <1>21, <2>2
    <2> QED
      BY <2>1, <2>2
  <1>22. ASSUME NEW i \in used
         PROVE  \E k \in DOMAIN refs : \E m \in DOMAIN refs[k].members : IsName(o, i, refs[k].path, m)
    <2> DEFINE path == object[i].path
               m == object[i].member
    <2>1. PICK j \in DOMAIN order : order[j] = i
      BY <1>3
    <2>2. i \in DOMAIN object /\ IsName(o, i, path, m)
      BY <1>2 DEF IsName, object
    <2>3. CASE inFile(i)
      <3>1. j \in places /\ m = NoMember
        BY <2>1, <2>3
      <3>2. PICK k \in 1 .. r : regular[k] = i
        BY <1>6, <2>1, <3>1
      <3>3. k \in DOMAIN refs /\ refs[k] = reference(i)
        BY <1>12, <3>2
      <3>4. refs[k].path = path /\ m \in DOMAIN refs[k].members
        BY <1>17, <3>1, <3>3
      <3> QED
        BY <2>2, <3>3, <3>4
    <2>4. CASE ~inFile(i)
      <3>1. j \in inArchive(path) /\ path \in paths
        BY <2>1, <2>4
      <3>2. PICK l \in 1 .. c : archives[l] = path
        BY <1>5, <3>1 DEF c
      <3>3. r + l \in DOMAIN refs /\ ~(r + l <= r) /\ (r + l) - r = l
        BY <1>12, <3>2
      <3>4. refs[r + l] = archive(path)
        BY <1>12, <3>2, <3>3
      <3>5. refs[r + l].path = path /\ m \in DOMAIN refs[r + l].members
        BY <1>18, <2>1, <3>1, <3>4
      <3> QED
        BY <2>2, <3>3, <3>5
    <2> QED
      BY <2>3, <2>4
  <1>23. AreNamed(refs, o, located)
    BY <1>21, <1>22 DEF AreNamed
  <1> QED
    BY <1>15, <1>16, <1>19, <1>20, <1>23 DEF AreReferences, F, refs

-----------------------------------------------------------------------------
(* The queue and the objects of the open file                                *)

\* Some lists, of references and of objects to handle, hold an address once.
RefsHoldOnce(refs) ==
  /\ \A k \in DOMAIN refs : \A m \in DOMAIN refs[k].members : HoldsOnce(refs[k].members[m])
  /\ \A k, l \in DOMAIN refs : \A m \in DOMAIN refs[k].members, n \in DOMAIN refs[l].members :
       Held(refs[k].members[m]) \cap Held(refs[l].members[n]) # {} => k = l /\ m = n
HeldByRefs(refs) ==
  UNION {UNION {Held(refs[k].members[m]) : m \in DOMAIN refs[k].members} : k \in DOMAIN refs}

ItemsHoldOnce(items) ==
  /\ \A k \in DOMAIN items : HoldsOnce(items[k].functions)
  /\ \A k, l \in DOMAIN items : k # l => Held(items[k].functions) \cap Held(items[l].functions) = {}
HeldByItems(items) == UNION {Held(items[k].functions) : k \in DOMAIN items}

IsQueue(refs) ==
  /\ \E T : refs \in Seq(T)
  /\ \A k \in DOMAIN refs : refs[k].path \in Paths /\ IsFiniteSet(DOMAIN refs[k].members)

\* The references of an object hold its addresses once, and those that are its own not at all.
LEMMA ReferencesHoldOnce ==
  ASSUME NEW o, IsObject(o), NEW located, ArePairs(located),
         NEW refs, AreReferences(refs, o, located)
  PROVE  /\ IsQueue(refs) /\ RefsHoldOnce(refs) /\ HeldByRefs(refs) \subseteq Original(located)
         /\ HeldByRefs(refs) \cap Original(InternalPairs(o.funs, located)) = {}
  <1>1. IsQueue(refs)
    BY DEF IsQueue, AreReferences
  <1>2. PICK of :
         /\ \A k \in DOMAIN refs : \A m \in DOMAIN refs[k].members :
              refs[k].members[m] = FunctionsOf(o.funs, located, of[k][m])
         /\ \A k, l \in DOMAIN refs : \A m \in DOMAIN refs[k].members, n \in DOMAIN refs[l].members :
              of[k][m] = of[l][n] => k = l /\ m = n
    BY DEF AreReferences
  <1> DEFINE A(i) == Assigned(o, located, i)
  <1>3. /\ \A i : A(i) \subseteq Original(located)
        /\ \A i : A(i) \cap Original(InternalPairs(o.funs, located)) = {}
        /\ \A i, j : i # j => A(i) \cap A(j) = {}
    BY AssignedOnce DEF IsObject
  <1>4. \A k \in DOMAIN refs : \A m \in DOMAIN refs[k].members :
          HoldsOnce(refs[k].members[m]) /\ Held(refs[k].members[m]) \subseteq A(of[k][m])
    <2> TAKE k \in DOMAIN refs
    <2> TAKE m \in DOMAIN refs[k].members
    <2> DEFINE i == of[k][m]
    <2>1. refs[k].members[m] = FunctionsOf(o.funs, located, i)
      BY <1>2
    <2> HIDE DEF i
    <2>2. /\ HoldsOnce(FunctionsOf(o.funs, located, i))
          /\ Held(FunctionsOf(o.funs, located, i)) \subseteq Assigned(o, located, i)
      BY FunctionsHoldOnce
    <2> QED
      BY <2>1, <2>2 DEF i
  <1> HIDE DEF A
  <1>5. ASSUME NEW k \in DOMAIN refs, NEW l \in DOMAIN refs,
               NEW m \in DOMAIN refs[k].members, NEW n \in DOMAIN refs[l].members,
               Held(refs[k].members[m]) \cap Held(refs[l].members[n]) # {}
        PROVE  k = l /\ m = n
    <2>1. A(of[k][m]) \cap A(of[l][n]) # {}
      BY <1>4, <1>5
    <2>2. of[k][m] = of[l][n]
      BY <1>3, <2>1
    <2> QED
      BY <1>2, <2>2
  <1>6. \A a \in HeldByRefs(refs) : \E i : a \in A(i)
    BY <1>4 DEF HeldByRefs
  <1> QED
    BY <1>1, <1>3, <1>4, <1>5, <1>6 DEF RefsHoldOnce

\* A queue behind another.
LEMMA QueuesJoin ==
  ASSUME NEW q, NEW r, IsQueue(q), IsQueue(r)
  PROVE  /\ IsQueue(q \o r) /\ Len(q) \in Nat /\ DOMAIN (q \o r) \subseteq Nat
         /\ \A k \in DOMAIN (q \o r) :
              \/ k \in DOMAIN q /\ (q \o r)[k] = q[k] /\ k <= Len(q)
              \/ k - Len(q) \in DOMAIN r /\ (q \o r)[k] = r[k - Len(q)] /\ ~(k <= Len(q))
         /\ HeldByRefs(q \o r) = HeldByRefs(q) \cup HeldByRefs(r)
  <1> DEFINE j == q \o r
             a == Len(q)
             b == Len(r)
  <1>1. PICK T : q \in Seq(T)
    BY DEF IsQueue
  <1>2. PICK U : r \in Seq(U)
    BY DEF IsQueue
  <1> DEFINE V == T \cup U
  <1>3. q \in Seq(V) /\ r \in Seq(V)
    BY <1>1, <1>2
  <1> HIDE DEF V
  <1>4. /\ j \in Seq(V) /\ a \in Nat /\ b \in Nat
        /\ DOMAIN j = 1 .. a + b /\ DOMAIN q = 1 .. a /\ DOMAIN r = 1 .. b
        /\ \A k \in 1 .. a : j[k] = q[k]
        /\ \A k \in 1 .. a + b : ~(k <= a) => k - a \in 1 .. b /\ j[k] = r[k - a]
    <2>1. /\ q \o r \in Seq(V) /\ Len(q) \in Nat /\ Len(r) \in Nat /\ Len(q \o r) = Len(q) + Len(r)
          /\ \A k \in 1 .. Len(q) : (q \o r)[k] = q[k]
          /\ \A k \in 1 .. Len(q) + Len(r) :
               ~(k <= Len(q)) => k - Len(q) \in 1 .. Len(r) /\ (q \o r)[k] = r[k - Len(q)]
      BY <1>3, ListsJoin
    <2>2. DOMAIN j = 1 .. a + b /\ DOMAIN q = 1 .. a /\ DOMAIN r = 1 .. b
      BY <1>3, <2>1, ListIsFunction
    <2> QED
      BY <2>1, <2>2
  <1> HIDE DEF j, a, b
  <1>5. \A k \in DOMAIN j : \/ k \in DOMAIN q /\ j[k] = q[k] /\ k <= a
                            \/ k - a \in DOMAIN r /\ j[k] = r[k - a] /\ ~(k <= a)
    BY <1>4
  <1>6. IsQueue(j)
    BY <1>4, <1>5 DEF IsQueue
  <1>7. HeldByRefs(j) \subseteq HeldByRefs(q) \cup HeldByRefs(r)
    BY <1>5 DEF HeldByRefs
  <1>8. \A k \in DOMAIN q : k \in DOMAIN j /\ j[k] = q[k]
    BY <1>4
  <1>9. \A k \in DOMAIN r : k + a \in DOMAIN j /\ j[k + a] = r[k]
    <2> TAKE k \in DOMAIN r
    <2>1. k + a \in 1 .. a + b /\ ~(k + a <= a) /\ (k + a) - a = k
      BY <1>4
    <2> QED
      BY <1>4, <2>1
  <1>10. HeldByRefs(q) \subseteq HeldByRefs(j)
    BY <1>8 DEF HeldByRefs
  <1>11. HeldByRefs(r) \subseteq HeldByRefs(j)
    <2> SUFFICES ASSUME NEW x \in HeldByRefs(r) PROVE x \in HeldByRefs(j)
      OBVIOUS
    <2>1. PICK k \in DOMAIN r : \E m \in DOMAIN r[k].members : x \in Held(r[k].members[m])
      BY DEF HeldByRefs
    <2> DEFINE l == k + a
    <2>2. l \in DOMAIN j /\ j[l] = r[k]
      BY <1>9
    <2> HIDE DEF l
    <2> QED
      BY <2>1, <2>2 DEF HeldByRefs
  <1> QED
    BY <1>4, <1>5, <1>6, <1>7, <1>10, <1>11 DEF j, a

LEMMA QueueGrows ==
  ASSUME NEW q, NEW r, IsQueue(q), IsQueue(r), RefsHoldOnce(q), RefsHoldOnce(r),
         HeldByRefs(q) \cap HeldByRefs(r) = {}
  PROVE  RefsHoldOnce(q \o r)
  <1> DEFINE j == q \o r
             a == Len(q)
  <1>4. a \in Nat /\ DOMAIN j \subseteq Nat
    BY QueuesJoin
  <1>5. \A k \in DOMAIN j : \/ k \in DOMAIN q /\ j[k] = q[k] /\ k <= a
                            \/ k - a \in DOMAIN r /\ j[k] = r[k - a] /\ ~(k <= a)
    BY QueuesJoin
  <1> HIDE DEF j, a
  <1>8. \A k \in DOMAIN j : \A m \in DOMAIN j[k].members : HoldsOnce(j[k].members[m])
    BY <1>5 DEF RefsHoldOnce
  <1>9. ASSUME NEW k \in DOMAIN j, NEW l \in DOMAIN j,
               NEW m \in DOMAIN j[k].members, NEW n \in DOMAIN j[l].members,
               NEW x \in Held(j[k].members[m]), x \in Held(j[l].members[n])
        PROVE  k = l /\ m = n
    <2>1. \A i \in DOMAIN q : \A p \in DOMAIN q[i].members : x \in Held(q[i].members[p]) => x \in HeldByRefs(q)
      BY DEF HeldByRefs
    <2>2. \A i \in DOMAIN r : \A p \in DOMAIN r[i].members : x \in Held(r[i].members[p]) => x \in HeldByRefs(r)
      BY DEF HeldByRefs
    <2>3. CASE k <= a /\ l <= a
      <3>1. k \in DOMAIN q /\ l \in DOMAIN q /\ j[k] = q[k] /\ j[l] = q[l]
        BY <1>5, <2>3
      <3> QED
        BY <1>9, <3>1 DEF RefsHoldOnce
    <2>4. CASE ~(k <= a) /\ ~(l <= a)
      <3>1. k - a \in DOMAIN r /\ l - a \in DOMAIN r /\ j[k] = r[k - a] /\ j[l] = r[l - a]
        BY <1>5, <2>4
      <3>2. k - a = l - a /\ m = n
        BY <1>9, <3>1 DEF RefsHoldOnce
      <3> QED
        BY <1>4, <3>2
    <2>5. ~(k <= a /\ ~(l <= a)) /\ ~(~(k <= a) /\ l <= a)
      BY <1>5, <1>9, <2>1, <2>2
    <2> QED
      BY <2>3, <2>4, <2>5
  <1>10. ASSUME NEW k \in DOMAIN j, NEW l \in DOMAIN j,
                NEW m \in DOMAIN j[k].members, NEW n \in DOMAIN j[l].members,
                Held(j[k].members[m]) \cap Held(j[l].members[n]) # {}
         PROVE  k = l /\ m = n
    BY <1>9, <1>10
  <1>11. RefsHoldOnce(j)
    BY <1>8, <1>10 DEF RefsHoldOnce
  <1> QED
    BY <1>11 DEF j

LEMMA QueueShrinks ==
  ASSUME NEW q, IsQueue(q), RefsHoldOnce(q), q # << >>
  PROVE  /\ 1 \in DOMAIN q /\ IsQueue(Tail(q)) /\ RefsHoldOnce(Tail(q))
         /\ \A k \in DOMAIN Tail(q) : \E l \in DOMAIN q : Tail(q)[k] = q[l]
         /\ HeldByRefs(Tail(q)) \subseteq HeldByRefs(q)
         /\ \A a \in HeldByRefs(q) :
              a \in HeldByRefs(Tail(q)) \/ \E m \in DOMAIN q[1].members : a \in Held(q[1].members[m])
         /\ \A m \in DOMAIN q[1].members :
              /\ Held(q[1].members[m]) \subseteq HeldByRefs(q)
              /\ Held(q[1].members[m]) \cap HeldByRefs(Tail(q)) = {}
  <1> DEFINE t == Tail(q)
  <1>1. PICK T : q \in Seq(T)
    BY DEF IsQueue
  <1>2. /\ t \in Seq(T) /\ 1 \in DOMAIN q /\ DOMAIN q \subseteq Int
        /\ \A k \in DOMAIN t : k + 1 \in DOMAIN q /\ t[k] = q[k + 1] /\ k + 1 # 1 /\ k \in Int
        /\ \A k \in DOMAIN q : k # 1 => k - 1 \in DOMAIN t /\ t[k - 1] = q[k]
    BY <1>1
  <1> HIDE DEF t
  <1>3. IsQueue(t)
    BY <1>2 DEF IsQueue
  <1>4. HeldByRefs(t) \subseteq HeldByRefs(q)
    BY <1>2 DEF HeldByRefs
  <1>5. RefsHoldOnce(t)
    <2>1. \A k \in DOMAIN t : \A m \in DOMAIN t[k].members : HoldsOnce(t[k].members[m])
      BY <1>2 DEF RefsHoldOnce
    <2>2. ASSUME NEW k \in DOMAIN t, NEW l \in DOMAIN t,
                 NEW m \in DOMAIN t[k].members, NEW n \in DOMAIN t[l].members,
                 Held(t[k].members[m]) \cap Held(t[l].members[n]) # {}
          PROVE  k = l /\ m = n
      <3>1. /\ k + 1 \in DOMAIN q /\ t[k] = q[k + 1] /\ l + 1 \in DOMAIN q /\ t[l] = q[l + 1]
            /\ k \in Int /\ l \in Int
        BY <1>2
      <3> DEFINE i == k + 1
                 j == l + 1
      <3>2. /\ i \in DOMAIN q /\ j \in DOMAIN q
            /\ m \in DOMAIN q[i].members /\ n \in DOMAIN q[j].members
            /\ Held(q[i].members[m]) \cap Held(q[j].members[n]) # {}
        BY <2>2, <3>1
      <3> HIDE DEF i, j
      <3>3. i = j /\ m = n
        BY <3>2 DEF RefsHoldOnce
      <3> QED
        BY <3>1, <3>3 DEF i, j
    <2> QED
      BY <2>1, <2>2 DEF RefsHoldOnce
  <1>6. ASSUME NEW m \in DOMAIN q[1].members
        PROVE  /\ Held(q[1].members[m]) \subseteq HeldByRefs(q)
               /\ Held(q[1].members[m]) \cap HeldByRefs(t) = {}
    <2>1. Held(q[1].members[m]) \subseteq HeldByRefs(q)
      BY <1>2 DEF HeldByRefs
    <2>2. ASSUME NEW a \in Held(q[1].members[m]), a \in HeldByRefs(t) PROVE FALSE
      <3>1. PICK k \in DOMAIN t : \E n \in DOMAIN t[k].members : a \in Held(t[k].members[n])
        BY <2>2 DEF HeldByRefs
      <3>2. PICK n \in DOMAIN t[k].members : a \in Held(t[k].members[n])
        BY <3>1
      <3>3. k + 1 \in DOMAIN q /\ n \in DOMAIN q[k + 1].members /\ a \in Held(q[k + 1].members[n])
        BY <1>2, <3>2
      <3>4. k + 1 = 1
        BY <1>2, <3>3 DEF RefsHoldOnce
      <3> QED
        BY <1>2, <3>4
    <2> QED
      BY <2>1, <2>2
  <1>7. ASSUME NEW a \in HeldByRefs(q), a \notin HeldByRefs(t)
        PROVE  \E m \in DOMAIN q[1].members : a \in Held(q[1].members[m])
    <2>1. PICK k \in DOMAIN q : \E m \in DOMAIN q[k].members : a \in Held(q[k].members[m])
      BY DEF HeldByRefs
    <2> DEFINE l == k - 1
    <2>2. k # 1 => l \in DOMAIN t /\ t[l] = q[k]
      BY <1>2
    <2> HIDE DEF l
    <2> QED
      BY <1>7, <2>1, <2>2 DEF HeldByRefs
  <1> QED
    BY <1>2, <1>3, <1>4, <1>5, <1>6, <1>7 DEF t

LEMMA ItemsShrink ==
  ASSUME NEW T, NEW items \in Seq(T), items # << >>, ItemsHoldOnce(items)
  PROVE  /\ 1 \in DOMAIN items /\ Tail(items) \in Seq(T) /\ ItemsHoldOnce(Tail(items))
         /\ \A k \in DOMAIN Tail(items) : \E l \in DOMAIN items : Tail(items)[k] = items[l]
         /\ HeldByItems(items) = Held(items[1].functions) \cup HeldByItems(Tail(items))
         /\ Held(items[1].functions) \cap HeldByItems(Tail(items)) = {}
  <1> DEFINE t == Tail(items)
  <1>1. /\ t \in Seq(T) /\ 1 \in DOMAIN items
        /\ \A k \in DOMAIN t : k + 1 \in DOMAIN items /\ t[k] = items[k + 1] /\ k + 1 # 1 /\ k \in Int
        /\ \A k \in DOMAIN items : k # 1 => k - 1 \in DOMAIN t /\ t[k - 1] = items[k]
    OBVIOUS
  <1> HIDE DEF t
  <1>2. ItemsHoldOnce(t)
    <2>1. \A k \in DOMAIN t : HoldsOnce(t[k].functions)
      BY <1>1 DEF ItemsHoldOnce
    <2>2. ASSUME NEW k \in DOMAIN t, NEW l \in DOMAIN t, k # l
          PROVE  Held(t[k].functions) \cap Held(t[l].functions) = {}
      <3>1. k + 1 # l + 1
        BY <1>1, <2>2
      <3> QED
        BY <1>1, <3>1 DEF ItemsHoldOnce
    <2> QED
      BY <2>1, <2>2 DEF ItemsHoldOnce
  <1>3. HeldByItems(t) \subseteq HeldByItems(items) /\ Held(items[1].functions) \subseteq HeldByItems(items)
    BY <1>1 DEF HeldByItems
  <1>4. Held(items[1].functions) \cap HeldByItems(t) = {}
    <2>1. \A k \in DOMAIN t : Held(items[1].functions) \cap Held(t[k].functions) = {}
      BY <1>1 DEF ItemsHoldOnce
    <2> QED
      BY <2>1 DEF HeldByItems
  <1>5. \A a \in HeldByItems(items) : a \in Held(items[1].functions) \cup HeldByItems(t)
    <2> TAKE a \in HeldByItems(items)
    <2>1. PICK k \in DOMAIN items : a \in Held(items[k].functions)
      BY DEF HeldByItems
    <2> DEFINE l == k - 1
    <2>2. k # 1 => l \in DOMAIN t /\ t[l] = items[k]
      BY <1>1
    <2> HIDE DEF l
    <2> QED
      BY <2>1, <2>2 DEF HeldByItems
  <1> QED
    BY <1>1, <1>2, <1>3, <1>4, <1>5 DEF t

-----------------------------------------------------------------------------
(* Every step                                                                *)

AreItems(items) == (\E T : items \in Seq(T)) /\ \A k \in DOMAIN items : IsFile(items[k].file)

\* Every list holds an address once, an address is in one of the two lists, and it has no debug
\* info yet.
OneWayInv ==
  /\ root \in Roots /\ fs \in FileSystems
  /\ IsQueue(queue) /\ RefsHoldOnce(queue)
  /\ AreItems(pending) /\ ItemsHoldOnce(pending)
  /\ HeldByRefs(queue) \cap HeldByItems(pending) = {}
  /\ \A a \in Addresses : a \in HeldByRefs(queue) \cup HeldByItems(pending) => info[a] = NoInfo
  /\ status = "start" => queue = << >> /\ pending = << >> /\ \A a \in Addresses : info[a] = NoInfo

LEMMA NothingHeld ==
  /\ IsQueue(<< >>) /\ RefsHoldOnce(<< >>) /\ HeldByRefs(<< >>) = {}
  /\ AreItems(<< >>) /\ ItemsHoldOnce(<< >>) /\ HeldByItems(<< >>) = {}
  <1>1. DOMAIN << >> = {} /\ << >> \in Seq({})
    OBVIOUS
  <1> QED
    BY <1>1 DEF IsQueue, RefsHoldOnce, HeldByRefs, AreItems, ItemsHoldOnce, HeldByItems

\* What an object collects: its own addresses get their debug info, and the others go on.
LEMMA CollectedOnce ==
  ASSUME NEW o, IsObject(o), NEW located, ArePairs(located),
         NEW rest, IsQueue(rest), RefsHoldOnce(rest), NEW others,
         CollectDebugInfo(o, located), CollectReferences(o, located, rest),
         HeldByRefs(rest) \cap Original(located) = {}, others \cap Original(located) = {},
         HeldByRefs(rest) \cap others = {},
         \A a \in Addresses :
           a \in HeldByRefs(rest) \cup others \cup Original(located) => info[a] = NoInfo
  PROVE  /\ IsQueue(queue') /\ RefsHoldOnce(queue') /\ HeldByRefs(queue') \cap others = {}
         /\ \A a \in Addresses : a \in HeldByRefs(queue') \cup others => info'[a] = NoInfo
  <1> DEFINE own == Original(InternalPairs(o.funs, located))
             all == Original(located)
  <1>1. PICK refs : queue' = rest \o refs /\ AreReferences(refs, o, located)
    BY ReferencesAre DEF CollectReferences
  <1>2. /\ IsQueue(refs) /\ RefsHoldOnce(refs) /\ HeldByRefs(refs) \subseteq all
        /\ HeldByRefs(refs) \cap own = {}
    BY <1>1, ReferencesHoldOnce
  <1>3. own \subseteq all
    BY DEF InternalPairs, Original
  <1>4. \A a \in Addresses : a \notin own => info'[a] = info[a]
    <2> DEFINE found == {p \in InternalPairs(o.funs, located) : p.vmaddr_in_this_object \in o.debug}
    <2>1. Original(found) \subseteq own
      BY DEF Original
    <2>2. \A a \in Addresses : a \notin Original(found) => info'[a] = info[a]
      BY DEF CollectDebugInfo
    <2> QED
      BY <2>1, <2>2
  <1> HIDE DEF own, all
  <1>5. /\ HeldByRefs(rest) \cap all = {} /\ others \cap all = {}
        /\ \A a \in Addresses : a \in HeldByRefs(rest) \cup others \cup all => info[a] = NoInfo
    BY DEF all
  <1>6. HeldByRefs(rest) \cap HeldByRefs(refs) = {}
    BY <1>2, <1>5
  <1>7. /\ IsQueue(queue') /\ RefsHoldOnce(queue')
        /\ HeldByRefs(queue') \subseteq HeldByRefs(rest) \cup HeldByRefs(refs)
    BY <1>1, <1>2, <1>6, QueueGrows, QueuesJoin
  <1>8. HeldByRefs(queue') \cap others = {}
    BY <1>2, <1>5, <1>7
  <1>9. ASSUME NEW a \in Addresses, a \in HeldByRefs(queue') \cup others PROVE info'[a] = NoInfo
    <2>1. a \notin own
      BY <1>2, <1>3, <1>5, <1>7, <1>9
    <2>2. info[a] = NoInfo
      BY <1>2, <1>5, <1>7, <1>9
    <2> QED
      BY <1>4, <2>1, <2>2
  <1> QED
    BY <1>7, <1>8, <1>9

\* A traversal that has ended looks for nothing any more.
LEMMA EndedKeeps ==
  ASSUME OneWayInv, NEW outcome, outcome # "start", EndWith(outcome), UNCHANGED <<root, fs>>
  PROVE  OneWayInv'
  <1>1. status' = outcome /\ queue' = << >> /\ pending' = << >> /\ root \in Roots /\ fs \in FileSystems
    BY DEF EndWith, OneWayInv
  <1> QED
    BY <1>1, NothingHeld DEF OneWayInv

LEMMA RootKeeps ==
  ASSUME OneWayInv, CollectRoot, ~Panics(root, {Pair(a, ImageBase + a) : a \in Addresses})
  PROVE  OneWayInv'
  <1> DEFINE located == {Pair(a, ImageBase + a) : a \in Addresses}
  <1>1. /\ status = "start" /\ status' = "running" /\ UNCHANGED <<root, fs>> /\ pending' = << >>
        /\ CollectDebugInfo(root, located) /\ CollectReferences(root, located, << >>)
    BY DEF CollectRoot, Collect
  <1>2. ArePairs(located)
    BY DEF ArePairs, Pair
  <1> HIDE DEF located
  <1>3. /\ root \in Roots /\ fs \in FileSystems /\ pending = << >>
        /\ \A a \in Addresses : info[a] = NoInfo
    BY <1>1 DEF OneWayInv
  <1>4. IsObject(root)
    BY <1>3, TraversalAssumption
  <1>5. /\ IsQueue(queue') /\ RefsHoldOnce(queue') /\ HeldByRefs(queue') \cap {} = {}
        /\ \A a \in Addresses : a \in HeldByRefs(queue') \cup {} => info'[a] = NoInfo
    <2> DEFINE none == {}
    <2>1. /\ HeldByRefs(<< >>) \cap Original(located) = {} /\ none \cap Original(located) = {}
          /\ HeldByRefs(<< >>) \cap none = {}
      BY NothingHeld
    <2> HIDE DEF none
    <2>2. /\ IsQueue(queue') /\ RefsHoldOnce(queue') /\ HeldByRefs(queue') \cap none = {}
          /\ \A a \in Addresses : a \in HeldByRefs(queue') \cup none => info'[a] = NoInfo
      BY <1>1, <1>2, <1>3, <1>4, <2>1, NothingHeld, CollectedOnce
    <2> QED
      BY <2>2 DEF none
  <1>6. pending' = << >>
    BY <1>1, <1>3
  <1>7. AreItems(pending') /\ ItemsHoldOnce(pending') /\ HeldByItems(pending') = {}
    BY <1>6, NothingHeld
  <1> QED
    BY <1>1, <1>3, <1>5, <1>7 DEF OneWayInv

LEMMA HandleKeeps ==
  ASSUME OneWayInv, HandleObject, ~EndWith("err"), ~EndWith("panic")
  PROVE  OneWayInv'
  <1> DEFINE item == pending[1]
             o == item.file.object
             located == TranslateAddresses(o, item.functions)
             others == HeldByItems(Tail(pending))
  <1>1. /\ root \in Roots /\ fs \in FileSystems /\ IsQueue(queue) /\ RefsHoldOnce(queue)
        /\ AreItems(pending) /\ ItemsHoldOnce(pending)
        /\ HeldByRefs(queue) \cap HeldByItems(pending) = {}
        /\ \A a \in Addresses : a \in HeldByRefs(queue) \cup HeldByItems(pending) => info[a] = NoInfo
    BY DEF OneWayInv
  <1>2. status = "running" /\ pending # << >> /\ UNCHANGED <<root, fs>>
    BY DEF HandleObject
  <1>3. PICK T : pending \in Seq(T)
    BY <1>1 DEF AreItems
  <1>4. /\ 1 \in DOMAIN pending /\ Tail(pending) \in Seq(T) /\ ItemsHoldOnce(Tail(pending))
        /\ \A k \in DOMAIN Tail(pending) : \E l \in DOMAIN pending : Tail(pending)[k] = pending[l]
        /\ others \subseteq HeldByItems(pending)
        /\ Held(item.functions) \subseteq HeldByItems(pending)
        /\ Held(item.functions) \cap others = {}
    BY <1>1, <1>2, <1>3, ItemsShrink
  <1>5. Parses(item.file)
    BY DEF HandleObject
  <1>6. OneWayInv'
    <2>1. /\ CollectDebugInfo(o, located) /\ CollectReferences(o, located, queue)
          /\ pending' = Tail(pending) /\ status' = "running"
      BY <1>5 DEF HandleObject, Collect
    <2>2. IsObject(o)
      BY <1>1, <1>4, <1>5 DEF AreItems, IsFile, Parses
    <2>3. HoldsOnce(item.functions)
      BY <1>1, <1>4 DEF ItemsHoldOnce
    <2>4. ArePairs(located) /\ Original(located) \subseteq Held(item.functions)
      BY <2>3, TranslatedArePairs
    <2> HIDE DEF located, o, item, others
    <2>5. /\ HeldByRefs(queue) \cap Original(located) = {} /\ others \cap Original(located) = {}
          /\ HeldByRefs(queue) \cap others = {}
          /\ \A a \in Addresses :
               a \in HeldByRefs(queue) \cup others \cup Original(located) => info[a] = NoInfo
      BY <1>1, <1>4, <2>4
    <2>6. /\ IsQueue(queue') /\ RefsHoldOnce(queue') /\ HeldByRefs(queue') \cap others = {}
          /\ \A a \in Addresses : a \in HeldByRefs(queue') \cup others => info'[a] = NoInfo
      BY <1>1, <2>1, <2>2, <2>4, <2>5, CollectedOnce
    <2>7. AreItems(pending') /\ ItemsHoldOnce(pending') /\ HeldByItems(pending') = others
      BY <1>1, <1>4, <2>1 DEF AreItems, others
    <2>8. status' # "start"
      BY <1>2, <2>1
    <2> QED
      BY <1>1, <1>2, <2>6, <2>7, <2>8 DEF OneWayInv
  <1> QED
    BY <1>6

\* A file that is opened gets what its reference held.
LEMMA OpenKeeps ==
  ASSUME OneWayInv, CanOpen, queue' = Tail(queue), UNCHANGED <<root, fs, info, status>>,
         AreItems(pending'), ItemsHoldOnce(pending'),
         \A a \in HeldByItems(pending') : \E m \in DOMAIN queue[1].members : a \in Held(queue[1].members[m])
  PROVE  OneWayInv'
  <1> DEFINE tail == Tail(queue)
             items == pending'
  <1>1. /\ root \in Roots /\ fs \in FileSystems /\ IsQueue(queue) /\ RefsHoldOnce(queue)
        /\ \A a \in Addresses : a \in HeldByRefs(queue) => info[a] = NoInfo
    BY DEF OneWayInv
  <1>2. queue # << >> /\ status = "running"
    BY DEF CanOpen
  <1>3. /\ IsQueue(tail) /\ RefsHoldOnce(tail) /\ HeldByRefs(tail) \subseteq HeldByRefs(queue)
        /\ \A m \in DOMAIN queue[1].members :
             /\ Held(queue[1].members[m]) \subseteq HeldByRefs(queue)
             /\ Held(queue[1].members[m]) \cap HeldByRefs(tail) = {}
    BY <1>1, <1>2, QueueShrinks
  <1>4. HeldByItems(items) \subseteq HeldByRefs(queue) /\ HeldByRefs(tail) \cap HeldByItems(items) = {}
    BY <1>3
  <1> QED
    BY <1>1, <1>2, <1>3, <1>4 DEF OneWayInv

LEMMA OpenObjectKeeps ==
  ASSUME OneWayInv, OpenObject
  PROVE  OneWayInv'
  <1> DEFINE functions == queue[1].members[NoMember]
             item == [file |-> fs[queue[1].path], functions |-> functions]
  <1>1. /\ CanOpen /\ NoMember \in DOMAIN queue[1].members /\ queue # << >>
        /\ pending' = <<item>> /\ queue' = Tail(queue) /\ UNCHANGED <<root, fs, info, status>>
    BY DEF OpenObject, NextReference, IsRegular, CanOpen
  <1>2. fs \in FileSystems /\ IsQueue(queue) /\ RefsHoldOnce(queue)
    BY DEF OneWayInv
  <1>3. 1 \in DOMAIN queue
    BY <1>1, <1>2, QueueShrinks
  <1>4. IsFile(item.file) /\ HoldsOnce(functions) /\ item.functions = functions
    <2>1. queue[1].path \in Paths
      BY <1>2, <1>3 DEF IsQueue
    <2>2. IsFile(fs[queue[1].path])
      BY <1>2, <2>1, TraversalAssumption
    <2>3. HoldsOnce(functions)
      BY <1>1, <1>2, <1>3 DEF RefsHoldOnce
    <2> QED
      BY <2>2, <2>3
  <1> HIDE DEF item, functions
  <1>5. /\ <<item>> \in Seq({item}) /\ DOMAIN <<item>> = {1} /\ <<item>>[1] = item
    <2>1. 1 .. 1 = {1}
      OBVIOUS
    <2> QED
      BY <2>1
  <1>6. AreItems(<<item>>) /\ ItemsHoldOnce(<<item>>) /\ HeldByItems(<<item>>) = Held(functions)
    BY <1>4, <1>5 DEF AreItems, ItemsHoldOnce, HeldByItems
  <1>7. \A a \in HeldByItems(pending') :
          \E m \in DOMAIN queue[1].members : a \in Held(queue[1].members[m])
    BY <1>1, <1>6 DEF functions
  <1> QED
    BY <1>1, <1>6, <1>7, OpenKeeps

LEMMA OpenArchiveKeeps ==
  ASSUME OneWayInv, OpenArchive
  PROVE  OneWayInv'
  <1> DEFINE archive == fs[queue[1].path]
             members == queue[1].members
             objects == OpenArchiveMembers(archive, members)
  <1>1. CanOpen /\ queue # << >> /\ status = "running" /\ UNCHANGED <<root, fs>>
    BY DEF OpenArchive, CanOpen
  <1>2. root \in Roots /\ fs \in FileSystems /\ IsQueue(queue) /\ RefsHoldOnce(queue)
    BY DEF OneWayInv
  <1>3. CASE EndWith("err")
    BY <1>1, <1>3, EndedKeeps
  <1>4. CASE /\ archive.kind = "archive" /\ pending' \in SetToSeqs(objects)
             /\ queue' = Tail(queue) /\ UNCHANGED <<info, status>>
    <2>1. 1 \in DOMAIN queue
      BY <1>1, <1>2, QueueShrinks
    <2>2. IsFiniteSet(DOMAIN members) /\ IsFile(archive)
      <3>1. queue[1].path \in Paths /\ IsFiniteSet(DOMAIN members)
        BY <1>2, <2>1 DEF IsQueue
      <3> QED
        BY <1>2, <3>1, TraversalAssumption
    <2> DEFINE there == {n \in DOMAIN members : LastMember(archive, n) # 0}
               object(m) == [file |-> [kind |-> "object",
                                       object |-> archive.members[LastMember(archive, m)].object],
                             functions |-> members[m]]
               f == [m \in there |-> object(m)]
    <2>3. objects = {f[m] : m \in there} /\ \A m \in there : f[m] = object(m)
      BY DEF OpenArchiveMembers
    <2>4. \A m \in there : IsFile(f[m].file) /\ f[m].functions = members[m]
      <3> TAKE m \in there
      <3> DEFINE named == {k \in DOMAIN archive.members : archive.members[k].name = m}
                 n == Len(archive.members)
      <3>1. n \in Nat /\ DOMAIN archive.members = 1 .. n
        BY <1>4, <2>2 DEF IsFile
      <3>2. named # {} /\ LastMember(archive, m) = Max(named) /\ named \subseteq 1 .. n
        BY <3>1 DEF LastMember
      <3> HIDE DEF named, n
      <3>3. Max(named) \in named
        BY <3>1, <3>2, MaxOfPlaces
      <3>4. LastMember(archive, m) \in DOMAIN archive.members
        BY <3>2, <3>3 DEF named
      <3>5. IsObject(archive.members[LastMember(archive, m)].object)
        BY <1>4, <2>2, <3>4 DEF IsFile
      <3>6. IsFile(object(m).file)
        BY <3>5 DEF IsFile, FileKinds
      <3> QED
        BY <2>3, <3>6
    <2>5. \A m, n \in DOMAIN members :
            /\ HoldsOnce(members[m])
            /\ m # n => Held(members[m]) \cap Held(members[n]) = {}
      BY <1>2, <2>1 DEF RefsHoldOnce
    <2> HIDE DEF object, f
    <2>6. IsFiniteSet(objects)
      <3>1. IsFiniteSet(there)
        BY <2>2, FS_Subset
      <3> HIDE DEF there
      <3>2. IsFiniteSet({f[m] : m \in there})
        BY <3>1, FiniteImage
      <3> QED
        BY <2>3, <3>2
    <2> HIDE DEF objects
    <2>7. /\ pending' \in Seq(objects) /\ \A k \in DOMAIN pending' : pending'[k] \in objects
          /\ \A k, l \in DOMAIN pending' : k # l => pending'[k] # pending'[l]
      BY <1>4, <2>6, ListOfSet
    <2>8. \A k \in DOMAIN pending' : \E m \in there : pending'[k] = f[m]
      BY <2>3, <2>7
    <2>9. AreItems(pending')
      BY <2>4, <2>7, <2>8 DEF AreItems
    <2>10. ItemsHoldOnce(pending')
      <3>1. \A k \in DOMAIN pending' : HoldsOnce(pending'[k].functions)
        BY <2>4, <2>5, <2>8
      <3>2. ASSUME NEW k \in DOMAIN pending', NEW l \in DOMAIN pending', k # l
            PROVE  Held(pending'[k].functions) \cap Held(pending'[l].functions) = {}
        <4>1. PICK m \in there : pending'[k] = f[m]
          BY <2>8
        <4>2. PICK n \in there : pending'[l] = f[n]
          BY <2>8
        <4>3. m # n
          BY <2>7, <3>2, <4>1, <4>2
        <4> QED
          BY <2>4, <2>5, <4>1, <4>2, <4>3
      <3> QED
        BY <3>1, <3>2 DEF ItemsHoldOnce
    <2>11. \A a \in HeldByItems(pending') : \E m \in DOMAIN members : a \in Held(members[m])
      <3> TAKE a \in HeldByItems(pending')
      <3>1. PICK k \in DOMAIN pending' : a \in Held(pending'[k].functions)
        BY DEF HeldByItems
      <3> QED
        BY <2>4, <2>8, <3>1
    <2> QED
      BY <1>1, <1>4, <2>9, <2>10, <2>11, OpenKeeps
  <1> QED
    BY <1>3, <1>4 DEF OpenArchive, NextReference

LEMMA OneWayInvHolds == TraversalSpec => []OneWayInv
  <1>1. TraversalInit => OneWayInv
    BY NothingHeld DEF TraversalInit, OneWayInv
  <1>2. OneWayInv /\ [TraversalNext]_traversalVars => OneWayInv'
    <2> SUFFICES ASSUME OneWayInv, [TraversalNext]_traversalVars PROVE OneWayInv'
      OBVIOUS
    <2>0. CASE EndWith("err") \/ EndWith("panic")
      <3>1. UNCHANGED <<root, fs>>
        BY DEF TraversalNext, TraversalStep, TraversalTerminated, traversalVars, CollectRoot,
               SkipMissing, OpenObject, OpenArchive, HandleObject, ReturnInfo
      <3> QED
        BY <2>0, <3>1, EndedKeeps
    <2>1. CASE CollectRoot
      BY <2>0, <2>1, RootKeeps DEF CollectRoot, Collect
    <2>2. CASE SkipMissing
      <3>1. /\ CanOpen /\ queue' = Tail(queue) /\ pending = << >>
            /\ UNCHANGED <<root, fs, pending, info, status>>
        BY <2>2 DEF SkipMissing, CanOpen
      <3>2. AreItems(pending') /\ ItemsHoldOnce(pending') /\ HeldByItems(pending') = {}
        BY <3>1, NothingHeld
      <3> QED
        BY <3>1, <3>2, OpenKeeps
    <2>3. CASE OpenObject
      BY <2>3, OpenObjectKeeps
    <2>4. CASE OpenArchive
      BY <2>4, OpenArchiveKeeps
    <2>5. CASE HandleObject
      BY <2>0, <2>5, HandleKeeps
    <2>6. CASE ReturnInfo
      BY <2>6 DEF ReturnInfo, OneWayInv
    <2>7. CASE UNCHANGED traversalVars
      BY <2>7 DEF traversalVars, OneWayInv
    <2> QED
      BY <2>1, <2>2, <2>3, <2>4, <2>5, <2>6, <2>7 DEF TraversalNext, TraversalStep, TraversalTerminated
  <1> QED
    BY <1>1, <1>2, PTL DEF TraversalSpec

\* A set whose elements are equal has one at most.
LEMMA OneAtMost ==
  ASSUME NEW S, \A x, y \in S : x = y
  PROVE  Cardinality(S) \in {0, 1} /\ (Cardinality(S) = 0 <=> S = {})
  <1>1. CASE S = {}
    BY <1>1, FS_EmptySet
  <1>2. CASE S # {}
    <2>1. PICK x \in S : S = {x}
      BY <1>2
    <2> QED
      BY <2>1, FS_Singleton
  <1> QED
    BY <1>1, <1>2

\* For every file system and in whatever order references are followed, an address that a query
\* looks up is on its way to one object at most, and to none once its debug info was found.
THEOREM AddressesAreFollowedOnce == TraversalSpec => []AddressesTakeOneWay
  <1>1. OneWayInv => AddressesTakeOneWay
    <2> SUFFICES ASSUME OneWayInv, NEW a \in Addresses
                 PROVE  Cardinality(InQueue(a)) + Cardinality(InPending(a))
                          <= IF info[a] = NoInfo THEN 1 ELSE 0
      BY DEF AddressesTakeOneWay
    <2>1. /\ RefsHoldOnce(queue) /\ ItemsHoldOnce(pending)
          /\ HeldByRefs(queue) \cap HeldByItems(pending) = {}
          /\ a \in HeldByRefs(queue) \cup HeldByItems(pending) => info[a] = NoInfo
      BY DEF OneWayInv
    <2>2. \A functions : \A n \in IsHeldBy(functions, a) : n \in DOMAIN functions /\ a \in Held(functions)
      BY DEF IsHeldBy, Held, Original
    <2>3. \A functions : HoldsOnce(functions) => \A m, n \in IsHeldBy(functions, a) : m = n
      BY DEF IsHeldBy, HoldsOnce
    <2>4. \A w \in InQueue(a) : \E k \in DOMAIN queue : \E m \in DOMAIN queue[k].members :
            \E n \in IsHeldBy(queue[k].members[m], a) : w = <<k, m, n>>
      BY DEF InQueue
    <2>5. \A w \in InPending(a) : \E k \in DOMAIN pending :
            \E n \in IsHeldBy(pending[k].functions, a) : w = <<k, n>>
      BY DEF InPending
    <2>6. ASSUME NEW v \in InQueue(a), NEW w \in InQueue(a) PROVE v = w /\ a \in HeldByRefs(queue)
      <3>1. PICK k \in DOMAIN queue : \E m \in DOMAIN queue[k].members :
              \E n \in IsHeldBy(queue[k].members[m], a) : v = <<k, m, n>>
        BY <2>4
      <3>2. PICK m \in DOMAIN queue[k].members :
              \E n \in IsHeldBy(queue[k].members[m], a) : v = <<k, m, n>>
        BY <3>1
      <3>3. PICK n \in IsHeldBy(queue[k].members[m], a) : v = <<k, m, n>>
        BY <3>2
      <3>4. PICK l \in DOMAIN queue : \E p \in DOMAIN queue[l].members :
              \E q \in IsHeldBy(queue[l].members[p], a) : w = <<l, p, q>>
        BY <2>4
      <3>5. PICK p \in DOMAIN queue[l].members :
              \E q \in IsHeldBy(queue[l].members[p], a) : w = <<l, p, q>>
        BY <3>4
      <3>6. PICK q \in IsHeldBy(queue[l].members[p], a) : w = <<l, p, q>>
        BY <3>5
      <3>7. a \in Held(queue[k].members[m]) /\ a \in Held(queue[l].members[p])
        BY <2>2
      <3>8. k = l /\ m = p /\ HoldsOnce(queue[k].members[m])
        BY <2>1, <3>7 DEF RefsHoldOnce
      <3>9. n = q
        BY <2>3, <3>8
      <3> QED
        BY <3>3, <3>6, <3>7, <3>8, <3>9 DEF HeldByRefs
    <2>7. ASSUME NEW v \in InPending(a), NEW w \in InPending(a) PROVE v = w /\ a \in HeldByItems(pending)
      <3>1. PICK k \in DOMAIN pending : \E n \in IsHeldBy(pending[k].functions, a) : v = <<k, n>>
        BY <2>5
      <3>2. PICK n \in IsHeldBy(pending[k].functions, a) : v = <<k, n>>
        BY <3>1
      <3>3. PICK l \in DOMAIN pending : \E q \in IsHeldBy(pending[l].functions, a) : w = <<l, q>>
        BY <2>5
      <3>4. PICK q \in IsHeldBy(pending[l].functions, a) : w = <<l, q>>
        BY <3>3
      <3>5. a \in Held(pending[k].functions) /\ a \in Held(pending[l].functions)
        BY <2>2
      <3>6. k = l /\ HoldsOnce(pending[k].functions)
        BY <2>1, <3>5 DEF ItemsHoldOnce
      <3>7. n = q
        BY <2>3, <3>6
      <3> QED
        BY <3>2, <3>4, <3>5, <3>6, <3>7 DEF HeldByItems
    <2> DEFINE Q == InQueue(a)
               P == InPending(a)
    <2>8. /\ Cardinality(Q) \in {0, 1} /\ (Cardinality(Q) = 0 <=> Q = {})
          /\ Cardinality(P) \in {0, 1} /\ (Cardinality(P) = 0 <=> P = {})
      <3> HIDE DEF Q, P
      <3>1. (\A v, w \in Q : v = w) /\ (\A v, w \in P : v = w)
        BY <2>6, <2>7 DEF Q, P
      <3> QED
        BY <3>1, OneAtMost
    <2>9. Q = {} \/ P = {}
      BY <2>1, <2>6, <2>7
    <2>10. info[a] # NoInfo => Q = {} /\ P = {}
      BY <2>1, <2>6, <2>7
    <2> DEFINE known == info[a] # NoInfo
    <2> HIDE DEF Q, P
    <2> QED
      BY <2>8, <2>9, <2>10 DEF Q, P
  <1> QED
    BY <1>1, OneWayInvHolds, PTL

-----------------------------------------------------------------------------
(* Where an address is after each hop                                        *)

\* The places that some places lead to.
AfterHop(files, places) == UNION {Follow(files, place) : place \in places}

\* The equation of Chase, up to n.
IsChase(h, o, files, a, n) ==
  h = [k \in 0 .. n |-> IF k = 0 THEN {Location(o, ImageBase + a)} ELSE AfterHop(files, h[k - 1])]

\* The equation of Chase has a solution.
LEMMA ChaseExists ==
  ASSUME NEW o, NEW files, NEW a, NEW n \in Nat
  PROVE  \E h : IsChase(h, o, files, a, n)
  <1> DEFINE without == {k \in Nat : ~\E h : IsChase(h, o, files, a, k)}
             first == {Location(o, ImageBase + a)}
  <1> HIDE DEF first
  <1>1. ASSUME without # {} PROVE FALSE
    <2>1. PICK k \in without : \A l \in without : k <= l
      BY <1>1, LeastElement
    <2>2. k \in Nat /\ ~\E h : IsChase(h, o, files, a, k)
      BY <2>1
    <2>3. k # 0
      <3>1. IsChase([l \in 0 .. 0 |-> first], o, files, a, 0)
        BY DEF IsChase, first
      <3> QED
        BY <2>2, <3>1
    <2>4. k - 1 \in Nat /\ ~(k <= k - 1)
      BY <2>2, <2>3
    <2>5. PICK g : IsChase(g, o, files, a, k - 1)
      BY <2>1, <2>4
    <2>6. \A l \in 0 .. k - 1 : g[l] = IF l = 0 THEN first ELSE AfterHop(files, g[l - 1])
      BY <2>5 DEF IsChase, first
    <2> DEFINE Hopped(l) == IF l = 0 THEN first ELSE AfterHop(files, g[l - 1])
               f == [l \in 0 .. k |-> IF l < k THEN g[l] ELSE Hopped(l)]
    <2>7. ASSUME NEW l \in 0 .. k
          PROVE  f[l] = IF l = 0 THEN first ELSE AfterHop(files, f[l - 1])
      <3>1. f[l] = Hopped(l)
        BY <2>2, <2>6
      <3>2. l # 0 => f[l - 1] = g[l - 1]
        BY <2>2
      <3> QED
        BY <3>1, <3>2
    <2>8. IsChase(f, o, files, a, k)
      <3>1. f = [l \in 0 .. k |-> f[l]]
        OBVIOUS
      <3> HIDE DEF f
      <3> QED
        BY <2>7, <3>1 DEF IsChase, first
    <2> QED
      BY <2>2, <2>8
  <1> QED
    BY <1>1

\* Chase is that solution.
LEMMA Chases ==
  ASSUME NEW o, NEW files, NEW a
  PROVE  /\ Chase(o, files, a)[0] = {Location(o, ImageBase + a)}
         /\ \A n \in 1 .. MaxHops :
              Chase(o, files, a)[n] = AfterHop(files, Chase(o, files, a)[n - 1])
  <1> DEFINE h == Chase(o, files, a)
  <1>1. MaxHops \in Nat
    BY TraversalAssumption
  <1>2. h = CHOOSE g : IsChase(g, o, files, a, MaxHops)
    BY DEF Chase, IsChase, AfterHop
  <1>3. IsChase(h, o, files, a, MaxHops)
    BY <1>1, <1>2, ChaseExists
  <1> HIDE DEF h
  <1>4. \A n \in 0 .. MaxHops :
          h[n] = IF n = 0 THEN {Location(o, ImageBase + a)} ELSE AfterHop(files, h[n - 1])
    BY <1>3 DEF IsChase
  <1> QED
    BY <1>1, <1>4 DEF h

\* Where following changes nothing, the chase is at its end.
LEMMA ChaseStays ==
  ASSUME NEW o, NEW files, NEW a, NEW n \in 0 .. MaxHops,
         AfterHop(files, Chase(o, files, a)[n]) = Chase(o, files, a)[n]
  PROVE  Chase(o, files, a)[MaxHops] = Chase(o, files, a)[n]
  <1> DEFINE h == Chase(o, files, a)
             moved == {k \in n .. MaxHops : h[k] # h[n]}
  <1>1. MaxHops \in Nat /\ n \in Nat /\ MaxHops \in n .. MaxHops
    BY TraversalAssumption
  <1>2. \A k \in 1 .. MaxHops : h[k] = AfterHop(files, h[k - 1])
    BY Chases
  <1> HIDE DEF h
  <1>3. ASSUME moved # {} PROVE FALSE
    <2>1. moved \subseteq Nat
      BY <1>1
    <2>2. PICK k \in moved : \A l \in moved : k <= l
      BY <1>3, <2>1, LeastElement
    <2>3. k \in n .. MaxHops /\ k # n
      BY <2>2
    <2>4. k \in 1 .. MaxHops /\ k - 1 \in n .. MaxHops /\ ~(k <= k - 1)
      BY <1>1, <2>3
    <2>5. h[k - 1] = h[n]
      BY <2>2, <2>4
    <2> QED
      BY <1>2, <2>2, <2>4, <2>5 DEF h
  <1> QED
    BY <1>1, <1>3 DEF h

-----------------------------------------------------------------------------
(* Where an address is on its way, and where it leads                        *)

\* The object that a name leads to, as a set that may be empty.
ObjectAt(path, member) == Target(fs, [path |-> path, member |-> member])

\* What an offset in a function of an object is in the object of that name.
Arrivals(path, member, name, offset) ==
  {Location(target, target.symbols[FirstSymbol(target, name)].address + offset) :
     target \in {t \in ObjectAt(path, member) : FirstSymbol(t, name) # 0}}

\* The chase of an address comes to a place in an object, or to what a name and an offset lead to.
IsAt(a, o, v) ==
  v \in Int /\ \E n \in 0 .. MaxHops : Chase(root, fs, a)[n] = {Location(o, v)}
LeadsTo(a, path, member, name, offset) ==
  offset \in Int /\ \E n \in 0 .. MaxHops : Chase(root, fs, a)[n] = Arrivals(path, member, name, offset)

\* Names lead to objects, symbols and functions are where their object says.
LEMMA TargetsAreObjects ==
  ASSUME fs \in FileSystems, NEW path \in Paths, NEW member, NEW t \in ObjectAt(path, member)
  PROVE  IsObject(t)
  <1> DEFINE file == fs[path]
  <1>1. IsFile(file)
    BY TraversalAssumption
  <1>2. CASE file.kind = "object" /\ t = file.object
    BY <1>1, <1>2 DEF IsFile
  <1>3. CASE /\ file.kind = "archive" /\ LastMember(file, member) # 0
             /\ t = file.members[LastMember(file, member)].object
    <2> DEFINE named == {k \in DOMAIN file.members : file.members[k].name = member}
               n == Len(file.members)
    <2>1. n \in Nat /\ DOMAIN file.members = 1 .. n
      BY <1>1, <1>3 DEF IsFile
    <2>2. named # {} /\ LastMember(file, member) = Max(named) /\ named \subseteq 1 .. n
      BY <1>3, <2>1 DEF LastMember
    <2> HIDE DEF named, n
    <2>3. Max(named) \in named
      BY <2>1, <2>2, MaxOfPlaces
    <2>4. LastMember(file, member) \in DOMAIN file.members
      BY <2>2, <2>3 DEF named
    <2> QED
      BY <1>1, <1>3, <2>4 DEF IsFile
  <1> QED
    BY <1>2, <1>3 DEF ObjectAt, Target

LEMMA SymbolAddress ==
  ASSUME NEW o, IsObject(o), NEW name, FirstSymbol(o, name) # 0
  PROVE  o.symbols[FirstSymbol(o, name)].address \in Nat
  <1> DEFINE named == {k \in DOMAIN o.symbols : o.symbols[k].name = name}
  <1>1. named # {} /\ FirstSymbol(o, name) = Min(named) /\ named \subseteq Nat
    BY DEF FirstSymbol, IsObject
  <1> HIDE DEF named
  <1>2. Min(named) \in named
    BY <1>1, MinOfPlaces
  <1> QED
    BY <1>1, <1>2 DEF named, IsObject

LEMMA FunctionOfAddress ==
  ASSUME NEW o, IsObject(o), NEW v, FunctionAt(o.funs, v) # 0
  PROVE  /\ FunctionAt(o.funs, v) \in DOMAIN o.funs
         /\ o.funs[FunctionAt(o.funs, v)].address \in Nat
         /\ o.funs[FunctionAt(o.funs, v)].object \in DOMAIN o.objects
         /\ o.objects[o.funs[FunctionAt(o.funs, v)].object].path \in Paths
  <1> DEFINE n == Len(o.funs)
             list == o.funs
  <1>1. n \in Nat /\ DOMAIN list = 1 .. n
    BY DEF IsObject
  <1> HIDE DEF n
  <1>2. FunctionAt(list, v) \in 0 .. n
    <2> HIDE DEF list
    <2> QED
      BY <1>1, FunctionOrNone
  <1>3. FunctionAt(list, v) \in DOMAIN list
    BY <1>1, <1>2
  <1> QED
    BY <1>3 DEF IsObject

\* An address in a function of an object is looked for under its name.
FunctionLeads(a, o, v, f) ==
  LeadsTo(a, o.objects[o.funs[f].object].path, o.objects[o.funs[f].object].member,
          o.funs[f].name, v - o.funs[f].address)

\* The next hop, from a function to the symbol of its name.
LEMMA FollowsTo ==
  ASSUME fs \in FileSystems, NEW o, IsObject(o), NEW v \in Int,
         NEW f, f = FunctionAt(o.funs, v), f # 0
  PROVE  Follow(fs, Location(o, v))
           = Arrivals(o.objects[o.funs[f].object].path, o.objects[o.funs[f].object].member,
                      o.funs[f].name, v - o.funs[f].address)
  <1> DEFINE name == o.funs[f].name
             start == o.funs[f].address
             object == o.objects[o.funs[f].object]
             path == object.path
             member == object.member
             there == {t \in ObjectAt(path, member) : FirstSymbol(t, name) # 0}
             symbol(t) == t.symbols[FirstSymbol(t, name)].address
  <1>1. start \in Nat /\ path \in Paths
    BY FunctionOfAddress
  <1>2. Target(fs, object) = ObjectAt(path, member)
    BY DEF Target, ObjectAt
  <1>3. \A t \in there : symbol(t) \in Nat
    BY <1>1, TargetsAreObjects, SymbolAddress
  <1>4. \A t \in there : symbol(t) + v - start = symbol(t) + (v - start)
    <2> HIDE DEF start, symbol, there
    <2> QED
      BY <1>1, <1>3
  <1>5. Location(o, v).object = o /\ Location(o, v).vmaddr = v
    BY DEF Location
  <1> DEFINE Moved(p, w, g) ==
               {Location(t, t.symbols[FirstSymbol(t, p.funs[g].name)].address + w - p.funs[g].address) :
                  t \in {u \in Target(fs, p.objects[p.funs[g].object]) : FirstSymbol(u, p.funs[g].name) # 0}}
  <1>6. Follow(fs, Location(o, v)) = {Location(t, symbol(t) + v - start) : t \in there}
    <2>1. \A place : FunctionAt(place.object.funs, place.vmaddr) # 0 =>
            Follow(fs, place) = Moved(place.object, place.vmaddr, FunctionAt(place.object.funs, place.vmaddr))
      BY DEF Follow
    <2>2. Moved(o, v, f) = {Location(t, symbol(t) + v - start) : t \in there}
      BY <1>2
    <2> HIDE DEF Moved
    <2> QED
      BY <1>5, <2>1, <2>2
  <1>7. Arrivals(path, member, name, v - start) = {Location(t, symbol(t) + (v - start)) : t \in there}
    BY DEF Arrivals
  <1> HIDE DEF there, symbol, start
  <1>8. {Location(t, symbol(t) + v - start) : t \in there}
          = {Location(t, symbol(t) + (v - start)) : t \in there}
    BY <1>4
  <1> QED
    BY <1>6, <1>7, <1>8 DEF start

LEMMA HopOfOne ==
  ASSUME NEW place
  PROVE  AfterHop(fs, {place}) = Follow(fs, place)
  BY DEF AfterHop

\* An address that is in a function of another object is not at the end of its chain.
LEMMA LeadsOn ==
  ASSUME fs \in FileSystems, ChainsEnd(root, fs), NEW a \in Addresses,
         NEW o, IsObject(o), NEW v, IsAt(a, o, v), NEW f, f = FunctionAt(o.funs, v), f # 0
  PROVE  FunctionLeads(a, o, v, f)
  <1> DEFINE h == Chase(root, fs, a)
             place == Location(o, v)
  <1>1. v \in Int /\ MaxHops \in Nat
    BY TraversalAssumption DEF IsAt
  <1>2. PICK n \in 0 .. MaxHops : h[n] = {place}
    BY DEF IsAt
  <1>3. n # MaxHops
    <2>1. place.object = o /\ place.vmaddr = v
      BY DEF Location
    <2>2. h[n] = {place} => n # MaxHops
      <3> HIDE DEF place
      <3> QED
        BY <2>1 DEF ChainsEnd
    <2> QED
      BY <1>2, <2>2
  <1>4. n + 1 \in 1 .. MaxHops /\ n + 1 \in 0 .. MaxHops /\ (n + 1) - 1 = n
    BY <1>1, <1>3
  <1>5. h[n + 1] = AfterHop(fs, h[n])
    BY <1>4, Chases
  <1>6. h[n + 1] = Follow(fs, place)
    BY <1>2, <1>5, HopOfOne
  <1>7. o.funs[f].address \in Nat
    BY FunctionOfAddress
  <1>8. v - o.funs[f].address \in Int
    BY <1>1, <1>7
  <1> QED
    BY <1>1, <1>4, <1>6, <1>8, FollowsTo DEF FunctionLeads, LeadsTo

\* An address arrives at the symbol of the name, if there is one.
LEMMA Arrives ==
  ASSUME NEW a, NEW path, NEW member, NEW name, NEW offset, LeadsTo(a, path, member, name, offset),
         NEW o, IsObject(o), ObjectAt(path, member) = {o}, FirstSymbol(o, name) # 0
  PROVE  IsAt(a, o, o.symbols[FirstSymbol(o, name)].address + offset)
  <1> DEFINE s == o.symbols[FirstSymbol(o, name)].address
  <1>1. s \in Nat /\ offset \in Int
    BY SymbolAddress DEF LeadsTo
  <1>2. Arrivals(path, member, name, offset) = {Location(o, s + offset)}
    BY DEF Arrivals
  <1> HIDE DEF s
  <1>3. s + offset \in Int
    BY <1>1
  <1>4. IsAt(a, o, s + offset)
    BY <1>2, <1>3 DEF IsAt, LeadsTo
  <1> QED
    BY <1>4 DEF s

\* Where there is no such symbol or no such object, there is no debug info.
LEMMA GoesNowhere ==
  ASSUME NEW a, NEW path, NEW member, NEW name, NEW offset, LeadsTo(a, path, member, name, offset),
         \A t \in ObjectAt(path, member) : FirstSymbol(t, name) = 0
  PROVE  Traced(a) = NoInfo
  <1> DEFINE h == Chase(root, fs, a)
  <1>1. Arrivals(path, member, name, offset) = {}
    BY DEF Arrivals
  <1>2. PICK n \in 0 .. MaxHops : h[n] = {}
    BY <1>1 DEF LeadsTo
  <1>3. AfterHop(fs, {}) = {}
    BY DEF AfterHop
  <1>4. h[MaxHops] = {}
    BY <1>2, <1>3, ChaseStays
  <1> QED
    BY <1>4 DEF Traced

\* An address that is in no other object has the debug info of the object it is in.
LEMMA StaysHere ==
  ASSUME NEW a, NEW o, NEW v, IsAt(a, o, v), FunctionAt(o.funs, v) = 0
  PROVE  Traced(a) = IF v \in o.debug THEN [id |-> o.id, vmaddr |-> v] ELSE NoInfo
  <1> DEFINE h == Chase(root, fs, a)
             place == Location(o, v)
  <1>1. PICK n \in 0 .. MaxHops : h[n] = {place}
    BY DEF IsAt
  <1>2. place.object = o /\ place.vmaddr = v
    BY DEF Location
  <1>3. Follow(fs, place) = {place}
    BY <1>2 DEF Follow
  <1>4. AfterHop(fs, {place}) = {place}
    BY <1>3, HopOfOne
  <1>5. h[MaxHops] = {place}
    BY <1>1, <1>4, ChaseStays
  <1> HIDE DEF place
  <1> DEFINE found == {p \in h[MaxHops] : p.vmaddr \in p.object.debug}
  <1>6. found = IF v \in o.debug THEN {place} ELSE {}
    BY <1>2, <1>5
  <1>7. Traced(a) = IF found = {} THEN NoInfo
                    ELSE LET p == CHOOSE q \in found : TRUE IN [id |-> p.object.id, vmaddr |-> p.vmaddr]
    BY DEF Traced
  <1> HIDE DEF found
  <1>8. CASE v \in o.debug
    <2>1. (CHOOSE q \in found : TRUE) = place
      BY <1>6, <1>8
    <2> QED
      BY <1>2, <1>6, <1>7, <1>8, <2>1
  <1>9. CASE v \notin o.debug
    BY <1>6, <1>7, <1>9
  <1> QED
    BY <1>8, <1>9

-----------------------------------------------------------------------------
(* What an object collects leads on, or is answered                          *)

\* The addresses of some functions are those of the query, and lead to the object of that name.
Rightly(functions, path, member) ==
  \A name \in DOMAIN functions : \A x \in functions[name] :
    /\ x.original_relative_address \in Addresses
    /\ LeadsTo(x.original_relative_address, path, member, name, x.offset_from_function_start)
RightRefs(refs) ==
  \A k \in DOMAIN refs :
    /\ \A m \in DOMAIN refs[k].members : Rightly(refs[k].members[m], refs[k].path, m)
    /\ NoMember \in DOMAIN refs[k].members => DOMAIN refs[k].members = {NoMember}
RightItem(item) ==
  \E path, member :
    /\ Rightly(item.functions, path, member)
    /\ Parses(item.file) => ObjectAt(path, member) = {item.file.object}
AreLocated(o, located) ==
  \A p \in located : /\ p.original_relative_address \in Addresses
                     /\ IsAt(p.original_relative_address, o, p.vmaddr_in_this_object)

\* The addresses that an object gives to another lead there.
LEMMA FunctionsLead ==
  ASSUME fs \in FileSystems, ChainsEnd(root, fs), NEW o, IsObject(o),
         NEW located, AreLocated(o, located), NEW i, NEW path, NEW member, IsName(o, i, path, member)
  PROVE  Rightly(FunctionsOf(o.funs, located, i), path, member)
  <1> DEFINE list == o.funs
             kept == {f \in DOMAIN list : list[f].object = i /\ KeepsItsEntry(list, located, f)}
             names == {list[f].name : f \in kept}
             named(n) == CHOOSE f \in kept : list[f].name = n
             under(f) == AddressesUnder(list, located, f)
             functions == FunctionsOf(list, located, i)
  <1>1. functions = [n \in names |-> under(named(n))]
    BY DEF FunctionsOf
  <1>2. \A n \in names : named(n) \in kept /\ list[named(n)].name = n
    OBVIOUS
  <1>3. \A f : \A x \in under(f) : \E p \in located :
          /\ FunctionAt(list, p.vmaddr_in_this_object) = f
          /\ x.offset_from_function_start = p.vmaddr_in_this_object - list[f].address
          /\ x.original_relative_address = p.original_relative_address
    BY DEF AddressesUnder, InFunction, WithOffset
  <1>4. \A f \in kept : f # 0 /\ list[f].object = i
    BY DEF IsObject
  <1> HIDE DEF list, kept, named, under, functions
  <1>5. DOMAIN functions = names /\ \A n \in names : functions[n] = under(named(n))
    BY <1>1
  <1> HIDE DEF names
  <1>6. ASSUME NEW n \in DOMAIN functions, NEW x \in functions[n]
        PROVE  /\ x.original_relative_address \in Addresses
               /\ LeadsTo(x.original_relative_address, path, member, n, x.offset_from_function_start)
    <2> DEFINE f == named(n)
    <2>1. PICK p \in located :
            /\ FunctionAt(list, p.vmaddr_in_this_object) = f
            /\ x.offset_from_function_start = p.vmaddr_in_this_object - list[f].address
            /\ x.original_relative_address = p.original_relative_address
      BY <1>3, <1>5, <1>6
    <2>2. f # 0 /\ list[f].object = i /\ list[f].name = n
      BY <1>2, <1>4, <1>5, <1>6
    <2> DEFINE a == p.original_relative_address
               v == p.vmaddr_in_this_object
    <2>3. a \in Addresses /\ IsAt(a, o, v)
      BY DEF AreLocated
    <2> HIDE DEF f, a, v
    <2>4. FunctionLeads(a, o, v, f)
      BY <2>1, <2>2, <2>3, LeadsOn DEF list, v
    <2> QED
      BY <2>1, <2>2, <2>3, <2>4 DEF FunctionLeads, IsName, list, a, v
  <1> QED
    BY <1>6 DEF Rightly, functions, list

\* An address is among them, if no entry is shared.
LEMMA FunctionsHold ==
  ASSUME NEW o, IsObject(o), ~HasSharedEntries(o), NEW located, NEW p \in located,
         NEW f, f = FunctionAt(o.funs, p.vmaddr_in_this_object), f # 0
  PROVE  /\ o.funs[f].object \in ObjectsWithAddresses(o.funs, located)
         /\ p.original_relative_address \in Held(FunctionsOf(o.funs, located, o.funs[f].object))
  <1> DEFINE list == o.funs
             i == list[f].object
             n == list[f].name
             kept == {g \in DOMAIN list : list[g].object = i /\ KeepsItsEntry(list, located, g)}
             under(g) == AddressesUnder(list, located, g)
             functions == FunctionsOf(list, located, i)
             x == InFunction(list[f], p)
  <1>1. f \in DOMAIN list
    BY FunctionOfAddress
  <1>2. x \in under(f) /\ x.original_relative_address = p.original_relative_address
    BY DEF AddressesUnder, InFunction, WithOffset
  <1>3. \A g \in DOMAIN list : g # f => ~SharesEntry(list[f], list[g])
    BY <1>1 DEF HasSharedEntries
  <1>4. KeepsItsEntry(list, located, f)
    <2>1. \A g \in DOMAIN list : g > f => g # f
      BY <1>1 DEF IsObject
    <2> HIDE DEF list, x
    <2> QED
      BY <1>2, <1>3, <2>1 DEF KeepsItsEntry
  <1>5. f \in kept /\ \A g \in kept : list[g].name = n => g = f
    BY <1>1, <1>3, <1>4 DEF SharesEntry
  <1>6. functions = [m \in {list[g].name : g \in kept} |-> under(CHOOSE g \in kept : list[g].name = m)]
    BY DEF FunctionsOf
  <1>7. i \in ObjectsWithAddresses(list, located)
    BY <1>1, <1>2 DEF ObjectsWithAddresses
  <1> HIDE DEF list, kept, under, functions, x
  <1>8. (CHOOSE g \in kept : list[g].name = n) = f
    BY <1>5
  <1>9. n \in DOMAIN functions /\ functions[n] = under(f)
    BY <1>5, <1>6, <1>8
  <1>10. p.original_relative_address \in Held(functions)
    BY <1>2, <1>9 DEF Held, Original
  <1> QED
    BY <1>7, <1>10 DEF functions, list

\* Both for the references to all other objects.
LEMMA ReferencesLead ==
  ASSUME fs \in FileSystems, ChainsEnd(root, fs), NEW o, IsObject(o),
         NEW located, AreLocated(o, located), NEW refs, AreReferences(refs, o, located)
  PROVE  /\ RightRefs(refs)
         /\ \A p \in located :
              FunctionAt(o.funs, p.vmaddr_in_this_object) # 0 /\ ~HasSharedEntries(o)
                => p.original_relative_address \in HeldByRefs(refs)
  <1>1. AreNamed(refs, o, located)
    BY DEF AreReferences
  <1>2. PICK of : \A k \in DOMAIN refs : \A m \in DOMAIN refs[k].members :
           /\ refs[k].members[m] = FunctionsOf(o.funs, located, of[k][m])
           /\ IsName(o, of[k][m], refs[k].path, m)
    BY DEF AreReferences
  <1>3. ASSUME NEW k \in DOMAIN refs, NEW m \in DOMAIN refs[k].members
        PROVE  Rightly(refs[k].members[m], refs[k].path, m)
    <2> DEFINE i == of[k][m]
               path == refs[k].path
    <2>1. refs[k].members[m] = FunctionsOf(o.funs, located, i) /\ IsName(o, i, path, m)
      BY <1>2
    <2> HIDE DEF i, path
    <2>2. Rightly(FunctionsOf(o.funs, located, i), path, m)
      BY <2>1, FunctionsLead
    <2> QED
      BY <2>1, <2>2 DEF path
  <1>4. ASSUME NEW p \in located, FunctionAt(o.funs, p.vmaddr_in_this_object) # 0, ~HasSharedEntries(o)
        PROVE  p.original_relative_address \in HeldByRefs(refs)
    <2> DEFINE f == FunctionAt(o.funs, p.vmaddr_in_this_object)
               i == o.funs[f].object
    <2>1. /\ i \in ObjectsWithAddresses(o.funs, located)
          /\ p.original_relative_address \in Held(FunctionsOf(o.funs, located, i))
      BY <1>4, FunctionsHold
    <2> HIDE DEF i
    <2>2. PICK k \in DOMAIN refs : \E m \in DOMAIN refs[k].members : IsName(o, i, refs[k].path, m)
      BY <1>1, <2>1 DEF AreNamed
    <2>3. PICK m \in DOMAIN refs[k].members : IsName(o, i, refs[k].path, m)
      BY <2>2
    <2>4. refs[k].members[m] = FunctionsOf(o.funs, located, of[k][m]) /\ IsName(o, of[k][m], refs[k].path, m)
      BY <1>2
    <2>5. of[k][m] = i
      BY <1>4, <2>3, <2>4 DEF IsName, HasSharedEntries
    <2> QED
      BY <2>1, <2>4, <2>5 DEF HeldByRefs
  <1> QED
    BY <1>1, <1>3, <1>4 DEF RightRefs, AreNamed

\* What DebugInfoIsTraced says of the answer for an address.
IsAnswer(answer, a) == answer = Traced(a) \/ (answer = NoInfo /\ CanBeLost(a))

\* Where an object has an address itself, it gives it its debug info; otherwise the address goes on.
LEMMA CollectTraces ==
  ASSUME fs \in FileSystems, ChainsEnd(root, fs), NEW o, IsObject(o),
         NEW located, ArePairs(located), AreLocated(o, located), NEW refs, AreReferences(refs, o, located),
         CollectDebugInfo(o, located), \A a \in Original(located) : info[a] = NoInfo
  PROVE  /\ RightRefs(refs)
         /\ \A a \in Addresses :
              IF a \in Original(located)
              THEN a \in HeldByRefs(refs) \/ IsAnswer(info'[a], a)
              ELSE info'[a] = info[a]
  <1> DEFINE found == {p \in InternalPairs(o.funs, located) : p.vmaddr_in_this_object \in o.debug}
             whose(a) == CHOOSE p \in found : p.original_relative_address = a
             answer(a) == [id |-> o.id, vmaddr |-> whose(a).vmaddr_in_this_object]
  <1>1. info' = [a \in Addresses |-> IF a \in Original(found) THEN answer(a) ELSE info[a]]
    BY DEF CollectDebugInfo
  <1>2. \A p \in found : p \in located /\ FunctionAt(o.funs, p.vmaddr_in_this_object) = 0
                         /\ p.vmaddr_in_this_object \in o.debug
    BY DEF InternalPairs
  <1>3. \A p \in located : FunctionAt(o.funs, p.vmaddr_in_this_object) = 0
                           /\ p.vmaddr_in_this_object \in o.debug => p \in found
    BY DEF InternalPairs
  <1>4. \A a : a \in Original(found) => whose(a) \in found /\ whose(a).original_relative_address = a
    BY DEF Original
  <1> HIDE DEF found, whose
  <1>5. \A a \in Addresses : info'[a] = IF a \in Original(found) THEN answer(a) ELSE info[a]
    BY <1>1
  <1>6. Original(found) \subseteq Original(located)
    BY <1>2 DEF Original
  <1>7. ASSUME NEW a \in Addresses, a \in Original(located)
        PROVE  a \in HeldByRefs(refs) \/ IsAnswer(info'[a], a)
    <2>1. PICK p \in located : p.original_relative_address = a
      BY <1>7 DEF Original
    <2> DEFINE v == p.vmaddr_in_this_object
    <2>2. IsAt(a, o, v) /\ info[a] = NoInfo
      BY <1>7, <2>1 DEF AreLocated
    <2>3. \A q \in located : q.original_relative_address = a => q = p
      BY <2>1 DEF ArePairs
    <2>4. a \in Original(found) => whose(a) = p /\ p \in found
      BY <1>2, <1>4, <2>3
    <2>5. CASE FunctionAt(o.funs, v) = 0 /\ v \in o.debug
      <3>1. a \in Original(found)
        BY <1>3, <2>1, <2>5 DEF Original
      <3>2. info'[a] = [id |-> o.id, vmaddr |-> v]
        BY <1>5, <2>4, <3>1
      <3> HIDE DEF v
      <3> QED
        BY <2>2, <2>5, <3>2, StaysHere DEF IsAnswer
    <2>6. CASE FunctionAt(o.funs, v) = 0 /\ v \notin o.debug
      <3>1. a \notin Original(found)
        BY <1>2, <2>4, <2>6
      <3>2. info'[a] = NoInfo
        BY <1>5, <2>2, <3>1
      <3> HIDE DEF v
      <3> QED
        BY <2>2, <2>6, <3>2, StaysHere DEF IsAnswer
    <2>7. CASE FunctionAt(o.funs, v) # 0 /\ HasSharedEntries(o)
      <3>1. a \notin Original(found)
        BY <1>2, <2>4, <2>7
      <3>2. info'[a] = NoInfo
        BY <1>5, <2>2, <3>1
      <3>3. Location(o, v).object = o
        BY DEF Location
      <3> HIDE DEF v
      <3>4. CanBeLost(a)
        BY <2>2, <2>7, <3>3 DEF IsAt, CanBeLost
      <3> QED
        BY <3>2, <3>4 DEF IsAnswer
    <2>8. CASE FunctionAt(o.funs, v) # 0 /\ ~HasSharedEntries(o)
      BY <2>1, <2>8, ReferencesLead
    <2> QED
      BY <2>5, <2>6, <2>7, <2>8
  <1>8. RightRefs(refs)
    BY ReferencesLead
  <1> QED
    BY <1>5, <1>6, <1>7, <1>8

-----------------------------------------------------------------------------
(* Every step                                                                *)

\* What is on its way leads to where it is looked for, and what is not is answered.
TraceInv ==
  /\ RightRefs(queue)
  /\ \A k \in DOMAIN pending : RightItem(pending[k])
  /\ status \in {"running", "ok"} =>
       \A a \in Addresses : a \in HeldByRefs(queue) \cup HeldByItems(pending) \/ IsAnswer(info[a], a)
  /\ status = "ok" => queue = << >> /\ pending = << >>

\* The operators above depend on the inputs only.
LEMMA SameInputs ==
  ASSUME UNCHANGED <<root, fs>>
  PROVE  /\ \A answer, a : IsAnswer(answer, a)' <=> IsAnswer(answer, a)
         /\ \A refs : RightRefs(refs)' <=> RightRefs(refs)
         /\ \A item : RightItem(item)' <=> RightItem(item)
  <1>1. \A a : Traced(a)' = Traced(a) /\ (CanBeLost(a)' <=> CanBeLost(a))
    BY DEF Traced, CanBeLost
  <1>2. \A path, member : ObjectAt(path, member)' = ObjectAt(path, member)
    BY DEF ObjectAt
  <1>3. \A path, member, name, offset :
          Arrivals(path, member, name, offset)' = Arrivals(path, member, name, offset)
    BY <1>2 DEF Arrivals
  <1>4. \A a, path, member, name, offset :
          LeadsTo(a, path, member, name, offset)' <=> LeadsTo(a, path, member, name, offset)
    BY <1>3 DEF LeadsTo
  <1>5. \A functions, path, member :
          Rightly(functions, path, member)' <=> Rightly(functions, path, member)
    BY <1>4 DEF Rightly
  <1>6. \A refs : RightRefs(refs)' <=> RightRefs(refs)
    BY <1>5 DEF RightRefs
  <1>7. \A item : RightItem(item)' <=> RightItem(item)
    BY <1>2, <1>5 DEF RightItem
  <1>8. \A answer, a : IsAnswer(answer, a)' <=> IsAnswer(answer, a)
    BY <1>1 DEF IsAnswer
  <1> QED
    BY <1>6, <1>7, <1>8

\* A step keeps TraceInv if it answers, or passes on, what it takes from the lists.
LEMMA StepTraces ==
  ASSUME TraceInv, UNCHANGED <<root, fs>>, status' = "running",
         RightRefs(queue'), \A k \in DOMAIN pending' : RightItem(pending'[k]),
         \A a \in Addresses :
           a \in HeldByRefs(queue') \cup HeldByItems(pending') \/ IsAnswer(info'[a], a)
  PROVE  TraceInv'
  <1>1. RightRefs(queue)'
    BY SameInputs
  <1>2. (\A k \in DOMAIN pending : RightItem(pending[k]))'
    BY SameInputs
  <1>3. (\A a \in Addresses : a \in HeldByRefs(queue) \cup HeldByItems(pending) \/ IsAnswer(info[a], a))'
    BY SameInputs
  <1> QED
    BY <1>1, <1>2, <1>3 DEF TraceInv

LEMMA NothingIsRight == RightRefs(<< >>)
  <1>1. DOMAIN << >> = {}
    OBVIOUS
  <1> QED
    BY <1>1 DEF RightRefs

LEMMA EndTraces ==
  ASSUME NEW outcome, outcome \notin {"running", "ok"}, EndWith(outcome), UNCHANGED <<root, fs>>
  PROVE  TraceInv'
  <1>0. status' = outcome /\ queue' = << >> /\ pending' = << >>
    BY DEF EndWith
  <1>1. RightRefs(queue)'
    BY <1>0, NothingIsRight, SameInputs
  <1>2. (\A k \in DOMAIN pending : RightItem(pending[k]))'
    <2>1. DOMAIN << >> = {}
      OBVIOUS
    <2> QED
      BY <1>0, <2>1
  <1> QED
    BY <1>0, <1>1, <1>2 DEF TraceInv

LEMMA RootTraces ==
  ASSUME OneWayInv, ChainsEnd(root, fs), TraceInv, CollectRoot,
         ~Panics(root, {Pair(a, ImageBase + a) : a \in Addresses})
  PROVE  TraceInv'
  <1> DEFINE located == {Pair(a, ImageBase + a) : a \in Addresses}
  <1>1. /\ status = "start" /\ status' = "running" /\ UNCHANGED <<root, fs>> /\ pending' = << >>
        /\ CollectDebugInfo(root, located) /\ CollectReferences(root, located, << >>)
    BY DEF CollectRoot, Collect
  <1>2. /\ root \in Roots /\ fs \in FileSystems /\ pending = << >>
        /\ \A a \in Addresses : info[a] = NoInfo
    BY <1>1 DEF OneWayInv
  <1>3. IsObject(root) /\ ImageBase \in Nat /\ Addresses \subseteq Nat
    BY <1>2, TraversalAssumption
  <1>4. ArePairs(located) /\ Original(located) = Addresses
    <2>1. \A a, v : Pair(a, v).original_relative_address = a
      BY DEF Pair
    <2> QED
      BY <2>1 DEF ArePairs, Original
  <1>5. AreLocated(root, located)
    <2> SUFFICES ASSUME NEW a \in Addresses PROVE IsAt(a, root, ImageBase + a)
      BY DEF AreLocated, Pair
    <2>1. Chase(root, fs, a)[0] = {Location(root, ImageBase + a)}
      BY Chases
    <2>2. ImageBase + a \in Int /\ 0 \in 0 .. MaxHops
      BY <1>3, TraversalAssumption
    <2> QED
      BY <2>1, <2>2 DEF IsAt
  <1> HIDE DEF located
  <1>6. PICK refs : queue' = << >> \o refs /\ AreReferences(refs, root, located)
    BY <1>1, <1>3, ReferencesAre DEF CollectReferences
  <1>7. /\ RightRefs(refs)
        /\ \A a \in Addresses : a \in HeldByRefs(refs) \/ IsAnswer(info'[a], a)
    BY <1>1, <1>2, <1>3, <1>4, <1>5, <1>6, CollectTraces
  <1>8. queue' = refs
    <2>1. \E T : refs \in Seq(T)
      BY <1>6 DEF AreReferences
    <2> QED
      BY <1>6, <2>1
  <1>9. DOMAIN pending' = {}
    BY <1>1, <1>2
  <1> QED
    BY <1>1, <1>7, <1>8, <1>9, StepTraces

LEMMA HandleTraces ==
  ASSUME OneWayInv, ChainsEnd(root, fs), TraceInv, HandleObject, ~EndWith("err"), ~EndWith("panic")
  PROVE  TraceInv'
  <1> DEFINE item == pending[1]
             o == item.file.object
             functions == item.functions
             located == TranslateAddresses(o, functions)
             tail == Tail(pending)
  <1>1. /\ fs \in FileSystems /\ IsQueue(queue)
        /\ AreItems(pending) /\ ItemsHoldOnce(pending)
        /\ \A a \in Addresses : a \in HeldByRefs(queue) \cup HeldByItems(pending) => info[a] = NoInfo
    BY DEF OneWayInv
  <1>2. status = "running" /\ pending # << >> /\ UNCHANGED <<root, fs>>
    BY DEF HandleObject
  <1>3. PICK T : pending \in Seq(T)
    BY <1>1 DEF AreItems
  <1>4. /\ 1 \in DOMAIN pending
        /\ \A k \in DOMAIN tail : \E l \in DOMAIN pending : tail[k] = pending[l]
        /\ HeldByItems(pending) = Held(functions) \cup HeldByItems(tail)
    BY <1>1, <1>2, <1>3, ItemsShrink
  <1>5. Parses(item.file)
    BY DEF HandleObject
  <1>6. TraceInv'
    <2>1. /\ CollectDebugInfo(o, located) /\ CollectReferences(o, located, queue)
          /\ pending' = tail /\ status' = "running"
      BY <1>5 DEF HandleObject, Collect
    <2>2. IsObject(o)
      BY <1>1, <1>4, <1>5 DEF AreItems, IsFile, Parses
    <2>3. HoldsOnce(functions)
      BY <1>1, <1>4 DEF ItemsHoldOnce
    <2>4. ArePairs(located) /\ Original(located) \subseteq Held(functions)
      BY <2>3, TranslatedArePairs
    <2>5. RightItem(item)
      BY <1>4 DEF TraceInv
    <2>6. PICK path, member : Rightly(functions, path, member) /\ ObjectAt(path, member) = {o}
      BY <1>5, <2>5 DEF RightItem
    <2> DEFINE there(name) == FirstSymbol(o, name) # 0
               moved(name, x) == Pair(x.original_relative_address,
                                      o.symbols[FirstSymbol(o, name)].address
                                        + x.offset_from_function_start)
    <2>7. AreLocated(o, located)
      <3> SUFFICES ASSUME NEW p \in located
                   PROVE  /\ p.original_relative_address \in Addresses
                          /\ IsAt(p.original_relative_address, o, p.vmaddr_in_this_object)
        BY DEF AreLocated
      <3>1. PICK name \in DOMAIN functions : there(name) /\ \E x \in functions[name] : p = moved(name, x)
        BY DEF TranslateAddresses
      <3>2. PICK x \in functions[name] : p = moved(name, x)
        BY <3>1
      <3> DEFINE a == x.original_relative_address
                 offset == x.offset_from_function_start
      <3>3. a \in Addresses /\ LeadsTo(a, path, member, name, offset)
        BY <2>6, <3>1, <3>2 DEF Rightly
      <3>4. /\ p.original_relative_address = a
            /\ p.vmaddr_in_this_object = o.symbols[FirstSymbol(o, name)].address + offset
        BY <3>2 DEF Pair
      <3> HIDE DEF o, a, offset
      <3>5. IsAt(a, o, o.symbols[FirstSymbol(o, name)].address + offset)
        BY <2>2, <2>6, <3>1, <3>3, Arrives
      <3> QED
        BY <3>3, <3>4, <3>5
    <2>8. \A a \in Held(functions) : a \in Original(located) \/ Traced(a) = NoInfo
      <3> TAKE a \in Held(functions)
      <3>1. PICK name \in DOMAIN functions : \E x \in functions[name] : x.original_relative_address = a
        BY DEF Held, Original
      <3>2. PICK x \in functions[name] : x.original_relative_address = a
        BY <3>1
      <3> DEFINE offset == x.offset_from_function_start
      <3>3. CASE there(name)
        <4>1. moved(name, x) \in located
          BY <3>1, <3>2, <3>3 DEF TranslateAddresses
        <4>2. moved(name, x).original_relative_address = a
          BY <3>2 DEF Pair
        <4> QED
          BY <4>1, <4>2 DEF Original
      <3>4. CASE ~there(name)
        <4>1. LeadsTo(a, path, member, name, offset)
          BY <2>6, <3>1, <3>2 DEF Rightly
        <4>2. \A t \in ObjectAt(path, member) : FirstSymbol(t, name) = 0
          BY <2>6, <3>4
        <4> HIDE DEF offset
        <4> QED
          BY <4>1, <4>2, GoesNowhere
      <3> QED
        BY <3>3, <3>4
    <2> HIDE DEF located, o, item, tail, functions
    <2>9. PICK refs : queue' = queue \o refs /\ AreReferences(refs, o, located)
      BY <2>1, <2>2, ReferencesAre DEF CollectReferences
    <2>10. \A a \in Original(located) : a \in Addresses /\ info[a] = NoInfo
      <3>1. \A a \in Original(located) : a \in Addresses
        BY <2>7 DEF AreLocated, Original
      <3> QED
        BY <1>1, <1>4, <2>4, <3>1
    <2>11. /\ RightRefs(refs)
           /\ \A a \in Addresses :
                IF a \in Original(located)
                THEN a \in HeldByRefs(refs) \/ IsAnswer(info'[a], a)
                ELSE info'[a] = info[a]
      BY <1>1, <2>1, <2>2, <2>4, <2>7, <2>9, <2>10, CollectTraces
    <2>12. /\ HeldByRefs(queue') = HeldByRefs(queue) \cup HeldByRefs(refs)
           /\ \A k \in DOMAIN queue' : \/ \E l \in DOMAIN queue : queue'[k] = queue[l]
                                       \/ \E l \in DOMAIN refs : queue'[k] = refs[l]
      <3>1. IsQueue(refs)
        BY <2>9 DEF AreReferences, IsQueue
      <3> DEFINE q == queue \o refs
                 n == Len(queue)
      <3>2. /\ HeldByRefs(q) = HeldByRefs(queue) \cup HeldByRefs(refs)
            /\ \A k \in DOMAIN q : \/ k \in DOMAIN queue /\ q[k] = queue[k] /\ k <= n
                                   \/ k - n \in DOMAIN refs /\ q[k] = refs[k - n] /\ ~(k <= n)
        BY <1>1, <3>1, QueuesJoin
      <3>3. queue' = q
        BY <2>9
      <3> HIDE DEF q, n
      <3> QED
        BY <3>2, <3>3
    <2>13. RightRefs(queue')
      BY <2>11, <2>12 DEF TraceInv, RightRefs
    <2>14. \A k \in DOMAIN pending' : RightItem(pending'[k])
      BY <1>4, <2>1 DEF TraceInv
    <2>15. ASSUME NEW a \in Addresses
           PROVE  a \in HeldByRefs(queue') \cup HeldByItems(pending') \/ IsAnswer(info'[a], a)
      <3>1. a \in HeldByRefs(queue) \cup HeldByItems(pending) \/ IsAnswer(info[a], a)
        BY <1>2 DEF TraceInv
      <3>2. CASE a \in Original(located)
        BY <2>11, <2>12, <3>2
      <3>3. CASE a \notin Original(located) /\ a \in Held(functions)
        <4>1. Traced(a) = NoInfo /\ info[a] = NoInfo
          BY <1>1, <1>4, <2>8, <3>3
        <4> QED
          BY <2>11, <3>3, <4>1 DEF IsAnswer
      <3>4. CASE a \notin Held(functions)
        <4>1. info'[a] = info[a]
          BY <2>4, <2>11, <3>4
        <4> QED
          BY <1>4, <2>1, <2>12, <3>1, <3>4, <4>1
      <3> QED
        BY <3>2, <3>3, <3>4
    <2> QED
      BY <1>2, <2>1, <2>13, <2>14, <2>15, StepTraces
  <1> QED
    BY <1>6

\* A file that is opened: what its reference held is passed on, or its object is not there.
LEMMA OpenTraces ==
  ASSUME OneWayInv, TraceInv, CanOpen, queue' = Tail(queue), UNCHANGED <<root, fs, info, status>>,
         \A k \in DOMAIN pending' : RightItem(pending'[k]),
         \A m \in DOMAIN queue[1].members :
           \/ ObjectAt(queue[1].path, m) = {}
           \/ Held(queue[1].members[m]) \subseteq HeldByItems(pending')
  PROVE  TraceInv'
  <1> DEFINE tail == Tail(queue)
             items == pending'
             path == queue[1].path
  <1>1. IsQueue(queue) /\ RefsHoldOnce(queue) /\ \A a \in Addresses : a \in HeldByRefs(queue) => info[a] = NoInfo
    BY DEF OneWayInv
  <1>2. queue # << >> /\ status = "running" /\ pending = << >>
    BY DEF CanOpen
  <1>3. /\ 1 \in DOMAIN queue /\ \A k \in DOMAIN tail : \E l \in DOMAIN queue : tail[k] = queue[l]
        /\ HeldByRefs(tail) \subseteq HeldByRefs(queue)
        /\ \A a \in HeldByRefs(queue) :
             a \in HeldByRefs(tail) \/ \E m \in DOMAIN queue[1].members : a \in Held(queue[1].members[m])
        /\ \A m \in DOMAIN queue[1].members : Held(queue[1].members[m]) \subseteq HeldByRefs(queue)
    BY <1>1, <1>2, QueueShrinks
  <1>4. RightRefs(tail)
    BY <1>3 DEF TraceInv, RightRefs
  <1>5. HeldByItems(pending) = {}
    BY <1>2, NothingHeld
  <1>6. ASSUME NEW a \in Addresses PROVE a \in HeldByRefs(tail) \cup HeldByItems(items) \/ IsAnswer(info[a], a)
    <2>1. a \in HeldByRefs(queue) \/ IsAnswer(info[a], a)
      BY <1>2, <1>5 DEF TraceInv
    <2>2. ASSUME NEW m \in DOMAIN queue[1].members, a \in Held(queue[1].members[m]), ObjectAt(path, m) = {}
          PROVE  IsAnswer(info[a], a)
      <3>1. Rightly(queue[1].members[m], path, m)
        BY <1>3 DEF TraceInv, RightRefs
      <3> DEFINE functions == queue[1].members[m]
      <3>2. PICK name \in DOMAIN functions : \E x \in functions[name] : x.original_relative_address = a
        BY <2>2 DEF Held, Original
      <3>3. PICK x \in functions[name] : x.original_relative_address = a
        BY <3>2
      <3> DEFINE offset == x.offset_from_function_start
      <3>4. LeadsTo(a, path, m, name, offset)
        BY <3>1, <3>2, <3>3 DEF Rightly
      <3>5. \A t \in ObjectAt(path, m) : FirstSymbol(t, name) = 0
        BY <2>2
      <3>6. info[a] = NoInfo
        BY <1>1, <1>3, <2>2
      <3> HIDE DEF offset, path
      <3>7. Traced(a) = NoInfo
        BY <3>4, <3>5, GoesNowhere
      <3> QED
        BY <3>6, <3>7 DEF IsAnswer
    <2> QED
      BY <1>3, <2>1, <2>2
  <1> HIDE DEF tail, items
  <1>7. \A a \in Addresses :
          a \in HeldByRefs(queue') \cup HeldByItems(pending') \/ IsAnswer(info'[a], a)
    BY <1>6 DEF tail, items
  <1>8. RightRefs(queue') /\ status' = "running"
    BY <1>2, <1>4 DEF tail
  <1> QED
    BY <1>7, <1>8, StepTraces

LEMMA SkipTraces ==
  ASSUME OneWayInv, TraceInv, SkipMissing
  PROVE  TraceInv'
  <1>1. /\ CanOpen /\ queue' = Tail(queue) /\ pending' = << >> /\ UNCHANGED <<root, fs, info, status>>
        /\ fs[queue[1].path].kind = "missing"
    BY DEF SkipMissing, CanOpen, NextReference
  <1>2. \A m : ObjectAt(queue[1].path, m) = {}
    BY <1>1 DEF ObjectAt, Target
  <1>3. DOMAIN pending' = {}
    BY <1>1
  <1> QED
    BY <1>1, <1>2, <1>3, OpenTraces

LEMMA OpenObjectTraces ==
  ASSUME OneWayInv, TraceInv, OpenObject
  PROVE  TraceInv'
  <1> DEFINE path == queue[1].path
             functions == queue[1].members[NoMember]
             item == [file |-> fs[path], functions |-> functions]
  <1>1. /\ CanOpen /\ NoMember \in DOMAIN queue[1].members /\ queue # << >>
        /\ pending' = <<item>> /\ queue' = Tail(queue) /\ UNCHANGED <<root, fs, info, status>>
    BY DEF OpenObject, NextReference, IsRegular, CanOpen
  <1>2. 1 \in DOMAIN queue
    BY <1>1, QueueShrinks DEF OneWayInv
  <1>3. DOMAIN queue[1].members = {NoMember} /\ Rightly(functions, path, NoMember)
    BY <1>1, <1>2 DEF TraceInv, RightRefs
  <1>4. item.file = fs[path] /\ item.functions = functions
    OBVIOUS
  <1>5. Parses(fs[path]) => ObjectAt(path, NoMember) = {fs[path].object}
    BY DEF Parses, ObjectAt, Target
  <1> HIDE DEF item, functions, path
  <1>6. RightItem(item)
    BY <1>3, <1>4, <1>5 DEF RightItem
  <1>7. DOMAIN <<item>> = {1} /\ <<item>>[1] = item
    <2>1. 1 .. 1 = {1}
      OBVIOUS
    <2> QED
      BY <2>1
  <1>8. HeldByItems(pending') = Held(functions)
    BY <1>1, <1>4, <1>7 DEF HeldByItems
  <1>9. \A k \in DOMAIN pending' : RightItem(pending'[k])
    BY <1>1, <1>6, <1>7
  <1>10. \A m \in DOMAIN queue[1].members : Held(queue[1].members[m]) \subseteq HeldByItems(pending')
    BY <1>3, <1>8 DEF functions
  <1> QED
    BY <1>1, <1>9, <1>10, OpenTraces

LEMMA OpenArchiveTraces ==
  ASSUME OneWayInv, TraceInv, OpenArchive
  PROVE  TraceInv'
  <1> DEFINE path == queue[1].path
             archive == fs[path]
             members == queue[1].members
             object(m) == archive.members[LastMember(archive, m)].object
             item(m) == [file |-> [kind |-> "object", object |-> object(m)], functions |-> members[m]]
             there == {n \in DOMAIN members : LastMember(archive, n) # 0}
             objects == OpenArchiveMembers(archive, members)
  <1>1. CanOpen /\ queue # << >> /\ NoMember \notin DOMAIN members /\ UNCHANGED <<root, fs>>
    BY DEF OpenArchive, CanOpen, IsRegular, NextReference
  <1>2. 1 \in DOMAIN queue /\ IsFiniteSet(DOMAIN members)
    <2>1. 1 \in DOMAIN queue
      BY <1>1, QueueShrinks DEF OneWayInv
    <2> QED
      BY <2>1 DEF OneWayInv, IsQueue
  <1>3. CASE EndWith("err")
    BY <1>1, <1>3, EndTraces
  <1>4. CASE /\ archive.kind = "archive" /\ pending' \in SetToSeqs(objects)
             /\ queue' = Tail(queue) /\ UNCHANGED <<info, status>>
    <2>1. objects = {item(m) : m \in there}
      BY DEF OpenArchiveMembers
    <2>2. \A m \in DOMAIN members : m # NoMember /\ Rightly(members[m], path, m)
      BY <1>1, <1>2 DEF TraceInv, RightRefs
    <2>3. \A m \in there : ObjectAt(path, m) = {object(m)}
      BY <1>4, <2>2 DEF ObjectAt, Target
    <2>4. \A m \in DOMAIN members : m \notin there => ObjectAt(path, m) = {}
      BY <1>4, <2>2 DEF ObjectAt, Target
    <2>5. \A m : item(m).functions = members[m] /\ item(m).file.object = object(m)
      OBVIOUS
    <2>6. there \subseteq DOMAIN members
      OBVIOUS
    <2>7. IsFiniteSet(objects)
      <3> DEFINE f == [m \in there |-> item(m)]
      <3>1. objects = {f[m] : m \in there} /\ IsFiniteSet(there)
        BY <1>2, <2>1, FS_Subset
      <3> HIDE DEF f, there, objects
      <3> QED
        BY <3>1, FiniteImage
    <2> HIDE DEF object, there, objects, item, path, members
    <2>8. /\ \A k \in DOMAIN pending' : pending'[k] \in objects
          /\ \A x \in objects : \E k \in DOMAIN pending' : pending'[k] = x
      BY <1>4, <2>7, ListOfSet
    <2>9. \A m \in there : RightItem(item(m))
      BY <2>2, <2>3, <2>5, <2>6 DEF RightItem
    <2>10. \A k \in DOMAIN pending' : RightItem(pending'[k])
      BY <2>1, <2>8, <2>9
    <2>11. \A m \in there : Held(members[m]) \subseteq HeldByItems(pending')
      <3> TAKE m \in there
      <3>1. PICK k \in DOMAIN pending' : pending'[k] = item(m)
        BY <2>1, <2>8
      <3> QED
        BY <2>5, <3>1 DEF HeldByItems
    <2>12. \A m \in DOMAIN members : ObjectAt(path, m) = {} \/ Held(members[m]) \subseteq HeldByItems(pending')
      BY <2>4, <2>11
    <2> QED
      BY <1>1, <1>4, <2>10, <2>12, OpenTraces DEF path, members
  <1> QED
    BY <1>3, <1>4 DEF OpenArchive, NextReference

\* For every file system: if the references of no address go on for more than MaxHops objects,
\* the debug info that a query is answered with is where following the address from function
\* to symbol leads, in whatever order the references are taken, or it was lost to another
\* function of the same name.
THEOREM DebugInfoIsFollowed == TraversalSpec => [](ChainsEnd(root, fs) => DebugInfoIsTraced)
  <1> DEFINE TracedInv == ChainsEnd(root, fs) => TraceInv
  <1>1. TraversalInit => TracedInv
    <2>1. DOMAIN << >> = {}
      OBVIOUS
    <2> QED
      BY <2>1, NothingIsRight DEF TraversalInit, TraceInv
  <1>2. OneWayInv /\ TracedInv /\ [TraversalNext]_traversalVars => TracedInv'
    <2> SUFFICES ASSUME OneWayInv, TracedInv, [TraversalNext]_traversalVars PROVE TracedInv'
      OBVIOUS
    <2>1. UNCHANGED <<root, fs>>
      BY DEF TraversalNext, TraversalStep, TraversalTerminated, traversalVars, CollectRoot,
             SkipMissing, OpenObject, OpenArchive, HandleObject, ReturnInfo
    <2>2. ChainsEnd(root, fs)' <=> ChainsEnd(root, fs)
      BY <2>1 DEF ChainsEnd
    <2> SUFFICES ASSUME ChainsEnd(root, fs), TraceInv PROVE TraceInv'
      BY <2>2
    <2>0. CASE EndWith("err") \/ EndWith("panic")
      BY <2>0, <2>1, EndTraces
    <2>3. CASE CollectRoot
      BY <2>0, <2>3, RootTraces DEF CollectRoot, Collect
    <2>4. CASE SkipMissing
      BY <2>4, SkipTraces
    <2>5. CASE OpenObject
      BY <2>5, OpenObjectTraces
    <2>6. CASE OpenArchive
      BY <2>6, OpenArchiveTraces
    <2>7. CASE HandleObject
      BY <2>0, <2>7, HandleTraces
    <2>8. ASSUME UNCHANGED <<queue, pending, info>>,
                 \/ UNCHANGED status
                 \/ status = "running" /\ status' = "ok" /\ queue = << >> /\ pending = << >>
          PROVE  TraceInv'
      <3>1. RightRefs(queue)'
        BY <2>1, <2>8, SameInputs DEF TraceInv
      <3>2. (\A k \in DOMAIN pending : RightItem(pending[k]))'
        BY <2>1, <2>8, SameInputs DEF TraceInv
      <3>3. (status \in {"running", "ok"} =>
              \A a \in Addresses :
                a \in HeldByRefs(queue) \cup HeldByItems(pending) \/ IsAnswer(info[a], a))'
        BY <2>1, <2>8, SameInputs DEF TraceInv
      <3>4. (status = "ok" => queue = << >> /\ pending = << >>)'
        BY <2>8 DEF TraceInv
      <3> QED
        BY <3>1, <3>2, <3>3, <3>4 DEF TraceInv
    <2>9. CASE ReturnInfo
      BY <2>8, <2>9 DEF ReturnInfo
    <2>10. CASE UNCHANGED traversalVars
      BY <2>8, <2>10 DEF traversalVars
    <2> QED
      BY <2>3, <2>4, <2>5, <2>6, <2>7, <2>9, <2>10 DEF TraversalNext, TraversalStep, TraversalTerminated
  <1>3. TracedInv => (ChainsEnd(root, fs) => DebugInfoIsTraced)
    BY NothingHeld DEF TraceInv, DebugInfoIsTraced, IsAnswer
  <1> QED
    BY <1>1, <1>2, <1>3, OneWayInvHolds, PTL DEF TraversalSpec
=============================================================================
