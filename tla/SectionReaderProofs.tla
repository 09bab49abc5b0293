------------------------- MODULE SectionReaderProofs -------------------------
(***************************************************************************)
(* Theorems about the statistics of reads through views, for every file,   *)
(* chunk size and order of reads, and about the two ways to read debug     *)
(* sections, for all files, objects and operations of readers.             *)
(***************************************************************************)
EXTENDS SectionReader, FiniteSetTheorems, SortedSeqsProofs

(***************************************************************************)
(* File views                                                              *)
(***************************************************************************)
\* The statistics, with the types that the arithmetic needs.
StatsInv ==
  /\ StatsCanBeShown
  /\ unique_chunks_read \subseteq 0 .. ChunkCount - 1
  /\ bytes_read \in Nat /\ read_call_count \in Nat

\* Views start somewhere: subranges only add to it.
RangesInv == view.range_start \in Nat /\ view.range_size \in Nat /\ StatsInv

-----------------------------------------------------------------------------
(* Chunks *)

LEMMA Division ==
  ASSUME NEW v \in Nat, NEW k \in Nat \ {0}
  PROVE  /\ v \div k \in Nat
         /\ (v \div k) * k <= v
         /\ v < (v \div k) * k + k
  OBVIOUS

LEMMA Product ==
  ASSUME NEW x \in Nat, NEW k \in Nat
  PROVE  x * k \in Nat /\ (x + 1) * k = x * k + k
  OBVIOUS

LEMMA Products ==
  ASSUME NEW x \in Nat, NEW y \in Nat, NEW k \in Nat
  PROVE  (x + y) * k = x * k + y * k
  OBVIOUS

LEMMA MultiplyMonotone ==
  ASSUME NEW x \in Nat, NEW y \in Nat, NEW k \in Nat, x <= y
  PROVE  x * k <= y * k
  <1> DEFINE d == y - x
  <1>1. d \in Nat /\ y = x + d
    OBVIOUS
  <1> HIDE DEF d
  <1>2. y * k = x * k + d * k
    BY <1>1, Products
  <1>3. x * k \in Nat /\ d * k \in Nat
    BY <1>1, Product
  <1> QED
    BY <1>2, <1>3

\* A later position is in the same chunk or in a later one.
LEMMA DivisionMonotone ==
  ASSUME NEW v \in Nat, NEW w \in Nat, NEW k \in Nat \ {0}, v <= w
  PROVE  v \div k <= w \div k
  <1> DEFINE c == v \div k
             d == w \div k
  <1>1. /\ c \in Nat /\ c * k <= v
        /\ d \in Nat /\ w < d * k + k
    BY Division
  <1> HIDE DEF c, d
  <1>2. SUFFICES ASSUME d + 1 <= c PROVE FALSE
    BY <1>1 DEF c, d
  <1>3. (d + 1) * k <= c * k
    BY <1>1, <1>2, MultiplyMonotone
  <1>4. (d + 1) * k = d * k + k /\ d * k \in Nat /\ c * k \in Nat
    BY <1>1, Product
  <1> QED
    BY <1>1, <1>3, <1>4

LEMMA ChunksOfFile == ChunkCount \in Nat \ {0}
  <1>1. FileLen - 1 \in Nat /\ ChunkSize \in Nat \ {0}
    BY FileAssumption, RangeAssumption
  <1> QED
    BY <1>1, Division DEF ChunkCount

\* The chunks of a read are those from its first byte to its last.
LEMMA ChunksOfRead ==
  ASSUME NEW offset \in Nat, NEW size \in Nat, size # 0
  PROVE  LET first == offset \div ChunkSize
             last == (offset + size - 1) \div ChunkSize
         IN  /\ first \in Nat /\ last \in Nat /\ first <= last
             /\ offset < first * ChunkSize + ChunkSize
             /\ ChunksOf(offset, size) = first .. last
             /\ Max(ChunksOf(offset, size)) = last
  <1> DEFINE first == offset \div ChunkSize
             last == (offset + size - 1) \div ChunkSize
  <1>1. offset + size - 1 \in Nat /\ offset <= offset + size - 1 /\ ChunkSize \in Nat \ {0}
    BY RangeAssumption
  <1>2. first \in Nat /\ offset < first * ChunkSize + ChunkSize /\ last \in Nat
    BY <1>1, Division
  <1>3. first <= last
    BY <1>1, DivisionMonotone
  <1>4. ChunksOf(offset, size) = first .. last
    BY DEF ChunksOf
  <1> HIDE DEF first, last
  <1>5. Max(first .. last) = last
    BY <1>2, <1>3 DEF Max
  <1> QED
    BY <1>2, <1>3, <1>4, <1>5 DEF first, last

LEMMA IntervalSize ==
  ASSUME NEW a \in Nat, NEW b \in Nat, a <= b
  PROVE  IsFiniteSet(a + 1 .. b) /\ Cardinality(a + 1 .. b) = b - a
  <1>1. a + 1 \in Int /\ b \in Int
    OBVIOUS
  <1>2. Cardinality(a + 1 .. b) = IF a + 1 > b THEN 0 ELSE b - (a + 1) + 1
    BY <1>1, FS_Interval
  <1>3. IsFiniteSet(a + 1 .. b)
    BY <1>1, FS_Interval
  <1>4. (IF a + 1 > b THEN 0 ELSE b - (a + 1) + 1) = b - a
    OBVIOUS
  <1> QED
    BY <1>2, <1>3, <1>4

-----------------------------------------------------------------------------
(* A read that is counted *)

\* What a read adds to the bytes is at least what it adds to the chunks.
LEMMA CountedBytes ==
  ASSUME StatsInv, NEW offset \in Nat, NEW size \in Nat, size # 0
  PROVE  LET chunks == unique_chunks_read \cup ChunksOf(offset, size)
         IN  /\ IsFiniteSet(chunks) /\ Cardinality(chunks) \in Nat
             /\ AddedBytes(offset, size) \in Nat
             /\ Cardinality(chunks) * ChunkSize <= bytes_read + AddedBytes(offset, size)
  <1> DEFINE old == unique_chunks_read
             first == offset \div ChunkSize
             last == (offset + size - 1) \div ChunkSize
             of_read == ChunksOf(offset, size)
             n == Cardinality(old)
             all == Cardinality(old \cup of_read)
  <1>1. /\ first \in Nat /\ last \in Nat /\ first <= last
        /\ offset < first * ChunkSize + ChunkSize
        /\ of_read = first .. last /\ Max(of_read) = last
    BY ChunksOfRead
  <1>2. IsFiniteSet(old) /\ n \in Nat
    <2>1. old \in SUBSET (0 .. ChunkCount - 1) /\ ChunkCount - 1 \in Int
      BY ChunksOfFile DEF StatsInv
    <2>2. IsFiniteSet(0 .. ChunkCount - 1)
      BY <2>1, FS_Interval
    <2>3. IsFiniteSet(old)
      BY <2>1, <2>2, FS_Subset
    <2> QED
      BY <2>3, FS_CardinalityType
  <1>3. IsFiniteSet(of_read)
    BY <1>1, FS_Interval
  <1>4. IsFiniteSet(old \cup of_read) /\ all \in Nat
    BY <1>2, <1>3, FS_Union, FS_CardinalityType
  <1>5. ChunkSize \in Nat /\ bytes_read \in Nat /\ n * ChunkSize <= bytes_read
    BY RangeAssumption DEF StatsInv, StatsCanBeShown, UniqueBytesRead
  <1>6. CASE first \in old
    <2> DEFINE d == last - first
               rest == first + 1 .. last
    <2>1. d \in Nat /\ last = first + d
      BY <1>1
    <2>2. IsFiniteSet(rest) /\ Cardinality(rest) = d
      <3> HIDE DEF first, last
      <3> QED
        BY <1>1, IntervalSize
    <2>3. old \cup of_read = old \cup rest
      BY <1>1, <1>6
    <2>4. all <= n + d
      <3>1. IsFiniteSet(old \cap rest)
        BY <1>2, FS_Subset
      <3>2. Cardinality(old \cap rest) \in Nat
        BY <3>1, FS_CardinalityType
      <3>3. all = n + d - Cardinality(old \cap rest)
        BY <1>2, <2>2, <2>3, FS_Union
      <3> HIDE DEF n, all, d
      <3> QED
        BY <1>2, <2>1, <3>2, <3>3
    <2>5. AddedBytes(offset, size) = (last + 1) * ChunkSize - offset
      BY <1>1, <1>6 DEF AddedBytes
    <2> HIDE DEF n, all, d, first, last
    <2>6. all * ChunkSize <= (n + d) * ChunkSize
      BY <1>2, <1>4, <1>5, <2>1, <2>4, MultiplyMonotone
    <2>7. (n + d) * ChunkSize = n * ChunkSize + d * ChunkSize
      BY <1>2, <1>5, <2>1, Products
    <2>8. (last + 1) * ChunkSize = (first + 1) * ChunkSize + d * ChunkSize
      BY <1>1, <1>5, <2>1, Products
    <2>9. (first + 1) * ChunkSize = first * ChunkSize + ChunkSize
      BY <1>1, <1>5, Product
    <2>10. /\ n * ChunkSize \in Nat /\ d * ChunkSize \in Nat
           /\ all * ChunkSize \in Nat /\ first * ChunkSize \in Nat
      BY <1>1, <1>2, <1>4, <1>5, <2>1, Product
    <2>11. AddedBytes(offset, size) >= d * ChunkSize /\ AddedBytes(offset, size) \in Nat
      BY <1>1, <1>5, <2>5, <2>8, <2>9, <2>10
    <2>12. all * ChunkSize <= bytes_read + AddedBytes(offset, size)
      BY <1>5, <2>6, <2>7, <2>10, <2>11
    <2> QED
      BY <1>4, <2>11, <2>12 DEF all
  <1>7. CASE first \notin old
    <2> DEFINE d == Cardinality(of_read)
    <2>1. d \in Nat
      BY <1>3, FS_CardinalityType
    <2>2. all <= n + d
      <3>1. IsFiniteSet(old \cap of_read)
        BY <1>2, FS_Subset
      <3>2. Cardinality(old \cap of_read) \in Nat
        BY <3>1, FS_CardinalityType
      <3>3. all = n + d - Cardinality(old \cap of_read)
        BY <1>2, <1>3, FS_Union
      <3> HIDE DEF n, all, d
      <3> QED
        BY <1>2, <2>1, <3>2, <3>3
    <2>3. AddedBytes(offset, size) = d * ChunkSize
      BY <1>7 DEF AddedBytes
    <2> HIDE DEF n, all, d
    <2>4. all * ChunkSize <= (n + d) * ChunkSize
      BY <1>2, <1>4, <1>5, <2>1, <2>2, MultiplyMonotone
    <2>5. (n + d) * ChunkSize = n * ChunkSize + d * ChunkSize
      BY <1>2, <1>5, <2>1, Products
    <2>6. /\ n * ChunkSize \in Nat /\ d * ChunkSize \in Nat /\ all * ChunkSize \in Nat
      BY <1>2, <1>4, <1>5, <2>1, Product
    <2>7. all * ChunkSize <= bytes_read + AddedBytes(offset, size)
      BY <1>5, <2>3, <2>4, <2>5, <2>6
    <2> QED
      BY <1>4, <2>3, <2>6, <2>7 DEF all
  <1> QED
    BY <1>6, <1>7

\* A read of chunks that the file has keeps the statistics in order.
LEMMA RecordKeeps ==
  ASSUME StatsInv, NEW offset \in Nat, NEW size \in Nat,
         size # 0 => Max(ChunksOf(offset, size)) < ChunkCount,
         RecordRead(offset, size)
  PROVE  StatsInv'
  <1>1. CASE size = 0 \/ ChunksOf(offset, size) \subseteq unique_chunks_read
    BY <1>1 DEF RecordRead, stats, StatsInv, StatsCanBeShown, UniqueBytesRead
  <1>2. CASE ~(size = 0 \/ ChunksOf(offset, size) \subseteq unique_chunks_read)
    <2> DEFINE chunks == unique_chunks_read \cup ChunksOf(offset, size)
    <2>1. /\ bytes_read' = bytes_read + AddedBytes(offset, size)
          /\ unique_chunks_read' = chunks
          /\ read_call_count' = read_call_count + 1
      BY <1>2 DEF RecordRead
    <2>2. /\ IsFiniteSet(chunks) /\ Cardinality(chunks) \in Nat
          /\ AddedBytes(offset, size) \in Nat
          /\ Cardinality(chunks) * ChunkSize <= bytes_read + AddedBytes(offset, size)
      BY <1>2, CountedBytes
    <2>3. chunks \subseteq 0 .. ChunkCount - 1
      <3> DEFINE first == offset \div ChunkSize
                 last == (offset + size - 1) \div ChunkSize
      <3>1. /\ first \in Nat /\ last \in Nat
            /\ ChunksOf(offset, size) = first .. last /\ Max(ChunksOf(offset, size)) = last
        BY <1>2, ChunksOfRead
      <3>2. last < ChunkCount
        BY <1>2, <3>1
      <3> HIDE DEF first, last
      <3>3. ChunksOf(offset, size) \subseteq 0 .. ChunkCount - 1
        BY <3>1, <3>2, ChunksOfFile
      <3> QED
        BY <3>3 DEF StatsInv
    <2>4. chunks # {}
      BY <1>2
    <2>5. Cardinality(chunks) > 0
      BY <2>2, <2>4, FS_EmptySet
    <2>6. Cardinality(chunks) * ChunkSize > 0
      <3> DEFINE n == Cardinality(chunks)
      <3>1. n \in Nat /\ 1 <= n /\ ChunkSize \in Nat \ {0}
        BY <2>2, <2>5, RangeAssumption
      <3> HIDE DEF n
      <3>2. 1 * ChunkSize <= n * ChunkSize /\ n * ChunkSize \in Nat
        BY <3>1, MultiplyMonotone, Product
      <3>3. n * ChunkSize > 0
        BY <3>1, <3>2
      <3> QED
        BY <3>3 DEF n
    <2> HIDE DEF chunks
    <2>7. bytes_read \in Nat /\ read_call_count \in Nat /\ Cardinality(chunks) * ChunkSize \in Nat
      BY <2>2, RangeAssumption, Product DEF StatsInv
    <2>8. StatsCanBeShown'
      BY <2>1, <2>2, <2>3, <2>6, <2>7 DEF StatsCanBeShown, UniqueBytesRead, ChunkCount
    <2> QED
      BY <2>1, <2>2, <2>3, <2>7, <2>8 DEF StatsInv, ChunkCount
  <1> QED
    BY <1>1, <1>2

LEMMA CountedReadKeeps ==
  ASSUME StatsInv, NEW offset \in Nat, NEW size \in Nat, CountedRead(offset, size)
  PROVE  StatsInv'
  <1>1. CASE Panic
    BY <1>1 DEF Panic, stats, StatsInv, StatsCanBeShown, UniqueBytesRead
  <1>2. CASE ~RecordPanics(offset, size) /\ RecordRead(offset, size)
    <2>1. size # 0 => ~(Max(ChunksOf(offset, size)) >= ChunkCount)
      BY <1>2 DEF RecordPanics
    <2>2. size # 0 => Max(ChunksOf(offset, size)) \in Nat
      BY ChunksOfRead
    <2>3. size # 0 => Max(ChunksOf(offset, size)) < ChunkCount
      BY <2>1, <2>2, ChunksOfFile
    <2> QED
      BY <1>2, <2>3, RecordKeeps
  <1> QED
    BY <1>1, <1>2 DEF CountedRead

\* A string that is found in the file, with its delimiter, lies in the file.
LEMMA FoundInFile ==
  ASSUME NEW start \in Nat, NEW end \in Nat, NEW delim,
         SliceReadBytesAtUntil(start, end, delim).status = "ok"
  PROVE  LET read == Cardinality(DOMAIN SliceReadBytesAtUntil(start, end, delim).bytes) + 1
         IN  read \in Nat /\ read > 0 /\ start + read <= FileLen
  <1> DEFINE hits == Hits(start, end, delim)
             len == Min(hits) - start
  <1>1. start <= end /\ end <= FileLen /\ hits # {}
    BY FileAssumption DEF SliceReadBytesAtUntil, Fail
  <1>2. SliceReadBytesAtUntil(start, end, delim).bytes = FileBytes(start, Min(hits))
    BY <1>1, FileAssumption DEF SliceReadBytesAtUntil, Ok
  <1>3. hits \subseteq start .. end - 1
    BY DEF Hits
  <1>4. hits \subseteq Nat
    BY <1>3
  <1>5. Min(hits) \in hits
    <2> HIDE DEF hits
    <2>1. \E k \in hits : \A l \in hits : k <= l
      BY <1>1, <1>4, LeastElement
    <2> QED
      BY <2>1 DEF Min
  <1>6. Min(hits) \in start .. end - 1
    BY <1>3, <1>5
  <1>7. len \in Nat /\ start + len < FileLen
    BY <1>1, <1>6, FileAssumption
  <1>8. DOMAIN FileBytes(start, Min(hits)) = 0 .. len - 1
    BY DEF FileBytes
  <1>9. Cardinality(0 .. len - 1) = len
    <2> HIDE DEF len
    <2> QED
      BY <1>7, FS_Interval
  <1> HIDE DEF len
  <1>10. Cardinality(DOMAIN SliceReadBytesAtUntil(start, end, delim).bytes) = len
    BY <1>2, <1>8, <1>9
  <1> QED
    BY <1>7, <1>10, FileAssumption

\* A part of the file has chunks of the file.
LEMMA ChunksInFile ==
  ASSUME NEW start \in Nat, NEW size \in Nat, size # 0, start + size <= FileLen
  PROVE  Max(ChunksOf(start, size)) < ChunkCount
  <1>1. start + size - 1 \in Nat /\ start + size - 1 <= FileLen - 1 /\ FileLen - 1 \in Nat
    BY FileAssumption, RangeAssumption
  <1>2. ChunkSize \in Nat \ {0}
    BY RangeAssumption
  <1>3. (start + size - 1) \div ChunkSize <= (FileLen - 1) \div ChunkSize
    BY <1>1, <1>2, DivisionMonotone
  <1>4. Max(ChunksOf(start, size)) = (start + size - 1) \div ChunkSize
    BY ChunksOfRead
  <1>5. (FileLen - 1) \div ChunkSize \in Nat /\ (start + size - 1) \div ChunkSize \in Nat
    BY <1>1, <1>2, Division
  <1> QED
    BY <1>3, <1>4, <1>5 DEF ChunkCount

-----------------------------------------------------------------------------
(* The invariant *)

LEMMA InitHolds == Init => RangesInv
  <1> SUFFICES ASSUME Init PROVE RangesInv
    OBVIOUS
  <1>1. view.range_start = 0 /\ view.range_size \in Nat
    BY FileAssumption DEF Init, View
  <1>2. UniqueBytesRead = 0
    BY FS_EmptySet, RangeAssumption DEF Init, UniqueBytesRead
  <1> QED
    BY <1>1, <1>2 DEF Init, RangesInv, StatsInv, StatsCanBeShown

LEMMA UnchangedStats == StatsInv /\ UNCHANGED stats => StatsInv'
  BY DEF stats, StatsInv, StatsCanBeShown, UniqueBytesRead

LEMMA ReadBytesAtKeeps ==
  ASSUME RangesInv, NEW offset \in U64, NEW size \in U64, ReadBytesAt(offset, size)
  PROVE  RangesInv'
  <1>1. view.range_start + offset \in Nat /\ size \in Nat /\ UNCHANGED view
    BY FileAssumption DEF RangesInv, U64, ReadBytesAt
  <1>2. StatsInv'
    BY <1>1, CountedReadKeeps, UnchangedStats DEF RangesInv, ReadBytesAt
  <1> QED
    BY <1>1, <1>2 DEF RangesInv

LEMMA ReadBytesIntoKeeps ==
  ASSUME RangesInv, NEW offset \in U64, NEW size \in U64, ReadBytesInto(offset, size)
  PROVE  RangesInv'
  <1>1. offset \in Nat /\ size \in Nat /\ UNCHANGED view
    BY FileAssumption DEF U64, ReadBytesInto
  <1>2. StatsInv'
    BY <1>1, CountedReadKeeps DEF RangesInv, ReadBytesInto
  <1> QED
    BY <1>1, <1>2 DEF RangesInv

LEMMA ReadBytesAtUntilKeeps ==
  ASSUME RangesInv, NEW start \in U64, NEW end \in U64, NEW delim,
         ReadBytesAtUntil(start, end, delim)
  PROVE  RangesInv'
  <1> DEFINE found == SliceReadBytesAtUntil(view.range_start + start, view.range_start + end, delim)
             read == Cardinality(DOMAIN found.bytes) + 1
  <1>1. view.range_start + start \in Nat /\ view.range_start + end \in Nat /\ UNCHANGED view
    BY FileAssumption DEF RangesInv, U64, ReadBytesAtUntil
  <1>2. CASE UNCHANGED stats
    BY <1>1, <1>2, UnchangedStats DEF RangesInv
  <1>3. CASE found.status = "ok" /\ RecordRead(view.range_start + start, read)
    <2>1. read \in Nat /\ read > 0 /\ view.range_start + start + read <= FileLen
      BY <1>1, <1>3, FoundInFile
    <2> HIDE DEF read, found
    <2>2. Max(ChunksOf(view.range_start + start, read)) < ChunkCount
      BY <1>1, <2>1, ChunksInFile
    <2>3. StatsInv'
      BY <1>1, <1>3, <2>1, <2>2, RecordKeeps DEF RangesInv
    <2> QED
      BY <1>1, <2>3 DEF RangesInv
  <1> QED
    BY <1>2, <1>3 DEF ReadBytesAtUntil, ShiftedUntil

LEMMA NextKeeps ==
  ASSUME RangesInv, Next
  PROVE  RangesInv'
  <1>1. ASSUME NEW a \in U64, NEW b \in U64, MakeSubrange(a, b) PROVE RangesInv'
    BY <1>1, UnchangedStats, FileAssumption DEF RangesInv, MakeSubrange, View, U64
  <1> QED
    BY <1>1, ReadBytesAtKeeps, ReadBytesIntoKeeps, ReadBytesAtUntilKeeps DEF Next

LEMMA RangesInvHolds == Spec => []RangesInv
  <1>1. RangesInv /\ UNCHANGED vars => RangesInv'
    BY UnchangedStats DEF RangesInv, vars
  <1> QED
    BY <1>1, InitHolds, NextKeeps, PTL DEF Spec

-----------------------------------------------------------------------------
(* Theorems *)

\* In whatever order reads overlap, the display of the statistics never subtracts more than
\* there is, does not divide by zero once a read was counted, and no chunk is counted that the
\* file does not have.
THEOREM StatisticsAreConsistent == Spec => []StatsCanBeShown
  <1>1. RangesInv => StatsCanBeShown
    BY DEF RangesInv, StatsInv
  <1> QED
    BY <1>1, RangesInvHolds, PTL

-----------------------------------------------------------------------------
(* What a view reads *)

\* A part of the file can be read, and the statistics have its chunks.
LEMMA PartIsRead ==
  ASSUME NEW start \in Nat, NEW size \in Nat, start + size <= FileLen, CountedRead(start, size)
  PROVE  reply' = Ok([k \in 0 .. size - 1 |-> Content[start + k]])
  <1>1. FileLen \in Nat /\ MaxU64 \in Nat /\ FileLen <= MaxU64
    BY FileAssumption, RangeAssumption
  <1>2. ~RecordPanics(start, size)
    <2>1. size # 0 => Max(ChunksOf(start, size)) < ChunkCount
      BY ChunksInFile
    <2>2. size # 0 => Max(ChunksOf(start, size)) \in Nat
      BY ChunksOfRead
    <2>3. size # 0 => ~(Max(ChunksOf(start, size)) >= ChunkCount)
      BY <2>1, <2>2, ChunksOfFile
    <2>4. ~(start + size > MaxU64)
      BY <1>1
    <2> QED
      BY <2>3, <2>4 DEF RecordPanics
  <1>3. reply' = SliceReadBytesAt(start, size)
    BY <1>2 DEF CountedRead
  <1>4. start <= FileLen /\ size <= FileLen - start /\ start + size - start - 1 = size - 1
    BY <1>1
  <1>5. SliceReadBytesAt(start, size) = Ok(FileBytes(start, start + size))
    BY <1>4 DEF SliceReadBytesAt
  <1>6. FileBytes(start, start + size) = [k \in 0 .. size - 1 |-> Content[start + k]]
    BY <1>4 DEF FileBytes
  <1> QED
    BY <1>3, <1>5, <1>6

\* Where a read through a view is in the file.
LEMMA ShiftedRange ==
  ASSUME NEW base \in Nat, NEW start \in Nat, NEW end \in Nat,
         base + end <= FileLen, start <= end
  PROVE  /\ base + start \in Nat /\ base + end \in Nat
         /\ base + start <= base + end /\ base + end <= FileLen /\ base + end <= MaxU64
  BY FileAssumption, RangeAssumption

LEMMA BytesAreRight ==
  ASSUME RangesInv, NEW op \in {"read_bytes_at", "read_bytes_into"},
         NEW offset \in Nat, NEW size \in Nat, ReadIsInFile',
         call' = Called(op, offset, offset + size, NoDelim), UNCHANGED view,
         \/ view.range_start + offset > MaxU64
         \/ CountedRead(view.range_start + offset, size)
  PROVE  AnswerIsRight'
  <1> DEFINE at == view.range_start + offset
  <1>1. view.range_start \in Nat /\ view.range_start + (offset + size) <= FileLen
    BY DEF RangesInv, ReadIsInFile, Called
  <1>2. at \in Nat /\ at + size <= FileLen /\ ~(at > MaxU64)
    BY <1>1, FileAssumption, RangeAssumption
  <1>3. reply' = Ok([k \in 0 .. size - 1 |-> Content[at + k]])
    BY <1>2, PartIsRead
  <1>4. call'.op = op /\ call'.start = offset /\ call'.end = offset + size
    BY DEF Called
  <1>5. call'.end - call'.start - 1 = size - 1
    BY <1>4
  <1>6. \A k \in 0 .. size - 1 : at + k = view.range_start + (offset + k)
    BY <1>1
  <1>7. reply' = Ok([k \in 0 .. size - 1 |-> Content[view'.range_start + (call'.start + k)]])
    BY <1>3, <1>4, <1>6
  <1> QED
    BY <1>4, <1>5, <1>7 DEF AnswerIsRight, At

\* The string at lo, or none if there is no delimiter before hi.
FoundString(lo, hi, delim, n) ==
  lo + n < hi /\ Content[lo + n] = delim /\ \A k \in 0 .. n - 1 : Content[lo + k] # delim
NoString(lo, hi, delim) == \A k \in lo .. hi - 1 : Content[k] # delim
StringBytes(lo, n) == Ok([k \in 0 .. n - 1 |-> Content[lo + k]])

LEMMA StringInPart ==
  ASSUME NEW lo \in Nat, NEW hi \in Nat, lo <= hi, hi <= FileLen, NEW delim
  PROVE  \/ SliceReadBytesAtUntil(lo, hi, delim) = Fail("no_delimiter") /\ NoString(lo, hi, delim)
         \/ \E n \in Nat : /\ SliceReadBytesAtUntil(lo, hi, delim) = StringBytes(lo, n)
                           /\ FoundString(lo, hi, delim, n)
  <1> DEFINE hits == Hits(lo, hi, delim)
             first == Min(hits)
             n == first - lo
  <1>1. ~(hi < lo) /\ ~(hi > FileLen)
    BY FileAssumption
  <1>2. \A k : k \in hits <=> k \in lo .. hi - 1 /\ Content[k] = delim
    BY DEF Hits
  <1>3. CASE hits = {}
    <2>1. SliceReadBytesAtUntil(lo, hi, delim) = Fail("no_delimiter")
      BY <1>1, <1>3 DEF SliceReadBytesAtUntil
    <2> HIDE DEF hits
    <2> QED
      BY <1>2, <1>3, <2>1 DEF NoString
  <1>4. CASE hits # {}
    <2>1. SliceReadBytesAtUntil(lo, hi, delim) = Ok(FileBytes(lo, first))
      BY <1>1, <1>4 DEF SliceReadBytesAtUntil
    <2> HIDE DEF hits
    <2>2. first \in hits /\ \A k \in hits : first <= k
      <3>1. hits \subseteq Nat
        BY <1>2
      <3>2. \E k \in hits : \A l \in hits : k <= l
        BY <1>4, <3>1, LeastElement
      <3> QED
        BY <3>2 DEF Min
    <2> HIDE DEF first
    <2>3. first \in lo .. hi - 1 /\ Content[first] = delim
      BY <1>2, <2>2
    <2>4. n \in Nat /\ first = lo + n /\ lo + n < hi /\ first - lo - 1 = n - 1
      BY <2>3
    <2>5. FileBytes(lo, first) = [k \in 0 .. n - 1 |-> Content[lo + k]]
      BY <2>4 DEF FileBytes
    <2> HIDE DEF n
    <2>6. \A k \in 0 .. n - 1 : Content[lo + k] # delim
      <3> TAKE k \in 0 .. n - 1
      <3>1. lo + k \in lo .. hi - 1 /\ ~(first <= lo + k)
        BY <2>4
      <3> QED
        BY <1>2, <2>2, <3>1
    <2>7. SliceReadBytesAtUntil(lo, hi, delim) = StringBytes(lo, n)
      BY <2>1, <2>5 DEF StringBytes
    <2>8. FoundString(lo, hi, delim, n)
      BY <2>3, <2>4, <2>6 DEF FoundString
    <2> QED
      BY <2>4, <2>7, <2>8
  <1> QED
    BY <1>3, <1>4

LEMMA StringIsRight ==
  ASSUME RangesInv, NEW start \in U64, NEW end \in U64, NEW delim, ReadIsInFile',
         ReadBytesAtUntil(start, end, delim)
  PROVE  AnswerIsRight'
  <1> DEFINE base == view.range_start
             lo == base + start
  <1>1. /\ call' = Called("read_bytes_at_until", start, end, delim) /\ UNCHANGED view
        /\ start \in Nat /\ end \in Nat /\ base \in Nat /\ view.range_size \in Nat
    BY FileAssumption DEF ReadBytesAtUntil, U64, RangesInv
  <1>2. call'.op = "read_bytes_at_until" /\ call'.start = start /\ call'.end = end /\ call'.delim = delim
    BY <1>1 DEF Called
  <1>3. start <= end /\ base + end <= FileLen
    BY <1>1, <1>2 DEF ReadIsInFile
  <1>4. lo \in Nat /\ base + end \in Nat /\ lo <= base + end /\ base + end <= FileLen /\ base + end <= MaxU64
    BY <1>1, <1>3, ShiftedRange
  <1>5. reply' = SliceReadBytesAtUntil(lo, base + end, delim)
    <2>1. ~(end < start) /\ ~(base + end > MaxU64)
      BY <1>1, <1>3, <1>4, FileAssumption
    <2> QED
      BY <2>1 DEF ReadBytesAtUntil, ShiftedUntil
  <1>6. CASE reply' = Fail("no_delimiter") /\ NoString(lo, base + end, delim)
    <2>1. \A k \in start .. end - 1 : Content[base + k] # delim
      <3> DEFINE hi == base + end
      <3>1. \A k \in lo .. hi - 1 : Content[k] # delim
        BY <1>6 DEF NoString
      <3>2. \A k \in start .. end - 1 : base + k \in lo .. hi - 1
        BY <1>1
      <3> HIDE DEF lo, hi
      <3> QED
        BY <3>1, <3>2
    <2>2. reply'.status = "no_delimiter"
      BY <1>6 DEF Fail
    <2> QED
      BY <1>1, <1>2, <2>1, <2>2 DEF AnswerIsRight, At
  <1>7. ASSUME NEW n \in Nat, reply' = StringBytes(lo, n), FoundString(lo, base + end, delim, n)
        PROVE  AnswerIsRight'
    <2>1. /\ lo + n < base + end /\ Content[lo + n] = delim
          /\ \A k \in 0 .. n - 1 : Content[lo + k] # delim
      BY <1>7 DEF FoundString
    <2>2. reply'.status = "ok" /\ reply'.bytes = [k \in 0 .. n - 1 |-> Content[lo + k]]
      BY <1>7 DEF Ok, StringBytes
    <2>3. FoundLen' = n
      <3>1. DOMAIN reply'.bytes = 0 .. n - 1
        BY <2>2
      <3>2. Cardinality(0 .. n - 1) = n
        BY FS_Interval
      <3> QED
        BY <3>1, <3>2 DEF FoundLen
    <2>4. \A k \in Int : lo + k = base + (start + k)
      BY <1>1
    <2>5. start + n < end
      BY <1>1, <2>1
    <2> HIDE DEF lo
    <2>6. \A k \in 0 .. n - 1 :
            reply'.bytes[k] = Content[base + (start + k)] /\ Content[base + (start + k)] # delim
      BY <2>2, <2>4, <2>1
    <2>7. Content[base + (start + n)] = delim
      BY <2>4, <2>1
    <2> QED
      BY <1>1, <1>2, <2>2, <2>3, <2>5, <2>6, <2>7 DEF AnswerIsRight, At
  <1> QED
    <2> DEFINE hi == base + end
    <2>1. hi \in Nat /\ lo <= hi /\ hi <= FileLen
      BY <1>4
    <2> HIDE DEF lo, hi
    <2>2. \/ SliceReadBytesAtUntil(lo, hi, delim) = Fail("no_delimiter") /\ NoString(lo, hi, delim)
          \/ \E n \in Nat : /\ SliceReadBytesAtUntil(lo, hi, delim) = StringBytes(lo, n)
                            /\ FoundString(lo, hi, delim, n)
      BY <1>4, <2>1, StringInPart
    <2> QED
      BY <1>5, <1>6, <1>7, <2>2 DEF hi

LEMMA ReadIsRight ==
  ASSUME RangesInv, Next, ReadIsInFile', call' # call
  PROVE  AnswerIsRight'
  <1>1. \A a \in U64 : a \in Nat
    BY FileAssumption DEF U64
  <1>2. ASSUME NEW a \in U64, NEW b \in U64, MakeSubrange(a, b) PROVE FALSE
    BY <1>2 DEF MakeSubrange
  <1>3. ASSUME NEW a \in U64, NEW b \in U64, ReadBytesAt(a, b) PROVE AnswerIsRight'
    <2>1. /\ call' = Called("read_bytes_at", a, a + b, NoDelim) /\ UNCHANGED view
          /\ view.range_start + a > MaxU64 \/ CountedRead(view.range_start + a, b)
      BY <1>3 DEF ReadBytesAt
    <2> QED
      BY <1>1, <2>1, BytesAreRight
  <1>4. ASSUME NEW a \in U64, NEW b \in U64, ReadBytesInto(a, b) PROVE AnswerIsRight'
    <2>1. /\ call' = Called("read_bytes_into", a, a + b, NoDelim) /\ UNCHANGED view
          /\ CountedRead(a, b) /\ view.range_start = 0
      BY <1>4 DEF ReadBytesInto, View
    <2>2. view.range_start + a = a
      BY <1>1, <2>1
    <2> QED
      BY <1>1, <2>1, <2>2, BytesAreRight
  <1> QED
    BY <1>2, <1>3, <1>4, StringIsRight DEF Next

\* For every file and any views of views, a read that is in the file, if it goes on behind the end of
\* the view or not, is answered with the bytes from the start of the view on, and the statistics do
\* not stop it.
THEOREM ReadsAreShifted == Spec => ViewsShiftReads
  <1>1. RangesInv /\ [Next]_vars => [ReadIsInFile' /\ call' # call => AnswerIsRight']_vars
    BY ReadIsRight
  <1> QED
    BY <1>1, RangesInvHolds, PTL DEF Spec, ViewsShiftReads

(***************************************************************************)
(* Debug sections                                                          *)
(***************************************************************************)
Listed(s) == s \in Seq({s[k] : k \in DOMAIN s})
Extents == [range_start : Nat, range_size : Nat]

\* The range start .. start + size - 1 is a part of a section that is not compressed.
PartOf(k, start, size) ==
  IsPlain(k) /\ Start(k) <= start /\ start + size <= Start(k) + Section(k).size
InSection(start, size) == size > 0 => \E k \in DOMAIN SectionIds : PartOf(k, start, size)

SomeIsCut == \E k \in DOMAIN SectionIds : IsCut(k)

\* Until an object is opened, views are only read.
Unopened ==
  /\ data = << >> /\ slices = << >> /\ readers = << >> /\ finding = {} /\ context = "none"
  /\ call.op = "none" => Running
Opened ==
  /\ object \in Objects /\ view.range_start \in ObjectStarts
  /\ data = [k \in DOMAIN SectionIds |-> GetSectionData(object[SectionIds[k]])]
  /\ Running \/ SomeIsCut
ObjectInv == IF object = NoObject THEN Unopened ELSE Opened

SliceIsSection(k) ==
  /\ IsPlain(k) => slices[k] = BytesAt(Start(k), Section(k).size) /\ ~IsCut(k)
  /\ IsInflated(k) => slices[k] \in Section(k).inflated
  /\ ~IsPlain(k) /\ ~IsInflated(k) => slices[k] = << >>
SlicesInv ==
  /\ Listed(slices) /\ Len(slices) <= Len(data)
  /\ context = "none" /\ data # << >> => Len(slices) < Len(data)
  /\ object # NoObject => \A k \in DOMAIN slices : SliceIsSection(k)

ContextInv ==
  /\ context \in {"none", "slices", "readers", "refused"}
  /\ context = "refused" => \E k \in DOMAIN SectionIds : IsInflated(k)
  /\ context = "readers" => \A k \in DOMAIN SectionIds : ~IsInflated(k)
  /\ readers # << >> => context = "readers"

AllInSections(rs) ==
  /\ rs \in Seq(Extents)
  /\ \A i \in DOMAIN rs : InSection(rs[i].range_start, rs[i].range_size)
ReadersInv == AllInSections(readers)

\* What a find has seen: bytes of the file, and not the one that it looks for.
Seen(i, byte, pos) ==
  /\ pos \in StartOf(i) .. StartOf(i) + SizeOf(i)
  /\ pos # StartOf(i) => pos <= FileLen
  /\ \A p \in StartOf(i) .. pos - 1 : Content[p] # byte
FindInv ==
  finding # {} =>
    \E i \in DOMAIN readers, byte \in Delims, pos \in Nat :
      /\ finding = {[reader |-> i, byte |-> byte, chunk_start |-> pos]}
      /\ Seen(i, byte, pos)

SectionInv ==
  RangesInv /\ ObjectInv /\ SlicesInv /\ ContextInv /\ ReadersInv /\ FindInv

-----------------------------------------------------------------------------
(* Sequences *)

LEMMA ListedSequence ==
  ASSUME NEW s, Listed(s)
  PROVE  Len(s) \in Nat /\ DOMAIN s = 1 .. Len(s)
  BY DEF Listed

LEMMA AppendToListed ==
  ASSUME NEW s, Listed(s), NEW x
  PROVE  /\ Listed(Append(s, x)) /\ Len(Append(s, x)) = Len(s) + 1
         /\ DOMAIN Append(s, x) = 1 .. Len(s) + 1
         /\ \A k \in 1 .. Len(s) : Append(s, x)[k] = s[k]
         /\ Append(s, x)[Len(s) + 1] = x
  <1> DEFINE new == {s[k] : k \in DOMAIN s} \cup {x}
             longer == Append(s, x)
  <1>1. s \in Seq(new) /\ x \in new
    BY DEF Listed
  <1>2. /\ longer \in Seq(new) /\ Len(longer) = Len(s) + 1
        /\ DOMAIN longer = 1 .. Len(s) + 1 /\ Len(s) \in Nat /\ DOMAIN s = 1 .. Len(s)
        /\ \A k \in 1 .. Len(s) : longer[k] = s[k]
        /\ longer[Len(s) + 1] = x
    BY <1>1
  <1>3. {longer[k] : k \in DOMAIN longer} = new
    BY <1>2
  <1> QED
    BY <1>2, <1>3 DEF Listed

LEMMA BytesAtIsSequence ==
  ASSUME NEW start, NEW size \in Nat
  PROVE  /\ Listed(BytesAt(start, size)) /\ Len(BytesAt(start, size)) = size
         /\ DOMAIN BytesAt(start, size) = 1 .. size
         /\ \A k \in 1 .. size : BytesAt(start, size)[k] = ByteAt(start + k - 1)
  <1> DEFINE bytes == BytesAt(start, size)
  <1>1. /\ DOMAIN bytes = 1 .. size
        /\ \A k \in 1 .. size : bytes[k] = ByteAt(start + k - 1)
    BY DEF BytesAt
  <1>2. bytes = [k \in 1 .. size |-> bytes[k]]
    BY <1>1 DEF BytesAt
  <1> HIDE DEF bytes
  <1>3. Listed(bytes) /\ Len(bytes) = size
    BY <1>1, <1>2 DEF Listed
  <1> QED
    BY <1>1, <1>3 DEF bytes

LEMMA BytesFrom ==
  ASSUME NEW start \in Nat, NEW size \in Nat, NEW n \in 0 .. size
  PROVE  SubSeq(BytesAt(start, size), n + 1, size) = BytesAt(start + n, size - n)
  <1>1. SubSeq(BytesAt(start, size), n + 1, size)
         = [k \in 1 .. size - n |-> BytesAt(start, size)[k + n]]
    BY BytesAtIsSequence
  <1>2. \A k \in 1 .. size - n : BytesAt(start, size)[k + n] = ByteAt(start + n + k - 1)
    BY DEF BytesAt
  <1> QED
    BY <1>1, <1>2 DEF BytesAt

LEMMA BytesUpto ==
  ASSUME NEW start \in Nat, NEW size \in Nat, NEW n \in 0 .. size
  PROVE  SubSeq(BytesAt(start, size), 1, n) = BytesAt(start, n)
  <1>1. SubSeq(BytesAt(start, size), 1, n) = [k \in 1 .. n |-> BytesAt(start, size)[k]]
    BY BytesAtIsSequence
  <1>2. \A k \in 1 .. n : BytesAt(start, size)[k] = ByteAt(start + k - 1)
    BY DEF BytesAt
  <1> QED
    BY <1>1, <1>2 DEF BytesAt

LEMMA NoBytesAt ==
  ASSUME NEW start
  PROVE  BytesAt(start, 0) = << >>
  BY DEF BytesAt

-----------------------------------------------------------------------------
(* Sections *)

\* Of an object that was opened: its sections are where the offsets say, below 2^64.
LEMMA SectionTypes ==
  ASSUME Opened, NEW k \in DOMAIN SectionIds
  PROVE  /\ Start(k) \in Nat /\ Section(k).size \in Nat /\ Section(k).plain \in BOOLEAN
         /\ Start(k) + Section(k).size <= MaxU64
         /\ view.range_start \in Nat /\ view.range_start <= FileLen
         /\ Start(k) = view.range_start + Section(k).offset
  <1>1. view.range_start \in 0 .. FileLen
    BY SectionAssumption DEF Opened
  <1>2. /\ Section(k).plain \in BOOLEAN /\ Section(k).offset \in Nat /\ Section(k).size \in Nat
        /\ view.range_start + Section(k).offset + Section(k).size <= MaxU64
    BY SectionAssumption DEF Opened, Section
  <1> QED
    BY <1>1, <1>2, FileAssumption DEF Start

\* What from_object keeps of a section.
LEMMA DataOfSections ==
  ASSUME Opened
  PROVE  /\ Len(data) = Len(SectionIds) /\ Len(data) \in Nat /\ DOMAIN data = DOMAIN SectionIds
         /\ \A k \in DOMAIN SectionIds :
              /\ IsPlain(k) => data[k] = ViewData(View(Start(k), Section(k).size))
              /\ IsInflated(k) => data[k].owned # {} /\ data[k].owned \subseteq Section(k).inflated
              /\ ~IsPlain(k) /\ ~IsInflated(k) => data[k] = ViewData(View(view.range_start, 0))
              /\ data[k].owned # {} => IsInflated(k)
  <1>1. /\ DOMAIN data = DOMAIN SectionIds
        /\ \A k \in DOMAIN SectionIds : data[k] = GetSectionData(Section(k))
    BY DEF Opened, Section
  <1>2. /\ DOMAIN data = 1 .. Len(SectionIds) /\ Len(SectionIds) \in Nat
        /\ data = [k \in 1 .. Len(SectionIds) |-> data[k]]
    BY <1>1, SectionAssumption DEF Opened
  <1>3. Len(data) = Len(SectionIds)
    BY <1>2
  <1>4. ASSUME NEW k \in DOMAIN SectionIds
        PROVE  /\ IsPlain(k) => data[k] = ViewData(View(Start(k), Section(k).size))
               /\ IsInflated(k) => data[k].owned # {} /\ data[k].owned \subseteq Section(k).inflated
               /\ ~IsPlain(k) /\ ~IsInflated(k) => data[k] = ViewData(View(view.range_start, 0))
               /\ data[k].owned # {} => IsInflated(k)
    <2>1. data[k] = GetSectionData(Section(k))
      BY <1>1
    <2>2. CASE IsPlain(k)
      BY <2>1, <2>2 DEF GetSectionData, IsPlain, IsInflated, Start, Subrange, ViewData
    <2>3. CASE IsInflated(k)
      <3>1. data[k] = OwnedData(CHOOSE bytes \in Section(k).inflated : TRUE)
        BY <2>1, <2>3 DEF GetSectionData, IsPlain, IsInflated
      <3>2. (CHOOSE bytes \in Section(k).inflated : TRUE) \in Section(k).inflated
        BY <2>3 DEF IsInflated
      <3> QED
        BY <2>3, <3>1, <3>2 DEF IsInflated, OwnedData
    <2>4. CASE ~IsPlain(k) /\ ~IsInflated(k)
      <3>1. data[k] = ViewData(View(view.range_start + 0, 0))
        BY <2>1, <2>4 DEF GetSectionData, IsPlain, IsInflated, Subrange
      <3>2. view.range_start + 0 = view.range_start
        BY SectionTypes
      <3> QED
        BY <2>4, <3>1, <3>2 DEF ViewData
    <2> QED
      BY <2>2, <2>3, <2>4
  <1> QED
    BY <1>2, <1>3, <1>4

-----------------------------------------------------------------------------
(* Reads of the file *)

LEMMA FetchKeeps ==
  ASSUME RangesInv, NEW start \in Nat, NEW size \in Nat, Fetch(start, size)
  PROVE  RangesInv'
  <1>1. size # 0 => ~(Max(ChunksOf(start, size)) >= ChunkCount)
    BY DEF Fetch, RecordPanics
  <1>2. size # 0 => Max(ChunksOf(start, size)) \in Nat
    BY ChunksOfRead
  <1>3. size # 0 => Max(ChunksOf(start, size)) < ChunkCount
    BY <1>1, <1>2, ChunksOfFile
  <1>4. StatsInv /\ RecordRead(start, size) /\ UNCHANGED view
    BY DEF RangesInv, Fetch
  <1> QED
    BY <1>3, <1>4, RecordKeeps DEF RangesInv

\* The statistics stop the program only for a section that is cut off.
LEMMA PanicMeansCut ==
  ASSUME Opened, NEW start \in Nat, NEW size \in Nat, InSection(start, size),
         RecordPanics(start, size)
  PROVE  SomeIsCut
  <1>1. size # 0
    BY DEF RecordPanics
  <1>2. PICK k \in DOMAIN SectionIds : PartOf(k, start, size)
    BY <1>1 DEF InSection
  <1>3. SUFFICES ASSUME ~IsCut(k) PROVE FALSE
    BY DEF SomeIsCut
  <1>4. start + size <= FileLen /\ start + size <= MaxU64
    BY <1>2, <1>3, SectionTypes, FileAssumption DEF PartOf, IsCut
  <1>5. Max(ChunksOf(start, size)) < ChunkCount
    BY <1>1, <1>4, ChunksInFile
  <1>6. Max(ChunksOf(start, size)) \in Nat
    BY <1>1, ChunksOfRead
  <1> QED
    BY <1>4, <1>5, <1>6, ChunksOfFile, FileAssumption DEF RecordPanics

LEMMA FetchPanicsKeeps ==
  ASSUME SectionInv, object # NoObject, NEW start \in Nat, NEW size \in Nat,
         InSection(start, size), FetchPanics(start, size)
  PROVE  SectionInv'
  <1>1. /\ UNCHANGED <<stats, view, call, object, data, context, slices, readers, finding>>
        /\ RecordPanics(start, size)
    BY DEF FetchPanics, Panic, sections, reading
  <1>2. Opened /\ SomeIsCut
    BY <1>1, PanicMeansCut DEF SectionInv, ObjectInv
  <1>3. RangesInv'
    BY <1>1, UnchangedStats DEF SectionInv, RangesInv
  <1>4. ObjectInv'
    BY <1>1, <1>2 DEF ObjectInv, Opened, SomeIsCut, IsCut, IsPlain, Start, Section, GetSectionData,
       Subrange
  <1>5. SlicesInv'
    BY <1>1 DEF SectionInv, SlicesInv, SliceIsSection, IsCut, IsPlain, IsInflated, Start, Section
  <1>6. ContextInv' /\ ReadersInv' /\ FindInv'
    BY <1>1 DEF SectionInv, ContextInv, IsInflated, IsPlain, Section, ReadersInv, AllInSections, InSection, PartOf,
       Start, StartOf, SizeOf, FindInv, Seen
  <1> QED
    BY <1>3, <1>4, <1>5, <1>6 DEF SectionInv

\* A step that changes readers only, and the statistics.
Quiet == UNCHANGED <<view, call, reply, object, data, context, slices>>

LEMMA QuietKeeps ==
  ASSUME SectionInv, Quiet, RangesInv', ReadersInv', FindInv',
         object # NoObject, readers' # << >> => context = "readers"
  PROVE  SectionInv'
  <1>1. ObjectInv'
    BY DEF SectionInv, Quiet, ObjectInv, Opened, SomeIsCut, IsCut, IsPlain, Start, Section,
       GetSectionData, Subrange, Running
  <1>2. SlicesInv'
    BY DEF SectionInv, Quiet, SlicesInv, SliceIsSection, IsCut, IsPlain, IsInflated, Start, Section
  <1>3. ContextInv'
    BY DEF SectionInv, Quiet, ContextInv, IsInflated, IsPlain, Section
  <1> QED
    BY <1>1, <1>2, <1>3 DEF SectionInv

-----------------------------------------------------------------------------
(* Making sections and readers *)

LEMMA ReadViewsKeeps ==
  ASSUME SectionInv, ReadViews
  PROVE  SectionInv'
  <1>1. object = NoObject /\ Next
        /\ UNCHANGED <<object, data, context, slices, readers, finding>>
    BY DEF ReadViews, sections, reading
  <1>2. RangesInv'
    BY <1>1, NextKeeps DEF SectionInv
  <1>3. call'.op = "none" => UNCHANGED <<call, reply>>
    BY <1>1 DEF Next, MakeSubrange, ReadBytesAt, ReadBytesInto, ReadBytesAtUntil, Called
  <1>4. ObjectInv'
    BY <1>1, <1>3 DEF SectionInv, ObjectInv, Unopened, Running
  <1>5. SlicesInv' /\ ContextInv' /\ ReadersInv' /\ FindInv'
    BY <1>1, <1>4 DEF SectionInv, ObjectInv, Unopened, SlicesInv, ContextInv, ReadersInv,
       AllInSections, FindInv
  <1> QED
    BY <1>2, <1>4, <1>5 DEF SectionInv

LEMMA FromObjectKeeps ==
  ASSUME SectionInv, FromObject
  PROVE  SectionInv'
  <1>1. /\ object = NoObject /\ call.op = "none" /\ UNCHANGED <<vars, context, slices, reading>>
        /\ object' \in Objects
        /\ data' = [k \in DOMAIN SectionIds |-> GetSectionData(object'[SectionIds[k]])]
        /\ view.range_start \in ObjectStarts
    BY DEF FromObject, View
  <1>2. /\ UNCHANGED <<stats, view, call, reply, context, slices, readers, finding>>
        /\ slices = << >> /\ readers = << >> /\ finding = {} /\ context = "none" /\ Running
    BY <1>1 DEF SectionInv, ObjectInv, Unopened, vars, reading
  <1>3. object' # NoObject
    BY <1>1, SectionAssumption
  <1>4. RangesInv'
    BY <1>2, UnchangedStats DEF SectionInv, RangesInv
  <1>5. Opened'
    BY <1>1, <1>2 DEF Opened, Running, GetSectionData, Subrange
  <1>6. Len(data') \in Nat /\ DOMAIN data' = 1 .. Len(data')
    <2>1. /\ DOMAIN data' = 1 .. Len(SectionIds) /\ Len(SectionIds) \in Nat
          /\ data' = [k \in 1 .. Len(SectionIds) |-> data'[k]]
      BY <1>1, SectionAssumption
    <2> QED
      BY <2>1
  <1>7. SlicesInv'
    BY <1>2, <1>6 DEF SectionInv, SlicesInv
  <1>8. ContextInv' /\ ReadersInv' /\ FindInv'
    BY <1>2 DEF SectionInv, ContextInv, ReadersInv,
       AllInSections, FindInv
  <1> QED
    BY <1>3, <1>4, <1>5, <1>7, <1>8 DEF SectionInv, ObjectInv

\* One more slice, of the section that comes next.
LEMMA AddSliceKeeps ==
  ASSUME SectionInv, context = "none", data # << >>, NEW bytes, AddSlice(bytes), RangesInv',
         UNCHANGED <<view, call, reply, object, data>>,
         LET k == Len(slices) + 1
         IN  /\ IsPlain(k) => bytes = BytesAt(Start(k), Section(k).size) /\ ~IsCut(k)
             /\ IsInflated(k) => bytes \in Section(k).inflated
             /\ ~IsPlain(k) /\ ~IsInflated(k) => bytes = << >>
  PROVE  SectionInv'
  <1>1. object # NoObject /\ Opened
    BY DEF SectionInv, ObjectInv, Unopened
  <1>2. /\ slices' = Append(slices, bytes) /\ UNCHANGED <<readers, finding>>
        /\ context' = IF Len(slices) + 1 = Len(data) THEN "slices" ELSE "none"
    BY DEF AddSlice, reading
  <1>3. Listed(slices) /\ Len(slices) \in Nat /\ DOMAIN slices = 1 .. Len(slices)
        /\ Len(slices) < Len(data) /\ Len(data) \in Nat
    BY <1>1, ListedSequence, DataOfSections DEF SectionInv, SlicesInv
  <1>4. /\ Listed(slices') /\ Len(slices') = Len(slices) + 1
        /\ DOMAIN slices' = 1 .. Len(slices) + 1
        /\ \A k \in 1 .. Len(slices) : slices'[k] = slices[k]
        /\ slices'[Len(slices) + 1] = bytes
    BY <1>2, <1>3, AppendToListed
  <1>5. \A k \in 1 .. Len(slices) : SliceIsSection(k)'
    BY <1>1, <1>3, <1>4 DEF SectionInv, SlicesInv, SliceIsSection, IsCut, IsPlain, IsInflated, Start,
       Section
  <1>6. ASSUME NEW k, k = Len(slices) + 1 PROVE SliceIsSection(k)'
    <2>1. slices'[k] = bytes
      BY <1>4, <1>6
    <2> QED
      BY <1>6, <2>1 DEF SliceIsSection, IsCut, IsPlain, IsInflated, Start, Section
  <1>7. \A k \in 1 .. Len(slices) + 1 : SliceIsSection(k)'
    <2>1. \A k \in 1 .. Len(slices) + 1 : k \in 1 .. Len(slices) \/ k = Len(slices) + 1
      BY <1>3
    <2> QED
      BY <1>5, <1>6, <2>1
  <1>8. SlicesInv'
    <2>1. Len(slices') <= Len(data') /\ (context' = "none" => Len(slices') < Len(data'))
      BY <1>2, <1>3, <1>4
    <2> QED
      BY <1>4, <1>7, <2>1 DEF SlicesInv
  <1>9. ObjectInv'
    BY <1>1 DEF ObjectInv, Opened, SomeIsCut, IsCut, IsPlain, Start, Section, GetSectionData, Subrange,
       SectionInv, Running
  <1>10. readers = << >>
    BY DEF SectionInv, ContextInv
  <1>11. ContextInv' /\ ReadersInv' /\ FindInv'
    BY <1>2, <1>10 DEF SectionInv, ContextInv, ReadersInv, AllInSections, InSection, PartOf, IsPlain, Start, Section,
       StartOf, SizeOf, FindInv, Seen
  <1> QED
    BY <1>8, <1>9, <1>11 DEF SectionInv

LEMMA NextSectionInData ==
  ASSUME SectionInv, context = "none", data # << >>
  PROVE  Opened /\ object # NoObject /\ Len(slices) + 1 \in DOMAIN SectionIds
  <1>1. object # NoObject /\ Opened
    BY DEF SectionInv, ObjectInv, Unopened
  <1>2. Len(slices) \in Nat /\ Len(slices) < Len(data)
    BY ListedSequence DEF SectionInv, SlicesInv
  <1> QED
    BY <1>1, <1>2, DataOfSections, SectionAssumption

LEMMA ReadOwnedSectionKeeps ==
  ASSUME SectionInv, ReadOwnedSection
  PROVE  SectionInv'
  <1> DEFINE k == Len(slices) + 1
  <1>1. PICK bytes \in data[k].owned : AddSlice(bytes)
    BY DEF ReadOwnedSection, NextSection
  <1>2. context = "none" /\ data # << >> /\ UNCHANGED <<vars, object, data>>
    BY DEF ReadOwnedSection
  <1>3. UNCHANGED <<stats, view, call, reply, object, data>>
    BY <1>2 DEF vars
  <1>4. Opened /\ k \in DOMAIN SectionIds
    BY <1>2, NextSectionInData
  <1>5. IsInflated(k) /\ bytes \in Section(k).inflated
    BY <1>1, <1>4, DataOfSections
  <1>6. RangesInv'
    BY <1>3, UnchangedStats DEF SectionInv, RangesInv
  <1> QED
    BY <1>1, <1>2, <1>3, <1>5, <1>6, AddSliceKeeps DEF IsInflated

LEMMA ReadSectionKeeps ==
  ASSUME SectionInv, ReadSection
  PROVE  SectionInv'
  <1> DEFINE k == Len(slices) + 1
             start == data[k].range.range_start
             size == data[k].range.range_size
  <1>1. context = "none" /\ data # << >> /\ data[k].owned = {}
    BY DEF ReadSection, NextSection
  <1>2. Opened /\ object # NoObject /\ k \in DOMAIN SectionIds
    BY <1>1, NextSectionInData
  <1>3. /\ ~IsInflated(k)
        /\ IsPlain(k) => start = Start(k) /\ size = Section(k).size
        /\ ~IsPlain(k) => start = view.range_start /\ size = 0
    BY <1>1, <1>2, DataOfSections DEF ViewData, View
  <1>4. start \in Nat /\ size \in Nat
    BY <1>2, <1>3, SectionTypes
  <1>5. InSection(start, size)
    BY <1>2, <1>3, SectionTypes DEF InSection, PartOf
  <1>6. Got(start, size) <=> start <= FileLen /\ size <= FileLen - start
    BY DEF Got, SliceReadBytesAt, Ok, Fail
  <1>7. IsPlain(k) => (Got(start, size) <=> ~IsCut(k))
    BY <1>2, <1>3, <1>4, <1>6, SectionTypes, FileAssumption DEF IsCut
  <1>8. ~IsPlain(k) => Got(start, size)
    BY <1>2, <1>3, <1>4, <1>6, SectionTypes, FileAssumption
  <1>9. \/ FetchPanics(start, size)
        \/ /\ Fetch(start, size)
           /\ IF Got(start, size) THEN AddSlice(BytesAt(start, size)) /\ UNCHANGED reply
              ELSE reply' = Fail("panic") /\ UNCHANGED <<sections, reading>>
    BY DEF ReadSection, NextSection
  <1>10. CASE FetchPanics(start, size)
    BY <1>2, <1>4, <1>5, <1>10, FetchPanicsKeeps
  <1>11. CASE Fetch(start, size) /\ Got(start, size)
    <2>1. RangesInv'
      BY <1>4, <1>11, FetchKeeps DEF SectionInv
    <2>2. AddSlice(BytesAt(start, size)) /\ UNCHANGED <<view, call, reply, object, data>>
      BY <1>9, <1>11 DEF Fetch, FetchPanics
    <2>3. /\ IsPlain(k) => BytesAt(start, size) = BytesAt(Start(k), Section(k).size) /\ ~IsCut(k)
          /\ ~IsPlain(k) => BytesAt(start, size) = << >>
      BY <1>3, <1>7, <1>11, NoBytesAt
    <2> QED
      BY <1>1, <1>3, <2>1, <2>2, <2>3, AddSliceKeeps
  <1>12. CASE Fetch(start, size) /\ ~Got(start, size)
    <2>1. RangesInv'
      BY <1>4, <1>12, FetchKeeps DEF SectionInv
    <2>2. UNCHANGED <<view, call, object, data, context, slices, readers, finding>>
      BY <1>9, <1>12 DEF Fetch, FetchPanics, sections, reading
    <2>3. SomeIsCut
      BY <1>2, <1>7, <1>8, <1>12 DEF SomeIsCut
    <2>4. ObjectInv'
      BY <1>2, <2>2, <2>3 DEF ObjectInv, Opened, SomeIsCut, IsCut, IsPlain, Start, Section,
         GetSectionData, Subrange
    <2>5. SlicesInv'
      BY <2>2 DEF SectionInv, SlicesInv, SliceIsSection, IsCut, IsPlain, IsInflated, Start, Section
    <2>6. ContextInv' /\ ReadersInv' /\ FindInv'
      BY <2>2 DEF SectionInv, ContextInv, IsInflated, IsPlain, Section, ReadersInv, AllInSections, InSection, PartOf,
         Start, StartOf, SizeOf, FindInv, Seen
    <2> QED
      BY <2>1, <2>4, <2>5, <2>6 DEF SectionInv
  <1> QED
    BY <1>9, <1>10, <1>11, <1>12

LEMMA PartialReadsKeeps ==
  ASSUME SectionInv, PartialReads
  PROVE  SectionInv'
  <1>1. /\ context = "none" /\ data # << >>
        /\ UNCHANGED <<stats, view, call, reply, object, data, slices, finding>>
    BY DEF PartialReads, vars
  <1>2. Opened /\ object # NoObject
    BY <1>1, NextSectionInData
  <1>3. RangesInv'
    BY <1>1, UnchangedStats DEF SectionInv, RangesInv
  <1>4. ObjectInv'
    BY <1>1, <1>2 DEF SectionInv, ObjectInv, Opened, SomeIsCut, IsCut, IsPlain, Start, Section,
       GetSectionData, Subrange, Running
  <1>5. context' \in {"readers", "refused"}
    BY DEF PartialReads
  <1>6. SlicesInv'
    BY <1>1, <1>5 DEF SectionInv, SlicesInv, SliceIsSection, IsCut, IsPlain, IsInflated, Start,
       Section
  <1>7. readers = << >>
    BY <1>1 DEF SectionInv, ContextInv
  <1>8. FindInv'
    <2>1. finding = {}
      BY <1>7 DEF SectionInv, FindInv
    <2> QED
      BY <1>1, <2>1 DEF FindInv
  <1>9. CASE \A k \in DOMAIN data : data[k].owned = {}
    <2>1. context' = "readers" /\ readers' = [k \in DOMAIN data |-> data[k].range]
      BY <1>9 DEF PartialReads
    <2>2. \A k \in DOMAIN SectionIds : ~IsInflated(k)
      BY <1>2, <1>9, DataOfSections
    <2>3. \A k \in DOMAIN SectionIds :
            /\ data[k].range \in Extents
            /\ InSection(data[k].range.range_start, data[k].range.range_size)
      <3> TAKE k \in DOMAIN SectionIds
      <3>1. CASE IsPlain(k)
        <4>1. data[k].range = View(Start(k), Section(k).size)
          BY <1>2, <3>1, DataOfSections DEF ViewData
        <4> QED
          BY <1>2, <3>1, <4>1, SectionTypes DEF View, Extents, InSection, PartOf
      <3>2. CASE ~IsPlain(k)
        <4>1. data[k].range = View(view.range_start, 0)
          BY <1>2, <2>2, <3>2, DataOfSections DEF ViewData
        <4> QED
          BY <1>2, <4>1, SectionTypes DEF View, Extents, InSection
      <3> QED
        BY <3>1, <3>2
    <2>4. DOMAIN data = 1 .. Len(SectionIds) /\ Len(SectionIds) \in Nat
      BY <1>2, DataOfSections, SectionAssumption
    <2>5. /\ readers' \in Seq(Extents) /\ DOMAIN readers' = DOMAIN SectionIds
          /\ \A k \in DOMAIN SectionIds : readers'[k] = data[k].range
      BY <2>1, <2>3, <2>4, SectionAssumption
    <2>6. ReadersInv'
      BY <1>1, <2>3, <2>5 DEF ReadersInv, AllInSections, StartOf, SizeOf, InSection, PartOf, IsPlain, Start, Section
    <2>7. ContextInv'
      BY <1>1, <2>1, <2>2 DEF ContextInv, IsInflated, IsPlain, Section
    <2> QED
      BY <1>3, <1>4, <1>6, <1>8, <2>6, <2>7 DEF SectionInv
  <1>10. CASE ~\A k \in DOMAIN data : data[k].owned = {}
    <2>1. context' = "refused" /\ readers' = readers
      BY <1>10 DEF PartialReads
    <2>2. \E k \in DOMAIN SectionIds : IsInflated(k)
      BY <1>2, <1>10, DataOfSections
    <2>3. ContextInv' /\ ReadersInv'
      BY <1>1, <1>7, <2>1, <2>2 DEF SectionInv, ContextInv, IsInflated, IsPlain, Section, ReadersInv,
         AllInSections
    <2> QED
      BY <1>3, <1>4, <1>6, <1>8, <2>3 DEF SectionInv
  <1> QED
    BY <1>9, <1>10

-----------------------------------------------------------------------------
(* Operations of readers *)

LEMMA ReaderTypes ==
  ASSUME SectionInv, NEW i \in DOMAIN readers
  PROVE  /\ StartOf(i) \in Nat /\ SizeOf(i) \in Nat /\ InSection(StartOf(i), SizeOf(i))
         /\ readers[i] = View(StartOf(i), SizeOf(i))
         /\ Len(readers) \in Nat /\ DOMAIN readers = 1 .. Len(readers)
         /\ readers # << >> /\ object # NoObject /\ Opened /\ context = "readers"
  <1>1. readers \in Seq(Extents) /\ InSection(StartOf(i), SizeOf(i))
    BY DEF SectionInv, ReadersInv, AllInSections, StartOf, SizeOf
  <1>2. readers[i] \in Extents /\ Len(readers) \in Nat /\ DOMAIN readers = 1 .. Len(readers)
    BY <1>1
  <1>3. readers # << >>
    BY <1>2
  <1> QED
    BY <1>1, <1>2, <1>3 DEF Extents, StartOf, SizeOf, View, SectionInv, ObjectInv, Unopened, ContextInv

\* Both parts of a range in a section are in it.
LEMMA PartsInSection ==
  ASSUME Opened, NEW start \in Nat, NEW size \in Nat, InSection(start, size), NEW n \in 0 .. size
  PROVE  InSection(start + n, size - n) /\ InSection(start, n)
  BY SectionTypes DEF InSection, PartOf

LEMMA ReplaceReader ==
  ASSUME ReadersInv, NEW i \in DOMAIN readers, NEW start \in Nat, NEW size \in Nat,
         InSection(start, size)
  PROVE  AllInSections([readers EXCEPT ![i] = View(start, size)])
  <1> DEFINE rs == [readers EXCEPT ![i] = View(start, size)]
  <1>1. View(start, size) \in Extents
    BY DEF View, Extents
  <1>2. rs \in Seq(Extents) /\ DOMAIN rs = DOMAIN readers
    BY <1>1 DEF ReadersInv, AllInSections
  <1>3. \A j \in DOMAIN readers : rs[j] = IF j = i THEN View(start, size) ELSE readers[j]
    OBVIOUS
  <1> QED
    BY <1>2, <1>3 DEF ReadersInv, AllInSections, View

LEMMA AddReader ==
  ASSUME NEW rs, AllInSections(rs), NEW start \in Nat, NEW size \in Nat, InSection(start, size)
  PROVE  AllInSections(Append(rs, View(start, size)))
  <1> DEFINE more == Append(rs, View(start, size))
  <1>1. View(start, size) \in Extents /\ rs \in Seq(Extents)
    BY DEF View, Extents, AllInSections
  <1>2. /\ more \in Seq(Extents) /\ DOMAIN more = 1 .. Len(rs) + 1
        /\ Len(rs) \in Nat /\ DOMAIN rs = 1 .. Len(rs)
        /\ \A j \in 1 .. Len(rs) : more[j] = rs[j]
        /\ more[Len(rs) + 1] = View(start, size)
    BY <1>1
  <1>3. \A j \in 1 .. Len(rs) + 1 : InSection(more[j].range_start, more[j].range_size)
    <2> TAKE j \in 1 .. Len(rs) + 1
    <2>1. CASE j \in 1 .. Len(rs)
      BY <1>2, <2>1 DEF AllInSections
    <2>2. CASE j = Len(rs) + 1
      BY <1>2, <2>2 DEF View
    <2> QED
      BY <1>2, <2>1, <2>2
  <1> QED
    BY <1>2, <1>3 DEF AllInSections

\* A step that leaves readers in their sections and looks for nothing.
LEMMA ReadersKeep ==
  ASSUME SectionInv, NEW i \in DOMAIN readers, Quiet, RangesInv',
         NEW rs, AllInSections(rs), readers' = rs, finding' = {}
  PROVE  SectionInv'
  <1>1. ReadersInv'
    BY DEF ReadersInv, AllInSections, InSection, PartOf, IsPlain, Start, Section, Quiet
  <1>2. FindInv'
    BY DEF FindInv
  <1>3. object # NoObject /\ context = "readers"
    BY ReaderTypes
  <1> QED
    BY <1>1, <1>2, <1>3, QuietKeeps

\* The same, without a read.
LEMMA NothingRead ==
  ASSUME SectionInv, NEW i \in DOMAIN readers, UNCHANGED <<vars, sections>>,
         NEW rs, AllInSections(rs), readers' = rs, finding' = {}
  PROVE  SectionInv'
  <1>1. Quiet /\ UNCHANGED stats
    BY DEF vars, sections, Quiet
  <1>2. RangesInv'
    BY <1>1, UnchangedStats DEF SectionInv, RangesInv, Quiet
  <1> QED
    BY <1>1, <1>2, ReadersKeep

LEMMA BecomeKeeps ==
  ASSUME SectionInv, NEW i \in DOMAIN readers, NEW n \in Nat,
         Truncate(i, n) \/ Skip(i, n) \/ Split(i, n) \/ Empty(i)
  PROVE  SectionInv'
  <1>1. /\ StartOf(i) \in Nat /\ SizeOf(i) \in Nat /\ InSection(StartOf(i), SizeOf(i)) /\ Opened
        /\ readers[i] = View(StartOf(i), SizeOf(i)) /\ ReadersInv
    BY ReaderTypes DEF SectionInv
  <1>2. \A m \in 0 .. SizeOf(i) :
          /\ AllInSections([readers EXCEPT ![i] = From(i, m)])
          /\ AllInSections([readers EXCEPT ![i] = View(StartOf(i), m)])
          /\ InSection(StartOf(i), m)
    <2> TAKE m \in 0 .. SizeOf(i)
    <2>1. InSection(StartOf(i) + m, SizeOf(i) - m) /\ InSection(StartOf(i), m)
      BY <1>1, PartsInSection
    <2>2. StartOf(i) + m \in Nat /\ SizeOf(i) - m \in Nat /\ m \in Nat
      BY <1>1
    <2> QED
      BY <1>1, <2>1, <2>2, ReplaceReader DEF From
  <1>4. CASE Truncate(i, n)
    <2>1. n \in 0 .. SizeOf(i) /\ readers' = [readers EXCEPT ![i] = View(StartOf(i), n)]
          /\ UNCHANGED <<vars, sections>> /\ finding' = {}
      BY <1>1, <1>4 DEF Truncate, Become, Ready
    <2> QED
      BY <1>2, <2>1, NothingRead
  <1>5. CASE Empty(i)
    <2>1. readers' = [readers EXCEPT ![i] = View(StartOf(i), 0)]
          /\ UNCHANGED <<vars, sections>> /\ finding' = {}
      BY <1>5 DEF Empty, Become, Ready
    <2>2. 0 \in 0 .. SizeOf(i)
      BY <1>1
    <2>3. AllInSections([readers EXCEPT ![i] = View(StartOf(i), 0)])
      BY <1>2, <2>2
    <2> QED
      BY <2>1, <2>3, NothingRead
  <1>6. CASE Skip(i, n)
    <2>1. n \in 0 .. SizeOf(i) /\ readers' = [readers EXCEPT ![i] = From(i, n)]
          /\ UNCHANGED <<vars, sections>> /\ finding' = {}
      BY <1>1, <1>6 DEF Skip, Become, Ready
    <2> QED
      BY <1>2, <2>1, NothingRead
  <1>7. CASE Split(i, n)
    <2>1. n \in 0 .. SizeOf(i) /\ UNCHANGED <<vars, sections>> /\ finding' = {}
          /\ readers' = Append([readers EXCEPT ![i] = From(i, n)], View(StartOf(i), n))
      BY <1>1, <1>7 DEF Split, Become, Ready
    <2>2. AllInSections(Append([readers EXCEPT ![i] = From(i, n)], View(StartOf(i), n)))
      BY <1>1, <1>2, <2>1, AddReader
    <2> QED
      BY <2>1, <2>2, NothingRead
  <1> QED
    BY <1>4, <1>5, <1>6, <1>7

LEMMA ReadSliceKeeps ==
  ASSUME SectionInv, NEW i \in DOMAIN readers, NEW n \in Nat, ReadSlice(i, n) \/ ToSlice(i)
  PROVE  SectionInv'
  <1>1. /\ StartOf(i) \in Nat /\ SizeOf(i) \in Nat /\ InSection(StartOf(i), SizeOf(i)) /\ Opened
        /\ object # NoObject /\ ReadersInv
    BY ReaderTypes DEF SectionInv
  <1>2. PICK m \in 0 .. SizeOf(i) :
          \/ FetchPanics(StartOf(i), m)
          \/ /\ Fetch(StartOf(i), m) /\ UNCHANGED <<reply, context, slices, finding>>
             /\ finding = {} /\ readers' \in {readers, [readers EXCEPT ![i] = From(i, m)]}
    BY <1>1 DEF ReadSlice, ToSlice, Ready
  <1>3. InSection(StartOf(i), m) /\ InSection(StartOf(i) + m, SizeOf(i) - m)
    BY <1>1, PartsInSection
  <1>4. StartOf(i) + m \in Nat /\ SizeOf(i) - m \in Nat /\ m \in Nat
    BY <1>1
  <1>5. CASE FetchPanics(StartOf(i), m)
    BY <1>1, <1>3, <1>4, <1>5, FetchPanicsKeeps
  <1>6. CASE ~FetchPanics(StartOf(i), m)
    <2>1. Quiet /\ finding' = {} /\ Fetch(StartOf(i), m)
          /\ readers' \in {readers, [readers EXCEPT ![i] = From(i, m)]}
      BY <1>2, <1>6 DEF Fetch, Quiet
    <2>2. RangesInv'
      BY <1>1, <1>4, <2>1, FetchKeeps DEF SectionInv
    <2>3. AllInSections(readers) /\ AllInSections([readers EXCEPT ![i] = From(i, m)])
      BY <1>1, <1>3, <1>4, ReplaceReader DEF From, ReadersInv
    <2>4. CASE readers' = readers
      BY <2>1, <2>2, <2>3, <2>4, ReadersKeep
    <2>5. CASE readers' = [readers EXCEPT ![i] = From(i, m)]
      BY <2>1, <2>2, <2>3, <2>5, ReadersKeep
    <2> QED
      BY <2>1, <2>4, <2>5
  <1> QED
    BY <1>5, <1>6

\* Operations that change no reader.
LEMMA TellKeeps ==
  ASSUME SectionInv, NEW i \in DOMAIN readers, UNCHANGED <<vars, sections, readers, finding>>, Ready
  PROVE  SectionInv'
  BY NothingRead DEF Ready, SectionInv, ReadersInv

-----------------------------------------------------------------------------
(* find *)

LEMMA StartFindKeeps ==
  ASSUME SectionInv, NEW i \in DOMAIN readers, NEW byte \in Delims, StartFind(i, byte)
  PROVE  SectionInv'
  <1>1. Quiet /\ UNCHANGED <<stats, readers>>
        /\ finding' = {[reader |-> i, byte |-> byte, chunk_start |-> StartOf(i)]}
    BY DEF StartFind, vars, sections, Quiet
  <1>2. RangesInv' /\ ReadersInv'
    BY <1>1, UnchangedStats DEF SectionInv, RangesInv, Quiet, ReadersInv, AllInSections, InSection,
       PartOf, IsPlain, Start, Section
  <1>3. StartOf(i) \in Nat /\ SizeOf(i) \in Nat /\ object # NoObject /\ context = "readers"
    BY ReaderTypes
  <1>4. Seen(i, byte, StartOf(i))'
    BY <1>1, <1>3 DEF Seen, StartOf, SizeOf
  <1>5. FindInv'
    BY <1>1, <1>3, <1>4 DEF FindInv, StartOf
  <1> QED
    BY <1>1, <1>2, <1>3, <1>5, QuietKeeps

\* The piece that a find reads next.
LEMMA PieceToRead ==
  ASSUME NEW left \in Nat, left > 0
  PROVE  LET size == Min({FindSize, left}) IN size \in Nat /\ size > 0 /\ size <= left
  <1>1. FindSize \in Nat \ {0}
    BY SectionAssumption
  <1>2. {FindSize, left} \subseteq Nat /\ {FindSize, left} # {}
    BY <1>1
  <1>3. \E k \in {FindSize, left} : \A l \in {FindSize, left} : k <= l
    BY <1>2, LeastElement
  <1>4. /\ Min({FindSize, left}) \in {FindSize, left}
        /\ \A l \in {FindSize, left} : Min({FindSize, left}) <= l
    BY <1>3 DEF Min
  <1> QED
    BY <1>1, <1>4

FindEnd(f) == StartOf(f.reader) + SizeOf(f.reader)
PieceSize(f) == Min({FindSize, FindEnd(f) - f.chunk_start})
PieceHits(f) == Hits(f.chunk_start, f.chunk_start + PieceSize(f), f.byte)

\* What is known of a find in progress.
LEMMA FindTypes ==
  ASSUME SectionInv, NEW f \in finding
  PROVE  /\ f.reader \in DOMAIN readers /\ f.byte \in Delims /\ f.chunk_start \in Nat
         /\ f = [reader |-> f.reader, byte |-> f.byte, chunk_start |-> f.chunk_start]
         /\ finding = {f} /\ Seen(f.reader, f.byte, f.chunk_start)
  <1>1. PICK i \in DOMAIN readers, byte \in Delims, pos \in Nat :
          /\ finding = {[reader |-> i, byte |-> byte, chunk_start |-> pos]}
          /\ Seen(i, byte, pos)
    BY DEF SectionInv, FindInv
  <1>2. f = [reader |-> i, byte |-> byte, chunk_start |-> pos]
    BY <1>1
  <1> QED
    BY <1>1, <1>2

\* A piece without the byte, in the file, extends what was seen.
LEMMA SeesMore ==
  ASSUME SectionInv, NEW f \in finding, f.chunk_start < FindEnd(f),
         Got(f.chunk_start, PieceSize(f)), PieceHits(f) = {}
  PROVE  /\ Seen(f.reader, f.byte, f.chunk_start + PieceSize(f))
         /\ f.chunk_start + PieceSize(f) \in Nat
  <1> DEFINE i == f.reader
             at == f.chunk_start
             size == PieceSize(f)
  <1>1. i \in DOMAIN readers /\ at \in Nat /\ Seen(i, f.byte, at)
    BY FindTypes
  <1>2. StartOf(i) \in Nat /\ SizeOf(i) \in Nat
    BY <1>1, ReaderTypes
  <1>3. size \in Nat /\ size > 0 /\ at + size <= StartOf(i) + SizeOf(i)
    <2>1. FindEnd(f) - at \in Nat /\ FindEnd(f) - at > 0
      BY <1>1, <1>2 DEF FindEnd
    <2>2. size \in Nat /\ size > 0 /\ size <= FindEnd(f) - at
      BY <2>1, PieceToRead DEF PieceSize
    <2> HIDE DEF size, at
    <2> QED
      BY <1>1, <1>2, <2>2 DEF FindEnd
  <1>4. at <= FileLen /\ size <= FileLen - at
    BY DEF Got, SliceReadBytesAt, Ok, Fail
  <1>5. \A p \in at .. at + size - 1 : Content[p] # f.byte
    <2>1. Hits(at, at + size, f.byte) = {}
      BY DEF PieceHits
    <2> SUFFICES ASSUME NEW p \in at .. at + size - 1, Content[p] = f.byte PROVE FALSE
      OBVIOUS
    <2> HIDE DEF size, at
    <2>2. p \in Hits(at, at + size, f.byte)
      BY <1>1, <1>3 DEF Hits
    <2> QED
      BY <2>1, <2>2
  <1> HIDE DEF size, at, i
  <1>6. at + size <= FileLen /\ at + size \in StartOf(i) .. StartOf(i) + SizeOf(i)
    BY <1>1, <1>2, <1>3, <1>4, FileAssumption DEF Seen
  <1>7. \A p \in StartOf(i) .. at + size - 1 : Content[p] # f.byte
    <2> TAKE p \in StartOf(i) .. at + size - 1
    <2>1. p \in StartOf(i) .. at - 1 \/ p \in at .. at + size - 1
      BY <1>1, <1>2, <1>3
    <2>2. \A q \in StartOf(i) .. at - 1 : Content[q] # f.byte
      BY <1>1 DEF Seen
    <2> QED
      BY <1>5, <2>1, <2>2
  <1>8. Seen(i, f.byte, at + size)
    BY <1>1, <1>3, <1>6, <1>7 DEF Seen
  <1> QED
    BY <1>1, <1>3, <1>8 DEF size, at, i

\* The cases of a step of find.
LEMMA FindCases ==
  ASSUME NEW f, FindChunk(f)
  PROVE  \/ /\ f.chunk_start = FindEnd(f) /\ EndFind(f, Slice!Eof)
            /\ UNCHANGED <<stats, view, call, object, data>>
         \/ f.chunk_start < FindEnd(f) /\ FetchPanics(f.chunk_start, PieceSize(f))
         \/ /\ f.chunk_start < FindEnd(f) /\ Fetch(f.chunk_start, PieceSize(f))
            /\ \/ ~Got(f.chunk_start, PieceSize(f)) /\ EndFind(f, Slice!Io)
               \/ /\ Got(f.chunk_start, PieceSize(f)) /\ PieceHits(f) # {}
                  /\ EndFind(f, Slice!Num(Hit(f, Min(PieceHits(f)))))
               \/ /\ Got(f.chunk_start, PieceSize(f)) /\ PieceHits(f) = {}
                  /\ finding' = {[f EXCEPT !.chunk_start = @ + PieceSize(f)]}
                  /\ UNCHANGED <<reply, context, slices, readers, asked, answer>>
  BY DEF FindChunk, FindEnd, PieceSize, PieceHits

LEMMA ContinueFindKeeps ==
  ASSUME SectionInv, ContinueFind
  PROVE  SectionInv'
  <1>1. PICK f \in finding : FindChunk(f)
    BY DEF ContinueFind
  <1> DEFINE i == f.reader
             at == f.chunk_start
             size == PieceSize(f)
  <1>2. /\ i \in DOMAIN readers /\ f.byte \in Delims /\ at \in Nat /\ Seen(i, f.byte, at)
        /\ f = [reader |-> i, byte |-> f.byte, chunk_start |-> at]
    BY FindTypes
  <1>3. /\ StartOf(i) \in Nat /\ SizeOf(i) \in Nat /\ InSection(StartOf(i), SizeOf(i)) /\ Opened
        /\ object # NoObject /\ context = "readers" /\ AllInSections(readers)
    BY <1>2, ReaderTypes DEF SectionInv, ReadersInv
  <1>4. at < FindEnd(f) => size \in Nat /\ InSection(at, size)
    <2> SUFFICES ASSUME at < FindEnd(f) PROVE size \in Nat /\ InSection(at, size)
      OBVIOUS
    <2>1. FindEnd(f) - at \in Nat /\ FindEnd(f) - at > 0
      BY <1>2, <1>3 DEF FindEnd
    <2>2. size \in Nat /\ size <= FindEnd(f) - at
      BY <2>1, PieceToRead DEF PieceSize
    <2> DEFINE n == at - StartOf(i)
    <2>3. n \in 0 .. SizeOf(i) /\ StartOf(i) + n = at /\ SizeOf(i) - n = FindEnd(f) - at
      BY <1>2, <1>3 DEF FindEnd, Seen
    <2>4. InSection(at, FindEnd(f) - at)
      BY <1>3, <2>3, PartsInSection
    <2> QED
      BY <1>2, <1>3, <2>1, <2>2, <2>4, PartsInSection
  <1>5. CASE EndFind(f, Slice!Eof) /\ UNCHANGED <<stats, view, call, object, data>>
    <2>1. Quiet /\ finding' = {} /\ readers' = readers
      BY <1>5 DEF EndFind, Quiet
    <2>2. RangesInv'
      BY <1>5, UnchangedStats DEF SectionInv, RangesInv
    <2> QED
      BY <1>2, <1>3, <2>1, <2>2, ReadersKeep
  <1>6. CASE at < FindEnd(f) /\ FetchPanics(at, size)
    BY <1>2, <1>3, <1>4, <1>6, FetchPanicsKeeps
  <1>7. ASSUME at < FindEnd(f), Fetch(at, size), NEW result, EndFind(f, result)
        PROVE  SectionInv'
    <2>1. Quiet /\ finding' = {} /\ readers' = readers
      BY <1>7 DEF EndFind, Fetch, Quiet
    <2>2. RangesInv'
      BY <1>2, <1>4, <1>7, FetchKeeps DEF SectionInv
    <2> QED
      BY <1>2, <1>3, <2>1, <2>2, ReadersKeep
  <1>8. CASE /\ at < FindEnd(f) /\ Fetch(at, size) /\ Got(at, size) /\ PieceHits(f) = {}
             /\ finding' = {[f EXCEPT !.chunk_start = @ + size]}
             /\ UNCHANGED <<reply, context, slices, readers, asked, answer>>
    <2>1. Quiet /\ readers' = readers
      BY <1>8 DEF Fetch, Quiet
    <2>2. RangesInv'
      BY <1>2, <1>4, <1>8, FetchKeeps DEF SectionInv
    <2>3. ReadersInv'
      BY <1>3, <2>1 DEF ReadersInv, AllInSections, InSection, PartOf, IsPlain, Start, Section, Quiet
    <2>4. PICK new \in Nat : new = at + size /\ Seen(i, f.byte, new)
      BY <1>8, SeesMore
    <2>5. finding' = {[reader |-> i, byte |-> f.byte, chunk_start |-> new]}
      BY <1>2, <1>8, <2>4
    <2>6. Seen(i, f.byte, new)'
      BY <2>1, <2>4 DEF Seen, StartOf, SizeOf
    <2>7. FindInv'
      BY <1>2, <2>1, <2>5, <2>6 DEF FindInv
    <2> QED
      BY <1>3, <2>1, <2>2, <2>3, <2>7, QuietKeeps
  <1> QED
    BY <1>1, <1>5, <1>6, <1>7, <1>8, FindCases

-----------------------------------------------------------------------------
(* The invariant *)

LEMMA SectionInitHolds == SectionInit => SectionInv
  <1> SUFFICES ASSUME SectionInit PROVE SectionInv
    OBVIOUS
  <1>1. RangesInv /\ Running /\ call.op = "none"
    BY InitHolds DEF SectionInit, Init, Running, Fail, Called
  <1>2. /\ object = NoObject /\ data = << >> /\ context = "none" /\ slices = << >>
        /\ readers = << >> /\ finding = {}
    BY DEF SectionInit
  <1>3. Listed(<< >>) /\ << >> \in Seq(Extents)
    BY DEF Listed
  <1> QED
    BY <1>1, <1>2, <1>3 DEF SectionInv, ObjectInv, Unopened, SlicesInv, ContextInv, ReadersInv,
       AllInSections, FindInv

LEMMA UseReaderKeeps ==
  ASSUME SectionInv, NEW i \in DOMAIN readers, UseReader(i)
  PROVE  SectionInv'
  <1>1. 0 .. MaxCount \subseteq Nat /\ 0 \in Nat
    BY SectionAssumption
  <1>2. CASE \E byte \in Delims : StartFind(i, byte)
    BY <1>2, StartFindKeeps
  <1>3. CASE \E n \in Nat : Truncate(i, n) \/ Skip(i, n) \/ Split(i, n) \/ Empty(i)
    BY <1>3, BecomeKeeps
  <1>4. CASE \E n \in Nat : ReadSlice(i, n) \/ ToSlice(i)
    BY <1>4, ReadSliceKeeps
  <1>5. CASE Ready /\ UNCHANGED <<vars, sections, readers, finding>>
    BY <1>5, TellKeeps
  <1> QED
    BY <1>1, <1>2, <1>3, <1>4, <1>5 DEF UseReader, TooShort, OffsetFrom, LookupOffsetId, Tell

LEMMA SectionInvHolds == SectionSpec => []SectionInv
  <1>1. SectionInv /\ SectionNext => SectionInv'
    BY ReadViewsKeeps, FromObjectKeeps, ReadOwnedSectionKeeps, ReadSectionKeeps, PartialReadsKeeps,
       ContinueFindKeeps, UseReaderKeeps DEF SectionNext
  <1>2. SectionInv /\ UNCHANGED allVars => SectionInv'
    <2> SUFFICES ASSUME SectionInv, UNCHANGED allVars PROVE SectionInv'
      OBVIOUS
    <2>1. UNCHANGED <<stats, view, call, reply, object, data, context, slices, readers, finding>>
      BY DEF allVars, vars, sections, reading
    <2>2. RangesInv'
      BY <2>1, UnchangedStats DEF SectionInv, RangesInv
    <2>3. ObjectInv'
      BY <2>1 DEF SectionInv, ObjectInv, Opened, Unopened, SomeIsCut, IsCut, IsPlain, Start, Section,
         GetSectionData, Subrange, Running
    <2>4. SlicesInv'
      BY <2>1 DEF SectionInv, SlicesInv, SliceIsSection, IsCut, IsPlain, IsInflated, Start, Section
    <2>5. ContextInv' /\ ReadersInv' /\ FindInv'
      BY <2>1 DEF SectionInv, ContextInv, IsInflated, IsPlain, Section, ReadersInv, AllInSections,
         InSection, PartOf, Start, StartOf, SizeOf, FindInv, Seen
    <2> QED
      BY <2>2, <2>3, <2>4, <2>5 DEF SectionInv
  <1> QED
    BY <1>1, <1>2, SectionInitHolds, PTL DEF SectionSpec

-----------------------------------------------------------------------------
(* Theorems *)

\* The statistics stay consistent also while sections are read.
THEOREM StatisticsOfSections == SectionSpec => []StatsCanBeShown
  <1>1. SectionInv => StatsCanBeShown
    BY DEF SectionInv, RangesInv, StatsInv
  <1> QED
    BY <1>1, SectionInvHolds, PTL

\* Reads through views are shifted also in the presence of sections, whose reads are no calls.
THEOREM ReadsAreShiftedBesideSections == SectionSpec => ViewsShiftReads
  <1>1. SectionInv /\ [SectionNext]_allVars => [ReadIsInFile' /\ call' # call => AnswerIsRight']_vars
    <2> SUFFICES ASSUME SectionInv, SectionNext, ReadIsInFile', call' # call PROVE AnswerIsRight'
      BY DEF allVars, vars
    <2>1. CASE ReadViews
      BY <2>1, ReadIsRight DEF ReadViews, SectionInv
    <2>2. CASE FromObject \/ ReadOwnedSection \/ PartialReads
      BY <2>2 DEF FromObject, ReadOwnedSection, PartialReads, vars
    <2>3. CASE ReadSection
      BY <2>3 DEF ReadSection, FetchPanics, Fetch
    <2>4. CASE ContinueFind
      BY <2>4 DEF ContinueFind, FindChunk, EndFind, FetchPanics, Fetch
    <2>5. ASSUME NEW i \in DOMAIN readers, UseReader(i) PROVE FALSE
      BY <2>5 DEF UseReader, Empty, Truncate, Skip, Split, Become, ToSlice, ReadSlice, FetchPanics, Fetch,
         StartFind, TooShort, OffsetFrom, LookupOffsetId, Tell, vars
    <2> QED
      BY <2>1, <2>2, <2>3, <2>4, <2>5 DEF SectionNext
  <1> QED
    BY <1>1, SectionInvHolds, PTL DEF SectionSpec, ViewsShiftReads

\* Wherever an object starts and whatever it says of its sections, slices hold whole sections,
\* readers stay inside theirs, and only a section that is cut off stops the program.
THEOREM SectionsStayWhole == SectionSpec => []SectionsAreWhole
  <1>1. SectionInv => SectionsAreWhole
    <2> SUFFICES ASSUME SectionInv, object # NoObject PROVE SectionsAreWhole
      BY DEF SectionsAreWhole
    <2>1. Running \/ \E k \in DOMAIN SectionIds : IsCut(k)
      BY DEF SectionInv, ObjectInv, Opened, SomeIsCut
    <2>2. \A k \in DOMAIN slices : SliceIsSection(k)
      BY DEF SectionInv, SlicesInv
    <2>3. \A i \in DOMAIN readers : InSection(StartOf(i), SizeOf(i))
      BY ReaderTypes
    <2> QED
      BY <2>1, <2>2, <2>3 DEF SectionsAreWhole, SliceIsSection, InSection, PartOf, SectionInv, ContextInv
  <1> QED
    BY <1>1, SectionInvHolds, PTL

-----------------------------------------------------------------------------
(* Refinement: a reader is the bytes that it has still to read *)

LEMMA PieceOfReader ==
  ASSUME SectionInv, NEW i \in DOMAIN readers
  PROVE  /\ DOMAIN Pieces(readers) = DOMAIN readers
         /\ Slice!At(i) = StartOf(i) /\ Slice!Rest(i) = BytesAt(StartOf(i), SizeOf(i))
         /\ Len(Slice!Rest(i)) = SizeOf(i)
  <1>1. DOMAIN Pieces(readers) = DOMAIN readers /\ Pieces(readers)[i] = Remaining(readers[i])
    BY DEF Pieces
  <1>2. Slice!At(i) = StartOf(i) /\ Slice!Rest(i) = BytesAt(StartOf(i), SizeOf(i))
    BY <1>1 DEF Slice!At, Slice!Rest, Remaining, StartOf, SizeOf
  <1>3. SizeOf(i) \in Nat
    BY ReaderTypes
  <1> QED
    BY <1>1, <1>2, <1>3, BytesAtIsSequence

LEMMA PartsOfReader ==
  ASSUME SectionInv, NEW i \in DOMAIN readers, NEW n \in 0 .. SizeOf(i)
  PROVE  /\ Slice!From(i, n) = Remaining(From(i, n))
         /\ Slice!Upto(i, n) = Remaining(View(StartOf(i), n))
         /\ SubSeq(Slice!Rest(i), 1, n) = BytesAt(StartOf(i), n)
  <1>1. StartOf(i) \in Nat /\ SizeOf(i) \in Nat
    BY ReaderTypes
  <1>2. /\ SubSeq(BytesAt(StartOf(i), SizeOf(i)), n + 1, SizeOf(i))
            = BytesAt(StartOf(i) + n, SizeOf(i) - n)
        /\ SubSeq(BytesAt(StartOf(i), SizeOf(i)), 1, n) = BytesAt(StartOf(i), n)
    BY <1>1, BytesFrom, BytesUpto
  <1> QED
    BY <1>2, PieceOfReader DEF Slice!From, Slice!Upto, Slice!Piece, From, View, Remaining

LEMMA ReplacePiece ==
  ASSUME SectionInv, NEW i \in DOMAIN readers, NEW n \in 0 .. SizeOf(i)
  PROVE  /\ Pieces([readers EXCEPT ![i] = From(i, n)])
             = [Pieces(readers) EXCEPT ![i] = Slice!From(i, n)]
         /\ Pieces([readers EXCEPT ![i] = View(StartOf(i), n)])
             = [Pieces(readers) EXCEPT ![i] = Slice!Upto(i, n)]
  <1>1. \A r : Pieces([readers EXCEPT ![i] = r]) = [Pieces(readers) EXCEPT ![i] = Remaining(r)]
    BY DEF Pieces
  <1>2. /\ Slice!From(i, n) = Remaining(From(i, n))
        /\ Slice!Upto(i, n) = Remaining(View(StartOf(i), n))
    BY PartsOfReader
  <1> QED
    BY <1>1, <1>2

\* What the readers are after a step is read of them.
LEMMA PrimedPieces == Pieces(readers)' = Pieces(readers')
  BY DEF Pieces, Remaining, BytesAt, ByteAt

LEMMA AddPiece ==
  ASSUME NEW rs \in Seq(Extents), NEW reader \in Extents
  PROVE  Pieces(Append(rs, reader)) = Append(Pieces(rs), Remaining(reader))
  <1> DEFINE more == Append(rs, reader)
             all == {Remaining(e) : e \in Extents}
  <1>1. /\ DOMAIN more = 1 .. Len(rs) + 1 /\ Len(rs) \in Nat /\ DOMAIN rs = 1 .. Len(rs)
        /\ \A j \in 1 .. Len(rs) : more[j] = rs[j]
        /\ more[Len(rs) + 1] = reader
        /\ \A j \in 1 .. Len(rs) : rs[j] \in Extents
    OBVIOUS
  <1>2. Pieces(rs) \in Seq(all) /\ Len(Pieces(rs)) = Len(rs)
        /\ \A j \in 1 .. Len(rs) : Pieces(rs)[j] = Remaining(rs[j])
    <2>1. /\ DOMAIN Pieces(rs) = 1 .. Len(rs)
          /\ \A j \in 1 .. Len(rs) : Pieces(rs)[j] = Remaining(rs[j]) /\ Pieces(rs)[j] \in all
          /\ Pieces(rs) = [j \in 1 .. Len(rs) |-> Pieces(rs)[j]]
      BY <1>1 DEF Pieces
    <2> HIDE DEF all
    <2> QED
      BY <1>1, <2>1
  <1>3. /\ DOMAIN Append(Pieces(rs), Remaining(reader)) = 1 .. Len(rs) + 1
        /\ \A j \in 1 .. Len(rs) : Append(Pieces(rs), Remaining(reader))[j] = Remaining(rs[j])
        /\ Append(Pieces(rs), Remaining(reader))[Len(rs) + 1] = Remaining(reader)
        /\ Append(Pieces(rs), Remaining(reader)) \in Seq(all)
    <2> HIDE DEF all
    <2>1. Remaining(reader) \in all
      BY DEF all
    <2> QED
      BY <1>1, <1>2, <2>1
  <1>4. /\ DOMAIN Pieces(more) = 1 .. Len(rs) + 1
        /\ \A j \in 1 .. Len(rs) + 1 : Pieces(more)[j] = Remaining(more[j])
        /\ Pieces(more) = [j \in 1 .. Len(rs) + 1 |-> Remaining(more[j])]
    BY <1>1 DEF Pieces
  <1>5. \A j \in 1 .. Len(rs) + 1 :
          Append(Pieces(rs), Remaining(reader))[j] = Remaining(more[j])
    <2> TAKE j \in 1 .. Len(rs) + 1
    <2>1. j \in 1 .. Len(rs) \/ j = Len(rs) + 1
      BY <1>1
    <2> QED
      BY <1>1, <1>3, <2>1
  <1>6. Append(Pieces(rs), Remaining(reader)) = [j \in 1 .. Len(rs) + 1 |-> Remaining(more[j])]
    <2> DEFINE longer == Append(Pieces(rs), Remaining(reader))
    <2>1. longer \in Seq(all)
      BY <1>3
    <2> HIDE DEF longer, all
    <2>2. DOMAIN longer = 1 .. Len(rs) + 1
          /\ \A j \in 1 .. Len(rs) + 1 : longer[j] = Remaining(more[j])
      BY <1>3, <1>5 DEF longer
    <2> HIDE DEF more
    <2>3. longer = [j \in 1 .. Len(rs) + 1 |-> Remaining(more[j])]
      BY <2>1, <2>2
    <2> QED
      BY <2>3 DEF longer
  <1> QED
    BY <1>4, <1>6

\* The step changes no reader, or not for the caller.
Stutters == UNCHANGED <<readers, asked, answer>>
SliceStep == Slice!Next \/ UNCHANGED Slice!vars

LEMMA StutterIsStep ==
  ASSUME Stutters
  PROVE  SliceStep
  BY DEF Stutters, SliceStep, Slice!vars, Pieces, Remaining, BytesAt, ByteAt

LEMMA TooShortIsShort ==
  ASSUME SectionInv, NEW i \in DOMAIN readers, NEW n \in 0 .. MaxCount,
         NEW op \in {"truncate", "skip", "split", "read_slice"}, TooShort(op, i, n)
  PROVE  SliceStep
  <1>1. /\ asked' = Slice!Asked(op, i, n) /\ answer' = Slice!Eof /\ SizeOf(i) < n
        /\ Pieces(readers)' = Pieces(readers)
    BY DEF TooShort, Answered, Pieces, Remaining, BytesAt, ByteAt
  <1>2. Slice!Short(i, n)
    BY <1>1, PieceOfReader, ReaderTypes, SectionAssumption DEF Slice!Short, Slice!Tell
  <1>3. i \in DOMAIN Pieces(readers)
    BY PieceOfReader
  <1>4. Slice!Truncate(i, n) \/ Slice!Skip(i, n) \/ Slice!Split(i, n) \/ Slice!ReadSlice(i, n)
    BY <1>1, <1>2 DEF Slice!Truncate, Slice!Skip, Slice!Split, Slice!ReadSlice, Slice!Ask
  <1> QED
    BY <1>3, <1>4 DEF SliceStep, Slice!Next

LEMMA BecomeIsStep ==
  ASSUME SectionInv, NEW i \in DOMAIN readers, NEW n \in 0 .. MaxCount,
         Truncate(i, n) \/ Skip(i, n) \/ Split(i, n) \/ Empty(i)
  PROVE  SliceStep
  <1>1. /\ StartOf(i) \in Nat /\ SizeOf(i) \in Nat /\ n \in Nat /\ readers \in Seq(Extents)
        /\ i \in DOMAIN Pieces(readers) /\ Len(Slice!Rest(i)) = SizeOf(i)
    BY ReaderTypes, PieceOfReader, SectionAssumption DEF SectionInv, ReadersInv, AllInSections
  <1>2. 0 \in 0 .. SizeOf(i)
    BY <1>1
  <1>3. CASE Truncate(i, n)
    <2>1. n \in 0 .. SizeOf(i) /\ readers' = [readers EXCEPT ![i] = View(StartOf(i), n)]
          /\ asked' = Slice!Asked("truncate", i, n) /\ answer' = Slice!Unit
      BY <1>1, <1>3 DEF Truncate, Become, Answered
    <2>2. Pieces(readers)' = [Pieces(readers) EXCEPT ![i] = Slice!Upto(i, n)]
      BY <2>1, PrimedPieces, ReplacePiece
    <2>3. Slice!Truncate(i, n)
      BY <1>1, <2>1, <2>2 DEF Slice!Truncate, Slice!Ask, Slice!Become, Slice!Enough
    <2> QED
      BY <1>1, <2>3 DEF SliceStep, Slice!Next
  <1>4. CASE Empty(i)
    <2>1. readers' = [readers EXCEPT ![i] = View(StartOf(i), 0)]
          /\ asked' = Slice!Asked("empty", i, 0) /\ answer' = Slice!Unit
      BY <1>4 DEF Empty, Become, Answered
    <2>2. Pieces(readers)' = [Pieces(readers) EXCEPT ![i] = Slice!Upto(i, 0)]
      BY <1>2, <2>1, PrimedPieces, ReplacePiece
    <2>3. Slice!Empty(i)
      BY <2>1, <2>2 DEF Slice!Empty, Slice!Ask, Slice!Become
    <2> QED
      BY <1>1, <2>3 DEF SliceStep, Slice!Next
  <1>5. CASE Skip(i, n)
    <2>1. n \in 0 .. SizeOf(i) /\ readers' = [readers EXCEPT ![i] = From(i, n)]
          /\ asked' = Slice!Asked("skip", i, n) /\ answer' = Slice!Unit
      BY <1>1, <1>5 DEF Skip, Become, Answered
    <2>2. Pieces(readers)' = [Pieces(readers) EXCEPT ![i] = Slice!From(i, n)]
      BY <2>1, PrimedPieces, ReplacePiece
    <2>3. Slice!Skip(i, n)
      BY <1>1, <2>1, <2>2 DEF Slice!Skip, Slice!Ask, Slice!Become, Slice!Enough
    <2> QED
      BY <1>1, <2>3 DEF SliceStep, Slice!Next
  <1>6. CASE Split(i, n)
    <2> DEFINE rs == [readers EXCEPT ![i] = From(i, n)]
               new == View(StartOf(i), n)
    <2>1. n \in 0 .. SizeOf(i) /\ readers' = Append(rs, new)
          /\ asked' = Slice!Asked("split", i, n) /\ answer' = Slice!Unit
      BY <1>1, <1>6 DEF Split, Become, Answered
    <2>2. From(i, n) \in Extents /\ new \in Extents
      BY <1>1, <2>1 DEF From, View, Extents
    <2>3. rs \in Seq(Extents)
      BY <1>1, <2>2
    <2>4. Pieces(rs) = [Pieces(readers) EXCEPT ![i] = Slice!From(i, n)]
      BY <2>1, ReplacePiece
    <2>5. Pieces(readers)' = Append(Pieces(rs), Slice!Upto(i, n))
      BY <2>1, <2>2, <2>3, PrimedPieces, AddPiece, PartsOfReader
    <2> HIDE DEF rs, new
    <2>6. Slice!Split(i, n)
      BY <1>1, <2>1, <2>4, <2>5 DEF Slice!Split, Slice!Ask, Slice!Become, Slice!Enough
    <2> QED
      BY <1>1, <2>6 DEF SliceStep, Slice!Next
  <1> QED
    BY <1>3, <1>4, <1>5, <1>6

\* Bytes can be read up to the end of the file.
LEMMA GotMeansNotCut ==
  ASSUME SectionInv, NEW i \in DOMAIN readers, NEW n \in Nat
  PROVE  Got(StartOf(i), n) <=> ~Slice!Cut(i, n)
  <1>1. StartOf(i) \in Nat /\ Slice!At(i) = StartOf(i)
    BY ReaderTypes, PieceOfReader
  <1>2. Got(StartOf(i), n) <=> StartOf(i) <= FileLen /\ n <= FileLen - StartOf(i)
    BY DEF Got, SliceReadBytesAt, Ok, Fail
  <1> QED
    BY <1>1, <1>2, FileAssumption DEF Slice!Cut

LEMMA ReadSliceIsStep ==
  ASSUME SectionInv, NEW i \in DOMAIN readers, NEW n \in 0 .. MaxCount, ReadSlice(i, n)
  PROVE  SliceStep
  <1>1. /\ SizeOf(i) \in Nat /\ n \in 0 .. SizeOf(i) /\ n \in Nat
        /\ i \in DOMAIN Pieces(readers) /\ Len(Slice!Rest(i)) = SizeOf(i)
    BY ReaderTypes, PieceOfReader, SectionAssumption DEF ReadSlice
  <1>2. CASE FetchPanics(StartOf(i), n)
    BY <1>2, StutterIsStep DEF FetchPanics, reading, Stutters
  <1>3. CASE Got(StartOf(i), n) /\ ~FetchPanics(StartOf(i), n)
    <2>1. /\ readers' = [readers EXCEPT ![i] = From(i, n)]
          /\ asked' = Slice!Asked("read_slice", i, n)
          /\ answer' = Slice!Got(BytesAt(StartOf(i), n))
      BY <1>3 DEF ReadSlice, Answered
    <2>2. Pieces(readers)' = [Pieces(readers) EXCEPT ![i] = Slice!From(i, n)]
      BY <1>1, <2>1, PrimedPieces, ReplacePiece
    <2>3. ~Slice!Cut(i, n) /\ SubSeq(Slice!Rest(i), 1, n) = BytesAt(StartOf(i), n)
      BY <1>1, <1>3, GotMeansNotCut, PartsOfReader
    <2>4. Slice!Enough(i, n)
      BY <1>1 DEF Slice!Enough
    <2>5. answer' = Slice!Got(SubSeq(Slice!Rest(i), 1, n))
      BY <2>1, <2>3
    <2>6. Slice!ReadSlice(i, n)
      BY <2>1, <2>2, <2>3, <2>4, <2>5, Zenon DEF Slice!ReadSlice, Slice!Ask
    <2> QED
      BY <1>1, <2>6 DEF SliceStep, Slice!Next
  <1>4. CASE ~Got(StartOf(i), n) /\ ~FetchPanics(StartOf(i), n)
    <2>1. /\ readers' = readers /\ asked' = Slice!Asked("read_slice", i, n) /\ answer' = Slice!Io
      BY <1>4 DEF ReadSlice, Answered
    <2>2. Slice!Cut(i, n)
      BY <1>1, <1>4, GotMeansNotCut
    <2>3. Slice!ReadSlice(i, n)
      BY <1>1, <2>1, <2>2, PrimedPieces DEF Slice!ReadSlice, Slice!Ask, Slice!Enough, Slice!Tell
    <2> QED
      BY <1>1, <2>3 DEF SliceStep, Slice!Next
  <1> QED
    BY <1>2, <1>3, <1>4

LEMMA ToSliceIsStep ==
  ASSUME SectionInv, NEW i \in DOMAIN readers, ToSlice(i)
  PROVE  SliceStep
  <1>1. /\ SizeOf(i) \in Nat /\ i \in DOMAIN Pieces(readers)
        /\ Slice!Rest(i) = BytesAt(StartOf(i), SizeOf(i)) /\ Len(Slice!Rest(i)) = SizeOf(i)
    BY ReaderTypes, PieceOfReader
  <1>2. CASE FetchPanics(StartOf(i), SizeOf(i))
    BY <1>2, StutterIsStep DEF FetchPanics, reading, Stutters
  <1>3. CASE ~FetchPanics(StartOf(i), SizeOf(i))
    <2>1. /\ readers' = readers /\ asked' = Slice!Asked("to_slice", i, 0)
          /\ answer' = IF Got(StartOf(i), SizeOf(i)) THEN Slice!Got(BytesAt(StartOf(i), SizeOf(i)))
                       ELSE Slice!Io
      BY <1>3 DEF ToSlice, Answered
    <2>2. Got(StartOf(i), SizeOf(i)) <=> ~Slice!Cut(i, SizeOf(i))
      BY <1>1, GotMeansNotCut
    <2>3. answer' = IF Slice!Cut(i, Len(Slice!Rest(i))) THEN Slice!Io ELSE Slice!Got(Slice!Rest(i))
      BY <1>1, <2>1, <2>2
    <2>4. Slice!ToSlice(i)
      BY <2>1, <2>3, PrimedPieces DEF Slice!ToSlice, Slice!Ask, Slice!Tell
    <2> QED
      BY <1>1, <2>4 DEF SliceStep, Slice!Next
  <1> QED
    BY <1>2, <1>3

LEMMA TellIsStep ==
  ASSUME SectionInv, NEW i \in DOMAIN readers, NEW j \in DOMAIN readers,
         OffsetFrom(i, j) \/ LookupOffsetId(i, j)
  PROVE  SliceStep
  <1>1. /\ StartOf(i) \in Nat /\ SizeOf(i) \in Nat /\ StartOf(j) \in Nat
        /\ Slice!At(i) = StartOf(i) /\ Slice!At(j) = StartOf(j) /\ Len(Slice!Rest(i)) = SizeOf(i)
        /\ i \in DOMAIN Pieces(readers) /\ j \in DOMAIN Pieces(readers)
    BY ReaderTypes, PieceOfReader
  <1>2. readers' = readers
    BY DEF OffsetFrom, LookupOffsetId, Tell
  <1>3. CASE OffsetFrom(i, j)
    <2>1. Slice!OffsetFrom(i, j)
      BY <1>1, <1>2, <1>3, PrimedPieces DEF OffsetFrom, Tell, Answered, Slice!OffsetFrom, Slice!Ask, Slice!Tell
    <2> QED
      BY <1>1, <2>1 DEF SliceStep, Slice!Next
  <1>4. CASE LookupOffsetId(i, j)
    <2>1. StartOf(i) <= StartOf(j) /\ StartOf(j) <= StartOf(i) + SizeOf(i)
          <=> StartOf(j) - StartOf(i) \in 0 .. SizeOf(i)
      BY <1>1
    <2>2. Slice!LookupOffsetId(i, j)
      BY <1>1, <1>2, <1>4, <2>1, PrimedPieces DEF LookupOffsetId, Tell, Answered, Slice!LookupOffsetId, Slice!Ask,
         Slice!Tell
    <2> QED
      BY <1>1, <2>2 DEF SliceStep, Slice!Next
  <1> QED
    BY <1>3, <1>4

-----------------------------------------------------------------------------
(* A find over any number of pieces is one step *)

RestHits(i, byte) == {k \in 1 .. SizeOf(i) : ByteAt(StartOf(i) + k - 1) = byte}
FirstHit(i, byte) == IF RestHits(i, byte) # {} THEN Min(RestHits(i, byte)) ELSE 0

LEMMA FoundInRest ==
  ASSUME SectionInv, NEW i \in DOMAIN readers, NEW byte
  PROVE  Slice!SelectInSeq(Slice!Rest(i), LAMBDA b : b = byte) = FirstHit(i, byte)
  <1>1. SizeOf(i) \in Nat /\ Slice!Rest(i) = BytesAt(StartOf(i), SizeOf(i))
    BY ReaderTypes, PieceOfReader
  <1>2. {k \in 1 .. Len(Slice!Rest(i)) : Slice!Rest(i)[k] = byte} = RestHits(i, byte)
    BY <1>1, BytesAtIsSequence DEF RestHits
  <1> DEFINE hits == {k \in 1 .. Len(Slice!Rest(i)) : Slice!Rest(i)[k] = byte}
  <1>3. Slice!SelectInSeq(Slice!Rest(i), LAMBDA b : b = byte)
          = IF hits # {} THEN Slice!Min(hits) ELSE 0
    BY DEF Slice!SelectInSeq
  <1>4. Slice!Min(RestHits(i, byte)) = Min(RestHits(i, byte))
    BY DEF Min, Slice!Min
  <1> QED
    BY <1>2, <1>3, <1>4 DEF FirstHit

\* A byte in the rest of a reader that is searched for is a byte of the file.
LEMMA HitsInFile ==
  ASSUME SectionInv, NEW i \in DOMAIN readers, NEW byte \in Delims
  PROVE  \A k \in 1 .. SizeOf(i) :
           k \in RestHits(i, byte) <=>
             StartOf(i) + k - 1 < FileLen /\ Content[StartOf(i) + k - 1] = byte
  BY SectionAssumption, FileAssumption DEF RestHits, ByteAt

LEMMA EndWithoutHit ==
  ASSUME SectionInv, NEW i \in DOMAIN readers, NEW byte \in Delims,
         Seen(i, byte, StartOf(i) + SizeOf(i))
  PROVE  /\ FirstHit(i, byte) = 0
         /\ Slice!Cut(i, Len(Slice!Rest(i))) => Slice!Rest(i) = << >>
  <1>1. StartOf(i) \in Nat /\ SizeOf(i) \in Nat
        /\ Slice!At(i) = StartOf(i) /\ Len(Slice!Rest(i)) = SizeOf(i)
        /\ Slice!Rest(i) = BytesAt(StartOf(i), SizeOf(i))
    BY ReaderTypes, PieceOfReader
  <1> DEFINE end == StartOf(i) + SizeOf(i)
  <1>2. RestHits(i, byte) = {}
    <2>1. \A p \in StartOf(i) .. end - 1 : Content[p] # byte
      BY DEF Seen
    <2>2. ASSUME NEW k \in RestHits(i, byte) PROVE FALSE
      <3> DEFINE p == StartOf(i) + k - 1
      <3>1. k \in 1 .. SizeOf(i)
        BY <2>2 DEF RestHits
      <3>2. Content[p] = byte
        BY <2>2, <3>1, HitsInFile
      <3>3. p \in StartOf(i) .. end - 1
        BY <1>1, <3>1
      <3> HIDE DEF p, end
      <3> QED
        BY <2>1, <3>2, <3>3
    <2> QED
      BY <2>2
  <1>3. StartOf(i) + SizeOf(i) > FileLen => SizeOf(i) = 0
    BY <1>1, FileAssumption DEF Seen
  <1>4. SizeOf(i) = 0 => Slice!Rest(i) = << >>
    BY <1>1, NoBytesAt
  <1> QED
    BY <1>1, <1>2, <1>3, <1>4 DEF FirstHit, Slice!Cut

LEMMA FirstHitInPiece ==
  ASSUME SectionInv, NEW f \in finding, f.chunk_start < FindEnd(f),
         Got(f.chunk_start, PieceSize(f)), PieceHits(f) # {}
  PROVE  FirstHit(f.reader, f.byte) \in Nat \ {0}
         /\ FirstHit(f.reader, f.byte) - 1 = Hit(f, Min(PieceHits(f)))
  <1> DEFINE i == f.reader
             at == f.chunk_start
             size == PieceSize(f)
             m == Min(PieceHits(f))
             k == m - StartOf(i) + 1
  <1>1. i \in DOMAIN readers /\ at \in Nat /\ Seen(i, f.byte, at) /\ f.byte \in Delims
    BY FindTypes
  <1>2. StartOf(i) \in Nat /\ SizeOf(i) \in Nat
    BY <1>1, ReaderTypes
  <1>3. size \in Nat /\ size > 0 /\ at + size <= StartOf(i) + SizeOf(i)
    <2>1. FindEnd(f) - at \in Nat /\ FindEnd(f) - at > 0
      BY <1>1, <1>2 DEF FindEnd
    <2>2. size \in Nat /\ size > 0 /\ size <= FindEnd(f) - at
      BY <2>1, PieceToRead DEF PieceSize
    <2> HIDE DEF size, at
    <2> QED
      BY <1>1, <1>2, <2>2 DEF FindEnd
  <1>4. at <= FileLen /\ size <= FileLen - at
    BY DEF Got, SliceReadBytesAt, Ok, Fail
  <1>5. PieceHits(f) = {p \in at .. (at + size) - 1 : Content[p] = f.byte}
    BY DEF PieceHits, Hits
  <1>6. m \in PieceHits(f) /\ \A p \in PieceHits(f) : m <= p
    <2>1. PieceHits(f) \subseteq Nat
      BY <1>1, <1>3, <1>5
    <2>2. \E p \in PieceHits(f) : \A q \in PieceHits(f) : p <= q
      BY <2>1, LeastElement
    <2> QED
      BY <2>2 DEF Min
  <1>7. m \in at .. (at + size) - 1 /\ Content[m] = f.byte
    BY <1>5, <1>6
  <1> HIDE DEF size, at, m
  <1>8. /\ StartOf(i) <= at /\ at <= StartOf(i) + SizeOf(i)
        /\ \A p \in StartOf(i) .. at - 1 : Content[p] # f.byte
    BY <1>1, <1>2 DEF Seen
  <1>9. m \in Nat /\ m < FileLen /\ k \in 1 .. SizeOf(i) /\ StartOf(i) + k - 1 = m
    BY <1>1, <1>2, <1>3, <1>4, <1>7, <1>8, FileAssumption
  <1>10. k \in RestHits(i, f.byte)
    BY <1>1, <1>7, <1>9, HitsInFile
  <1>11. ASSUME NEW l \in RestHits(i, f.byte) PROVE k <= l
    <2> DEFINE p == StartOf(i) + l - 1
    <2>1. l \in 1 .. SizeOf(i)
      BY DEF RestHits
    <2>2. Content[p] = f.byte /\ p \in StartOf(i) .. StartOf(i) + SizeOf(i) - 1
      BY <1>1, <1>2, <1>11, <2>1, HitsInFile
    <2> HIDE DEF p
    <2>3. ~(p \in StartOf(i) .. at - 1)
      BY <1>8, <2>2
    <2>4. p \in Nat /\ at <= p
      BY <1>1, <1>2, <2>2, <2>3
    <2>5. p \in at .. (at + size) - 1 => m <= p
      BY <1>5, <1>6, <2>2
    <2>6. m <= p
      BY <1>1, <1>3, <1>7, <2>4, <2>5
    <2> QED
      BY <1>2, <1>9, <2>1, <2>6 DEF p
  <1> HIDE DEF k
  <1>12. Min(RestHits(i, f.byte)) = k
    <2> DEFINE hits == RestHits(i, f.byte)
    <2>1. \A l \in hits : l \in Nat
      BY <1>2 DEF RestHits
    <2>2. k \in hits /\ \A l \in hits : k <= l
      BY <1>10, <1>11
    <2> HIDE DEF hits
    <2>3. Min(hits) \in hits /\ \A l \in hits : Min(hits) <= l
      BY <2>2 DEF Min
    <2>4. Min(hits) = k
      BY <2>1, <2>2, <2>3
    <2> QED
      BY <2>4 DEF hits
  <1>13. FirstHit(i, f.byte) = k
    BY <1>10, <1>12 DEF FirstHit
  <1> QED
    BY <1>2, <1>9, <1>13 DEF Hit, k, m

LEMMA FindIsStep ==
  ASSUME SectionInv, NEW f \in finding, FindChunk(f)
  PROVE  SliceStep
  <1> DEFINE i == f.reader
             byte == f.byte
  <1>1. /\ i \in DOMAIN readers /\ byte \in Delims /\ f.chunk_start \in Nat
        /\ Seen(i, byte, f.chunk_start)
    BY FindTypes
  <1>2. /\ StartOf(i) \in Nat /\ SizeOf(i) \in Nat /\ i \in DOMAIN Pieces(readers)
        /\ Slice!At(i) = StartOf(i) /\ Len(Slice!Rest(i)) = SizeOf(i)
    BY <1>1, ReaderTypes, PieceOfReader
  <1>3. Slice!SelectInSeq(Slice!Rest(i), LAMBDA b : b = byte) = FirstHit(i, byte)
    BY <1>1, FoundInRest
  <1>4. ASSUME NEW result, EndFind(f, result),
               \/ /\ FirstHit(i, byte) # 0 /\ result = Slice!Num(FirstHit(i, byte) - 1)
               \/ /\ FirstHit(i, byte) = 0 /\ result = Slice!Eof
                  /\ Slice!Cut(i, Len(Slice!Rest(i))) => Slice!Rest(i) = << >>
               \/ Slice!Cut(i, Len(Slice!Rest(i))) /\ result = Slice!Io
        PROVE  SliceStep
    <2>1. asked' = Slice!Asked("find", i, byte) /\ answer' = result /\ readers' = readers
      BY <1>4 DEF EndFind, Answered
    <2>2. Pieces(readers)' = Pieces(readers)
      BY <2>1, PrimedPieces
    <2>3. Slice!Find(i, byte)
      BY <1>3, <1>4, <2>1, <2>2 DEF Slice!Find, Slice!Ask, Slice!Tell
    <2> QED
      BY <1>1, <1>2, <2>3 DEF SliceStep, Slice!Next
  <1>5. CASE f.chunk_start = FindEnd(f) /\ EndFind(f, Slice!Eof)
    <2>1. Seen(i, byte, StartOf(i) + SizeOf(i))
      BY <1>1, <1>5 DEF FindEnd
    <2> QED
      BY <1>1, <1>4, <1>5, <2>1, EndWithoutHit
  <1>6. CASE FetchPanics(f.chunk_start, PieceSize(f))
    BY <1>6, StutterIsStep DEF FetchPanics, reading, Stutters
  <1>7. CASE f.chunk_start < FindEnd(f) /\ ~Got(f.chunk_start, PieceSize(f)) /\ EndFind(f, Slice!Io)
    <2>1. FindEnd(f) - f.chunk_start \in Nat /\ FindEnd(f) - f.chunk_start > 0
      BY <1>1, <1>2, <1>7 DEF FindEnd
    <2>2. PieceSize(f) \in Nat /\ PieceSize(f) <= FindEnd(f) - f.chunk_start
      BY <2>1, PieceToRead DEF PieceSize
    <2>3. ~(f.chunk_start <= FileLen /\ PieceSize(f) <= FileLen - f.chunk_start)
      BY <1>7 DEF Got, SliceReadBytesAt, Ok, Fail
    <2>4. StartOf(i) + SizeOf(i) > FileLen
      BY <1>1, <1>2, <2>1, <2>2, <2>3, FileAssumption DEF FindEnd
    <2>5. Slice!Cut(i, Len(Slice!Rest(i)))
      BY <1>2, <2>4 DEF Slice!Cut
    <2> QED
      BY <1>4, <1>7, <2>5
  <1>8. CASE /\ f.chunk_start < FindEnd(f) /\ Got(f.chunk_start, PieceSize(f)) /\ PieceHits(f) # {}
             /\ EndFind(f, Slice!Num(Hit(f, Min(PieceHits(f)))))
    BY <1>4, <1>8, FirstHitInPiece
  <1>9. CASE UNCHANGED <<readers, asked, answer>>
    BY <1>9, StutterIsStep DEF Stutters
  <1> QED
    BY <1>5, <1>6, <1>7, <1>8, <1>9, FindCases

-----------------------------------------------------------------------------
(* All steps *)

LEMMA InitIsInit == SectionInit => Slice!Init
  BY DEF SectionInit, Slice!Init, Pieces

LEMMA PartialReadsIsStep ==
  ASSUME SectionInv, PartialReads
  PROVE  SliceStep
  <1>1. readers = << >> /\ UNCHANGED <<asked, answer>>
    BY DEF PartialReads, SectionInv, ContextInv
  <1>2. Pieces(readers) = << >>
    BY <1>1 DEF Pieces
  <1> QED
    BY <1>1, <1>2 DEF SliceStep, Slice!Next, Slice!Open

LEMMA UseReaderIsStep ==
  ASSUME SectionInv, NEW i \in DOMAIN readers, UseReader(i)
  PROVE  SliceStep
  <1>1. CASE \E byte \in Delims : StartFind(i, byte)
    BY <1>1, StutterIsStep DEF StartFind, Stutters
  <1>2. CASE ToSlice(i)
    BY <1>2, ToSliceIsStep
  <1>3. 0 \in 0 .. MaxCount
    BY SectionAssumption
  <1>4. CASE Empty(i)
    BY <1>3, <1>4, BecomeIsStep
  <1>5. CASE \E n \in 0 .. MaxCount : Truncate(i, n) \/ Skip(i, n) \/ Split(i, n)
    BY <1>5, BecomeIsStep
  <1>6. CASE \E n \in 0 .. MaxCount : ReadSlice(i, n)
    BY <1>6, ReadSliceIsStep
  <1>7. CASE \E n \in 0 .. MaxCount :
               \E op \in {"truncate", "skip", "split", "read_slice"} : TooShort(op, i, n)
    BY <1>7, TooShortIsShort
  <1>8. CASE \E j \in DOMAIN readers : OffsetFrom(i, j) \/ LookupOffsetId(i, j)
    BY <1>8, TellIsStep
  <1> QED
    BY <1>1, <1>2, <1>4, <1>5, <1>6, <1>7, <1>8 DEF UseReader

LEMMA NextIsStep ==
  ASSUME SectionInv, SectionNext
  PROVE  SliceStep
  <1>1. CASE ReadViews \/ FromObject
    BY <1>1, StutterIsStep DEF ReadViews, FromObject, reading, Stutters
  <1>2. CASE ReadOwnedSection
    BY <1>2, StutterIsStep DEF ReadOwnedSection, AddSlice, reading, Stutters
  <1>3. CASE ReadSection
    BY <1>3, StutterIsStep DEF ReadSection, FetchPanics, AddSlice, reading, Stutters
  <1>4. CASE PartialReads
    BY <1>4, PartialReadsIsStep
  <1>5. CASE ContinueFind
    BY <1>5, FindIsStep DEF ContinueFind
  <1>6. CASE \E i \in DOMAIN readers : UseReader(i)
    BY <1>6, UseReaderIsStep
  <1> QED
    BY <1>1, <1>2, <1>3, <1>4, <1>5, <1>6 DEF SectionNext

\* For every file, section and sequence of operations, reading bit by bit gives what reading all
\* at once does.
THEOREM ReadersImplementSlices == SectionSpec => ReaderImplementsSlice
  <1>1. SectionInv /\ [SectionNext]_allVars => [Slice!Next]_(Slice!vars)
    <2>1. UNCHANGED allVars => SliceStep
      BY StutterIsStep DEF allVars, reading, Stutters
    <2> QED
      BY <2>1, NextIsStep DEF SliceStep
  <1> QED
    BY <1>1, InitIsInit, SectionInvHolds, PTL DEF SectionSpec, ReaderImplementsSlice, Slice!Spec
=============================================================================
