------------------------- MODULE ChunkedCacheProofs -------------------------
(***************************************************************************)
(* Theorems about ChunkedCache, for every file, chunk size and caller.     *)
(***************************************************************************)
EXTENDS ChunkedCache, TLAPS

-----------------------------------------------------------------------------
(* Rounding to chunks *)

\* What integer division is, from its axiom, for a divisor that is a constant.
LEMMA Division ==
  ASSUME NEW v \in Nat, NEW k \in Nat \ {0}
  PROVE  /\ v \div k \in Nat
         /\ (v \div k) * k <= v
         /\ v < (v \div k) * k + k
  OBVIOUS

LEMMA RoundDown ==
  ASSUME NEW v \in Nat
  PROVE  /\ RoundDownToMultiple(v, ChunkSize) \in Nat
         /\ RoundDownToMultiple(v, ChunkSize) <= v
  BY Division, ChunkAssumption DEF RoundDownToMultiple

LEMMA RoundUp ==
  ASSUME NEW v \in Nat
  PROVE  /\ RoundUpToMultiple(v, ChunkSize) \in Nat
         /\ v <= RoundUpToMultiple(v, ChunkSize)
  BY Division, ChunkAssumption DEF RoundUpToMultiple

-----------------------------------------------------------------------------
(***************************************************************************)
(* The only way buffers change: the range start .. end - 1 is asked for,   *)
(* no buffer serves it, and the chunks around it are read.                 *)
(***************************************************************************)
Fill(start, end) ==
  /\ start < end /\ end <= FileLen
  /\ ~InExistingBuffer(start, end)
  /\ ReadNewBuffer(ReadStart(start), ReadEnd(end))

Kept == UNCHANGED <<buffers, buffer_ranges, range_map>>

\* The part of the type invariant that is about the buffers.
BufferTypes ==
  /\ buffers \in Seq(BufferBytes)
  /\ buffer_ranges \in Seq(BufferRanges)
  /\ Len(buffers) = Len(buffer_ranges)
  /\ range_map \in [Pos -> 0 .. Len(buffer_ranges)]

\* The range that is read surrounds the range that was asked for and stays
\* in the file.
LEMMA ReadRange ==
  ASSUME NEW start \in Nat, NEW end \in Nat, start < end, end <= FileLen
  PROVE  /\ ReadStart(start) \in Nat /\ ReadStart(start) <= start
         /\ ReadEnd(end) \in Nat /\ end <= ReadEnd(end) /\ ReadEnd(end) <= FileLen
  <1>1. ReadStart(start) \in Nat /\ ReadStart(start) <= start
    BY RoundDown DEF ReadStart
  <1>2. ReadEnd(end) \in Nat /\ end <= ReadEnd(end) /\ ReadEnd(end) <= FileLen
    BY RoundUp, FileAssumption DEF ReadEnd, Clamp
  <1> QED
    BY <1>1, <1>2

\* Every step of the cache keeps its buffers or fills one.
LEMMA StepShape ==
  ASSUME [Next]_vars
  PROVE  Kept \/ \E start, end \in Nat : Fill(start, end)
  <1> USE DEF Kept
  <1>1. CASE UNCHANGED vars
    BY <1>1 DEF vars, cacheVars
  <1>2. ASSUME NEW offset \in U64, NEW size \in U64, ReadBytesAt(offset, size)
        PROVE  Kept \/ \E start, end \in Nat : Fill(start, end)
    <2>1. offset \in Nat /\ size \in Nat /\ offset + size \in Nat
      BY FileAssumption DEF U64
    <2>2. \/ Kept
          \/ /\ size # 0 /\ offset + size <= FileLen
             /\ GetRangeLocation(offset, offset + size)
      BY <1>2 DEF ReadBytesAt, SourceFails
    <2>3. CASE size # 0 /\ offset + size <= FileLen /\ GetRangeLocation(offset, offset + size)
      <3>1. offset < offset + size
        BY <2>1, <2>3
      <3> QED
        BY <2>1, <2>3, <3>1 DEF GetRangeLocation, Fill
    <2> QED
      BY <2>2, <2>3
  <1>3. ASSUME NEW start \in U64, NEW end \in U64, NEW delim \in Delims,
               ReadBytesAtUntil(start, end, delim)
        PROVE  Kept \/ \E s, e \in Nat : Fill(s, e)
    <2>1. start \in Nat /\ end \in Nat
      BY FileAssumption DEF U64
    <2>2. \/ Kept
          \/ UntilSearched(start, end, delim)
      BY <1>3 DEF ReadBytesAtUntil, UntilInvalid, UntilCached, UntilPanics,
                  UntilSourceFails, SourceFails, cacheVars
    <2>3. CASE UntilSearched(start, end, delim)
      <3> DEFINE e == SearchEnd(start, end)
      <3>1. start < end /\ end <= FileLen /\ GetRangeLocation(start, e)
        BY <2>3 DEF UntilSearched, UntilRangeIsValid
      <3>2. e \in Nat /\ start < e /\ e <= FileLen
        BY <2>1, <3>1, FileAssumption DEF SearchEnd
      <3> QED
        BY <2>1, <3>1, <3>2 DEF GetRangeLocation, Fill
    <2> QED
      BY <2>2, <2>3
  <1>4. ASSUME NEW offset \in U64, NEW size \in U64, ReadBytesInto(offset, size)
        PROVE  Kept
    BY <1>4 DEF ReadBytesInto, cacheVars
  <1> QED
    BY <1>1, <1>2, <1>3, <1>4 DEF Next

\* What a filled buffer adds to the three variables.
LEMMA FillEffect ==
  ASSUME BufferTypes, NEW start \in Nat, NEW end \in Nat, Fill(start, end)
  PROVE  LET n == Len(buffer_ranges)
             a == ReadStart(start)
             b == ReadEnd(end)
         IN  /\ n \in Nat
             /\ Len(buffer_ranges') = n + 1 /\ Len(buffers') = n + 1
             /\ buffer_ranges'[n + 1] = [start |-> a, end |-> b, handle |-> n + 1]
             /\ buffers'[n + 1] = FileBytes(a, b)
             /\ \A i \in 1 .. n : /\ buffer_ranges'[i] = buffer_ranges[i]
                                  /\ buffers'[i] = buffers[i]
             /\ range_map' = RangeMapInsert(range_map, a, b, n + 1)
  BY DEF Fill, ReadNewBuffer, InsertBufferRange, BufferTypes

-----------------------------------------------------------------------------
(* The buffers *)

LEMMA FileBytesType ==
  ASSUME NEW a \in Nat, NEW b \in Nat, a <= b, b <= FileLen
  PROVE  FileBytes(a, b) \in BufferBytes
  <1>1. b - a \in 0 .. FileLen
    BY FileAssumption
  <1>2. FileBytes(a, b) \in [0 .. (b - a) - 1 -> Bytes]
    BY FileAssumption DEF FileBytes
  <1> QED
    BY <1>1, <1>2 DEF BufferBytes

LEMMA BufferTypesInit == Init => BufferTypes
  BY DEF Init, BufferTypes, Pos

LEMMA BufferTypesStep ==
  ASSUME BufferTypes, [Next]_vars
  PROVE  BufferTypes'
  <1>1. CASE Kept
    BY <1>1 DEF Kept, BufferTypes
  <1>2. ASSUME NEW start \in Nat, NEW end \in Nat, Fill(start, end)
        PROVE  BufferTypes'
    <2> DEFINE n == Len(buffer_ranges)
               a == ReadStart(start)
               b == ReadEnd(end)
    <2>1. a \in Nat /\ b \in Nat /\ a <= b /\ b <= FileLen
      BY <1>2, ReadRange DEF Fill
    <2>2. n \in Nat /\ Len(buffers) = n
      BY DEF BufferTypes
    <2>3. buffers' \in Seq(BufferBytes)
      BY <1>2, <2>1, FileBytesType DEF Fill, ReadNewBuffer, BufferTypes
    <2>4. [start |-> a, end |-> b, handle |-> n + 1] \in BufferRanges
      BY <2>1, <2>2 DEF BufferRanges
    <2>5. buffer_ranges' \in Seq(BufferRanges)
      BY <1>2, <2>2, <2>4 DEF Fill, ReadNewBuffer, InsertBufferRange, BufferTypes
    <2>6. /\ Len(buffers') = n + 1 /\ Len(buffer_ranges') = n + 1
          /\ range_map' = RangeMapInsert(range_map, a, b, n + 1)
      BY <1>2, FillEffect
    <2> HIDE DEF a, b
    <2>7. range_map' \in [Pos -> 0 .. n + 1]
      BY <2>2, <2>6 DEF RangeMapInsert, BufferTypes
    <2> QED
      BY <2>3, <2>5, <2>6, <2>7 DEF BufferTypes
  <1> QED
    BY <1>1, <1>2, StepShape

LEMMA BuffersHoldStep ==
  ASSUME BufferTypes, BuffersHoldTheFile, [Next]_vars
  PROVE  BuffersHoldTheFile'
  <1>1. CASE Kept
    BY <1>1 DEF Kept, BuffersHoldTheFile
  <1>2. ASSUME NEW start \in Nat, NEW end \in Nat, Fill(start, end)
        PROVE  BuffersHoldTheFile'
    <2> DEFINE n == Len(buffer_ranges)
               a == ReadStart(start)
               b == ReadEnd(end)
    <2>1. a \in Nat /\ b \in Nat /\ a < b /\ b <= FileLen
      BY <1>2, ReadRange DEF Fill
    <2>2. SUFFICES ASSUME NEW i \in 1 .. Len(buffer_ranges')
                   PROVE  /\ buffer_ranges'[i].handle = i
                          /\ buffer_ranges'[i].start < buffer_ranges'[i].end
                          /\ buffer_ranges'[i].end <= FileLen
                          /\ buffers'[i] = FileBytes(buffer_ranges'[i].start,
                                                     buffer_ranges'[i].end)
      BY DEF BuffersHoldTheFile
    <2>3. /\ n \in Nat /\ Len(buffer_ranges') = n + 1
          /\ buffer_ranges'[n + 1] = [start |-> a, end |-> b, handle |-> n + 1]
          /\ buffers'[n + 1] = FileBytes(a, b)
          /\ \A j \in 1 .. n : buffer_ranges'[j] = buffer_ranges[j] /\ buffers'[j] = buffers[j]
      BY <1>2, FillEffect
    <2>4. CASE i \in 1 .. n
      BY <2>3, <2>4 DEF BuffersHoldTheFile
    <2> HIDE DEF n, a, b
    <2>5. CASE i = n + 1
      BY <2>1, <2>3, <2>5
    <2> QED
      BY <2>3, <2>4, <2>5
  <1> QED
    BY <1>1, <1>2, StepShape

LEMMA LastBufferWinsStep ==
  ASSUME BufferTypes, LastBufferWins, [Next]_vars
  PROVE  LastBufferWins'
  <1>1. CASE Kept
    BY <1>1 DEF Kept, LastBufferWins
  <1>2. ASSUME NEW start \in Nat, NEW end \in Nat, Fill(start, end)
        PROVE  LastBufferWins'
    <2> DEFINE n == Len(buffer_ranges)
               a == ReadStart(start)
               b == ReadEnd(end)
               Covers(ranges, p, i) == ranges[i].start <= p /\ p < ranges[i].end
    <2>1. a \in Nat /\ b \in Nat /\ a < b /\ b <= FileLen
      BY <1>2, ReadRange DEF Fill
    <2>2. /\ n \in Nat /\ Len(buffer_ranges') = n + 1
          /\ buffer_ranges'[n + 1] = [start |-> a, end |-> b, handle |-> n + 1]
          /\ \A j \in 1 .. n : buffer_ranges'[j] = buffer_ranges[j]
          /\ range_map' = RangeMapInsert(range_map, a, b, n + 1)
      BY <1>2, FillEffect
    <2>3. range_map \in [Pos -> 0 .. n]
      BY DEF BufferTypes
    <2> HIDE DEF n, a, b
    <2>4. SUFFICES ASSUME NEW p \in Pos
                   PROVE  LET covering == {i \in 1 .. n + 1 : Covers(buffer_ranges', p, i)}
                          IN  IF covering = {} THEN range_map'[p] = 0
                              ELSE /\ range_map'[p] \in covering
                                   /\ \A i \in covering : i <= range_map'[p]
      BY <2>2 DEF LastBufferWins
    <2>5. p \in Nat
      BY FileAssumption DEF Pos
    <2>6. Covers(buffer_ranges', p, n + 1) <=> a <= p /\ p < b
      BY <2>2
    <2>7. CASE a <= p /\ p < b
      <3>1. range_map'[p] = n + 1
        BY <2>2, <2>3, <2>7 DEF RangeMapInsert
      <3> QED
        BY <2>2, <2>6, <2>7, <3>1
    <2>8. CASE ~(a <= p /\ p < b)
      <3>1. range_map'[p] = range_map[p]
        BY <2>2, <2>8 DEF RangeMapInsert
      <3>2. {i \in 1 .. n + 1 : Covers(buffer_ranges', p, i)} = {i \in 1 .. n : Covers(buffer_ranges, p, i)}
        BY <2>2, <2>6, <2>8
      <3>3. LET covering == {i \in 1 .. n : Covers(buffer_ranges, p, i)}
            IN  IF covering = {} THEN range_map[p] = 0
                ELSE range_map[p] \in covering /\ \A i \in covering : i <= range_map[p]
        BY <2>4 DEF LastBufferWins, n
      <3> QED
        BY <3>1, <3>2, <3>3
    <2> QED
      BY <2>7, <2>8
  <1> QED
    BY <1>1, <1>2, StepShape

-----------------------------------------------------------------------------
(* The invariant of the buffers as a whole *)

BufferInv == BufferTypes /\ BuffersHoldTheFile /\ LastBufferWins

LEMMA BufferInvInit == Init => BufferInv
  <1> SUFFICES ASSUME Init PROVE BufferInv
    OBVIOUS
  <1>1. BufferTypes
    BY BufferTypesInit
  <1>2. BuffersHoldTheFile
    BY DEF Init, BuffersHoldTheFile
  <1>3. LastBufferWins
    BY DEF Init, LastBufferWins, Pos
  <1> QED
    BY <1>1, <1>2, <1>3 DEF BufferInv

LEMMA BufferInvStep == BufferInv /\ [Next]_vars => BufferInv'
  BY BufferTypesStep, BuffersHoldStep, LastBufferWinsStep DEF BufferInv

\* A cached position lies in the range of the buffer that serves it.
LEMMA ServingBuffer ==
  ASSUME BufferInv, NEW p \in Pos, StartIsCached(p)
  PROVE  /\ range_map[p] \in 1 .. Len(buffer_ranges)
         /\ buffer_ranges[range_map[p]].start <= p
         /\ p < buffer_ranges[range_map[p]].end
  <1>1. range_map[p] # 0
    BY DEF StartIsCached
  <1> QED
    BY <1>1 DEF BufferInv, LastBufferWins

\* The location that get_range_location answers is inside its buffer, at the
\* place of the buffer that holds the range.
LEMMA LocationInBuffer ==
  ASSUME BufferInv, NEW start \in Nat, NEW end \in Nat, start < end, end <= FileLen,
         GetRangeLocation(start, end)
  PROVE  LET loc == RangeLocation(start, end)
             h   == loc.buffer_handle
         IN  /\ loc = Location(h, loc.offset_from_start, end - start)
             /\ h \in 1 .. Len(buffer_ranges')
             /\ loc.offset_from_start \in Nat
             /\ buffer_ranges'[h].start \in Nat
             /\ buffer_ranges'[h].start + loc.offset_from_start = start
             /\ buffer_ranges'[h].end \in Nat
             /\ end <= buffer_ranges'[h].end
  <1> start \in Pos
    BY FileAssumption DEF Pos
  <1>1. CASE InExistingBuffer(start, end)
    <2> DEFINE i  == range_map[start]
               br == buffer_ranges[i]
    <2>1. /\ i \in 1 .. Len(buffer_ranges)
          /\ br.start <= start /\ start < br.end
      BY <1>1, ServingBuffer DEF InExistingBuffer
    <2>a. br \in BufferRanges
      BY <2>1 DEF BufferInv, BufferTypes
    <2>2. br.start \in Nat /\ br.end \in Nat /\ br.handle = i
      BY <2>1, <2>a DEF BufferInv, BuffersHoldTheFile, BufferRanges
    <2>3. RangeLocation(start, end) = Location(i, start - br.start, end - start)
      BY <1>1, <2>2 DEF RangeLocation
    <2>4. buffer_ranges' = buffer_ranges /\ end <= br.end
      BY <1>1 DEF GetRangeLocation, InExistingBuffer
    <2> HIDE DEF i, br
    <2>5. start - br.start \in Nat /\ br.start + (start - br.start) = start
      BY <2>1, <2>2
    <2> QED
      BY <2>1, <2>2, <2>3, <2>4, <2>5 DEF Location, br
  <1>2. CASE ~InExistingBuffer(start, end)
    <2> DEFINE n == Len(buffer_ranges)
               a == ReadStart(start)
               b == ReadEnd(end)
    <2>1. Fill(start, end)
      BY <1>2 DEF GetRangeLocation, Fill
    <2>2. /\ n \in Nat /\ Len(buffer_ranges') = n + 1
          /\ buffer_ranges'[n + 1] = [start |-> a, end |-> b, handle |-> n + 1]
      BY <2>1, FillEffect DEF BufferInv
    <2>3. a \in Nat /\ b \in Nat /\ a <= start /\ end <= b
      BY ReadRange
    <2>4. RangeLocation(start, end) = Location(n + 1, start - a, end - start)
      BY <1>2 DEF RangeLocation, BufferInv, BufferTypes
    <2> HIDE DEF n, a, b
    <2> QED
      BY <2>2, <2>3, <2>4 DEF Location
  <1> QED
    BY <1>1, <1>2

\* &buffer[offset..][..size]
Slice(buffer, offset, size) == [k \in 0 .. size - 1 |-> buffer[offset + k]]

\* What is read from the inside of a buffer is the file's bytes.
LEMMA SliceHoldsTheFile ==
  ASSUME NEW s \in Nat, NEW e \in Nat, NEW offset \in Nat, NEW size \in Nat,
         s + offset + size <= e
  PROVE  Slice(FileBytes(s, e), offset, size)
           = FileBytes(s + offset, s + offset + size)
  <1>1. FileBytes(s, e) = [k \in 0 .. e - s - 1 |-> Content[s + k]]
    BY DEF FileBytes
  <1>2. \A k \in 0 .. size - 1 : FileBytes(s, e)[offset + k] = Content[s + offset + k]
    <2> TAKE k \in 0 .. size - 1
    <2>1. offset + k \in 0 .. e - s - 1 /\ s + (offset + k) = s + offset + k
      OBVIOUS
    <2> QED
      BY <1>1, <2>1
  <1>3. (s + offset + size) - (s + offset) = size
    OBVIOUS
  <1> QED
    BY <1>2, <1>3 DEF FileBytes, Slice

\* A successful get_range_location answers a location of the file's bytes.
LEMMA ServedBytes ==
  ASSUME BufferInv, BufferInv', NEW start \in Nat, NEW end \in Nat,
         start < end, end <= FileLen, GetRangeLocation(start, end)
  PROVE  SliceFromLocation(buffers', RangeLocation(start, end)) = FileBytes(start, end)
  <1> DEFINE loc == RangeLocation(start, end)
             h   == loc.buffer_handle
             off == loc.offset_from_start
  <1>1. /\ loc = Location(h, off, end - start)
        /\ h \in 1 .. Len(buffer_ranges')
        /\ off \in Nat
        /\ buffer_ranges'[h].start \in Nat
        /\ buffer_ranges'[h].start + off = start
        /\ buffer_ranges'[h].end \in Nat
        /\ end <= buffer_ranges'[h].end
    BY LocationInBuffer
  <1> HIDE DEF loc
  <1>2. end - start \in Nat /\ start + (end - start) = end
    OBVIOUS
  <1>3. buffers'[h] = FileBytes(buffer_ranges'[h].start, buffer_ranges'[h].end)
    BY <1>1 DEF BufferInv, BuffersHoldTheFile
  <1> HIDE DEF h, off
  <1>4. buffer_ranges'[h].start + off + (end - start) = end
    BY <1>1, <1>2
  <1> DEFINE s == buffer_ranges'[h].start
             e == buffer_ranges'[h].end
  <1>5. /\ s \in Nat /\ e \in Nat /\ off \in Nat /\ s + off + (end - start) <= e
        /\ buffers'[h] = FileBytes(s, e)
    BY <1>1, <1>3, <1>4
  <1>6. s + off = start /\ s + off + (end - start) = end
    BY <1>1, <1>4
  <1> HIDE DEF s, e
  <1>7. SliceFromLocation(buffers', Location(h, off, end - start))
          = FileBytes(s + off, s + off + (end - start))
    <2> DEFINE size == end - start
    <2>1. SliceFromLocation(buffers', Location(h, off, size))
            = Slice(FileBytes(s, e), off, size)
      BY <1>5 DEF SliceFromLocation, Location, Slice
    <2>2. size \in Nat /\ s + off + size <= e
      BY <1>2, <1>5
    <2> HIDE DEF size
    <2>3. Slice(FileBytes(s, e), off, size)
            = FileBytes(s + off, s + off + size)
      BY <1>5, <2>2, SliceHoldsTheFile
    <2> QED
      BY <2>1, <2>3 DEF size
  <1> QED
    BY <1>1, <1>6, <1>7 DEF loc

-----------------------------------------------------------------------------
(* The strings *)

StringTypes == string_cache \in [Pos \X Delims -> Locations]
StringInv == StringTypes /\ StringCacheIsSound

LEMMA StringInvInit == Init => StringInv
  <1> SUFFICES ASSUME Init PROVE StringInv
    OBVIOUS
  <1>1. StringTypes
    BY DEF Init, StringTypes, NoLocation, Location, Locations
  <1>2. StringCacheIsSound
    BY DEF Init, StringCacheIsSound
  <1> QED
    BY <1>1, <1>2 DEF StringInv

\* A searched range starts in the file, is not empty and stays in the file
\* and within the longest string.
LEMMA SearchRange ==
  ASSUME NEW start \in U64, NEW end \in U64, start < end, end <= FileLen
  PROVE  /\ start \in Nat /\ start \in Pos
         /\ SearchEnd(start, end) \in Nat
         /\ start < SearchEnd(start, end) /\ SearchEnd(start, end) <= end
         /\ SearchEnd(start, end) <= FileLen
         /\ SearchEnd(start, end) - start <= MaxStrLen
         /\ SearchEnd(start, end) < end => SearchEnd(start, end) - start = MaxStrLen
  BY FileAssumption DEF U64, Pos, SearchEnd

\* What a search does.  Without a delimiter nothing is cached; the first
\* delimiter ends the string that is answered and cached, in a buffer that
\* holds the string together with its delimiter.
FoundNothing(start, end, delim) ==
  /\ \A k \in 0 .. SearchEnd(start, end) - start - 1 : Content[start + k] # delim
  /\ reply' = Fail("no_delimiter")
  /\ UNCHANGED string_cache

FoundString(start, end, delim, len, h, off) ==
  /\ IsStringAt(start, delim, len)
  /\ reply' = Ok(FileBytes(start, start + len))
  /\ string_cache' = [string_cache EXCEPT ![<<start, delim>>] = Location(h, off, len)]
  /\ h \in 1 .. Len(buffer_ranges') /\ off \in Nat
  /\ buffer_ranges'[h].start + off = start
  /\ start + len < buffer_ranges'[h].end

LEMMA SearchEffect ==
  ASSUME BufferInv, BufferInv', NEW start \in U64, NEW end \in U64, NEW delim \in Delims,
         UntilSearched(start, end, delim)
  PROVE  \/ FoundNothing(start, end, delim)
         \/ \E len \in 0 .. SearchEnd(start, end) - start - 1, h, off \in Nat :
              FoundString(start, end, delim, len, h, off)
  <1> DEFINE e   == SearchEnd(start, end)
             m   == e - start
             loc == RangeLocation(start, e)
             h   == loc.buffer_handle
             off == loc.offset_from_start
             bytes == SliceFromLocation(buffers', loc)
             found == {k \in DOMAIN bytes : bytes[k] = delim}
  <1>1. start < end /\ end <= FileLen /\ GetRangeLocation(start, e)
    BY DEF UntilSearched, UntilRangeIsValid
  <1>2. /\ start \in Nat /\ e \in Nat /\ start < e /\ e <= FileLen
        /\ m \in Nat /\ m <= MaxStrLen
    BY <1>1, SearchRange
  <1>3. bytes = FileBytes(start, e)
    BY <1>1, <1>2, ServedBytes
  <1>4. /\ h \in 1 .. Len(buffer_ranges') /\ off \in Nat
        /\ buffer_ranges'[h].start + off = start
        /\ buffer_ranges'[h].end \in Nat
        /\ e <= buffer_ranges'[h].end
    BY <1>1, <1>2, LocationInBuffer
  <1>5. \/ /\ found = {}
           /\ reply' = Fail("no_delimiter")
           /\ UNCHANGED string_cache
        \/ \E len \in found :
             /\ \A k \in found : len <= k
             /\ string_cache' = [string_cache EXCEPT ![<<start, delim>>] = Location(h, off, len)]
             /\ reply' = Ok([k \in 0 .. len - 1 |-> bytes[k]])
    BY DEF UntilSearched
  <1> HIDE DEF bytes, h, off, loc
  <1>6. DOMAIN bytes = 0 .. m - 1 /\ \A k \in 0 .. m - 1 : bytes[k] = Content[start + k]
    BY <1>3 DEF FileBytes
  <1>7. found = {k \in 0 .. m - 1 : Content[start + k] = delim}
    BY <1>6
  <1> HIDE DEF found, e
  <1>8. CASE found = {} /\ reply' = Fail("no_delimiter") /\ UNCHANGED string_cache
    BY <1>7, <1>8 DEF e, FoundNothing
  <1>9. ASSUME NEW len \in found,
               \A k \in found : len <= k,
               string_cache' = [string_cache EXCEPT ![<<start, delim>>] = Location(h, off, len)],
               reply' = Ok([k \in 0 .. len - 1 |-> bytes[k]])
        PROVE  /\ len \in 0 .. m - 1
               /\ IsStringAt(start, delim, len)
               /\ reply' = Ok(FileBytes(start, start + len))
               /\ start + len < buffer_ranges'[h].end
    <2>1. len \in 0 .. m - 1 /\ Content[start + len] = delim
      BY <1>7
    <2>2. \A k \in 0 .. len - 1 : Content[start + k] # delim
      BY <1>2, <1>7, <1>9, <2>1
    <2>3. len \in 0 .. MaxStrLen - 1 /\ start + len < e
      BY <1>2, <2>1, FileAssumption
    <2>4. start + len < FileLen /\ start + len < buffer_ranges'[h].end
      BY <1>2, <1>4, <2>1, <2>3, FileAssumption
    <2>5. (start + len) - start = len
      BY <1>2, <2>1
    <2>6. [k \in 0 .. len - 1 |-> bytes[k]] = FileBytes(start, start + len)
      BY <1>2, <1>6, <2>1, <2>5 DEF FileBytes
    <2> QED
      BY <1>9, <2>1, <2>2, <2>3, <2>4, <2>6 DEF IsStringAt
  <1> QED
    <2>1. h \in Nat
      BY <1>4
    <2> QED
      BY <1>4, <1>5, <1>8, <1>9, <2>1 DEF e, FoundString

LEMMA StringInvStep ==
  ASSUME BufferInv, BufferInv', StringInv, [Next]_vars
  PROVE  StringInv'
  <1> USE DEF StringInv
  <1>1. /\ \A i \in 1 .. Len(buffer_ranges) : /\ i \in 1 .. Len(buffer_ranges')
                                              /\ buffer_ranges'[i] = buffer_ranges[i]
    <2>1. CASE Kept
      BY <2>1 DEF Kept
    <2>2. ASSUME NEW start \in Nat, NEW end \in Nat, Fill(start, end)
          PROVE  \A i \in 1 .. Len(buffer_ranges) : /\ i \in 1 .. Len(buffer_ranges')
                                                    /\ buffer_ranges'[i] = buffer_ranges[i]
      <3>1. /\ Len(buffer_ranges) \in Nat
            /\ Len(buffer_ranges') = Len(buffer_ranges) + 1
            /\ \A i \in 1 .. Len(buffer_ranges) : buffer_ranges'[i] = buffer_ranges[i]
        BY <2>2, FillEffect DEF BufferInv
      <3> QED
        BY <3>1
    <2> QED
      BY <2>1, <2>2, StepShape
  <1>2. CASE UNCHANGED string_cache
    BY <1>1, <1>2 DEF StringTypes, StringCacheIsSound
  <1>3. ASSUME NEW start \in U64, NEW end \in U64, NEW delim \in Delims,
               UntilSearched(start, end, delim),
               ~(UNCHANGED string_cache)
        PROVE  StringInv'
    <2>0. PICK len \in Nat, h \in Nat, off \in Nat : FoundString(start, end, delim, len, h, off)
      <3>1. SearchEnd(start, end) - start \in Nat
        BY <1>3, SearchRange DEF UntilSearched, UntilRangeIsValid
      <3> QED
        BY <1>3, <3>1, SearchEffect DEF FoundNothing
    <2>1. /\ IsStringAt(start, delim, len)
          /\ string_cache' = [string_cache EXCEPT ![<<start, delim>>] = Location(h, off, len)]
          /\ h \in 1 .. Len(buffer_ranges')
          /\ buffer_ranges'[h].start + off = start
          /\ start + len < buffer_ranges'[h].end
      BY <2>0 DEF FoundString
    <2>2. <<start, delim>> \in Pos \X Delims
      BY <1>3, SearchRange DEF UntilSearched, UntilRangeIsValid
    <2>3. StringTypes'
      BY <2>1, <2>2 DEF StringTypes, Locations, Location
    <2>4. ASSUME NEW key \in DOMAIN string_cache', string_cache'[key] # NoLocation
          PROVE  LET loc == string_cache'[key]
                 IN  /\ loc.buffer_handle \in 1 .. Len(buffer_ranges')
                     /\ buffer_ranges'[loc.buffer_handle].start + loc.offset_from_start = key[1]
                     /\ key[1] + loc.size < buffer_ranges'[loc.buffer_handle].end
                     /\ IsStringAt(key[1], key[2], loc.size)
      <3>1. CASE key = <<start, delim>>
        BY <2>1, <2>2, <3>1 DEF StringTypes, Location
      <3>2. CASE key # <<start, delim>>
        <4>1. key \in DOMAIN string_cache /\ string_cache'[key] = string_cache[key]
          BY <2>1, <2>2, <3>2 DEF StringTypes
        <4> QED
          BY <1>1, <2>4, <4>1 DEF StringCacheIsSound
      <3> QED
        BY <3>1, <3>2
    <2> QED
      BY <2>3, <2>4 DEF StringCacheIsSound
  <1>4. \/ UNCHANGED string_cache
        \/ \E start, end \in U64, delim \in Delims : UntilSearched(start, end, delim)
    BY DEF Next, vars, cacheVars, ReadBytesAt, ReadBytesAtUntil, ReadBytesInto,
           UntilInvalid, UntilCached, UntilPanics, UntilSourceFails
  <1> QED
    BY <1>2, <1>3, <1>4

-----------------------------------------------------------------------------
(* Calls and answers *)

CallTypes ==
  /\ call \in [op : Ops, start : U64, end : Nat, delim : Bytes \cup {NoDelim}]
  /\ reply \in [status : Statuses, bytes : BufferBytes]

LEMMA FailType ==
  ASSUME NEW status \in Statuses
  PROVE  Fail(status) \in [status : Statuses, bytes : BufferBytes]
  <1>1. NoBytes \in [0 .. 0 - 1 -> Bytes]
    BY DEF NoBytes
  <1>2. 0 \in 0 .. FileLen
    BY FileAssumption
  <1> QED
    BY <1>1, <1>2 DEF Fail, BufferBytes

LEMMA OkType ==
  ASSUME NEW a \in Nat, NEW b \in Nat, a <= b, b <= FileLen
  PROVE  Ok(FileBytes(a, b)) \in [status : Statuses, bytes : BufferBytes]
  BY FileBytesType DEF Ok, Statuses

\* A hit in the string cache answers the string that starts at its key.
LEMMA CachedString ==
  ASSUME BufferInv, StringInv, NEW start \in U64, NEW end \in U64, NEW delim \in Delims,
         UntilCached(start, end, delim)
  PROVE  \E len \in 0 .. MaxStrLen - 1 :
           /\ start + len \in Nat /\ start <= start + len /\ start + len <= FileLen
           /\ start \in Nat
           /\ IsStringAt(start, delim, len)
           /\ reply' = Ok(FileBytes(start, start + len))
  <1> DEFINE key == <<start, delim>>
             loc == string_cache[key]
             h   == loc.buffer_handle
             off == loc.offset_from_start
             len == loc.size
             s   == buffer_ranges[h].start
             e   == buffer_ranges[h].end
  <1>1. key \in DOMAIN string_cache /\ loc # NoLocation
    BY DEF UntilCached, StringIsCached
  <1>2. loc \in Locations
    BY <1>1 DEF StringInv, StringTypes
  <1>3. off \in Nat /\ len \in Nat /\ loc = Location(h, off, len)
    BY <1>2 DEF Locations, Location
  <1>4. /\ h \in 1 .. Len(buffer_ranges)
        /\ s + off = start /\ start + len < e
        /\ IsStringAt(start, delim, len)
    BY <1>1 DEF StringInv, StringCacheIsSound
  <1>5. buffer_ranges[h] \in BufferRanges
    BY <1>4 DEF BufferInv, BufferTypes
  <1>6. s \in Nat /\ e \in Nat
    BY <1>5 DEF BufferRanges
  <1>7. buffers[h] = FileBytes(s, e)
    BY <1>4 DEF BufferInv, BuffersHoldTheFile
  <1>8. reply' = Ok(SliceFromLocation(buffers, loc))
    BY DEF UntilCached
  <1> HIDE DEF loc, h, off, len, s, e
  <1>9. SliceFromLocation(buffers, loc) = Slice(FileBytes(s, e), off, len)
    BY <1>3, <1>7 DEF SliceFromLocation, Location, Slice
  <1>10. Slice(FileBytes(s, e), off, len) = FileBytes(s + off, s + off + len)
    <2>1. s + off + len <= e
      BY <1>3, <1>4, <1>6
    <2> QED
      BY <1>3, <1>6, <2>1, SliceHoldsTheFile
  <1>11. /\ len \in 0 .. MaxStrLen - 1
         /\ start \in Nat /\ start + len \in Nat /\ start <= start + len /\ start + len <= FileLen
    BY <1>3, <1>4, FileAssumption DEF IsStringAt, U64
  <1> QED
    BY <1>4, <1>8, <1>9, <1>10, <1>11

\* What a step answers, whichever operation it is: bytes of the file in a
\* range inside it, or no bytes.
LEMMA AnswerShape ==
  ASSUME BufferInv, BufferInv', StringInv, [Next]_vars
  PROVE  \/ UNCHANGED reply
         \/ \E status \in Statuses : reply' = Fail(status)
         \/ \E a, b \in Nat : a <= b /\ b <= FileLen /\ reply' = Ok(FileBytes(a, b))
  <1> USE DEF Statuses
  <1>1. CASE UNCHANGED vars
    BY <1>1 DEF vars
  <1>2. ASSUME NEW offset \in U64, NEW size \in U64, ReadBytesAt(offset, size)
        PROVE  \/ \E status \in Statuses : reply' = Fail(status)
               \/ \E a, b \in Nat : a <= b /\ b <= FileLen /\ reply' = Ok(FileBytes(a, b))
    <2>1. offset \in Nat /\ offset + size \in Nat /\ offset <= offset + size
          /\ (size # 0 => offset < offset + size)
      BY FileAssumption DEF U64
    <2>2. CASE size # 0 /\ offset + size <= FileLen /\ GetRangeLocation(offset, offset + size)
               /\ reply' = Ok(SliceFromLocation(buffers', RangeLocation(offset, offset + size)))
      BY <2>1, <2>2, ServedBytes
    <2> QED
      BY <1>2, <2>2 DEF ReadBytesAt
  <1>3. ASSUME NEW start \in U64, NEW end \in U64, NEW delim \in Delims,
               ReadBytesAtUntil(start, end, delim)
        PROVE  \/ \E status \in Statuses : reply' = Fail(status)
               \/ \E a, b \in Nat : a <= b /\ b <= FileLen /\ reply' = Ok(FileBytes(a, b))
    <2>1. CASE UntilCached(start, end, delim)
      BY <2>1, CachedString
    <2>2. CASE UntilSearched(start, end, delim)
      <3>1. /\ start \in Nat /\ SearchEnd(start, end) \in Nat
            /\ start < SearchEnd(start, end) /\ SearchEnd(start, end) <= FileLen
        BY <2>2, SearchRange DEF UntilSearched, UntilRangeIsValid
      <3>2. \/ reply' = Fail("no_delimiter")
            \/ \E len \in 0 .. SearchEnd(start, end) - start - 1 :
                 reply' = Ok(FileBytes(start, start + len))
        <4>1. \/ FoundNothing(start, end, delim)
              \/ \E len \in 0 .. SearchEnd(start, end) - start - 1, h, off \in Nat :
                   FoundString(start, end, delim, len, h, off)
          BY <1>3, <2>2, SearchEffect
        <4>2. CASE FoundNothing(start, end, delim)
          BY <4>2 DEF FoundNothing
        <4>3. ASSUME NEW len \in 0 .. SearchEnd(start, end) - start - 1,
                     NEW h \in Nat, NEW off \in Nat,
                     FoundString(start, end, delim, len, h, off)
              PROVE  reply' = Ok(FileBytes(start, start + len))
          BY <4>3 DEF FoundString
        <4> QED
          BY <4>1, <4>2, <4>3
      <3>3. \A len \in 0 .. SearchEnd(start, end) - start - 1 :
              /\ start + len \in Nat /\ start <= start + len /\ start + len <= FileLen
        BY <3>1, FileAssumption
      <3> QED
        BY <3>1, <3>2, <3>3
    <2> QED
      BY <1>3, <2>1, <2>2 DEF ReadBytesAtUntil, UntilInvalid, UntilPanics, UntilSourceFails
  <1>4. ASSUME NEW offset \in U64, NEW size \in U64, ReadBytesInto(offset, size)
        PROVE  \/ \E status \in Statuses : reply' = Fail(status)
               \/ \E a, b \in Nat : a <= b /\ b <= FileLen /\ reply' = Ok(FileBytes(a, b))
    <2>1. offset \in Nat /\ offset + size \in Nat /\ offset <= offset + size
      BY FileAssumption DEF U64
    <2> QED
      BY <1>4, <2>1 DEF ReadBytesInto
  <1> QED
    BY <1>1, <1>2, <1>3, <1>4 DEF Next

LEMMA CallTypesStep ==
  ASSUME BufferInv, BufferInv', StringInv, CallTypes, [Next]_vars
  PROVE  CallTypes'
  <1>1. reply' \in [status : Statuses, bytes : BufferBytes]
    BY AnswerShape, FailType, OkType DEF CallTypes
  <1>2. call' \in [op : Ops, start : U64, end : Nat, delim : Bytes \cup {NoDelim}]
    <2>1. \/ UNCHANGED call
          \/ \E op \in Ops, offset, size \in U64 :
               call' = Called(op, offset, offset + size, NoDelim)
          \/ \E op \in Ops, start, end \in U64, delim \in Delims :
               call' = Called(op, start, end, delim)
      BY DEF Next, vars, ReadBytesAt, ReadBytesAtUntil, ReadBytesInto, Ops
    <2>2. U64 \subseteq Nat /\ Delims \subseteq Bytes
      BY FileAssumption DEF U64
    <2>3. \A offset, size \in U64 : offset + size \in Nat
      BY <2>2
    <2> QED
      BY <2>1, <2>2, <2>3 DEF CallTypes, Called
  <1> QED
    BY <1>1, <1>2 DEF CallTypes

-----------------------------------------------------------------------------
(* Theorems: the invariants *)

Inv == BufferInv /\ StringInv /\ CallTypes

LEMMA InvInit == Init => Inv
  <1> SUFFICES ASSUME Init PROVE Inv
    OBVIOUS
  <1>1. call \in [op : Ops, start : U64, end : Nat, delim : Bytes \cup {NoDelim}]
    BY FileAssumption DEF Init, Called, Ops, U64
  <1>2. reply \in [status : Statuses, bytes : BufferBytes]
    BY FailType DEF Init, Statuses
  <1> QED
    BY <1>1, <1>2, BufferInvInit, StringInvInit DEF Inv, CallTypes

LEMMA InvStep == Inv /\ [Next]_vars => Inv'
  <1> SUFFICES ASSUME Inv, [Next]_vars PROVE Inv'
    OBVIOUS
  <1>1. BufferInv'
    BY BufferInvStep DEF Inv
  <1>2. StringInv'
    BY <1>1, StringInvStep DEF Inv
  <1>3. CallTypes'
    BY <1>1, CallTypesStep DEF Inv
  <1> QED
    BY <1>1, <1>2, <1>3 DEF Inv

\* Type correctness, and the invariant that the theorems below rest on.
THEOREM InvHolds == Spec => []Inv
  BY InvInit, InvStep, PTL DEF Spec

THEOREM TypeCorrect == Spec => []TypeOK
  <1>1. Inv => TypeOK
    BY DEF Inv, BufferInv, BufferTypes, StringInv, StringTypes, CallTypes, TypeOK
  <1> QED
    BY <1>1, InvHolds, PTL

\* The buffers hold the file's bytes, whatever is read, evicted from the
\* range map and read again.
THEOREM BuffersAreCorrect == Spec => []BuffersHoldTheFile
  <1>1. Inv => BuffersHoldTheFile
    BY DEF Inv, BufferInv
  <1> QED
    BY <1>1, InvHolds, PTL

\* The range map always answers with the newest buffer over a position.
THEOREM NewestBufferServes == Spec => []LastBufferWins
  <1>1. Inv => LastBufferWins
    BY DEF Inv, BufferInv
  <1> QED
    BY <1>1, InvHolds, PTL

\* A cached string stays the string that starts at its key.
THEOREM CachedStringsAreCorrect == Spec => []StringCacheIsSound
  <1>1. Inv => StringCacheIsSound
    BY DEF Inv, StringInv
  <1> QED
    BY <1>1, InvHolds, PTL

-----------------------------------------------------------------------------
(* Theorem: the contract *)

\* The instance's own copies of the vocabulary mean what they mean here.
LEMMA Vocabulary ==
  /\ \A a, b : Contract!FileBytes(a, b) = FileBytes(a, b)
  /\ \A status : Contract!Fail(status) = Fail(status)
  /\ \A bytes : Contract!Ok(bytes) = Ok(bytes)
  /\ \A op, start, end, delim :
       Contract!Called(op, start, end, delim) = Called(op, start, end, delim)
  /\ \A start, delim, len :
       Contract!IsStringAt(start, delim, len) <=> IsStringAt(start, delim, len)
  /\ Contract!U64 = U64
  <1>1. \A a, b : Contract!FileBytes(a, b) = FileBytes(a, b)
    BY DEF Contract!FileBytes, FileBytes
  <1>2. \A status : Contract!Fail(status) = Fail(status)
    BY DEF Contract!Fail, Fail, Contract!NoBytes, NoBytes
  <1>3. \A bytes : Contract!Ok(bytes) = Ok(bytes)
    BY DEF Contract!Ok, Ok
  <1>4. \A op, start, end, delim :
          Contract!Called(op, start, end, delim) = Called(op, start, end, delim)
    BY DEF Contract!Called, Called
  <1>5. \A start, delim, len :
          Contract!IsStringAt(start, delim, len) <=> IsStringAt(start, delim, len)
    BY DEF Contract!IsStringAt, IsStringAt
  <1>6. Contract!U64 = U64
    BY DEF Contract!U64, U64
  <1> QED
    BY <1>1, <1>2, <1>3, <1>4, <1>5, <1>6

LEMMA KnownIsCached ==
  ASSUME StringInv, NEW start \in U64, NEW delim \in Delims
  PROVE  StringIsCached(start, delim) <=> <<start, delim>> \in KnownStrings
  BY DEF StringIsCached, KnownStrings, StringInv, StringTypes

LEMMA ReadImplements ==
  ASSUME Inv, Inv', NEW offset \in U64, NEW size \in U64, ReadBytesAt(offset, size)
  PROVE  Contract!ReadBytesAt(offset, size)
  <1>1. /\ offset \in Nat /\ size \in Nat /\ offset + size \in Nat
        /\ size # 0 => offset < offset + size
        /\ FileLen <= MaxU64
    BY FileAssumption, ChunkAssumption DEF U64
  <1>2. KnownStrings' = KnownStrings
    BY DEF ReadBytesAt, KnownStrings
  <1>3. CASE /\ size # 0 /\ offset + size <= FileLen
             /\ GetRangeLocation(offset, offset + size)
             /\ reply' = Ok(SliceFromLocation(buffers', RangeLocation(offset, offset + size)))
    <2>1. reply' = Ok(FileBytes(offset, offset + size))
      BY <1>1, <1>3, ServedBytes DEF Inv
    <2> QED
      BY <1>2, <1>3, <2>1, Vocabulary DEF ReadBytesAt, Contract!ReadBytesAt, Contract!Panicked, Panicked
  <1>4. ~Panicked /\ call' = Called("read_bytes_at", offset, offset + size, NoDelim)
    BY DEF ReadBytesAt
  <1>5. CASE size = 0 /\ reply' = Fail("ok")
    BY <1>2, <1>4, <1>5, Vocabulary DEF Contract!ReadBytesAt, Contract!Panicked, Panicked
  <1>6. CASE /\ size # 0
             /\ offset + size > MaxU64 \/ offset + size > FileLen
             /\ reply' = Fail("invalid_input")
    <2>1. offset + size > FileLen
      BY <1>1, <1>6, FileAssumption
    <2> QED
      BY <1>2, <1>4, <1>6, <2>1, Vocabulary DEF Contract!ReadBytesAt, Contract!Panicked, Panicked
  <1>7. CASE size # 0 /\ offset + size <= FileLen /\ reply' = Fail("source_error")
    BY <1>2, <1>4, <1>7, Vocabulary DEF Contract!ReadBytesAt, Contract!Panicked, Panicked
  <1> QED
    BY <1>3, <1>5, <1>6, <1>7 DEF ReadBytesAt

LEMMA UntilImplements ==
  ASSUME Inv, Inv', NEW start \in U64, NEW end \in U64, NEW delim \in Delims,
         ReadBytesAtUntil(start, end, delim)
  PROVE  Contract!ReadBytesAtUntil(start, end, delim)
  <1> USE DEF Contract!ReadBytesAtUntil, Contract!Panicked, Panicked
  <1>1. start \in Nat /\ end \in Nat
    BY FileAssumption DEF U64
  <1>2. ~Panicked /\ call' = Called("read_bytes_at_until", start, end, delim)
    BY DEF ReadBytesAtUntil
  <1>3. StringIsCached(start, delim) <=> <<start, delim>> \in KnownStrings
    BY KnownIsCached DEF Inv
  <1>4. UNCHANGED string_cache => UNCHANGED KnownStrings
    BY DEF KnownStrings
  <1>5. CASE UntilInvalid(start, end)
    <2>1. /\ end < start \/ end > FileLen
          /\ reply' = Fail("invalid_input")
          /\ UNCHANGED string_cache
      BY <1>1, <1>5, FileAssumption DEF UntilInvalid, UntilRangeIsValid, cacheVars
    <2> QED
      BY <1>2, <1>4, <2>1, Vocabulary
  <1>6. CASE UntilCached(start, end, delim)
    <2>1. PICK len \in 0 .. MaxStrLen - 1 :
            IsStringAt(start, delim, len) /\ reply' = Ok(FileBytes(start, start + len))
      BY <1>6, CachedString DEF Inv
    <2>2. /\ start <= end /\ end <= FileLen /\ <<start, delim>> \in KnownStrings
          /\ KnownStrings' = KnownStrings
      BY <1>3, <1>4, <1>6 DEF UntilCached, UntilRangeIsValid, cacheVars
    <2>3. KnownStrings' = KnownStrings \cup {<<start, delim>>}
      BY <2>2
    <2> QED
      BY <1>2, <2>1, <2>2, <2>3, Vocabulary
  <1>7. CASE UntilPanics(start, end, delim)
    BY <1>2, <1>3, <1>4, <1>7, Vocabulary DEF UntilPanics, UntilRangeIsValid, cacheVars
  <1>8. CASE UntilSourceFails(start, end, delim)
    BY <1>2, <1>3, <1>4, <1>8, Vocabulary DEF UntilSourceFails, UntilRangeIsValid
  <1>9. CASE UntilSearched(start, end, delim)
    <2>1. /\ start < end /\ start <= end /\ end <= FileLen
          /\ <<start, delim>> \notin KnownStrings
      BY <1>1, <1>3, <1>9 DEF UntilSearched, UntilRangeIsValid
    <2> DEFINE m == SearchEnd(start, end) - start
    <2>2. /\ m \in Nat /\ m <= MaxStrLen /\ start + m <= end
          /\ start + m < end => m = MaxStrLen
      BY <1>1, <2>1, SearchRange
    <2>3. \/ FoundNothing(start, end, delim)
          \/ \E len \in 0 .. m - 1, h, off \in Nat :
               FoundString(start, end, delim, len, h, off)
      BY <1>9, SearchEffect DEF Inv
    <2>4. CASE FoundNothing(start, end, delim)
      <3>1. \A k \in 0 .. m - 1 : Content[start + k] # delim
        BY <2>4 DEF FoundNothing
      <3>2. \A len \in 0 .. MaxStrLen - 1 : IsStringAt(start, delim, len) => start + len >= end
        <4> SUFFICES ASSUME NEW len \in 0 .. MaxStrLen - 1, Content[start + len] = delim
                     PROVE  start + len >= end
          BY DEF IsStringAt
        <4>1. ~(len \in 0 .. m - 1)
          BY <3>1
        <4> HIDE DEF m
        <4> QED
          BY <1>1, <2>2, <4>1, FileAssumption
      <3>3. reply' = Fail("no_delimiter") /\ UNCHANGED KnownStrings
        BY <1>4, <2>4 DEF FoundNothing
      <3> QED
        BY <1>2, <2>1, <3>2, <3>3, Vocabulary
    <2>5. ASSUME NEW len \in 0 .. m - 1, NEW h \in Nat, NEW off \in Nat,
                 FoundString(start, end, delim, len, h, off)
          PROVE  Contract!ReadBytesAtUntil(start, end, delim)
      <3> HIDE DEF m
      <3>1. IsStringAt(start, delim, len) /\ reply' = Ok(FileBytes(start, start + len))
        BY <2>5 DEF FoundString
      <3>2. len \in 0 .. MaxStrLen - 1 /\ start + len < end
        BY <1>1, <2>2, FileAssumption
      <3>3. KnownStrings' = KnownStrings \cup {<<start, delim>>}
        <4>1. string_cache' = [string_cache EXCEPT ![<<start, delim>>] = Location(h, off, len)]
          BY <2>5 DEF FoundString
        <4>2. h # 0
          BY <2>5 DEF FoundString
        <4>3. Location(h, off, len) # NoLocation
          BY <4>2 DEF NoLocation, Location
        <4>4. <<start, delim>> \in Pos \X Delims
          BY <2>1, SearchRange
        <4>5. string_cache \in [Pos \X Delims -> Locations]
          BY DEF Inv, StringInv, StringTypes
        <4> QED
          BY <4>1, <4>3, <4>4, <4>5 DEF KnownStrings
      <3> QED
        BY <1>2, <2>1, <3>1, <3>2, <3>3, Vocabulary
    <2> QED
      BY <2>3, <2>4, <2>5
  <1> QED
    BY <1>5, <1>6, <1>7, <1>8, <1>9 DEF ReadBytesAtUntil

\* Chunks, the range map and the string cache are invisible: every caller
\* sees the contract of FileContents.
THEOREM CacheImplementsContract == Spec => ImplementsFileContents
  <1>1. Init => Contract!Init
    <2> SUFFICES ASSUME Init PROVE Contract!Init
      OBVIOUS
    <2>1. KnownStrings = {}
      BY DEF Init, KnownStrings
    <2> QED
      BY <2>1, Vocabulary DEF Init, Contract!Init
  <1>2. ASSUME Inv, Inv', [Next]_vars
        PROVE  [Contract!Next]_(Contract!fcVars)
    <2>1. CASE UNCHANGED vars
      BY <2>1 DEF vars, cacheVars, Contract!fcVars, KnownStrings
    <2>2. ASSUME NEW offset \in U64, NEW size \in U64, ReadBytesAt(offset, size)
          PROVE  Contract!Next
      BY <1>2, <2>2, ReadImplements, Vocabulary DEF Contract!Next
    <2>3. ASSUME NEW start \in U64, NEW end \in U64, NEW delim \in Delims,
                 ReadBytesAtUntil(start, end, delim)
          PROVE  Contract!Next
      BY <1>2, <2>3, UntilImplements, Vocabulary DEF Contract!Next
    <2>4. ASSUME NEW offset \in U64, NEW size \in U64, ReadBytesInto(offset, size)
          PROVE  Contract!Next
      <3>1. Contract!ReadBytesInto(offset, size)
        BY <2>4, Vocabulary DEF ReadBytesInto, Contract!ReadBytesInto, Contract!Panicked, Panicked,
                    cacheVars, KnownStrings
      <3> QED
        BY <3>1, Vocabulary DEF Contract!Next
    <2> QED
      BY <1>2, <2>1, <2>2, <2>3, <2>4 DEF Next
  <1> QED
    BY <1>1, <1>2, InvHolds, PTL DEF Spec, Contract!Spec, ImplementsFileContents

-----------------------------------------------------------------------------
(* Theorems: whole chunks and progress *)

LEMMA MultiplyMonotone ==
  ASSUME NEW x \in Nat, NEW y \in Nat, NEW k \in Nat, x <= y
  PROVE  x * k <= y * k
  <1>1. PICK d \in Nat : y = x + d
    <2>1. y - x \in Nat /\ y = x + (y - x)
      OBVIOUS
    <2> QED
      BY <2>1
  <1>2. y * k = x * k + d * k /\ d * k >= 0
    BY <1>1
  <1>3. x * k \in Nat /\ d * k \in Nat /\ y * k \in Nat
    OBVIOUS
  <1> QED
    BY <1>2, <1>3

\* A value is below a multiple of the chunk size when its chunk is.
LEMMA BelowMultiple ==
  ASSUME NEW v \in Nat, NEW m \in Nat
  PROVE  v < m * ChunkSize <=> v \div ChunkSize < m
  <1> DEFINE c == v \div ChunkSize
  <1>1. ChunkSize \in Nat \ {0}
    BY ChunkAssumption
  <1>2. c \in Nat /\ c * ChunkSize <= v /\ v < c * ChunkSize + ChunkSize
    BY <1>1, Division
  <1> HIDE DEF c
  <1>3. c * ChunkSize \in Nat /\ m * ChunkSize \in Nat
    BY <1>1, <1>2
  <1>4. ASSUME c < m PROVE v < m * ChunkSize
    <2>1. (c + 1) * ChunkSize <= m * ChunkSize
      BY <1>1, <1>2, <1>4, MultiplyMonotone
    <2>2. (c + 1) * ChunkSize = c * ChunkSize + ChunkSize
      BY <1>1, <1>2
    <2> QED
      BY <1>1, <1>2, <1>3, <2>1, <2>2
  <1>5. ASSUME m <= c PROVE m * ChunkSize <= v
    <2>1. m * ChunkSize <= c * ChunkSize
      BY <1>1, <1>2, <1>5, MultiplyMonotone
    <2> QED
      BY <1>2, <1>3, <2>1
  <1> QED
    BY <1>2, <1>3, <1>4, <1>5 DEF c

\* Rounding down reaches the first position of the chunk.
LEMMA RoundDownInChunk ==
  ASSUME NEW v \in Nat
  PROVE  RoundDownToMultiple(v, ChunkSize) \div ChunkSize = v \div ChunkSize
  <1> DEFINE c == v \div ChunkSize
             r == RoundDownToMultiple(v, ChunkSize)
  <1>1. c \in Nat /\ ChunkSize \in Nat \ {0}
    BY Division, ChunkAssumption
  <1>2. r = c * ChunkSize /\ r \in Nat /\ r <= v
    BY RoundDown DEF RoundDownToMultiple
  <1> HIDE DEF r
  <1>3. r \div ChunkSize \in Nat
    BY <1>1, <1>2, Division
  <1>4. ~(r \div ChunkSize < c)
    BY <1>1, <1>2, BelowMultiple
  <1>5. r \div ChunkSize < c + 1
    <2>1. v < (c + 1) * ChunkSize
      BY <1>1, BelowMultiple
    <2>2. r < (c + 1) * ChunkSize
      <3>1. (c + 1) * ChunkSize \in Nat
        BY <1>1
      <3> QED
        BY <1>2, <2>1, <3>1
    <2> QED
      BY <1>1, <1>2, <2>2, BelowMultiple
  <1> QED
    BY <1>1, <1>3, <1>4, <1>5 DEF r

LEMMA WholeChunksStep ==
  ASSUME BufferInv, CachedInWholeChunks, [Next]_vars
  PROVE  CachedInWholeChunks'
  <1>1. CASE Kept
    BY <1>1 DEF Kept, CachedInWholeChunks, StartIsCached
  <1>2. ASSUME NEW start \in Nat, NEW end \in Nat, Fill(start, end)
        PROVE  CachedInWholeChunks'
    <2> DEFINE n == Len(buffer_ranges)
               a == ReadStart(start)
               b == ReadEnd(end)
               c(v) == v \div ChunkSize
    <2>1. /\ n \in Nat /\ range_map' = RangeMapInsert(range_map, a, b, n + 1)
      BY <1>2, FillEffect DEF BufferInv
    <2>2. /\ a \in Nat /\ b \in Nat /\ a <= start /\ b <= FileLen
          /\ start < end /\ end <= FileLen
          /\ start \in Pos
      BY <1>2, ReadRange, FileAssumption DEF Fill, Pos
    <2>3. ASSUME NEW p \in Pos
          PROVE  StartIsCached(p)' <=> (a <= p /\ p < b) \/ StartIsCached(p)
      BY <2>1 DEF StartIsCached, RangeMapInsert
    <2>4. ASSUME NEW p \in Pos, NEW q \in Pos, c(p) = c(q), a <= p, p < b, ~(a <= q /\ q < b)
          PROVE  StartIsCached(q)
      <3>1. p \in Nat /\ q \in Nat /\ p < FileLen /\ q < FileLen
        BY FileAssumption DEF Pos
      <3>2. q < b
        <4> DEFINE m == (end + ChunkSize - 1) \div ChunkSize
        <4>1. m \in Nat
          BY ChunkAssumption, Division, <1>2
        <4>2. b = FileLen \/ b = m * ChunkSize
          BY DEF ReadEnd, Clamp, RoundUpToMultiple
        <4>3. CASE b = m * ChunkSize
          BY <2>4, <3>1, <4>1, <4>3, BelowMultiple
        <4> QED
          BY <3>1, <4>2, <4>3
      <3>3. q < a
        BY <2>2, <2>4, <3>1, <3>2
      <3>4. CASE StartIsCached(start)
        <4>1. a = start
          BY <3>4 DEF ReadStart
        <4>2. c(start) = c(q)
          <5>1. c(q) \in Nat /\ c(p) \in Nat /\ c(start) \in Nat
            BY <1>2, <3>1, Division, ChunkAssumption
          <5>2. p < (c(p) + 1) * ChunkSize /\ ~(q < c(q) * ChunkSize)
            BY <3>1, <5>1, BelowMultiple
          <5>3. (c(p) + 1) * ChunkSize \in Nat /\ c(q) * ChunkSize \in Nat
            BY <5>1, ChunkAssumption
          <5>4. start < (c(p) + 1) * ChunkSize /\ ~(start < c(q) * ChunkSize)
            BY <1>2, <2>4, <3>1, <3>3, <4>1, <5>2, <5>3
          <5>5. c(start) < c(p) + 1 /\ ~(c(start) < c(q))
            BY <1>2, <5>1, <5>4, BelowMultiple
          <5> HIDE DEF c
          <5> QED
            BY <2>4, <5>1, <5>5
        <4> QED
          BY <2>2, <3>4, <4>2 DEF CachedInWholeChunks
      <3>5. CASE ~StartIsCached(start)
        <4> DEFINE d == c(start)
        <4>1. a = d * ChunkSize /\ d \in Nat
          BY <3>5, Division, ChunkAssumption, <1>2 DEF ReadStart, RoundDownToMultiple
        <4>2. c(q) < d /\ ~(c(p) < d)
          BY <2>4, <3>1, <3>3, <4>1, BelowMultiple, <2>2
        <4> QED
          BY <2>4, <4>2
      <3> QED
        BY <3>4, <3>5
    <2> QED
      BY <2>3, <2>4 DEF CachedInWholeChunks
  <1> QED
    BY <1>1, <1>2, StepShape

\* Chunks are cached as a whole or not at all.
THEOREM ChunksAreWhole == Spec => []CachedInWholeChunks
  <1>1. Init => CachedInWholeChunks
    BY DEF Init, CachedInWholeChunks, StartIsCached
  <1>2. Inv /\ CachedInWholeChunks /\ [Next]_vars => CachedInWholeChunks'
    BY WholeChunksStep DEF Inv
  <1> QED
    BY <1>1, <1>2, InvHolds, PTL DEF Spec

\* Every read of the source moves the cache forward, so that no sequence of
\* calls makes it go back to an earlier state and read the same ranges again.
THEOREM CacheMakesProgress == Spec => ReadsMakeProgress
  <1> DEFINE Progress ==
               buffers' # buffers =>
                 \E p \in Pos :
                   /\ Reach(range_map', buffer_ranges', p) > Reach(range_map, buffer_ranges, p)
                   /\ \A q \in 0 .. p - 1 :
                        Reach(range_map', buffer_ranges', q) = Reach(range_map, buffer_ranges, q)
  <1>1. ASSUME Inv, CachedInWholeChunks, NEW start \in Nat, NEW end \in Nat, Fill(start, end)
        PROVE  Progress
    <2> DEFINE n == Len(buffer_ranges)
               a == ReadStart(start)
               b == ReadEnd(end)
    <2>0. BufferInv /\ BufferTypes
      BY <1>1 DEF Inv, BufferInv
    <2>1. /\ n \in Nat
          /\ buffer_ranges'[n + 1] = [start |-> a, end |-> b, handle |-> n + 1]
          /\ \A j \in 1 .. n : buffer_ranges'[j] = buffer_ranges[j]
          /\ range_map' = RangeMapInsert(range_map, a, b, n + 1)
      BY <1>1, <2>0, FillEffect
    <2>2. /\ a \in Nat /\ b \in Nat /\ a <= start /\ end <= b
          /\ start < end /\ end <= FileLen /\ a < b
          /\ start \in Pos /\ a \in Pos
      BY <1>1, ReadRange, FileAssumption DEF Fill, Pos
    <2>3. Reach(range_map', buffer_ranges', a) = b
      <3>1. range_map'[a] = n + 1 /\ n + 1 # 0
        BY <2>1, <2>2 DEF RangeMapInsert
      <3> HIDE DEF a, b, n
      <3> QED
        BY <2>1, <3>1 DEF Reach
    <2>4. Reach(range_map, buffer_ranges, a) < b
      <3>1. CASE StartIsCached(start)
        <4>1. a = start /\ range_map[a] # 0
          BY <3>1 DEF ReadStart, StartIsCached
        <4>2. range_map[start] \in 1 .. n
          BY <2>0, <2>2, <3>1, ServingBuffer
        <4>3. buffer_ranges[range_map[start]] \in BufferRanges
          BY <2>0, <4>2 DEF BufferTypes
        <4>4. buffer_ranges[range_map[start]].end < end
          <5>1. ~(end <= buffer_ranges[range_map[start]].end)
            BY <1>1, <3>1 DEF Fill, InExistingBuffer
          <5> QED
            BY <1>1, <4>3, <5>1 DEF BufferRanges
        <4>5. buffer_ranges[range_map[start]].end \in Nat
          BY <4>3 DEF BufferRanges
        <4> QED
          BY <2>2, <4>1, <4>4, <4>5 DEF Reach
      <3>2. CASE ~StartIsCached(start)
        <4>1. a = RoundDownToMultiple(start, ChunkSize)
          BY <3>2 DEF ReadStart
        <4>2. a \div ChunkSize = start \div ChunkSize
          BY <1>1, <4>1, RoundDownInChunk
        <4>3. ~StartIsCached(a)
          BY <1>1, <2>2, <3>2, <4>2 DEF CachedInWholeChunks
        <4> QED
          BY <2>2, <4>3 DEF Reach, StartIsCached
      <3> QED
        BY <3>1, <3>2
    <2>5. ASSUME NEW q \in 0 .. a - 1
          PROVE  Reach(range_map', buffer_ranges', q) = Reach(range_map, buffer_ranges, q)
      <3>1. q \in Pos /\ ~(a <= q)
        BY <2>2, FileAssumption DEF Pos
      <3> HIDE DEF a, b
      <3>2. range_map'[q] = range_map[q]
        BY <2>1, <3>1 DEF RangeMapInsert
      <3>3. range_map[q] \in 0 .. n
        BY <2>0, <3>1 DEF BufferTypes
      <3>4. range_map[q] # 0 => buffer_ranges'[range_map[q]] = buffer_ranges[range_map[q]]
        BY <2>1, <3>3
      <3> QED
        BY <3>2, <3>4 DEF Reach
    <2>6. Reach(range_map, buffer_ranges, a) \in Int
      <3>1. range_map[a] \in 0 .. n
        BY <2>0, <2>2 DEF BufferTypes
      <3>2. range_map[a] # 0 => buffer_ranges[range_map[a]] \in BufferRanges
        BY <2>0, <2>1, <3>1 DEF BufferTypes
      <3> QED
        BY <2>2, <3>2 DEF Reach, BufferRanges
    <2>7. Reach(range_map', buffer_ranges', a) > Reach(range_map, buffer_ranges, a)
      <3> HIDE DEF a, b
      <3> QED
        BY <2>2, <2>3, <2>4, <2>6
    <2> QED
      BY <2>2, <2>5, <2>7
  <1>2. ASSUME Inv, CachedInWholeChunks, [Next]_vars
        PROVE  Progress
    <2>1. CASE Kept
      BY <2>1 DEF Kept
    <2> QED
      BY <1>1, <1>2, <2>1, StepShape
  <1> QED
    BY <1>2, InvHolds, ChunksAreWhole, PTL DEF Spec, ReadsMakeProgress

-----------------------------------------------------------------------------
(* Theorem: a range that was just read is served *)

\* What was read is there at the next call: nothing evicts it in between.
THEOREM RereadsAreServed == Spec => []RereadIsServed
  <1>1. Init => RereadIsServed
    BY DEF Init, RereadIsServed, Called
  <1>2. ASSUME Inv, RereadIsServed, [Next]_vars
        PROVE  RereadIsServed'
    <2> USE DEF RereadIsServed
    <2>1. CASE UNCHANGED vars
      BY <1>2, <2>1 DEF vars, cacheVars, InExistingBuffer, StartIsCached
    <2>2. ASSUME NEW offset \in U64, NEW size \in U64, ReadBytesAt(offset, size)
          PROVE  RereadIsServed'
      <3>1. /\ offset \in Nat /\ size \in Nat /\ offset + size \in Nat
            /\ size # 0 => offset < offset + size
            /\ size = 0 => ~(offset < offset + size)
        BY FileAssumption DEF U64
      <3>2. call'.start = offset /\ call'.end = offset + size
        BY <2>2 DEF ReadBytesAt, Called
      <3>3. CASE size # 0 /\ offset + size <= FileLen /\ GetRangeLocation(offset, offset + size)
        <4>1. CASE InExistingBuffer(offset, offset + size)
          <5>1. InExistingBuffer(offset, offset + size)'
            BY <3>3, <4>1 DEF GetRangeLocation, InExistingBuffer, StartIsCached
          <5> QED
            BY <3>2, <5>1 DEF InExistingBuffer, StartIsCached
        <4>2. CASE ~InExistingBuffer(offset, offset + size)
          <5> DEFINE n == Len(buffer_ranges)
                     a == ReadStart(offset)
                     b == ReadEnd(offset + size)
          <5>1. Fill(offset, offset + size)
            BY <3>1, <3>3, <4>2 DEF GetRangeLocation, Fill
          <5>2. /\ n \in Nat
                /\ buffer_ranges'[n + 1] = [start |-> a, end |-> b, handle |-> n + 1]
                /\ range_map' = RangeMapInsert(range_map, a, b, n + 1)
            BY <1>2, <3>1, <5>1, FillEffect DEF Inv, BufferInv
          <5>3. /\ a \in Nat /\ b \in Nat /\ a <= offset /\ offset + size <= b
                /\ offset < b /\ offset \in Pos
            BY <3>1, <3>3, ReadRange, FileAssumption DEF Pos
          <5> HIDE DEF a, b, n
          <5>4. range_map'[offset] = n + 1
            BY <5>2, <5>3 DEF RangeMapInsert
          <5> QED
            BY <3>2, <5>2, <5>3, <5>4 DEF InExistingBuffer, StartIsCached
        <4> QED
          BY <4>1, <4>2
      <3>4. CASE size = 0
        BY <3>1, <3>2, <3>4
      <3>5. CASE reply' = Fail("invalid_input") \/ reply' = Fail("source_error")
        BY <3>5 DEF Fail
      <3> QED
        BY <2>2, <3>3, <3>4, <3>5 DEF ReadBytesAt
    <2>3. CASE call'.op # "read_bytes_at"
      BY <2>3
    <2>4. ASSUME NEW start \in U64, NEW end \in U64, NEW delim \in Delims,
                 ReadBytesAtUntil(start, end, delim)
          PROVE  call'.op # "read_bytes_at"
      BY <2>4 DEF ReadBytesAtUntil, Called
    <2>5. ASSUME NEW offset \in U64, NEW size \in U64, ReadBytesInto(offset, size)
          PROVE  call'.op # "read_bytes_at"
      BY <2>5 DEF ReadBytesInto, Called
    <2> QED
      BY <1>2, <2>1, <2>2, <2>3, <2>4, <2>5 DEF Next
  <1> QED
    BY <1>1, <1>2, InvHolds, PTL DEF Spec
=============================================================================
