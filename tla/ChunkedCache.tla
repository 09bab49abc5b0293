---------------------------- MODULE ChunkedCache ----------------------------
(***************************************************************************)
(* FileContentsWithChunkedCaching (lib/src/cache.rs) over the              *)
(* ChunkedReadBufferManager (lib/src/chunked_read_buffer_manager.rs): the  *)
(* synchronous view of a file whose bytes come from a slow source (a       *)
(* JavaScript callback in the web build).  Bytes are read from the source  *)
(* in whole chunks, kept for ever in append-only buffers, and handed out   *)
(* as slices of these buffers.                                             *)
(*                                                                         *)
(* A call is one step: the type is not Sync and no call is re-entered.     *)
(* The source may fail on any read.  Handles and indexes count from 1, so  *)
(* that 0 can stand for "none".                                            *)
(***************************************************************************)
EXTENDS FileBytes, Sequences

CONSTANT ChunkSize      \* CHUNK_SIZE

\* Rounding the end of a range up to a chunk does not overflow a u64.
ASSUME ChunkAssumption ==
  /\ ChunkSize \in Nat \ {0}
  /\ FileLen + ChunkSize - 1 <= MaxU64

VARIABLES
  call,           \* the last call, as in FileContents
  reply,          \* its answer
  buffers,        \* buffers[h]: the bytes of buffer h, a function on 0 .. n - 1
  buffer_ranges,  \* buffer_ranges[i]: [start, end, handle]
  range_map,      \* range_map[p]: the index in buffer_ranges that serves p, or 0
  string_cache    \* string_cache[<<start, delim>>]: a location, or NoLocation

cacheVars == <<buffers, buffer_ranges, range_map, string_cache>>
vars == <<call, reply, cacheVars>>

Pos == 0 .. FileLen - 1
RoundDownToMultiple(value, factor) == (value \div factor) * factor
RoundUpToMultiple(value, factor) == ((value + factor - 1) \div factor) * factor
Clamp(value) == IF value > FileLen THEN FileLen ELSE value

Location(handle, offset, size) ==
  [buffer_handle |-> handle, offset_from_start |-> offset, size |-> size]
NoLocation == Location(0, 0, 0)

\* &buffer[offset_from_start..][..size]
SliceFromLocation(bufs, loc) ==
  [k \in 0 .. loc.size - 1 |-> bufs[loc.buffer_handle][loc.offset_from_start + k]]

Panicked == reply.status = "panic"

Init ==
  /\ call = Called("none", 0, 0, NoDelim)
  /\ reply = Fail("ok")
  /\ buffers = << >>
  /\ buffer_ranges = << >>
  /\ range_map = [p \in Pos |-> 0]
  /\ string_cache = [k \in Pos \X Delims |-> NoLocation]

-----------------------------------------------------------------------------
(* determine_range_sourcing *)

StartIsCached(start) == range_map[start] # 0

\* Variation: a range that ends where its buffer ends is not found in it.
InsideExistingBuffer(start, end) ==
  StartIsCached(start) /\ end < buffer_ranges[range_map[start]].end

InExistingBuffer(start, end) ==
  StartIsCached(start) /\ end <= buffer_ranges[range_map[start]].end

\* The range to read when no buffer holds start .. end - 1.
ReadStart(start) ==
  IF StartIsCached(start) THEN start ELSE RoundDownToMultiple(start, ChunkSize)
\* Variation: the end of the range is not rounded up.
ReadEndExact(end) == Clamp(end)
ReadEnd(end) == Clamp(RoundUpToMultiple(end, ChunkSize))

-----------------------------------------------------------------------------
(* insert_buffer_range and get_range_location *)

\* Variations: the value that is there wins; the start is left out.
RangeMapInsertFirstWins(map, start, end, index) ==
  [p \in Pos |-> IF start <= p /\ p < end /\ map[p] = 0 THEN index ELSE map[p]]
RangeMapInsertAfterStart(map, start, end, index) ==
  [p \in Pos |-> IF start < p /\ p < end THEN index ELSE map[p]]

\* rangemap's insert: the new value replaces every value it overlaps.
RangeMapInsert(map, start, end, index) ==
  [p \in Pos |-> IF start <= p /\ p < end THEN index ELSE map[p]]

\* Variations: the range map alone is updated; the range is recorded from
\* the start of its chunk.
InsertInRangeMapOnly(start, end, handle) ==
  /\ UNCHANGED buffer_ranges
  /\ range_map' = RangeMapInsert(range_map, start, end, Len(buffer_ranges) + 1)
InsertFromChunkStart(start, end, handle) ==
  /\ buffer_ranges' = Append(buffer_ranges,
                             [start |-> RoundDownToMultiple(start, ChunkSize),
                              end |-> end, handle |-> handle])
  /\ range_map' = RangeMapInsert(range_map, start, end, Len(buffer_ranges) + 1)

InsertBufferRange(start, end, handle) ==
  /\ buffer_ranges' = Append(buffer_ranges,
                             [start |-> start, end |-> end, handle |-> handle])
  /\ range_map' = RangeMapInsert(range_map, start, end, Len(buffer_ranges) + 1)

ReadNewBuffer(start, end) ==
  /\ buffers' = Append(buffers, FileBytes(start, end))
  /\ InsertBufferRange(start, end, Len(buffers) + 1)

\* Variation: the offset is taken in the chunk instead of in the buffer.
RangeLocationInChunk(start, end) ==
  IF InExistingBuffer(start, end)
  THEN Location(buffer_ranges[range_map[start]].handle,
                start - RoundDownToMultiple(start, ChunkSize), end - start)
  ELSE Location(Len(buffers) + 1, start - ReadStart(start), end - start)

\* What get_range_location answers, when the source does not fail ...
RangeLocation(start, end) ==
  IF InExistingBuffer(start, end)
  THEN LET br == buffer_ranges[range_map[start]]
       IN  Location(br.handle, start - br.start, end - start)
  ELSE Location(Len(buffers) + 1, start - ReadStart(start), end - start)

\* ... and what it does to the buffers.
GetRangeLocation(start, end) ==
  IF InExistingBuffer(start, end)
  THEN UNCHANGED <<buffers, buffer_ranges, range_map>>
  ELSE ReadNewBuffer(ReadStart(start), ReadEnd(end))

\* The source is asked, and fails: `?` leaves before anything is changed.
SourceFails(start, end) ==
  /\ ~InExistingBuffer(start, end)
  /\ UNCHANGED <<buffers, buffer_ranges, range_map>>

-----------------------------------------------------------------------------
(* The operations of FileContents *)

ReadBytesAt(offset, size) ==
  LET end == offset + size
  IN  /\ ~Panicked
      /\ call' = Called("read_bytes_at", offset, end, NoDelim)
      /\ \/ /\ size = 0
            /\ reply' = Fail("ok")
            /\ UNCHANGED <<buffers, buffer_ranges, range_map>>
         \/ /\ size # 0
            /\ end > MaxU64 \/ end > FileLen
            /\ reply' = Fail("invalid_input")
            /\ UNCHANGED <<buffers, buffer_ranges, range_map>>
         \/ /\ size # 0 /\ end <= FileLen
            /\ GetRangeLocation(offset, end)
            /\ reply' = Ok(SliceFromLocation(buffers', RangeLocation(offset, end)))
         \/ /\ size # 0 /\ end <= FileLen
            /\ SourceFails(offset, end)
            /\ reply' = Fail("source_error")
      /\ UNCHANGED string_cache

UntilRangeIsValid(start, end) == start <= end /\ end <= FileLen
\* Variation: strings are never looked up.
StringIsNeverCached(start, delim) == FALSE
StringIsCached(start, delim) ==
  /\ <<start, delim>> \in DOMAIN string_cache
  /\ string_cache[<<start, delim>>] # NoLocation

\* Variation: the search has no limit but the range.
SearchEndUnlimited(start, end) == end
\* The end of the range that is searched for the delimiter.
SearchEnd(start, end) == IF end - start < MaxStrLen THEN end ELSE start + MaxStrLen

UntilInvalid(start, end) ==
  /\ ~UntilRangeIsValid(start, end)
  /\ reply' = Fail("invalid_input")
  /\ UNCHANGED cacheVars

UntilCached(start, end, delim) ==
  /\ UntilRangeIsValid(start, end)
  /\ StringIsCached(start, delim)
  /\ reply' = Ok(SliceFromLocation(buffers, string_cache[<<start, delim>>]))
  /\ UNCHANGED cacheVars

\* get_range_location with an empty range: assert!(range.start < range.end)
UntilPanics(start, end, delim) ==
  /\ UntilRangeIsValid(start, end)
  /\ ~StringIsCached(start, delim)
  /\ start = end
  /\ reply' = Fail("panic")
  /\ UNCHANGED cacheVars

UntilSourceFails(start, end, delim) ==
  /\ UntilRangeIsValid(start, end)
  /\ ~StringIsCached(start, delim)
  /\ start < end
  /\ SourceFails(start, SearchEnd(start, end))
  /\ reply' = Fail("source_error")
  /\ UNCHANGED string_cache

UntilSearched(start, end, delim) ==
  LET loc   == RangeLocation(start, SearchEnd(start, end))
      bytes == SliceFromLocation(buffers', loc)
      found == {k \in DOMAIN bytes : bytes[k] = delim}     \* memchr
  IN  /\ UntilRangeIsValid(start, end)
      /\ ~StringIsCached(start, delim)
      /\ start < end
      /\ GetRangeLocation(start, SearchEnd(start, end))
      /\ \/ /\ found = {}
            /\ reply' = Fail("no_delimiter")
            /\ UNCHANGED string_cache
         \/ \E len \in found :
              /\ \A k \in found : len <= k
              /\ string_cache' =
                   [string_cache EXCEPT ![<<start, delim>>] =
                      Location(loc.buffer_handle, loc.offset_from_start, len)]
              /\ reply' = Ok([k \in 0 .. len - 1 |-> bytes[k]])

ReadBytesAtUntil(start, end, delim) ==
  /\ ~Panicked
  /\ call' = Called("read_bytes_at_until", start, end, delim)
  /\ \/ UntilInvalid(start, end)
     \/ UntilCached(start, end, delim)
     \/ UntilPanics(start, end, delim)
     \/ UntilSourceFails(start, end, delim)
     \/ UntilSearched(start, end, delim)

\* Handed to the source as it is: nothing is looked up and nothing is kept.
ReadBytesInto(offset, size) ==
  /\ ~Panicked
  /\ call' = Called("read_bytes_into", offset, offset + size, NoDelim)
  /\ \/ /\ offset + size <= FileLen
        /\ reply' = Ok(FileBytes(offset, offset + size))
     \/ reply' = Fail("source_error")
  /\ UNCHANGED cacheVars

Next ==
  \/ \E offset, size \in U64 : ReadBytesAt(offset, size)
  \/ \E start, end \in U64, delim \in Delims : ReadBytesAtUntil(start, end, delim)
  \/ \E offset, size \in U64 : ReadBytesInto(offset, size)

Spec == Init /\ [][Next]_vars

-----------------------------------------------------------------------------
(* Invariants *)

Locations == [buffer_handle : Nat, offset_from_start : Nat, size : Nat]
BufferBytes == UNION {[0 .. n - 1 -> Bytes] : n \in 0 .. FileLen}
BufferRanges == [start : Nat, end : Nat, handle : Nat]

\* Type correctness: every variable holds what its declaration says.
TypeOK ==
  /\ call \in [op : Ops, start : U64, end : Nat, delim : Bytes \cup {NoDelim}]
  /\ reply \in [status : Statuses, bytes : BufferBytes]
  /\ buffers \in Seq(BufferBytes)
  /\ buffer_ranges \in Seq(BufferRanges)
  /\ Len(buffers) = Len(buffer_ranges)
  /\ range_map \in [Pos -> 0 .. Len(buffer_ranges)]
  /\ string_cache \in [Pos \X Delims -> Locations]

\* Every buffer holds exactly the bytes of its range of the file: the handle
\* that insert_buffer_range records is the buffer that get_range_location
\* pushed, and the range lies in the file.
BuffersHoldTheFile ==
  \A i \in 1 .. Len(buffer_ranges) :
    LET br == buffer_ranges[i]
    IN  /\ br.handle = i
        /\ br.start < br.end /\ br.end <= FileLen
        /\ buffers[i] = FileBytes(br.start, br.end)

\* A position is served by the last buffer that was read over it, and by
\* none only when no buffer was (the test last_buffer_wins).
LastBufferWins ==
  \A p \in Pos :
    LET covering == {i \in 1 .. Len(buffer_ranges) :
                       buffer_ranges[i].start <= p /\ p < buffer_ranges[i].end}
    IN  IF covering = {} THEN range_map[p] = 0
        ELSE range_map[p] \in covering /\ \A i \in covering : i <= range_map[p]

\* Every string of the string cache is a location in a buffer that existed
\* when it was found, starts where its key says and ends before the first
\* delimiter, whatever ranges the later calls ask for.
StringCacheIsSound ==
  \A key \in DOMAIN string_cache :
    LET loc == string_cache[key]
    IN  loc # NoLocation =>
          /\ loc.buffer_handle \in 1 .. Len(buffer_ranges)
          /\ buffer_ranges[loc.buffer_handle].start + loc.offset_from_start = key[1]
          /\ key[1] + loc.size < buffer_ranges[loc.buffer_handle].end
          /\ IsStringAt(key[1], key[2], loc.size)

\* The cached part of the file is made of whole chunks, so that a start that
\* is not cached can be rounded down without reading a byte that is cached.
CachedInWholeChunks ==
  \A p, q \in Pos :
    p \div ChunkSize = q \div ChunkSize => (StartIsCached(p) <=> StartIsCached(q))

\* A range that was read is found in a buffer when it is asked for again at
\* once: a parser that re-reads a header never goes back to the source.
RereadIsServed ==
  /\ call.op = "read_bytes_at" /\ reply.status = "ok" /\ call.start < call.end
  => InExistingBuffer(call.start, call.end)

-----------------------------------------------------------------------------
(* What a step may never do *)

Reach(map, ranges, p) == IF map[p] = 0 THEN p ELSE ranges[map[p]].end

\* No sequence of calls reads the same ranges over and over, each read
\* evicting what the next call needs: every read of the source increases, in
\* lexicographic order, the vector of how far each position is served.
ReadsMakeProgress ==
  [][buffers' # buffers =>
       \E p \in Pos :
         /\ Reach(range_map', buffer_ranges', p) > Reach(range_map, buffer_ranges, p)
         /\ \A q \in 0 .. p - 1 :
              Reach(range_map', buffer_ranges', q) = Reach(range_map, buffer_ranges, q)]_vars

-----------------------------------------------------------------------------
(* The contract *)

KnownStrings == {key \in Pos \X Delims : string_cache[key] # NoLocation}

Contract == INSTANCE FileContents WITH known <- KnownStrings

\* Behind the chunks and the two caches a caller sees the contract of
\* FileContents: exact bytes or an error, and strings that stay found.
ImplementsFileContents == Contract!Spec

\* The assertion of determine_range_sourcing, which "must be called with a
\* valid, non-empty range" (chunked_read_buffer_manager.rs:48), never fails.
NeverPanics == reply.status # "panic"
=============================================================================
