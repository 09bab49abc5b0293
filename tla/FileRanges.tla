------------------------------ MODULE FileRanges ------------------------------
(***************************************************************************)
(* What lies between a parser and a file that is in memory                 *)
(* (lib/src/shared.rs): FileContents for slices, FileContentsWrapper with  *)
(* the statistics of the feature partial_read_stats, and RangeReadRef, the *)
(* view of a part of the file: a member of an archive, an image of a dyld  *)
(* cache.  A view is a start and a size; views of views are made from it.  *)
(***************************************************************************)
EXTENDS FileBytes, FiniteSets, FiniteSetsExt

CONSTANTS
  ChunkSize,       \* CHUNK_SIZE of the statistics
  MaxReads         \* bounds the reads that the statistics count

\* FileReadStats::new asserts that the file is not empty.
ASSUME RangeAssumption ==
  ChunkSize \in Nat \ {0} /\ MaxReads \in Nat /\ FileLen > 0 /\ FileLen <= MaxU64

VARIABLES
  view,            \* the RangeReadRef: [range_start, range_size]
  bytes_read, unique_chunks_read, read_call_count,   \* FileReadStats
  call,            \* the last read: [op, start, end], as the view was asked
  reply            \* its answer

stats == <<bytes_read, unique_chunks_read, read_call_count>>
vars == <<view, stats, call, reply>>

View(start, size) == [range_start |-> start, range_size |-> size]

Init ==
  /\ view = View(0, FileLen)      \* full_range
  /\ bytes_read = 0 /\ unique_chunks_read = {} /\ read_call_count = 0
  /\ call = Called("none", 0, 0, NoDelim)
  /\ reply = Fail("ok")

Running == reply.status # "panic"

(***************************************************************************)
(* FileContents for slices.                                                *)
(***************************************************************************)
SliceReadBytesAt(offset, size) ==
  IF offset <= FileLen /\ size <= FileLen - offset
  THEN Ok(FileBytes(offset, offset + size)) ELSE Fail("invalid_input")

\* memchr: the delimiters in a range of the file.
Hits(start, end, delim) == {pos \in start .. end - 1 : Content[pos] = delim}

SliceReadBytesAtUntil(start, end, delim) ==
  IF end < start \/ end > FileLen THEN Fail("invalid_input")
  ELSE IF Hits(start, end, delim) = {} THEN Fail("no_delimiter")
  ELSE Ok(FileBytes(start, Min(Hits(start, end, delim))))

(***************************************************************************)
(* FileReadStats.                                                          *)
(***************************************************************************)
ChunkCount == (FileLen - 1) \div ChunkSize + 1

\* The chunks of a read.
ChunksOf(offset, size) == offset \div ChunkSize .. (offset + size - 1) \div ChunkSize

\* What a read adds to bytes_read, when some of its chunks were not read before: the rest of
\* its first chunk if that one was.  Variation: only the bytes that were asked for.
AskedBytes(offset, size) == size
AddedBytes(offset, size) ==
  LET chunks == ChunksOf(offset, size)
      first == offset \div ChunkSize
  IN  IF first \in unique_chunks_read
      THEN (Max(chunks) + 1) * ChunkSize - offset
      ELSE Cardinality(chunks) * ChunkSize

\* record_read stops the program at a chunk that the file does not have, or at an overflow.
RecordPanics(offset, size) ==
  size # 0 /\ (offset + size > MaxU64 \/ Max(ChunksOf(offset, size)) >= ChunkCount)

RecordRead(offset, size) ==
  IF size = 0 \/ ChunksOf(offset, size) \subseteq unique_chunks_read
  THEN UNCHANGED stats
  ELSE /\ bytes_read' = bytes_read + AddedBytes(offset, size)
       /\ unique_chunks_read' = unique_chunks_read \cup ChunksOf(offset, size)
       /\ read_call_count' = read_call_count + 1

Panic == reply' = Fail("panic") /\ UNCHANGED stats

(***************************************************************************)
(* RangeReadRef over FileContentsWrapper.                                  *)
(***************************************************************************)
\* make_subrange, with no check against the view it is made from.
MakeSubrange(start, size) ==
  /\ Running /\ view.range_start + start <= MaxU64
  /\ view' = View(view.range_start + start, size)
  /\ UNCHANGED <<stats, call, reply>>

\* FileContentsWrapper: the statistics count a read before it is tried.
CountedRead(start, size) ==
  \/ RecordPanics(start, size) /\ Panic
  \/ /\ ~RecordPanics(start, size) /\ RecordRead(start, size)
     /\ reply' = SliceReadBytesAt(start, size)

ReadBytesAt(offset, size) ==
  LET shifted == view.range_start + offset IN
  /\ Running /\ read_call_count < MaxReads
  /\ call' = Called("read_bytes_at", offset, offset + size, NoDelim)
  /\ \/ shifted > MaxU64 /\ reply' = Fail("invalid_input") /\ UNCHANGED stats
     \/ shifted <= MaxU64 /\ CountedRead(shifted, size)
  /\ UNCHANGED view

\* Only the wrapper has it; the pdb crate reads whole files, through no view.
ReadBytesInto(offset, size) ==
  /\ Running /\ read_call_count < MaxReads /\ view = View(0, FileLen)
  /\ call' = Called("read_bytes_into", offset, offset + size, NoDelim)
  /\ CountedRead(offset, size)
  /\ UNCHANGED view

\* Variation: the end is not shifted.
ShiftedStartOnly(start, end, delim) ==
  SliceReadBytesAtUntil(view.range_start + start, end, delim)
ShiftedUntil(start, end, delim) ==
  SliceReadBytesAtUntil(view.range_start + start, view.range_start + end, delim)

\* The statistics count a string after it was found, with its delimiter.
ReadBytesAtUntil(start, end, delim) ==
  LET answer == ShiftedUntil(start, end, delim)
      read == Cardinality(DOMAIN answer.bytes) + 1
  IN
  /\ Running /\ read_call_count < MaxReads
  /\ call' = Called("read_bytes_at_until", start, end, delim)
  /\ \/ /\ end < start \/ view.range_start + end > MaxU64
        /\ reply' = Fail("invalid_input") /\ UNCHANGED stats
     \/ /\ start <= end /\ view.range_start + end <= MaxU64
        /\ reply' = answer
        /\ IF answer.status = "ok" THEN RecordRead(view.range_start + start, read)
           ELSE UNCHANGED stats
  /\ UNCHANGED view

Next ==
  \E a, b \in U64 :
    \/ MakeSubrange(a, b) \/ ReadBytesAt(a, b) \/ ReadBytesInto(a, b)
    \/ \E delim \in Delims : ReadBytesAtUntil(a, b, delim)

Spec == Init /\ [][Next]_vars

(***************************************************************************)
(* Properties.                                                             *)
(***************************************************************************)
\* Display for FileReadStats subtracts the unique bytes from the bytes read and divides by the
\* former: in whatever order reads overlap, there is no underflow, and no division by zero once
\* a read was counted; and no chunk is counted that the file does not have.  (A wrapper that is
\* dropped before any read was counted does divide by zero.)
UniqueBytesRead == Cardinality(unique_chunks_read) * ChunkSize
StatsCanBeShown ==
  /\ unique_chunks_read \subseteq 0 .. ChunkCount - 1
  /\ bytes_read >= UniqueBytesRead
  /\ read_call_count > 0 => UniqueBytesRead > 0

At(k) == Content[view.range_start + k]
ReadIsInFile == call.start <= call.end /\ view.range_start + call.end <= FileLen
FoundLen == Cardinality(DOMAIN reply.bytes)

AnswerIsRight ==
  CASE call.op \in {"read_bytes_at", "read_bytes_into"} ->
         reply = Ok([k \in 0 .. call.end - call.start - 1 |-> At(call.start + k)])
    [] call.op = "read_bytes_at_until" /\ reply.status = "ok" ->
         /\ call.start + FoundLen < call.end
         /\ At(call.start + FoundLen) = call.delim
         /\ \A k \in 0 .. FoundLen - 1 :
              reply.bytes[k] = At(call.start + k) /\ At(call.start + k) # call.delim
    [] OTHER ->
         /\ reply.status = "no_delimiter"
         /\ \A k \in call.start .. call.end - 1 : At(k) # call.delim

\* A read through a view is answered with the bytes of the file that are as far from the start of
\* the view, or for a string with those up to its first delimiter, through any number of views,
\* and the statistics never stop it.  A view has a size but does not hold reads to it: one that
\* goes on behind the end of the view gets the bytes that the file has there.
ViewsShiftReads == [][ReadIsInFile' /\ call' # call => AnswerIsRight']_vars
===============================================================================
