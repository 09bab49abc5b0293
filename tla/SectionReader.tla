----------------------------- MODULE SectionReader -----------------------------
(***************************************************************************)
(* The debug sections of an object in a file and the two ways to read      *)
(* them (lib/src/dwarf.rs): all at once for an EndianSlice each, or bit by *)
(* bit through EndianRangeReadRef, a Reader over the views of FileRanges.  *)
(***************************************************************************)
EXTENDS FileRanges, Sequences

CONSTANTS
  SectionIds,       \* the names of the sections, in the order they are read
  Objects,          \* what an object may say of its sections (see SectionFields)
  ObjectStarts,     \* where in the file an object may start
  FindSize,         \* 4096: the bytes that find reads at once
  MaxReaders,       \* bounds the readers
  MaxCount,         \* bounds the counts that are asked for
  NoByte            \* in the place of a byte that the file does not have

(***************************************************************************)
(* found           under its "name", as "zdebug", or "none"                *)
(* plain           compressed_file_range() says that it is not compressed  *)
(* offset, size    its place in the object                                 *)
(* inflated        {} or {its bytes once decompressed}                     *)
(***************************************************************************)
SectionFields == {"found", "plain", "offset", "size", "inflated"}

NoObject == << >>

\* An object starts in the file; the code adds the offsets of its sections without a check.
ASSUME SectionAssumption ==
  /\ Len(SectionIds) \in Nat /\ DOMAIN SectionIds = 1 .. Len(SectionIds)
  /\ ObjectStarts \subseteq 0 .. FileLen /\ NoObject \notin Objects
  /\ \A o \in Objects : \A k \in DOMAIN SectionIds :
       LET section == o[SectionIds[k]] IN
       /\ DOMAIN section = SectionFields
       /\ section.plain \in BOOLEAN /\ section.offset \in Nat /\ section.size \in Nat
       /\ \A start \in ObjectStarts : start + section.offset + section.size <= MaxU64
  /\ FindSize \in Nat \ {0} /\ MaxReaders \in Nat /\ MaxCount \in Nat
  /\ NoByte \notin Bytes

VARIABLES
  object,           \* what is in the file
  data,             \* the SingleSectionData of each section, in order
  context,          \* "none", "slices", "readers", "refused"
  slices,           \* the sections of the EndianSlices made so far
  readers,          \* the EndianRangeReadRefs: [range_start, range_size]
  finding,          \* the find in progress: {} or {[reader, byte, chunk_start]}
  asked, answer     \* the last operation of a reader: see SliceReader

sections == <<object, data, context, slices>>
reading == <<readers, finding, asked, answer>>
allVars == <<vars, sections, reading>>

ByteAt(pos) == IF pos < FileLen THEN Content[pos] ELSE NoByte
BytesAt(start, size) == [k \in 1 .. size |-> ByteAt(start + k - 1)]

\* The promise: a reader is the bytes that it has still to read.
Remaining(reader) ==
  [at |-> reader.range_start, rest |-> BytesAt(reader.range_start, reader.range_size)]
Pieces(rs) == [i \in DOMAIN rs |-> Remaining(rs[i])]
Slice == INSTANCE SliceReader WITH pieces <- Pieces(readers)

SectionInit ==
  /\ Init
  /\ object = NoObject /\ data = << >> /\ context = "none" /\ slices = << >>
  /\ readers = << >> /\ finding = {}
  /\ asked = Slice!Asked("none", 0, 0) /\ answer = Slice!Unit

\* Other parsers read through views before: what FileRanges says.
ReadViews == object = NoObject /\ Next /\ UNCHANGED <<sections, reading>>

-----------------------------------------------------------------------------
(* SectionDataNoCopy::from_object *)

ViewData(range) == [range |-> range, owned |-> {}]
OwnedData(bytes) == [range |-> View(0, 0), owned |-> {bytes}]

\* Variation: the offset is taken to be one in the file.
SubrangeOfFile(start, size) == View(start, size)
Subrange(start, size) == View(view.range_start + start, size)

\* What cannot be found or decompressed is an empty section.
GetSectionData(section) ==
  IF section.found = "name" /\ section.plain
  THEN ViewData(Subrange(section.offset, section.size))
  ELSE IF section.found # "none" /\ section.inflated # {}
  THEN OwnedData(CHOOSE bytes \in section.inflated : TRUE)
  ELSE ViewData(Subrange(0, 0))

FromObject ==
  /\ object = NoObject /\ call.op = "none"
  /\ \E start \in ObjectStarts : view = View(start, FileLen - start)
  /\ \E o \in Objects :
       /\ object' = o
       /\ data' = [k \in DOMAIN SectionIds |-> GetSectionData(o[SectionIds[k]])]
  /\ UNCHANGED <<vars, context, slices, reading>>

\* A read of the file that RangeReadRef wraps: what it gets, and its place in the statistics.
Got(start, size) == SliceReadBytesAt(start, size).status = "ok"
CanFetch == read_call_count < MaxReads
FetchPanics(start, size) ==
  CanFetch /\ RecordPanics(start, size) /\ Panic /\ UNCHANGED <<view, call, sections, reading>>
Fetch(start, size) ==
  /\ CanFetch /\ ~RecordPanics(start, size) /\ RecordRead(start, size)
  /\ UNCHANGED <<view, call, object, data>>

NextSection == data[Len(slices) + 1]
AddSlice(bytes) ==
  /\ slices' = Append(slices, bytes)
  /\ context' = IF Len(slices) + 1 = Len(data) THEN "slices" ELSE "none"
  /\ UNCHANGED reading

\* make_addr2line_context, one section: the unwrap stops at one that cannot be read.
ReadOwnedSection ==
  /\ Running /\ context = "none" /\ data # << >>
  /\ \E bytes \in NextSection.owned : AddSlice(bytes)
  /\ UNCHANGED <<vars, object, data>>
ReadSection ==
  /\ Running /\ context = "none" /\ data # << >> /\ NextSection.owned = {}
  /\ LET range == NextSection.range IN
     \/ FetchPanics(range.range_start, range.range_size)
     \/ /\ Fetch(range.range_start, range.range_size)
        /\ IF Got(range.range_start, range.range_size)
           THEN AddSlice(BytesAt(range.range_start, range.range_size)) /\ UNCHANGED reply
           ELSE reply' = Fail("panic") /\ UNCHANGED <<sections, reading>>

\* make_addr2line_context_partial_reads
PartialReads ==
  /\ context = "none" /\ data # << >> /\ slices = << >> /\ Running
  /\ IF \A k \in DOMAIN data : data[k].owned = {}
     THEN context' = "readers" /\ readers' = [k \in DOMAIN data |-> data[k].range]
     ELSE context' = "refused" /\ UNCHANGED readers
  /\ UNCHANGED <<vars, object, data, slices, finding, asked, answer>>

-----------------------------------------------------------------------------
(* impl Reader for EndianRangeReadRef *)

Ready == Running /\ finding = {}
Answered(op, i, n, result) == asked' = Slice!Asked(op, i, n) /\ answer' = result
StartOf(i) == readers[i].range_start
SizeOf(i) == readers[i].range_size
From(i, n) == View(StartOf(i) + n, SizeOf(i) - n)

TooShort(op, i, n) ==
  /\ Ready /\ SizeOf(i) < n
  /\ Answered(op, i, n, Slice!Eof)
  /\ UNCHANGED <<vars, sections, readers, finding>>

Become(op, i, n, new) ==
  /\ Ready /\ n <= SizeOf(i)
  /\ readers' = new
  /\ Answered(op, i, n, Slice!Unit)
  /\ UNCHANGED <<vars, sections, finding>>

Truncate(i, n) == Become("truncate", i, n, [readers EXCEPT ![i] = View(StartOf(i), n)])
Empty(i) == Become("empty", i, 0, [readers EXCEPT ![i] = View(StartOf(i), 0)])
Skip(i, n) == Become("skip", i, n, [readers EXCEPT ![i] = From(i, n)])
Split(i, n) ==
  /\ Len(readers) < MaxReaders
  /\ Become("split", i, n,
            Append([readers EXCEPT ![i] = From(i, n)], View(StartOf(i), n)))

\* to_string and to_string_lossy read in the same way.
ToSlice(i) ==
  /\ Ready
  /\ \/ FetchPanics(StartOf(i), SizeOf(i))
     \/ /\ Fetch(StartOf(i), SizeOf(i))
        /\ Answered("to_slice", i, 0, IF Got(StartOf(i), SizeOf(i))
                                      THEN Slice!Got(BytesAt(StartOf(i), SizeOf(i)))
                                      ELSE Slice!Io)
        /\ UNCHANGED <<reply, context, slices, readers, finding>>

ReadSlice(i, n) ==
  /\ Ready /\ n <= SizeOf(i)
  /\ \/ FetchPanics(StartOf(i), n)
     \/ /\ Fetch(StartOf(i), n)
        /\ IF Got(StartOf(i), n)
           THEN /\ readers' = [readers EXCEPT ![i] = From(i, n)]
                /\ Answered("read_slice", i, n, Slice!Got(BytesAt(StartOf(i), n)))
           ELSE Answered("read_slice", i, n, Slice!Io) /\ UNCHANGED readers
        /\ UNCHANGED <<reply, context, slices, finding>>

\* find reads the range piece by piece.
StartFind(i, byte) ==
  /\ Ready
  /\ finding' = {[reader |-> i, byte |-> byte, chunk_start |-> StartOf(i)]}
  /\ UNCHANGED <<vars, sections, readers, asked, answer>>

EndFind(f, result) ==
  /\ finding' = {} /\ Answered("find", f.reader, f.byte, result)
  /\ UNCHANGED <<reply, context, slices, readers>>

\* Variation: the position in the piece.
HitInPiece(f, pos) == pos - f.chunk_start
Hit(f, pos) == pos - StartOf(f.reader)

FindChunk(f) ==
  LET end == StartOf(f.reader) + SizeOf(f.reader)
      chunk_size == Min({FindSize, end - f.chunk_start})
      hits == Hits(f.chunk_start, f.chunk_start + chunk_size, f.byte)
  IN
  \/ /\ f.chunk_start = end
     /\ EndFind(f, Slice!Eof) /\ UNCHANGED <<stats, view, call, object, data>>
  \/ f.chunk_start < end /\ FetchPanics(f.chunk_start, chunk_size)
  \/ /\ f.chunk_start < end /\ Fetch(f.chunk_start, chunk_size)
     /\ IF ~Got(f.chunk_start, chunk_size) THEN EndFind(f, Slice!Io)
        ELSE IF hits # {} THEN EndFind(f, Slice!Num(Hit(f, Min(hits))))
        ELSE /\ finding' = {[f EXCEPT !.chunk_start = @ + chunk_size]}
             /\ UNCHANGED <<reply, context, slices, readers, asked, answer>>
ContinueFind == Running /\ \E f \in finding : FindChunk(f)

Tell(op, i, j, result) ==
  Ready /\ Answered(op, i, j, result) /\ UNCHANGED <<vars, sections, readers, finding>>

\* Asked of a reader that is not before the other.
OffsetFrom(i, j) ==
  StartOf(j) <= StartOf(i) /\ Tell("offset_from", i, j, Slice!Num(StartOf(i) - StartOf(j)))
LookupOffsetId(i, j) ==
  Tell("lookup_offset_id", i, j,
       IF StartOf(i) <= StartOf(j) /\ StartOf(j) <= StartOf(i) + SizeOf(i)
       THEN Slice!Num(StartOf(j) - StartOf(i)) ELSE Slice!Eof)

UseReader(i) ==
  \/ Empty(i) \/ ToSlice(i)
  \/ \E byte \in Delims : StartFind(i, byte)
  \/ \E n \in 0 .. MaxCount :
       \/ Truncate(i, n) \/ Skip(i, n) \/ Split(i, n) \/ ReadSlice(i, n)
       \/ \E op \in {"truncate", "skip", "split", "read_slice"} : TooShort(op, i, n)
  \/ \E j \in DOMAIN readers : OffsetFrom(i, j) \/ LookupOffsetId(i, j)

SectionNext ==
  \/ ReadViews \/ FromObject \/ ReadOwnedSection \/ ReadSection \/ PartialReads
  \/ ContinueFind
  \/ \E i \in DOMAIN readers : UseReader(i)

SectionSpec == SectionInit /\ [][SectionNext]_allVars

(***************************************************************************)
(* Properties.                                                             *)
(***************************************************************************)
\* Reading bit by bit gives what reading all at once does: every operation of a reader answers
\* and moves it as if its bytes were in memory, find over any number of pieces in one step; an
\* I/O error comes only where the section goes on behind the end of the file.
ReaderImplementsSlice == Slice!Spec

Section(k) == object[SectionIds[k]]
Start(k) == view.range_start + Section(k).offset
IsPlain(k) == Section(k).found = "name" /\ Section(k).plain
IsInflated(k) == ~IsPlain(k) /\ Section(k).found # "none" /\ Section(k).inflated # {}
IsCut(k) == IsPlain(k) /\ Start(k) + Section(k).size > FileLen

\* Both ways start from the same sections, wherever in the file the object is: the slices hold
\* what the object says, a reader stays in its section, and partial reads are refused exactly
\* if a section was compressed.  The unwrap stops the program only for a section that goes on
\* behind the end of the file.
SectionsAreWhole ==
  object # NoObject =>
    /\ Running \/ \E k \in DOMAIN SectionIds : IsCut(k)
    /\ \A k \in DOMAIN slices :
         /\ IsPlain(k) => slices[k] = BytesAt(Start(k), Section(k).size) /\ ~IsCut(k)
         /\ IsInflated(k) => slices[k] \in Section(k).inflated
         /\ ~IsPlain(k) /\ ~IsInflated(k) => slices[k] = << >>
    /\ \A i \in DOMAIN readers : SizeOf(i) > 0 =>
         \E k \in DOMAIN SectionIds :
           /\ IsPlain(k) /\ Start(k) <= StartOf(i)
           /\ StartOf(i) + SizeOf(i) <= Start(k) + Section(k).size
    /\ context = "refused" => \E k \in DOMAIN SectionIds : IsInflated(k)
    /\ context = "readers" => \A k \in DOMAIN SectionIds : ~IsInflated(k)
================================================================================
