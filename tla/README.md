# Verification of profiler-get-symbols

profiler-get-symbols finds the symbols of binaries for the Firefox profiler. Given the name and the debug id of
a library it asks a *helper* (a web page, or a tool on a file system) where the binary may be, opens the
candidates one by one, reads them through a synchronous view of a slow source, and answers with a symbol table
or with the functions, inline frames and source lines of a list of addresses. Two API entries are built on
this: `/symbolicate/v5` and `/source/v1`.

This directory holds TLA+ modules of the library's own logic, TLC configurations that check them on small
instances, and proofs, for every instance, of the invariants and action properties that they check, all but one. Paths below are
relative to the repository; `PROJECT.json` names the lines that each definition stands for.

## The system

| Component | State | Operations | What makes it correct | Module |
|---|---|---|---|---|
| Chunked file cache (`lib/src/cache.rs`, `chunked_read_buffer_manager.rs`) | buffers, recorded ranges, range map, cached strings | `read_bytes_at`, `read_bytes_at_until`, `read_bytes_into` | exact bytes after every order of calls; ranges do not evict each other for ever | `ChunkedCache` |
| Contract of `FileContents` (`lib/src/shared.rs`) | the strings that were found | the same | what the parsers rely on | `FileContents` |
| File views and statistics (`lib/src/shared.rs`) | start and size of a view; chunks and bytes counted | reads through views, views of views | a view reads the file from its start on; counts never underflow | `FileRanges` |
| Debug sections (`lib/src/dwarf.rs`) | sections of an object; readers that are cut and split; a search in progress | reading a section at once; the operations of a `gimli::Reader` | both ways read the same bytes, and only those of the section | `SliceReader`, `SectionReader` |
| Candidate search (`lib/src/lib.rs`, `elf.rs`, `macho.rs`, `windows.rs`, `wasm/src/lib.rs`) | candidate, open files, last error | one step per open and per kind of file | the first candidate that decides wins; no symbols of another build; files are closed; it ends | `CandidateSearch` |
| Table dumper (`examples/dump_table`) | the id in the error of the first search | a search, and another one with that id | the id leads to symbols wherever there are some | `DumpTable` |
| External objects of Mach-O files (`lib/src/macho.rs`) | queue of references, debug info found | matching addresses with functions; opening objects and archives | debug info of the right function, in every order of the hash maps; one object ends it only if an address leads there | `AddressMatching`, `MatchFuns`, `ObjectTraversal` |
| Function starts and ends (`lib/src/macho.rs`, `elf.rs`, `windows.rs`) | position, partial number, sum; the CIE parsed last; both lists | one step per byte of `LC_FUNCTION_STARTS`, per entry of `__unwind_info`, `.eh_frame` and `.pdata` | the sums of the numbers, for any data; starts and ends in pairs, by the right CIE | `FunctionStarts`, `FunctionLists` |
| Symbol tables and lookups (`lib/src/shared.rs`, `compact_symbol_table.rs`) | table; entries; results | making the table; looking up an address | the two ways to give out symbols agree | `SymbolLookup` |
| Symbolication API (`lib/src/symbolicate/v5`) | addresses by library, results by library, response | gathering, one lookup per library, response | every frame gets the answer of its own library and address; no panic | `Symbolicate` |
| Path mapping (`lib/src/path_mapper.rs`, `windows.rs`) | two caches, the srcsrv stream | mapping a raw path | caches do not change answers | `PathMapper` |
| Source API (`lib/src/source/mod.rs`) | what earlier requests reported; the running request | a request for the source of a file | only files that the debug data refers to are opened; reported files are served | `SourceAccess` |

How they interact: the two API entries call the candidate search, which opens files through the helper (a
callback that may fail) and reads them through `FileContents`. Every file is wrapped in `FileContentsWrapper`,
and members of archives and images of dyld caches are read through `RangeReadRef`. For a Mach-O file with
debug info elsewhere the search runs the traversal of external objects, which opens more files. Lookups report
what they find by callbacks (`add_address_symbol`, `add_address_debug_info`) to `LookedUpAddresses` or
`FramesForSingleAddress`; paths in their frames go through a `PathMapper` that lives as long as one lookup.

What is hard here is not threads: nothing in the library runs in parallel. It is

- *sequences of calls*: what a cache answers depends on every call before it, and a cache that is asked for
  overlapping ranges could read them for ever;
- *partial failure*: each candidate, subcache, object file, archive and library of a request may fail at any
  of its steps while the others must still be served, or may end in an `unwrap`, which ends the others too;
- *order*: hash maps are walked in an order that changes from run to run, and results are gathered by library
  and spread again by module index;
- *stale answers*: a client sends back a name that another request made, with other caches and perhaps from
  another location of the symbol file;
- *numeric edges*: clamping to the end of the file, conversion to 32 bits, empty ranges, numbers that are too
  long, addresses between, at and behind functions;
- *resources*: files that stay open, loops over a queue that is refilled.

`PROJECT.json` lists these hazards at their lines, each with the properties that cover it, or with the reason
why none does.

### What is not modelled

- The parsers of file formats (`object`, `pdb_addr2line` with the `pdb` crate it re-exports, `addr2line`, `gimli`) are external crates.
  What they answer is an input: a file has a kind, an id, and may be unsound.
- Demangling, error messages, JSON and debug ids are pure conversions. Ids are compared for equality only; no
  property is about the spelling of a name.
- Which function of a PDB file an address is in: `pdb_addr2line` finds it. The checks before it are in
  `CandidateSearch`, the callbacks after it in `Symbolicate`, the stream of paths in `PathMapper`.
- Apart from the second search of `dump_table`, the command line tools are sequential wrappers; their
  candidate lists are inputs of `CandidateSearch`.
- The dispatch of the API on its URL, and `make_addr2line_context_partial_reads`, which nothing in the
  repository calls; the reader that it would use is in `SectionReader`.
- Faults of the environment other than those of calls: nothing is persisted, so there is no crash to recover
  from, and no call is retried but the one of `dump_table`.

## Modules

One module per component; its `MC` module and `.cfg` files instantiate it. A definition whose comment calls it
a *variation* is a plausible mistake, beside the definition it would replace; no specification uses it.

**`FileBytes`** is the vocabulary of `FileContents` and of everything below it: a file is a function from
positions to bytes, `Called` and `Ok`/`Fail` are calls and answers, `IsStringAt` says where a string starts
and ends. Offsets are at most `MaxU64`.

**`FileContents`** is the abstract specification. Its only memory is the set of strings that were found once,
because the code promises, by its string cache, to find them again in any range.

**`ChunkedCache`** has the four pieces of state of the code under their own names: `buffers` (the `FrozenVec`),
`buffer_ranges`, `range_map` (`rangemap::RangeMap`, as a function from positions to indexes) and
`string_cache`. Each of the three operations is one action, since the type is neither `Sync` nor re-entered;
inside it, the cases of the code are disjuncts, among them a failing source and the assertion that an empty
range reaches. `Contract` instantiates `FileContents` with `known` as the strings that are cached, and
`ImplementsFileContents` is the refinement.

**`FileRanges`** has a view (start and size), the statistics and the last read. `MakeSubrange` makes a view of
the view; reads go through `RangeReadRef`, `FileContentsWrapper` (which records them) and the slice.

**`SectionReader`** puts an object into the file of `FileRanges`. Its debug sections, some compressed, some
missing or cut off, are read at once for slices, or by readers over views, with one action for each
operation of `gimli::Reader` except `find`, which takes one step for each piece of the range that it reads.
(`to_string` and `to_string_lossy` read as `to_slice` does.) **`SliceReader`** says what gimli expects of a
reader: it is the rest of the bytes of a section, and every operation takes one step. The mapping
`pieces <- Pieces(readers)`, which gives each reader the bytes of its range, shows that the readers implement it; a `find` stutters
until it answers.

**`CandidateSearch`** follows the async function of a query. It is suspended only where a file is opened; every
action runs from one such point to the next, or to the next turn of a loop. `handles` are the files that are
open, `leaked` those that the JavaScript helper opened and nobody will close. A right ELF or Mach-O file whose
debug sections are cut off does not fail but panics (`dwarf.rs:277`) when a query asks for lines, and so may the
traversal. A panic ends the query: a build that unwinds closes the files on the way, the WebAssembly
build stops where it is, so `handles` is empty or stays. The operators below "The promise" say,
without the search, which candidates are acceptable, which ones stop the program (`Stops`), and that either kind
decides the query. **`DumpTable`** runs it for the nil id and
then, if the last error names another id, for that one, as `dump_table` does when it is given none.

**`AddressMatching`** says what the doc of `match_funs_to_addresses` promises; **`MatchFuns`** is its loop over
two sorted lists, one action per branch of an iteration; **`ObjectTraversal`** uses the promise and models the
traversal: `queue` is filled in any order of the hash maps, an archive is opened once for all its members,
and `info` collects the debug info. An object that does not parse ends it with an error; debug sections that are
cut off (`dwarf.rs:277`) and the name of an object that is not UTF-8 (`macho.rs:423`) end it with a panic.
`TraversalAssumption` says what objects and files look like. `Chase` follows each address from function to
function on its own, without a queue, as the reference; `CanBeLost` says which addresses a shared name can cost,
and `IsObstacle` at which places a query cannot go on.

**`SortedSeqs`** says what sorting, picking elements of a list and dropping duplicates are, and what a sum is: by
the ranks of positions and a recursive function, since the provers know nothing of `SortSeq`, `SelectSeq` and folds.

**`SymbolLookup`** makes the table and then looks up every address in the same object. Addresses wrap at
`U32Size` where the code converts them and are checked where the code checks them.

**`FunctionStarts`** reads one byte per step. Shifts are counted in groups of bits: a group has `Radix` values, a
word is full after `LastShift` groups and one bit, and an address has `AddressSize` values; `Weight[n]` is what a
one stands for after n groups. An addition that overflows
either stops the program or wraps, since builds differ. **`FunctionLists`** composes it with what the other
sections give: `__unwind_info` is appended to the decoded starts; the entries of `.eh_frame` come in any
order in which an FDE is behind its CIE, with one cached CIE that every FDE compares with its own; `.pdata` is
taken three words at a time.

**`Symbolicate`** gathers the addresses module by module, runs one lookup per library (it sorts, looks up and
collects both callbacks, or fails), and creates the response with every index, subtraction, `unwrap` and
`expect` on its way as an explicit panic. The `HashMap`s are walked in any order.

**`PathMapper`** has the two caches and the two regular expressions, with a path as the sequence of its
components. The stream of a PDB names a download, whose URL becomes a permalink if its site is known, or a
command, of which one form is recognized: the code compares with the command for Python 3 twice, although its
comment also quotes one for Python 2, and so does the model. **`SourceAccess`** composes it: a symbolication maps all the frames of a library with one mapper,
and a later request looks up one address with a new one, with the symbol file found locally or not.

## Runs

Run with `tlc -config X.cfg M`.

| Run | What is explored | What it shows |
|---|---|---|
| `chunked_cache` | all calls on a file of 4 bytes in chunks of 3, at most 3 buffers | Buffers hold the file, the newest buffer serves a position, cached strings are right whatever range found them, chunks are cached whole, a range that was just read is not read again, each read of the source moves the cache forward, and callers see `FileContents` |
| `chunked_empty_range` | the same, looking for a panic | Violated: see the findings |
| `candidate_search` | files of every kind at 3 locations, with debug info that is whole, cut off, or leads to objects that fail or panic; 4 candidate lists, 2 PDB lists, queries with and without lines, by `DumpTable` for a known id and for none | The first candidate that decides ends the query, by symbols or a panic, and the error is the last one; symbols have the wanted id on every path; files are closed as soon as they are not needed, except one whose size cannot be read and those that a panic without unwinding leaves; a second search with the id in the error succeeds if any could; both end |
| `match_funs` | lists of up to 3 functions, which may overlap, be empty or start together, and of up to 3 addresses | One pass gives what the doc says and never has to look back |
| `match_duplicates` | functions of one name in one object | Violated: see the findings |
| `traversal` | roots with up to 2 functions in an object file and an archive, which may be missing, corrupt, cut off, misnamed or nested, in every order | An address takes one way and gets the debug info of its own function; nothing that no address leads to ends the query; the traversal ends |
| `symbol_lookup` | objects of up to 2 symbols, a dynamic symbol, an export, a section, a start and an end, in an address space of 10 relative addresses in 20 | The table gives back the map it was made of; both ways agree where the function of an address starts, and each names it by a symbol that is there; dead space has no symbol, functions do not overlap and hold their addresses |
| `symbolicate` | requests of up to 2 jobs over 4 memory maps, with lookups that know anything and fail anywhere | No panic; every frame is answered as its own library says; missing modules are explained; a bad index refuses the request as a whole; every request is answered |
| `source_access` | frames over 5 kinds of paths, symbol files in a directory, relative and custom ones, without a source server stream or with one of many, requests for names that were seen or guessed | Only referred files are opened, reported names are served, caches are transparent |
| `section_reader` | up to 2 reads of any range through views of views of a file of 5 bytes in chunks of 2; then objects of 2 sections in that file and every sequence of reader operations on up to 3 readers | A view reads the file shifted by its start, and the statistics are consistent; sections are whole and readers stay inside them; readers implement `SliceReader` |
| `function_lists` | every data of up to 6 bytes with short `__unwind_info`; every `.eh_frame` of up to 4 entries, FDEs behind their CIEs; `.pdata` of any words | No bit is lost, and the starts are the sums of the numbers up to the first that is zero, too long or cut off; each FDE is read by its own CIE; starts and ends stay in pairs |
| `kernel_starts` | an image at a high address | Violated: see the findings |

### Bounds

- `MaxBuffers` (a state constraint) goes on only from states with at most 3 buffers: a fourth is still
  added and checked. The file has 4 bytes, so 2 chunks of 3, the second cut by the end. The
  interesting cases need two or three: a part of a range cached, a range across the border of chunks that
  takes over parts of two buffers, a string in an older buffer. The proofs have no such bound. `MaxU64` is
  small, so that calls beyond the end of the file and beyond 2^64 happen.
- Three locations are what a PE file with a wrong and a right PDB file needs, and what a failed candidate
  before and after the right one needs. Subcaches 1 and 2 and `.symbols` show a gap, an end and a leftover.
- Three functions and three addresses: one function between two, addresses before, between and behind.
- `MaxHops` is not a cut: no chain of references in the inputs of `traversal` is longer than 3 (`ChainsAreShort`,
  which TLC evaluates), so `Chase` reaches the end of all.
- `U32Size` and `U64Size` are 10 and 20, so that relative addresses wrap and sections end outside.
- `MaxReads` bounds the reads that are counted one by one. A read touches one, two or all three chunks, and the
  reads of sections that follow are counted too, so that chunks overlap in every way.
- `FindSize` is 2, so that a `find` takes up to three pieces and a hit is in the first, a middle or the last.
  `MaxReaders` allows two sections and the part that was split off one of them; readers may reach beyond the
  end of the file. `SectionAssumption` keeps the place of a section below 2^64: the code adds without a check.
- `FunctionStarts` has bytes of 2 + 1 bits, words of 5 and addresses of 4: as with 7, 64 and 32, the last group
  has one bit left in a word, and a word is wider than an address. Six bytes are two of the longest numbers,
  enough for sums that leave the word. Four entries of `.eh_frame` are two CIEs and two FDEs; an FDE names its CIE
  by the distance back, so the CIE is before it.
- Two jobs, two stacks and two libraries (and one whose id is not valid) share libraries within a job and
  between jobs.

### Fairness

`DumpTable`, `ObjectTraversal` and `Symbolicate` assume weak fairness of their next step: an executor polls the
one future until it is ready, and each open that the helper was asked for resolves, with a file or an error.
All other modules state safety only and assume no fairness. The caches and readers may see no further call, or
panic, so the configurations of `ChunkedCache` and `SectionReader` do not check deadlock.

Termination of the traversal holds because no chain of references in its inputs comes back to an object; the
code has no guard against one that does.

### Findings

- `chunked_empty_range`: `read_bytes_at_until` accepts an empty range and passes it on to a function whose doc
  asks for a non-empty one and asserts it.
- `match_duplicates`: when two functions of one object have the same name, the addresses of the first are
  neither assigned nor returned as internal.
- `kernel_starts`: the starts of functions that `.eh_frame` gives are the low halves of virtual addresses, not
  relative to the base of the image as the doc says. They differ for a kernel image, whose base is not zero.

`PROJECT.json` quotes the lines.

### Known losses

What follows is in the models, as the code does it, and part of what the properties allow for. No doc promises
otherwise, so no run refutes it; but no property catches it either.

- When the helper names no PDB files the candidate fails, though the PE file has exports (`windows.rs:54`), and
  an architecture of a fat file that cannot be parsed hides a later one with the wanted id (`macho.rs:36`).
- A missing subcache hides those with higher numbers (`macho.rs:76`).
- One external object that an address leads to and that cannot be parsed drops the debug info of all the others
  (`macho.rs:267`). `OnlyObstaclesEndIt` says that no other object does so.
- Cut debug sections (`dwarf.rs:277`) and names that are not UTF-8 (`macho.rs:423`) stop the program, also
  when a later candidate has the symbols. `FirstToDecideWins` and `OnlyObstaclesEndIt` say when.
- Object names that are equal (members of one name in one archive) share an entry, and one loses its addresses
  (`macho.rs:435`); `CanBeLost` leaves them out of `DebugInfoIsTraced`. The same is so for functions of one name
  (`macho.rs:299`), which `match_duplicates` refutes.
- Of several symbols at one address, a lookup gives the first of symbols, dynamic symbols and exports, in the
  order that the code calls best to worst (`shared.rs:516`), while the table keeps the last of dynamic symbols, symbols and
  exports (`shared.rs:436`). So the same function may have one name in a table and another in an answer.
  `SameFunctionInTable` asks that both are names of a symbol there, not that they are one.

## Proofs

`ChunkedCacheProofs` proves, for every file, chunk size, string length and set of delimiters:

| Theorem | Property |
|---|---|
| `TypeCorrect` | `TypeOK` |
| `BuffersAreCorrect` | `BuffersHoldTheFile` |
| `NewestBufferServes` | `LastBufferWins` |
| `CachedStringsAreCorrect` | `StringCacheIsSound` |
| `ChunksAreWhole` | `CachedInWholeChunks` |
| `RereadsAreServed` | `RereadIsServed` |
| `CacheMakesProgress` | `ReadsMakeProgress` |
| `CacheImplementsContract` | `ImplementsFileContents` |

Assumptions: `FileAssumption` (the file is a function on its positions, strings have at least one byte, `NoDelim`
is not a byte) and `ChunkAssumption` (the chunk size is positive, and rounding the end of the file up to a
chunk does not overflow a u64: the code adds `CHUNK_SIZE - 1`).

The inductive invariant is `Inv`, of three parts. `BufferInv` holds the types of the buffers,
`BuffersHoldTheFile` and `LastBufferWins` together: that a served range is right needs the handle that the
range map leads to, and that the handle is right needs the range map. `StringInv` rests on `BufferInv`, since
a cached string is a location in a buffer and stays right because buffers are only appended. `CallTypes` is
the type of the last call and its answer.

- `StepShape` reduces every step to two cases: the buffers stay, or one range is read that surrounds the range
  that was asked for. `FillEffect` says what the second case changes. Each invariant is then proved for a fill.
- `LocationInBuffer`, `SliceHoldsTheFile` and `ServedBytes` say that what `get_range_location` answers is inside
  its buffer and holds the bytes of the file; `SearchEffect` does the same for string searches.
- `ChunksAreWhole` is inductive with `BufferInv`: a start that is not cached lies in a chunk of which nothing is
  cached, which is why it may be rounded down. It needs the arithmetic lemmas on division.
- `CacheMakesProgress` takes the start of the range that is read as the position that is served further, and
  shows that positions before it are unchanged. The vector of reaches is bounded by the length of the file, so
  the number of reads of the source in any sequence of calls is bounded.
- `CacheImplementsContract` maps each case of an operation to a case of `FileContents`. `Vocabulary` says that
  the instance's copies of `FileBytes` mean the same.

`DumpTableProofs` proves, for every content of the files, every list of candidates and PDB files and every
answer of the helper:

| Theorem | Property |
|---|---|
| `FirstToDecideEndsTheSearch` | `FirstToDecideWins` |
| `SymbolsAreOfThisBuild` | `SymbolsHaveTheWantedId` |
| `FilesAreClosedEarly` | `FewFilesAreOpen` |
| `NothingElseLeaks` | `OnlySizelessFilesLeak` |
| `RetryFindsTheTable` | `SecondSearchSucceeds` |

Assumptions: `SearchAssumption` (types; finitely many subcaches; every PDB file has an id) and `NilAssumption`
(the nil id is an id, and not the wanted one). Both searches are steps of `DumpSpec`, so the theorems hold for a
search for a known id and for the two of `dump_table`.

The inductive invariant is `DumpInv`. For the running search it says (`EarlierFail`) that the candidates before
`i` decide nothing and that the last error is of the last of them, and (`PointInv`) what is known and which
files are open at each point where the search is suspended: that the PDB files before `j` do not match, that the
subcaches before `j` are there, that only the external objects are missing. `SecondInv` keeps of the first
search that the file which named the id could be read as far as that id.

- `GoesOn`, `Fails`, `Succeeds` and `Panics` are the ends of every action: it stays with the candidate, goes to
  the next one, or is done, with symbols or without. `DecisionStays` and `EarlierDoNot` carry what was decided
  over a step, and `DecidedFile` says which file it is. Each lemma `...Keeps` of an action decides which end it is.
- `FirstDecides` is the part for fat files: the first member that can be used, or the error of the last one.
- `ScanFinds` says that the subcaches which were counted up to the first gap are those that `Found` defines; the
  gap is the least element of a set of numbers (`LeastElement`, by well-founded induction).
- `RetryFindsTheTable` needs more than the error of the first search: a file that names its id is acceptable for
  this id unless it is cut off behind the id, or has no debug info that a query for lines would need; the table
  dumper does not ask for lines.

`FunctionProofs` proves three groups of theorems about functions. For every list of bytes of
`LC_FUNCTION_STARTS`, every order of the entries of `.eh_frame` and all words of `.pdata`:

| Theorem | Property |
|---|---|
| `NoBitIsLost` | `ShiftFits` |
| `DecodedStartsAreSums` | `DeltasAreSummed` |
| `BoundsStayInPairs` | `BoundsAreOfOneFunction` |

Assumptions: `StartsAssumption` (an address divides a word: 2^32 and 2^64 in the code) and `ListsAssumption`
(types).

- `DecoderInv` says where the decoder is: a number that is being read began `shift` bytes ago, and `result` is
  the sum of its groups by their weights, less than the weight of the next one (`NumberInv`). A bit is lost only
  if a group has bits beyond the word, and the decoder gives up before that.
- `StartsInv` says that the k-th start is the sum of the deltas up to the k-th, cut to an address. An addition
  wraps in some builds; the sum of what wrapped is the wrapped sum because a word is a multiple of an address
  (`RestOfRest` and the other lemmas on remainders).
- `BoundsInv`: the CIE that is kept is the one at its offset (`CieInv`), so every FDE read so far has given its
  start and end by its own CIE (`ElfInv`); three words of `.pdata` are read for each pair (`PeInv`).

For every two lists that are sorted (`MatchAssumption`: by address, with natural numbers for addresses and sizes):

| Theorem | Property |
|---|---|
| `OnePassIsEnough` | `NeverLooksBack` |
| `PassMatchesAsDocumented` | `MatchesAsDocumented` |

`NeverLooksBack` is inductive with the positions. `MatchInv` adds what the loop has collected: the internal
addresses, those under the current function, and the entries of the map after `n` functions, where an entry
stays until a later function of the same name in the same object has addresses. `FunctionAt`, which the doc of
the function describes, is the last function that covers an address or none (`FunctionOrNone`), and the lemmas
`InCurrentFunction`, `BetweenFunctions` and `BehindAllFunctions` say which it is at each branch of the loop.

For every root object and file system (`TraversalAssumption`: types), references that go round included:

| Theorem | Property |
|---|---|
| `AddressesAreFollowedOnce` | `AddressesTakeOneWay` |
| `DebugInfoIsFollowed` | `DebugInfoIsTraced`, where every chain of references ends |

`OneWayInv` is the inductive invariant: every map in the queue and every object that is pending holds an address
once (`HoldsOnce`), two of them hold different addresses, and none holds an address whose debug info is known.
`AssignedOnce` says that what the matching gives to two objects is disjoint, and disjoint from what stays
internal; `ReferencesAre` and `QueueGrows` carry this to the references, in any order of the hash maps;
`TranslatedArePairs` says that an address which was held once is translated to one place.

`DebugInfoIsFollowed` is about the states in which `ChainsEnd`: no address is still in a function of another
object after `MaxHops` hops. As `MaxHops` may be any number, this leaves out no chain but those that go round, for
which the traversal does not end. `TraceInv` relates the queue to the reference: every address in a map under the
path and the member of an object, with a name and an offset, has its next place in `Chase` there (`LeadsTo`,
`Rightly`), and an address that is in no map is answered.

- `Chases` and `ChaseStays` say what the recursive function computes: one hop after the other, until a hop
  changes nothing.
- A hop is made in two steps of the traversal. An object collects (`CollectTraces`): what is in no other object is
  answered (`StaysHere`); the rest is in the map of the object of its name (`FunctionsLead`), unless an entry is
  shared and it may be lost (`FunctionsHold`). The other object is then opened and translates (`Arrives`).
- An address that is dropped, since a file, a member or a symbol is missing, has no place any more in `Chase`
  (`GoesNowhere`), so the answer of none is right.
- An object that ends the query leaves nothing to trace (`EndedKeeps`, `EndTraces`).

The third invariant of the traversal, `OnlyObstaclesEndIt`, is only model-checked.

`SectionReaderProofs` proves, for every file that is not empty, every chunk size and every sequence of reads
through views (`RangeAssumption`), and then for every object in the file, every size of the pieces that `find`
reads and every sequence of operations:

| Theorem | Property |
|---|---|
| `StatisticsAreConsistent`, `StatisticsOfSections` | `StatsCanBeShown` |
| `ReadsAreShifted`, `ReadsAreShiftedBesideSections` | `ViewsShiftReads` |
| `SectionsStayWhole` | `SectionsAreWhole` |
| `ReadersImplementSlices` | `ReaderImplementsSlice` |

Assumption: `SectionAssumption`. An object starts in the file, and start, offset and size of a section do not
overflow together; a section may go on behind the end of the file. A byte that the file does not have is no byte.

`StatsCanBeShown` is inductive with the types of the counters. `CountedBytes` compares what a read adds to the
bytes with the chunks that it adds: if its first chunk is not new, one chunk less is added and the bytes are
counted from the start of the read. Strings are counted after they were found, without the checks of the other
reads; `FoundInFile` shows that they need none.

`StatsCanBeShown` says that a byte was counted once a read was. A wrapper that is dropped without a read divides
by zero all the same (`shared.rs:727`, with the feature `partial_read_stats`; `macho.rs:82` and `macho.rs:96` may
drop one): the property leaves that case out, and the run shows nothing of it.

`ViewsShiftReads` is an action property. A view lies at its start in the file (`PartIsRead`, `ShiftedRange`), so the
bytes of a read are those of the file there (`BytesAreRight`), and a string ends at the first delimiter of the part
that is searched, or there is none in it (`StringIsRight`). The end of a view is only taken for its `len`: a read
that goes on behind it gets the bytes of the file there, as the code does not compare it with the size of
the range (`shared.rs:896`). The property says so for these reads too; it does not say that a view keeps to its part.

For sections the inductive invariant is `SectionInv`: that of the reads before; `ObjectInv`, that the sections are what the
object says, and that only a cut section stops the program; `SlicesInv` and `ReadersInv`, that what was read is
the section and every reader is a part of one; `ContextInv`, which of the two ways was taken; and `FindInv`.

- `FindInv` is what the refinement rests on: a `find` that has come to `pos` has not met the byte between the
  start of its reader and `pos` (`Seen`), and what it passed is in the file. `FirstHitInPiece` concludes that the
  first hit in a piece is the first one in the whole rest of the reader, and `EndWithoutHit` that an end without
  a hit means that there is none; `FindIsStep` makes the last step of a `find` the one step of `SliceReader`.
- `BytesFrom` and `BytesUpto` say that the rest of a reader, cut anywhere, is the rest of the bytes.
- `ReplacePiece` and `AddPiece` say what an operation makes of the mapping, and the lemmas `...IsStep` take one operation each;
  everything else is a stutter (`StutterIsStep`).

`SymbolLookupProofs` proves, for every object, address width and list of lookups:

| Theorem | Property |
|---|---|
| `TableGivesBackTheMap` | `TableRoundTrips` |
| `TableAndLookupsAgree` | `SameFunctionInTable` |
| `NoSymbolReachesTheDeadSpace` | `DeadSpaceHasNoSymbol` |
| `FoundFunctionsAreDisjoint` | `FunctionsAreDisjoint` |

Assumption: `LookupAssumption` (types; a u64 has a multiple of the values of a u32). `TableGivesBackTheMap`
and `TableAndLookupsAgree` hold while the names fill less than `U32Size`: the code converts their positions with
`as u32`.

The invariant `Inv` says that what was made stays as it was made from the object, so the theorems are about the
makers. `FirstsAreKept` says what a stable sort and dropping duplicates leave: every address once, ascending, with
the entry that came first. `TableEntries` and `NamesInTable` read a name back from the buffer of all of them, from
the end of the last one to its own, which later names do not move (`BufferGrows`). A lookup finds the last entry at or before its address, and as an end of a section is an
entry without a name, none reaches beyond.

That the two ways agree is stated for what they do agree on: where a function starts (`SameStart`), and that each of
them names it by a symbol of the object at this address, or both by the same made-up name (`SameName`). With
`FirstIsInFront` and `LastIsInBack`, the names that the lists keep come from the symbols. Which
of several names at one address it is, they disagree on (see the known losses above).

`SymbolicateProofs` proves, for every request, every symbol file and every failure of a lookup:

| Theorem | Property |
|---|---|
| `RequestsAreRefusedWhole` | `RefusedAsAWhole` |
| `ResponsesNeverPanic` | `NeverPanics` |
| `LookupsAscend` | `LookupsAreAscending` |
| `FramesAreAnsweredInPlace` | `FramesAreAnswered` |
| `ErrorsAreExplained` | `ErrorsExplainMissingModules` |

Assumption: `RequestAssumption` (lists, indices and addresses that are numbers; names without a slash; what a file
knows of an address is one symbol at most, one list of frames at most (both are an `Option`), and a symbol does
not start behind the address that it was found for, as `SymbolLookup` shows).

The inductive invariant has five parts. `GatherInv` says that every frame of the jobs so far is in its map and
its address is requested of its library, but for those of the modules that the current job has still to gather;
`PhaseInv` that nothing is left when the lookups begin; `LookupInv` that a lookup has the addresses of its library
sorted, and the results of all that it has called back for; `DoneInv` that the results of a library are what its
file says of each requested address; `AnswerInv` that every requested library then has a result.

- `SortedSorts`, `DedupAscends` and `SameElements` say that sorting and dropping duplicates keep every address.
- `ResponsesNeverPanic` then needs that the address of a frame is among the results of its library, that its
  symbol does not start behind it, and that a list of frames which replaces a symbol is not empty.
- `KeysAreUnique` is why an error belongs to one library: the first slash of a key ends the name (`FirstMark`).

`SourceAccessProofs` proves all three properties of the source API and its path mapper:

| Theorem | Property |
|---|---|
| `OpensOnlyReferredFiles` | `OnlyReferredFilesAreOpened` |
| `ServesReportedFiles` | `ReportedFilesAreServed` |
| `CachesChangeNothing` | `CachesAreTransparent` |

Assumption: `SourceAssumption` (a symbol file has lists of frames at numbers). The invariant says that a mapper is
`Faithful`: each entry of its two caches is what the stream, or the mapper without it, says of the path. So
`MapPathIsFaithful` can give an `Answer` that depends on the base, the stream and the path alone, and
`MapFramesIsFaithful` does so for all frames of an address: `MapFrames` is a recursive function, whose existence
and value are shown by the least position where they could fail. The paths of a request are then those of its
address (`RequestInv`), a reported name is one of them (`ReportInv`), and the local part of an answer is the raw
path below the base (`AnswerIsLocal`).

`SortedSeqsProofs` has the lemmas on finite sets of numbers, sorted and picked lists, lists of lists and sums that
the other modules share. What a recursive function computes is shown by the least argument at which it could fail
(`LeastElement`, which rests on the well-founded order of the natural numbers).

What TLC alone checks: liveness under fairness (`DumpEnds`, `Termination`, `Responds`), which the provers do not
reach; and the three properties that are violated.

## Plan

Done, in this order: the cache with its contract and proofs; the candidate search; the matching and traversal
of external objects; tables and lookups; the symbolication API; path mapping and sources; views and statistics;
function starts; then the lists of starts and ends of all formats, debug sections with their readers, the
second search of the table dumper, and the source server stream.

Next, to model: `Symbolicate` over `CandidateSearch` as an abstract lookup (one library, found or not); functions,
procedures and public symbols of a PDB file, with the reader as an input.

Next, to prove: that the starts and ends which `FunctionLists` gives meet the assumption that `SymbolLookup` makes.
For each of the three that end, a measure which every step lowers: what a proof of liveness would rest on.
