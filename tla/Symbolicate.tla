----------------------------- MODULE Symbolicate -----------------------------
(***************************************************************************)
(* The API entry /symbolicate/v5 (lib/src/symbolicate/v5): a request names *)
(* frames of several libraries in several jobs; the addresses are gathered *)
(* by library, each library is looked up once, and the results are spread  *)
(* over the frames again.  A lookup reports what it finds through the two  *)
(* callbacks of the trait SymbolicationResult and may fail at any time.    *)
(* Hash maps are walked in any order.                                      *)
(***************************************************************************)
EXTENDS Naturals, Sequences, FiniteSets, SequencesExt, SortedSeqs

CONSTANTS
  Requests,      \* the requests of a client: [jobs, with_debug_info]
  ValidIds,      \* the breakpad ids that to_debug_id can parse
  KnownAt(_)     \* what a symbol file may know of an address: [symbol, frames]

Slash == "/"
Libs == UNION {ToSet(j.memory_map) : j \in UNION {ToSet(r.jobs) : r \in Requests}}

FramesOf(j) == ToSet(FlattenSeq(j.stacks))
Addresses ==
  {frame.address : frame \in UNION {FramesOf(j) : j \in UNION {ToSet(r.jobs) : r \in Requests}}}

\* Names and ids have no slash in them, and the symbol of an address starts at or before it
\* (lib/src/shared.rs, add_address_symbol: "the closest (<= address) symbol address").
Listed(s) == s \in Seq(ToSet(s))
AtMostOne(S) == \A x, y \in S : x = y
ASSUME RequestAssumption ==
  /\ \A r \in Requests : Listed(r.jobs) /\ \A j \in ToSet(r.jobs) :
       /\ Listed(j.memory_map) /\ Listed(j.stacks) /\ \A stack \in ToSet(j.stacks) : Listed(stack)
       /\ \A frame \in FramesOf(j) : frame.module_index \in Nat /\ frame.address \in Nat
  /\ \A lib \in Libs :
       /\ lib = [debug_name |-> lib.debug_name, breakpad_id |-> lib.breakpad_id]
       /\ Listed(lib.debug_name) /\ ~Contains(lib.debug_name, Slash)
       /\ Listed(lib.breakpad_id) /\ ~Contains(lib.breakpad_id, Slash)
  /\ \A a \in Addresses : \A here \in KnownAt(a) :
       /\ AtMostOne(here.symbol) /\ AtMostOne(here.frames)
       /\ \A s \in here.symbol : s.address \in Nat /\ s.address <= a
       /\ \A frames \in here.frames :
            Listed(frames) /\ \A f \in ToSet(frames) : AtMostOne(f.function)

VARIABLES
  request,
  job, by_module,   \* the job being gathered and its addresses by module index
  requested,        \* requested_addresses: the addresses of each library
  lookup,           \* {} or the one lookup that runs
  known,            \* what the symbol file of each library knows
  symbolicated,     \* symbolicated_addresses: {} for an error, {results} else
  outcome, response

gathered == <<request, job, by_module, requested>>
vars == <<request, job, by_module, requested, lookup, known, symbolicated, outcome, response>>

Empty == [x \in {} |-> {}]
With(f, x, v) == [y \in DOMAIN f \cup {x} |-> IF y = x THEN v ELSE f[y]]
Without(f, x) == [y \in DOMAIN f \ {x} |-> f[y]]

Init ==
  /\ request \in Requests
  /\ job = 0 /\ by_module = Empty
  /\ requested = Empty /\ lookup = {} /\ known = Empty /\ symbolicated = Empty
  /\ outcome = "Gathering" /\ response = << >>

(***************************************************************************)
(* Gathering the addresses.                                                *)
(***************************************************************************)
Memory == request.jobs[job].memory_map

AddressesByModule(frames) ==
  [i \in {frame.module_index : frame \in ToSet(frames)} |->
     LET own == {n \in DOMAIN frames : frames[n].module_index = i}
     IN  Picked([n \in DOMAIN frames |-> frames[n].address], own)]

StartJob ==
  /\ outcome = "Gathering" /\ by_module = Empty /\ job < Len(request.jobs)
  /\ job' = job + 1
  /\ by_module' = AddressesByModule(FlattenSeq(request.jobs[job + 1].stacks))
  /\ UNCHANGED <<request, requested, lookup, known, symbolicated, outcome, response>>

\* Variation: the addresses replace those of an earlier job.
Replace(lib, addresses) == With(requested, lib, addresses)
Extend(lib, addresses) ==
  With(requested, lib, (IF lib \in DOMAIN requested THEN requested[lib] ELSE << >>) \o addresses)

GatherModule(i) ==
  /\ outcome = "Gathering" /\ i \in DOMAIN by_module /\ i < Len(Memory)
  /\ requested' = Extend(Memory[i + 1], by_module[i])
  /\ by_module' = Without(by_module, i)
  /\ UNCHANGED <<request, job, lookup, known, symbolicated, outcome, response>>

\* Variation: the index of the module after the last one is let through.
IgnoreModule(i) ==
  /\ outcome = "Gathering" /\ i \in DOMAIN by_module /\ i >= Len(Memory)
  /\ by_module' = Without(by_module, i)
  /\ UNCHANGED <<request, job, requested, lookup, known, symbolicated, outcome, response>>

RefuseRequest(i) ==
  /\ outcome = "Gathering" /\ i \in DOMAIN by_module /\ i >= Len(Memory)
  /\ outcome' = "Refused"
  /\ UNCHANGED <<gathered, lookup, known, symbolicated, response>>

FinishGathering ==
  /\ outcome = "Gathering" /\ by_module = Empty /\ job = Len(request.jobs)
  /\ outcome' = "LookingUp"
  /\ UNCHANGED <<gathered, lookup, known, symbolicated, response>>

(***************************************************************************)
(* Looking the libraries up, one after the other.                          *)
(***************************************************************************)
Waiting(lib) ==
  /\ outcome = "LookingUp" /\ lookup = {}
  /\ lib \in DOMAIN requested \ DOMAIN symbolicated

\* Variation: equal addresses are dropped only where they already meet.
DedupUnsorted(addresses) == Dedup(addresses)
SortAndDedup(addresses) == Dedup(Sorted(addresses))

RefuseId(lib) ==
  /\ Waiting(lib) /\ lib.breakpad_id \notin ValidIds
  /\ symbolicated' = With(symbolicated, lib, {})
  /\ UNCHANGED <<gathered, lookup, known, outcome, response>>

\* collect_dwarf_address_debug_data and its sibling for PDBs report no empty list of frames.
ReportsDebugInfo(here) ==
  request.with_debug_info /\ \E frames \in here.frames : frames # << >>

StartLookup(lib) ==
  /\ Waiting(lib) /\ lib.breakpad_id \in ValidIds
  /\ LET addresses == SortAndDedup(requested[lib])
         asked == ToSet(addresses)
     IN  \E file \in [asked -> UNION {KnownAt(a) : a \in asked}] :
           /\ \A a \in asked : file[a] \in KnownAt(a)
           /\ known' = With(known, lib, file)
           /\ lookup' = {[lib |-> lib, addresses |-> addresses,
                          results |-> [a \in asked |-> {}],
                          symbols |-> {a \in asked : file[a].symbol # {}},
                          debug |-> {a \in asked : ReportsDebugInfo(file[a])}]}
  /\ UNCHANGED <<gathered, symbolicated, outcome, response>>

\* LookedUpAddresses::add_address_symbol
AddAddressSymbol(address) ==
  \E l \in lookup :
    /\ address \in l.symbols
    /\ \E symbol \in known[l.lib][address].symbol :
         lookup' = {[l EXCEPT
           !.symbols = @ \ {address},
           !.results[address] = {[symbol_address |-> symbol.address,
                                  symbol_name |-> symbol.name, inline_frames |-> {}]}]}
    /\ UNCHANGED <<gathered, known, symbolicated, outcome, response>>

HexName(address) == <<"0x", address>>
OuterName(frames, default) ==
  LET outer == Last(frames).function
  IN  IF outer = {} THEN default ELSE CHOOSE name \in outer : TRUE

\* Variation: the debug info also moves the start of the symbol to the address.
ReplaceEntry(entry, address, frames) ==
  [symbol_address |-> address, symbol_name |-> OuterName(frames, HexName(address)),
   inline_frames |-> {frames}]
WithDebugInfo(entry, address, frames) ==
  IF entry = {}
  THEN [symbol_address |-> address, symbol_name |-> OuterName(frames, HexName(address)),
        inline_frames |-> {frames}]
  ELSE LET e == CHOOSE e \in entry : TRUE
       IN  [e EXCEPT !.symbol_name = OuterName(frames, @), !.inline_frames = {frames}]

\* LookedUpAddresses::add_address_debug_info, after the symbol of the address.
AddAddressDebugInfo(address) ==
  \E l \in lookup :
    /\ address \in l.debug \ l.symbols
    /\ \E frames \in known[l.lib][address].frames :
         lookup' = {[l EXCEPT
           !.debug = @ \ {address},
           !.results[address] = {WithDebugInfo(@, address, frames)}]}
    /\ UNCHANGED <<gathered, known, symbolicated, outcome, response>>

FinishLookup ==
  \E l \in lookup :
    /\ l.symbols = {} /\ l.debug = {}
    /\ symbolicated' = With(symbolicated, l.lib, {l.results})
    /\ lookup' = {}
    /\ UNCHANGED <<gathered, known, outcome, response>>

\* Variation: the lookup that failed is forgotten and started again.
RetryLookup ==
  /\ lookup # {}
  /\ lookup' = {}
  /\ UNCHANGED <<gathered, known, symbolicated, outcome, response>>
FailLookup ==
  \E l \in lookup :
    /\ symbolicated' = With(symbolicated, l.lib, {})
    /\ lookup' = {}
    /\ UNCHANGED <<gathered, known, outcome, response>>

(***************************************************************************)
(* The response.                                                           *)
(***************************************************************************)
ModuleKey(lib) == lib.debug_name \o <<Slash>> \o lib.breakpad_id

\* symbols_by_module_index, for one job.
SymbolsByModule(memory) ==
  [i \in {n - 1 : n \in {n \in DOMAIN memory :
            memory[n] \in DOMAIN symbolicated /\ symbolicated[memory[n]] # {}}} |->
     CHOOSE results \in symbolicated[memory[i + 1]] : TRUE]

\* The libraries of a memory map that some job asked about, by their key.
LookedUp(memory) == {n \in DOMAIN memory : memory[n] \in DOMAIN symbolicated}
\* Variation: only the libraries without an error are listed.
FoundOnly(memory) ==
  [key \in {ModuleKey(memory[n]) : n \in {n \in LookedUp(memory) : symbolicated[memory[n]] # {}}}
    |-> TRUE]
FoundModules(memory) ==
  [key \in {ModuleKey(memory[n]) : n \in LookedUp(memory)} |->
     LET named == {n \in LookedUp(memory) : ModuleKey(memory[n]) = key}
         last == CHOOSE n \in named : \A m \in named : m <= n
     IN  symbolicated[memory[last]] # {}]
ModuleErrors(memory) ==
  {ModuleKey(memory[n]) : n \in {n \in LookedUp(memory) : symbolicated[memory[n]] = {}}}

ResponseSymbol(frame, result) ==
  [function |-> result.symbol_name,
   function_offset |-> frame.address - result.symbol_address,
   debug_info |-> {[outer |-> Last(frames), inlines |-> Front(frames)] :
                     frames \in result.inline_frames}]

ResponseFrame(memory, frame, frame_index) ==
  [frame |-> frame_index, module_offset |-> frame.address,
   module |-> memory[frame.module_index + 1].debug_name,
   symbol |-> LET symbols == SymbolsByModule(memory)
              IN  IF frame.module_index \notin DOMAIN symbols THEN {}
                  ELSE {ResponseSymbol(frame, result) :
                          result \in symbols[frame.module_index][frame.address]}]

ResultForJob(j) ==
  [stacks |-> [s \in DOMAIN j.stacks |->
                 [n \in DOMAIN j.stacks[s] |->
                    ResponseFrame(j.memory_map, j.stacks[s][n], n - 1)]],
   found_modules |-> FoundModules(j.memory_map),
   module_errors |-> ModuleErrors(j.memory_map)]

\* memory_map[..], symbol_map.get(..).unwrap(), split_last().expect(..) and the subtraction.
FramePanics(memory, frame) ==
  LET symbols == SymbolsByModule(memory)
      i == frame.module_index
  IN  \/ i >= Len(memory)
      \/ /\ i \in DOMAIN symbols
         /\ \/ frame.address \notin DOMAIN symbols[i]
            \/ \E result \in symbols[i][frame.address] :
                 \/ result.inline_frames = {<< >>}
                 \/ result.symbol_address > frame.address

CreateResponse ==
  /\ outcome = "LookingUp" /\ lookup = {} /\ DOMAIN requested \subseteq DOMAIN symbolicated
  /\ IF \E j \in ToSet(request.jobs) : \E frame \in FramesOf(j) : FramePanics(j.memory_map, frame)
     THEN outcome' = "Panicked" /\ UNCHANGED response
     ELSE /\ outcome' = "Answered"
          /\ response' = [n \in DOMAIN request.jobs |-> ResultForJob(request.jobs[n])]
  /\ UNCHANGED <<gathered, lookup, known, symbolicated>>

Terminated == outcome \in {"Answered", "Refused", "Panicked"} /\ UNCHANGED vars

Next ==
  \/ StartJob \/ FinishGathering
  \/ \E i \in DOMAIN by_module : GatherModule(i) \/ RefuseRequest(i)
  \/ \E lib \in DOMAIN requested : RefuseId(lib) \/ StartLookup(lib)
  \/ \E l \in lookup : \E address \in DOMAIN l.results :
       AddAddressSymbol(address) \/ AddAddressDebugInfo(address)
  \/ FinishLookup \/ FailLookup
  \/ CreateResponse \/ Terminated

Spec == Init /\ [][Next]_vars /\ WF_vars(Next)

(***************************************************************************)
(* Properties.                                                             *)
(***************************************************************************)
\* No unwrap, expect, index or subtraction of the response goes wrong: the addresses that were
\* gathered across jobs and modules cover every frame of every job ("If we have a symbol table
\* for this library, then we know that this address is present in it").
NeverPanics == outcome # "Panicked"

\* Each library is looked up once, with its addresses strictly ascending, as
\* match_funs_to_addresses needs them.
LookupsAreAscending ==
  \A l \in lookup :
    /\ l.lib \in DOMAIN requested \ DOMAIN symbolicated
    /\ \A m, n \in DOMAIN l.addresses : m < n => l.addresses[m] < l.addresses[n]

\* What a symbol file says of an address: the name of the outermost function in its debug
\* info, else its symbol, else the address in hexadecimal; the start of its symbol, else the
\* address; and the frames.
SaysOf(here, address) ==
  LET frames == IF request.with_debug_info THEN here.frames \ {<< >>} ELSE {}
      names == UNION {Last(f).function : f \in frames}
  IN  IF here.symbol = {} /\ frames = {} THEN {}
      ELSE {[function |-> CHOOSE name \in
                            IF names # {} THEN names
                            ELSE IF here.symbol = {} THEN {<<"0x", address>>}
                            ELSE {s.name : s \in here.symbol} : TRUE,
             function_offset |-> CHOOSE offset \in
                            IF here.symbol = {} THEN {0}
                            ELSE {address - s.address : s \in here.symbol} : TRUE,
             debug_info |-> {[outer |-> Last(f), inlines |-> Front(f)] : f \in frames}]}

\* Every frame is answered in its place, with what the symbol file of its library says of its
\* address, whatever other jobs, modules and stacks share the library, and without a symbol
\* exactly when that file has none or its lookup failed.
FramesAreAnswered ==
  outcome = "Answered" =>
    \A n \in DOMAIN request.jobs :
      LET j == request.jobs[n] IN
      /\ DOMAIN response[n].stacks = DOMAIN j.stacks
      /\ \A s \in DOMAIN j.stacks :
           /\ DOMAIN response[n].stacks[s] = DOMAIN j.stacks[s]
           /\ \A f \in DOMAIN j.stacks[s] :
                LET frame == j.stacks[s][f]
                    lib == j.memory_map[frame.module_index + 1]
                IN  response[n].stacks[s][f] =
                      [frame |-> f - 1, module_offset |-> frame.address,
                       module |-> lib.debug_name,
                       symbol |-> IF symbolicated[lib] = {} THEN {}
                                  ELSE SaysOf(known[lib][frame.address], frame.address)]

\* A job lists the modules of its frames as found or not, and gives an error for exactly those
\* that were not found.
ErrorsExplainMissingModules ==
  outcome = "Answered" =>
    \A n \in DOMAIN request.jobs :
      LET j == request.jobs[n] IN
      /\ \A frame \in FramesOf(j) :
           ModuleKey(j.memory_map[frame.module_index + 1]) \in DOMAIN response[n].found_modules
      /\ response[n].module_errors =
           {key \in DOMAIN response[n].found_modules : ~response[n].found_modules[key]}

\* A request is refused as a whole, before any lookup, exactly when one of its frames is in a
\* module beyond its memory map.
RefusedAsAWhole ==
  LET wrong == \E j \in ToSet(request.jobs) : \E frame \in FramesOf(j) :
                 frame.module_index >= Len(j.memory_map)
  IN  /\ outcome = "Refused" => wrong /\ known = Empty
      /\ outcome \in {"LookingUp", "Answered"} => ~wrong

\* Every request is answered or refused, however many of its lookups fail.
Responds == <>(outcome \in {"Answered", "Refused"})
=============================================================================
