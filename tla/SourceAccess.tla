----------------------------- MODULE SourceAccess -----------------------------
(***************************************************************************)
(* The API entry /source/v1 (lib/src/source/mod.rs) beside                 *)
(* /symbolicate/v5: a client learns the names of source files from the     *)
(* frames of addresses and asks for one of them.  Each request looks the   *)
(* library up anew, with a mapper of its own; the symbol file may come     *)
(* from another location each time.                                        *)
(***************************************************************************)
EXTENDS PathMapper, FiniteSets

CONSTANTS
  SymbolFiles,   \* what a symbol file holds: [frames, srcsrv]
  Locations,     \* where it may be found: {path}, or {} for a custom location
  Guesses        \* file names that a client asks for without having seen them

\* A symbol file has the frames of its addresses in order.
ASSUME SourceAssumption ==
  \A f \in SymbolFiles :
    /\ DOMAIN f.frames \subseteq Nat
    /\ \A address \in DOMAIN f.frames :
         LET raws == f.frames[address] IN Len(raws) \in Nat /\ DOMAIN raws = 1 .. Len(raws)

VARIABLES
  file,          \* the symbol file of the library
  location,      \* where the running request found it
  mapper,        \* the PathMapper of the running request
  todo,          \* the addresses that the running symbolication has still to map
  reported,      \* what was reported: [address, name, location]
  asked,         \* {} or the request for a source: [address, file]
  paths,         \* the file paths of the frames of that address
  opened,        \* the local paths that the running request opened
  pc

vars == <<file, location, mapper, todo, reported, asked, paths, opened, pc>>

Addresses == DOMAIN file.frames
Base == ToBasePath(location)

Init ==
  /\ file \in SymbolFiles /\ location \in Locations
  /\ mapper = NewMapper(Base, file.srcsrv)
  /\ todo = Addresses /\ reported = {}
  /\ asked = {} /\ paths = << >> /\ opened = {}
  /\ pc = "symbolicate"

\* The frames of the next address of a symbolication are mapped, in ascending order.
MapNextAddress ==
  /\ pc = "symbolicate" /\ todo # {}
  /\ LET address == CHOOSE a \in todo : \A b \in todo : a <= b
         done == MapFrames(mapper, file.frames[address])
     IN  /\ mapper' = done.mapper
         /\ todo' = todo \ {address}
         /\ reported' = reported \cup
              {[address |-> address, name |-> p.mapped, location |-> location] :
                 p \in UNION ToSet(done.paths)}
  /\ UNCHANGED <<file, location, asked, paths, opened, pc>>

FinishSymbolication ==
  /\ pc = "symbolicate" /\ todo = {}
  /\ pc' = "idle"
  /\ UNCHANGED <<file, location, mapper, todo, reported, asked, paths, opened>>

\* A client asks for a source; query_api starts with the lookup of the address.
AskSource(address, name) ==
  /\ pc = "idle"
  /\ asked' = {[address |-> address, file |-> name]}
  /\ pc' = "lookup"
  /\ UNCHANGED <<file, location, mapper, todo, reported, paths, opened>>

FailLookup ==
  /\ pc = "lookup"
  /\ pc' = "NoSymbols"
  /\ UNCHANGED <<file, location, mapper, todo, reported, asked, paths, opened>>

\* get_symbolication_result with FramesForSingleAddress.
LookUpFrames ==
  /\ pc = "lookup"
  /\ \E request \in asked, found \in Locations :
       LET done == MapFrames(NewMapper(ToBasePath(found), file.srcsrv),
                             file.frames[request.address])
       IN  /\ location' = found
           /\ mapper' = done.mapper /\ paths' = done.paths
           /\ pc' = IF done.paths = << >> THEN "NoDebugInfo" ELSE "check"
  /\ UNCHANGED <<file, todo, reported, asked, opened>>

\* Variation: the request is compared with the local paths.
MatchesLocal(path, request) == request.file \in path.local
Matches(path, request) == path.mapped = request.file

\* The first file path whose mapped path was requested, if there is one.
Requested(request) ==
  LET hits == {n \in DOMAIN paths : \E p \in paths[n] : Matches(p, request)}
  IN  IF hits = {} THEN {} ELSE paths[CHOOSE n \in hits : \A m \in hits : n <= m]

CheckRequest ==
  /\ pc = "check"
  /\ \E request \in asked :
       LET hit == Requested(request)
           local == UNION {p.local : p \in hit}
       IN  /\ pc' = IF hit = {} THEN "InvalidPath"
                    ELSE IF local = {} THEN "NonLocalSymbols" ELSE "open"
           /\ opened' = opened \cup local
  /\ UNCHANGED <<file, location, mapper, todo, reported, asked, paths>>

\* helper.open_file and read_entire_data.
ReadSource(result) ==
  /\ pc = "open"
  /\ pc' = result
  /\ UNCHANGED <<file, location, mapper, todo, reported, asked, paths, opened>>

Answers == {"NoSymbols", "NoDebugInfo", "InvalidPath", "NonLocalSymbols", "HelperError", "Source"}

Respond ==
  /\ pc \in Answers
  /\ pc' = "idle"
  /\ asked' = {} /\ paths' = << >> /\ opened' = {} /\ mapper' = NewMapper({}, {})
  /\ UNCHANGED <<file, location, todo, reported>>

Names == {r.name : r \in reported} \cup Guesses

\* What the program does by itself.
Progress ==
  \/ MapNextAddress \/ FinishSymbolication
  \/ FailLookup \/ LookUpFrames \/ CheckRequest
  \/ \E result \in {"HelperError", "Source"} : ReadSource(result)
  \/ Respond

Next == Progress \/ \E address \in Addresses, name \in Names : AskSource(address, name)

Spec == Init /\ [][Next]_vars

(***************************************************************************)
(* Properties.                                                             *)
(***************************************************************************)
\* The local paths that a symbol file at a location refers to at an address.
Referred(where, address) ==
  {Join(base, raw) : base \in ToBasePath(where), raw \in UNION ToSet(file.frames[address])}

\* "the API can only be used to access files which are referred to from the debug data of the
\* symbol information, and not arbitrary files" (API.md), and only from a local symbol file:
\* whatever name was asked for, whichever mapper and cache produced the path.
OnlyReferredFilesAreOpened ==
  \A request \in asked : opened \subseteq Referred(location, request.address)

\* A name that symbolication reported for an address is served by a later request when both
\* found the symbol file at the same local place: the caches that the first filled with the
\* paths of other addresses did not change what it said.
ReportedFilesAreServed ==
  \A request \in asked :
    (/\ location # {}
     /\ [address |-> request.address, name |-> request.file, location |-> location] \in reported)
      => pc \notin {"NoDebugInfo", "InvalidPath", "NonLocalSymbols"}

\* Both caches are transparent: whatever a mapper was asked before, it gives each path of the
\* symbol file the answer that a new mapper would give.
CachesAreTransparent ==
  \A raw \in UNION UNION {ToSet(file.frames[address]) : address \in Addresses} :
    MapPath(mapper, raw).path = MapPath(NewMapper(mapper.base, mapper.srcsrv), raw).path
===============================================================================
