--------------------------- MODULE CandidateSearch ---------------------------
(***************************************************************************)
(* get_symbolication_result (lib/src/lib.rs) and what it runs for each     *)
(* kind of file: the search, among the candidate paths that the helper     *)
(* names, for a file that has symbols for the wanted debug ID.             *)
(*                                                                         *)
(* The search is one async function.  It is suspended only while a file is *)
(* opened; each action below runs from one such point to the next, or to   *)
(* the next iteration of a loop.  What the files hold does not change      *)
(* during a query; which of them can be opened is part of it.              *)
(***************************************************************************)
EXTENDS Integers, Sequences, FiniteSets

CONSTANTS
  Locations,      \* where a file may be
  Ids,            \* debug IDs
  Wanted,         \* the debug ID of a query
  NoId,           \* what a file without a debug ID has
  Corrupt,        \* an architecture of a fat file that cannot be parsed
  Files,          \* the files that may be at a location (see FileType)
  CandidateLists, \* what the helper may answer for the query
  PdbLists,       \* what the helper may answer for a PE file
  HelperFails     \* ... or this, in either case

Kinds == {"missing", "sizeless", "unknown", "elf", "macho", "fat", "pe", "pdb", "dyld"}

SymbolsPart == -1
Parts == (Nat \ {0}) \cup {SymbolsPart}

(***************************************************************************)
(* kind    "missing" cannot be opened; "sizeless" is opened by the helper  *)
(*         but does not tell its size; "dyld" is a dyld shared cache, whose*)
(*         image has the ID `id` (NoId: the image is not in the cache)     *)
(* id      its debug ID                                                    *)
(* sound   the parsers accept it, as far as its debug ID                   *)
(* whole   ... and what is read of it when its debug ID is the right one   *)
(* debug   the query's addresses can be looked up in its own debug info:   *)
(*         not so when a debug section of an ELF or Mach-O file is cut off *)
(* arches  of a fat file: the ID of each architecture, NoId or Corrupt     *)
(* objects how the traversal of its external objects ends, of a Mach-O     *)
(*         file (the status in ObjectTraversal)                            *)
(* parts   of a dyld cache: the subcaches there are (SymbolsPart: .symbols)*)
(* needs   of a dyld cache: the subcaches that it was split into           *)
(***************************************************************************)
FileType ==
  [kind : Kinds, id : Ids \cup {NoId}, sound : BOOLEAN, whole : BOOLEAN, debug : BOOLEAN,
   arches : Seq(Ids \cup {NoId, Corrupt}), objects : {"ok", "err", "panic"},
   parts : SUBSET Parts, needs : SUBSET Parts]

CandidateType == [kind : {"file", "dyld"}, loc : Locations]

ASSUME SearchAssumption ==
  /\ Wanted \in Ids
  /\ NoId \notin Ids /\ Corrupt \notin Ids \cup {NoId}
  /\ Files \subseteq FileType
  /\ \A f \in Files : IsFiniteSet(f.parts) /\ (f.kind = "pdb" => f.id # NoId)
  /\ CandidateLists \subseteq Seq(CandidateType) \cup {HelperFails}
  /\ PdbLists \subseteq Seq(Locations) \cup {HelperFails}

VARIABLES
  disk,           \* disk[loc]: the file at loc
  candidates,     \* candidate_paths_for_binary
  pdbs,           \* candidate_paths_for_pdb
  wanted,         \* the debug ID of the query
  with_debug_info,\* the query is SymbolsForAddresses { with_debug_info: true }
  pc,             \* where the search is suspended
  i,              \* the candidate being tried
  j,              \* the PDB candidate, or the subcache, being tried
  handles,        \* the open files: <<loc, part>>, part 0 is the file itself
  leaked,         \* the files that the helper opened and nobody closes
  opened,         \* the calls of open_file, in order
  last_err,       \* the error of the last candidate that failed
  result          \* what the query returns

inputs == <<disk, candidates, pdbs, wanted, with_debug_info>>
vars == <<inputs, pc, i, j, handles, leaked, opened, last_err, result>>

NoError == [kind |-> "none", at |-> 0]
Err(kind) == [kind |-> kind, at |-> i]
NoResult == [status |-> "none"]

InitFor(id) ==
  /\ wanted = id
  /\ disk \in [Locations -> Files]
  /\ candidates \in CandidateLists
  /\ pdbs \in PdbLists
  /\ with_debug_info \in BOOLEAN
  /\ pc = "start" /\ i = 0 /\ j = 0
  /\ handles = {} /\ leaked = {} /\ opened = << >>
  /\ last_err = NoError /\ result = NoResult

Init == InitFor(Wanted)

Loc == candidates[i].loc
File == disk[Loc]

-----------------------------------------------------------------------------
(* The loop over the candidates *)

\* Whatever the candidate had open is dropped, which closes it.
NextWith(err) ==
  /\ last_err' = err /\ i' = i + 1
  /\ pc' = "next" /\ handles' = {}
  /\ UNCHANGED <<inputs, j, result>>

\* Variation: the files stay open.
SucceedWithOpenFiles(loc) ==
  /\ result' = [status |-> "ok", at |-> i, loc |-> loc]
  /\ pc' = "done"
  /\ UNCHANGED <<inputs, i, j, handles, last_err>>

Succeed(loc) ==
  /\ result' = [status |-> "ok", at |-> i, loc |-> loc]
  /\ pc' = "done" /\ handles' = {}
  /\ UNCHANGED <<inputs, i, j, last_err>>

\* The search stops in an unwrap.  A build that unwinds closes the files; the
\* WebAssembly one stops where it is.
Panic ==
  /\ result' = [status |-> "panic", at |-> i]
  /\ pc' = "done" /\ handles' \in {{}, handles}
  /\ UNCHANGED <<inputs, i, j, last_err>>

GetCandidatePaths ==
  /\ pc = "start"
  /\ IF candidates = HelperFails
     THEN /\ pc' = "done" /\ i' = i
          /\ result' = [status |-> "err", err |-> Err("helper")]
     ELSE pc' = "next" /\ i' = 1 /\ result' = result
  /\ UNCHANGED <<inputs, j, handles, leaked, opened, last_err>>

TryNextCandidate ==
  /\ pc = "next"
  /\ i <= Len(candidates)
  /\ pc' = IF candidates[i].kind = "file" THEN "open" ELSE "open_root"
  /\ UNCHANGED <<inputs, i, j, handles, leaked, opened, last_err, result>>

NoMoreCandidates ==
  /\ pc = "next"
  /\ i > Len(candidates)
  /\ pc' = "done"
  /\ result' = [status |-> "err",
                err |-> IF last_err = NoError THEN [kind |-> "no_candidate", at |-> 0]
                        ELSE last_err]
  /\ UNCHANGED <<inputs, i, j, handles, leaked, opened, last_err>>

-----------------------------------------------------------------------------
(* open_file *)

\* The wrapper that closes a file when it is dropped is made after its size
\* is known (wasm/src/lib.rs:258-265).
Openable(loc) == disk[loc].kind \notin {"missing", "sizeless"}
Unclosed(loc) == IF disk[loc].kind = "sizeless" THEN {loc} ELSE {}

OpenCandidate ==
  /\ pc = "open"
  /\ opened' = Append(opened, <<Loc, 0>>)
  /\ leaked' = leaked \cup Unclosed(Loc)
  /\ IF Openable(Loc)
     THEN /\ handles' = {<<Loc, 0>>} /\ pc' = "dispatch"
          /\ UNCHANGED <<inputs, i, j, last_err, result>>
     ELSE NextWith(Err("open"))

-----------------------------------------------------------------------------
(* try_get_symbolication_result_from_path: one action per kind of file *)

Dispatch(kind) ==
  /\ pc = "dispatch" /\ File.kind = kind
  /\ UNCHANGED <<leaked, opened>>

\* collect_dwarf_address_debug_data unwraps the read of each debug section,
\* when there is an address to look up in them: a query always has one.
ReadsDebugInfo == with_debug_info => File.debug

TryUnknown ==
  /\ Dispatch("unknown") \/ Dispatch("dyld")
  /\ NextWith(Err("format"))

TryElf ==
  /\ Dispatch("elf")
  /\ \/ ~File.sound /\ NextWith(Err("parse"))
     \/ File.sound /\ File.id = NoId /\ NextWith(Err("no_id"))
     \/ File.sound /\ File.id \notin {NoId, wanted} /\ NextWith(Err("unmatched"))
     \/ File.sound /\ File.id = wanted /\ ReadsDebugInfo /\ Succeed(Loc)
     \/ File.sound /\ File.id = wanted /\ ~ReadsDebugInfo /\ Panic

TryPdb ==
  /\ Dispatch("pdb")
  /\ \/ ~File.sound /\ NextWith(Err("format"))
     \/ File.sound /\ File.id # wanted /\ NextWith(Err("unmatched"))
     \/ File.sound /\ File.id = wanted /\ ~File.whole /\ NextWith(Err("pdb"))
     \/ File.sound /\ File.id = wanted /\ File.whole /\ Succeed(Loc)

\* The root object is dropped before the external objects are opened.
TraverseObjects ==
  /\ pc' = "traverse" /\ handles' = {}
  /\ UNCHANGED <<inputs, i, j, last_err, result>>

UseMachO(id) ==
  \/ ~File.sound /\ NextWith(Err("parse"))
  \/ File.sound /\ id = NoId /\ NextWith(Err("no_id"))
  \/ File.sound /\ id \notin {NoId, wanted} /\ NextWith(Err("unmatched"))
  \/ File.sound /\ id = wanted /\ ~File.whole /\ NextWith(Err("parse"))
  \/ File.sound /\ id = wanted /\ File.whole /\ ~with_debug_info /\ Succeed(Loc)
  \/ /\ File.sound /\ id = wanted /\ File.whole /\ with_debug_info
     /\ IF ReadsDebugInfo THEN TraverseObjects ELSE Panic

TryMachO == Dispatch("macho") /\ UseMachO(File.id)

\* get_arch_range stops at the first architecture that it cannot parse or
\* that has the wanted ID.
Decisive == {k \in DOMAIN File.arches : File.arches[k] \in {Corrupt, wanted}}
FirstDecisive == File.arches[CHOOSE k \in Decisive : \A l \in Decisive : k <= l]

TryFat ==
  /\ Dispatch("fat")
  /\ \/ Decisive = {} /\ NextWith(Err("no_arch"))
     \/ Decisive # {} /\ FirstDecisive = Corrupt /\ NextWith(Err("parse"))
     \/ Decisive # {} /\ FirstDecisive = wanted /\ UseMachO(wanted)

\* ObjectTraversal says what happens here.
FinishTraversal ==
  /\ pc = "traverse"
  /\ \/ File.objects = "ok" /\ Succeed(Loc)
     \/ File.objects = "err" /\ NextWith(Err("objects"))
     \/ File.objects = "panic" /\ Panic
  /\ UNCHANGED <<leaked, opened>>

-----------------------------------------------------------------------------
(* get_symbolication_result_via_binary: a PE file and its PDB files *)

\* Variation: the debug ID of the PE file is compared first.
TryPeWithWantedId ==
  /\ Dispatch("pe")
  /\ \/ /\ ~File.sound \/ (File.id # wanted) \/ (pdbs = HelperFails)
        /\ NextWith(Err("unmatched"))
     \/ /\ File.sound /\ File.id = wanted /\ pdbs # HelperFails
        /\ j' = 1 /\ pc' = "next_pdb"
        /\ UNCHANGED <<inputs, i, handles, last_err, result>>

TryPe ==
  /\ Dispatch("pe")
  /\ \/ ~File.sound /\ NextWith(Err("parse"))
     \/ File.sound /\ File.id = NoId /\ NextWith(Err("no_debug_info"))
     \/ File.sound /\ File.id # NoId /\ pdbs = HelperFails /\ NextWith(Err("helper"))
     \/ /\ File.sound /\ File.id # NoId /\ pdbs # HelperFails
        /\ j' = 1 /\ pc' = "next_pdb"
        /\ UNCHANGED <<inputs, i, handles, last_err, result>>

\* Variation: the PDB files stay open.
SkipOpenPdb ==
  /\ j' = j + 1 /\ pc' = "next_pdb"
  /\ UNCHANGED <<inputs, i, handles, last_err, result>>

SkipPdb ==
  /\ j' = j + 1 /\ pc' = "next_pdb"
  /\ handles' = {<<Loc, 0>>}
  /\ UNCHANGED <<inputs, i, last_err, result>>

OpenPdb ==
  /\ pc = "next_pdb" /\ j <= Len(pdbs)
  /\ IF pdbs[j] = Loc
     THEN SkipPdb /\ UNCHANGED <<leaked, opened>>
     ELSE /\ opened' = Append(opened, <<pdbs[j], 0>>)
          /\ leaked' = leaked \cup Unclosed(pdbs[j])
          /\ IF Openable(pdbs[j])
             THEN /\ handles' = handles \cup {<<pdbs[j], 0>>} /\ pc' = "pdb"
                  /\ UNCHANGED <<inputs, i, j, last_err, result>>
             ELSE SkipPdb

\* Variation: any PDB file will do.
PdbIsSound(loc) == disk[loc].kind = "pdb" /\ disk[loc].sound /\ disk[loc].whole
PdbMatches(loc) == PdbIsSound(loc) /\ disk[loc].id = wanted

\* The error of a PDB candidate is forgotten.
UsePdb ==
  /\ pc = "pdb"
  /\ IF PdbMatches(pdbs[j]) THEN Succeed(pdbs[j]) ELSE SkipPdb
  /\ UNCHANGED <<leaked, opened>>

\* Without a PDB file the exports of the PE file are used, if it is the right
\* one: its debug ID matters only here.
UseExports ==
  /\ pc = "next_pdb" /\ j > Len(pdbs)
  /\ IF File.id = wanted THEN Succeed(Loc) ELSE NextWith(Err("unmatched"))
  /\ UNCHANGED <<leaked, opened>>

-----------------------------------------------------------------------------
(* try_get_symbolication_result_from_dyld_shared_cache *)

OpenDyldRoot ==
  /\ pc = "open_root"
  /\ opened' = Append(opened, <<Loc, 0>>)
  /\ leaked' = leaked \cup Unclosed(Loc)
  /\ IF Openable(Loc)
     THEN /\ handles' = {<<Loc, 0>>} /\ pc' = "open_subcache" /\ j' = 1
          /\ UNCHANGED <<inputs, i, last_err, result>>
     ELSE NextWith(Err("open"))

\* Variation: the same subcache is opened again.
OpenSubcacheAgain ==
  /\ pc = "open_subcache"
  /\ opened' = opened
  /\ IF j \in File.parts
     THEN handles' = handles \cup {<<Loc, j>>} /\ j' = j /\ pc' = pc
     ELSE handles' = handles /\ j' = j /\ pc' = "open_symbols"
  /\ UNCHANGED <<inputs, i, leaked, last_err, result>>

\* Subcaches are opened in order until one is not there.
OpenSubcache ==
  /\ pc = "open_subcache"
  /\ opened' = Append(opened, <<Loc, j>>)
  /\ IF j \in File.parts
     THEN handles' = handles \cup {<<Loc, j>>} /\ j' = j + 1 /\ pc' = pc
     ELSE handles' = handles /\ j' = j /\ pc' = "open_symbols"
  /\ UNCHANGED <<inputs, i, leaked, last_err, result>>

OpenSymbolsSubcache ==
  /\ pc = "open_symbols" /\ pc' = "dyld"
  /\ opened' = Append(opened, <<Loc, SymbolsPart>>)
  /\ handles' = IF SymbolsPart \in File.parts THEN handles \cup {<<Loc, SymbolsPart>>}
                ELSE handles
  /\ UNCHANGED <<inputs, i, j, leaked, last_err, result>>

\* The parser takes the cache when it is given every subcache and no other.
Subcaches == {h[2] : h \in handles} \ {0}

UseDyldImage ==
  /\ pc = "dyld"
  /\ \/ /\ File.kind # "dyld" \/ Subcaches # File.needs
        /\ NextWith(Err("parse"))
     \/ /\ File.kind = "dyld" /\ Subcaches = File.needs
        /\ \/ File.id = NoId /\ NextWith(Err("no_image"))
           \/ File.id # NoId /\ ~File.sound /\ NextWith(Err("parse"))
           \/ File.id \notin {NoId, wanted} /\ File.sound /\ NextWith(Err("unmatched"))
           \/ File.id = wanted /\ File.sound /\ ~File.whole /\ NextWith(Err("parse"))
           \/ File.id = wanted /\ File.sound /\ File.whole /\ Succeed(Loc)
  /\ UNCHANGED <<leaked, opened>>

-----------------------------------------------------------------------------
Done == pc = "done" /\ UNCHANGED vars

Step ==
  \/ GetCandidatePaths \/ TryNextCandidate \/ NoMoreCandidates
  \/ OpenCandidate
  \/ TryUnknown \/ TryElf \/ TryPdb \/ TryMachO \/ TryFat \/ FinishTraversal
  \/ TryPe \/ OpenPdb \/ UsePdb \/ UseExports
  \/ OpenDyldRoot \/ OpenSubcache \/ OpenSymbolsSubcache \/ UseDyldImage

Next == Step \/ Done

Spec == Init /\ [][Next]_vars

-----------------------------------------------------------------------------
(* What becomes of a candidate, as a function of what the helper and the   *)
(* files are.  What the code gives up is given up here: the exports of a   *)
(* PE file when the helper fails to name PDB files, an architecture after  *)
(* a corrupt one, the subcaches behind a gap, and a Mach-O file one of     *)
(* whose external objects cannot be parsed.                                *)

IsRightMachO(f, id) == f.sound /\ f.whole /\ id = wanted
MachOIsUsable(f, id) == IsRightMachO(f, id) /\ (with_debug_info => f.debug /\ f.objects = "ok")
MachOStops(f, id) == IsRightMachO(f, id) /\ with_debug_info /\ (f.debug => f.objects = "panic")

HasRightArch(f) ==
  \E k \in DOMAIN f.arches :
    f.arches[k] = wanted /\ \A l \in 1 .. k - 1 : f.arches[l] # Corrupt

PeIsUsable(f, loc) ==
  /\ f.sound /\ f.id # NoId /\ pdbs # HelperFails
  /\ f.id = wanted \/ \E k \in DOMAIN pdbs : pdbs[k] # loc /\ PdbMatches(pdbs[k])

\* The subcaches that a scan finds: those numbered without a gap, .symbols.
Found(f) == {k \in f.parts : \A l \in 1 .. k : l \in f.parts}

DyldIsUsable(f) == f.kind = "dyld" /\ Found(f) = f.needs /\ f.sound /\ f.whole /\ f.id = wanted

Accepted(c) ==
  LET f == disk[c.loc]
  IN  \/ c.kind = "dyld" /\ DyldIsUsable(f)
      \/ /\ c.kind = "file"
         /\ \/ f.kind = "elf" /\ f.sound /\ f.id = wanted /\ (with_debug_info => f.debug)
            \/ PdbMatches(c.loc)
            \/ f.kind = "macho" /\ MachOIsUsable(f, f.id)
            \/ f.kind = "fat" /\ HasRightArch(f) /\ MachOIsUsable(f, wanted)
            \/ f.kind = "pe" /\ PeIsUsable(f, c.loc)

\* The right file, with debug info that the program cannot survive.
Stops(c) ==
  LET f == disk[c.loc]
  IN  /\ c.kind = "file"
      /\ \/ f.kind = "elf" /\ f.sound /\ f.id = wanted /\ with_debug_info /\ ~f.debug
         \/ f.kind = "macho" /\ MachOStops(f, f.id)
         \/ f.kind = "fat" /\ HasRightArch(f) /\ MachOStops(f, wanted)

Decides(c) == Accepted(c) \/ Stops(c)

-----------------------------------------------------------------------------
(* Properties *)

\* "It will try these paths one by one, until it succeeds and finds a file
\* whose contents match the breakpad ID" (lib/src/shared.rs:97).  The first
\* candidate that is acceptable gives the result, after any number of others
\* that failed with an error -- unless a right file before it has debug info
\* that is cut off: this one stops the program, and none after it is tried.
\* When there is neither, the error is the one of the last candidate.
FirstToDecideWins ==
  pc = "done" /\ candidates # HelperFails =>
    IF result.status = "err"
    THEN /\ \A k \in DOMAIN candidates : ~Decides(candidates[k])
         /\ result.err.at = Len(candidates)
    ELSE /\ IF result.status = "ok" THEN Accepted(candidates[result.at])
            ELSE Stops(candidates[result.at])
         /\ \A k \in 1 .. result.at - 1 : ~Decides(candidates[k])

\* Symbols never come from a file of another build: the file that the result
\* was made from has the debug ID of the query, also when it is a PDB file
\* that was found through a PE file with another ID, or one architecture of
\* a fat file.
SymbolsHaveTheWantedId ==
  result.status = "ok" =>
    LET f == disk[result.loc]
    IN  IF f.kind = "fat" THEN \E k \in DOMAIN f.arches : f.arches[k] = wanted
        ELSE f.id = wanted

\* Files are held open no longer than they are needed: at most a PE file and
\* one PDB file, or one dyld cache with its subcaches, and nothing while the
\* external objects of a Mach-O file are opened.
FewFilesAreOpen ==
  \/ handles = {}
  \/ pc = "dispatch" /\ handles = {<<Loc, 0>>}
  \/ pc = "next_pdb" /\ handles = {<<Loc, 0>>}
  \/ pc = "pdb" /\ handles = {<<Loc, 0>>, <<pdbs[j], 0>>} /\ pdbs[j] # Loc
  \/ pc \in {"open_subcache", "open_symbols", "dyld"} /\ \A h \in handles : h[1] = Loc
  \/ result.status = "panic" /\ handles = {<<Loc, 0>>}

\* Every file is closed when the query returns, except one whose size could
\* not be read: the helper opened it, and nothing closes it.  A query that
\* panics does not return.
OnlySizelessFilesLeak ==
  pc = "done" =>
    /\ handles = {} \/ result.status = "panic"
    /\ \A loc \in leaked : disk[loc].kind = "sizeless"
=============================================================================
