--------------------------- MODULE DumpTableProofs ---------------------------
(***************************************************************************)
(* Theorems about the search among candidates, and about the tool that     *)
(* searches again, for all files and all answers of the helper.            *)
(***************************************************************************)
EXTENDS DumpTable, SortedSeqsProofs

InFile == {"open", "dispatch", "traverse", "next_pdb", "pdb"}
InDyld == {"open_root", "open_subcache", "open_symbols", "dyld"}
Points == {"start", "next", "done"} \cup InFile \cup InDyld

Inputs ==
  /\ disk \in [Locations -> Files]
  /\ candidates \in CandidateLists /\ pdbs \in PdbLists
  /\ wanted \in Ids /\ with_debug_info \in BOOLEAN

\* The error of c names the ID of its file, which is not the wanted one: the file was read as
\* far as its ID, and nothing was wrong with it.
NamesItsId(c) ==
  LET f == disk[c.loc]
  IN  /\ f.sound /\ f.id \in Ids
      /\ IF c.kind = "dyld" THEN f.kind = "dyld" /\ Found(f) = f.needs
         ELSE f.kind \in {"elf", "macho", "pdb", "pe"} /\ (f.kind = "pe" => pdbs # HelperFails)
Unmatched(c) == NamesItsId(c) /\ disk[c.loc].id # wanted

HasWantedId(loc) ==
  LET f == disk[loc]
  IN  IF f.kind = "fat" THEN \E k \in DOMAIN f.arches : f.arches[k] = wanted
      ELSE f.id = wanted

\* While candidate i is tried: those before it failed with an error, and the last error is of the last.
EarlierFail ==
  /\ candidates # HelperFails
  /\ i \in 1 .. Len(candidates) + 1
  /\ \A k \in 1 .. i - 1 : ~Decides(candidates[k])
  /\ last_err.at = i - 1
  /\ last_err.kind = "unmatched" => i > 1 /\ Unmatched(candidates[i - 1])

\* No PDB file before j will do.
ViaBinary ==
  /\ pdbs # HelperFails /\ File.kind = "pe" /\ File.sound /\ File.id # NoId
  /\ j \in 1 .. Len(pdbs) + 1
  /\ \A k \in 1 .. j - 1 : pdbs[k] = Loc \/ ~PdbMatches(pdbs[k])

\* Only the external objects are left to be traversed.
Traversable ==
  /\ with_debug_info /\ HasWantedId(Loc)
  /\ Accepted(candidates[i]) <=> File.objects = "ok"
  /\ Stops(candidates[i]) <=> File.objects = "panic"

\* The subcaches before j are there, and open.
Scanned ==
  /\ j \in Nat \ {0}
  /\ handles = {<<Loc, k>> : k \in 0 .. j - 1}
  /\ \A k \in 1 .. j - 1 : k \in File.parts

PointInv ==
  /\ pc \in InFile => i \in 1 .. Len(candidates) /\ candidates[i].kind = "file"
  /\ pc \in InDyld => i \in 1 .. Len(candidates) /\ candidates[i].kind = "dyld"
  /\ pc \in {"start", "next", "open", "open_root", "traverse"} => handles = {}
  /\ pc = "done" => handles = {} \/ (result.status = "panic" /\ handles = {<<Loc, 0>>})
  /\ pc \in {"dispatch", "next_pdb"} => handles = {<<Loc, 0>>}
  /\ pc \in {"next_pdb", "pdb"} => ViaBinary
  /\ pc = "pdb" => /\ j \in 1 .. Len(pdbs) /\ pdbs[j] # Loc
                   /\ handles = {<<Loc, 0>>, <<pdbs[j], 0>>}
  /\ pc = "traverse" => Traversable
  /\ pc \in {"open_subcache", "open_symbols"} => Scanned
  /\ pc = "open_symbols" => j \notin File.parts
  /\ pc = "dyld" => handles = {<<Loc, k>> : k \in Found(File) \cup {0}}

LeakInv == \A loc \in leaked : disk[loc].kind = "sizeless"

ResultInv ==
  IF pc = "done"
  THEN /\ result.status \in {"ok", "err", "panic"}
       /\ FirstToDecideWins /\ SymbolsHaveTheWantedId
       /\ result.status = "err" /\ result.err.kind = "unmatched" =>
            /\ candidates # HelperFails /\ Len(candidates) > 0
            /\ Unmatched(candidates[Len(candidates)])
  ELSE result = NoResult

SearchInv ==
  /\ Inputs /\ pc \in Points
  /\ pc = "start" => last_err = NoError
  /\ pc \notin {"start", "done"} => EarlierFail
  /\ PointInv /\ LeakInv /\ ResultInv

-----------------------------------------------------------------------------
(* What is read of the inputs *)

\* A list that the helper named is indexed from 1, and names locations with files.
LEMMA ListedFiles ==
  ASSUME Inputs
  PROVE  /\ candidates # HelperFails =>
              /\ Len(candidates) \in Nat
              /\ \A k \in 1 .. Len(candidates) :
                   /\ candidates[k].kind \in {"file", "dyld"}
                   /\ candidates[k].loc \in Locations
         /\ pdbs # HelperFails =>
              /\ Len(pdbs) \in Nat /\ DOMAIN pdbs = 1 .. Len(pdbs)
              /\ \A k \in 1 .. Len(pdbs) : pdbs[k] \in Locations
  <1>1. candidates # HelperFails => candidates \in Seq(CandidateType)
    BY SearchAssumption DEF Inputs
  <1>2. pdbs # HelperFails => pdbs \in Seq(Locations)
    BY SearchAssumption DEF Inputs
  <1>3. candidates # HelperFails =>
          /\ Len(candidates) \in Nat
          /\ \A k \in 1 .. Len(candidates) : candidates[k] \in CandidateType
    BY <1>1
  <1>4. candidates # HelperFails =>
          \A k \in 1 .. Len(candidates) :
            /\ candidates[k].kind \in {"file", "dyld"}
            /\ candidates[k].loc \in Locations
    BY <1>3 DEF CandidateType
  <1> QED
    BY <1>2, <1>3, <1>4

\* What a file is.
LEMMA Typed ==
  ASSUME Inputs, NEW loc \in Locations
  PROVE  /\ disk[loc].kind \in Kinds /\ disk[loc].id \in Ids \cup {NoId}
         /\ disk[loc].sound \in BOOLEAN /\ disk[loc].whole \in BOOLEAN
         /\ disk[loc].debug \in BOOLEAN /\ disk[loc].objects \in {"ok", "err", "panic"}
         /\ disk[loc].arches \in Seq(Ids \cup {NoId, Corrupt})
         /\ disk[loc].parts \subseteq Parts
         /\ disk[loc].kind = "pdb" => disk[loc].id # NoId
  <1>1. disk[loc] \in Files
    BY DEF Inputs
  <1>2. disk[loc] \in FileType
    BY <1>1, SearchAssumption
  <1>3. disk[loc].kind = "pdb" => disk[loc].id # NoId
    BY <1>1, SearchAssumption
  <1> QED
    BY <1>2, <1>3 DEF FileType

\* What becomes of a candidate, and what its error names, depends on the inputs alone.
LEMMA InputsDecide ==
  ASSUME UNCHANGED inputs, NEW k
  PROVE  /\ Accepted(candidates[k])' <=> Accepted(candidates[k])
         /\ Stops(candidates[k])' <=> Stops(candidates[k])
         /\ Decides(candidates[k])' <=> Decides(candidates[k])
         /\ Unmatched(candidates[k])' <=> Unmatched(candidates[k])
  <1>1. /\ disk' = disk /\ candidates' = candidates /\ pdbs' = pdbs /\ wanted' = wanted
        /\ with_debug_info' = with_debug_info
    BY DEF inputs
  <1>2. Accepted(candidates[k])' <=> Accepted(candidates[k])
    BY <1>1 DEF Accepted, DyldIsUsable, Found, PdbMatches, PdbIsSound, MachOIsUsable, IsRightMachO, HasRightArch,
       PeIsUsable
  <1>3. Unmatched(candidates[k])' <=> Unmatched(candidates[k])
    BY <1>1 DEF Unmatched, NamesItsId, Found
  <1>4. Stops(candidates[k])' <=> Stops(candidates[k])
    BY <1>1 DEF Stops, MachOStops, IsRightMachO, HasRightArch
  <1> QED
    BY <1>2, <1>3, <1>4 DEF Decides

\* A step that leaves the position and the last error alone leaves the failures alone.
LEMMA EarlierStay ==
  ASSUME EarlierFail, UNCHANGED <<inputs, i, last_err>>
  PROVE  EarlierFail'
  <1>1. i' = i /\ last_err' = last_err /\ candidates' = candidates /\ UNCHANGED inputs
    BY DEF inputs
  <1>2. \A k \in 1 .. i - 1 : (~Decides(candidates[k]))'
    BY <1>1, InputsDecide DEF EarlierFail
  <1>3. (\A k \in 1 .. i - 1 : ~Decides(candidates[k]))'
    BY <1>1, <1>2
  <1>4. (last_err.kind = "unmatched" => i > 1 /\ Unmatched(candidates[i - 1]))'
    BY <1>1 DEF EarlierFail, inputs, Unmatched, NamesItsId, Found
  <1> QED
    BY <1>1, <1>3, <1>4 DEF EarlierFail

\* Another candidate failed.
LEMMA OneMoreFails ==
  ASSUME Inputs, EarlierFail, UNCHANGED inputs, i \in 1 .. Len(candidates),
         ~Decides(candidates[i]),
         i' = i + 1, last_err'.at = i, last_err'.kind = "unmatched" => Unmatched(candidates[i])
  PROVE  EarlierFail'
  <1>1. Len(candidates) \in Nat /\ candidates' = candidates /\ i \in Nat
    BY ListedFiles DEF EarlierFail, inputs
  <1>2. \A k \in 1 .. i : ~Decides(candidates[k])
    BY <1>1 DEF EarlierFail
  <1>3. \A k \in 1 .. i : (~Decides(candidates[k]))'
    BY <1>2, InputsDecide
  <1>4. i' - 1 = i /\ i' \in 1 .. Len(candidates') + 1 /\ i' > 1
    BY <1>1
  <1>5. (last_err.kind = "unmatched" => i > 1 /\ Unmatched(candidates[i - 1]))'
    BY <1>1, <1>4 DEF inputs, Unmatched, NamesItsId, Found
  <1>6. (\A k \in 1 .. i - 1 : ~Decides(candidates[k]))'
    BY <1>3, <1>4
  <1> QED
    BY <1>1, <1>4, <1>5, <1>6 DEF EarlierFail

-----------------------------------------------------------------------------
(* How a step ends *)

Ongoing == pc \in Points \ {"start", "done"}

\* What leaks is what the helper opened and could not tell the size of.
LEMMA OnlySizelessLeak ==
  ASSUME LeakInv, UNCHANGED inputs,
         leaked' = leaked \/ \E loc : leaked' = leaked \cup Unclosed(loc)
  PROVE  LeakInv'
  BY DEF LeakInv, inputs, Unclosed

\* The step stays with the candidate.
LEMMA GoesOn ==
  ASSUME SearchInv, Ongoing, Ongoing', UNCHANGED <<inputs, i, last_err, result>>,
         LeakInv', PointInv'
  PROVE  SearchInv'
  <1>1. EarlierFail'
    BY EarlierStay DEF SearchInv, Ongoing
  <1>2. ResultInv'
    BY DEF SearchInv, ResultInv, Ongoing, NoResult
  <1>3. Inputs'
    BY DEF SearchInv, Inputs, inputs
  <1> QED
    BY <1>1, <1>2, <1>3 DEF SearchInv, Ongoing

\* The candidate fails.
LEMMA Fails ==
  ASSUME SearchInv, Ongoing, i \in 1 .. Len(candidates), ~Decides(candidates[i]),
         NEW err, NextWith(err), err.at = i, err.kind = "unmatched" => Unmatched(candidates[i]),
         LeakInv'
  PROVE  SearchInv'
  <1>1. EarlierFail'
    BY OneMoreFails DEF SearchInv, Ongoing, NextWith
  <1>2. ResultInv'
    BY DEF SearchInv, ResultInv, Ongoing, NoResult, NextWith
  <1>3. Inputs'
    BY DEF SearchInv, Inputs, inputs, NextWith
  <1>4. PointInv'
    BY DEF NextWith, PointInv, InFile, InDyld
  <1> QED
    BY <1>1, <1>2, <1>3, <1>4 DEF SearchInv, NextWith, Points

\* What the result names is decided as it was.
LEMMA DecisionStays ==
  ASSUME UNCHANGED inputs, result'.at = i
  PROVE  /\ Accepted(candidates[i]) => Accepted(candidates[result.at])'
         /\ Stops(candidates[i]) => Stops(candidates[result.at])'
  <1>1. /\ disk' = disk /\ candidates' = candidates /\ pdbs' = pdbs /\ wanted' = wanted
        /\ with_debug_info' = with_debug_info
    BY DEF inputs
  <1>2. Accepted(candidates[i]) => Accepted(candidates[result.at])'
    BY <1>1 DEF Accepted, DyldIsUsable, Found, PdbMatches, PdbIsSound, MachOIsUsable,
       IsRightMachO, HasRightArch, PeIsUsable
  <1>3. Stops(candidates[i]) => Stops(candidates[result.at])'
    BY <1>1 DEF Stops, MachOStops, IsRightMachO, HasRightArch
  <1> QED
    BY <1>2, <1>3

\* ... and those before it decide nothing.
LEMMA EarlierDoNot ==
  ASSUME SearchInv, Ongoing, UNCHANGED inputs, result'.at = i
  PROVE  (\A k \in 1 .. result.at - 1 : ~Decides(candidates[k]))'
  <1>1. \A k \in 1 .. i - 1 : (~Decides(candidates[k]))'
    BY InputsDecide DEF SearchInv, EarlierFail, Ongoing
  <1> QED
    BY <1>1

\* The candidate stops the program.
LEMMA Panics ==
  ASSUME SearchInv, Ongoing, Stops(candidates[i]), Panic, LeakInv',
         handles \subseteq {<<Loc, 0>>}
  PROVE  SearchInv'
  <1>1. /\ pc' = "done" /\ i' = i /\ UNCHANGED inputs
        /\ result' = [status |-> "panic", at |-> i]
        /\ handles' \in {{}, handles}
    BY DEF Panic
  <1>2. result'.status = "panic" /\ result'.at = i
    BY <1>1
  <1>3. FirstToDecideWins'
    <2>1. Stops(candidates[result.at])'
      BY <1>1, <1>2, DecisionStays
    <2>2. (\A k \in 1 .. result.at - 1 : ~Decides(candidates[k]))'
      BY <1>1, <1>2, EarlierDoNot
    <2> QED
      BY <1>2, <2>1, <2>2 DEF FirstToDecideWins
  <1>4. ResultInv'
    BY <1>1, <1>2, <1>3 DEF ResultInv, SymbolsHaveTheWantedId
  <1>5. Inputs'
    BY <1>1 DEF SearchInv, Inputs, inputs
  <1>6. handles' \in {{}, {<<Loc', 0>>}}
    BY <1>1 DEF inputs, Loc
  <1>7. PointInv'
    BY <1>1, <1>2, <1>6 DEF PointInv, InFile, InDyld
  <1> QED
    BY <1>1, <1>4, <1>5, <1>7 DEF SearchInv, Points

\* The candidate has the symbols.
LEMMA Succeeds ==
  ASSUME SearchInv, Ongoing, i \in 1 .. Len(candidates), Accepted(candidates[i]),
         NEW loc, HasWantedId(loc), Succeed(loc), LeakInv'
  PROVE  SearchInv'
  <1>1. /\ pc' = "done" /\ handles' = {} /\ i' = i /\ UNCHANGED inputs
        /\ result' = [status |-> "ok", at |-> i, loc |-> loc]
    BY DEF Succeed
  <1>2. SymbolsHaveTheWantedId'
    BY <1>1 DEF SymbolsHaveTheWantedId, HasWantedId, inputs
  <1>3. FirstToDecideWins'
    <2>1. result'.status = "ok" /\ result'.at = i
      BY <1>1
    <2>2. Accepted(candidates[result.at])'
      BY <1>1, <2>1, DecisionStays
    <2>3. (\A k \in 1 .. result.at - 1 : ~Decides(candidates[k]))'
      BY <1>1, <2>1, EarlierDoNot
    <2> QED
      BY <2>1, <2>2, <2>3 DEF FirstToDecideWins
  <1>4. ResultInv'
    BY <1>1, <1>2, <1>3 DEF ResultInv
  <1>5. Inputs'
    BY <1>1 DEF SearchInv, Inputs, inputs
  <1>6. PointInv'
    BY <1>1 DEF PointInv, InFile, InDyld
  <1> QED
    BY <1>1, <1>4, <1>5, <1>6 DEF SearchInv, Points

-----------------------------------------------------------------------------
(* The loop *)

\* The first step: the helper fails, or the candidates are tried from the first on.
LEMMA StartKeeps ==
  ASSUME SearchInv, GetCandidatePaths
  PROVE  SearchInv'
  <1>1. LeakInv' /\ Inputs' /\ UNCHANGED inputs
    BY OnlySizelessLeak DEF GetCandidatePaths, SearchInv, Inputs, inputs
  <1>2. CASE candidates = HelperFails
    <2>1. /\ pc' = "done" /\ result' = [status |-> "err", err |-> Err("helper")]
          /\ handles' = {} /\ candidates' = HelperFails
      BY <1>1, <1>2 DEF GetCandidatePaths, SearchInv, PointInv, inputs
    <2>2. ResultInv'
      BY <2>1 DEF ResultInv, FirstToDecideWins, SymbolsHaveTheWantedId, Err
    <2>3. PointInv'
      BY <2>1 DEF PointInv, InFile, InDyld
    <2> QED
      BY <1>1, <2>1, <2>2, <2>3 DEF SearchInv, Points
  <1>3. CASE candidates # HelperFails
    <2>1. /\ pc' = "next" /\ i' = 1 /\ result' = NoResult /\ handles' = {}
          /\ candidates' = candidates /\ last_err' = NoError
      BY <1>1, <1>3 DEF GetCandidatePaths, SearchInv, PointInv, inputs, ResultInv
    <2>2. Len(candidates) \in Nat
      BY <1>3, ListedFiles DEF SearchInv
    <2>3. EarlierFail'
      BY <1>3, <2>1, <2>2 DEF EarlierFail, NoError
    <2>4. ResultInv' /\ PointInv'
      BY <2>1 DEF ResultInv, PointInv, InFile, InDyld
    <2> QED
      BY <1>1, <2>1, <2>3, <2>4 DEF SearchInv, Points
  <1> QED
    BY <1>2, <1>3

\* The step to a candidate.
LEMMA NextKeeps ==
  ASSUME SearchInv, TryNextCandidate
  PROVE  SearchInv'
  <1>1. /\ pc = "next" /\ UNCHANGED <<inputs, i, last_err, result>> /\ handles' = {}
        /\ leaked' = leaked /\ i' = i /\ candidates' = candidates
    BY DEF TryNextCandidate, SearchInv, PointInv, inputs
  <1>2. i \in 1 .. Len(candidates) /\ candidates[i].kind \in {"file", "dyld"}
    BY <1>1, ListedFiles DEF SearchInv, EarlierFail, TryNextCandidate
  <1>3. PointInv'
    BY <1>1, <1>2 DEF TryNextCandidate, PointInv, InFile, InDyld
  <1> QED
    BY <1>1, <1>3, GoesOn, OnlySizelessLeak
       DEF Ongoing, SearchInv, TryNextCandidate, Points, InFile, InDyld

\* Behind the last candidate all have failed, and the last error is of the last.
LEMMA LastKeeps ==
  ASSUME SearchInv, NoMoreCandidates
  PROVE  SearchInv'
  <1>1. /\ pc = "next" /\ pc' = "done" /\ UNCHANGED inputs /\ handles' = {} /\ LeakInv'
    BY OnlySizelessLeak DEF NoMoreCandidates, SearchInv, PointInv
  <1>2. EarlierFail /\ Inputs /\ Inputs'
    BY <1>1 DEF SearchInv, Inputs, inputs
  <1>3. i = Len(candidates) + 1 /\ Len(candidates) \in Nat /\ candidates' = candidates
    BY <1>1, <1>2, ListedFiles DEF EarlierFail, NoMoreCandidates, inputs
  <1>4. /\ result'.status = "err" /\ result'.err.at = Len(candidates)
        /\ result'.err.kind = "unmatched" => last_err.kind = "unmatched"
    <2>1. last_err = NoError => last_err.at = 0
      BY DEF NoError
    <2> QED
      BY <1>2, <1>3, <2>1 DEF NoMoreCandidates, EarlierFail
  <1>5. FirstToDecideWins'
    <2>1. \A k \in 1 .. Len(candidates) : (~Decides(candidates[k]))'
      BY <1>1, <1>2, <1>3, InputsDecide DEF EarlierFail
    <2>2. DOMAIN candidates = 1 .. Len(candidates)
      BY <1>2, SearchAssumption DEF Inputs, EarlierFail
    <2>3. (\A k \in DOMAIN candidates : ~Decides(candidates[k]))'
      BY <1>3, <2>1, <2>2
    <2> QED
      BY <1>3, <1>4, <2>3 DEF FirstToDecideWins
  <1>6. SymbolsHaveTheWantedId'
    BY <1>4 DEF SymbolsHaveTheWantedId
  <1>7. (result.err.kind = "unmatched" =>
           /\ candidates # HelperFails /\ Len(candidates) > 0
           /\ Unmatched(candidates[Len(candidates)]))'
    <2>1. SUFFICES ASSUME last_err.kind = "unmatched"
                   PROVE  /\ candidates # HelperFails /\ Len(candidates) > 0
                          /\ Unmatched(candidates[Len(candidates)])'
      BY <1>3, <1>4
    <2>2. candidates # HelperFails /\ Len(candidates) > 0 /\ Unmatched(candidates[Len(candidates)])
      BY <1>2, <1>3, <2>1 DEF EarlierFail
    <2> QED
      BY <1>1, <2>2 DEF inputs, Unmatched, NamesItsId, Found
  <1>8. ResultInv'
    BY <1>1, <1>4, <1>5, <1>6, <1>7 DEF ResultInv
  <1>9. PointInv'
    BY <1>1 DEF PointInv, InFile, InDyld
  <1> QED
    BY <1>1, <1>2, <1>8, <1>9 DEF SearchInv, Points

-----------------------------------------------------------------------------
(* Files *)

\* ... with an error of its own.
LEMMA FailsWith ==
  ASSUME SearchInv, Ongoing, i \in 1 .. Len(candidates), ~Decides(candidates[i]), LeakInv',
         NEW kind, NextWith(Err(kind)), kind = "unmatched" => Unmatched(candidates[i])
  PROVE  SearchInv'
  <1>1. Err(kind).at = i /\ Err(kind).kind = kind
    BY DEF Err
  <1> QED
    BY <1>1, Fails

\* What is known while a candidate is tried.
LEMMA Tried ==
  ASSUME SearchInv, pc \in InFile \cup InDyld
  PROVE  /\ Ongoing /\ EarlierFail /\ i \in 1 .. Len(candidates) /\ Loc \in Locations
         /\ candidates[i].kind = IF pc \in InFile THEN "file" ELSE "dyld"
  <1>1. Ongoing
    BY DEF Ongoing, Points, InFile, InDyld
  <1>2. EarlierFail /\ i \in 1 .. Len(candidates)
    BY <1>1 DEF SearchInv, PointInv, Ongoing
  <1>3. Loc \in Locations
    BY <1>2, ListedFiles DEF SearchInv, EarlierFail, Loc
  <1>4. candidates[i].kind = IF pc \in InFile THEN "file" ELSE "dyld"
    BY DEF SearchInv, PointInv
  <1> QED
    BY <1>1, <1>2, <1>3, <1>4

\* The file is of one kind, and only what is said of this kind decides.
LEMMA DecidedFile ==
  ASSUME candidates[i].kind = "file"
  PROVE  /\ Accepted(candidates[i]) <=>
              \/ /\ File.kind = "elf" /\ File.sound /\ File.id = wanted
                 /\ with_debug_info => File.debug
              \/ File.kind = "pdb" /\ File.sound /\ File.whole /\ File.id = wanted
              \/ File.kind = "macho" /\ MachOIsUsable(File, File.id)
              \/ File.kind = "fat" /\ HasRightArch(File) /\ MachOIsUsable(File, wanted)
              \/ File.kind = "pe" /\ PeIsUsable(File, Loc)
         /\ Stops(candidates[i]) <=>
              \/ /\ File.kind = "elf" /\ File.sound /\ File.id = wanted
                 /\ with_debug_info /\ ~File.debug
              \/ File.kind = "macho" /\ MachOStops(File, File.id)
              \/ File.kind = "fat" /\ HasRightArch(File) /\ MachOStops(File, wanted)
  BY DEF Accepted, Stops, File, Loc, PdbMatches, PdbIsSound

\* A file that cannot be opened is not acceptable.
LEMMA OpenKeeps ==
  ASSUME SearchInv, OpenCandidate
  PROVE  SearchInv'
  <1>1. pc = "open" /\ pc \in InFile
    BY DEF OpenCandidate, InFile
  <1>2. Ongoing /\ i \in 1 .. Len(candidates) /\ candidates[i].kind = "file"
    BY <1>1, Tried
  <1>3. LeakInv'
    BY OnlySizelessLeak DEF OpenCandidate, SearchInv, NextWith
  <1>4. CASE Openable(Loc)
    <2>1. /\ handles' = {<<Loc, 0>>} /\ pc' = "dispatch"
          /\ UNCHANGED <<inputs, i, last_err, result>>
      BY <1>4 DEF OpenCandidate
    <2>2. Ongoing'
      BY <2>1 DEF Ongoing, Points, InFile, InDyld
    <2>3. PointInv'
      BY <1>2, <2>1 DEF PointInv, InFile, InDyld, Loc, inputs
    <2> QED
      BY <1>2, <1>3, <2>1, <2>2, <2>3, GoesOn
  <1>5. CASE ~Openable(Loc)
    <2>1. ~Decides(candidates[i])
      BY <1>2, <1>5, DecidedFile DEF Openable, File, Decides
    <2> QED
      BY <1>2, <1>3, <1>5, <2>1, FailsWith DEF OpenCandidate
  <1> QED
    BY <1>4, <1>5

\* What is known when a file is handed to its parser.
LEMMA Dispatched ==
  ASSUME SearchInv, pc = "dispatch", UNCHANGED <<inputs, leaked>>
  PROVE  /\ Ongoing /\ i \in 1 .. Len(candidates) /\ candidates[i].kind = "file"
         /\ Loc \in Locations /\ LeakInv' /\ handles = {<<Loc, 0>>}
         /\ wanted \in Ids /\ NoId \notin Ids /\ File.id \in Ids \cup {NoId}
         /\ File.kind = "pdb" => File.id # NoId
  <1>1. /\ Ongoing /\ i \in 1 .. Len(candidates) /\ candidates[i].kind = "file"
        /\ Loc \in Locations
    BY Tried DEF InFile
  <1>2. LeakInv' /\ handles = {<<Loc, 0>>}
    BY OnlySizelessLeak DEF SearchInv, PointInv
  <1>3. wanted \in Ids /\ NoId \notin Ids
    BY SearchAssumption DEF SearchInv, Inputs
  <1>4. File.id \in Ids \cup {NoId} /\ (File.kind = "pdb" => File.id # NoId)
    BY <1>1, Typed DEF SearchInv, File
  <1> QED
    BY <1>1, <1>2, <1>3, <1>4

\* A file of no known kind is not acceptable.
LEMMA UnknownKeeps ==
  ASSUME SearchInv, TryUnknown
  PROVE  SearchInv'
  <1>1. pc = "dispatch" /\ File.kind \in {"unknown", "dyld"} /\ UNCHANGED <<inputs, leaked>>
    BY DEF TryUnknown, Dispatch, NextWith
  <1>2. ~Decides(candidates[i])
    BY <1>1, Dispatched, DecidedFile DEF Decides
  <1> QED
    BY <1>1, <1>2, Dispatched, FailsWith DEF TryUnknown

\* An ELF file is used when its ID is the wanted one, unless its debug info stops the program.
LEMMA ElfKeeps ==
  ASSUME SearchInv, TryElf
  PROVE  SearchInv'
  <1>1. pc = "dispatch" /\ File.kind = "elf" /\ UNCHANGED <<inputs, leaked>>
    BY DEF TryElf, Dispatch, NextWith, Succeed, Panic
  <1>2. /\ Accepted(candidates[i]) <=> File.sound /\ File.id = wanted /\ ReadsDebugInfo
        /\ Stops(candidates[i]) <=> File.sound /\ File.id = wanted /\ ~ReadsDebugInfo
        /\ Decides(candidates[i]) => File.sound /\ File.id = wanted
    BY <1>1, Dispatched, DecidedFile DEF ReadsDebugInfo, Decides
  <1>3. CASE ~File.sound /\ NextWith(Err("parse"))
    BY <1>1, <1>2, <1>3, Dispatched, FailsWith
  <1>4. CASE File.sound /\ File.id = NoId /\ NextWith(Err("no_id"))
    BY <1>1, <1>2, <1>4, Dispatched, FailsWith
  <1>5. CASE File.sound /\ File.id \notin {NoId, wanted} /\ NextWith(Err("unmatched"))
    <2>1. Unmatched(candidates[i])
      BY <1>1, <1>5, Dispatched DEF Unmatched, NamesItsId, File, Loc
    <2> QED
      BY <1>1, <1>2, <1>5, <2>1, Dispatched, FailsWith
  <1>6. CASE File.sound /\ File.id = wanted /\ ReadsDebugInfo /\ Succeed(Loc)
    <2>1. HasWantedId(Loc)
      BY <1>1, <1>6 DEF HasWantedId, File
    <2> QED
      BY <1>1, <1>2, <1>6, <2>1, Dispatched, Succeeds
  <1>7. CASE File.sound /\ File.id = wanted /\ ~ReadsDebugInfo /\ Panic
    BY <1>1, <1>2, <1>7, Dispatched, Panics
  <1> QED
    BY <1>3, <1>4, <1>5, <1>6, <1>7 DEF TryElf

\* A PDB file is used when its ID is the wanted one and the rest can be read.
LEMMA PdbKeeps ==
  ASSUME SearchInv, TryPdb
  PROVE  SearchInv'
  <1>1. pc = "dispatch" /\ File.kind = "pdb" /\ UNCHANGED <<inputs, leaked>>
    BY DEF TryPdb, Dispatch, NextWith, Succeed
  <1>2. /\ Accepted(candidates[i]) <=> File.sound /\ File.whole /\ File.id = wanted
        /\ Decides(candidates[i]) <=> Accepted(candidates[i])
    BY <1>1, Dispatched, DecidedFile DEF Decides
  <1>3. CASE ~File.sound /\ NextWith(Err("format"))
    BY <1>1, <1>2, <1>3, Dispatched, FailsWith
  <1>4. CASE File.sound /\ File.id # wanted /\ NextWith(Err("unmatched"))
    <2>1. Unmatched(candidates[i])
      BY <1>1, <1>4, Dispatched DEF Unmatched, NamesItsId, File, Loc
    <2> QED
      BY <1>1, <1>2, <1>4, <2>1, Dispatched, FailsWith
  <1>5. CASE File.sound /\ File.id = wanted /\ ~File.whole /\ NextWith(Err("pdb"))
    BY <1>1, <1>2, <1>5, Dispatched, FailsWith
  <1>6. CASE File.sound /\ File.id = wanted /\ File.whole /\ Succeed(Loc)
    <2>1. HasWantedId(Loc)
      BY <1>1, <1>6 DEF HasWantedId, File
    <2> QED
      BY <1>1, <1>2, <1>6, <2>1, Dispatched, Succeeds
  <1> QED
    BY <1>3, <1>4, <1>5, <1>6 DEF TryPdb

-----------------------------------------------------------------------------
(* Mach-O files *)

\* A Mach-O file, or an architecture of a fat file, is used when its ID is the wanted one and
\* everything that the query needs can be read.  When its debug info cannot, the program stops.
LEMMA MachOFileKeeps ==
  ASSUME SearchInv, pc = "dispatch", UNCHANGED leaked,
         NEW id \in Ids \cup {NoId}, UseMachO(id),
         Accepted(candidates[i]) <=> MachOIsUsable(File, id),
         Stops(candidates[i]) <=> MachOStops(File, id),
         id = wanted => HasWantedId(Loc),
         id \notin {NoId, wanted} => File.kind = "macho" /\ File.id = id
  PROVE  SearchInv'
  <1>1. UNCHANGED inputs
    BY DEF UseMachO, NextWith, Succeed, TraverseObjects, Panic
  <1>2. CASE ~File.sound /\ NextWith(Err("parse"))
    <2>1. ~Decides(candidates[i])
      BY <1>2 DEF Decides, MachOIsUsable, MachOStops, IsRightMachO
    <2> QED
      BY <1>1, <1>2, <2>1, Dispatched, FailsWith
  <1>3. CASE File.sound /\ id = NoId /\ NextWith(Err("no_id"))
    <2>1. ~Decides(candidates[i])
      BY <1>1, <1>3, Dispatched DEF Decides, MachOIsUsable, MachOStops, IsRightMachO
    <2> QED
      BY <1>1, <1>3, <2>1, Dispatched, FailsWith
  <1>4. CASE File.sound /\ id \notin {NoId, wanted} /\ NextWith(Err("unmatched"))
    <2>1. ~Decides(candidates[i])
      BY <1>4 DEF Decides, MachOIsUsable, MachOStops, IsRightMachO
    <2>2. Unmatched(candidates[i])
      BY <1>1, <1>4, Dispatched DEF Unmatched, NamesItsId, File, Loc
    <2> QED
      BY <1>1, <1>4, <2>1, <2>2, Dispatched, FailsWith
  <1>5. CASE File.sound /\ id = wanted /\ ~File.whole /\ NextWith(Err("parse"))
    <2>1. ~Decides(candidates[i])
      BY <1>5 DEF Decides, MachOIsUsable, MachOStops, IsRightMachO
    <2> QED
      BY <1>1, <1>5, <2>1, Dispatched, FailsWith
  <1>6. CASE File.sound /\ id = wanted /\ File.whole /\ ~with_debug_info /\ Succeed(Loc)
    <2>1. Accepted(candidates[i])
      BY <1>6 DEF MachOIsUsable, IsRightMachO
    <2> QED
      BY <1>1, <1>6, <2>1, Dispatched, Succeeds
  <1>7. CASE /\ File.sound /\ id = wanted /\ File.whole /\ with_debug_info
             /\ ReadsDebugInfo /\ TraverseObjects
    <2>1. /\ pc' = "traverse" /\ handles' = {} /\ UNCHANGED <<inputs, i, last_err, result>>
      BY <1>7 DEF TraverseObjects
    <2>2. Ongoing'
      BY <2>1 DEF Ongoing, Points, InFile, InDyld
    <2>3. Traversable
      BY <1>7 DEF Traversable, MachOIsUsable, MachOStops, IsRightMachO, ReadsDebugInfo
    <2>4. Traversable'
      BY <2>1, <2>3 DEF Traversable, inputs, File, Loc, HasWantedId, Accepted, DyldIsUsable, Found,
         PdbMatches, PdbIsSound, MachOIsUsable, IsRightMachO, HasRightArch, PeIsUsable, Stops,
         MachOStops
    <2>5. PointInv'
      BY <1>1, <2>1, <2>4, Dispatched DEF PointInv, InFile, InDyld, inputs
    <2> QED
      BY <1>1, <2>1, <2>2, <2>5, Dispatched, GoesOn
  <1>8. CASE /\ File.sound /\ id = wanted /\ File.whole /\ with_debug_info
             /\ ~ReadsDebugInfo /\ Panic
    <2>1. Stops(candidates[i])
      BY <1>8 DEF MachOStops, IsRightMachO, ReadsDebugInfo
    <2> QED
      BY <1>1, <1>8, <2>1, Dispatched, Panics
  <1> QED
    BY <1>2, <1>3, <1>4, <1>5, <1>6, <1>7, <1>8 DEF UseMachO

\* ... when it is a file of its own.
LEMMA MachOKeeps ==
  ASSUME SearchInv, TryMachO
  PROVE  SearchInv'
  <1>1. pc = "dispatch" /\ File.kind = "macho" /\ UseMachO(File.id) /\ UNCHANGED <<inputs, leaked>>
    BY DEF TryMachO, Dispatch, UseMachO, NextWith, Succeed, TraverseObjects, Panic
  <1>2. /\ Accepted(candidates[i]) <=> MachOIsUsable(File, File.id)
        /\ Stops(candidates[i]) <=> MachOStops(File, File.id)
    BY <1>1, Dispatched, DecidedFile
  <1>3. File.id = wanted => HasWantedId(Loc)
    BY <1>1 DEF HasWantedId, File
  <1> QED
    BY <1>1, <1>2, <1>3, Dispatched, MachOFileKeeps

\* The first decisive architecture is the only one that counts.
LEMMA FirstDecides ==
  ASSUME Inputs, Loc \in Locations
  PROVE  /\ Decisive = {} => ~HasRightArch(File)
         /\ Decisive # {} => /\ FirstDecisive \in {Corrupt, wanted}
                             /\ FirstDecisive = Corrupt => ~HasRightArch(File)
                             /\ FirstDecisive = wanted =>
                                  /\ HasRightArch(File)
                                  /\ \E k \in DOMAIN File.arches : File.arches[k] = wanted
  <1>1. DOMAIN File.arches = 1 .. Len(File.arches) /\ Len(File.arches) \in Nat
    BY Typed DEF File
  <1>2. wanted # Corrupt
    BY SearchAssumption DEF Inputs
  <1>3. Decisive = {} => ~HasRightArch(File)
    BY DEF Decisive, HasRightArch
  <1>4. ASSUME Decisive # {}
        PROVE  /\ FirstDecisive \in {Corrupt, wanted}
               /\ FirstDecisive = Corrupt => ~HasRightArch(File)
               /\ FirstDecisive = wanted =>
                    /\ HasRightArch(File)
                    /\ \E k \in DOMAIN File.arches : File.arches[k] = wanted
    <2>1. Decisive \subseteq 1 .. Len(File.arches) /\ Decisive \subseteq Nat
      BY <1>1 DEF Decisive
    <2>2. \E k \in Decisive : \A l \in Decisive : k <= l
      BY <1>4, <2>1, LeastElement
    <2> DEFINE first == CHOOSE k \in Decisive : \A l \in Decisive : k <= l
    <2>3. first \in Decisive /\ \A l \in Decisive : first <= l
      BY <2>2
    <2>4. FirstDecisive = File.arches[first]
      BY DEF FirstDecisive
    <2> HIDE DEF first
    <2>5. first \in DOMAIN File.arches /\ FirstDecisive \in {Corrupt, wanted}
      BY <2>3, <2>4 DEF Decisive
    <2>6. \A l \in 1 .. first - 1 : l \notin Decisive
      BY <2>1, <2>3
    <2>7. \A l \in 1 .. first - 1 : File.arches[l] \notin {Corrupt, wanted}
      BY <1>1, <2>5, <2>6 DEF Decisive
    <2>8. ASSUME FirstDecisive = Corrupt PROVE ~HasRightArch(File)
      <3> SUFFICES ASSUME NEW k \in DOMAIN File.arches, File.arches[k] = wanted
                   PROVE  \E l \in 1 .. k - 1 : File.arches[l] = Corrupt
        BY DEF HasRightArch
      <3>1. k \in Decisive /\ first <= k /\ first # k
        BY <1>2, <2>3, <2>4, <2>8 DEF Decisive
      <3>2. first \in 1 .. k - 1
        BY <1>1, <2>5, <3>1
      <3> QED
        BY <2>4, <2>8, <3>2
    <2>9. ASSUME FirstDecisive = wanted
          PROVE  HasRightArch(File)
      <3>1. \A l \in 1 .. first - 1 : File.arches[l] # Corrupt
        BY <2>7
      <3> QED
        BY <2>4, <2>5, <2>9, <3>1 DEF HasRightArch
    <2> QED
      BY <2>4, <2>5, <2>8, <2>9
  <1> QED
    BY <1>3, <1>4

\* ... when it is the architecture that was chosen.
LEMMA FatKeeps ==
  ASSUME SearchInv, TryFat
  PROVE  SearchInv'
  <1>1. pc = "dispatch" /\ File.kind = "fat" /\ UNCHANGED <<inputs, leaked>>
    BY DEF TryFat, Dispatch, UseMachO, NextWith, Succeed, TraverseObjects, Panic
  <1>2. /\ Accepted(candidates[i]) <=> HasRightArch(File) /\ MachOIsUsable(File, wanted)
        /\ Stops(candidates[i]) <=> HasRightArch(File) /\ MachOStops(File, wanted)
        /\ Decides(candidates[i]) => HasRightArch(File)
    BY <1>1, Dispatched, DecidedFile DEF Decides
  <1>3. Inputs /\ Loc \in Locations
    BY <1>1, Dispatched DEF SearchInv
  <1>4. CASE Decisive = {} /\ NextWith(Err("no_arch"))
    BY <1>1, <1>2, <1>3, <1>4, FirstDecides, Dispatched, FailsWith
  <1>5. CASE Decisive # {} /\ FirstDecisive = Corrupt /\ NextWith(Err("parse"))
    BY <1>1, <1>2, <1>3, <1>5, FirstDecides, Dispatched, FailsWith
  <1>6. CASE Decisive # {} /\ FirstDecisive = wanted /\ UseMachO(wanted)
    <2>1. /\ Accepted(candidates[i]) <=> MachOIsUsable(File, wanted)
          /\ Stops(candidates[i]) <=> MachOStops(File, wanted)
      BY <1>2, <1>3, <1>6, FirstDecides
    <2>2. HasWantedId(Loc)
      BY <1>1, <1>3, <1>6, FirstDecides DEF HasWantedId, File
    <2>3. wanted \in Ids
      BY <1>3 DEF Inputs
    <2> QED
      BY <1>1, <1>6, <2>1, <2>2, <2>3, MachOFileKeeps
  <1> QED
    BY <1>4, <1>5, <1>6 DEF TryFat

\* ... and the external objects decide whether the file is used.
LEMMA TraversalKeeps ==
  ASSUME SearchInv, FinishTraversal
  PROVE  SearchInv'
  <1>1. /\ pc = "traverse" /\ pc \in InFile /\ UNCHANGED <<inputs, leaked>> /\ Traversable
        /\ handles = {}
    BY DEF FinishTraversal, NextWith, Succeed, Panic, SearchInv, PointInv, InFile
  <1>2. Ongoing /\ i \in 1 .. Len(candidates) /\ LeakInv'
    BY <1>1, Tried, OnlySizelessLeak DEF SearchInv
  <1>3. CASE File.objects = "ok" /\ Succeed(Loc)
    BY <1>1, <1>2, <1>3, Succeeds DEF Traversable
  <1>4. CASE File.objects = "err" /\ NextWith(Err("objects"))
    <2>1. ~Decides(candidates[i])
      BY <1>1, <1>4 DEF Traversable, Decides
    <2> QED
      BY <1>1, <1>2, <1>4, <2>1, FailsWith
  <1>5. CASE File.objects = "panic" /\ Panic
    BY <1>1, <1>2, <1>5, Panics DEF Traversable
  <1> QED
    BY <1>3, <1>4, <1>5 DEF FinishTraversal

-----------------------------------------------------------------------------
(* PE files *)

\* A PE file fails, or its PDB files are tried.
LEMMA PeKeeps ==
  ASSUME SearchInv, TryPe
  PROVE  SearchInv'
  <1>1. pc = "dispatch" /\ File.kind = "pe" /\ UNCHANGED <<inputs, leaked>>
    BY DEF TryPe, Dispatch, NextWith
  <1>2. Decides(candidates[i]) <=> PeIsUsable(File, Loc)
    BY <1>1, Dispatched, DecidedFile DEF Decides
  <1>3. CASE ~File.sound /\ NextWith(Err("parse"))
    <2>1. ~PeIsUsable(File, Loc)
      BY <1>3 DEF PeIsUsable
    <2> QED
      BY <1>1, <1>2, <1>3, <2>1, Dispatched, FailsWith
  <1>4. CASE File.sound /\ File.id = NoId /\ NextWith(Err("no_debug_info"))
    <2>1. ~PeIsUsable(File, Loc)
      BY <1>4 DEF PeIsUsable
    <2> QED
      BY <1>1, <1>2, <1>4, <2>1, Dispatched, FailsWith
  <1>5. CASE File.sound /\ File.id # NoId /\ pdbs = HelperFails /\ NextWith(Err("helper"))
    <2>1. ~PeIsUsable(File, Loc)
      BY <1>5 DEF PeIsUsable
    <2> QED
      BY <1>1, <1>2, <1>5, <2>1, Dispatched, FailsWith
  <1>6. CASE /\ File.sound /\ File.id # NoId /\ pdbs # HelperFails
             /\ j' = 1 /\ pc' = "next_pdb"
             /\ UNCHANGED <<inputs, i, handles, last_err, result>>
    <2>1. Ongoing'
      BY <1>6 DEF Ongoing, Points, InFile, InDyld
    <2>2. Len(pdbs) \in Nat
      BY <1>6, ListedFiles DEF SearchInv
    <2>3. ViaBinary'
      BY <1>1, <1>6, <2>2 DEF ViaBinary, inputs, File, Loc
    <2>4. PointInv'
      BY <1>1, <1>6, <2>3, Dispatched DEF PointInv, InFile, InDyld, inputs, Loc
    <2> QED
      BY <1>1, <1>6, <2>1, <2>4, Dispatched, GoesOn
  <1> QED
    BY <1>3, <1>4, <1>5, <1>6 DEF TryPe

\* What is known while the PDB files are tried.
LEMMA TriedPdb ==
  ASSUME SearchInv, pc \in {"next_pdb", "pdb"}
  PROVE  /\ Ongoing /\ i \in 1 .. Len(candidates) /\ candidates[i].kind = "file"
         /\ Loc \in Locations /\ ViaBinary
         /\ Len(pdbs) \in Nat /\ DOMAIN pdbs = 1 .. Len(pdbs)
         /\ \A k \in 1 .. Len(pdbs) : pdbs[k] \in Locations
         /\ Decides(candidates[i]) <=> Accepted(candidates[i])
         /\ Accepted(candidates[i]) <=>
              \/ File.id = wanted
              \/ \E k \in 1 .. Len(pdbs) : pdbs[k] # Loc /\ PdbMatches(pdbs[k])
  <1>1. /\ Ongoing /\ i \in 1 .. Len(candidates) /\ candidates[i].kind = "file"
        /\ Loc \in Locations
    BY Tried DEF InFile
  <1>2. ViaBinary
    BY DEF SearchInv, PointInv
  <1>3. /\ Len(pdbs) \in Nat /\ DOMAIN pdbs = 1 .. Len(pdbs)
        /\ \A k \in 1 .. Len(pdbs) : pdbs[k] \in Locations
    BY <1>2, ListedFiles DEF SearchInv, ViaBinary
  <1>4. /\ Accepted(candidates[i]) <=> PeIsUsable(File, Loc)
        /\ ~Stops(candidates[i])
    BY <1>1, <1>2, DecidedFile DEF ViaBinary
  <1> QED
    BY <1>1, <1>2, <1>3, <1>4 DEF ViaBinary, PeIsUsable, Decides

\* A PDB file is passed.
LEMMA SkipKeeps ==
  ASSUME SearchInv, pc \in {"next_pdb", "pdb"}, j \in 1 .. Len(pdbs),
         pdbs[j] = Loc \/ ~PdbMatches(pdbs[j]), SkipPdb, LeakInv'
  PROVE  SearchInv'
  <1>1. /\ j' = j + 1 /\ pc' = "next_pdb" /\ handles' = {<<Loc, 0>>}
        /\ UNCHANGED <<inputs, i, last_err, result>>
    BY DEF SkipPdb
  <1>2. \A k \in 1 .. j' - 1 : pdbs[k] = Loc \/ ~PdbMatches(pdbs[k])
    BY <1>1, TriedPdb DEF ViaBinary
  <1>3. j' \in 1 .. Len(pdbs) + 1
    BY <1>1, TriedPdb
  <1>4. ViaBinary'
    BY <1>1, <1>2, <1>3, TriedPdb DEF ViaBinary, inputs, File, Loc, PdbMatches, PdbIsSound
  <1>5. PointInv'
    BY <1>1, <1>4, TriedPdb DEF PointInv, InFile, InDyld, inputs, Loc
  <1>6. Ongoing'
    BY <1>1 DEF Ongoing, Points, InFile
  <1> QED
    BY <1>1, <1>5, <1>6, TriedPdb, GoesOn

\* A PDB file that is the candidate itself, or cannot be opened, is passed.
LEMMA OpenPdbKeeps ==
  ASSUME SearchInv, OpenPdb
  PROVE  SearchInv'
  <1>1. pc = "next_pdb" /\ j <= Len(pdbs)
    BY DEF OpenPdb
  <1>2. j \in 1 .. Len(pdbs)
    BY <1>1, TriedPdb DEF ViaBinary
  <1>3. LeakInv'
    BY OnlySizelessLeak DEF OpenPdb, SkipPdb, SearchInv
  <1>4. CASE pdbs[j] = Loc
    BY <1>1, <1>2, <1>3, <1>4, SkipKeeps DEF OpenPdb
  <1>5. CASE pdbs[j] # Loc /\ ~Openable(pdbs[j])
    <2>1. ~PdbMatches(pdbs[j])
      BY <1>5 DEF Openable, PdbMatches, PdbIsSound
    <2> QED
      BY <1>1, <1>2, <1>3, <1>5, <2>1, SkipKeeps DEF OpenPdb
  <1>6. CASE pdbs[j] # Loc /\ Openable(pdbs[j])
    <2>1. /\ handles' = {<<Loc, 0>>, <<pdbs[j], 0>>} /\ pc' = "pdb"
          /\ UNCHANGED <<inputs, i, j, last_err, result>>
      BY <1>1, <1>6 DEF OpenPdb, SearchInv, PointInv
    <2>2. ViaBinary'
      BY <1>1, <2>1, TriedPdb DEF ViaBinary, inputs, File, Loc, PdbMatches, PdbIsSound
    <2>3. PointInv'
      BY <1>1, <1>2, <1>6, <2>1, <2>2, TriedPdb DEF PointInv, InFile, InDyld, inputs, Loc
    <2>4. Ongoing'
      BY <2>1 DEF Ongoing, Points, InFile
    <2> QED
      BY <1>1, <1>3, <2>1, <2>3, <2>4, TriedPdb, GoesOn
  <1> QED
    BY <1>4, <1>5, <1>6

\* A PDB file is used when its ID is the wanted one, whatever the ID of the PE file.
LEMMA UsePdbKeeps ==
  ASSUME SearchInv, UsePdb
  PROVE  SearchInv'
  <1>1. pc = "pdb" /\ j \in 1 .. Len(pdbs) /\ pdbs[j] # Loc
    BY DEF UsePdb, SearchInv, PointInv
  <1>2. LeakInv'
    BY OnlySizelessLeak DEF UsePdb, Succeed, SkipPdb, SearchInv
  <1>3. CASE PdbMatches(pdbs[j])
    <2>1. Accepted(candidates[i])
      BY <1>1, <1>3, TriedPdb
    <2>2. HasWantedId(pdbs[j])
      BY <1>3 DEF HasWantedId, PdbMatches, PdbIsSound
    <2> QED
      BY <1>1, <1>2, <1>3, <2>1, <2>2, TriedPdb, Succeeds DEF UsePdb
  <1>4. CASE ~PdbMatches(pdbs[j])
    BY <1>1, <1>2, <1>4, SkipKeeps DEF UsePdb
  <1> QED
    BY <1>3, <1>4

\* Without a PDB file the ID of the PE file decides.
LEMMA ExportsKeep ==
  ASSUME SearchInv, UseExports
  PROVE  SearchInv'
  <1>1. pc = "next_pdb" /\ j > Len(pdbs)
    BY DEF UseExports
  <1>2. j = Len(pdbs) + 1
    BY <1>1, TriedPdb DEF ViaBinary
  <1>3. Accepted(candidates[i]) <=> File.id = wanted
    BY <1>1, <1>2, TriedPdb DEF ViaBinary
  <1>4. LeakInv'
    BY OnlySizelessLeak DEF UseExports, Succeed, NextWith, SearchInv
  <1>5. CASE File.id = wanted
    <2>1. HasWantedId(Loc)
      BY <1>1, <1>5, TriedPdb DEF ViaBinary, HasWantedId, File
    <2> QED
      BY <1>1, <1>3, <1>4, <1>5, <2>1, TriedPdb, Succeeds DEF UseExports
  <1>6. CASE File.id # wanted
    <2>1. File.id \in Ids
      BY <1>1, TriedPdb, Typed DEF ViaBinary, SearchInv, File
    <2>2. Unmatched(candidates[i])
      BY <1>1, <1>6, <2>1, TriedPdb DEF ViaBinary, Unmatched, NamesItsId, File, Loc
    <2> QED
      BY <1>1, <1>3, <1>4, <1>6, <2>2, TriedPdb, FailsWith DEF UseExports
  <1> QED
    BY <1>5, <1>6

-----------------------------------------------------------------------------
(* dyld shared caches *)

\* What is known while a dyld cache is tried.
LEMMA TriedDyld ==
  ASSUME SearchInv, pc \in InDyld
  PROVE  /\ Ongoing /\ i \in 1 .. Len(candidates) /\ candidates[i].kind = "dyld"
         /\ Loc \in Locations
         /\ Accepted(candidates[i]) <=> DyldIsUsable(File)
         /\ Decides(candidates[i]) <=> Accepted(candidates[i])
  <1>1. /\ Ongoing /\ i \in 1 .. Len(candidates) /\ candidates[i].kind = "dyld"
        /\ Loc \in Locations
    BY Tried DEF InFile, InDyld
  <1> QED
    BY <1>1 DEF Accepted, Stops, Decides, File, Loc

\* The scan for subcaches starts with the file itself open.
LEMMA RootKeeps ==
  ASSUME SearchInv, OpenDyldRoot
  PROVE  SearchInv'
  <1>1. pc = "open_root" /\ pc \in InDyld
    BY DEF OpenDyldRoot, InDyld
  <1>2. LeakInv'
    BY OnlySizelessLeak DEF OpenDyldRoot, NextWith, SearchInv
  <1>3. CASE Openable(Loc)
    <2>1. /\ handles' = {<<Loc, 0>>} /\ pc' = "open_subcache" /\ j' = 1
          /\ UNCHANGED <<inputs, i, last_err, result>>
      BY <1>3 DEF OpenDyldRoot
    <2>2. Scanned'
      BY <2>1 DEF Scanned, inputs, File, Loc
    <2>3. PointInv'
      BY <1>1, <2>1, <2>2, TriedDyld DEF PointInv, InFile, InDyld, inputs
    <2>4. Ongoing'
      BY <2>1 DEF Ongoing, Points, InDyld
    <2> QED
      BY <1>1, <1>2, <2>1, <2>3, <2>4, TriedDyld, GoesOn
  <1>4. CASE ~Openable(Loc)
    <2>1. ~DyldIsUsable(File)
      BY <1>4 DEF Openable, DyldIsUsable, File
    <2> QED
      BY <1>1, <1>2, <1>4, <2>1, TriedDyld, FailsWith DEF OpenDyldRoot
  <1> QED
    BY <1>3, <1>4

\* The scan goes on until a subcache is missing.
LEMMA SubcacheKeeps ==
  ASSUME SearchInv, OpenSubcache
  PROVE  SearchInv'
  <1>1. pc = "open_subcache" /\ pc \in InDyld /\ UNCHANGED <<inputs, i, leaked, last_err, result>>
    BY DEF OpenSubcache, InDyld
  <1>2. LeakInv' /\ Scanned
    BY <1>1, OnlySizelessLeak DEF SearchInv, PointInv
  <1>3. CASE j \in File.parts
    <2>1. handles' = handles \cup {<<Loc, j>>} /\ j' = j + 1 /\ pc' = pc
      BY <1>3 DEF OpenSubcache
    <2>2. 0 .. j' - 1 = (0 .. j - 1) \cup {j} /\ 1 .. j' - 1 = (1 .. j - 1) \cup {j}
      BY <1>2, <2>1 DEF Scanned
    <2>3. handles' = {<<Loc, k>> : k \in 0 .. j' - 1}
      BY <1>2, <2>1, <2>2 DEF Scanned
    <2>4. \A k \in 1 .. j' - 1 : k \in File.parts
      BY <1>2, <1>3, <2>2 DEF Scanned
    <2>5. Scanned'
      BY <1>1, <1>2, <2>1, <2>3, <2>4 DEF Scanned, inputs, File, Loc
    <2>6. PointInv'
      BY <1>1, <2>1, <2>5, TriedDyld DEF PointInv, InFile, InDyld, inputs
    <2>7. Ongoing'
      BY <1>1, <2>1 DEF Ongoing, Points, InDyld
    <2> QED
      BY <1>1, <1>2, <2>6, <2>7, TriedDyld, GoesOn
  <1>4. CASE j \notin File.parts
    <2>1. handles' = handles /\ j' = j /\ pc' = "open_symbols"
      BY <1>4 DEF OpenSubcache
    <2>2. Scanned' /\ (j \notin File.parts)'
      BY <1>1, <1>2, <1>4, <2>1 DEF Scanned, inputs, File, Loc
    <2>3. PointInv'
      BY <1>1, <2>1, <2>2, TriedDyld DEF PointInv, InFile, InDyld, inputs
    <2>4. Ongoing'
      BY <2>1 DEF Ongoing, Points, InDyld
    <2> QED
      BY <1>1, <1>2, <2>3, <2>4, TriedDyld, GoesOn
  <1> QED
    BY <1>3, <1>4

\* The scan finds the numbered subcaches before the first gap, and .symbols.
LEMMA ScanFinds ==
  ASSUME SearchInv, pc = "open_symbols"
  PROVE  Found(File) = (1 .. j - 1) \cup (File.parts \cap {SymbolsPart})
  <1>1. Loc \in Locations /\ Scanned /\ j \notin File.parts
    BY TriedDyld DEF InDyld, SearchInv, PointInv
  <1>2. File.parts \subseteq Parts
    BY <1>1, Typed DEF SearchInv, File
  <1>3. \A k \in Nat \ {0} : (\A l \in 1 .. k : l \in File.parts) => k < j
    BY <1>1 DEF Scanned
  <1>4. \A k \in 1 .. j - 1 : k \in Found(File)
    BY <1>1 DEF Scanned, Found
  <1>5. SymbolsPart \in File.parts => SymbolsPart \in Found(File)
    BY DEF Found, SymbolsPart
  <1>6. \A k \in Found(File) : k \in 1 .. j - 1 \/ k = SymbolsPart
    BY <1>1, <1>2, <1>3 DEF Found, Parts, Scanned
  <1>7. Found(File) \subseteq File.parts
    BY DEF Found
  <1> QED
    BY <1>4, <1>5, <1>6, <1>7

\* After the scan the open files are those that were found.
LEMMA SymbolsSubcacheKeeps ==
  ASSUME SearchInv, OpenSymbolsSubcache
  PROVE  SearchInv'
  <1>1. /\ pc = "open_symbols" /\ pc \in InDyld /\ pc' = "dyld"
        /\ UNCHANGED <<inputs, i, leaked, last_err, result>>
    BY DEF OpenSymbolsSubcache, InDyld
  <1>2. LeakInv' /\ Scanned
    BY <1>1, OnlySizelessLeak DEF SearchInv, PointInv
  <1>3. handles' = handles \cup {<<Loc, k>> : k \in File.parts \cap {SymbolsPart}}
    BY DEF OpenSymbolsSubcache
  <1>4. 0 .. j - 1 = (1 .. j - 1) \cup {0}
    BY <1>2 DEF Scanned
  <1>5. handles' = {<<Loc, k>> : k \in Found(File) \cup {0}}
    BY <1>1, <1>2, <1>3, <1>4, ScanFinds DEF Scanned
  <1>6. PointInv'
    BY <1>1, <1>5, TriedDyld DEF PointInv, InFile, InDyld, inputs, File, Loc, Found
  <1>7. Ongoing'
    BY <1>1 DEF Ongoing, Points, InDyld
  <1> QED
    BY <1>1, <1>2, <1>6, <1>7, TriedDyld, GoesOn

\* The image is used when the subcaches are complete and its ID is the wanted one.
LEMMA ImageKeeps ==
  ASSUME SearchInv, UseDyldImage
  PROVE  SearchInv'
  <1>1. pc = "dyld" /\ pc \in InDyld /\ handles = {<<Loc, k>> : k \in Found(File) \cup {0}}
    BY DEF UseDyldImage, InDyld, SearchInv, PointInv
  <1>2. LeakInv'
    BY OnlySizelessLeak DEF UseDyldImage, NextWith, Succeed, SearchInv
  <1>3. Subcaches = Found(File)
    <2>1. 0 \notin File.parts
      BY <1>1, TriedDyld, Typed DEF SearchInv, File, Parts, SymbolsPart
    <2>2. 0 \notin Found(File)
      BY <2>1 DEF Found
    <2> DEFINE opens == Found(File) \cup {0}
    <2>3. {h[2] : h \in handles} = opens
      <3>1. handles = {<<Loc, k>> : k \in opens}
        BY <1>1
      <3> HIDE DEF opens
      <3>2. \A k \in opens : <<Loc, k>> \in handles /\ <<Loc, k>>[2] = k
        BY <3>1
      <3>3. \A h \in handles : h[2] \in opens
        BY <3>1
      <3>4. opens \subseteq {h[2] : h \in handles}
        BY <3>2
      <3>5. {h[2] : h \in handles} \subseteq opens
        BY <3>3
      <3> QED
        BY <3>4, <3>5
    <2> QED
      BY <2>2, <2>3 DEF Subcaches
  <1>4. File.id \in Ids \cup {NoId} /\ NoId \notin Ids /\ wanted \in Ids
    BY <1>1, TriedDyld, Typed, SearchAssumption DEF SearchInv, Inputs, File
  <1>5. CASE (File.kind # "dyld" \/ Subcaches # File.needs) /\ NextWith(Err("parse"))
    <2>1. ~DyldIsUsable(File)
      BY <1>3, <1>5 DEF DyldIsUsable
    <2> QED
      BY <1>1, <1>2, <1>5, <2>1, TriedDyld, FailsWith
  <1>6. CASE File.id = NoId /\ NextWith(Err("no_image"))
    <2>1. ~DyldIsUsable(File)
      BY <1>4, <1>6 DEF DyldIsUsable
    <2> QED
      BY <1>1, <1>2, <1>6, <2>1, TriedDyld, FailsWith
  <1>7. CASE (~File.sound \/ ~File.whole) /\ NextWith(Err("parse"))
    <2>1. ~DyldIsUsable(File)
      BY <1>7 DEF DyldIsUsable
    <2> QED
      BY <1>1, <1>2, <1>7, <2>1, TriedDyld, FailsWith
  <1>8. CASE /\ File.kind = "dyld" /\ Subcaches = File.needs
             /\ File.id \notin {NoId, wanted} /\ File.sound /\ NextWith(Err("unmatched"))
    <2>1. ~DyldIsUsable(File)
      BY <1>8 DEF DyldIsUsable
    <2>2. Unmatched(candidates[i])
      BY <1>1, <1>3, <1>4, <1>8, TriedDyld DEF Unmatched, NamesItsId, File, Loc
    <2> QED
      BY <1>1, <1>2, <1>8, <2>1, <2>2, TriedDyld, FailsWith
  <1>9. CASE /\ File.kind = "dyld" /\ Subcaches = File.needs
             /\ File.id = wanted /\ File.sound /\ File.whole /\ Succeed(Loc)
    <2>1. DyldIsUsable(File)
      BY <1>3, <1>9 DEF DyldIsUsable
    <2>2. HasWantedId(Loc)
      BY <1>9 DEF HasWantedId, File
    <2> QED
      BY <1>1, <1>2, <1>9, <2>1, <2>2, TriedDyld, Succeeds
  <1> QED
    BY <1>5, <1>6, <1>7, <1>8, <1>9 DEF UseDyldImage

-----------------------------------------------------------------------------
(* The searches of a tool *)

\* The second search is for the ID that the last candidate named, and without debug info.
SecondInv ==
  /\ search \in {"only", "first", "second"}
  /\ search # "only" => ~with_debug_info
  /\ search = "second" =>
       /\ candidates # HelperFails /\ Len(candidates) > 0
       /\ NamesItsId(candidates[Len(candidates)])
       /\ disk[candidates[Len(candidates)].loc].id = wanted

DumpInv == SearchInv /\ SecondInv

\* Every step of a search keeps what is known about it.
LEMMA StepKeeps ==
  ASSUME SearchInv, Step
  PROVE  SearchInv'
  BY StartKeeps, NextKeeps, LastKeeps, OpenKeeps, UnknownKeeps, ElfKeeps, PdbKeeps, MachOKeeps,
     FatKeeps, TraversalKeeps, PeKeeps, OpenPdbKeeps, UsePdbKeeps, ExportsKeep, RootKeeps,
     SubcacheKeeps, SymbolsSubcacheKeeps, ImageKeeps
     DEF Step

\* No step of a search changes what is searched.
LEMMA StepKeepsInputs ==
  ASSUME Step
  PROVE  UNCHANGED inputs
  <1>1. GetCandidatePaths \/ TryNextCandidate \/ NoMoreCandidates \/ OpenCandidate \/ FinishTraversal
          => UNCHANGED inputs
    BY DEF GetCandidatePaths, TryNextCandidate, NoMoreCandidates, OpenCandidate, FinishTraversal,
       NextWith, Succeed, Panic
  <1>2. TryUnknown \/ TryElf \/ TryPdb \/ TryMachO \/ TryFat => UNCHANGED inputs
    BY DEF TryUnknown, TryElf, TryPdb, TryMachO, TryFat, UseMachO, TraverseObjects,
       NextWith, Succeed, Panic
  <1>3. TryPe \/ OpenPdb \/ UsePdb \/ UseExports => UNCHANGED inputs
    BY DEF TryPe, OpenPdb, UsePdb, UseExports, SkipPdb, NextWith, Succeed
  <1>4. OpenDyldRoot \/ OpenSubcache \/ OpenSymbolsSubcache \/ UseDyldImage => UNCHANGED inputs
    BY DEF OpenDyldRoot, OpenSubcache, OpenSymbolsSubcache, UseDyldImage, NextWith, Succeed
  <1> QED
    BY <1>1, <1>2, <1>3, <1>4 DEF Step

\* The second search starts like the first.
LEMMA AgainKeeps ==
  ASSUME DumpInv, SearchAgain
  PROVE  DumpInv'
  <1>1. /\ pc = "done" /\ search = "first" /\ wanted' \in Expected /\ search' = "second"
        /\ pc' = "start" /\ last_err' = NoError /\ result' = NoResult
        /\ disk' = disk /\ candidates' = candidates /\ pdbs' = pdbs
        /\ with_debug_info' = with_debug_info /\ handles' = handles /\ leaked' = leaked
    BY DEF SearchAgain
  <1>2. result.status = "err" /\ result.err.kind = "unmatched" /\ handles = {}
    BY <1>1 DEF Expected, DumpInv, SearchInv, PointInv
  <1>3. wanted' = disk[candidates[result.err.at].loc].id
    BY <1>1, <1>2 DEF Expected
  <1>4. /\ candidates # HelperFails /\ Len(candidates) > 0
        /\ Unmatched(candidates[Len(candidates)])
    BY <1>1, <1>2 DEF DumpInv, SearchInv, ResultInv
  <1>5. result.err.at = Len(candidates)
    BY <1>1, <1>2, <1>4 DEF DumpInv, SearchInv, ResultInv, FirstToDecideWins
  <1>6. wanted' = disk[candidates[Len(candidates)].loc].id /\ wanted' \in Ids
    BY <1>3, <1>4, <1>5 DEF Unmatched, NamesItsId
  <1>7. NamesItsId(candidates[Len(candidates)])'
    BY <1>1, <1>4 DEF Unmatched, NamesItsId, Found
  <1>8. SecondInv'
    BY <1>1, <1>4, <1>6, <1>7 DEF SecondInv, DumpInv
  <1>9. Inputs' /\ LeakInv'
    BY <1>1, <1>6 DEF DumpInv, SearchInv, Inputs, LeakInv
  <1>10. PointInv' /\ ResultInv'
    BY <1>1, <1>2 DEF PointInv, ResultInv, InFile, InDyld
  <1> QED
    BY <1>1, <1>8, <1>9, <1>10 DEF DumpInv, SearchInv, Points

\* What is known of the searches is so from the start.
LEMMA DumpInitHolds ==
  ASSUME DumpInit
  PROVE  DumpInv
  <1>1. Wanted \in Ids /\ Nil \in Ids
    BY SearchAssumption, NilAssumption
  <1>2. \/ InitFor(Wanted) /\ search = "only"
        \/ InitFor(Nil) /\ ~with_debug_info /\ search = "first"
    BY DEF DumpInit
  <1>3. Inputs
    BY <1>1, <1>2 DEF InitFor, Inputs
  <1>4. /\ pc = "start" /\ handles = {} /\ leaked = {} /\ last_err = NoError /\ result = NoResult
    BY <1>2 DEF InitFor
  <1>5. PointInv /\ LeakInv /\ ResultInv
    BY <1>4 DEF PointInv, LeakInv, ResultInv, InFile, InDyld
  <1>6. SecondInv
    BY <1>2 DEF SecondInv
  <1> QED
    BY <1>3, <1>4, <1>5, <1>6 DEF DumpInv, SearchInv, Points

\* What is known of the searches depends on the state alone.
LEMMA DumpInvStays ==
  ASSUME DumpInv, UNCHANGED <<vars, search>>
  PROVE  DumpInv'
  <1>1. /\ UNCHANGED <<inputs, pc, i, j, handles, leaked, last_err, result, search>>
        /\ Loc' = Loc /\ File' = File
    BY DEF vars, inputs, Loc, File
  <1>2. pc \notin {"start", "done"} => EarlierFail'
    BY <1>1, EarlierStay DEF DumpInv, SearchInv
  <1>3. Inputs' /\ LeakInv' /\ SecondInv'
    BY <1>1 DEF inputs, DumpInv, SearchInv, Inputs, LeakInv, SecondInv, NamesItsId, Found
  <1>4. ViaBinary => ViaBinary'
    BY <1>1 DEF inputs, ViaBinary, PdbMatches, PdbIsSound
  <1>5. Traversable => Traversable'
    BY <1>1 DEF inputs, Traversable, HasWantedId, Accepted, DyldIsUsable, Found, PdbMatches,
       PdbIsSound, MachOIsUsable, IsRightMachO, HasRightArch, PeIsUsable, Stops, MachOStops
  <1>6. Scanned => Scanned'
    BY <1>1 DEF Scanned
  <1>7. PointInv'
    BY <1>1, <1>4, <1>5, <1>6 DEF inputs, DumpInv, SearchInv, PointInv, Found
  <1>8. FirstToDecideWins => FirstToDecideWins'
    <2>1. /\ Accepted(candidates[result.at]) <=> Accepted(candidates[result.at])'
          /\ Stops(candidates[result.at]) <=> Stops(candidates[result.at])'
      BY <1>1 DEF inputs, Accepted, DyldIsUsable, Found, PdbMatches, PdbIsSound, MachOIsUsable,
         IsRightMachO, HasRightArch, PeIsUsable, Stops, MachOStops
    <2>2. \A k : Decides(candidates[k]) <=> Decides(candidates[k])'
      BY <1>1, InputsDecide
    <2> QED
      BY <1>1, <2>1, <2>2 DEF inputs, FirstToDecideWins
  <1>9. SymbolsHaveTheWantedId => SymbolsHaveTheWantedId'
    BY <1>1 DEF inputs, SymbolsHaveTheWantedId
  <1>10. ResultInv'
    BY <1>1, <1>8, <1>9 DEF inputs, DumpInv, SearchInv, ResultInv, Unmatched, NamesItsId, Found
  <1> QED
    BY <1>1, <1>2, <1>3, <1>7, <1>10 DEF DumpInv, SearchInv

\* DumpInv is inductive.
LEMMA DumpInvHolds == DumpSpec => []DumpInv
  <1>1. DumpInit => DumpInv
    BY DumpInitHolds
  <1>2. DumpInv /\ [DumpNext]_<<vars, search>> => DumpInv'
    <2>1. ASSUME DumpInv, Step, UNCHANGED search PROVE DumpInv'
      <3>1. SearchInv'
        BY <2>1, StepKeeps DEF DumpInv
      <3>2. SecondInv'
        BY <2>1, StepKeepsInputs DEF DumpInv, SecondInv, inputs, NamesItsId, Found
      <3> QED
        BY <3>1, <3>2 DEF DumpInv
    <2> QED
      BY <2>1, AgainKeeps, DumpInvStays DEF DumpNext, DumpStep, Search
  <1> QED
    BY <1>1, <1>2, PTL DEF DumpSpec

-----------------------------------------------------------------------------
(* Theorems *)

\* A search ends at the first candidate that is acceptable, or that stops the program because it
\* is the right file and its debug info is cut off; every candidate before it failed with an
\* error.  When there is none, the error is that of the last.
THEOREM FirstToDecideEndsTheSearch == DumpSpec => []FirstToDecideWins
  <1>1. DumpInv => FirstToDecideWins
    BY DEF DumpInv, SearchInv, ResultInv, FirstToDecideWins
  <1> QED
    BY <1>1, DumpInvHolds, PTL

\* Symbols never come from a file of another build.
THEOREM SymbolsAreOfThisBuild == DumpSpec => []SymbolsHaveTheWantedId
  <1>1. DumpInv => SymbolsHaveTheWantedId
    BY DEF DumpInv, SearchInv, ResultInv, SymbolsHaveTheWantedId, NoResult
  <1> QED
    BY <1>1, DumpInvHolds, PTL

\* No file stays open while the next candidate, or an external object, is opened.
THEOREM FilesAreClosedEarly == DumpSpec => []FewFilesAreOpen
  <1>1. DumpInv => FewFilesAreOpen
    BY DEF DumpInv, SearchInv, PointInv, Points, InFile, InDyld, Scanned, FewFilesAreOpen
  <1> QED
    BY <1>1, DumpInvHolds, PTL

\* When a search is over, every file is closed but those whose size could not be told.
THEOREM NothingElseLeaks == DumpSpec => []OnlySizelessFilesLeak
  <1>1. DumpInv => OnlySizelessFilesLeak
    BY DEF DumpInv, SearchInv, PointInv, LeakInv, OnlySizelessFilesLeak
  <1> QED
    BY <1>1, DumpInvHolds, PTL

\* The ID that an error names is one for which the same candidates have symbols: searching again
\* for it fails only where the file that named it is cut off.
THEOREM RetryFindsTheTable == DumpSpec => []SecondSearchSucceeds
  <1>1. DumpInv => SecondSearchSucceeds
    <2> SUFFICES ASSUME DumpInv, pc = "done", search = "second", result.status # "ok"
                 PROVE  /\ \E k \in DOMAIN candidates :
                             /\ disk[candidates[k].loc].id = wanted
                             /\ ~disk[candidates[k].loc].whole
                        /\ result.err.kind # "unmatched"
      BY DEF SecondSearchSucceeds
    <2> DEFINE last == candidates[Len(candidates)]
    <2>1. /\ candidates # HelperFails /\ Len(candidates) > 0
          /\ NamesItsId(last) /\ disk[last.loc].id = wanted /\ ~with_debug_info
      BY DEF DumpInv, SecondInv
    <2>2. candidates \in Seq(CandidateType)
      BY <2>1, SearchAssumption DEF DumpInv, SearchInv, Inputs
    <2>3. Len(candidates) \in DOMAIN candidates /\ last \in CandidateType
      BY <2>1, <2>2
    <2>4. result.status = "err" /\ ~Accepted(last)
      <3>1. result.status # "panic"
        BY <2>1 DEF DumpInv, SearchInv, ResultInv, FirstToDecideWins, Stops, MachOStops
      <3>2. result.status = "err"
        BY <3>1 DEF DumpInv, SearchInv, ResultInv
      <3> QED
        BY <2>1, <2>3, <3>2 DEF DumpInv, SearchInv, ResultInv, FirstToDecideWins, Decides
    <2>5. last.kind \in {"file", "dyld"}
      BY <2>3 DEF CandidateType
    <2>6. wanted # NoId
      BY SearchAssumption DEF DumpInv, SearchInv, Inputs
    <2>7. ~disk[last.loc].whole
      BY <2>1, <2>4, <2>5, <2>6 DEF NamesItsId, Accepted, DyldIsUsable, PdbMatches, PdbIsSound,
         MachOIsUsable, IsRightMachO, PeIsUsable
    <2>8. result.err.kind # "unmatched"
      BY <2>1, <2>4 DEF DumpInv, SearchInv, ResultInv, Unmatched
    <2> QED
      BY <2>1, <2>3, <2>7, <2>8
  <1> QED
    BY <1>1, DumpInvHolds, PTL
=============================================================================
