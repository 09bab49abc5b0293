-------------------------- MODULE MCDumpTable --------------------------
(***************************************************************************)
(* Disks and helpers for the searches.  Every combination of the files  *)
(* below at three locations is explored, for every list of candidates.     *)
(***************************************************************************)
EXTENDS DumpTable

A(kind, id) ==
  [kind |-> kind, id |-> id, sound |-> TRUE, whole |-> TRUE, debug |-> TRUE,
   arches |-> << >>, objects |-> "ok", parts |-> {}, needs |-> {}]
Cut(f) == [f EXCEPT !.whole = FALSE]
Broken(f) == [f EXCEPT !.sound = FALSE]
CutDebug(f) == [f EXCEPT !.debug = FALSE]
Traversed(f, status) == [f EXCEPT !.objects = status]
Fat(arches) == [A("fat", NoId) EXCEPT !.arches = arches]
Dyld(id, parts, needs) == [A("dyld", id) EXCEPT !.parts = parts, !.needs = needs]

\* Every kind of file, right, wrong and broken.
MCFiles ==
  {A("missing", NoId), A("sizeless", NoId), A("unknown", NoId),
   A("elf", Wanted), A("elf", "other"), A("elf", NoId), Broken(A("elf", Wanted)),
   A("macho", Wanted), A("macho", NoId), Broken(A("macho", Wanted)), Cut(A("macho", Wanted)),
   CutDebug(A("elf", Wanted)), CutDebug(A("macho", Wanted)),
   Traversed(A("macho", Wanted), "err"), Traversed(A("macho", Wanted), "panic"),
   Fat(<<"other", Wanted>>), Fat(<<Corrupt, Wanted>>), Fat(<<NoId, "other">>),
   A("pe", Wanted), A("pe", "other"), A("pe", NoId), Broken(A("pe", Wanted)),
   A("pdb", Wanted), A("pdb", "other"), Broken(A("pdb", Wanted)), Cut(A("pdb", "other")),
   Dyld(Wanted, {1, SymbolsPart}, {1, SymbolsPart}), Dyld(Wanted, {2}, {2}),
   Dyld("other", {1, 2}, {1, 2})}

AtFile(loc) == [kind |-> "file", loc |-> loc]
InDyld(loc) == [kind |-> "dyld", loc |-> loc]

MCCandidateLists ==
  {<< >>, <<AtFile("a"), AtFile("b"), AtFile("c")>>,
   <<InDyld("a"), AtFile("b"), InDyld("c")>>, HelperFails}
MCPdbLists == {<<"a", "c">>, HelperFails}
=============================================================================
