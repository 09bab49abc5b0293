--------------------------- MODULE ObjectTraversal ---------------------------
(***************************************************************************)
(* The debug info of a Mach-O file is in the object files that it was      *)
(* linked from.  get_symbolication_result (lib/src/macho.rs) collects what *)
(* there is in the file itself, and then goes through the object files, in *)
(* archives or not, that the addresses lead to, breadth first.  An object  *)
(* file may lead on to others.                                             *)
(*                                                                         *)
(* Each action runs from one suspension (a file is opened) to the next, or *)
(* handles one object of the file that was opened.  The maps between them  *)
(* are HashMaps: the order in which they are iterated is arbitrary.        *)
(***************************************************************************)
EXTENDS AddressMatching, SortedSeqs, SequencesExt

CONSTANTS
  Addresses,      \* the relative addresses that the query looks up
  ImageBase,      \* relative_address_base() of the root object
  Roots,          \* what the Mach-O file may be (see ObjectType)
  Paths,          \* the object files and archives it may refer to
  FileSystems,    \* what may be at these paths (see FileType)
  NoMember,       \* in a reference to an object file that is in no archive
  MaxHops         \* how far the properties follow an address from object to object

(***************************************************************************)
(* id       what tells the debug info of an object from that of another    *)
(* parses   the object can be parsed                                       *)
(* symbols  its symbols, in the order of its symbol table                  *)
(* funs     its object map, sorted: each function is in another object,    *)
(*          fun.object, an index in `objects`                              *)
(* objects  the names of these objects, as a path and a member             *)
(* garbled  the indices in `objects` of names that are not UTF-8           *)
(* debug    the addresses for which it has debug info itself               *)
(* cut      one of its debug sections goes on behind the end of the file   *)
(***************************************************************************)
ObjectFields == {"id", "parses", "symbols", "funs", "objects", "garbled", "debug", "cut"}

\* What is at a path: nothing, an object, or an archive with its members
\* [name, object] in order.
FileKinds == {"missing", "object", "archive", "garbage"}

IsObject(o) ==
  /\ DOMAIN o = ObjectFields /\ o.cut \in BOOLEAN
  /\ Len(o.symbols) \in Nat /\ DOMAIN o.symbols = 1 .. Len(o.symbols)
  /\ \A k \in DOMAIN o.symbols : o.symbols[k].address \in Nat
  /\ Len(o.funs) \in Nat /\ DOMAIN o.funs = 1 .. Len(o.funs)
  /\ \A f \in DOMAIN o.funs : o.funs[f].address \in Nat /\ o.funs[f].object \in DOMAIN o.objects
  /\ \A k \in DOMAIN o.objects : o.objects[k].path \in Paths

IsFile(file) ==
  /\ file.kind \in FileKinds
  /\ file.kind = "object" => IsObject(file.object)
  /\ file.kind = "archive" =>
       /\ Len(file.members) \in Nat /\ DOMAIN file.members = 1 .. Len(file.members)
       /\ \A k \in DOMAIN file.members : IsObject(file.members[k].object)

ASSUME TraversalAssumption ==
  /\ Addresses \subseteq Nat /\ ImageBase \in Nat /\ MaxHops \in Nat
  /\ \A root \in Roots : IsObject(root) /\ root.parses
  /\ \A fs \in FileSystems : DOMAIN fs = Paths /\ \A p \in Paths : IsFile(fs[p])

VARIABLES
  root, fs,       \* the inputs
  queue,          \* remaining_object_references: [path, functions by member]
  pending,        \* the objects of the open file that are still to be handled
  info,           \* info[a]: the debug info that was found for a, or NoInfo
  status          \* "start", "running", "ok", "err" or "panic"

traversalVars == <<root, fs, queue, pending, info, status>>

NoInfo == [id |-> "none", vmaddr |-> 0]

TraversalInit ==
  /\ root \in Roots /\ fs \in FileSystems
  /\ queue = << >> /\ pending = << >>
  /\ info = [a \in Addresses |-> NoInfo]
  /\ status = "start"

-----------------------------------------------------------------------------
(* translate_addresses_to_object *)

FirstSymbol(o, name) ==
  LET named == {k \in DOMAIN o.symbols : o.symbols[k].name = name}
  IN  IF named = {} THEN 0 ELSE Min(named)

\* Variation: the offset in the function is forgotten.
ToFunctionStarts(o, functions) ==
  UNION {{Pair(x.original_relative_address, o.symbols[FirstSymbol(o, name)].address) :
            x \in functions[name]} :
           name \in {n \in DOMAIN functions : FirstSymbol(o, n) # 0}}

\* The first symbol with the name of a function takes its addresses; those of
\* a function without a symbol are dropped.
TranslateAddresses(o, functions) ==
  UNION {{Pair(x.original_relative_address,
               o.symbols[FirstSymbol(o, name)].address + x.offset_from_function_start) :
            x \in functions[name]} :
           name \in {n \in DOMAIN functions : FirstSymbol(o, n) # 0}}

-----------------------------------------------------------------------------
(* collect_debug_info_and_object_references *)

Original(pairs) == {p.original_relative_address : p \in pairs}

\* collect_dwarf_address_debug_data, for the addresses that are in no other object.
CollectDebugInfo(o, pairs) ==
  LET found == {p \in InternalPairs(o.funs, pairs) : p.vmaddr_in_this_object \in o.debug}
  IN  info' = [a \in Addresses |->
                 IF a \in Original(found)
                 THEN [id |-> o.id,
                       vmaddr |-> (CHOOSE p \in found : p.original_relative_address = a)
                                    .vmaddr_in_this_object]
                 ELSE info[a]]

\* The references of an object, its objects taken in this order.  Two objects
\* with the same path and member share one entry, which the last one has.
References(o, pairs, order, archives) ==
  LET isRegular(index) == o.objects[index].member = NoMember
      regular == Picked(order, {k \in DOMAIN order : isRegular(order[k])})
      reference(index) ==
        [path |-> o.objects[index].path,
         members |-> [m \in {NoMember} |-> FunctionsOf(o.funs, pairs, index)]]
      inArchive(path) == {k \in DOMAIN order : o.objects[order[k]].path = path /\ ~isRegular(order[k])}
      last(path, m) == order[Max({k \in inArchive(path) : o.objects[order[k]].member = m})]
      archive(path) ==
        [path |-> path,
         members |-> [m \in {o.objects[order[k]].member : k \in inArchive(path)} |->
                        FunctionsOf(o.funs, pairs, last(path, m))]]
  IN  [k \in DOMAIN regular |-> reference(regular[k])]
      \o [k \in DOMAIN archives |-> archive(archives[k])]

CollectReferences(o, pairs, rest) ==
  LET used == ObjectsWithAddresses(o.funs, pairs)
  IN  \E order \in SetToSeqs(used),
         archives \in SetToSeqs({o.objects[index].path :
                         index \in {k \in used : o.objects[k].member # NoMember}}) :
        queue' = rest \o References(o, pairs, order, archives)

\* The debug sections are read for an address that is looked up in the object
\* itself, and the names of the objects that others are in are decoded: both
\* unwrap.
Panics(o, pairs) ==
  \/ o.cut /\ InternalPairs(o.funs, pairs) # {}
  \/ ObjectsWithAddresses(o.funs, pairs) \cap o.garbled # {}

\* What ends the traversal, and the whole query: nothing that was found is kept.
EndWith(outcome) ==
  status' = outcome /\ queue' = << >> /\ pending' = << >> /\ UNCHANGED info

Collect(o, pairs, rest, others) ==
  IF Panics(o, pairs) THEN EndWith("panic")
  ELSE /\ CollectDebugInfo(o, pairs) /\ CollectReferences(o, pairs, rest)
       /\ status' = "running" /\ pending' = others

\* The Mach-O file itself.
CollectRoot ==
  /\ status = "start"
  /\ Collect(root, {Pair(a, ImageBase + a) : a \in Addresses}, << >>, << >>)
  /\ UNCHANGED <<root, fs>>

-----------------------------------------------------------------------------
(* traverse_object_references_and_collect_debug_info *)

IsRegular(ref) == NoMember \in DOMAIN ref.members
NextReference == queue[1]
CanOpen == status = "running" /\ pending = << >> /\ queue # << >>

\* Variation: a file that cannot be opened comes back to the end of the queue.
RequeueMissing ==
  /\ CanOpen
  /\ fs[NextReference.path].kind = "missing"
  /\ queue' = Append(Tail(queue), NextReference)
  /\ UNCHANGED <<root, fs, pending, info, status>>

SkipMissing ==
  /\ CanOpen
  /\ fs[NextReference.path].kind = "missing"
  /\ queue' = Tail(queue)
  /\ UNCHANGED <<root, fs, pending, info, status>>

\* A reference to an object file: the file, whatever it is, is the object.
OpenObject ==
  /\ CanOpen
  /\ IsRegular(NextReference)
  /\ fs[NextReference.path].kind # "missing"
  /\ pending' = <<[file |-> fs[NextReference.path],
                   functions |-> NextReference.members[NoMember]]>>
  /\ queue' = Tail(queue)
  /\ UNCHANGED <<root, fs, info, status>>

\* The last member of an archive that has the name.
LastMember(archive, name) ==
  LET named == {k \in DOMAIN archive.members : archive.members[k].name = name}
  IN  IF named = {} THEN 0 ELSE Max(named)

\* Variation: every member gets the addresses of each.
OpenAnyMembers(archive, members) ==
  {[file |-> [kind |-> "object", object |-> archive.members[k].object],
    functions |-> members[m]] : m \in DOMAIN members, k \in DOMAIN archive.members}

OpenArchiveMembers(archive, members) ==
  {[file |-> [kind |-> "object", object |-> archive.members[LastMember(archive, m)].object],
    functions |-> members[m]] :
     m \in {n \in DOMAIN members : LastMember(archive, n) # 0}}

OpenArchive ==
  /\ CanOpen
  /\ ~IsRegular(NextReference)
  /\ LET archive == fs[NextReference.path]
     IN  \/ /\ archive.kind \in {"object", "garbage"}
            /\ EndWith("err")
         \/ /\ archive.kind = "archive"
            /\ \E objects \in SetToSeqs(OpenArchiveMembers(archive, NextReference.members)) :
                 pending' = objects
            /\ queue' = Tail(queue)
            /\ UNCHANGED <<info, status>>
  /\ UNCHANGED <<root, fs>>

Parses(file) == file.kind = "object" /\ file.object.parses

\* One object of the file that is open: File::parse fails the whole query.
HandleObject ==
  /\ status = "running" /\ pending # << >>
  /\ LET file == pending[1].file
     IN  IF Parses(file)
         THEN Collect(file.object, TranslateAddresses(file.object, pending[1].functions),
                      queue, Tail(pending))
         ELSE EndWith("err")
  /\ UNCHANGED <<root, fs>>

ReturnInfo ==
  /\ status = "running" /\ pending = << >> /\ queue = << >>
  /\ status' = "ok"
  /\ UNCHANGED <<root, fs, queue, pending, info>>

TraversalTerminated == status \in {"ok", "err", "panic"} /\ UNCHANGED traversalVars

TraversalStep == CollectRoot \/ SkipMissing \/ OpenObject \/ OpenArchive \/ HandleObject \/ ReturnInfo
TraversalNext == TraversalStep \/ TraversalTerminated

\* Every open resolves, and the future is polled until it is ready.
TraversalSpec == TraversalInit /\ [][TraversalNext]_traversalVars /\ WF_traversalVars(TraversalStep)

-----------------------------------------------------------------------------
(* Where the debug info of an address is, followed from function to symbol *)

Location(object, vmaddr) == [object |-> object, vmaddr |-> vmaddr]

\* The object that a name leads to, if it is there.
Target(files, name) ==
  LET file == files[name.path]
  IN  IF name.member = NoMember /\ file.kind = "object" THEN {file.object}
      ELSE IF name.member # NoMember /\ file.kind = "archive" /\ LastMember(file, name.member) # 0
      THEN {file.members[LastMember(file, name.member)].object}
      ELSE {}

\* The place that a place leads to: itself, another, or none.
Follow(files, place) ==
  LET o == place.object
      f == FunctionAt(o.funs, place.vmaddr)
  IN  IF f = 0 THEN {place}
      ELSE {Location(target,
                  target.symbols[FirstSymbol(target, o.funs[f].name)].address
                    + place.vmaddr - o.funs[f].address) :
              target \in {t \in Target(files, o.objects[o.funs[f].object]) :
                            FirstSymbol(t, o.funs[f].name) # 0}}

\* Where an address is after each hop.
Chase(o, files, a) ==
  LET Hop[n \in 0 .. MaxHops] ==
        IF n = 0 THEN {Location(o, ImageBase + a)}
        ELSE UNION {Follow(files, place) : place \in Hop[n - 1]}
  IN  Hop

Traced(a) ==
  LET found == {place \in Chase(root, fs, a)[MaxHops] : place.vmaddr \in place.object.debug}
  IN  IF found = {} THEN NoInfo
      ELSE LET place == CHOOSE p \in found : TRUE
           IN  [id |-> place.object.id, vmaddr |-> place.vmaddr]

\* Every chain of references has come to its end.
ChainsEnd(o, files) ==
  \A a \in Addresses : \A place \in Chase(o, files, a)[MaxHops] :
    FunctionAt(place.object.funs, place.vmaddr) = 0

\* Two functions of one name in one object, or two objects of one name.
HasSharedEntries(o) ==
  \/ \E f, g \in DOMAIN o.funs : f # g /\ SharesEntry(o.funs[f], o.funs[g])
  \/ \E k, l \in DOMAIN o.objects :
       k # l /\ o.objects[k].path = o.objects[l].path /\ o.objects[k].member = o.objects[l].member
CanBeLost(a) ==
  \E n \in 0 .. MaxHops : \E place \in Chase(root, fs, a)[n] : HasSharedEntries(place.object)

\* A place from which the query cannot go on: the debug info there, the name of the object that
\* it leads to, or what is under this name cannot be read.
IsObstacle(files, place) ==
  LET o == place.object
      f == FunctionAt(o.funs, place.vmaddr)
      index == o.funs[f].object
      name == o.objects[index]
      file == files[name.path]
  IN  \/ f = 0 /\ o.cut
      \/ f # 0 /\ index \in o.garbled
      \/ f # 0 /\ name.member = NoMember /\ file.kind # "missing" /\ ~Parses(file)
      \/ f # 0 /\ name.member # NoMember /\ file.kind \in {"object", "garbage"}
      \/ /\ f # 0 /\ name.member # NoMember /\ file.kind = "archive"
         /\ \E target \in Target(files, name) : ~target.parses

-----------------------------------------------------------------------------
(* Properties *)

\* Where an address is, on its way to an object.
IsHeldBy(functions, a) ==
  {n \in DOMAIN functions : \E x \in functions[n] : x.original_relative_address = a}

InQueue(a) ==
  UNION {UNION {{<<k, m, n>> : n \in IsHeldBy(queue[k].members[m], a)} :
                  m \in DOMAIN queue[k].members} : k \in DOMAIN queue}
InPending(a) ==
  UNION {{<<k, n>> : n \in IsHeldBy(pending[k].functions, a)} : k \in DOMAIN pending}

\* An address takes one way: it is never looked for in two objects, and never
\* again once its debug info was found.  Otherwise what is found last would
\* depend on the order of the HashMaps.
AddressesTakeOneWay ==
  \A a \in Addresses :
    Cardinality(InQueue(a)) + Cardinality(InPending(a)) <= IF info[a] = NoInfo THEN 1 ELSE 0

\* Whatever the order in which references are followed and whichever files
\* are missing, the debug info of an address is that of the function that it
\* is in, at its offset, in the object at the end of its chain of references.
\* It can be missing only where the chain leads through an object in whose map two
\* functions, both in one object, or two of these objects share a name.
DebugInfoIsTraced ==
  status = "ok" =>
    \A a \in Addresses :
      \/ info[a] = Traced(a)
      \/ info[a] = NoInfo /\ CanBeLost(a)

\* One bad object ends the whole query, but only one that an address leads to: a file that is
\* missing, the other members of an archive and other functions' objects never do.
OnlyObstaclesEndIt ==
  status \in {"err", "panic"} =>
    \E a \in Addresses, n \in 0 .. MaxHops :
      \E place \in Chase(root, fs, a)[n] : IsObstacle(fs, place)

\* The traversal ends, if no chain of references comes back to an object.
Termination == <>(status \in {"ok", "err", "panic"})
=============================================================================
