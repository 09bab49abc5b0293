-------------------------- MODULE MCObjectTraversal --------------------------
(***************************************************************************)
(* A root object with up to two functions, which may overlap, in an object *)
(* file and in members of an archive; the object file may refer to a       *)
(* member of the archive in turn.                                          *)
(***************************************************************************)
EXTENDS ObjectTraversal

CONSTANTS Names, Garbage

Object(id, symbols, funs, objects, debug) ==
  [id |-> id, parses |-> TRUE, symbols |-> symbols, funs |-> funs,
   objects |-> objects, garbled |-> {}, debug |-> debug, cut |-> FALSE]
Cut(o) == [o EXCEPT !.cut = TRUE]
Garbled(o, indices) == [o EXCEPT !.garbled = indices]
Symbol(name, address) == [name |-> name, address |-> address]
Fun(address, size, name, object) ==
  [address |-> address, size |-> size, name |-> name, object |-> object]
Name(path, member) == [path |-> path, member |-> member]

X == Name("x.o", NoMember)
M == Name("lib.a", "m")
N == Name("lib.a", "n")

\* f and g, with debug info for their first bytes.
Leaf(id) == Object(id, <<Symbol("f", 20), Symbol("g", 10), Symbol("f", 0)>>, << >>, << >>, {10, 20, 21})
NoG(id) == Object(id, <<Symbol("f", 5)>>, << >>, << >>, {5, 6})
\* f is in the member m, g here.
Nested(id) ==
  Object(id, <<Symbol("g", 0), Symbol("f", 4)>>, <<Fun(4, 2, "f", 1)>>, <<M>>, {0, 1, 4})
Broken(id) == [Leaf(id) EXCEPT !.parses = FALSE]

File(o) == [kind |-> "object", object |-> o]
Archive(members) == [kind |-> "archive", members |-> members]
Member(name, o) == [name |-> name, object |-> o]
Other(kind) == [kind |-> kind]

XFiles == {Other("missing"), File(Leaf("x")), File(NoG("x")), File(Nested("x"))}
          \cup IF Garbage THEN {Other("garbage"), File(Broken("x")), Archive(<< >>),
                             File(Cut(Nested("x"))), File(Garbled(Nested("x"), {1}))} ELSE {}
Archives ==
  {Other("missing"), Archive(<<Member("m", Leaf("m")), Member("n", NoG("n"))>>),
   Archive(<<Member("m", NoG("old")), Member("m", Leaf("m"))>>)}
  \cup IF Garbage
       THEN {Other("garbage"), File(Leaf("m")), Archive(<<Member("m", Broken("m"))>>),
             Archive(<<Member("m", Leaf("m")), Member("n", Broken("n"))>>)}
       ELSE {}

MCPaths == {"x.o", "lib.a"}
MCFileSystems ==
  {[p \in MCPaths |-> IF p = "x.o" THEN x ELSE a] : x \in XFiles, a \in Archives}

\* The functions that may be at an address; Nothing: none.
Nothing == Fun(0, 0, "none", 0)
FunChoices == {Nothing} \cup {Fun(0, size, name, object) :
                                size \in {1, 2}, name \in Names, object \in 1 .. 3}

WholeRoots ==
  {Object("root", << >>,
          SelectSeq(<<[f EXCEPT !.address = ImageBase], [g EXCEPT !.address = ImageBase + 1]>>,
                    LAMBDA fun : fun.size > 0),
          objects, {ImageBase, ImageBase + 2}) :
     f \in FunChoices, g \in FunChoices, objects \in {<<X, M, N>>, <<X, M, M>>}}

\* ... some of them with a name that is not UTF-8, or cut off, but not so that every one of
\* the three addresses is affected.
MCRoots ==
  WholeRoots \cup IF Garbage
                 THEN {Garbled(r, {1}) : r \in WholeRoots} \cup {Cut(r) : r \in WholeRoots}
                 ELSE {}

\* No chain of references is longer than the properties look.
ASSUME ChainsAreShort == \A o \in Roots, files \in FileSystems : ChainsEnd(o, files)
=============================================================================
