--------------------------- MODULE AddressMatching ---------------------------
(***************************************************************************)
(* The addresses that a query looks up, the functions in the object map of *)
(* a Mach-O file, and what match_funs_to_addresses (lib/src/macho.rs) says *)
(* it does with them: "Assign each address to a function in an object".    *)
(* MatchFuns is the loop that does it; ObjectTraversal relies on it.       *)
(***************************************************************************)
EXTENDS Integers

Pair(original, vmaddr) ==
  [original_relative_address |-> original, vmaddr_in_this_object |-> vmaddr]
WithOffset(original, offset) ==
  [original_relative_address |-> original, offset_from_function_start |-> offset]

Covers(fun, vmaddr) == fun.address <= vmaddr /\ vmaddr < fun.address + fun.size

\* The first of the functions that covers the address, or 0.
FunctionAt(funs, vmaddr) ==
  IF \E f \in DOMAIN funs : Covers(funs[f], vmaddr)
  THEN CHOOSE f \in DOMAIN funs :
         Covers(funs[f], vmaddr) /\ \A g \in 1 .. f - 1 : ~Covers(funs[g], vmaddr)
  ELSE 0

\* A pair in the function it was assigned to.
InFunction(fun, pair) ==
  WithOffset(pair.original_relative_address,
             pair.vmaddr_in_this_object - fun.address)

\* The addresses that stay in the object itself, of a set of pairs.
InternalPairs(funs, pairs) ==
  {p \in pairs : FunctionAt(funs, p.vmaddr_in_this_object) = 0}

\* The addresses that are assigned to function f.
AddressesUnder(funs, pairs, f) ==
  {InFunction(funs[f], p) :
     p \in {q \in pairs : FunctionAt(funs, q.vmaddr_in_this_object) = f}}

\* Functions of one name in one object share an entry of the result, and the
\* last of them that has addresses is the one whose addresses are in it.
SharesEntry(f, g) == f.object = g.object /\ f.name = g.name

KeepsItsEntry(funs, pairs, f) ==
  /\ AddressesUnder(funs, pairs, f) # {}
  /\ \A g \in DOMAIN funs :
       g > f /\ SharesEntry(funs[f], funs[g]) => AddressesUnder(funs, pairs, g) = {}

\* The result: the addresses of each function name, for an object.
FunctionsOf(funs, pairs, object) ==
  LET kept == {f \in DOMAIN funs : funs[f].object = object /\ KeepsItsEntry(funs, pairs, f)}
  IN  [name \in {funs[f].name : f \in kept} |->
         AddressesUnder(funs, pairs, CHOOSE f \in kept : funs[f].name = name)]

\* Variation: the objects of all functions, also of those that no address is in.
ObjectsOfFunctions(funs, pairs) == {funs[f].object : f \in DOMAIN funs}

ObjectsWithAddresses(funs, pairs) ==
  {funs[f].object : f \in {g \in DOMAIN funs : AddressesUnder(funs, pairs, g) # {}}}
=============================================================================
