------------------------------ MODULE MatchFuns ------------------------------
(***************************************************************************)
(* match_funs_to_addresses (lib/src/macho.rs): one pass over two sorted    *)
(* lists, the functions of an object map and the addresses to look up.     *)
(* One action per iteration of its loops.                                  *)
(***************************************************************************)
EXTENDS AddressMatching, Sequences, FiniteSets

CONSTANTS
  FunLists,       \* the lists of functions, sorted by address
  PairLists       \* the lists of address pairs, sorted by vmaddr_in_this_object

IsSortedBy(list, key(_)) ==
  \A a, b \in DOMAIN list : a < b => key(list[a]) <= key(list[b])

RangeOf(list) == {list[k] : k \in DOMAIN list}
IsList(list) == list \in Seq(RangeOf(list))

ASSUME MatchAssumption ==
  /\ \A funs \in FunLists :
       /\ IsList(funs)
       /\ \A f \in DOMAIN funs : funs[f].address \in Nat /\ funs[f].size \in Nat
       /\ IsSortedBy(funs, LAMBDA fun : fun.address)
  /\ \A pairs \in PairLists :
       /\ IsList(pairs)
       /\ \A p \in DOMAIN pairs : pairs[p].vmaddr_in_this_object \in Nat
       /\ IsSortedBy(pairs, LAMBDA pair : pair.vmaddr_in_this_object)
       /\ \A p, q \in DOMAIN pairs :
            pairs[p].original_relative_address = pairs[q].original_relative_address
              => p = q

VARIABLES
  funs, pairs,          \* function_symbols and addresses
  cur_addr, cur_fun,    \* the next of each, Len + 1 when there is none
  cur_fun_addresses,    \* what was collected for cur_fun
  external_funs,        \* the result: entries [object, name, addresses]
  internal_addresses,   \* the result: pairs that are in no function
  pc

lists == <<funs, pairs>>
vars == <<funs, pairs, cur_addr, cur_fun, cur_fun_addresses, external_funs,
          internal_addresses, pc>>

HasAddr == cur_addr <= Len(pairs)
HasFun == cur_fun <= Len(funs)
Vmaddr == pairs[cur_addr].vmaddr_in_this_object

Init ==
  /\ funs \in FunLists /\ pairs \in PairLists
  /\ cur_addr = 1 /\ cur_fun = 1
  /\ cur_fun_addresses = << >>
  /\ external_funs = {} /\ internal_addresses = << >>
  /\ pc = "match"

\* FunctionsWithAddresses::insert: an entry of the same name is replaced.
InsertFunction(fun, addresses) ==
  external_funs' = {e \in external_funs : ~SharesEntry(e, fun)}
                   \cup {[object |-> fun.object, name |-> fun.name, addresses |-> addresses]}

FlushCurFun(fun) ==
  IF cur_fun_addresses = << >> THEN UNCHANGED external_funs
  ELSE InsertFunction(fun, cur_fun_addresses)

\* The address is before the function: it is in none.
KeepInternal ==
  /\ pc = "match" /\ HasAddr /\ HasFun
  /\ funs[cur_fun].address > Vmaddr
  /\ internal_addresses' = Append(internal_addresses, pairs[cur_addr])
  /\ cur_addr' = cur_addr + 1
  /\ UNCHANGED <<lists, cur_fun, cur_fun_addresses, external_funs, pc>>

\* Variations: a function is left at its last address, or keeps its addresses.
AdvanceTooEarly ==
  /\ pc = "match" /\ HasAddr /\ HasFun
  /\ Vmaddr + 1 >= funs[cur_fun].address + funs[cur_fun].size
  /\ FlushCurFun(funs[cur_fun])
  /\ cur_fun' = cur_fun + 1 /\ cur_fun_addresses' = << >>
  /\ UNCHANGED <<lists, cur_addr, internal_addresses, pc>>
AdvanceWithoutReset ==
  /\ pc = "match" /\ HasAddr /\ HasFun
  /\ Vmaddr >= funs[cur_fun].address + funs[cur_fun].size
  /\ FlushCurFun(funs[cur_fun])
  /\ cur_fun' = cur_fun + 1
  /\ UNCHANGED <<lists, cur_addr, cur_fun_addresses, internal_addresses, pc>>
\* The address is behind the function: the function has all its addresses.
AdvanceFun ==
  /\ pc = "match" /\ HasAddr /\ HasFun
  /\ funs[cur_fun].address <= Vmaddr
  /\ Vmaddr >= funs[cur_fun].address + funs[cur_fun].size
  /\ FlushCurFun(funs[cur_fun])
  /\ cur_fun' = cur_fun + 1 /\ cur_fun_addresses' = << >>
  /\ UNCHANGED <<lists, cur_addr, internal_addresses, pc>>

CollectAddress ==
  /\ pc = "match" /\ HasAddr /\ HasFun
  /\ Covers(funs[cur_fun], Vmaddr)
  /\ cur_fun_addresses' = Append(cur_fun_addresses, InFunction(funs[cur_fun], pairs[cur_addr]))
  /\ cur_addr' = cur_addr + 1
  /\ UNCHANGED <<lists, cur_fun, external_funs, internal_addresses, pc>>

FlushFinalFun ==
  /\ pc = "match" /\ ~(HasAddr /\ HasFun)
  /\ IF HasFun THEN FlushCurFun(funs[cur_fun]) ELSE UNCHANGED external_funs
  /\ cur_fun_addresses' = << >>
  /\ pc' = "rest"
  /\ UNCHANGED <<lists, cur_addr, cur_fun, internal_addresses>>

KeepRest ==
  /\ pc = "rest" /\ HasAddr
  /\ internal_addresses' = Append(internal_addresses, pairs[cur_addr])
  /\ cur_addr' = cur_addr + 1
  /\ UNCHANGED <<lists, cur_fun, cur_fun_addresses, external_funs, pc>>

Return ==
  /\ pc = "rest" /\ ~HasAddr
  /\ pc' = "done"
  /\ UNCHANGED <<lists, cur_addr, cur_fun, cur_fun_addresses, external_funs,
                 internal_addresses>>

Done == pc = "done" /\ UNCHANGED vars

Next ==
  \/ KeepInternal \/ AdvanceFun \/ CollectAddress \/ FlushFinalFun \/ KeepRest \/ Return
  \/ Done

Spec == Init /\ [][Next]_vars

-----------------------------------------------------------------------------
Originals(list) == {list[k].original_relative_address : k \in DOMAIN list}
AllPairs == RangeOf(pairs)

\* At any time of the pass every function has what it will ever have, once it
\* was passed, and every address that was passed is assigned: the pass never
\* has to look back at a function or an address, although functions may
\* overlap, have no size, or start at the same address.
NeverLooksBack ==
  /\ \A f \in 1 .. cur_fun - 1, p \in cur_addr .. Len(pairs) :
       ~Covers(funs[f], pairs[p].vmaddr_in_this_object)
  /\ \A p \in 1 .. cur_addr - 1 :
       FunctionAt(funs, pairs[p].vmaddr_in_this_object) <= cur_fun

\* What is returned is what the doc says: an address is internal exactly when
\* no function covers it, and they stay sorted; each entry has the addresses
\* of its function, and there is none without addresses.
MatchesAsDocumented ==
  pc = "done" =>
    /\ RangeOf(internal_addresses) = InternalPairs(funs, AllPairs)
    /\ {<<e.object, e.name>> : e \in external_funs} =
         UNION {{<<o, n>> : n \in DOMAIN FunctionsOf(funs, AllPairs, o)} :
                  o \in ObjectsWithAddresses(funs, AllPairs)}
    /\ IsSortedBy(internal_addresses, LAMBDA pair : pair.vmaddr_in_this_object)
    /\ \A e \in external_funs :
         /\ e.addresses # << >>
         /\ RangeOf(e.addresses) = FunctionsOf(funs, AllPairs, e.object)[e.name]

\* "Assign each address to a function in an object" or keep it (macho.rs:457):
\* no address gets lost.
EveryAddressIsAssigned ==
  pc = "done" =>
    Originals(pairs) = Originals(internal_addresses)
                       \cup UNION {Originals(e.addresses) : e \in external_funs}
=============================================================================
