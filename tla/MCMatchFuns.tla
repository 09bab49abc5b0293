----------------------------- MODULE MCMatchFuns -----------------------------
(***************************************************************************)
(* Every sorted list of up to three functions, which may overlap, be empty *)
(* or share an address, and every sorted list of up to three addresses.    *)
(***************************************************************************)
EXTENDS MatchFuns

CONSTANTS MaxAddr, MaxSize, Names, Objects

Sorted(S, n, key(_)) == {s \in [1 .. n -> S] : IsSortedBy(s, key)}

Fun == [address : 0 .. MaxAddr, size : 0 .. MaxSize, name : Names, object : Objects]
SameEntry == LET any == CHOOSE f \in Fun : TRUE IN {f \in Fun : f.name = any.name /\ f.object = any.object}
MCFunLists == UNION {Sorted(Fun, n, LAMBDA f : f.address) : n \in 0 .. 2}
              \cup Sorted(SameEntry, 3, LAMBDA f : f.address)

MCPairLists ==
  UNION {{[k \in 1 .. n |-> Pair(k, s[k])] : s \in Sorted(0 .. MaxAddr + 1, n, LAMBDA a : a)} :
           n \in 0 .. 3}
=============================================================================
