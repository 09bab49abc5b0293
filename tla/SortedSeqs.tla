----------------------------- MODULE SortedSeqs -----------------------------
(***************************************************************************)
(* What sorting and filtering make of a list.                              *)
(***************************************************************************)
EXTENDS Integers, Sequences, FiniteSets

\* The numbers of a finite set, ascending: the k-th has k of them up to it.
Rank(S, n) == Cardinality({m \in S : m <= n})
Ascending(S) == [k \in 1 .. Cardinality(S) |-> CHOOSE n \in S : Rank(S, n) = k]

\* The elements of a list at some of its places, in their order.
Picked(s, places) ==
  LET order == Ascending(places) IN [k \in DOMAIN order |-> s[order[k]]]
\* A stable sort: an element comes before the larger ones and the later ones of its size.
Place(s, k) == Cardinality({l \in DOMAIN s : s[l] < s[k] \/ (s[l] = s[k] /\ l <= k)})
Sorted(s) == [n \in DOMAIN s |-> s[CHOOSE k \in DOMAIN s : Place(s, k) = n]]

\* Without the elements that are equal to the one before them.
Dedup(s) == Picked(s, {k \in DOMAIN s : k = 1 \/ s[k - 1] # s[k]})

\* The sum of the first n of a list of numbers.
SumTo(s, n) ==
  LET Sum[k \in 0 .. n] == IF k = 0 THEN 0 ELSE Sum[k - 1] + s[k] IN Sum[n]
=============================================================================
