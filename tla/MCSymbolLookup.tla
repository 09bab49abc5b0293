--------------------------- MODULE MCSymbolLookup ---------------------------
(***************************************************************************)
(* Objects with up to two symbols, a dynamic symbol, an export, a function *)
(* start, a function end and a text section, anywhere in a small address   *)
(* space that wraps.  Names are sequences of bytes, those above 99.        *)
(***************************************************************************)
EXTENDS SymbolLookup

CONSTANTS MaxAddress, Bases

P == <<100>>
Q == <<101, 102>>
Bad == << >>
Opt(S) == {<< >>} \cup {<<x>> : x \in S}
Symbol(address, name) == [address |-> address, name |-> name]
Section(address, size) == [address |-> address, size |-> size]
At == 0 .. MaxAddress

SymbolLists ==
  Opt({Symbol(a, n) : a \in At, n \in {P, Bad}})
  \cup {<<Symbol(a, P), Symbol(b, n)>> : a \in At, b \in At, n \in {Q, Bad}}

MCObjects ==
  {[base |-> base, symbols |-> symbols, dynamic |-> dynamic, exports |-> exports,
    sections |-> sections, starts |-> starts, ends |-> ends] :
     base \in Bases,
     symbols \in SymbolLists,
     dynamic \in {<< >>, <<Symbol(2, Q)>>},
     exports \in {<< >>, <<Symbol(1, Q)>>},
     sections \in Opt({Section(1, 2), Section(0, MaxAddress), Section(3, U64Size - 2)}),
     starts \in Opt({0, 2}),
     ends \in Opt({3})}

MCLookups == [k \in 1 .. U32Size |-> k - 1]
=============================================================================
