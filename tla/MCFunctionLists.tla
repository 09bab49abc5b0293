---------------------------- MODULE MCFunctionLists ----------------------------
(***************************************************************************)
(* Bytes of two bits, words of five (so that, as in the code, three groups *)
(* are too many by one bit) and addresses of four, on every data of up to  *)
(* MaxBytes bytes: numbers that are padded, too long, cut off, or zero;    *)
(* sums that leave the address and the word.  Entries of .eh_frame in every  *)
(* order in which an FDE is behind its CIE, and words of .pdata.           *)
(***************************************************************************)
EXTENDS FunctionLists

CONSTANTS MaxEntries, KernelBase

\* A byte that ends a number, one that goes on, and both with every bit set.
MCLows == {0, 1, Radix - 1}
MCUnwindInfos == {<< >>, <<5, 2>>}

E(kind) == [kind |-> kind, bias |-> 0, cie |-> 0, initial |-> 0, len |-> 0, ok |-> TRUE]
Fde(cie, initial, len) == [E("fde") EXCEPT !.cie = cie, !.initial = initial, !.len = len]
MCEntries ==
  {E("bad"), E("cie"), [E("cie") EXCEPT !.bias = 3], [Fde(1, 1, 2) EXCEPT !.ok = FALSE],
   [Fde(2, 1, 2) EXCEPT !.ok = FALSE]}
  \cup {Fde(cie, 1, 2) : cie \in 0 .. 3} \cup {Fde(1, 30, 1), Fde(1, 28, 4)}
\* An FDE names its CIE by how far back it is.
PointsBack(frame) == \A k \in DOMAIN frame : frame[k].kind = "fde" => frame[k].cie < k
MCEhFrames ==
  UNION {{frame \in [1 .. n -> MCEntries] : PointsBack(frame)} : n \in 0 .. MaxEntries}

MCPdatas == {[k \in 1 .. n |-> 2 * k] : n \in 0 .. 8}

\* An object with base zero, and a kernel image, whose base is that of its .text section.
MCBases == {0, KernelBase}
================================================================================
