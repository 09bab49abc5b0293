---------------------------- MODULE MCSectionReader ----------------------------
(***************************************************************************)
(* A file of three chunks of two bytes, the last of them not full, and an  *)
(* object at its start or behind a byte of an archive, with two sections:  *)
(* plain, compressed, broken, missing, or going on behind the end of the   *)
(* file.                                                                   *)
(***************************************************************************)
EXTENDS SectionReader

CONSTANT DelimAt
MCContent == [i \in 0 .. FileLen - 1 |-> IF i \in DelimAt THEN 0 ELSE i + 1]

MCSectionIds == <<"info", "str">>
Plain(offset, size) ==
  [found |-> "name", plain |-> TRUE, offset |-> offset, size |-> size, inflated |-> {}]
Whole == Plain(1, 1)
Others ==
  {Plain(2, 3),
   [Whole EXCEPT !.found = "none"],
   [Whole EXCEPT !.found = "zdebug", !.inflated = {<<3, 3>>}],
   [Whole EXCEPT !.plain = FALSE, !.inflated = {<<3>>}]}
MCObjects ==
  {[id \in {"info", "str"} |-> IF id = "info" THEN Whole ELSE other] : other \in Others}
================================================================================
