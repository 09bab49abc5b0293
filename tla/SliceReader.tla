------------------------------ MODULE SliceReader ------------------------------
(***************************************************************************)
(* What gimli expects of a Reader, as its EndianSlice keeps it: a reader   *)
(* is the rest of the bytes of a section, every operation takes one step,  *)
(* and an answer is about these bytes only.                                *)
(***************************************************************************)
EXTENDS Integers, Sequences, SequencesExt

CONSTANTS
  FileLen,        \* where the bytes that can be read end
  Delims,         \* the bytes that are searched for
  MaxCount        \* bounds the counts that are asked for

VARIABLES
  pieces,         \* the readers: the rest of a section, and where it is
  asked,          \* the last operation: [op, reader, n]
  answer          \* its answer: [status, num, bytes]

vars == <<pieces, asked, answer>>

Asked(op, i, n) == [op |-> op, reader |-> i, n |-> n]
Answer(status, num, bytes) == [status |-> status, num |-> num, bytes |-> bytes]
Num(n) == Answer("ok", n, << >>)
Got(bytes) == Answer("ok", 0, bytes)
Unit == Num(0)
Eof == Answer("eof", 0, << >>)
Io == Answer("io", 0, << >>)

Init == pieces = << >> /\ asked = Asked("none", 0, 0) /\ answer = Unit

Rest(i) == pieces[i].rest
At(i) == pieces[i].at
Piece(at, rest) == [at |-> at, rest |-> rest]
From(i, n) == Piece(At(i) + n, SubSeq(Rest(i), n + 1, Len(Rest(i))))
Upto(i, n) == Piece(At(i), SubSeq(Rest(i), 1, n))
\* The next n bytes of a reader go on behind the end of the file.
Cut(i, n) == At(i) + n > FileLen

Ask(op, i, n) == asked' = Asked(op, i, n)
Become(new) == pieces' = new /\ answer' = Unit
Tell(result) == answer' = result /\ UNCHANGED pieces

\* Any readers, one for each section.
Open == pieces = << >> /\ UNCHANGED <<asked, answer>>

\* The index of the first byte of its kind.
Find(i, byte) ==
  /\ Ask("find", i, byte)
  /\ LET hit == SelectInSeq(Rest(i), LAMBDA b : b = byte) IN
     \/ hit # 0 /\ Tell(Num(hit - 1))
     \/ hit = 0 /\ (Cut(i, Len(Rest(i))) => Rest(i) = << >>) /\ Tell(Eof)
     \/ Cut(i, Len(Rest(i))) /\ Tell(Io)

\* For the operations that take n bytes: nothing is taken if there are less.
Short(i, n) == n > Len(Rest(i)) /\ Tell(Eof)
Enough(i, n) == n <= Len(Rest(i))

Skip(i, n) ==
  /\ Ask("skip", i, n)
  /\ Short(i, n) \/ (Enough(i, n) /\ Become([pieces EXCEPT ![i] = From(i, n)]))

Truncate(i, n) ==
  /\ Ask("truncate", i, n)
  /\ Short(i, n) \/ (Enough(i, n) /\ Become([pieces EXCEPT ![i] = Upto(i, n)]))

Empty(i) == Ask("empty", i, 0) /\ Become([pieces EXCEPT ![i] = Upto(i, 0)])

\* The first part goes to a reader of its own.
Split(i, n) ==
  /\ Ask("split", i, n)
  /\ \/ Short(i, n)
     \/ Enough(i, n) /\ Become(Append([pieces EXCEPT ![i] = From(i, n)], Upto(i, n)))

ReadSlice(i, n) ==
  /\ Ask("read_slice", i, n)
  /\ \/ Short(i, n)
     \/ /\ Enough(i, n) /\ ~Cut(i, n)
        /\ pieces' = [pieces EXCEPT ![i] = From(i, n)]
        /\ answer' = Got(SubSeq(Rest(i), 1, n))
     \/ Enough(i, n) /\ Cut(i, n) /\ Tell(Io)

ToSlice(i) ==
  /\ Ask("to_slice", i, 0)
  /\ Tell(IF Cut(i, Len(Rest(i))) THEN Io ELSE Got(Rest(i)))

OffsetFrom(i, j) ==
  /\ Ask("offset_from", i, j)
  /\ At(j) <= At(i) /\ Tell(Num(At(i) - At(j)))

\* The offset of another reader, if it starts in this one or at its end.
LookupOffsetId(i, j) ==
  /\ Ask("lookup_offset_id", i, j)
  /\ Tell(IF At(j) - At(i) \in 0 .. Len(Rest(i)) THEN Num(At(j) - At(i)) ELSE Eof)

Next ==
  \/ Open
  \/ \E i \in DOMAIN pieces :
       \/ \E byte \in Delims : Find(i, byte)
       \/ \E n \in 0 .. MaxCount : Skip(i, n) \/ Truncate(i, n) \/ Split(i, n) \/ ReadSlice(i, n)
       \/ Empty(i) \/ ToSlice(i)
       \/ \E j \in DOMAIN pieces : OffsetFrom(i, j) \/ LookupOffsetId(i, j)

Spec == Init /\ [][Next]_vars
================================================================================
