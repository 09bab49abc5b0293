----------------------------- MODULE FileBytes -----------------------------
(***************************************************************************)
(* The vocabulary shared by the contract of the trait FileContents and by  *)
(* its chunked implementation: the file, the calls and their answers.      *)
(***************************************************************************)
EXTENDS Integers

CONSTANTS
  FileLen,      \* len(): the number of bytes of the file
  MaxStrLen,    \* the longest string, its delimiter included
  MaxU64,       \* the largest offset a caller can name
  Bytes,        \* the values of a byte
  Delims,       \* the delimiters that callers search for
  Content,      \* the file: Content[i] is the byte at offset i
  NoDelim       \* in the calls that take no delimiter

ASSUME FileAssumption ==
  /\ FileLen \in Nat
  /\ MaxStrLen \in Nat \ {0}
  /\ MaxU64 \in Nat
  /\ Content \in [0 .. FileLen - 1 -> Bytes]
  /\ Delims \subseteq Bytes
  /\ NoDelim \notin Bytes

U64 == 0 .. MaxU64
Ops == {"none", "read_bytes_at", "read_bytes_at_until", "read_bytes_into"}
Statuses == {"ok", "invalid_input", "no_delimiter", "source_error", "panic"}

\* The bytes of the file in start .. end - 1, indexed from 0 as a slice is.
FileBytes(start, end) == [k \in 0 .. end - start - 1 |-> Content[start + k]]

\* The string at `start` that the first `delim` at or after it ends, when it
\* is short enough to be returned.
IsStringAt(start, delim, len) ==
  /\ len \in 0 .. MaxStrLen - 1
  /\ start + len < FileLen
  /\ Content[start + len] = delim
  /\ \A k \in 0 .. len - 1 : Content[start + k] # delim

NoBytes == [k \in 0 .. -1 |-> Content[k]]
Ok(bytes) == [status |-> "ok", bytes |-> bytes]
Fail(status) == [status |-> status, bytes |-> NoBytes]
Called(op, start, end, delim) ==
  [op |-> op, start |-> start, end |-> end, delim |-> delim]
=============================================================================
