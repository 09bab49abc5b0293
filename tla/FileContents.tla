---------------------------- MODULE FileContents ----------------------------
(***************************************************************************)
(* What an implementation of the trait FileContents (lib/src/shared.rs)    *)
(* promises to the parsers that read a file through it: one call at a      *)
(* time, answered with the exact bytes of the file or with an error.       *)
(* There are no buffers here.  The only memory is the set `known` of the   *)
(* strings that were found once: they are found again whatever happens.    *)
(***************************************************************************)
EXTENDS FileBytes

VARIABLES
  call,         \* the last call: [op, start, end, delim]
  reply,        \* its answer: [status, bytes]
  known         \* the <<start, delim>> whose string was returned

fcVars == <<call, reply, known>>

Panicked == reply.status = "panic"

Init ==
  /\ call = Called("none", 0, 0, NoDelim)
  /\ reply = Fail("ok")
  /\ known = {}

(***************************************************************************)
(* A range inside the file is answered with its bytes, or with the         *)
(* source's error; one that leaves the file with an error, except that     *)
(* nothing is readable anywhere.                                           *)
(***************************************************************************)
ReadBytesAt(offset, size) ==
  /\ ~Panicked
  /\ call' = Called("read_bytes_at", offset, offset + size, NoDelim)
  /\ \/ size = 0 /\ reply' = Fail("ok")
     \/ size # 0 /\ offset + size > FileLen /\ reply' = Fail("invalid_input")
     \/ size # 0 /\ offset + size <= FileLen
        /\ reply' \in {Ok(FileBytes(offset, offset + size)), Fail("source_error")}
  /\ UNCHANGED known

(***************************************************************************)
(* A string once returned is returned to every later call with the same    *)
(* start and delimiter whose range is in the file.  A string not returned  *)
(* yet may be found, not be found, or not be readable; asking for one in   *)
(* an empty range stops the program.                                       *)
(***************************************************************************)
ReadBytesAtUntil(start, end, delim) ==
  /\ ~Panicked
  /\ call' = Called("read_bytes_at_until", start, end, delim)
  /\ \/ /\ end < start \/ end > FileLen
        /\ reply' = Fail("invalid_input")
        /\ UNCHANGED known
     \/ /\ start <= end /\ end <= FileLen
        /\ <<start, delim>> \in known \/ start < end
        /\ \E len \in 0 .. MaxStrLen - 1 :
             /\ IsStringAt(start, delim, len)
             /\ <<start, delim>> \in known \/ start + len < end
             /\ reply' = Ok(FileBytes(start, start + len))
        /\ known' = known \cup {<<start, delim>>}
     \/ /\ start < end /\ end <= FileLen
        /\ <<start, delim>> \notin known
        /\ \/ reply' = Fail("source_error")
           \/ /\ reply' = Fail("no_delimiter")
              /\ \A len \in 0 .. MaxStrLen - 1 :
                   IsStringAt(start, delim, len) => start + len >= end
        /\ UNCHANGED known
     \/ /\ start = end /\ end <= FileLen
        /\ <<start, delim>> \notin known
        /\ reply' = Fail("panic")
        /\ UNCHANGED known

ReadBytesInto(offset, size) ==
  /\ ~Panicked
  /\ call' = Called("read_bytes_into", offset, offset + size, NoDelim)
  /\ \/ offset + size <= FileLen /\ reply' = Ok(FileBytes(offset, offset + size))
     \/ reply' = Fail("source_error")
  /\ UNCHANGED known

Next ==
  \/ \E offset, size \in U64 :
       ReadBytesAt(offset, size) \/ ReadBytesInto(offset, size)
  \/ \E start, end \in U64, delim \in Delims : ReadBytesAtUntil(start, end, delim)

Spec == Init /\ [][Next]_fcVars
=============================================================================
