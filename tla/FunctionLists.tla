----------------------------- MODULE FunctionLists -----------------------------
(***************************************************************************)
(* Where the functions of a file start and end, by its format: the lists   *)
(* that SymbolLookup takes.  A Mach-O file has the deltas of FunctionStarts*)
(* and then its __unwind_info (lib/src/macho.rs), an ELF file the entries  *)
(* of .eh_frame (lib/src/elf.rs), a PE file the words of .pdata            *)
(* (lib/src/windows.rs).                                                   *)
(***************************************************************************)
EXTENDS FunctionStarts

CONSTANTS
  UnwindInfos,      \* the starts that __unwind_info may list
  EhFrames,         \* the entries that .eh_frame may have (see EntryFields)
  Pdatas,           \* the words that .pdata may have
  Bases             \* what relative_address_base() may be for an ELF file

VARIABLES
  format,           \* of the file
  base,             \* its relative_address_base()
  entries,          \* of its unwind section
  at,               \* the entry to be read next
  cur_cie,          \* the CIE that was parsed last: {} or {[offset, bias]}
  function_ends

(***************************************************************************)
(* kind "cie"  a CIE; bias stands for how it encodes addresses             *)
(*      "fde"  an FDE: the offset of its CIE, its address as encoded, its  *)
(*             length, and whether it can be parsed                        *)
(*      "bad"  bytes at which the iterator fails                           *)
(* The offset of an entry is its index.                                    *)
(***************************************************************************)
EntryFields ==
  [kind : {"cie", "fde", "bad"}, bias : Nat, cie : Nat, initial : Nat, len : Nat, ok : BOOLEAN]

ASSUME ListsAssumption ==
  /\ \A frame \in EhFrames : frame \in Seq(EntryFields)
  /\ \A list \in UnwindInfos \cup Pdatas : list \in Seq(Nat)
  /\ Bases \subseteq 0 .. Word - 1

inputs == <<data, format, base, entries>>
decoder == <<pos, result, shift, prev_address>>
listVars == <<inputs, decoder, function_starts, state, at, cur_cie, function_ends>>

ListsInit ==
  /\ at = 1 /\ cur_cie = {} /\ function_ends = << >>
  /\ \/ /\ format = "macho" /\ base = 0 /\ entries \in UnwindInfos
        /\ StartsInit
     \/ /\ format = "elf" /\ base \in Bases /\ entries \in EhFrames
        /\ InitWith(<< >>)
     \/ /\ format = "pe" /\ base = 0 /\ entries \in Pdatas
        /\ InitWith(<< >>)

U32(address) == address % AddressSize
Entry == entries[at]
HasEntry(kind) == state = "read" /\ at <= Len(entries) /\ Entry.kind = kind

\* get_symbolication_result_from_macho_object: what __unwind_info lists comes
\* behind the decoded starts, in the same list.
DecodeStarts ==
  /\ format = "macho" /\ Step
  /\ UNCHANGED <<format, base, entries, at, cur_cie, function_ends>>

AddUnwindInfo ==
  /\ format = "macho" /\ state \in {"done", "unwind"} /\ at <= Len(entries)
  /\ function_starts' = Append(function_starts, Entry)
  /\ state' = "unwind" /\ at' = at + 1
  /\ UNCHANGED <<inputs, decoder, cur_cie, function_ends>>

-----------------------------------------------------------------------------
(* function_start_and_end_addresses of elf.rs *)

Cie(offset) == [offset |-> offset, bias |-> entries[offset].bias]
IsCie(offset) == offset \in DOMAIN entries /\ entries[offset].kind = "cie"

\* Variation: the last CIE is taken to be the CIE of the next FDE.
LastCie(offset) ==
  IF cur_cie # {} THEN cur_cie ELSE IF IsCie(offset) THEN {Cie(offset)} ELSE {}
\* The last CIE, if it is the one, or the one that is parsed at the offset.
CieAt(offset) ==
  IF \E cie \in cur_cie : cie.offset = offset THEN cur_cie
  ELSE IF IsCie(offset) THEN {Cie(offset)} ELSE {}

ReadCie ==
  /\ format = "elf" /\ HasEntry("cie")
  /\ cur_cie' = {Cie(at)} /\ at' = at + 1
  /\ UNCHANGED <<inputs, decoder, function_starts, state, function_ends>>

InitialAddress(fde, cie) == (fde.initial + cie.bias) % Word

\* initial_address + len does not fit in a u64: some builds stop, others wrap.
EndOverflows(fde, cie) == InitialAddress(fde, cie) + fde.len >= Word

\* An FDE that cannot be parsed is skipped; the CIE that it named is kept.
ReadFde ==
  /\ format = "elf" /\ HasEntry("fde")
  /\ LET found == CieAt(Entry.cie) IN
     \/ /\ found = {} \/ ~Entry.ok
        /\ cur_cie' = (IF found = {} THEN cur_cie ELSE found)
        /\ at' = at + 1
        /\ UNCHANGED <<function_starts, function_ends, state>>
     \/ \E cie \in found :
        /\ Entry.ok
        /\ cur_cie' = found /\ at' = at + 1 /\ state' = state
        /\ function_starts' = Append(function_starts, U32(InitialAddress(Entry, cie)))
        /\ function_ends' = Append(function_ends, U32(InitialAddress(Entry, cie) + Entry.len))
     \/ \E cie \in found :
        /\ Entry.ok /\ EndOverflows(Entry, cie) /\ state' = "panicked"
        /\ UNCHANGED <<function_starts, function_ends, at, cur_cie>>
  /\ UNCHANGED <<inputs, decoder>>

\* The list is over, or the iterator fails and the rest is not read.
EndEhFrame ==
  /\ format = "elf" /\ state = "read"
  /\ (at > Len(entries)) \/ HasEntry("bad")
  /\ state' = "done"
  /\ UNCHANGED <<inputs, decoder, function_starts, at, cur_cie, function_ends>>

-----------------------------------------------------------------------------
(* function_start_and_end_addresses of windows.rs *)

\* An entry is a start, an end, and unwind info.  Variation: an entry of two.
EntryWordsOfTwo == 2
EntryWords == 3

ReadPdata ==
  /\ format = "pe" /\ state = "read" /\ at + EntryWords - 1 <= Len(entries)
  /\ function_starts' = Append(function_starts, entries[at])
  /\ function_ends' = Append(function_ends, entries[at + 1])
  /\ at' = at + EntryWords
  /\ UNCHANGED <<inputs, decoder, state, cur_cie>>

\* What is left is no whole entry.
EndPdata ==
  /\ format = "pe" /\ state = "read" /\ at + EntryWords - 1 > Len(entries)
  /\ state' = "done"
  /\ UNCHANGED <<inputs, decoder, function_starts, at, cur_cie, function_ends>>

-----------------------------------------------------------------------------
Listed ==
  \/ state = "panicked"
  \/ /\ state \in {"done", "unwind"}
     /\ format = "macho" => at > Len(entries)
ListsTerminated == Listed /\ UNCHANGED listVars

ListsNext ==
  \/ DecodeStarts \/ AddUnwindInfo \/ ReadCie \/ ReadFde \/ EndEhFrame
  \/ ReadPdata \/ EndPdata \/ ListsTerminated
ListsSpec == ListsInit /\ [][ListsNext]_listVars

(***************************************************************************)
(* Properties.                                                             *)
(***************************************************************************)
\* The deltas of a Mach-O file are summed as FunctionStarts says before __unwind_info is added.
DeltasAreSummed == format = "macho" => StartsAreRunningSums

\* The FDEs that were read and could be, each by its own CIE.
IsFde(k) == entries[k].kind = "fde" /\ entries[k].ok /\ IsCie(entries[k].cie)
ReadFdes == Picked(entries, {k \in 1 .. at - 1 : IsFde(k)})
Own(fde) == InitialAddress(fde, Cie(fde.cie))

\* Starts and ends stay in pairs, each of one function: in an ELF file every FDE that can be
\* parsed gives the addresses that its own CIE says, in whatever order CIEs and FDEs come and
\* whichever CIE was parsed last; in a PE file the third word of an entry is never an address.
BoundsAreOfOneFunction ==
  /\ format = "elf" =>
       /\ function_starts = [k \in DOMAIN ReadFdes |-> U32(Own(ReadFdes[k]))]
       /\ function_ends = [k \in DOMAIN ReadFdes |-> U32(Own(ReadFdes[k]) + ReadFdes[k].len)]
  /\ format = "pe" =>
       /\ Len(function_starts) = Len(function_ends)
       /\ state = "done" => Len(function_starts) = Len(entries) \div 3
       /\ \A k \in DOMAIN function_starts :
            /\ function_starts[k] = entries[3 * k - 2]
            /\ function_ends[k] = entries[3 * k - 1]

\* "Get a list of function addresses as u32 relative addresses" (elf.rs:100): relative to the
\* base that relative_address_base defines, as the addresses of symbols are.
StartsAreRelative ==
  format = "elf" =>
    \A k \in DOMAIN function_starts :
      function_starts[k] = U32(Own(ReadFdes[k]) + Word - base)
================================================================================
