---------------------------- MODULE FunctionStarts ----------------------------
(***************************************************************************)
(* MachOData::get_function_starts and read_uleb128 (lib/src/macho.rs): the *)
(* LC_FUNCTION_STARTS data is a list of deltas, each in bytes of seven   *)
(* bits and a continuation bit, lowest group first, with a zero at the     *)
(* end.  The data comes from a file and may be anything.  Shifts are       *)
(* counted in groups: shift = 63 of the code is shift = LastShift here.    *)
(***************************************************************************)
EXTENDS SortedSeqs

CONSTANTS
  Radix,            \* 2^7: the values of a byte without its continuation bit
  LastShift,        \* 9: the groups before the one of which one bit fits in a u64
  AddressSize,      \* 2^32: one more than the largest function start
  Lows,             \* the values of the low bits of the bytes of the data
  MaxBytes          \* bounds the length of the data

\* What a one in a group stands for, and one more than the largest u64.
Weight[group \in 0 .. LastShift] == IF group = 0 THEN 1 ELSE Radix * Weight[group - 1]
Word == 2 * Weight[LastShift]

ASSUME StartsAssumption ==
  /\ Radix \in Nat \ {0} /\ LastShift \in Nat
  /\ AddressSize \in Nat \ {0} /\ Word % AddressSize = 0
  /\ Lows \subseteq 0 .. Radix - 1 /\ MaxBytes \in Nat

Bytes == [low : Lows, more : BOOLEAN]

VARIABLES data, pos, result, shift, prev_address, function_starts, state

InitWith(bytes) ==
  /\ data = bytes
  /\ pos = 1 /\ result = 0 /\ shift = 0
  /\ prev_address = 0 /\ function_starts = <<>> /\ state = "read"

StartsInit == \E bytes \in UNION {[1 .. n -> Bytes] : n \in 0 .. MaxBytes} : InitWith(bytes)

Reading == state = "read" /\ pos <= Len(data)
Byte == data[pos]

\* At the last shift only a final byte 0 or 1 fits.  Variation: more bytes may follow it.
FitsIfFinal(byte) == shift = LastShift => byte.low \in {0, 1}
Fits(byte) == shift = LastShift => ~byte.more /\ byte.low \in {0, 1}

\* Variation: big-endian groups.
ShiftIn(low) == result * Radix + low
WithLowBits(low) == result + low * Weight[shift]

\* read_uleb128 returns None: the bytes end, or the number does not fit.
StopReading ==
  /\ state = "read"
  /\ pos <= Len(data) => ~Fits(Byte)
  /\ state' = "done"
  /\ UNCHANGED <<data, pos, result, shift, prev_address, function_starts>>

ReadMore ==
  /\ Reading /\ Fits(Byte) /\ Byte.more
  /\ result' = WithLowBits(Byte.low) /\ shift' = shift + 1 /\ pos' = pos + 1
  /\ UNCHANGED <<data, prev_address, function_starts, state>>

HasDelta == Reading /\ Fits(Byte) /\ ~Byte.more
Delta == WithLowBits(Byte.low)

ReadTerminator ==
  /\ HasDelta /\ Delta = 0
  /\ state' = "done" /\ pos' = pos + 1
  /\ UNCHANGED <<data, result, shift, prev_address, function_starts>>

\* What follows the addition, for the sum that the build computes.
Push(address) ==
  /\ function_starts' = Append(function_starts, address % AddressSize)
  /\ prev_address' = address /\ pos' = pos + 1
  /\ result' = 0 /\ shift' = 0
  /\ UNCHANGED <<data, state>>

Overflows == prev_address + Delta >= Word

\* Variation: the delta is the start.
PushDelta == HasDelta /\ Delta # 0 /\ ~Overflows /\ Push(Delta)
PushStart == HasDelta /\ Delta # 0 /\ ~Overflows /\ Push(prev_address + Delta)

\* prev_address + delta does not fit: a build with overflow checks stops, others wrap.
PushWrapped == HasDelta /\ Overflows /\ Push((prev_address + Delta) % Word)
Panic ==
  /\ HasDelta /\ Overflows
  /\ state' = "panicked"
  /\ UNCHANGED <<data, pos, result, shift, prev_address, function_starts>>

Step == StopReading \/ ReadMore \/ ReadTerminator \/ PushStart \/ PushWrapped \/ Panic
(***************************************************************************)
(* The format, as a reference: the numbers of the data.                    *)
(***************************************************************************)
IsFinal(i) == ~data[i].more
FinalBytes == {i \in DOMAIN data : IsFinal(i)}
\* The number of bytes of the number that ends at byte i, and its value.
Size(i) == CHOOSE n \in 1 .. i :
  /\ n = i \/ IsFinal(i - n)
  /\ \A j \in i - n + 1 .. i - 1 : ~IsFinal(j)
Value(i) ==
  SumTo([n \in 1 .. Size(i) |-> data[i - Size(i) + n].low * Weight[n - 1]], Size(i))
IsDelta(i) == Size(i) <= LastShift + 1 /\ Value(i) \in 1 .. Word - 1
\* The numbers before the first one that is zero or does not fit.
Deltas == {i \in FinalBytes : \A j \in FinalBytes : j <= i => IsDelta(j)}
\* The sum of the deltas up to byte i.
Total(i) == SumTo([n \in 1 .. i |-> IF n \in Deltas THEN Value(n) ELSE 0], i)

(***************************************************************************)
(* Properties.                                                             *)
(***************************************************************************)
\* No byte is shifted out of the word: read_uleb128 stops before its shift reaches the width of
\* u64, where the shift would be an overflow of its own, and before it loses a bit; and the bits
\* that it has are those of the groups it read.
ShiftFits ==
  /\ shift <= LastShift
  /\ state = "read" => result < Weight[shift]
  /\ Reading /\ Fits(Byte) => WithLowBits(Byte.low) < Word

\* Whatever the data, the starts are the running sums of its numbers up to the first that is
\* zero, too long or cut off; so data that is cut off gives a part of the starts of the whole.
StartsAreRunningSums ==
  state = "done" =>
    /\ Len(function_starts) = Cardinality(Deltas)
    /\ \A i \in Deltas : function_starts[Rank(Deltas, i)] = Total(i) % AddressSize

===============================================================================
