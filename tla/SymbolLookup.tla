---------------------------- MODULE SymbolLookup ----------------------------
(***************************************************************************)
(* The two ways in which the symbols of an object file are given out: as a *)
(* CompactSymbolTable with all of them (object_to_map, lib/src/shared.rs,  *)
(* and from_full_map, lib/src/compact_symbol_table.rs), and address by     *)
(* address (get_symbolication_result_for_addresses_from_object).  They     *)
(* read the same object and are written separately.                        *)
(*                                                                         *)
(* A client asks for the table first, and then looks up its addresses.     *)
(* Addresses are u32 relative to a base; in the object they are u64.       *)
(***************************************************************************)
EXTENDS Integers, Sequences, FiniteSets, SequencesExt, SortedSeqs

CONSTANTS
  U32Size, U64Size,     \* one more than the largest u32 and u64
  Objects,              \* the objects that may be read (see ObjectFields)
  Lookups,              \* the addresses that the client looks up, sorted
  BadName               \* the name of a symbol that cannot be decoded

U32 == 0 .. U32Size - 1
U64 == 0 .. U64Size - 1
Symbols == Seq([address : U64, name : Seq(Nat)])

(***************************************************************************)
(* base              relative_address_base()                               *)
(* symbols, dynamic  its text symbols                                      *)
(* exports           of a PE file, likewise                                *)
(* sections          its text sections                                     *)
(* starts, ends      of functions, from .pdata or .eh_frame: relative      *)
(***************************************************************************)
ObjectFields ==
  [base : U64, symbols : Symbols, dynamic : Symbols, exports : Symbols,
   sections : Seq([address : U64, size : U64]), starts : Seq(U32), ends : Seq(U32)]

ASSUME LookupAssumption ==
  /\ U32Size \in Nat \ {0} /\ U64Size \in Nat /\ U64Size % U32Size = 0
  /\ \A o \in Objects : o \in ObjectFields
  /\ Lookups \in Seq(U32) /\ BadName \in Seq(Nat)

VARIABLES
  object,         \* the object
  table,          \* the CompactSymbolTable, or NoTable
  entries,        \* the entries that addresses are looked up in
  total,          \* set_total_symbol_count
  results,        \* address_results: the symbol of each address looked up
  next            \* the next of Lookups

vars == <<object, table, entries, total, results, next>>

NoTable == [addr |-> << >>, index |-> << >>, buffer |-> << >>]
NoSymbol == [address |-> -1, name |-> BadName, size |-> 0]

Init ==
  /\ object \in Objects
  /\ table = NoTable /\ entries = << >> /\ total = 0
  /\ results = [a \in ToSet(Lookups) |-> NoSymbol]
  /\ next = 0

\* (address - base) as u32, in a build without overflow checks
Relative(address) == (address - object.base) % U32Size

\* fun_<address>: one byte, that tells it from every other name.
Synthesized(address) == <<address>>

Named(address, name) == [address |-> address, name |-> name]

RelativeSymbols(symbols) ==
  [k \in DOMAIN symbols |-> Named(Relative(symbols[k].address), symbols[k].name)]
SynthesizedSymbols == [k \in DOMAIN object.starts |->
                         Named(object.starts[k], Synthesized(object.starts[k]))]

\* A stable sort by address, and of each address only the first entry.
FirstOfEachAddress(list) ==
  LET addresses == Ascending({list[k].address : k \in DOMAIN list})
  IN  [k \in DOMAIN addresses |->
         list[SelectInSeq(list, LAMBDA entry : entry.address = addresses[k])]]

-----------------------------------------------------------------------------
(* The table *)

Decoded(symbols) == Picked(symbols, {k \in DOMAIN symbols : symbols[k].name # BadName})
DecodedSymbols == Decoded(RelativeSymbols(object.dynamic \o object.symbols \o object.exports))

\* Variation: without the synthesized symbols.
FullMapOfSymbols == DecodedSymbols

\* object_to_map: worst first, without the names that cannot be decoded.
FullMap == SynthesizedSymbols \o DecodedSymbols

\* The buffer grows by one name at a time.
TableOf(symbols) ==
  LET Buffer(count) == FlattenSeq([k \in 1 .. count |-> symbols[k].name])
  IN  [addr |-> [k \in DOMAIN symbols |-> symbols[k].address],
       index |-> [k \in 1 .. Len(symbols) + 1 |-> Len(Buffer(k - 1)) % U32Size],
       buffer |-> Buffer(Len(symbols))]

\* Variation: the table has the last of each address, in this order.
MakeTableUnsorted(map) == TableOf(Reverse(FirstOfEachAddress(Reverse(map))))

\* CompactSymbolTable::from_full_map
MakeTable(map) == TableOf(FirstOfEachAddress(Reverse(map)))

GetTable ==
  /\ next = 0
  /\ table' = MakeTable(FullMap)
  /\ next' = 1
  /\ UNCHANGED <<object, entries, total, results>>

-----------------------------------------------------------------------------
(* The lookups *)

\* Where the text sections end, as far as a relative address can say.
TextEnds ==
  {object.sections[k].address + object.sections[k].size - object.base :
     k \in {s \in DOMAIN object.sections :
              object.sections[s].address + object.sections[s].size < U64Size}}
  \cap U32

EndEntries(ends) == [k \in DOMAIN ends |-> Named(ends[k], BadName)]

\* Variation: the ends of the text sections are left out.
AllEntriesButTextEnds ==
  RelativeSymbols(object.symbols \o object.dynamic \o object.exports)
  \o SynthesizedSymbols \o EndEntries(object.ends)

\* Best first.
AllEntries ==
  RelativeSymbols(object.symbols \o object.dynamic \o object.exports)
  \o SynthesizedSymbols \o EndEntries(Ascending(TextEnds)) \o EndEntries(object.ends)

CollectEntries ==
  /\ next = 1 /\ total = 0 /\ entries = << >>
  /\ entries' = FirstOfEachAddress(AllEntries)
  /\ total' = Len(entries') % U32Size
  /\ next' = 2
  /\ UNCHANGED <<object, table, results>>

\* binary_search_by_key: the entry at the address, or the last before it, or 0
EntryAt(address) == SelectLastInSeq(entries, LAMBDA entry : entry.address <= address)

\* Variation: the end of the function is given for its size.
SymbolUpTo(address) ==
  LET e == EntryAt(address)
  IN  IF e = 0 \/ e = Len(entries) \/ entries[e].name = BadName THEN NoSymbol
      ELSE [address |-> entries[e].address, name |-> entries[e].name,
            size |-> entries[e + 1].address]

\* Nothing is found at the end of a function or of a section, for a name that
\* cannot be decoded, nor behind the last entry.
SymbolOf(address) ==
  LET e == EntryAt(address)
  IN  IF e = 0 \/ e = Len(entries) \/ entries[e].name = BadName THEN NoSymbol
      ELSE [address |-> entries[e].address, name |-> entries[e].name,
            size |-> entries[e + 1].address - entries[e].address]

LookUp ==
  /\ next > 1 /\ next - 1 <= Len(Lookups)
  /\ results' = [results EXCEPT ![Lookups[next - 1]] = SymbolOf(Lookups[next - 1])]
  /\ next' = next + 1
  /\ UNCHANGED <<object, table, entries, total>>

Done == next > Len(Lookups) + 1 /\ UNCHANGED vars

Next == GetTable \/ CollectEntries \/ LookUp \/ Done
Spec == Init /\ [][Next]_vars

-----------------------------------------------------------------------------
(* Properties *)

Found(a) == results[a] # NoSymbol

\* What a profiler does with the table: the last symbol at or before the address.
TableSymbol(a) == SelectLastInSeq(table.addr, LAMBDA address : address <= a)

NameInTable(k) == SubSeq(table.buffer, table.index[k] + 1, table.index[k + 1])

\* The table gives back the map: "the string for the address addrs[i] is
\* buffer[index[i] .. index[i + 1]]", every address of the map is in it once,
\* in order, and the string is the name that the map has last for it.
TableRoundTrips ==
  next > 0 =>
    /\ Len(table.index) = Len(table.addr) + 1
    /\ table.index[Len(table.index)] = Len(table.buffer)
    /\ \A k, l \in DOMAIN table.addr : k < l => table.addr[k] < table.addr[l]
    /\ ToSet(table.addr) = {symbol.address : symbol \in ToSet(FullMap)}
    /\ \A k \in DOMAIN table.addr :
         NameInTable(k) =
           FullMap[SelectLastInSeq(FullMap, LAMBDA s : s.address = table.addr[k])].name

SymbolNames(address) ==
  {symbol.name : symbol \in {s \in ToSet(DecodedSymbols) : s.address = address}}

\* The two ways agree on functions: a symbol that is found for an address
\* starts where the table says that the symbol of this address starts, and has
\* the name that the table has, unless the object has several symbols there.
\* Their names the two ways rank differently: a lookup answers with the first
\* of symbols, dynamic symbols and exports, the table has the last of dynamic
\* symbols, symbols and exports.
SameFunctionInTable ==
  \A a \in ToSet(Lookups) :
    Found(a) =>
      LET k == TableSymbol(a)
      IN  /\ k # 0 /\ table.addr[k] = results[a].address
          /\ \/ NameInTable(k) = results[a].name
             \/ {NameInTable(k), results[a].name} \subseteq SymbolNames(results[a].address)

\* An address behind the end of the last text section, or of a function that
\* no symbol follows, has no symbol: it is in the dead space.
DeadSpaceHasNoSymbol ==
  \A a \in ToSet(Lookups), end \in TextEnds \cup ToSet(object.ends) :
    Found(a) /\ end <= a => end <= results[a].address

\* The functions that are found hold the addresses that they were found for
\* and do not overlap: two addresses are in one function, with one name and
\* one size, or in functions apart.
FunctionsAreDisjoint ==
  \A a, b \in ToSet(Lookups) :
    /\ Found(a) => a - results[a].address \in 0 .. results[a].size - 1
    /\ Found(a) /\ Found(b) =>
         \/ results[a] = results[b]
         \/ results[a].address + results[a].size <= results[b].address
         \/ results[b].address + results[b].size <= results[a].address

=============================================================================
