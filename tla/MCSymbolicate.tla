---------------------------- MODULE MCSymbolicate ----------------------------
(***************************************************************************)
(* Two libraries and a third whose breakpad id cannot be parsed; requests  *)
(* of up to two jobs of up to two frames, over four memory maps.           *)
(***************************************************************************)
EXTENDS Symbolicate

Lib(name, id) == [debug_name |-> <<name>>, breakpad_id |-> <<id>>]
A == Lib("a", "1")
B == Lib("a", "2")
Bad == Lib("b", "x")
MCValidIds == {<<"1">>, <<"2">>}

Frame(i, address) == [module_index |-> i, address |-> address]
Job(memory, stacks) == [memory_map |-> memory, stacks |-> stacks]

\* A library twice in one map, two libraries in different places, an id that is not valid, and
\* a frame beyond the map.
FirstJobs == {Job(<<A, A>>, <<<<Frame(i, 7), Frame(1, address)>>>>) : i \in 0..2, address \in {5, 7}}
SecondJobs ==
  {Job(memory, <<<<Frame(0, 7)>>, <<Frame(1, 5), Frame(0, 5)>>>>) :
     memory \in {<<B, A>>, <<A, Bad>>, <<A>>}}

MCRequests ==
  [jobs : {<<j>> : j \in FirstJobs \cup SecondJobs}
          \cup {<<j, k>> : j \in FirstJobs, k \in SecondJobs},
   with_debug_info : BOOLEAN]

Sym(address) == {[address |-> address, name |-> <<"sym", address>>]}
Function(names) == [function |-> names]
Outer == Function({<<"fun", 1>>})
Nameless == Function({})

Inlined(address) == <<Function({<<"inlined", address>>}), Outer>>
MCKnownAt(address) ==
  LET near == Sym(address - (address % 4))
      knows(symbol, frames) == [symbol |-> symbol, frames |-> frames]
  IN  {knows({}, {}), knows(near, {<< >>}), knows({}, {<<Nameless>>}),
       knows(near, {<<Nameless>>}), knows(near, {Inlined(address)})}
=============================================================================
