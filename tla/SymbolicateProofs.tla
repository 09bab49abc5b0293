-------------------------- MODULE SymbolicateProofs --------------------------
(***************************************************************************)
(* Theorems about the API entry /symbolicate/v5, for all requests,         *)
(* whatever the lookups find and wherever they fail.                       *)
(***************************************************************************)
EXTENDS Symbolicate, SortedSeqsProofs

JobCount == Len(request.jobs)
MapOf(n) == request.jobs[n].memory_map
StacksOf(n) == request.jobs[n].stacks
Frames(n) == FramesOf(request.jobs[n])
LibOf(n, frame) == MapOf(n)[frame.module_index + 1]

InMap(n, frame) == frame.module_index < Len(MapOf(n))
Gathered(n, frame) ==
  /\ InMap(n, frame) /\ LibOf(n, frame) \in DOMAIN requested
  /\ frame.address \in ToSet(requested[LibOf(n, frame)])
Pending(n, frame) ==
  /\ n = job /\ frame.module_index \in DOMAIN by_module
  /\ frame.address \in ToSet(by_module[frame.module_index])
Wrong == \E n \in 1 .. JobCount : \E frame \in Frames(n) : ~InMap(n, frame)

\* The frames of the jobs so far are gathered, but for those of the modules that are left.
GatherInv ==
  /\ request \in Requests /\ job \in 0 .. JobCount
  /\ \A i \in DOMAIN by_module : job # 0 /\ \E frame \in Frames(job) : frame.module_index = i
  /\ \A i \in DOMAIN by_module : by_module[i] \in Seq(Addresses)
  /\ \A lib \in DOMAIN requested : requested[lib] \in Seq(Addresses)
  /\ \A n \in 1 .. job : \A frame \in Frames(n) : Pending(n, frame) \/ Gathered(n, frame)

PhaseInv ==
  /\ outcome \in {"Gathering", "Refused", "LookingUp", "Answered"}
  /\ outcome \in {"Gathering", "Refused"} => known = Empty /\ DOMAIN symbolicated = {}
  /\ outcome \in {"LookingUp", "Answered"} => job = JobCount /\ DOMAIN by_module = {}
  /\ lookup # {} => outcome = "LookingUp"
  /\ outcome = "Refused" => Wrong

\* What the results of an address are made of: its symbol, and then its debug info.
HasDebugInfo(asked, here) == asked /\ \E frames \in here.frames : frames # << >>
SymbolEntry(here) ==
  {[symbol_address |-> s.address, symbol_name |-> s.name, inline_frames |-> {}] : s \in here.symbol}
FullEntry(asked, here, a) ==
  IF HasDebugInfo(asked, here)
  THEN {WithDebugInfo(SymbolEntry(here), a, frames) : frames \in here.frames}
  ELSE SymbolEntry(here)

\* What a lookup of some addresses gives in the end, with what the file knows of them.
IsFileOf(file, addresses) == \A a \in addresses : file[a] \in KnownAt(a)
AnswersOf(asked, file, addresses) == [a \in addresses |-> FullEntry(asked, file[a], a)]

\* How far a lookup is: some addresses lack their symbol, and some their debug info.
EntryInv(l, asked, here, a) ==
  /\ a \in l.symbols =>
       here.symbol # {} /\ l.results[a] = {} /\ (a \in l.debug <=> HasDebugInfo(asked, here))
  /\ a \notin l.symbols /\ a \in l.debug =>
       HasDebugInfo(asked, here) /\ l.results[a] = SymbolEntry(here)
  /\ a \notin l.symbols /\ a \notin l.debug => l.results[a] = FullEntry(asked, here, a)

IsLookup(l, asked, file, addresses) ==
  /\ l = [lib |-> l.lib, addresses |-> l.addresses, results |-> l.results,
          symbols |-> l.symbols, debug |-> l.debug]
  /\ l.addresses = SortAndDedup(addresses)
  /\ l.results = [a \in ToSet(addresses) |-> l.results[a]]
  /\ l.symbols \subseteq ToSet(addresses) /\ l.debug \subseteq ToSet(addresses)
  /\ IsFileOf(file, ToSet(addresses))
  /\ \A a \in ToSet(addresses) : EntryInv(l, asked, file[a], a)

LookupInv ==
  \A l \in lookup :
    /\ l.lib \in DOMAIN requested \ DOMAIN symbolicated /\ l.lib \in DOMAIN known
    /\ IsLookup(l, request.with_debug_info, known[l.lib], requested[l.lib])

\* A lookup that did not fail has all that its file has to say of the addresses.
IsDone(results, asked, file, addresses) ==
  IsFileOf(file, addresses) /\ results = AnswersOf(asked, file, addresses)

DoneInv ==
  \A lib \in DOMAIN symbolicated :
    /\ lib \in DOMAIN requested
    /\ symbolicated[lib] # {} =>
         /\ lib \in DOMAIN known
         /\ \E results : /\ symbolicated[lib] = {results}
                         /\ IsDone(results, request.with_debug_info, known[lib], ToSet(requested[lib]))

AnswerInv ==
  outcome = "Answered" =>
    /\ DOMAIN requested \subseteq DOMAIN symbolicated
    /\ response = [n \in DOMAIN request.jobs |-> ResultForJob(request.jobs[n])]

Inv == GatherInv /\ PhaseInv /\ LookupInv /\ DoneInv /\ AnswerInv

-----------------------------------------------------------------------------
(* Requests *)

LEMMA ListedIsIndexed ==
  ASSUME NEW s, Listed(s)
  PROVE  Len(s) \in Nat /\ DOMAIN s = 1 .. Len(s)
  BY DEF Listed

LEMMA RequestTypes ==
  ASSUME request \in Requests
  PROVE  /\ JobCount \in Nat /\ DOMAIN request.jobs = 1 .. JobCount
         /\ \A n \in 1 .. JobCount :
              /\ Len(MapOf(n)) \in Nat /\ DOMAIN MapOf(n) = 1 .. Len(MapOf(n))
              /\ \A frame \in Frames(n) : frame.module_index \in Nat
  <1>1. JobCount \in Nat /\ DOMAIN request.jobs = 1 .. JobCount
    BY RequestAssumption, ListedIsIndexed DEF JobCount
  <1>2. ASSUME NEW n \in 1 .. JobCount
        PROVE  /\ Listed(MapOf(n))
               /\ \A frame \in Frames(n) : frame.module_index \in Nat
    <2>1. request.jobs[n] \in ToSet(request.jobs)
      BY <1>1, <1>2 DEF ToSet
    <2> QED
      BY <2>1, RequestAssumption DEF MapOf, Frames
  <1> QED
    BY <1>1, <1>2, ListedIsIndexed

LEMMA LibsOfRequest ==
  ASSUME request \in Requests, NEW n \in 1 .. JobCount, NEW m \in DOMAIN MapOf(n)
  PROVE  MapOf(n)[m] \in Libs
  <1>1. request.jobs[n] \in ToSet(request.jobs)
    BY RequestTypes DEF ToSet
  <1>2. MapOf(n)[m] \in ToSet(MapOf(n))
    BY DEF ToSet
  <1> QED
    BY <1>1, <1>2 DEF Libs, MapOf

LEMMA JobIsListed ==
  ASSUME request \in Requests, NEW n \in 1 .. JobCount
  PROVE  request.jobs[n] \in ToSet(request.jobs)
  BY RequestTypes DEF ToSet

LEMMA ElementsAreListed ==
  ASSUME NEW S, NEW s \in Seq(S)
  PROVE  s \in Seq(ToSet(s))
  <1>1. s \in [1 .. Len(s) -> ToSet(s)] /\ Len(s) \in Nat
    BY DEF ToSet
  <1> QED
    BY <1>1, FunctionIsList

LEMMA ListOfMore ==
  ASSUME NEW S, NEW T, S \subseteq T, NEW s \in Seq(S)
  PROVE  s \in Seq(T)
  OBVIOUS

\* Frames and their addresses.
LEMMA FramesAreListed ==
  ASSUME request \in Requests, NEW n \in 1 .. JobCount
  PROVE  /\ StacksOf(n) \in Seq(Seq(UNION {ToSet(stack) : stack \in ToSet(StacksOf(n))}))
         /\ FlattenSeq(StacksOf(n)) \in Seq(Frames(n))
         /\ \A frame \in Frames(n) : frame.address \in Addresses
  <1> DEFINE stacks == StacksOf(n)
             all == UNION {ToSet(stack) : stack \in ToSet(stacks)}
  <1>1. request.jobs[n] \in ToSet(request.jobs)
    BY JobIsListed
  <1>2. Listed(stacks) /\ \A stack \in ToSet(stacks) : Listed(stack)
    BY <1>1, RequestAssumption DEF StacksOf
  <1>3. stacks \in Seq(Seq(all))
    <2>1. ASSUME NEW stack \in ToSet(stacks) PROVE stack \in Seq(all)
      <3>1. stack \in Seq(ToSet(stack)) /\ ToSet(stack) \subseteq all
        BY <1>2 DEF Listed
      <3> HIDE DEF all
      <3> QED
        BY <3>1
    <2>2. stacks \in Seq(ToSet(stacks)) /\ ToSet(stacks) \subseteq Seq(all)
      BY <1>2, <2>1 DEF Listed
    <2> HIDE DEF all, stacks
    <2> QED
      BY <2>2
  <1> HIDE DEF all
  <1>4. FlattenSeq(stacks) \in Seq(all)
    BY <1>3, FlattenType
  <1>5. FlattenSeq(stacks) \in Seq(Frames(n))
    BY <1>4, ElementsAreListed DEF Frames, FramesOf, StacksOf
  <1>6. \A frame \in Frames(n) : frame.address \in Addresses
    BY <1>1 DEF Addresses, Frames
  <1> QED
    BY <1>3, <1>5, <1>6 DEF all

LEMMA AddressesAreNumbers == Addresses \subseteq Nat
  BY RequestAssumption DEF Addresses

\* The addresses of a job, by module.
HoldsAddresses(by, frames) ==
  /\ DOMAIN by = {frame.module_index : frame \in ToSet(frames)}
  /\ \A i \in DOMAIN by : by[i] \in Seq(Addresses)
  /\ \A frame \in ToSet(frames) : frame.address \in ToSet(by[frame.module_index])

LEMMA AddressesAreHeld ==
  ASSUME NEW frames, Listed(frames), \A frame \in ToSet(frames) : frame.address \in Addresses
  PROVE  HoldsAddresses(AddressesByModule(frames), frames)
  <1> DEFINE n == Len(frames)
             by == AddressesByModule(frames)
             own(i) == {k \in 1 .. n : frames[k].module_index = i}
             addresses == [k \in 1 .. n |-> frames[k].address]
  <1>1. n \in Nat /\ DOMAIN frames = 1 .. n /\ \A k \in 1 .. n : frames[k] \in ToSet(frames)
    BY ListIsFunction DEF Listed
  <1>2. /\ DOMAIN by = {frame.module_index : frame \in ToSet(frames)}
        /\ \A i \in DOMAIN by : by[i] = Picked(addresses, own(i))
    BY <1>1 DEF AddressesByModule
  <1> HIDE DEF by, n
  <1>3. ASSUME NEW i
        PROVE  /\ Picked(addresses, own(i)) \in Seq(Addresses)
               /\ \A k \in own(i) : frames[k].address \in ToSet(Picked(addresses, own(i)))
    <2> DEFINE places == own(i)
               c == Cardinality(places)
               picked == Picked(addresses, places)
    <2>1. places \in SUBSET (1 .. n) /\ 1 .. n \subseteq Int
      BY <1>1
    <2> HIDE DEF places
    <2>2. IsFiniteSet(places) /\ places \subseteq Int
      <3>1. IsFiniteSet(1 .. n)
        BY <1>1, FS_Interval
      <3>2. IsFiniteSet(places)
        BY <2>1, <3>1, FS_Subset
      <3> QED
        BY <2>1, <3>2
    <2>3. c \in Nat /\ ArePicked(picked, addresses, places)
      BY <2>2, PickedElements
    <2>4. \A k \in places : addresses[k] = frames[k].address /\ addresses[k] \in Addresses
      BY <1>1, <2>1
    <2> HIDE DEF addresses, c, picked
    <2>5. /\ picked = [k \in 1 .. c |-> picked[k]]
          /\ \A k \in 1 .. c : \E p \in places : picked[k] = addresses[p]
          /\ \A p \in places : \E k \in 1 .. c : picked[k] = addresses[p]
      BY <2>3 DEF ArePicked, c
    <2>6. picked \in [1 .. c -> Addresses]
      BY <2>4, <2>5
    <2>7. picked \in Seq(Addresses)
      BY <2>3, <2>6, FunctionIsList
    <2>8. \A p \in places : frames[p].address \in ToSet(picked)
      BY <2>4, <2>5 DEF ToSet
    <2> QED
      BY <2>7, <2>8 DEF picked, places, addresses
  <1>4. ASSUME NEW frame \in ToSet(frames)
        PROVE  frame.address \in ToSet(by[frame.module_index])
    <2>1. PICK k \in 1 .. n : frame = frames[k]
      BY <1>1 DEF ToSet
    <2>2. k \in own(frame.module_index) /\ frame.module_index \in DOMAIN by
      BY <1>2, <2>1
    <2> QED
      BY <1>2, <1>3, <2>1, <2>2
  <1> QED
    BY <1>2, <1>3, <1>4 DEF HoldsAddresses, by

\* The property speaks of jobs, the invariant of their numbers.
LEMMA WrongIsNumbered ==
  ASSUME request \in Requests
  PROVE  Wrong <=> \E j \in ToSet(request.jobs) : \E frame \in FramesOf(j) :
                     frame.module_index >= Len(j.memory_map)
  <1>1. ToSet(request.jobs) = {request.jobs[n] : n \in 1 .. JobCount}
    BY RequestTypes DEF ToSet
  <1>2. \A n \in 1 .. JobCount : \A frame \in Frames(n) :
          ~InMap(n, frame) <=> frame.module_index >= Len(request.jobs[n].memory_map)
    BY RequestTypes DEF InMap, MapOf
  <1> QED
    BY <1>1, <1>2 DEF Wrong, Frames

-----------------------------------------------------------------------------
(* Gathering *)

LEMMA InitHolds == Init => Inv
  <1> SUFFICES ASSUME Init PROVE Inv
    OBVIOUS
  <1>1. /\ request \in Requests /\ job = 0 /\ DOMAIN by_module = {} /\ outcome = "Gathering"
        /\ DOMAIN requested = {} /\ lookup = {} /\ known = Empty /\ DOMAIN symbolicated = {}
    BY DEF Init, Empty
  <1>2. 0 \in 0 .. JobCount /\ 1 .. 0 = {}
    BY <1>1, RequestTypes
  <1>3. GatherInv
    BY <1>1, <1>2 DEF GatherInv
  <1>4. PhaseInv /\ LookupInv /\ DoneInv /\ AnswerInv
    BY <1>1 DEF PhaseInv, LookupInv, DoneInv, AnswerInv
  <1> QED
    BY <1>3, <1>4 DEF Inv

\* As long as addresses are gathered, nothing is looked up.
LEMMA NothingIsLookedUp ==
  ASSUME Inv, outcome = "Gathering", UNCHANGED <<lookup, known, symbolicated>>
  PROVE  /\ lookup' = {} /\ known' = Empty /\ DOMAIN symbolicated' = {}
         /\ LookupInv' /\ DoneInv'
  <1>1. lookup' = {} /\ known' = Empty /\ DOMAIN symbolicated' = {}
    BY DEF Inv, PhaseInv
  <1> QED
    BY <1>1 DEF LookupInv, DoneInv

LEMMA StartJobKeeps ==
  ASSUME Inv, StartJob
  PROVE  Inv'
  <1>1. /\ request' = request /\ request \in Requests /\ job \in 0 .. JobCount /\ JobCount \in Nat
        /\ job < JobCount /\ job' = job + 1 /\ requested' = requested /\ DOMAIN by_module = {}
        /\ outcome = "Gathering" /\ outcome' = outcome
        /\ UNCHANGED <<lookup, known, symbolicated, response>>
    BY RequestTypes DEF Inv, GatherInv, StartJob, JobCount, Empty
  <1>2. job' \in 1 .. JobCount /\ 1 .. job' = 1 .. job \cup {job'}
    BY <1>1
  <1>3. /\ DOMAIN by_module' = {frame.module_index : frame \in Frames(job')}
        /\ \A i \in DOMAIN by_module' : by_module'[i] \in Seq(Addresses)
        /\ \A frame \in Frames(job') : frame.address \in ToSet(by_module'[frame.module_index])
    <2> DEFINE frames == FlattenSeq(StacksOf(job'))
    <2>1. Listed(frames) /\ \A frame \in ToSet(frames) : frame.address \in Addresses
      BY <1>1, <1>2, FramesAreListed DEF Listed, Frames, FramesOf, StacksOf
    <2>2. HoldsAddresses(AddressesByModule(frames), frames)
      <3> HIDE DEF frames
      <3> QED
        BY <2>1, AddressesAreHeld
    <2>3. by_module' = AddressesByModule(frames)
      BY <1>1 DEF StartJob, StacksOf
    <2>4. ToSet(frames) = Frames(job')
      BY DEF Frames, FramesOf, StacksOf
    <2> HIDE DEF frames
    <2> QED
      BY <2>2, <2>3, <2>4 DEF HoldsAddresses
  <1>4. \A n \in 1 .. job : \A frame \in Frames(n) : Gathered(n, frame)
    BY <1>1 DEF Inv, GatherInv, Pending
  <1>5. \A n : \A frame : Gathered(n, frame)' <=> Gathered(n, frame)
    BY <1>1 DEF Gathered, InMap, LibOf, MapOf
  <1>6. \A n : n = job' => \A frame \in Frames(n) : Pending(n, frame)'
    BY <1>3 DEF Pending
  <1>7. GatherInv'
    <2>1. request' \in Requests /\ job' \in 0 .. JobCount'
      BY <1>1, <1>2 DEF JobCount
    <2>2. \A i \in DOMAIN by_module' :
            job' # 0 /\ \E frame \in Frames(job') : frame.module_index = i
      BY <1>2, <1>3
    <2>3. \A n \in 1 .. job' : \A frame \in Frames(n) : Pending(n, frame)' \/ Gathered(n, frame)'
      BY <1>2, <1>4, <1>5, <1>6
    <2>4. Frames(job)' = Frames(job') /\ \A n : Frames(n)' = Frames(n)
      BY <1>1 DEF Frames
    <2>5. \A lib \in DOMAIN requested' : requested'[lib] \in Seq(Addresses)
      BY <1>1 DEF Inv, GatherInv
    <2> QED
      BY <1>3, <2>1, <2>2, <2>3, <2>4, <2>5 DEF GatherInv
  <1>8. PhaseInv' /\ AnswerInv'
    BY <1>1 DEF Inv, PhaseInv, AnswerInv
  <1> QED
    BY <1>1, <1>7, <1>8, NothingIsLookedUp DEF Inv

LEMMA SetOfConcat ==
  ASSUME NEW T, NEW s \in Seq(T), NEW t \in Seq(T)
  PROVE  s \o t \in Seq(T) /\ ToSet(s \o t) = ToSet(s) \cup ToSet(t)
  <1> DEFINE st == s \o t
  <1>1. st \in Seq(T)
    OBVIOUS
  <1>2. \A x : Contains(st, x) <=> Contains(s, x) \/ Contains(t, x)
    BY ContainsConcat
  <1>3. ASSUME NEW u \in Seq(T), NEW x PROVE Contains(u, x) <=> x \in ToSet(u)
    BY ListIsFunction DEF Contains, ToSet
  <1> HIDE DEF st
  <1>4. \A x : x \in ToSet(st) <=> x \in ToSet(s) \/ x \in ToSet(t)
    BY <1>1, <1>2, <1>3
  <1>5. st \in Seq(T) /\ ToSet(st) = ToSet(s) \cup ToSet(t)
    BY <1>1, <1>4
  <1> QED
    BY <1>5 DEF st

LEMMA GatherModuleKeeps ==
  ASSUME Inv, NEW i \in DOMAIN by_module, GatherModule(i)
  PROVE  Inv'
  <1> DEFINE lib == Memory[i + 1]
             old == IF lib \in DOMAIN requested THEN requested[lib] ELSE << >>
  <1>1. /\ UNCHANGED <<request, job, outcome, known, lookup, symbolicated, response>>
        /\ i < Len(Memory) /\ outcome = "Gathering"
        /\ DOMAIN by_module' = DOMAIN by_module \ {i}
        /\ \A k \in DOMAIN by_module' : by_module'[k] = by_module[k]
        /\ DOMAIN requested' = DOMAIN requested \cup {lib}
        /\ requested'[lib] = old \o by_module[i]
        /\ \A other \in DOMAIN requested : other # lib => requested'[other] = requested[other]
    BY DEF GatherModule, Extend, With, Without
  <1>2. \A n : \A frame :
          /\ InMap(n, frame)' <=> InMap(n, frame)
          /\ LibOf(n, frame)' = LibOf(n, frame) /\ Frames(n)' = Frames(n)
    BY <1>1 DEF InMap, LibOf, MapOf, Frames
  <1>3. old \in Seq(Addresses) /\ by_module[i] \in Seq(Addresses)
    BY DEF Inv, GatherInv
  <1>4. /\ requested'[lib] \in Seq(Addresses)
        /\ ToSet(requested'[lib]) = ToSet(old) \cup ToSet(by_module[i])
    <2> HIDE DEF old, lib
    <2> QED
      BY <1>1, <1>3, SetOfConcat
  <1>5. \A l \in DOMAIN requested :
          l \in DOMAIN requested' /\ ToSet(requested[l]) \subseteq ToSet(requested'[l])
    BY <1>1, <1>4
  <1> HIDE DEF old
  <1>6. ASSUME NEW n \in 1 .. job, NEW frame \in Frames(n)
        PROVE  Pending(n, frame)' \/ Gathered(n, frame)'
    <2>1. CASE Gathered(n, frame)
      <3>1. /\ LibOf(n, frame) \in DOMAIN requested' /\ InMap(n, frame)'
            /\ frame.address \in ToSet(requested'[LibOf(n, frame)])
        BY <1>2, <1>5, <2>1 DEF Gathered
      <3> QED
        BY <1>2, <3>1 DEF Gathered
    <2>2. CASE Pending(n, frame) /\ frame.module_index # i
      BY <1>1, <2>2 DEF Pending
    <2>3. CASE Pending(n, frame) /\ frame.module_index = i
      <3>1. InMap(n, frame) /\ LibOf(n, frame) = lib
        BY <1>1, <2>3 DEF Pending, InMap, LibOf, MapOf, Memory
      <3>2. frame.address \in ToSet(requested'[lib]) /\ lib \in DOMAIN requested'
        BY <1>1, <1>4, <2>3 DEF Pending
      <3> HIDE DEF lib
      <3>3. frame.address \in ToSet(requested'[LibOf(n, frame)]) /\ LibOf(n, frame) \in DOMAIN requested'
        BY <3>1, <3>2
      <3> QED
        BY <1>2, <3>1, <3>3 DEF Gathered
    <2> QED
      BY <1>6, <2>1, <2>2, <2>3 DEF Inv, GatherInv
  <1>7. GatherInv'
    <2>1. \A k \in DOMAIN by_module' : by_module'[k] \in Seq(Addresses)
      BY <1>1 DEF Inv, GatherInv
    <2>2. \A l \in DOMAIN requested' : requested'[l] \in Seq(Addresses)
      <3> HIDE DEF lib
      <3> QED
        BY <1>1, <1>4 DEF Inv, GatherInv
    <2>3. \A k \in DOMAIN by_module' : job # 0 /\ \E frame \in Frames(job) : frame.module_index = k
      BY <1>1 DEF Inv, GatherInv
    <2>4. JobCount' = JobCount /\ job' = job /\ request' = request /\ Frames(job)' = Frames(job)
      BY <1>1 DEF JobCount, Frames
    <2>5. request \in Requests /\ job \in 0 .. JobCount
      BY DEF Inv, GatherInv
    <2> QED
      BY <1>2, <1>6, <2>1, <2>2, <2>3, <2>4, <2>5 DEF GatherInv
  <1>8. PhaseInv' /\ AnswerInv'
    BY <1>1 DEF Inv, PhaseInv, AnswerInv
  <1> QED
    BY <1>1, <1>7, <1>8, NothingIsLookedUp DEF Inv

\* One frame outside its map is enough, and it is one of the request.
LEMMA RefuseRequestKeeps ==
  ASSUME Inv, NEW i \in DOMAIN by_module, RefuseRequest(i)
  PROVE  Inv'
  <1>1. UNCHANGED <<gathered, lookup, known, symbolicated, response>>
        /\ outcome = "Gathering" /\ outcome' = "Refused" /\ i >= Len(Memory)
    BY DEF RefuseRequest
  <1>2. job \in 1 .. JobCount /\ \E frame \in Frames(job) : frame.module_index = i
    BY RequestTypes DEF Inv, GatherInv
  <1>3. PICK frame \in Frames(job) : frame.module_index = i
    BY <1>2
  <1>4. ~InMap(job, frame)
    BY <1>1, <1>2, <1>3, RequestTypes DEF Inv, GatherInv, InMap, MapOf, Memory
  <1>5. Wrong /\ (Wrong' <=> Wrong)
    BY <1>1, <1>2, <1>4 DEF Wrong, gathered, JobCount, Frames, InMap, MapOf
  <1>6. GatherInv'
    <2>1. UNCHANGED <<request, job, by_module, requested>>
      BY <1>1 DEF gathered
    <2> QED
      BY <2>1 DEF Inv, GatherInv, JobCount, Frames, Pending, Gathered, InMap, LibOf, MapOf
  <1>7. PhaseInv' /\ AnswerInv'
    BY <1>1, <1>5 DEF Inv, PhaseInv, AnswerInv
  <1> QED
    BY <1>1, <1>6, <1>7, NothingIsLookedUp DEF Inv

-----------------------------------------------------------------------------
(* Looking up and answering *)

\* What is gathered stays.
LEMMA GatheredStays ==
  ASSUME GatherInv, UNCHANGED gathered
  PROVE  GatherInv' /\ (Wrong' <=> Wrong)
  BY DEF GatherInv, Wrong, gathered, JobCount, Frames, Pending, Gathered, InMap, LibOf, MapOf

\* The response depends on nothing but the lookups.
LEMMA ResultsStay ==
  ASSUME symbolicated' = symbolicated
  PROVE  \A j : ResultForJob(j)' = ResultForJob(j)
  BY DEF ResultForJob, ResponseFrame, SymbolsByModule, FoundModules, ModuleErrors, LookedUp

LEMMA AddressesAreSorted ==
  ASSUME NEW addresses \in Seq(Addresses)
  PROVE  /\ ToSet(SortAndDedup(addresses)) = ToSet(addresses)
         /\ SortAndDedup(addresses) \in Seq(Int)
         /\ \A k, l \in 1 .. Len(SortAndDedup(addresses)) :
              k < l => SortAndDedup(addresses)[k] < SortAndDedup(addresses)[l]
  <1> DEFINE sorted == Sorted(addresses)
  <1>1. addresses \in Seq(Int)
    <2>1. Addresses \subseteq Int
      BY AddressesAreNumbers
    <2> QED
      BY <2>1, ListOfMore
  <1>2. /\ sorted \in Seq(Int) /\ ToSet(sorted) = ToSet(addresses)
        /\ \A k, l \in 1 .. Len(sorted) : k <= l => sorted[k] <= sorted[l]
    BY <1>1, SortedSorts
  <1> HIDE DEF sorted
  <1>3. /\ Dedup(sorted) \in Seq(Int) /\ ToSet(Dedup(sorted)) = ToSet(sorted)
        /\ \A k, l \in 1 .. Len(Dedup(sorted)) : k < l => Dedup(sorted)[k] < Dedup(sorted)[l]
    BY <1>2, DedupAscends
  <1> QED
    BY <1>2, <1>3 DEF SortAndDedup, sorted

\* What KnownAt may say of an address: at most one symbol and one list of frames.
LEMMA OneSymbol ==
  ASSUME NEW a \in Addresses, NEW here \in KnownAt(a), NEW symbol \in here.symbol
  PROVE  /\ here.symbol = {symbol} /\ symbol.address \in Nat /\ symbol.address <= a
         /\ SymbolEntry(here) = {[symbol_address |-> symbol.address, symbol_name |-> symbol.name,
                                  inline_frames |-> {}]}
  <1>1. /\ here.symbol = {symbol} /\ symbol.address \in Nat /\ symbol.address <= a
    BY RequestAssumption DEF AtMostOne
  <1> QED
    BY <1>1 DEF SymbolEntry

\* Debug info leaves the start of the symbol and gives the name of the outermost function.
LEMMA DebugInfoOfSymbol ==
  ASSUME NEW start, NEW name, NEW a, NEW frames
  PROVE  WithDebugInfo({[symbol_address |-> start, symbol_name |-> name, inline_frames |-> {}]}, a, frames)
           = [symbol_address |-> start, symbol_name |-> OuterName(frames, name),
              inline_frames |-> {frames}]
  <1> DEFINE e == [symbol_address |-> start, symbol_name |-> name, inline_frames |-> {}]
             named == [symbol_address |-> start, symbol_name |-> OuterName(frames, name),
                       inline_frames |-> {}]
  <1>1. (CHOOSE x \in {e} : TRUE) = e /\ {e} # {}
    OBVIOUS
  <1>2. e.symbol_name = name /\ [e EXCEPT !.symbol_name = OuterName(frames, name)] = named
    OBVIOUS
  <1>3. WithDebugInfo({e}, a, frames) =
          [e EXCEPT !.symbol_name = OuterName(frames, @), !.inline_frames = {frames}]
    <2> HIDE DEF e
    <2> QED
      BY <1>1 DEF WithDebugInfo
  <1>4. [e EXCEPT !.symbol_name = OuterName(frames, @), !.inline_frames = {frames}]
          = [named EXCEPT !.inline_frames = {frames}]
    <2> HIDE DEF e, named
    <2> QED
      BY <1>2
  <1> QED
    BY <1>3, <1>4

LEMMA OneListOfFrames ==
  ASSUME NEW asked, NEW a \in Addresses, NEW here \in KnownAt(a), HasDebugInfo(asked, here),
         NEW frames \in here.frames
  PROVE  /\ here.frames = {frames} /\ frames # << >>
         /\ FullEntry(asked, here, a) = {WithDebugInfo(SymbolEntry(here), a, frames)}
  <1>1. here.frames = {frames}
    BY RequestAssumption DEF AtMostOne
  <1>2. frames # << >>
    BY <1>1 DEF HasDebugInfo
  <1> QED
    BY <1>1, <1>2 DEF FullEntry

LEMMA AskedAddresses ==
  ASSUME Inv, NEW lib \in DOMAIN requested
  PROVE  ToSet(requested[lib]) \subseteq Addresses /\ requested[lib] \in Seq(Addresses)
  BY DEF Inv, GatherInv, ToSet

LEMMA FinishGatheringKeeps ==
  ASSUME Inv, FinishGathering
  PROVE  Inv'
  <1>1. GatherInv'
    BY GatheredStays DEF Inv, FinishGathering
  <1>2. job' = JobCount' /\ DOMAIN by_module' = {} /\ outcome' = "LookingUp"
        /\ outcome = "Gathering" /\ UNCHANGED <<lookup, known, symbolicated>>
    BY DEF FinishGathering, gathered, JobCount, Empty
  <1>3. LookupInv' /\ DoneInv' /\ lookup' = {}
    BY <1>2, NothingIsLookedUp
  <1> QED
    BY <1>1, <1>2, <1>3 DEF Inv, PhaseInv, AnswerInv

\* What a step of a lookup has to keep.
LEMMA LookupKeeps ==
  ASSUME Inv, UNCHANGED <<gathered, outcome, response>>, outcome = "LookingUp",
         LookupInv', DoneInv'
  PROVE  Inv'
  <1>1. GatherInv'
    BY GatheredStays DEF Inv
  <1>2. JobCount' = JobCount /\ job' = job /\ by_module' = by_module /\ outcome' = outcome
    BY DEF gathered, JobCount
  <1> QED
    BY <1>1, <1>2 DEF Inv, PhaseInv, AnswerInv

LEMMA FailureKeeps ==
  ASSUME Inv, NEW lib \in DOMAIN requested, outcome = "LookingUp",
         symbolicated' = With(symbolicated, lib, {}), lookup' = {},
         UNCHANGED <<gathered, known, outcome, response>>
  PROVE  Inv'
  <1>1. request' = request /\ requested' = requested /\ known' = known
    BY DEF gathered
  <1>2. /\ DOMAIN symbolicated' = DOMAIN symbolicated \cup {lib} /\ symbolicated'[lib] = {}
        /\ \A other \in DOMAIN symbolicated : other # lib => symbolicated'[other] = symbolicated[other]
    BY DEF With
  <1>3. DoneInv'
    BY <1>1, <1>2 DEF Inv, DoneInv
  <1>4. LookupInv'
    BY DEF LookupInv
  <1> QED
    BY <1>3, <1>4, LookupKeeps

LEMMA StartLookupKeeps ==
  ASSUME Inv, NEW lib \in DOMAIN requested, StartLookup(lib)
  PROVE  Inv'
  <1> DEFINE addresses == SortAndDedup(requested[lib])
             places == ToSet(addresses)
             asked == request.with_debug_info
  <1>1. /\ outcome = "LookingUp" /\ lib \notin DOMAIN symbolicated
        /\ UNCHANGED <<gathered, outcome, response>> /\ symbolicated' = symbolicated
        /\ request' = request /\ requested' = requested
    BY DEF StartLookup, Waiting, gathered
  <1>2. PICK file \in [places -> UNION {KnownAt(a) : a \in places}] :
          /\ \A a \in places : file[a] \in KnownAt(a)
          /\ known' = With(known, lib, file)
          /\ lookup' = {[lib |-> lib, addresses |-> addresses,
                         results |-> [a \in places |-> {}],
                         symbols |-> {a \in places : file[a].symbol # {}},
                         debug |-> {a \in places : ReportsDebugInfo(file[a])}]}
    BY DEF StartLookup
  <1>3. places = ToSet(requested[lib])
    BY AskedAddresses, AddressesAreSorted
  <1>4. /\ lib \in DOMAIN known' /\ known'[lib] = file
        /\ \A other \in DOMAIN known : /\ other \in DOMAIN known'
                                       /\ other # lib => known'[other] = known[other]
    BY <1>2 DEF With
  <1> DEFINE l == [lib |-> lib, addresses |-> addresses,
                   results |-> [a \in places |-> {}],
                   symbols |-> {a \in places : file[a].symbol # {}},
                   debug |-> {a \in places : ReportsDebugInfo(file[a])}]
  <1>5. ASSUME NEW a \in places PROVE EntryInv(l, asked, file[a], a)
    <2>1. /\ a \in l.symbols <=> file[a].symbol # {}
          /\ a \in l.debug <=> HasDebugInfo(asked, file[a])
          /\ l.results[a] = {}
      BY DEF ReportsDebugInfo, HasDebugInfo
    <2>2. file[a].symbol = {} => SymbolEntry(file[a]) = {}
      BY DEF SymbolEntry
    <2> HIDE DEF l
    <2> QED
      BY <2>1, <2>2 DEF EntryInv, FullEntry
  <1>6. IsLookup(l, asked, file, requested[lib])
    <2>1. l = [lib |-> l.lib, addresses |-> l.addresses, results |-> l.results,
               symbols |-> l.symbols, debug |-> l.debug]
      OBVIOUS
    <2>2. /\ l.addresses = SortAndDedup(requested[lib]) /\ l.results = [a \in places |-> l.results[a]]
          /\ l.symbols \subseteq places /\ l.debug \subseteq places
      OBVIOUS
    <2>3. IsFileOf(file, ToSet(requested[lib]))
      BY <1>2, <1>3 DEF IsFileOf
    <2> HIDE DEF l, places
    <2> QED
      BY <1>3, <1>5, <2>1, <2>2, <2>3 DEF IsLookup
  <1>7. lookup' = {l} /\ l.lib = lib
    BY <1>2
  <1> HIDE DEF l, places
  <1>8. LookupInv'
    BY <1>1, <1>4, <1>6, <1>7 DEF LookupInv
  <1>9. DoneInv'
    <2>1. \A other \in DOMAIN symbolicated : other # lib
      BY <1>1
    <2> QED
      BY <1>1, <1>4, <2>1 DEF Inv, DoneInv
  <1> QED
    BY <1>1, <1>8, <1>9, LookupKeeps

\* A step that adds to the results of one address.
LEMMA StepOfLookup ==
  ASSUME Inv, NEW l \in lookup, NEW m, lookup' = {m}, m.lib = l.lib,
         IsLookup(m, request.with_debug_info, known[l.lib], requested[l.lib]),
         UNCHANGED <<gathered, known, symbolicated, outcome, response>>
  PROVE  Inv'
  <1>1. request' = request /\ requested' = requested /\ known' = known /\ symbolicated' = symbolicated
        /\ outcome = "LookingUp"
    BY DEF gathered, Inv, PhaseInv
  <1>2. LookupInv'
    BY <1>1 DEF Inv, LookupInv
  <1>3. DoneInv'
    BY <1>1 DEF Inv, DoneInv
  <1> QED
    BY <1>1, <1>2, <1>3, LookupKeeps

\* The other addresses are as far as they were.
LEMMA OneEntryChanges ==
  ASSUME NEW l, NEW m, NEW asked, NEW file, NEW addresses, NEW address \in ToSet(addresses), NEW entry,
         IsLookup(l, asked, file, addresses),
         m = [lib |-> m.lib, addresses |-> m.addresses, results |-> m.results,
              symbols |-> m.symbols, debug |-> m.debug],
         m.addresses = l.addresses, m.results = [l.results EXCEPT ![address] = entry],
         m.symbols \subseteq l.symbols, l.symbols \subseteq m.symbols \cup {address},
         m.debug \subseteq l.debug, l.debug \subseteq m.debug \cup {address},
         m.results[address] = entry => EntryInv(m, asked, file[address], address)
  PROVE  IsLookup(m, asked, file, addresses)
  <1> DEFINE all == ToSet(addresses)
  <1>1. l.results = [a \in all |-> l.results[a]] /\ IsFileOf(file, all)
        /\ l.addresses = SortAndDedup(addresses) /\ \A a \in all : EntryInv(l, asked, file[a], a)
    BY DEF IsLookup
  <1> HIDE DEF all
  <1>2. /\ m.results = [a \in all |-> m.results[a]] /\ m.results[address] = entry
        /\ \A a \in all : a # address => m.results[a] = l.results[a]
    BY <1>1 DEF all
  <1>3. ASSUME NEW a \in all PROVE EntryInv(m, asked, file[a], a)
    <2>1. CASE a = address
      BY <1>2, <2>1
    <2>2. CASE a # address
      <3>1. /\ m.results[a] = l.results[a]
            /\ a \in m.symbols <=> a \in l.symbols
            /\ a \in m.debug <=> a \in l.debug
        BY <1>2, <2>2
      <3> QED
        BY <1>1, <3>1 DEF EntryInv
    <2> QED
      BY <2>1, <2>2
  <1> QED
    BY <1>1, <1>2, <1>3 DEF IsLookup, all

LEMMA AddAddressSymbolKeeps ==
  ASSUME Inv, NEW address, AddAddressSymbol(address)
  PROVE  Inv'
  <1>1. PICK l \in lookup :
          /\ address \in l.symbols
          /\ \E symbol \in known[l.lib][address].symbol :
               lookup' = {[l EXCEPT
                 !.symbols = @ \ {address},
                 !.results[address] = {[symbol_address |-> symbol.address,
                                        symbol_name |-> symbol.name, inline_frames |-> {}]}]}
          /\ UNCHANGED <<gathered, known, symbolicated, outcome, response>>
    BY Zenon DEF AddAddressSymbol
  <1> DEFINE asked == request.with_debug_info
             file == known[l.lib]
             addresses == requested[l.lib]
             here == file[address]
  <1>2. PICK symbol \in here.symbol :
          lookup' = {[l EXCEPT
            !.symbols = @ \ {address},
            !.results[address] = {[symbol_address |-> symbol.address,
                                   symbol_name |-> symbol.name, inline_frames |-> {}]}]}
    BY <1>1, Zenon
  <1>3. IsLookup(l, asked, file, addresses) /\ l.lib \in DOMAIN requested
    BY DEF Inv, LookupInv
  <1>4. /\ address \in ToSet(addresses) /\ here \in KnownAt(address)
        /\ EntryInv(l, asked, here, address)
    BY <1>1, <1>3 DEF IsLookup, IsFileOf
  <1>5. address \in Addresses
    BY <1>3, <1>4, AskedAddresses
  <1> DEFINE entry == {[symbol_address |-> symbol.address, symbol_name |-> symbol.name,
                        inline_frames |-> {}]}
             m == [lib |-> l.lib, addresses |-> l.addresses,
                   results |-> [l.results EXCEPT ![address] = entry],
                   symbols |-> l.symbols \ {address}, debug |-> l.debug]
  <1>6. SymbolEntry(here) = entry
    BY <1>4, <1>5, OneSymbol
  <1>7. lookup' = {m}
    <2>1. l = [lib |-> l.lib, addresses |-> l.addresses, results |-> l.results,
               symbols |-> l.symbols, debug |-> l.debug]
      BY <1>3 DEF IsLookup
    <2> DEFINE k == [l EXCEPT !.symbols = l.symbols \ {address}]
               results == [l.results EXCEPT ![address] = entry]
    <2>2. k = [lib |-> l.lib, addresses |-> l.addresses, results |-> l.results,
               symbols |-> l.symbols \ {address}, debug |-> l.debug]
      BY <2>1
    <2>3. k.results = l.results
      BY <2>2
    <2> HIDE DEF entry
    <2>4. [l EXCEPT !.symbols = @ \ {address}, !.results[address] = entry] = [k EXCEPT !.results = results]
      BY <2>3
    <2> HIDE DEF k, results
    <2>5. [k EXCEPT !.results = results] =
            [lib |-> l.lib, addresses |-> l.addresses, results |-> results,
             symbols |-> l.symbols \ {address}, debug |-> l.debug]
      BY <2>2
    <2>6. lookup' = {[k EXCEPT !.results = results]}
      BY <1>2, <2>4, Zenon DEF entry
    <2> QED
      BY <2>5, <2>6 DEF results
  <1>8. /\ m = [lib |-> m.lib, addresses |-> m.addresses, results |-> m.results,
                symbols |-> m.symbols, debug |-> m.debug]
        /\ m.lib = l.lib /\ m.addresses = l.addresses
        /\ m.results = [l.results EXCEPT ![address] = entry]
        /\ m.symbols = l.symbols \ {address} /\ m.debug = l.debug
    BY Zenon
  <1> HIDE DEF entry, m, file, addresses, here
  <1>9. m.results[address] = entry => EntryInv(m, asked, here, address)
    BY <1>1, <1>4, <1>6, <1>8 DEF EntryInv, FullEntry
  <1>10. IsLookup(m, asked, file, addresses)
    BY <1>3, <1>4, <1>8, <1>9, OneEntryChanges DEF here
  <1> QED
    BY <1>1, <1>7, <1>8, <1>10, StepOfLookup DEF file, addresses

LEMMA AddAddressDebugInfoKeeps ==
  ASSUME Inv, NEW address, AddAddressDebugInfo(address)
  PROVE  Inv'
  <1>1. PICK l \in lookup :
          /\ address \in l.debug \ l.symbols
          /\ \E frames \in known[l.lib][address].frames :
               lookup' = {[l EXCEPT
                 !.debug = @ \ {address},
                 !.results[address] = {WithDebugInfo(@, address, frames)}]}
          /\ UNCHANGED <<gathered, known, symbolicated, outcome, response>>
    BY Zenon DEF AddAddressDebugInfo
  <1> DEFINE asked == request.with_debug_info
             file == known[l.lib]
             addresses == requested[l.lib]
             here == file[address]
  <1>a. address \in l.debug /\ address \notin l.symbols
    BY <1>1, Zenon
  <1>2. PICK frames \in here.frames :
          lookup' = {[l EXCEPT
            !.debug = @ \ {address},
            !.results[address] = {WithDebugInfo(@, address, frames)}]}
    BY <1>1, Zenon
  <1>3. IsLookup(l, asked, file, addresses) /\ l.lib \in DOMAIN requested
    BY DEF Inv, LookupInv
  <1>4. /\ address \in ToSet(addresses) /\ here \in KnownAt(address)
        /\ EntryInv(l, asked, here, address)
    BY <1>a, <1>3 DEF IsLookup, IsFileOf
  <1>5. address \in Addresses
    BY <1>3, <1>4, AskedAddresses
  <1>6. HasDebugInfo(asked, here) /\ l.results[address] = SymbolEntry(here)
    BY <1>a, <1>4 DEF EntryInv
  <1> DEFINE entry == {WithDebugInfo(l.results[address], address, frames)}
             m == [lib |-> l.lib, addresses |-> l.addresses,
                   results |-> [l.results EXCEPT ![address] = entry],
                   symbols |-> l.symbols, debug |-> l.debug \ {address}]
  <1>7. FullEntry(asked, here, address) = entry
    <2>1. frames \in here.frames
      OBVIOUS
    <2> HIDE DEF here, asked
    <2>2. FullEntry(asked, here, address) = {WithDebugInfo(SymbolEntry(here), address, frames)}
      BY <1>4, <1>5, <1>6, <2>1, OneListOfFrames
    <2> QED
      BY <1>6, <2>2
  <1>8. lookup' = {m}
    <2>1. l = [lib |-> l.lib, addresses |-> l.addresses, results |-> l.results,
               symbols |-> l.symbols, debug |-> l.debug]
      BY <1>3 DEF IsLookup
    <2> DEFINE k == [l EXCEPT !.debug = l.debug \ {address}]
               results == [l.results EXCEPT ![address] = entry]
    <2>2. k = [lib |-> l.lib, addresses |-> l.addresses, results |-> l.results,
               symbols |-> l.symbols, debug |-> l.debug \ {address}]
      BY <2>1
    <2>3. k.results = l.results
      BY <2>2
    <2>4. [l EXCEPT !.debug = @ \ {address},
                    !.results[address] = {WithDebugInfo(@, address, frames)}] = [k EXCEPT !.results = results]
      BY <2>3
    <2> HIDE DEF k, results
    <2>5. [k EXCEPT !.results = results] =
            [lib |-> l.lib, addresses |-> l.addresses, results |-> results,
             symbols |-> l.symbols, debug |-> l.debug \ {address}]
      BY <2>2
    <2>6. lookup' = {[k EXCEPT !.results = results]}
      BY <1>2, <2>4, Zenon
    <2> QED
      BY <2>5, <2>6 DEF results
  <1>9. /\ m = [lib |-> m.lib, addresses |-> m.addresses, results |-> m.results,
                symbols |-> m.symbols, debug |-> m.debug]
        /\ m.lib = l.lib /\ m.addresses = l.addresses
        /\ m.results = [l.results EXCEPT ![address] = entry]
        /\ m.symbols = l.symbols /\ m.debug = l.debug \ {address}
    BY Zenon
  <1> HIDE DEF entry, m, file, addresses, here
  <1>10. m.results[address] = entry => EntryInv(m, asked, here, address)
    BY <1>a, <1>7, <1>9 DEF EntryInv
  <1>11. IsLookup(m, asked, file, addresses)
    BY <1>3, <1>4, <1>9, <1>10, OneEntryChanges DEF here
  <1> QED
    BY <1>1, <1>8, <1>9, <1>11, StepOfLookup DEF file, addresses

LEMMA FinishLookupKeeps ==
  ASSUME Inv, FinishLookup
  PROVE  Inv'
  <1>1. PICK l \in lookup :
          /\ l.symbols = {} /\ l.debug = {}
          /\ symbolicated' = With(symbolicated, l.lib, {l.results})
          /\ lookup' = {}
          /\ UNCHANGED <<gathered, known, outcome, response>>
    BY DEF FinishLookup
  <1> DEFINE asked == request.with_debug_info
             file == known[l.lib]
             addresses == ToSet(requested[l.lib])
  <1>2. /\ IsLookup(l, asked, file, requested[l.lib]) /\ l.lib \in DOMAIN requested
        /\ l.lib \in DOMAIN known /\ outcome = "LookingUp"
    BY DEF Inv, LookupInv, PhaseInv
  <1>3. request' = request /\ requested' = requested /\ known' = known
    BY <1>1 DEF gathered
  <1>4. IsDone(l.results, asked, file, addresses)
    <2>1. /\ l.results = [a \in addresses |-> l.results[a]] /\ IsFileOf(file, addresses)
          /\ \A a \in addresses : EntryInv(l, asked, file[a], a)
      BY <1>2 DEF IsLookup
    <2> HIDE DEF asked, file, addresses
    <2>2. \A a \in addresses : l.results[a] = FullEntry(asked, file[a], a)
      BY <1>1, <2>1 DEF EntryInv
    <2>3. l.results = [a \in addresses |-> FullEntry(asked, file[a], a)]
      BY <2>1, <2>2
    <2> QED
      BY <2>1, <2>3 DEF IsDone, AnswersOf
  <1>5. /\ DOMAIN symbolicated' = DOMAIN symbolicated \cup {l.lib}
        /\ symbolicated'[l.lib] = {l.results}
        /\ \A other \in DOMAIN symbolicated :
             other # l.lib => symbolicated'[other] = symbolicated[other]
    BY <1>1 DEF With
  <1>6. DoneInv'
    <2>1. ASSUME NEW lib \in DOMAIN symbolicated'
          PROVE  /\ lib \in DOMAIN requested
                 /\ symbolicated'[lib] # {} =>
                      /\ lib \in DOMAIN known
                      /\ \E results :
                           /\ symbolicated'[lib] = {results}
                           /\ IsDone(results, asked, known[lib], ToSet(requested[lib]))
      <3>1. CASE lib = l.lib
        BY <1>2, <1>4, <1>5, <3>1
      <3>2. CASE lib # l.lib
        BY <1>5, <3>2 DEF Inv, DoneInv
      <3> QED
        BY <3>1, <3>2
    <2> QED
      BY <1>3, <2>1 DEF DoneInv
  <1>7. LookupInv'
    BY <1>1 DEF LookupInv
  <1> QED
    BY <1>1, <1>2, <1>6, <1>7, LookupKeeps

LEMMA FailLookupKeeps ==
  ASSUME Inv, FailLookup
  PROVE  Inv'
  <1>1. PICK l \in lookup :
          /\ symbolicated' = With(symbolicated, l.lib, {}) /\ lookup' = {}
          /\ UNCHANGED <<gathered, known, outcome, response>>
    BY DEF FailLookup
  <1>2. l.lib \in DOMAIN requested /\ outcome = "LookingUp"
    BY DEF Inv, LookupInv, PhaseInv
  <1> QED
    BY <1>1, <1>2, FailureKeeps

-----------------------------------------------------------------------------
(* The response *)

\* The results of an address never make the response panic.
LEMMA EntriesArePlain ==
  ASSUME NEW asked, NEW a \in Addresses, NEW here \in KnownAt(a), NEW result \in FullEntry(asked, here, a)
  PROVE  /\ result.inline_frames # {<< >>}
         /\ result.symbol_address \in Nat /\ result.symbol_address <= a
  <1>1. a \in Nat
    BY AddressesAreNumbers
  <1>2. ASSUME NEW symbol \in here.symbol, NEW e,
               e = [symbol_address |-> symbol.address, symbol_name |-> symbol.name, inline_frames |-> {}]
        PROVE  /\ e.inline_frames = {} /\ e.symbol_address = symbol.address
               /\ e.symbol_address \in Nat /\ e.symbol_address <= a
    BY <1>2, OneSymbol
  <1>3. CASE ~HasDebugInfo(asked, here)
    <2>1. PICK symbol \in here.symbol :
            result = [symbol_address |-> symbol.address, symbol_name |-> symbol.name,
                      inline_frames |-> {}]
      BY <1>3 DEF FullEntry, SymbolEntry
    <2> QED
      BY <1>2, <2>1
  <1>4. CASE HasDebugInfo(asked, here)
    <2>1. PICK frames \in here.frames : result = WithDebugInfo(SymbolEntry(here), a, frames)
      BY <1>4 DEF FullEntry
    <2>2. frames # << >>
      BY <1>4, OneListOfFrames
    <2>3. CASE here.symbol = {}
      <3>1. SymbolEntry(here) = {}
        BY <2>3 DEF SymbolEntry
      <3>2. result = [symbol_address |-> a, symbol_name |-> OuterName(frames, HexName(a)),
                      inline_frames |-> {frames}]
        BY <2>1, <3>1 DEF WithDebugInfo
      <3> QED
        BY <1>1, <2>2, <3>2
    <2>4. CASE here.symbol # {}
      <3>1. PICK symbol \in here.symbol : TRUE
        BY <2>4
      <3> DEFINE e == [symbol_address |-> symbol.address, symbol_name |-> symbol.name,
                       inline_frames |-> {}]
      <3>2. SymbolEntry(here) = {e}
        BY OneSymbol
      <3>3. e.symbol_address \in Nat /\ e.symbol_address <= a
        BY OneSymbol
      <3>4. result = [symbol_address |-> symbol.address,
                      symbol_name |-> OuterName(frames, symbol.name), inline_frames |-> {frames}]
        <4>1. WithDebugInfo({e}, a, frames) =
                [symbol_address |-> symbol.address,
                 symbol_name |-> OuterName(frames, symbol.name), inline_frames |-> {frames}]
          BY DebugInfoOfSymbol
        <4> HIDE DEF e
        <4> QED
          BY <2>1, <3>2, <4>1
      <3> QED
        BY <2>2, <3>3, <3>4
    <2> QED
      BY <2>3, <2>4
  <1> QED
    BY <1>3, <1>4

\* What the response takes for the symbols of the module of a frame.
LEMMA SymbolsOfFrame ==
  ASSUME Inv, outcome \in {"LookingUp", "Answered"}, DOMAIN requested \subseteq DOMAIN symbolicated,
         NEW n \in 1 .. JobCount, NEW frame \in Frames(n)
  PROVE  LET symbols == SymbolsByModule(MapOf(n))
             i == frame.module_index
             lib == LibOf(n, frame)
             addresses == ToSet(requested[lib])
         IN  /\ i \in Nat /\ i < Len(MapOf(n))
             /\ lib \in DOMAIN symbolicated /\ frame.address \in addresses
             /\ addresses \subseteq Addresses
             /\ i \in DOMAIN symbols <=> symbolicated[lib] # {}
             /\ i \in DOMAIN symbols =>
                  /\ IsFileOf(known[lib], addresses)
                  /\ symbols[i] = AnswersOf(request.with_debug_info, known[lib], addresses)
  <1> DEFINE memory == MapOf(n)
             symbols == SymbolsByModule(memory)
             i == frame.module_index
             lib == LibOf(n, frame)
             addresses == ToSet(requested[lib])
             found == {m \in DOMAIN memory :
                         memory[m] \in DOMAIN symbolicated /\ symbolicated[memory[m]] # {}}
  <1>1. /\ request \in Requests /\ n \in 1 .. job /\ DOMAIN by_module = {}
    BY DEF Inv, GatherInv, PhaseInv
  <1>2. Gathered(n, frame)
    BY <1>1 DEF Inv, GatherInv, Pending
  <1>3. /\ i \in Nat /\ i < Len(memory) /\ Len(memory) \in Nat /\ DOMAIN memory = 1 .. Len(memory)
        /\ lib = memory[i + 1] /\ lib \in DOMAIN requested /\ frame.address \in addresses
    BY <1>1, <1>2, RequestTypes DEF Gathered, InMap, LibOf
  <1>4. lib \in DOMAIN symbolicated /\ addresses \subseteq Addresses
    BY <1>3, AskedAddresses
  <1> HIDE DEF memory, lib, i
  <1>5. i + 1 \in DOMAIN memory /\ \A m \in DOMAIN memory : m - 1 = i => m = i + 1
    BY <1>3
  <1>6. symbols = [k \in {m - 1 : m \in found} |->
                     CHOOSE results \in symbolicated[memory[k + 1]] : TRUE]
    BY DEF SymbolsByModule
  <1>7. DOMAIN symbols = {m - 1 : m \in found}
    BY <1>6
  <1>8. i \in DOMAIN symbols <=> symbolicated[lib] # {}
    <2>1. i \in DOMAIN symbols => i + 1 \in found
      BY <1>5, <1>7
    <2>2. (i + 1) - 1 = i
      BY <1>3
    <2>3. i + 1 \in found => i \in DOMAIN symbols
      BY <1>7, <2>2
    <2>4. i + 1 \in found <=> symbolicated[lib] # {}
      BY <1>3, <1>4, <1>5
    <2> QED
      BY <2>1, <2>3, <2>4
  <1>9. ASSUME i \in DOMAIN symbols
        PROVE  /\ IsFileOf(known[lib], addresses)
               /\ symbols[i] = AnswersOf(request.with_debug_info, known[lib], addresses)
    <2>1. PICK results : /\ symbolicated[lib] = {results}
                         /\ IsDone(results, request.with_debug_info, known[lib], addresses)
      BY <1>4, <1>8, <1>9 DEF Inv, DoneInv
    <2>2. symbols[i] = CHOOSE r \in symbolicated[lib] : TRUE
      BY <1>3, <1>6, <1>7, <1>9
    <2>3. symbols[i] = results
      BY <2>1, <2>2
    <2> QED
      BY <2>1, <2>3 DEF IsDone
  <1> QED
    BY <1>3, <1>4, <1>8, <1>9 DEF memory, lib, i

\* The addresses of the frames were looked up in the lists of frames' libraries, so that every
\* index is there and no subtraction is below zero.
LEMMA NoFramePanics ==
  ASSUME Inv, outcome = "LookingUp", DOMAIN requested \subseteq DOMAIN symbolicated,
         NEW n \in 1 .. JobCount, NEW frame \in Frames(n)
  PROVE  ~FramePanics(MapOf(n), frame)
  <1> DEFINE symbols == SymbolsByModule(MapOf(n))
             i == frame.module_index
             lib == LibOf(n, frame)
             addresses == ToSet(requested[lib])
             file == known[lib]
             a == frame.address
             asked == request.with_debug_info
  <1>1. /\ i \in Nat /\ i < Len(MapOf(n)) /\ Len(MapOf(n)) \in Nat
        /\ a \in addresses /\ addresses \subseteq Addresses
        /\ i \in DOMAIN symbols =>
             /\ IsFileOf(file, addresses) /\ symbols[i] = AnswersOf(asked, file, addresses)
    BY SymbolsOfFrame, RequestTypes DEF Inv, GatherInv
  <1>2. /\ ~(i >= Len(MapOf(n)))
    BY <1>1
  <1>3. ASSUME i \in DOMAIN symbols
        PROVE  /\ a \in DOMAIN symbols[i]
               /\ \A result \in symbols[i][a] :
                    ~(result.inline_frames = {<< >>}) /\ ~(result.symbol_address > a)
    <2> HIDE DEF symbols, i, addresses, file, a, asked
    <2>1. a \in DOMAIN symbols[i] /\ symbols[i][a] = FullEntry(asked, file[a], a)
      BY <1>1, <1>3 DEF AnswersOf
    <2>2. file[a] \in KnownAt(a) /\ a \in Addresses /\ a \in Nat
      BY <1>1, <1>3, AddressesAreNumbers DEF IsFileOf
    <2>3. \A result \in FullEntry(asked, file[a], a) :
            /\ result.inline_frames # {<< >>}
            /\ result.symbol_address \in Nat /\ result.symbol_address <= a
      BY <2>2, EntriesArePlain
    <2>4. \A result \in FullEntry(asked, file[a], a) : ~(result.symbol_address > a)
      BY <2>2, <2>3
    <2> QED
      BY <2>1, <2>3, <2>4
  <1> QED
    BY <1>2, <1>3 DEF FramePanics

LEMMA CreateResponseKeeps ==
  ASSUME Inv, CreateResponse
  PROVE  Inv'
  <1>1. GatherInv' /\ JobCount' = JobCount /\ job' = job /\ by_module' = by_module /\ request' = request
        /\ requested' = requested
    BY GatheredStays DEF Inv, CreateResponse, gathered, JobCount
  <1>2. /\ outcome = "LookingUp" /\ lookup' = lookup /\ lookup = {} /\ known' = known
        /\ symbolicated' = symbolicated /\ DOMAIN requested \subseteq DOMAIN symbolicated
    BY DEF CreateResponse, gathered
  <1> DEFINE Panics == \E j \in ToSet(request.jobs) : \E frame \in FramesOf(j) :
                         FramePanics(j.memory_map, frame)
             results == [n \in DOMAIN request.jobs |-> ResultForJob(request.jobs[n])]
  <1>3. ~Panics
    <2>1. ASSUME NEW j \in ToSet(request.jobs), NEW frame \in FramesOf(j)
          PROVE  ~FramePanics(j.memory_map, frame)
      <3>1. PICK n \in 1 .. JobCount : j = request.jobs[n]
        BY RequestTypes DEF Inv, GatherInv, ToSet
      <3>2. frame \in Frames(n) /\ j.memory_map = MapOf(n)
        BY <3>1 DEF Frames, MapOf
      <3> QED
        BY <1>2, <3>2, NoFramePanics
    <2> QED
      BY <2>1
  <1>4. IF Panics THEN outcome' = "Panicked" /\ UNCHANGED response
        ELSE outcome' = "Answered" /\ response' = results
    BY Zenon DEF CreateResponse
  <1>5. outcome' = "Answered" /\ response' = results
    <2> HIDE DEF Panics, results
    <2> QED
      BY <1>3, <1>4
  <1>6. \A j : ResultForJob(j)' = ResultForJob(j)
    BY <1>2, ResultsStay
  <1>7. AnswerInv'
    BY <1>1, <1>2, <1>5, <1>6 DEF AnswerInv
  <1>8. LookupInv' /\ DoneInv'
    BY <1>1, <1>2 DEF Inv, LookupInv, DoneInv
  <1>9. PhaseInv'
    <2> HIDE DEF results
    <2> QED
      BY <1>1, <1>2, <1>5 DEF Inv, PhaseInv
  <1> QED
    BY <1>1, <1>7, <1>8, <1>9 DEF Inv

LEMMA NextKeeps ==
  ASSUME Inv, [Next]_vars
  PROVE  Inv'
  <1>1. CASE StartJob
    BY <1>1, StartJobKeeps
  <1>2. CASE FinishGathering
    BY <1>2, FinishGatheringKeeps
  <1>3. CASE \E i \in DOMAIN by_module : GatherModule(i) \/ RefuseRequest(i)
    BY <1>3, GatherModuleKeeps, RefuseRequestKeeps
  <1>4. CASE \E lib \in DOMAIN requested : RefuseId(lib) \/ StartLookup(lib)
    <2>1. ASSUME NEW lib \in DOMAIN requested, RefuseId(lib) PROVE Inv'
      <3>1. /\ outcome = "LookingUp" /\ symbolicated' = With(symbolicated, lib, {})
            /\ lookup' = {} /\ UNCHANGED <<gathered, known, outcome, response>>
        BY <2>1 DEF RefuseId, Waiting
      <3> QED
        BY <3>1, FailureKeeps
    <2> QED
      BY <1>4, <2>1, StartLookupKeeps
  <1>5. CASE \E l \in lookup : \E address \in DOMAIN l.results :
               AddAddressSymbol(address) \/ AddAddressDebugInfo(address)
    BY <1>5, AddAddressSymbolKeeps, AddAddressDebugInfoKeeps
  <1>6. CASE FinishLookup \/ FailLookup
    BY <1>6, FinishLookupKeeps, FailLookupKeeps
  <1>7. CASE CreateResponse
    BY <1>7, CreateResponseKeeps
  <1>8. CASE UNCHANGED vars
    <2>1. /\ UNCHANGED <<request, job, by_module, requested, lookup, known, symbolicated,
                         outcome, response>>
          /\ UNCHANGED gathered
      BY <1>8 DEF vars, gathered
    <2>2. GatherInv' /\ (Wrong' <=> Wrong)
      BY <2>1, GatheredStays DEF Inv
    <2>3. \A j : ResultForJob(j)' = ResultForJob(j)
      BY <2>1, ResultsStay
    <2>4. AnswerInv'
      BY <2>1, <2>3 DEF Inv, AnswerInv
    <2>5. PhaseInv'
      BY <2>1, <2>2 DEF Inv, PhaseInv, JobCount
    <2>6. LookupInv' /\ DoneInv'
      BY <2>1 DEF Inv, LookupInv, DoneInv
    <2> QED
      BY <2>2, <2>4, <2>5, <2>6 DEF Inv
  <1> QED
    BY <1>1, <1>2, <1>3, <1>4, <1>5, <1>6, <1>7, <1>8 DEF Next, Terminated

LEMMA InvHolds == Spec => []Inv
  BY InitHolds, NextKeeps, PTL DEF Spec

-----------------------------------------------------------------------------
(* Refused requests *)

\* For every request: it is refused exactly if a frame is in a module beyond its memory map, and
\* then before any lookup.
THEOREM RequestsAreRefusedWhole == Spec => []RefusedAsAWhole
  <1>1. Inv => RefusedAsAWhole
    <2> SUFFICES ASSUME Inv PROVE RefusedAsAWhole
      OBVIOUS
    <2>1. outcome \in {"LookingUp", "Answered"} => ~Wrong
      BY DEF Inv, GatherInv, PhaseInv, Wrong, Pending, Gathered
    <2>2. request \in Requests /\ (outcome = "Refused" => Wrong /\ known = Empty)
      BY DEF Inv, GatherInv, PhaseInv
    <2> QED
      BY <2>1, <2>2, WrongIsNumbered DEF RefusedAsAWhole
  <1> QED
    BY <1>1, InvHolds, PTL
-----------------------------------------------------------------------------
(* Errors *)

Around(s, mark, u) == s \o <<mark>> \o u
IsAround(whole, s, mark, u) ==
  /\ \A i \in 1 .. Len(s) : whole[i] = s[i]
  /\ whole[Len(s) + 1] = mark /\ Len(whole) = Len(s) + 1 + Len(u)
  /\ \A i \in 1 .. Len(u) : whole[Len(s) + 1 + i] = u[i]

LEMMA AroundMark ==
  ASSUME NEW S, NEW s \in Seq(S), NEW u \in Seq(S), NEW c \in S
  PROVE  IsAround(Around(s, c, u), s, c, u)
  <1> DEFINE start == s \o <<c>>
  <1>1. /\ start \in Seq(S) /\ Len(start) = Len(s) + 1 /\ start[Len(s) + 1] = c
        /\ \A i \in 1 .. Len(s) : start[i] = s[i]
    OBVIOUS
  <1> HIDE DEF start
  <1> DEFINE whole == start \o u
  <1>2. /\ Len(whole) = Len(start) + Len(u) /\ \A i \in 1 .. Len(start) : whole[i] = start[i]
        /\ \A i \in 1 .. Len(u) : whole[Len(start) + i] = u[i]
    <2>1. /\ Len(whole) = Len(start) + Len(u) /\ Len(start) \in Nat /\ Len(u) \in Nat
          /\ \A i \in 1 .. Len(whole) :
               whole[i] = IF i <= Len(start) THEN start[i] ELSE u[i - Len(start)]
      BY <1>1, SMTT(20)
    <2> HIDE DEF whole
    <2>2. \A i \in 1 .. Len(start) : i \in 1 .. Len(whole) /\ i <= Len(start)
      BY <2>1
    <2>3. \A i \in 1 .. Len(u) : /\ Len(start) + i \in 1 .. Len(whole)
                                 /\ ~(Len(start) + i <= Len(start)) /\ (Len(start) + i) - Len(start) = i
      BY <2>1
    <2> QED
      BY <2>1, <2>2, <2>3
  <1> HIDE DEF whole
  <1>3. IsAround(whole, s, c, u)
    BY <1>1, <1>2 DEF IsAround
  <1> QED
    BY <1>3 DEF whole, start, Around

\* What is before the first mark and what is behind it, in two ways to write the same.
LEMMA FirstMark ==
  ASSUME NEW S, NEW s \in Seq(S), NEW t \in Seq(S), NEW u \in Seq(S), NEW v \in Seq(S),
         NEW c \in S, ~Contains(s, c), ~Contains(t, c), Around(s, c, u) = Around(t, c, v)
  PROVE  s = t /\ u = v
  <1> DEFINE whole == Around(s, c, u)
  <1>1. IsAround(whole, s, c, u)
    BY AroundMark, Zenon
  <1>2. IsAround(whole, t, c, v)
    <2>1. IsAround(Around(t, c, v), t, c, v)
      BY AroundMark, Zenon
    <2> QED
      BY <2>1
  <1> HIDE DEF whole
  <1>3. /\ Len(s) \in Nat /\ Len(t) \in Nat /\ Len(u) \in Nat /\ Len(v) \in Nat
        /\ \A i \in 1 .. Len(s) : s[i] # c
        /\ \A i \in 1 .. Len(t) : t[i] # c
    BY DEF Contains
  <1>4. Len(s) = Len(t)
    <2>1. ASSUME Len(s) < Len(t) PROVE FALSE
      <3>1. Len(s) + 1 \in 1 .. Len(t)
        BY <1>3, <2>1
      <3> QED
        BY <1>1, <1>2, <1>3, <3>1 DEF IsAround
    <2>2. ASSUME Len(t) < Len(s) PROVE FALSE
      <3>1. Len(t) + 1 \in 1 .. Len(s)
        BY <1>3, <2>2
      <3> QED
        BY <1>1, <1>2, <1>3, <3>1 DEF IsAround
    <2> QED
      BY <1>3, <2>1, <2>2
  <1>5. Len(u) = Len(v)
    BY <1>1, <1>2, <1>3, <1>4 DEF IsAround
  <1>6. \A i \in 1 .. Len(s) : s[i] = t[i]
    BY <1>1, <1>2, <1>4 DEF IsAround
  <1>7. \A i \in 1 .. Len(u) : u[i] = v[i]
    BY <1>1, <1>2, <1>4, <1>5 DEF IsAround
  <1>8. s = t
    BY <1>4, <1>6, SameElements
  <1>9. u = v
    BY <1>5, <1>7, SameElements
  <1> QED
    BY <1>8, <1>9

\* The slash in a key is the first one, so that the key tells the name from the id.
LEMMA KeysAreUnique ==
  ASSUME NEW a \in Libs, NEW b \in Libs, ModuleKey(a) = ModuleKey(b)
  PROVE  a = b
  <1> DEFINE name(lib) == lib.debug_name
             id(lib) == lib.breakpad_id
             letters == UNION {ToSet(name(a)), ToSet(id(a)), ToSet(name(b)), ToSet(id(b)), {Slash}}
  <1>1. /\ name(a) \in Seq(letters) /\ name(b) \in Seq(letters)
        /\ id(a) \in Seq(letters) /\ id(b) \in Seq(letters) /\ Slash \in letters
    BY RequestAssumption DEF Listed
  <1>2. ~Contains(name(a), Slash) /\ ~Contains(name(b), Slash)
    BY RequestAssumption
  <1>3. Around(name(a), Slash, id(a)) = Around(name(b), Slash, id(b))
    BY DEF ModuleKey, Around
  <1>4. a = [debug_name |-> name(a), breakpad_id |-> id(a)]
        /\ b = [debug_name |-> name(b), breakpad_id |-> id(b)]
    BY RequestAssumption
  <1> HIDE DEF name, id, letters
  <1>5. name(a) = name(b) /\ id(a) = id(b)
    BY <1>1, <1>2, <1>3, FirstMark
  <1> QED
    BY <1>4, <1>5

LEMMA LastElement ==
  ASSUME NEW N \in Nat, NEW S, S \subseteq 1 .. N, S # {}
  PROVE  \E k \in S : \A l \in S : l <= k
  <1> DEFINE fromEnd == {N - l : l \in S}
  <1>1. \A l \in S : l \in Nat /\ N - l \in Nat /\ N - l \in fromEnd
    OBVIOUS
  <1>2. fromEnd \subseteq Nat /\ fromEnd # {}
    BY <1>1
  <1>3. PICK d \in fromEnd : \A e \in fromEnd : d <= e
    BY <1>2, LeastElement
  <1>4. PICK k \in S : d = N - k
    BY <1>3
  <1> HIDE DEF fromEnd
  <1>5. ASSUME NEW l \in S PROVE l <= k
    <2>1. N - k <= N - l /\ k \in Nat /\ l \in Nat
      BY <1>1, <1>3, <1>4
    <2> QED
      BY <2>1
  <1> QED
    BY <1>5

\* A map tells of each of its libraries what its own lookup gave.
LEMMA FoundIsOwn ==
  ASSUME request \in Requests, NEW n \in 1 .. JobCount, NEW m \in LookedUp(MapOf(n))
  PROVE  FoundModules(MapOf(n))[ModuleKey(MapOf(n)[m])] = (symbolicated[MapOf(n)[m]] # {})
  <1> DEFINE memory == MapOf(n)
             key == ModuleKey(memory[m])
             named == {k \in LookedUp(memory) : ModuleKey(memory[k]) = key}
             last == CHOOSE k \in named : \A l \in named : l <= k
  <1>1. Len(memory) \in Nat /\ named \subseteq 1 .. Len(memory) /\ m \in named
    BY RequestTypes DEF LookedUp
  <1>2. last \in named
    <2>1. \E k \in named : \A l \in named : l <= k
      BY <1>1, LastElement
    <2> QED
      BY <2>1
  <1>3. last \in DOMAIN memory /\ m \in DOMAIN memory /\ ModuleKey(memory[last]) = key
    BY <1>2 DEF LookedUp
  <1>4. memory[last] = memory[m]
    BY <1>3, LibsOfRequest, KeysAreUnique
  <1>5. FoundModules(memory)[key] = (symbolicated[memory[last]] # {})
    BY DEF FoundModules
  <1> QED
    BY <1>4, <1>5

\* For every request whose names have no slash and all failures of its lookups: each module of a
\* frame is listed, and an error comes with exactly those that were not found.
THEOREM ErrorsAreExplained == Spec => []ErrorsExplainMissingModules
  <1>1. Inv => ErrorsExplainMissingModules
    <2> SUFFICES ASSUME Inv, outcome = "Answered", NEW n \in 1 .. JobCount
                 PROVE  /\ \A frame \in Frames(n) :
                             ModuleKey(LibOf(n, frame)) \in DOMAIN response[n].found_modules
                        /\ response[n].module_errors =
                             {key \in DOMAIN response[n].found_modules :
                                ~response[n].found_modules[key]}
      BY RequestTypes DEF ErrorsExplainMissingModules, Inv, GatherInv, Frames, LibOf, MapOf
    <2> DEFINE memory == MapOf(n)
               found == FoundModules(memory)
    <2>1. request \in Requests /\ response[n] = ResultForJob(request.jobs[n])
      BY RequestTypes DEF Inv, GatherInv, AnswerInv
    <2>2. response[n].found_modules = found /\ response[n].module_errors = ModuleErrors(memory)
      BY <2>1 DEF ResultForJob, MapOf
    <2>3. DOMAIN found = {ModuleKey(memory[m]) : m \in LookedUp(memory)}
      BY DEF FoundModules
    <2>4. ASSUME NEW frame \in Frames(n) PROVE ModuleKey(LibOf(n, frame)) \in DOMAIN found
      <3>1. n \in 1 .. job /\ DOMAIN by_module = {} /\ DOMAIN requested \subseteq DOMAIN symbolicated
        BY DEF Inv, PhaseInv, AnswerInv
      <3>2. Gathered(n, frame)
        BY <3>1 DEF Inv, GatherInv, Pending
      <3>3. frame.module_index \in Nat /\ Len(memory) \in Nat /\ DOMAIN memory = 1 .. Len(memory)
        BY <2>1, RequestTypes
      <3>4. frame.module_index + 1 \in LookedUp(memory)
        BY <3>1, <3>2, <3>3 DEF Gathered, InMap, LibOf, LookedUp
      <3> QED
        BY <2>3, <3>4 DEF LibOf
    <2>5. \A m \in LookedUp(memory) : found[ModuleKey(memory[m])] = (symbolicated[memory[m]] # {})
      BY <2>1, FoundIsOwn
    <2>6. ModuleErrors(memory) =
            {ModuleKey(memory[m]) : m \in {m \in LookedUp(memory) : symbolicated[memory[m]] = {}}}
      BY DEF ModuleErrors
    <2> HIDE DEF found
    <2>7. ModuleErrors(memory) = {key \in DOMAIN found : ~found[key]}
      <3>1. ASSUME NEW key PROVE key \in ModuleErrors(memory) <=> key \in DOMAIN found /\ ~found[key]
        <4>1. ASSUME key \in ModuleErrors(memory) PROVE key \in DOMAIN found /\ ~found[key]
          <5>1. PICK m \in LookedUp(memory) :
                  symbolicated[memory[m]] = {} /\ key = ModuleKey(memory[m])
            BY <2>6, <4>1
          <5>2. found[key] = (symbolicated[memory[m]] # {})
            BY <2>5, <5>1
          <5> QED
            BY <2>3, <5>1, <5>2
        <4>2. ASSUME key \in DOMAIN found, ~found[key] PROVE key \in ModuleErrors(memory)
          <5>1. PICK m \in LookedUp(memory) : key = ModuleKey(memory[m])
            BY <2>3, <4>2
          <5>2. found[key] = (symbolicated[memory[m]] # {})
            BY <2>5, <5>1
          <5> QED
            BY <2>6, <4>2, <5>1, <5>2
        <4> QED
          BY <4>1, <4>2
      <3> QED
        BY <3>1
    <2> QED
      BY <2>2, <2>4, <2>7
  <1> QED
    BY <1>1, InvHolds, PTL

-----------------------------------------------------------------------------
(* Lookups and answers *)

\* For every request whose symbols start at or before their addresses: no index, unwrap or
\* subtraction of the response goes wrong, whatever failed before.
THEOREM ResponsesNeverPanic == Spec => []NeverPanics
  <1>1. Inv => NeverPanics
    BY DEF Inv, PhaseInv, NeverPanics
  <1> QED
    BY <1>1, InvHolds, PTL

\* For every request: a library is looked up once, with its addresses strictly ascending.
THEOREM LookupsAscend == Spec => []LookupsAreAscending
  <1>1. Inv => LookupsAreAscending
    <2> SUFFICES ASSUME Inv, NEW l \in lookup
                 PROVE  /\ l.lib \in DOMAIN requested \ DOMAIN symbolicated
                        /\ \A m, n \in DOMAIN l.addresses : m < n => l.addresses[m] < l.addresses[n]
      BY DEF LookupsAreAscending
    <2> DEFINE sorted == SortAndDedup(requested[l.lib])
    <2>1. l.lib \in DOMAIN requested \ DOMAIN symbolicated /\ l.addresses = sorted
      BY DEF Inv, LookupInv, IsLookup
    <2>2. /\ sorted \in Seq(Int)
          /\ \A m, n \in 1 .. Len(sorted) : m < n => sorted[m] < sorted[n]
      BY <2>1, AskedAddresses, AddressesAreSorted
    <2> HIDE DEF sorted
    <2> QED
      BY <2>1, <2>2, ListIsFunction
  <1> QED
    BY <1>1, InvHolds, PTL

LEMMA OnlyElement ==
  ASSUME NEW x, NEW S, S = {x}
  PROVE  (CHOOSE y \in S : TRUE) = x
  OBVIOUS

LEMMA SameChoice ==
  ASSUME NEW S, NEW T, S = T
  PROVE  (CHOOSE y \in S : TRUE) = (CHOOSE y \in T : TRUE)
  OBVIOUS

\* The name that the debug info or the symbol gives is the one that the response shows.
LEMMA SaysWhatIsKnown ==
  ASSUME NEW frame, frame.address \in Addresses, NEW here \in KnownAt(frame.address)
  PROVE  {ResponseSymbol(frame, result) :
            result \in FullEntry(request.with_debug_info, here, frame.address)}
           = SaysOf(here, frame.address)
  <1> DEFINE a == frame.address
             asked == request.with_debug_info
             lists == IF asked THEN here.frames \ {<< >>} ELSE {}
             names == UNION {Last(f).function : f \in lists}
             Answer(name, start, debug) ==
               [function |-> name, function_offset |-> a - start, debug_info |-> debug]
             debugInfo == {[outer |-> Last(f), inlines |-> Front(f)] : f \in lists}
             theName == CHOOSE name \in
                          IF names # {} THEN names
                          ELSE IF here.symbol = {} THEN {<<"0x", a>>}
                          ELSE {s.name : s \in here.symbol} : TRUE
             theOffset == CHOOSE offset \in
                            IF here.symbol = {} THEN {0}
                            ELSE {a - s.address : s \in here.symbol} : TRUE
  <1>1. SaysOf(here, a) = IF here.symbol = {} /\ lists = {} THEN {}
                          ELSE {[function |-> theName, function_offset |-> theOffset,
                                 debug_info |-> debugInfo]}
    BY Zenon DEF SaysOf
  <1>2. a \in Nat /\ a - a = 0
    <2>1. a \in Nat
      BY AddressesAreNumbers
    <2> HIDE DEF a
    <2> QED
      BY <2>1
  <1>3. ASSUME NEW name, NEW start, NEW inline
        PROVE  ResponseSymbol(frame, [symbol_address |-> start, symbol_name |-> name,
                                      inline_frames |-> inline])
                 = Answer(name, start, {[outer |-> Last(f), inlines |-> Front(f)] : f \in inline})
    BY DEF ResponseSymbol
  <1>4. CASE ~HasDebugInfo(asked, here)
    <2>1. lists = {}
      BY <1>4 DEF HasDebugInfo
    <2>2. names = {} /\ debugInfo = {}
      BY <2>1
    <2>3. FullEntry(asked, here, a) = SymbolEntry(here)
      BY <1>4 DEF FullEntry
    <2>4. CASE here.symbol = {}
      BY <1>1, <2>1, <2>3, <2>4 DEF SymbolEntry
    <2>5. CASE here.symbol # {}
      <3>1. PICK symbol \in here.symbol : TRUE
        BY <2>5
      <3>2. /\ here.symbol = {symbol}
            /\ FullEntry(asked, here, a) = {[symbol_address |-> symbol.address,
                                             symbol_name |-> symbol.name, inline_frames |-> {}]}
        BY <2>3, OneSymbol
      <3>3. {s.name : s \in here.symbol} = {symbol.name}
            /\ {a - s.address : s \in here.symbol} = {a - symbol.address}
        BY <3>2
      <3>4. theName = symbol.name
        BY <2>2, <2>5, <3>3, OnlyElement
      <3>5. theOffset = a - symbol.address
        BY <2>5, <3>3, OnlyElement
      <3> HIDE DEF theName, theOffset, debugInfo, lists, names
      <3>6. SaysOf(here, a) = {Answer(symbol.name, symbol.address, {})}
        BY <1>1, <2>2, <2>5, <3>4, <3>5
      <3>7. ResponseSymbol(frame, [symbol_address |-> symbol.address,
                                   symbol_name |-> symbol.name, inline_frames |-> {}])
              = Answer(symbol.name, symbol.address, {})
        <4>1. {[outer |-> Last(f), inlines |-> Front(f)] : f \in {}} = {}
          OBVIOUS
        <4> QED
          BY <1>3, <4>1
      <3> QED
        BY <3>2, <3>6, <3>7
    <2> QED
      BY <2>4, <2>5
  <1>5. CASE HasDebugInfo(asked, here)
    <2>1. PICK frames \in here.frames : TRUE
      BY <1>5 DEF HasDebugInfo
    <2>2. /\ here.frames = {frames} /\ frames # << >>
          /\ FullEntry(asked, here, a) = {WithDebugInfo(SymbolEntry(here), a, frames)}
      <3>1. frames \in here.frames /\ a \in Addresses /\ here \in KnownAt(a)
        OBVIOUS
      <3> HIDE DEF asked, a
      <3>2. here.frames = {frames} /\ frames # << >>
        BY <1>5, <3>1, OneListOfFrames
      <3>3. FullEntry(asked, here, a) = {WithDebugInfo(SymbolEntry(here), a, frames)}
        BY <1>5, <3>2 DEF FullEntry
      <3> QED
        BY <3>2, <3>3
    <2>3. lists = {frames}
      BY <1>5, <2>2 DEF HasDebugInfo
    <2>4. names = Last(frames).function
      BY <2>3
    <2>5. debugInfo = {[outer |-> Last(f), inlines |-> Front(f)] : f \in {frames}}
      BY <2>3
    <2> DEFINE outer == Last(frames).function
    <2>6. CASE here.symbol = {}
      <3>1. SymbolEntry(here) = {}
        BY <2>6 DEF SymbolEntry
      <3>2. WithDebugInfo(SymbolEntry(here), a, frames) =
              [symbol_address |-> a, symbol_name |-> OuterName(frames, HexName(a)),
               inline_frames |-> {frames}]
        BY <3>1 DEF WithDebugInfo
      <3>3. theOffset = 0
        BY <2>6, OnlyElement
      <3>4. theName = OuterName(frames, HexName(a))
        <4>1. CASE outer = {}
          <5>1. theName = CHOOSE name \in {<<"0x", a>>} : TRUE
            BY <2>4, <2>6, <4>1
          <5>2. theName = <<"0x", a>>
            BY <5>1, OnlyElement
          <5> QED
            BY <4>1, <5>2 DEF OuterName, HexName
        <4>2. CASE outer # {}
          <5>1. names # {} /\ names = Last(frames).function
            BY <2>4, <4>2
          <5> HIDE DEF names
          <5>2. theName = CHOOSE name \in names : TRUE
            BY <5>1
          <5> HIDE DEF theName
          <5>3. theName = CHOOSE name \in Last(frames).function : TRUE
            BY <5>1, <5>2, SameChoice
          <5> QED
            BY <4>2, <5>3 DEF OuterName
        <4> QED
          BY <4>1, <4>2
      <3> HIDE DEF theName, theOffset, debugInfo, lists, names
      <3>5. SaysOf(here, a) = {Answer(OuterName(frames, HexName(a)), a, debugInfo)}
        BY <1>1, <1>2, <2>3, <3>3, <3>4
      <3>6. ResponseSymbol(frame, WithDebugInfo(SymbolEntry(here), a, frames))
              = Answer(OuterName(frames, HexName(a)), a, debugInfo)
        BY <1>3, <2>5, <3>2
      <3> QED
        BY <2>2, <3>5, <3>6
    <2>7. CASE here.symbol # {}
      <3>1. PICK symbol \in here.symbol : TRUE
        BY <2>7
      <3>2. /\ here.symbol = {symbol}
            /\ SymbolEntry(here) = {[symbol_address |-> symbol.address,
                                     symbol_name |-> symbol.name, inline_frames |-> {}]}
        BY OneSymbol
      <3>3. WithDebugInfo(SymbolEntry(here), a, frames) =
              [symbol_address |-> symbol.address, symbol_name |-> OuterName(frames, symbol.name),
               inline_frames |-> {frames}]
        <4>1. WithDebugInfo({[symbol_address |-> symbol.address,
                              symbol_name |-> symbol.name, inline_frames |-> {}]}, a, frames) =
                [symbol_address |-> symbol.address, symbol_name |-> OuterName(frames, symbol.name),
                 inline_frames |-> {frames}]
          BY DebugInfoOfSymbol
        <4> QED
          BY <3>2, <4>1, Zenon
      <3>4. theOffset = a - symbol.address
        <4>1. {a - s.address : s \in here.symbol} = {a - symbol.address}
          BY <3>2
        <4> QED
          BY <2>7, <4>1, OnlyElement
      <3>5. theName = OuterName(frames, symbol.name)
        <4>1. CASE outer = {}
          <5>1. {s.name : s \in here.symbol} = {symbol.name}
            BY <3>2
          <5>2. theName = CHOOSE name \in {symbol.name} : TRUE
            BY <2>4, <2>7, <4>1, <5>1
          <5>3. theName = symbol.name
            BY <5>2, OnlyElement
          <5> QED
            BY <4>1, <5>3 DEF OuterName
        <4>2. CASE outer # {}
          <5>1. names # {} /\ names = Last(frames).function
            BY <2>4, <4>2
          <5> HIDE DEF names
          <5>2. theName = CHOOSE name \in names : TRUE
            BY <5>1
          <5> HIDE DEF theName
          <5>3. theName = CHOOSE name \in Last(frames).function : TRUE
            BY <5>1, <5>2, SameChoice
          <5> QED
            BY <4>2, <5>3 DEF OuterName
        <4> QED
          BY <4>1, <4>2
      <3> HIDE DEF theName, theOffset, debugInfo, lists, names
      <3>6. SaysOf(here, a) = {Answer(OuterName(frames, symbol.name), symbol.address, debugInfo)}
        BY <1>1, <2>3, <3>4, <3>5
      <3>7. ResponseSymbol(frame, WithDebugInfo(SymbolEntry(here), a, frames))
              = Answer(OuterName(frames, symbol.name), symbol.address, debugInfo)
        BY <1>3, <2>5, <3>3
      <3> QED
        BY <2>2, <3>6, <3>7
    <2> QED
      BY <2>6, <2>7
  <1> QED
    BY <1>4, <1>5

\* For every request and all that the symbol files know: every frame is answered in its place with
\* what the file of its library says of its address, or without a symbol if the lookup failed.
THEOREM FramesAreAnsweredInPlace == Spec => []FramesAreAnswered
  <1>1. ASSUME Inv, outcome = "Answered", NEW n \in 1 .. JobCount,
               NEW s \in DOMAIN StacksOf(n), NEW f \in DOMAIN StacksOf(n)[s]
        PROVE  LET frame == StacksOf(n)[s][f]
                   lib == LibOf(n, frame)
               IN  ResponseFrame(MapOf(n), frame, f - 1) =
                     [frame |-> f - 1, module_offset |-> frame.address, module |-> lib.debug_name,
                      symbol |-> IF symbolicated[lib] = {} THEN {}
                                 ELSE SaysOf(known[lib][frame.address], frame.address)]
    <2> DEFINE frame == StacksOf(n)[s][f]
               lib == LibOf(n, frame)
               symbols == SymbolsByModule(MapOf(n))
               i == frame.module_index
               a == frame.address
               addresses == ToSet(requested[lib])
               asked == request.with_debug_info
    <2>1. request \in Requests /\ DOMAIN requested \subseteq DOMAIN symbolicated
      BY <1>1 DEF Inv, GatherInv, AnswerInv
    <2>2. frame \in Frames(n)
      <3>1. \E k \in DOMAIN FlattenSeq(StacksOf(n)) : FlattenSeq(StacksOf(n))[k] = frame
        BY <2>1, FramesAreListed, FlattenHolds
      <3> QED
        BY <3>1 DEF Frames, FramesOf, StacksOf, ToSet
    <2>3. /\ a \in addresses /\ addresses \subseteq Addresses
          /\ i \in DOMAIN symbols <=> symbolicated[lib] # {}
          /\ i \in DOMAIN symbols =>
               /\ IsFileOf(known[lib], addresses)
               /\ symbols[i] = AnswersOf(asked, known[lib], addresses)
      <3> HIDE DEF frame
      <3> QED
        BY <1>1, <2>1, <2>2, SymbolsOfFrame
    <2>4. ResponseFrame(MapOf(n), frame, f - 1) =
            [frame |-> f - 1, module_offset |-> a, module |-> lib.debug_name,
             symbol |-> IF i \notin DOMAIN symbols THEN {}
                        ELSE {ResponseSymbol(frame, result) : result \in symbols[i][a]}]
      BY DEF ResponseFrame, LibOf
    <2> HIDE DEF frame, lib, symbols, i, addresses
    <2>5. ASSUME i \in DOMAIN symbols
          PROVE  {ResponseSymbol(frame, result) : result \in symbols[i][a]} = SaysOf(known[lib][a], a)
      <3>1. symbols[i][a] = FullEntry(asked, known[lib][a], a)
        BY <2>3, <2>5 DEF AnswersOf
      <3>2. a \in Addresses /\ known[lib][a] \in KnownAt(a)
        BY <2>3, <2>5 DEF IsFileOf
      <3> QED
        BY <3>1, <3>2, SaysWhatIsKnown
    <2> QED
      BY <2>3, <2>4, <2>5 DEF frame, lib
  <1>2. Inv => FramesAreAnswered
    <2> SUFFICES ASSUME Inv, outcome = "Answered", NEW n \in DOMAIN request.jobs
                 PROVE  LET j == request.jobs[n] IN
                        /\ DOMAIN response[n].stacks = DOMAIN j.stacks
                        /\ \A s \in DOMAIN j.stacks :
                             /\ DOMAIN response[n].stacks[s] = DOMAIN j.stacks[s]
                             /\ \A f \in DOMAIN j.stacks[s] :
                                  LET frame == j.stacks[s][f]
                                      lib == j.memory_map[frame.module_index + 1]
                                  IN  response[n].stacks[s][f] =
                                        [frame |-> f - 1, module_offset |-> frame.address,
                                         module |-> lib.debug_name,
                                         symbol |-> IF symbolicated[lib] = {} THEN {}
                                                    ELSE SaysOf(known[lib][frame.address], frame.address)]
      BY Zenon DEF FramesAreAnswered
    <2>1. n \in 1 .. JobCount
      BY RequestTypes DEF Inv, GatherInv
    <2>2. response[n].stacks =
            [s \in DOMAIN StacksOf(n) |->
               [f \in DOMAIN StacksOf(n)[s] |-> ResponseFrame(MapOf(n), StacksOf(n)[s][f], f - 1)]]
      <3>1. response[n] = ResultForJob(request.jobs[n])
        BY DEF Inv, AnswerInv
      <3> QED
        BY <3>1 DEF ResultForJob, StacksOf, MapOf
    <2>3. DOMAIN response[n].stacks = DOMAIN StacksOf(n)
      BY <2>2
    <2>4. ASSUME NEW s \in DOMAIN StacksOf(n)
          PROVE  /\ DOMAIN response[n].stacks[s] = DOMAIN StacksOf(n)[s]
                 /\ \A f \in DOMAIN StacksOf(n)[s] :
                      response[n].stacks[s][f] = ResponseFrame(MapOf(n), StacksOf(n)[s][f], f - 1)
      BY <2>2
    <2>5. ASSUME NEW s \in DOMAIN StacksOf(n), NEW f \in DOMAIN StacksOf(n)[s]
          PROVE  LET frame == StacksOf(n)[s][f]
                     lib == MapOf(n)[frame.module_index + 1]
                 IN  response[n].stacks[s][f] =
                       [frame |-> f - 1, module_offset |-> frame.address, module |-> lib.debug_name,
                        symbol |-> IF symbolicated[lib] = {} THEN {}
                                   ELSE SaysOf(known[lib][frame.address], frame.address)]
      <3>1. response[n].stacks[s][f] = ResponseFrame(MapOf(n), StacksOf(n)[s][f], f - 1)
        BY <2>4
      <3> QED
        BY <1>1, <2>1, <3>1, SMTT(20) DEF LibOf
    <2> QED
      BY <2>3, <2>4, <2>5, Zenon DEF StacksOf, MapOf
  <1> QED
    BY <1>2, InvHolds, PTL
=============================================================================
