-------------------------- MODULE SourceAccessProofs --------------------------
(***************************************************************************)
(* Theorems about the sources of files, for all symbol files, source       *)
(* servers and sequences of requests.                                      *)
(***************************************************************************)
EXTENDS SourceAccess, SortedSeqsProofs

\* What a mapper says of a path, whatever it was asked before.
FromStreams(srcsrv, raw) == UNION {StreamPath(stream, raw) : stream \in srcsrv}
Answer(base, srcsrv, raw) ==
  IF FromStreams(srcsrv, raw) # {}
  THEN ExtraPath(base, raw, CHOOSE p \in FromStreams(srcsrv, raw) : TRUE)
  ELSE OwnPath(base, raw)

\* The caches of a mapper hold the answers for their paths.
Listed(s) == s \in Seq(ToSet(s))
Faithful(given, base, srcsrv) ==
  /\ given = [base |-> base, srcsrv |-> srcsrv,
               cache |-> given.cache, extra_cache |-> given.extra_cache]
  /\ Listed(given.cache) /\ Listed(given.extra_cache)
  /\ \A entry \in ToSet(given.cache) : entry.path = OwnPath(base, entry.raw)
  /\ \A entry \in ToSet(given.extra_cache) : entry.path = FromStreams(srcsrv, entry.raw)

-----------------------------------------------------------------------------
(* One path *)

LEMMA AppendToListed ==
  ASSUME NEW s, Listed(s), NEW x
  PROVE  Listed(Append(s, x)) /\ ToSet(Append(s, x)) = ToSet(s) \cup {x}
  <1> DEFINE new == ToSet(s) \cup {x}
             longer == Append(s, x)
  <1>1. s \in Seq(new) /\ x \in new
    BY DEF Listed, ToSet
  <1>2. /\ longer \in Seq(new)
        /\ DOMAIN longer = 1 .. Len(s) + 1 /\ Len(s) \in Nat /\ DOMAIN s = 1 .. Len(s)
        /\ \A k \in 1 .. Len(s) : longer[k] = s[k]
        /\ longer[Len(s) + 1] = x
    BY <1>1
  <1>3. ToSet(longer) = new
    BY <1>2 DEF ToSet
  <1> QED
    BY <1>2, <1>3 DEF Listed

LEMMA NewIsFaithful ==
  ASSUME NEW base, NEW srcsrv
  PROVE  Faithful(NewMapper(base, srcsrv), base, srcsrv)
  BY DEF Faithful, NewMapper, Listed, ToSet

LEMMA ExtraIsFaithful ==
  ASSUME NEW given, NEW base, NEW srcsrv, NEW raw, Faithful(given, base, srcsrv)
  PROVE  LET extra == ExtraMapPath(given, raw) IN
         /\ extra.path = FromStreams(srcsrv, raw)
         /\ Faithful(extra.mapper, base, srcsrv) /\ extra.mapper.cache = given.cache
  <1> DEFINE hits == Cached(given.extra_cache, raw)
             found == FromStreams(srcsrv, raw)
             entry == [raw |-> raw, path |-> found]
             longer == [given EXCEPT !.extra_cache = Append(@, entry)]
  <1>1. given.srcsrv = srcsrv
    BY DEF Faithful
  <1>2. CASE srcsrv = {}
    BY <1>1, <1>2 DEF ExtraMapPath, FromStreams
  <1>3. CASE srcsrv # {} /\ hits # {}
    <2>1. ExtraMapPath(given, raw) = [path |-> UNION {hit.path : hit \in hits}, mapper |-> given]
      BY <1>1, <1>3 DEF ExtraMapPath
    <2>2. \A hit \in hits : hit.path = found
      BY DEF Cached, Faithful
    <2> HIDE DEF hits, found
    <2>3. UNION {hit.path : hit \in hits} = found
      BY <1>3, <2>2
    <2> QED
      BY <2>1, <2>3 DEF found
  <1>4. CASE srcsrv # {} /\ hits = {}
    <2>1. ExtraMapPath(given, raw) = [path |-> found, mapper |-> longer]
      BY <1>1, <1>4 DEF ExtraMapPath, FromStreams
    <2>2. /\ longer = [base |-> base, srcsrv |-> srcsrv, cache |-> given.cache,
                       extra_cache |-> Append(given.extra_cache, entry)]
      BY DEF Faithful
    <2>3. /\ Listed(Append(given.extra_cache, entry))
          /\ ToSet(Append(given.extra_cache, entry)) = ToSet(given.extra_cache) \cup {entry}
      BY AppendToListed DEF Faithful
    <2> HIDE DEF found
    <2>4. Faithful(longer, base, srcsrv)
      BY <2>2, <2>3 DEF Faithful, found
    <2> QED
      BY <2>1, <2>2, <2>4 DEF found
  <1> QED
    BY <1>2, <1>3, <1>4

LEMMA MapPathIsFaithful ==
  ASSUME NEW given, NEW base, NEW srcsrv, NEW raw, Faithful(given, base, srcsrv)
  PROVE  /\ MapPath(given, raw).path = Answer(base, srcsrv, raw)
         /\ Faithful(MapPath(given, raw).mapper, base, srcsrv)
  <1> DEFINE extra == ExtraMapPath(given, raw)
             hits == InCache(given, raw)
             own == OwnPath(given.base, raw)
             entry == [raw |-> raw, path |-> own]
             longer == [extra.mapper EXCEPT !.cache = Append(@, entry)]
  <1>1. extra.path = FromStreams(srcsrv, raw) /\ Faithful(extra.mapper, base, srcsrv)
        /\ extra.mapper.cache = given.cache
    BY ExtraIsFaithful
  <1>2. given.base = base
    BY DEF Faithful
  <1>3. CASE extra.path # {}
    BY <1>1, <1>2, <1>3 DEF MapPath, Answer
  <1>4. CASE extra.path = {} /\ hits # {}
    <2>1. MapPath(given, raw) = [path |-> (CHOOSE hit \in hits : TRUE).path, mapper |-> extra.mapper]
      BY <1>4 DEF MapPath
    <2>2. \A hit \in hits : hit.path = own
      BY <1>2 DEF InCache, Cached, Faithful
    <2>3. (CHOOSE hit \in hits : TRUE) \in hits
      BY <1>4
    <2> HIDE DEF hits, own, extra
    <2>4. (CHOOSE hit \in hits : TRUE).path = own
      BY <2>2, <2>3
    <2> QED
      BY <1>1, <1>2, <1>4, <2>1, <2>4 DEF Answer, own
  <1>5. CASE extra.path = {} /\ hits = {}
    <2>1. MapPath(given, raw) = [path |-> own, mapper |-> longer]
      BY <1>5 DEF MapPath
    <2> HIDE DEF extra
    <2>2. longer = [base |-> base, srcsrv |-> srcsrv, cache |-> Append(extra.mapper.cache, entry),
                    extra_cache |-> extra.mapper.extra_cache]
      BY <1>1 DEF Faithful
    <2>3. /\ Listed(Append(extra.mapper.cache, entry))
          /\ ToSet(Append(extra.mapper.cache, entry)) = ToSet(extra.mapper.cache) \cup {entry}
      BY <1>1, AppendToListed DEF Faithful
    <2>4. entry.raw = raw /\ entry.path = OwnPath(base, raw)
      BY <1>2
    <2> HIDE DEF entry
    <2>5. Faithful(longer, base, srcsrv)
      BY <1>1, <2>2, <2>3, <2>4 DEF Faithful
    <2> QED
      BY <1>1, <1>2, <1>5, <2>1, <2>5 DEF Answer
  <1> QED
    BY <1>3, <1>4, <1>5

-----------------------------------------------------------------------------
(* The paths of all frames, one after the other *)

\* What MapFrames does with frame n, and its results after the first frames.
MapFrame(before, raws, n) ==
  LET one == MapPath(before.mapper, CHOOSE r \in raws[n] : TRUE) IN
  IF raws[n] = {} THEN [before EXCEPT !.paths = Append(@, {})]
  ELSE [mapper |-> one.mapper, paths |-> Append(before.paths, {one.path})]
Unmapped(given) == [mapper |-> given, paths |-> << >>]
IsMapping(f, given, raws, count) ==
  f = [n \in 0 .. count |-> IF n = 0 THEN Unmapped(given) ELSE MapFrame(f[n - 1], raws, n)]

LEMMA MapFramesIsMapping ==
  ASSUME NEW given, NEW raws
  PROVE  MapFrames(given, raws) = (CHOOSE f : IsMapping(f, given, raws, Len(raws)))[Len(raws)]
  BY DEF MapFrames, IsMapping, MapFrame, Unmapped

LEMMA MappingExists ==
  ASSUME NEW given, NEW raws, NEW count \in Nat
  PROVE  \E f : IsMapping(f, given, raws, count)
  <1> DEFINE without == {k \in Nat : ~\E f : IsMapping(f, given, raws, k)}
  <1>1. ASSUME without # {} PROVE FALSE
    <2>1. PICK k \in without : \A l \in without : k <= l
      BY <1>1, LeastElement
    <2>2. k \in Nat /\ ~\E f : IsMapping(f, given, raws, k)
      BY <2>1
    <2>3. k # 0
      <3>1. IsMapping([n \in 0 .. 0 |-> Unmapped(given)], given, raws, 0)
        BY DEF IsMapping
      <3> QED
        BY <2>2, <3>1
    <2>4. k - 1 \in Nat /\ ~(k <= k - 1)
      BY <2>2, <2>3
    <2>5. PICK g : IsMapping(g, given, raws, k - 1)
      BY <2>1, <2>4
    <2>6. \A n \in 0 .. k - 1 :
            g[n] = IF n = 0 THEN Unmapped(given) ELSE MapFrame(g[n - 1], raws, n)
      BY <2>5 DEF IsMapping
    <2> DEFINE f == [n \in 0 .. k |-> IF n < k THEN g[n] ELSE MapFrame(g[k - 1], raws, k)]
    <2>7. ASSUME NEW n \in 0 .. k
          PROVE  f[n] = IF n = 0 THEN Unmapped(given) ELSE MapFrame(f[n - 1], raws, n)
      <3>1. CASE n = 0
        BY <2>2, <2>3, <2>6, <3>1
      <3>2. CASE n # 0
        <4>1. n - 1 \in 0 .. k /\ n - 1 < k
          BY <2>2, <3>2
        <4>2. f[n - 1] = g[n - 1]
          BY <4>1
        <4>3. CASE n < k
          BY <2>2, <2>6, <3>2, <4>2, <4>3
        <4>4. CASE n = k
          BY <2>2, <3>2, <4>2, <4>4
        <4> QED
          BY <2>2, <4>3, <4>4
      <3> QED
        BY <3>1, <3>2
    <2>8. IsMapping(f, given, raws, k)
      <3>1. f = [n \in 0 .. k |-> f[n]]
        OBVIOUS
      <3> HIDE DEF f
      <3> QED
        BY <2>7, <3>1 DEF IsMapping
    <2> QED
      BY <2>2, <2>8
  <1> QED
    BY <1>1

PathOf(base, srcsrv, raws, n) ==
  IF raws[n] = {} THEN {} ELSE {Answer(base, srcsrv, CHOOSE r \in raws[n] : TRUE)}
PathsOf(base, srcsrv, raws, count) == [n \in 1 .. count |-> PathOf(base, srcsrv, raws, n)]

\* Every frame gets the answer for its own path, whatever was mapped before.
LEMMA MapFramesIsFaithful ==
  ASSUME NEW given, NEW base, NEW srcsrv, Faithful(given, base, srcsrv), NEW raws, Len(raws) \in Nat
  PROVE  /\ MapFrames(given, raws).paths = PathsOf(base, srcsrv, raws, Len(raws))
         /\ Faithful(MapFrames(given, raws).mapper, base, srcsrv)
  <1> DEFINE mapped == CHOOSE f : IsMapping(f, given, raws, Len(raws))
             Right(k) == /\ Faithful(mapped[k].mapper, base, srcsrv)
                         /\ mapped[k] = [mapper |-> mapped[k].mapper, paths |-> mapped[k].paths]
                         /\ mapped[k].paths = PathsOf(base, srcsrv, raws, k)
             wrong == {k \in 0 .. Len(raws) : ~Right(k)}
  <1>1. IsMapping(mapped, given, raws, Len(raws))
    BY MappingExists
  <1> HIDE DEF mapped
  <1>2. \A n \in 0 .. Len(raws) :
          mapped[n] = IF n = 0 THEN Unmapped(given) ELSE MapFrame(mapped[n - 1], raws, n)
    BY <1>1 DEF IsMapping
  <1>3. Right(0)
    <2>1. mapped[0] = Unmapped(given)
      BY <1>2
    <2>2. PathsOf(base, srcsrv, raws, 0) = << >>
      BY DEF PathsOf
    <2> QED
      BY <2>1, <2>2 DEF Unmapped
  <1>4. ASSUME NEW k \in 1 .. Len(raws), Right(k - 1) PROVE Right(k)
    <2> DEFINE before == mapped[k - 1]
               raw == CHOOSE r \in raws[k] : TRUE
               longer == Append(before.paths, PathOf(base, srcsrv, raws, k))
    <2>1. mapped[k] = MapFrame(before, raws, k)
      BY <1>2
    <2>2. longer = PathsOf(base, srcsrv, raws, k)
      <3>1. before.paths = PathsOf(base, srcsrv, raws, k - 1)
        BY <1>4
      <3> QED
        BY <3>1 DEF PathsOf
    <2>3. CASE raws[k] = {}
      <3>1. mapped[k] = [mapper |-> before.mapper, paths |-> longer]
        BY <1>4, <2>1, <2>3 DEF MapFrame, PathOf
      <3> QED
        BY <1>4, <2>2, <3>1
    <2>4. CASE raws[k] # {}
      <3>1. MapPath(before.mapper, raw).path = Answer(base, srcsrv, raw)
            /\ Faithful(MapPath(before.mapper, raw).mapper, base, srcsrv)
        BY <1>4, MapPathIsFaithful
      <3>2. mapped[k] = [mapper |-> MapPath(before.mapper, raw).mapper, paths |-> longer]
        BY <2>1, <2>4, <3>1 DEF MapFrame, PathOf
      <3> QED
        BY <2>2, <3>1, <3>2
    <2> QED
      BY <2>3, <2>4
  <1>5. Right(Len(raws))
    <2>1. ASSUME wrong # {} PROVE FALSE
      <3> HIDE DEF Right
      <3>1. wrong \subseteq Nat
        OBVIOUS
      <3>2. PICK k \in wrong : \A l \in wrong : k <= l
        BY <2>1, <3>1, LeastElement
      <3>3. k \in 0 .. Len(raws) /\ ~Right(k)
        BY <3>2
      <3>4. k \in 1 .. Len(raws) /\ k - 1 \in 0 .. Len(raws) /\ ~(k <= k - 1)
        BY <1>3, <3>3
      <3>5. Right(k - 1)
        BY <3>2, <3>4
      <3> QED
        BY <1>4, <3>3, <3>4, <3>5
    <2> QED
      BY <2>1
  <1>6. MapFrames(given, raws) = mapped[Len(raws)]
    BY MapFramesIsMapping DEF mapped
  <1> QED
    BY <1>5, <1>6

-----------------------------------------------------------------------------
(* Requests *)

\* The paths of the frames of an address, for a symbol file at this location.
PathsAt(where, address) ==
  PathsOf(ToBasePath(where), file.srcsrv, file.frames[address], Len(file.frames[address]))

MapperInv ==
  /\ Faithful(mapper, mapper.base, mapper.srcsrv)
  /\ pc = "symbolicate" => Faithful(mapper, Base, file.srcsrv)

ReportInv ==
  \A r \in reported :
    /\ r.address \in Addresses
    /\ \E n \in 1 .. Len(file.frames[r.address]) : \E p \in PathsAt(r.location, r.address)[n] :
         r.name = p.mapped

\* At most one request runs; before its lookup nothing is opened, after it its paths are known.
RequestInv ==
  /\ asked = {} \/ \E request : asked = {request}
  /\ pc \in {"symbolicate", "idle"} => asked = {}
  /\ pc \in {"symbolicate", "idle", "lookup"} => opened = {}
  /\ \A request \in asked :
       /\ request.address \in Addresses
       /\ pc \notin {"lookup", "NoSymbols"} => paths = PathsAt(location, request.address)

Inv ==
  /\ file \in SymbolFiles /\ todo \subseteq Addresses
  /\ MapperInv /\ ReportInv /\ RequestInv
  /\ OnlyReferredFilesAreOpened /\ ReportedFilesAreServed

LEMMA FrameTypes ==
  ASSUME file \in SymbolFiles, NEW address \in Addresses
  PROVE  /\ address \in Nat
         /\ Len(file.frames[address]) \in Nat
         /\ DOMAIN file.frames[address] = 1 .. Len(file.frames[address])
  BY SourceAssumption DEF Addresses

Joined(base, raw) == {Join(b, raw) : b \in base}

\* The local path of an answer is the raw path, below the base or absolute.
LEMMA AnswerIsLocal ==
  ASSUME NEW base, NEW srcsrv, NEW raw
  PROVE  /\ Answer(base, srcsrv, raw).local \subseteq Joined(base, raw)
         /\ base # {} => Answer(base, srcsrv, raw).local # {}
  <1>1. CASE base = {}
    BY <1>1 DEF Answer, ExtraPath, OwnPath, NonLocal
  <1>2. CASE base # {}
    <2> DEFINE b == CHOOSE b \in base : TRUE
    <2>1. b \in base
      BY <1>2
    <2>2. Answer(base, srcsrv, raw).local = {Join(b, raw)} \/
          (Answer(base, srcsrv, raw).local = {raw} /\ IsAbsolute(raw))
      BY <1>2 DEF Answer, ExtraPath, OwnPath, Local, LocalMapped
    <2>3. IsAbsolute(raw) => Join(b, raw) = raw
      BY DEF Join
    <2> HIDE DEF b
    <2> QED
      BY <2>1, <2>2, <2>3 DEF Joined
  <1> QED
    BY <1>1, <1>2

LEMMA PathIsReferred ==
  ASSUME file \in SymbolFiles, NEW where, NEW address \in Addresses,
         NEW n \in 1 .. Len(file.frames[address]), NEW p \in PathsAt(where, address)[n]
  PROVE  /\ p.local \subseteq Referred(where, address)
         /\ where # {} => p.local # {}
  <1> DEFINE base == ToBasePath(where)
             raws == file.frames[address]
             raw == CHOOSE r \in raws[n] : TRUE
  <1>1. p \in PathOf(base, file.srcsrv, raws, n)
    BY DEF PathsAt, PathsOf
  <1>2. raws[n] # {} /\ p = Answer(base, file.srcsrv, raw)
    BY <1>1 DEF PathOf
  <1>3. raw \in raws[n] /\ raws[n] \in ToSet(raws)
    BY <1>2, FrameTypes DEF ToSet
  <1>4. raw \in UNION ToSet(raws)
    BY <1>3
  <1>5. where # {} => base # {}
    BY DEF ToBasePath
  <1> HIDE DEF base, raw
  <1>6. Joined(base, raw) \subseteq Referred(where, address)
    <2>1. ASSUME NEW b \in base PROVE Join(b, raw) \in Referred(where, address)
      BY <1>4, <2>1 DEF Referred, base
    <2> QED
      BY <2>1 DEF Joined
  <1>7. p.local \subseteq Joined(base, raw) /\ (base # {} => p.local # {})
    BY <1>2, AnswerIsLocal
  <1> QED
    BY <1>5, <1>6, <1>7

LEMMA InitHolds == Init => Inv
  <1> SUFFICES ASSUME Init PROVE Inv
    OBVIOUS
  <1>1. Faithful(mapper, Base, file.srcsrv) /\ mapper.base = Base /\ mapper.srcsrv = file.srcsrv
    BY NewIsFaithful DEF Init, NewMapper
  <1>2. MapperInv
    BY <1>1 DEF MapperInv
  <1> QED
    BY <1>2 DEF Init, Inv, ReportInv, RequestInv, OnlyReferredFilesAreOpened, ReportedFilesAreServed

LEMMA MapNextAddressKeeps ==
  ASSUME Inv, MapNextAddress
  PROVE  Inv'
  <1> DEFINE address == CHOOSE a \in todo : \A b \in todo : a <= b
             raws == file.frames[address]
             done == MapFrames(mapper, raws)
             new == {[address |-> address, name |-> p.mapped, location |-> location] :
                       p \in UNION ToSet(done.paths)}
  <1>1. /\ pc = "symbolicate" /\ todo # {} /\ mapper' = done.mapper
        /\ todo' = todo \ {address} /\ reported' = reported \cup new
        /\ UNCHANGED <<file, location, asked, paths, opened, pc>>
    BY DEF MapNextAddress
  <1>2. address \in Addresses
    <2>1. todo \subseteq Nat
      BY FrameTypes DEF Inv
    <2>2. \E a \in todo : \A b \in todo : a <= b
      BY <1>1, <2>1, LeastElement
    <2> QED
      BY <2>2 DEF Inv
  <1>3. Faithful(mapper, Base, file.srcsrv) /\ Len(raws) \in Nat
    BY <1>1, <1>2, FrameTypes DEF Inv, MapperInv
  <1>4. done.paths = PathsAt(location, address) /\ Faithful(done.mapper, Base, file.srcsrv)
    BY <1>3, MapFramesIsFaithful DEF PathsAt, Base
  <1>5. done.mapper.base = Base /\ done.mapper.srcsrv = file.srcsrv
    BY <1>4 DEF Faithful
  <1>6. DOMAIN PathsAt(location, address) = 1 .. Len(raws)
    BY DEF PathsAt, PathsOf
  <1> HIDE DEF address, raws, done
  <1>7. \A where, a : PathsAt(where, a)' = PathsAt(where, a)
    BY <1>1 DEF PathsAt
  <1>8. Addresses' = Addresses /\ Base' = Base
    BY <1>1 DEF Addresses, Base
  <1>9. MapperInv'
    BY <1>1, <1>4, <1>5, <1>8 DEF MapperInv
  <1>10. ReportInv'
    <2>1. ASSUME NEW r \in new
          PROVE  /\ r.address \in Addresses
                 /\ \E n \in 1 .. Len(file.frames[r.address]) :
                      \E p \in PathsAt(r.location, r.address)[n] : r.name = p.mapped
      <3>1. PICK p \in UNION ToSet(PathsAt(location, address)) :
              r = [address |-> address, name |-> p.mapped, location |-> location]
        BY <1>4
      <3>2. PICK n \in 1 .. Len(raws) : p \in PathsAt(location, address)[n]
        BY <1>6 DEF ToSet
      <3> QED
        BY <1>2, <3>1, <3>2 DEF raws
    <2> HIDE DEF new
    <2> QED
      BY <1>1, <1>7, <1>8, <2>1 DEF Inv, ReportInv
  <1>11. asked = {} /\ opened = {}
    BY <1>1 DEF Inv, RequestInv
  <1>12. RequestInv' /\ OnlyReferredFilesAreOpened' /\ ReportedFilesAreServed'
    BY <1>1, <1>11 DEF RequestInv, OnlyReferredFilesAreOpened, ReportedFilesAreServed
  <1> QED
    BY <1>1, <1>8, <1>9, <1>10, <1>12 DEF Inv

\* What stays when only the request goes on.
LEMMA FileStays ==
  ASSUME Inv, UNCHANGED <<file, todo, reported>>
  PROVE  /\ file' \in SymbolFiles /\ todo' \subseteq Addresses' /\ Addresses' = Addresses
         /\ ReportInv'
         /\ \A where, a : PathsAt(where, a)' = PathsAt(where, a)
         /\ \A where, a : Referred(where, a)' = Referred(where, a)
  <1>1. Addresses' = Addresses /\ \A where, a : PathsAt(where, a)' = PathsAt(where, a)
    BY DEF Addresses, PathsAt
  <1>2. ReportInv'
    BY <1>1 DEF Inv, ReportInv
  <1>3. \A where, a : Referred(where, a)' = Referred(where, a)
    BY DEF Referred
  <1> QED
    BY <1>1, <1>2, <1>3 DEF Inv

LEMMA MapperStays ==
  ASSUME MapperInv, pc' # "symbolicate", mapper' = mapper
  PROVE  MapperInv'
  BY DEF MapperInv

LEMMA FinishSymbolicationKeeps ==
  ASSUME Inv, FinishSymbolication
  PROVE  Inv'
  <1>1. pc = "symbolicate" /\ pc' = "idle"
        /\ UNCHANGED <<file, location, mapper, todo, reported, asked, paths, opened>>
    BY DEF FinishSymbolication
  <1>2. asked' = {} /\ opened' = {}
    BY <1>1 DEF Inv, RequestInv
  <1>3. MapperInv'
    BY <1>1, MapperStays DEF Inv
  <1>4. RequestInv' /\ OnlyReferredFilesAreOpened' /\ ReportedFilesAreServed'
    BY <1>1, <1>2 DEF RequestInv, OnlyReferredFilesAreOpened, ReportedFilesAreServed
  <1> QED
    BY <1>1, <1>3, <1>4, FileStays DEF Inv

LEMMA AskSourceKeeps ==
  ASSUME Inv, NEW address \in Addresses, NEW name \in Names, AskSource(address, name)
  PROVE  Inv'
  <1>1. /\ pc = "idle" /\ pc' = "lookup" /\ asked' = {[address |-> address, file |-> name]}
        /\ UNCHANGED <<file, location, mapper, todo, reported, paths, opened>>
    BY DEF AskSource
  <1>2. opened' = {}
    BY <1>1 DEF Inv, RequestInv
  <1>3. MapperInv'
    BY <1>1, MapperStays DEF Inv
  <1>4. RequestInv'
    BY <1>1, <1>2, FileStays DEF RequestInv
  <1>5. OnlyReferredFilesAreOpened' /\ ReportedFilesAreServed'
    BY <1>1, <1>2 DEF OnlyReferredFilesAreOpened, ReportedFilesAreServed
  <1> QED
    BY <1>1, <1>3, <1>4, <1>5, FileStays DEF Inv

\* The steps after the lookup that give an answer: nothing else changes.
LEMMA AnswerKeeps ==
  ASSUME Inv, UNCHANGED <<file, location, mapper, todo, reported, asked, paths, opened>>,
         \/ pc = "lookup" /\ pc' = "NoSymbols"
         \/ pc = "open" /\ pc' \in {"HelperError", "Source"}
  PROVE  Inv'
  <1>1. MapperInv'
    BY MapperStays DEF Inv
  <1>2. RequestInv'
    BY FileStays DEF Inv, RequestInv
  <1>3. OnlyReferredFilesAreOpened' /\ ReportedFilesAreServed'
    BY FileStays DEF Inv, OnlyReferredFilesAreOpened, ReportedFilesAreServed
  <1> QED
    BY <1>1, <1>2, <1>3, FileStays DEF Inv

\* A reported name is among the paths of its address, wherever they are looked up again.
LEMMA ReportedIsAmongPaths ==
  ASSUME Inv, NEW request, NEW where,
         [address |-> request.address, name |-> request.file, location |-> where] \in reported
  PROVE  \E n \in 1 .. Len(file.frames[request.address]) :
           \E p \in PathsAt(where, request.address)[n] : Matches(p, request)
  <1> DEFINE r == [address |-> request.address, name |-> request.file, location |-> where]
  <1>1. \E n \in 1 .. Len(file.frames[r.address]) :
          \E p \in PathsAt(r.location, r.address)[n] : r.name = p.mapped
    BY DEF Inv, ReportInv
  <1> QED
    BY <1>1 DEF Matches

LEMMA LookUpFramesKeeps ==
  ASSUME Inv, LookUpFrames
  PROVE  Inv'
  <1>1. pc = "lookup" /\ UNCHANGED <<file, todo, reported, asked, opened>>
    BY DEF LookUpFrames
  <1>2. PICK request \in asked, found \in Locations :
          LET done == MapFrames(NewMapper(ToBasePath(found), file.srcsrv),
                                file.frames[request.address])
          IN  /\ location' = found /\ mapper' = done.mapper /\ paths' = done.paths
              /\ pc' = IF done.paths = << >> THEN "NoDebugInfo" ELSE "check"
    BY DEF LookUpFrames
  <1> DEFINE raws == file.frames[request.address]
             base == ToBasePath(found)
             done == MapFrames(NewMapper(base, file.srcsrv), raws)
  <1>3. request.address \in Addresses /\ asked = {request} /\ opened = {}
    BY <1>1 DEF Inv, RequestInv
  <1>4. Len(raws) \in Nat
    BY <1>3, FrameTypes DEF Inv
  <1>5. done.paths = PathsAt(found, request.address) /\ Faithful(done.mapper, base, file.srcsrv)
    BY <1>4, NewIsFaithful, MapFramesIsFaithful DEF PathsAt
  <1>6. done.mapper.base = base /\ done.mapper.srcsrv = file.srcsrv
    BY <1>5 DEF Faithful
  <1>7. pc' \in {"NoDebugInfo", "check"} /\ location' = found
        /\ paths' = PathsAt(found, request.address) /\ (pc' = "NoDebugInfo" => paths' = << >>)
    BY <1>2, <1>5
  <1>8. MapperInv'
    BY <1>2, <1>5, <1>6, <1>7 DEF MapperInv
  <1>9. RequestInv'
    BY <1>1, <1>3, <1>7, FileStays DEF RequestInv
  <1>10. OnlyReferredFilesAreOpened'
    BY <1>1, <1>3 DEF OnlyReferredFilesAreOpened
  <1>11. ReportedFilesAreServed'
    <2> SUFFICES ASSUME [address |-> request.address, name |-> request.file, location |-> found]
                          \in reported
                 PROVE  pc' # "NoDebugInfo"
      BY <1>1, <1>3, <1>7 DEF ReportedFilesAreServed
    <2>1. PICK n \in 1 .. Len(raws) : TRUE
      BY ReportedIsAmongPaths
    <2>2. DOMAIN PathsAt(found, request.address) = 1 .. Len(raws)
      BY DEF PathsAt, PathsOf
    <2>3. PathsAt(found, request.address) # << >>
      BY <2>1, <2>2
    <2> QED
      BY <1>7, <2>3
  <1> QED
    BY <1>1, <1>8, <1>9, <1>10, <1>11, FileStays DEF Inv

LEMMA CheckRequestKeeps ==
  ASSUME Inv, CheckRequest
  PROVE  Inv'
  <1>1. pc = "check" /\ UNCHANGED <<file, location, mapper, todo, reported, asked, paths>>
    BY DEF CheckRequest
  <1>2. PICK request \in asked :
          LET hit == Requested(request)
              local == UNION {p.local : p \in hit}
          IN  /\ pc' = IF hit = {} THEN "InvalidPath"
                       ELSE IF local = {} THEN "NonLocalSymbols" ELSE "open"
              /\ opened' = opened \cup local
    BY DEF CheckRequest
  <1> DEFINE address == request.address
             raws == file.frames[address]
             hits == {n \in DOMAIN paths : \E p \in paths[n] : Matches(p, request)}
             least == CHOOSE n \in hits : \A m \in hits : n <= m
             hit == Requested(request)
             local == UNION {p.local : p \in hit}
  <1>3. /\ address \in Addresses /\ asked = {request} /\ paths = PathsAt(location, address)
        /\ file \in SymbolFiles
    BY <1>1 DEF Inv, RequestInv
  <1>4. DOMAIN paths = 1 .. Len(raws) /\ Len(raws) \in Nat
    BY <1>3, FrameTypes DEF PathsAt, PathsOf
  <1>5. hits # {} => least \in hits /\ hit = paths[least]
    <2>1. hits \subseteq Nat
      BY <1>4
    <2>2. hits # {} => \E n \in hits : \A m \in hits : n <= m
      BY <2>1, LeastElement
    <2>3. hits # {} => least \in hits
      BY <2>2
    <2>4. hit = IF hits = {} THEN {} ELSE paths[least]
      BY DEF Requested
    <2> QED
      BY <2>3, <2>4
  <1>6. hits = {} => hit = {}
    BY DEF Requested
  <1>7. \A p \in hit : p.local \subseteq Referred(location, address) /\ (location # {} => p.local # {})
    BY <1>3, <1>4, <1>5, <1>6, PathIsReferred
  <1>8. hits # {} => hit # {}
    BY <1>5
  <1> HIDE DEF hit, hits
  <1>9. pc' \in {"InvalidPath", "NonLocalSymbols", "open"} /\ opened' = opened \cup local
        /\ (pc' = "InvalidPath" => hit = {}) /\ (pc' = "NonLocalSymbols" => hit # {} /\ local = {})
    BY <1>2 DEF hit
  <1>10. local \subseteq Referred(location, address)
    BY <1>7
  <1>11. OnlyReferredFilesAreOpened'
    BY <1>1, <1>3, <1>9, <1>10, FileStays DEF Inv, OnlyReferredFilesAreOpened
  <1>12. ReportedFilesAreServed'
    <2> SUFFICES ASSUME location # {},
                        [address |-> address, name |-> request.file, location |-> location]
                          \in reported
                 PROVE  pc' \notin {"NoDebugInfo", "InvalidPath", "NonLocalSymbols"}
      BY <1>1, <1>3 DEF ReportedFilesAreServed
    <2>1. hits # {}
      <3>1. \E n \in 1 .. Len(raws) : \E p \in paths[n] : Matches(p, request)
        BY <1>3, ReportedIsAmongPaths
      <3> QED
        BY <1>4, <3>1 DEF hits
    <2>2. hit # {} /\ local # {}
      BY <1>7, <1>8, <2>1
    <2> QED
      BY <1>9, <2>2
  <1>13. MapperInv'
    BY <1>1, <1>9, MapperStays DEF Inv
  <1>14. RequestInv'
    BY <1>1, <1>3, <1>9, FileStays DEF Inv, RequestInv
  <1> QED
    BY <1>1, <1>11, <1>12, <1>13, <1>14, FileStays DEF Inv

LEMMA RespondKeeps ==
  ASSUME Inv, Respond
  PROVE  Inv'
  <1>1. /\ pc' = "idle" /\ asked' = {} /\ opened' = {} /\ mapper' = NewMapper({}, {})
        /\ UNCHANGED <<file, location, todo, reported>>
    BY DEF Respond
  <1>2. Faithful(mapper', {}, {}) /\ mapper'.base = {} /\ mapper'.srcsrv = {}
    BY <1>1, NewIsFaithful DEF NewMapper
  <1>3. MapperInv'
    BY <1>1, <1>2 DEF MapperInv
  <1>4. RequestInv' /\ OnlyReferredFilesAreOpened' /\ ReportedFilesAreServed'
    BY <1>1 DEF RequestInv, OnlyReferredFilesAreOpened, ReportedFilesAreServed
  <1> QED
    BY <1>1, <1>3, <1>4, FileStays DEF Inv

LEMMA StutterKeeps ==
  ASSUME Inv, UNCHANGED vars
  PROVE  Inv'
  <1>1. MapperInv'
    BY DEF Inv, MapperInv, Base, vars
  <1>2. RequestInv' /\ OnlyReferredFilesAreOpened' /\ ReportedFilesAreServed'
    BY FileStays DEF Inv, RequestInv, OnlyReferredFilesAreOpened, ReportedFilesAreServed, vars
  <1> QED
    BY <1>1, <1>2, FileStays DEF Inv, vars

LEMMA InvHolds == Spec => []Inv
  <1>1. Inv /\ [Next]_vars => Inv'
    <2> SUFFICES ASSUME Inv, [Next]_vars PROVE Inv'
      OBVIOUS
    <2>1. CASE MapNextAddress
      BY <2>1, MapNextAddressKeeps
    <2>2. CASE FinishSymbolication
      BY <2>2, FinishSymbolicationKeeps
    <2>3. CASE FailLookup
      BY <2>3, AnswerKeeps DEF FailLookup
    <2>4. CASE LookUpFrames
      BY <2>4, LookUpFramesKeeps
    <2>5. CASE CheckRequest
      BY <2>5, CheckRequestKeeps
    <2>6. CASE \E result \in {"HelperError", "Source"} : ReadSource(result)
      BY <2>6, AnswerKeeps DEF ReadSource
    <2>7. CASE Respond
      BY <2>7, RespondKeeps
    <2>8. CASE \E address \in Addresses, name \in Names : AskSource(address, name)
      BY <2>8, AskSourceKeeps
    <2>9. CASE UNCHANGED vars
      BY <2>9, StutterKeeps
    <2> QED
      BY <2>1, <2>2, <2>3, <2>4, <2>5, <2>6, <2>7, <2>8, <2>9 DEF Next, Progress
  <1> QED
    BY <1>1, InitHolds, PTL DEF Spec

-----------------------------------------------------------------------------
(* Theorems *)

\* For every symbol file and source server, a request opens only files that the debug data refers
\* to at its address.
THEOREM OpensOnlyReferredFiles == Spec => []OnlyReferredFilesAreOpened
  <1>1. Inv => OnlyReferredFilesAreOpened
    BY DEF Inv
  <1> QED
    BY <1>1, InvHolds, PTL

\* A name that was reported is served wherever the symbol file is found at the same local place.
THEOREM ServesReportedFiles == Spec => []ReportedFilesAreServed
  <1>1. Inv => ReportedFilesAreServed
    BY DEF Inv
  <1> QED
    BY <1>1, InvHolds, PTL

\* Whatever a mapper was asked, its caches change no answer.
THEOREM CachesChangeNothing == Spec => []CachesAreTransparent
  <1>1. Inv => CachesAreTransparent
    <2> SUFFICES ASSUME Inv PROVE CachesAreTransparent
      OBVIOUS
    <2>1. \A raw : MapPath(mapper, raw).path = Answer(mapper.base, mapper.srcsrv, raw)
      BY MapPathIsFaithful DEF Inv, MapperInv
    <2>2. \A raw : MapPath(NewMapper(mapper.base, mapper.srcsrv), raw).path
                     = Answer(mapper.base, mapper.srcsrv, raw)
      BY NewIsFaithful, MapPathIsFaithful
    <2> QED
      BY <2>1, <2>2 DEF CachesAreTransparent
  <1> QED
    BY <1>1, InvHolds, PTL
=============================================================================
