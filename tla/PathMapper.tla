------------------------------ MODULE PathMapper ------------------------------
(***************************************************************************)
(* PathMapper (lib/src/path_mapper.rs), with the mapper for the srcsrv     *)
(* stream of a PDB as its extra mapper, and FilePath (lib/src/shared.rs).  *)
(* A path is the sequence of its components; an absolute one starts with   *)
(* Root, and a URL is the parts that a pattern of its site takes out of    *)
(* it.  An optional value is a set of at most one element.                 *)
(***************************************************************************)
EXTENDS Naturals, Sequences, SequencesExt

Root == "/"
IsAbsolute(path) == path # << >> /\ Head(path) = Root

\* PathBuf::join: an absolute path replaces the base.
Join(base, path) == IF IsAbsolute(path) THEN path ELSE base \o path

Local(path) == [local |-> {path}, mapped |-> path]
LocalMapped(path, mapped) == [local |-> {path}, mapped |-> mapped]
NonLocal(mapped) == [local |-> {}, mapped |-> mapped]

\* FileLocation::to_base_path: {} for NoLocalSourceFileAccess.  The root and the empty path
\* have no parent; that of a file name alone is the empty path.
ToBasePath(location) ==
  {IF path \in {<< >>, <<Root>>} THEN path ELSE Front(path) : path \in location}

\* The two regular expressions: /rustc/<rev>/<path>, and a crate below a .cargo directory.
SpecialPath(raw) ==
  LET cargo == {i \in 2..Len(raw) - 2 : raw[i] = ".cargo"}
  IN  IF Len(raw) >= 4 /\ SubSeq(raw, 1, 2) = <<Root, "rustc">>
      THEN {<<"git:">> \o SubSeq(raw, 4, Len(raw)) \o <<raw[3]>>}
      ELSE {<<"cargo:">> \o SubSeq(raw, i + 1, Len(raw)) : i \in cargo}

\* matches_chrome_gitiles_workaround: the command that fetches the URL in var4 and decodes it
\* by the function in var5.  Of the two forms that the comment there shows only that of
\* python 3 is compared with.
MatchesWorkaround(stream) ==
  /\ stream.SRCSRVCMD = "%SRC_EXTRACT_CMD%"
  /\ stream.SRC_EXTRACT_CMD = "python3"

\* A permalink: the repository, the path in it, and the revision if the service has one.
Permalink(service, url) == <<service, url.repo>> \o url.path \o url.rev

\* url_to_special_path: the first pattern that fits; any other URL is left as it is.
UrlToSpecialPath(url) ==
  CASE url.site = "github" -> Permalink("git:github.com", url)
    [] url.site = "hg" -> Permalink("hg:", url)
    [] url.site = "s3" -> Permalink("s3:", [url EXCEPT !.rev = << >>])
    [] OTHER -> <<"https:", url.site, url.repo>> \o url.rev \o url.path

\* gitiles_to_special_path, from the variables of the path.
GitilesToSpecialPath(stream, source) ==
  {Permalink("git:", url) : url \in
     {u \in source.var4 : /\ MatchesWorkaround(stream) /\ source.var5 = "base64.b64decode"
                       /\ u.site = "gitiles"}}

\* What a stream (two variables, and its files) says of raw: nothing, a download, or a command
\* that will not be executed.
StreamPath(stream, raw) ==
  IF raw \notin DOMAIN stream.files THEN {}
  ELSE LET source == stream.files[raw]
       IN  IF source.method = "Download" THEN {UrlToSpecialPath(url) : url \in source.var4}
           ELSE GitilesToSpecialPath(stream, source)

\* A mapper: the srcsrv stream ({} for none) and the caches of both mappers.
NewMapper(base, srcsrv) ==
  [base |-> base, srcsrv |-> srcsrv, cache |-> << >>, extra_cache |-> << >>]

Cached(cache, raw) == {entry \in ToSet(cache) : entry.raw = raw}

\* ExtraPathMapper::map_path: the answer for raw, {} for none, and the mapper after it.
ExtraMapPath(mapper, raw) ==
  LET hits == Cached(mapper.extra_cache, raw)
      found == UNION {StreamPath(stream, raw) : stream \in mapper.srcsrv}
  IN  IF mapper.srcsrv = {} THEN [path |-> {}, mapper |-> mapper]
      ELSE IF hits # {} THEN [path |-> UNION {hit.path : hit \in hits}, mapper |-> mapper]
      ELSE [path |-> found,
            mapper |-> [mapper EXCEPT !.extra_cache = Append(@, [raw |-> raw, path |-> found])]]

\* Variation: whether the symbol file is local is not asked.
MappedAnyway(base, raw, mapped) ==
  LocalMapped(IF base = {} THEN raw ELSE Join(CHOOSE b \in base : TRUE, raw), mapped)
\* The path that the extra mapper found.
ExtraPath(base, raw, mapped) ==
  IF base = {} THEN NonLocal(mapped)
  ELSE LocalMapped(Join(CHOOSE b \in base : TRUE, raw), mapped)

\* The path without the extra mapper.
OwnPath(base, raw) ==
  LET special == SpecialPath(raw)
      mapped == IF special = {} THEN raw ELSE CHOOSE s \in special : TRUE
  IN  IF base = {} THEN NonLocal(mapped)
      ELSE IF IsAbsolute(raw) /\ special = {} THEN Local(raw)
      ELSE LocalMapped(Join(CHOOSE b \in base : TRUE, raw), mapped)

\* Variation: the cache is looked up by the name of the file.
CachedByName(mapper, raw) == {entry \in ToSet(mapper.cache) : Last(entry.raw) = Last(raw)}
InCache(mapper, raw) == Cached(mapper.cache, raw)

\* PathMapper::map_path: the FilePath of raw and the mapper after it.
MapPath(mapper, raw) ==
  LET extra == ExtraMapPath(mapper, raw)
      hits == InCache(mapper, raw)
      own == OwnPath(mapper.base, raw)
  IN  IF extra.path # {}
      THEN [path |-> ExtraPath(mapper.base, raw, CHOOSE p \in extra.path : TRUE),
            mapper |-> extra.mapper]
      ELSE IF hits # {}
      THEN [path |-> (CHOOSE hit \in hits : TRUE).path, mapper |-> extra.mapper]
      ELSE [path |-> own,
            mapper |-> [extra.mapper EXCEPT !.cache = Append(@, [raw |-> raw, path |-> own])]]

\* The frames of an address, each with an optional raw path, are mapped one after the other.
MapFrames(mapper, raws) ==
  LET mapped[n \in 0..Len(raws)] ==
        IF n = 0 THEN [mapper |-> mapper, paths |-> << >>]
        ELSE LET before == mapped[n - 1]
                 one == MapPath(before.mapper, CHOOSE r \in raws[n] : TRUE)
             IN  IF raws[n] = {} THEN [before EXCEPT !.paths = Append(@, {})]
                 ELSE [mapper |-> one.mapper, paths |-> Append(before.paths, {one.path})]
  IN  mapped[Len(raws)]
===============================================================================
