---------------------------- MODULE MCSourceAccess ----------------------------
(***************************************************************************)
(* Two addresses with up to two frames each, over an absolute path, the    *)
(* relative path of the same name, a path of the Rust library and one of a *)
(* crate in two directories; without a srcsrv stream, or with one that     *)
(* downloads from a site that has permalinks or not, and runs a command    *)
(* that is recognized or not.                                            *)
(***************************************************************************)
EXTENDS SourceAccess, TLC

Absolute == <<Root, "src", "a">>
Relative == <<"a">>
OfRustc == <<Root, "rustc", "rev", "a">>
OfCrate == <<Root, "home", ".cargo", "dep", "a">>
OfCrateElsewhere == <<"home", ".cargo", "dep", "a">>

Raws == {Absolute, Relative, OfRustc, OfCrate, OfCrateElsewhere}
OneFrame == {<<{r}>> : r \in Raws}
FrameLists == {<< >>, <<{}>>} \cup OneFrame \cup {<<{r}, {s}>> : r, s \in Raws}

Url(site) == [site |-> site, repo |-> "repo", path |-> <<"a">>, rev |-> <<"rev">>]
Download(site) == [method |-> "Download", var4 |-> {Url(site)}, var5 |-> ""]
Command(site, decoder) == [method |-> "ExecuteCommand", var4 |-> {Url(site)}, var5 |-> decoder]
\* Two paths of the object are in the stream, each with a way to get it.
Files == {Absolute :> d @@ OfCrate :> c :
            d \in {Download("github"), Download("hg"), Download("s3"),
                  Download("elsewhere")},
            c \in {Command("gitiles", "base64.b64decode"), Command("gitiles", "zlib.decompress"),
                   Command("hg", "base64.b64decode")}}
Streams == [SRCSRVCMD : {"%SRC_EXTRACT_CMD%", "tf.exe"},
            SRC_EXTRACT_CMD : {"python2", "python3"}, files : Files]

MCSymbolFiles ==
  [frames : {<<f, g>> : f \in FrameLists, g \in OneFrame},
   srcsrv : {{}} \cup {{stream} : stream \in Streams}]
MCLocations == {{}, {<<"lib">>}, {<<Root, "sym", "lib">>}}
MCGuesses == {<<Root, "other">>, <<Root, "sym", "a">>}
===============================================================================
