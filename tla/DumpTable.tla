------------------------------ MODULE DumpTable ------------------------------
(***************************************************************************)
(* get_symbols_retry_id (examples/dump_table/src/lib.rs): a tool that asks *)
(* for the symbol table of a binary whose debug ID it may not know.  It    *)
(* then searches with the nil ID, and again with the ID in the error.      *)
(* Every other query is one search, for an ID that is known.               *)
(***************************************************************************)
EXTENDS CandidateSearch

CONSTANT Nil        \* DebugId::nil()

ASSUME NilAssumption == Nil \in Ids \ {Wanted}

VARIABLE search     \* "only", or "first" and then "second"

DumpInit ==
  \/ InitFor(Wanted) /\ search = "only"
  \/ InitFor(Nil) /\ ~with_debug_info /\ search = "first"

Search == Step /\ UNCHANGED search

\* The ID that the error of the first search names: UnmatchedDebugId(expected, nil).
Expected ==
  IF result.status = "err" /\ result.err.kind = "unmatched"
  THEN {disk[candidates[result.err.at].loc].id} ELSE {}

SearchAgain ==
  /\ pc = "done" /\ search = "first"
  /\ wanted' \in Expected
  /\ search' = "second"
  /\ pc' = "start" /\ i' = 0 /\ j' = 0
  /\ opened' = << >> /\ last_err' = NoError /\ result' = NoResult
  /\ UNCHANGED <<disk, candidates, pdbs, with_debug_info, handles, leaked>>

Ended == pc = "done" /\ (search = "first" => Expected = {})

DumpStep == Search \/ SearchAgain
DumpNext == DumpStep \/ (Ended /\ UNCHANGED <<vars, search>>)

\* The executor polls the future of a search until it is ready, every open resolves, and the
\* tool waits for each search.
DumpSpec == DumpInit /\ [][DumpNext]_<<vars, search>> /\ WF_<<vars, search>>(DumpStep)

(***************************************************************************)
(* Properties.                                                             *)
(***************************************************************************)
\* The second search finds a table: every kind of file names its ID in an error only when the
\* search for this ID would accept it, on the same path.  It fails only where a file turns out
\* to be cut off behind its ID, and the tool never asks for an ID that no candidate has.
SecondSearchSucceeds ==
  pc = "done" /\ search = "second" /\ result.status # "ok" =>
    /\ \E k \in DOMAIN candidates :
         disk[candidates[k].loc].id = wanted /\ ~disk[candidates[k].loc].whole
    /\ result.err.kind # "unmatched"

\* The tool ends: one search or two, whatever the candidates are.
DumpEnds == <>Ended
===============================================================================
