--------------------------- MODULE MCChunkedCache ---------------------------
(***************************************************************************)
(* Small files for ChunkedCache.  The number of orders in which buffers    *)
(* can be read grows steeply with the number of chunks: MaxBuffers stops   *)
(* the exploration there.                                                  *)
(***************************************************************************)
EXTENDS ChunkedCache

CONSTANTS MaxBuffers, DelimAt

MCContent == [i \in Pos |-> IF i \in DelimAt THEN "nul" ELSE "x"]
FewBuffers == Len(buffers) <= MaxBuffers
=============================================================================
