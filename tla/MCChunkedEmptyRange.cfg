\* A string search in an empty range reaches the assertion.
SPECIFICATION Spec
CONSTANTS
  FileLen = 4
  ChunkSize = 2
  MaxStrLen = 3
  MaxU64 = 5
  Bytes = {"x", "nul"}
  Delims = {"nul"}
  NoDelim = "none"
  DelimAt = {3}
  MaxBuffers = 5
  Content <- MCContent
INVARIANT NeverPanics
CHECK_DEADLOCK FALSE
