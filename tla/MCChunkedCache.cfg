\* Two chunks, the last cut by the end of the file, and one delimiter: reads and searches in every order.
SPECIFICATION Spec
CONSTANTS
  FileLen = 4
  ChunkSize = 3
  MaxStrLen = 3
  MaxU64 = 6
  Bytes = {"x", "nul"}
  Delims = {"nul"}
  NoDelim = "none"
  DelimAt = {3}
  MaxBuffers = 3
  Content <- MCContent
CONSTRAINT FewBuffers
INVARIANTS
  TypeOK
  BuffersHoldTheFile
  LastBufferWins
  StringCacheIsSound
  CachedInWholeChunks
  RereadIsServed
PROPERTIES
  ReadsMakeProgress
  ImplementsFileContents
CHECK_DEADLOCK FALSE
