SPECIFICATION SectionSpec
CONSTANTS
  FileLen = 5
  MaxStrLen = 5
  MaxU64 = 7
  Bytes = {0, 1, 2, 3, 4, 5}
  Delims = {0}
  Content <- MCContent
  NoDelim = 9
  ChunkSize = 2
  MaxReads = 2
  DelimAt = {1, 4}
  SectionIds <- MCSectionIds
  Objects <- MCObjects
  ObjectStarts = {0, 1}
  FindSize = 2
  MaxReaders = 3
  MaxCount = 2
  NoByte = 99
INVARIANTS
  StatsCanBeShown
  SectionsAreWhole
PROPERTIES
  ViewsShiftReads
  ReaderImplementsSlice
CHECK_DEADLOCK FALSE
