SPECIFICATION DumpSpec
CONSTANTS
  Locations = {"a", "b", "c"}
  Ids = {"wanted", "other", "nil"}
  Nil = "nil"
  Wanted = "wanted"
  NoId = "noid"
  Corrupt = "corrupt"
  HelperFails = helper_fails
  Files <- MCFiles
  CandidateLists <- MCCandidateLists
  PdbLists <- MCPdbLists
INVARIANTS
  FirstToDecideWins
  SymbolsHaveTheWantedId
  FewFilesAreOpen
  OnlySizelessFilesLeak
  SecondSearchSucceeds
PROPERTIES
  DumpEnds
