\* Up to three functions and three addresses.
SPECIFICATION Spec
CONSTANTS
  MaxAddr = 2
  MaxSize = 2
  Names = {"f", "g"}
  Objects = {"o", "p"}
  FunLists <- MCFunLists
  PairLists <- MCPairLists
INVARIANTS
  NeverLooksBack
  MatchesAsDocumented
