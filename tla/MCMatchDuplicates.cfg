\* Two functions of one name in one object.
SPECIFICATION Spec
CONSTANTS
  MaxAddr = 2
  MaxSize = 1
  Names = {"f", "g"}
  Objects = {"o"}
  FunLists <- MCFunLists
  PairLists <- MCPairLists
INVARIANT EveryAddressIsAssigned
