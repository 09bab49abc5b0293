\* Every address of a small address space in every object.
SPECIFICATION Spec
CONSTANTS
  U32Size = 10
  U64Size = 20
  MaxAddress = 4
  Bases = {0, 2}
  Objects <- MCObjects
  Lookups <- MCLookups
  BadName <- Bad
INVARIANTS
  TableRoundTrips
  SameFunctionInTable
  DeadSpaceHasNoSymbol
  FunctionsAreDisjoint
