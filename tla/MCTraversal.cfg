\* Object files and archives of which some are missing or corrupt.
SPECIFICATION TraversalSpec
CONSTANTS
  Addresses = {0, 1, 2}
  ImageBase = 100
  Names = {"f", "g"}
  Garbage = TRUE
  MaxHops = 3
  NoMember = "-"
  Roots <- MCRoots
  Paths <- MCPaths
  FileSystems <- MCFileSystems
INVARIANTS
  AddressesTakeOneWay
  DebugInfoIsTraced
  OnlyObstaclesEndIt
PROPERTY Termination
