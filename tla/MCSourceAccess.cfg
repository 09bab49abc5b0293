SPECIFICATION Spec
CONSTANTS
  SymbolFiles <- MCSymbolFiles
  Locations <- MCLocations
  Guesses <- MCGuesses
INVARIANTS
  OnlyReferredFilesAreOpened
  ReportedFilesAreServed
  CachesAreTransparent
