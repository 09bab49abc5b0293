SPECIFICATION Spec
CONSTANTS
  Requests <- MCRequests
  ValidIds <- MCValidIds
  KnownAt <- MCKnownAt
INVARIANTS
  NeverPanics
  LookupsAreAscending
  FramesAreAnswered
  ErrorsExplainMissingModules
  RefusedAsAWhole
PROPERTIES
  Responds
