SPECIFICATION Spec
CONSTANTS
  Catalog <- MCCatalog
  Internal <- MCInternal
  Identity <- MCIdentity
  EnvRow <- MCEnvRow
  Scenarios <- MCScenarios
CHECK_DEADLOCK FALSE
INVARIANTS
  TypeOK
  ColorIsDeclared
  RowsAreUnique
  CatalogStaysVisible
  LatestReportStands
  ErrorsAreShown
