CONSTANTS
  Names <- MCNames
  Catalogs <- MCPass
  StreamFaults = FALSE
INIT Init
NEXT Next
INVARIANTS
  TypeOK
  SchemaMatchesTables
  FailuresAreReported
  InconsistentLabelRejected
  IndexBelowCount
