CONSTANTS
  Names <- MCNames
  Catalogs <- MCNoFiles
  StreamFaults = TRUE
INIT Init
NEXT Next
INVARIANT FailuresAreReported
