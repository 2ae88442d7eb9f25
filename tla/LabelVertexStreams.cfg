CONSTANTS
  Names <- MCNames
  Catalogs <- MCVertexStreams
  StreamFaults = FALSE
INIT Init
NEXT Next
INVARIANT IndexBelowCount
