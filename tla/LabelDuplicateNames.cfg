CONSTANTS
  Names <- MCNames
  Catalogs <- MCFilesDuplicate
  StreamFaults = FALSE
INIT Init
NEXT Next
INVARIANT SchemaMatchesTables
