CONSTANTS
  N = 2
  NV = 1
  NES = 2
  NoSchema = NoSchema
  InputTables <- MCInputTables
  Faults = {"stream"}
  WellFormedStreams = FALSE
SPECIFICATION Spec
INVARIANT ShuffledSchemasAgree
CHECK_DEADLOCK FALSE
