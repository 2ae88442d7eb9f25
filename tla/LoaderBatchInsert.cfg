CONSTANTS
  N = 2
  NV = 1
  NES = 2
  NoSchema = NoSchema
  InputTables <- MCOneTable
  Faults = {"batch"}
  WellFormedStreams = TRUE
SPECIFICATION Spec
INVARIANT CollectivesMatch
