CONSTANTS
  N = 2
  NV = 1
  NES = 1
  NoSchema = NoSchema
  InputTables <- MCOneTable
  Faults = {"grouppersist", "fraginit", "persist", "gid", "stream"}
  WellFormedStreams = FALSE
SPECIFICATION Spec
INVARIANT NoStrandedWorker
