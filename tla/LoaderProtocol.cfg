CONSTANTS
  N = 2
  NV = 1
  NES = 1
  NoSchema = NoSchema
  InputTables <- MCInputTables
  Faults = {"read"}
  WellFormedStreams = TRUE
SPECIFICATION Spec
INVARIANTS
  TypeOK
  CollectivesMatch
  GroupRegistryCorrect
PROPERTY
  AtomicLoadSpec
