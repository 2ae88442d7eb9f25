CONSTANTS
  N = 3
  NoSchema = NoSchema
  LocalTables <- MCLocalTables
SPECIFICATION Spec
INVARIANTS
  TypeOK
  NoLossyCast
