CONSTANTS
  N = 2
  NoSchema = NoSchema
  LocalTables <- MCReconcileTables
SPECIFICATION Spec
INVARIANT ReconcileIsLub
