---------------------------- MODULE MC_SyncSchema ----------------------------
(* Model-checking instance of SyncSchema: three workers, every local table *)
(* the readers can produce (any type, with or without rows, or nullptr).   *)
EXTENDS SyncSchema

MCLocalTables == Tables \cup {NoSchema}

\* Non-empty slices of the numeric and string types: spec 8 expects
\* {integer, floating, string} to reconcile to their upper bound.
MCLatticeTables == [type : {"int64", "float64", "utf8"}, chunks : {1}]

\* Scenario C of the spec: one empty slice, another with floating values.
MCScenarioC == {[type |-> "null", chunks |-> 1], [type |-> "float64", chunks |-> 1]}
\* Both: slices of three types, and scenario C's empty slice.
MCReconcileTables == MCLatticeTables \cup MCScenarioC
=============================================================================
