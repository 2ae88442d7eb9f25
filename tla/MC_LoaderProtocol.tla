-------------------------- MODULE MC_LoaderProtocol --------------------------
(* Model-checking instance of LoaderProtocol: two workers, one vertex file *)
(* and one edge sub-file; a column read as int64, float64 or utf8, so the  *)
(* schema reconciliation both succeeds and fails.                          *)
EXTENDS LoaderProtocol

MCInputTables == [type : {"int64", "float64", "utf8"}, chunks : {1}]

\* For the fault runs: every read yields an int64 column, so only the
\* injected fault can make a worker fail.
MCOneTable == {[type |-> "int64", chunks |-> 1]}
=============================================================================
