----------------------------- MODULE TypeLattice -----------------------------
(***************************************************************************)
(* The column-type algebra of ArrowFragmentLoader's schema reconciliation  *)
(* (arrow_fragment_loader.h, TypeLoosen and CastTableToSchema).            *)
(*                                                                         *)
(* A local table is abstracted to the type of one property column and the *)
(* number of chunks that column has.  Chunk count matters because          *)
(* CastTableToSchema raises its DataTypeError inside the loop over chunks: *)
(* a column with no chunks is never rejected.  A worker whose read gave    *)
(* no table (nullptr) contributes NoSchema to the all-gather.              *)
(***************************************************************************)
EXTENDS Naturals, Sequences

CONSTANT NoSchema   \* a model value: the schema of a nullptr table

\* The arrow types the loader distinguishes; "null" is what the CSV reader
\* infers for a column of an empty slice.
Types == {"null", "timestamp", "int64", "float64", "utf8"}

\* The widening order of the spec (timestamp -> int64 -> float64 -> utf8),
\* with the indeterminate type of an empty slice below all of them.
Rank(t) == CASE t = "null" -> 0 [] t = "timestamp" -> 1 [] t = "int64" -> 2
             [] t = "float64" -> 3 [] t = "utf8" -> 4

Tables == [type : Types, chunks : {0, 1}]

\* The schemas contributed by the workers, in rank order, skipping nullptr
\* (the loops over `schemas` with `schema != nullptr`).
Present(schemas) == SelectSeq(schemas, LAMBDA s : s # NoSchema)

\* TypeLoosen fails with "Every schema is empty" when no worker had a table.
TypeLoosenFails(schemas) == Present(schemas) = << >>

(***************************************************************************)
(* TypeLoosen: start from the first present type, turn timestamp into     *)
(* int64, widen int64 to float64 if some later schema has float64, then   *)
(* widen float64 to utf8 if some later schema has utf8.  The two widening *)
(* steps only look at schemas 2..n (the loops start at j = 1).            *)
(***************************************************************************)
TypeLoosen(schemas) ==
  LET p     == Present(schemas)
      later == {p[j] : j \in 2..Len(p)}
      r0    == IF p[1] = "timestamp" THEN "int64" ELSE p[1]
      r1    == IF r0 = "int64" /\ "float64" \in later THEN "float64" ELSE r0
  IN  IF r1 = "float64" /\ "utf8" \in later THEN "utf8" ELSE r1

\* Mutation: a cast that never raises DataTypeError (the else branch lost).
CastAnyType(table, to) == TRUE

\* The two conversions the loader implements: CastIntToDouble (a numeric
\* conversion of every value) and CastDateToInt (the same seconds relabelled).
WideningCast(from, to) ==
  \/ from = "int64" /\ to = "float64"
  \/ from = "timestamp" /\ to = "int64"

\* CastTableToSchema for one column: equal types are kept, the widening
\* casts are applied chunk by chunk, any other pair is a DataTypeError
\* raised for the first chunk (so never for a column with zero chunks).
CastTableToSchema(table, to) ==
  \/ table.type = to
  \/ table.chunks = 0
  \/ WideningCast(table.type, to)

\* The spec's reference: the least upper bound of the present types.
LatticeLub(schemas) ==
  LET p == Present(schemas)
  IN  CHOOSE t \in {p[j] : j \in 1..Len(p)} :
        \A j \in 1..Len(p) : Rank(p[j]) <= Rank(t)
=============================================================================
