------------------------------ MODULE SyncSchema ------------------------------
(***************************************************************************)
(* One call of ArrowFragmentLoader::SyncSchema across the worker group     *)
(* (arrow_fragment_loader.h 946-964).  Every worker all-gathers its local  *)
(* schema (GlobalAllGatherv), runs TypeLoosen over the gathered sequence,  *)
(* and then either builds an empty table of the loosened schema (when its  *)
(* own table is nullptr) or casts its table with CastTableToSchema.        *)
(***************************************************************************)
EXTENDS Naturals, Sequences, TypeLattice

CONSTANTS
  N,            \* number of workers (comm_spec.worker_num())
  LocalTables   \* the tables a worker's read may yield (incl. NoSchema)

ASSUME N \in Nat \ {0}
ASSUME LocalTables \subseteq Tables \cup {NoSchema}

Worker == 0 .. N-1

VARIABLES
  local,      \* local[w]: the table worker w read (NoSchema for nullptr)
  gathered,   \* gathered[w]: w has entered GlobalAllGatherv
  out         \* out[w]: Pending, or the outcome of SyncSchema on w

vars == <<local, gathered, out>>

Pending == [st |-> "pending"]
Outcomes == [st : {"ok"}, type : Types]
              \cup [st : {"err"}, err : {"InvalidOperation", "DataType"}]

\* The schema worker w contributes: nullptr when there is no table.
LocalSchema(w) == IF local[w] = NoSchema THEN NoSchema ELSE local[w].type

\* The all-gathered sequence, ordered by rank as GlobalAllGatherv returns it.
Schemas == [i \in 1..N |-> LocalSchema(i-1)]

Init ==
  /\ local \in [Worker -> LocalTables]
  /\ gathered = [w \in Worker |-> FALSE]
  /\ out = [w \in Worker |-> Pending]

\* local_schema = table ? table->schema() : nullptr; GlobalAllGatherv(...)
Contribute(w) ==
  /\ ~gathered[w]
  /\ gathered' = [gathered EXCEPT ![w] = TRUE]
  /\ UNCHANGED <<local, out>>

\* Mutation: the empty table of a nullptr worker built from its own (absent)
\* schema instead of the loosened one.
NormalizeEmptyLocal(w) ==
  /\ gathered[w] /\ out[w] = Pending /\ \A v \in Worker : gathered[v]
  /\ out' = [out EXCEPT ![w] =
               IF TypeLoosenFails(Schemas) THEN [st |-> "err", err |-> "InvalidOperation"]
               ELSE IF local[w] = NoSchema THEN [st |-> "ok", type |-> LocalSchema(w)]
               ELSE IF CastTableToSchema(local[w], TypeLoosen(Schemas))
                 THEN [st |-> "ok", type |-> TypeLoosen(Schemas)]
               ELSE [st |-> "err", err |-> "DataType"]]
  /\ UNCHANGED <<local, gathered>>

\* The all-gather returns on w once every worker has contributed; then
\* TypeLoosen, and EmptyTableBuilder::Build or CastTableToSchema.
Normalize(w) ==
  /\ gathered[w]
  /\ out[w] = Pending
  /\ \A v \in Worker : gathered[v]
  /\ out' = [out EXCEPT ![w] =
               IF TypeLoosenFails(Schemas)
                 THEN [st |-> "err", err |-> "InvalidOperation"]
               ELSE IF local[w] = NoSchema
                 THEN [st |-> "ok", type |-> TypeLoosen(Schemas)]
               ELSE IF CastTableToSchema(local[w], TypeLoosen(Schemas))
                 THEN [st |-> "ok", type |-> TypeLoosen(Schemas)]
               ELSE [st |-> "err", err |-> "DataType"]]
  /\ UNCHANGED <<local, gathered>>

Finished == \A w \in Worker : out[w] # Pending

\* Every worker has returned: nothing more happens.
Done == Finished /\ UNCHANGED vars

Next ==
  \/ \E w \in Worker : Contribute(w) \/ Normalize(w)
  \/ Done

Spec == Init /\ [][Next]_vars

-----------------------------------------------------------------------------
TypeOK ==
  /\ local \in [Worker -> LocalTables]
  /\ gathered \in [Worker -> BOOLEAN]
  /\ out \in [Worker -> Outcomes \cup {Pending}]

\* A worker whose cast succeeded holds data of the reconciled type without
\* narrowing it: its rows were of that type or of a type below it, or it had
\* no rows to convert (CastTableToSchema never changes a value's kind).
NoLossyCast ==
  \A w \in Worker :
    out[w].st = "ok" /\ local[w] # NoSchema /\ local[w].chunks > 0
      => Rank(local[w].type) <= Rank(out[w].type)

\* Spec 4.3/8: the reconciled type is the least upper bound of the workers'
\* types under the widening lattice, and every worker's table conforms to
\* it (no DataTypeError) -- scenario C included.
ReconcileIsLub ==
  Finished /\ ~TypeLoosenFails(Schemas)
    => \A w \in Worker : out[w].st = "ok" /\ out[w].type = LatticeLub(Schemas)
=============================================================================
