# TLA+ models of the libvineyard ArrowFragmentLoader

This directory holds TLA+ models of the distributed property-graph loader in
`src/modules/graph/loader/arrow_fragment_loader.h`, and TLC configurations
that check them, and of the writing methods of `BlobBuilder` in the Python
bindings (`src/python/core.cc`).

## 1. The system

`ArrowFragmentLoader` runs as one process per MPI worker. Each worker:

1. reads its slice of every vertex and edge file;
2. agrees with its peers on each file's schema;
3. shuffles vertices and edges to their owners;
4. builds and persists one `ArrowFragment`.

Optionally, the root then registers all the fragments in one
`ArrowFragmentGroup`. The workers interact only through MPI collectives on
`comm_spec.comm()`. MPI matches those calls **by their order on the
communicator, not by call site**, so a worker that leaves a procedure early
without telling its peers pairs its next collective with a different one of
theirs, or blocks forever.

| Part | Code | State | Operations |
|---|---|---|---|
| Entry points | `LoadFragment` 187, `LoadFragmentAsFragmentGroup` 194 | the error returned | partitioner, load, shuffle+build, optional group |
| Partitioner | `initPartitioner` 202-239 | `partitioner_` | `HashPartitioner::Init`, which cannot fail (`HASH_PARTITION` is defined) |
| Loader selection | `initBasicLoader` 241-276 | `partial_*_tables_` | stream tables if present; otherwise the vfile path (`loadVertexTables`, then `loadEdgeTables`) or the vertex-less path (`loadEVTablesFromEFiles`), each wrapped in `sync_gs_error` |
| Per-file reads | `loadVertexTables` 434-487, `loadEdgeTables` 489-574, `loadEVTablesFromEFiles` 576-749 | label maps, tables | per file: read under `sync_gs_error`, then `SyncSchema` under `sync_gs_error`, then metadata checks (early `RETURN_GS_ERROR`, `BatchInsert`) |
| Schema reconciliation | `SyncSchema` 939-965, `TypeLoosen` 889-937, `CastTableToSchema` 1004-1045 | one schema per worker | all-gather of the schemas, loosening, cast |
| Error agreement | `sync_gs_error` (outside `src/`, spec 7) | — | run the procedure locally, then all-gather the statuses; every worker fails if one did |
| Shuffle and build | `shuffleAndBuild` 278-382 | fragment | `ShuffleVertexTables` and `ShuffleEdgeTables` (collectives), label checks, `frag_builder.Init`, `Seal`, `Persist` |
| Group registry | `constructFragmentGroup` 384-432 | group object | two `MPI_Gather`s to the root; the root builds, seals and persists the group; one `MPI_Bcast` of its id |
| Stream input | constructor 141, `gatherVTables` 751, `gatherETables` 805, `readTableFromVineyard` 773 | partial tables | read streams; a failed stream is logged and skipped locally |
| Python bindings | `core.cc` `bind_core` | vineyard objects | attribute forwarding, `BlobBuilder.copy` with a bounds check |

The behaviours that make this code hard are all cases where the workers
disagree:
- a failure on some workers only (a read, a cast, a metadata check,
  `BatchInsert`, `frag_builder.Init`, the root's `Persist`);
- a schema type that differs between workers' slices;
- the asymmetric completion of `MPI_Gather` (returns at once on non-roots)
  and `MPI_Bcast` (returns at once on the root).

## 2. Modules

| Module | Models | State ↔ code |
|---|---|---|
| `TypeLattice` | `TypeLoosen`, `CastTableToSchema`, `CastIntToDouble`, `CastDateToInt` as pure operators | a table is one property column: `[type, chunks]`; `NoSchema` is a nullptr table |
| `SyncSchema` | one `SyncSchema` call on N workers | `local[w]` is the table read; `gathered[w]` means w entered `GlobalAllGatherv`; `out[w]` is the result or the error |
| `LoaderProtocol` | the whole of `LoadFragment` / `LoadFragmentAsFragmentGroup` after the file or the stream constructor, on N workers | see below |
| `AtomicLoad` | the promise of a load: every worker eventually returns, all with one verdict, and a worker succeeds exactly when its fragment is persisted | `verdict[w]` (pending, ok, err); `frags` the workers whose fragment is persisted |
| `LabelIndex` | one worker's label bookkeeping: the label maps filled by `gatherVTables`/`gatherETables` (streams), `loadVertexTables`/`loadEdgeTables` (files) and `loadEVTablesFromEFiles` (vertex-less), and the `PropertyGraphSchema` entries `shuffleAndBuild` builds from them | see below |
| `BlobBuilder` | `BlobBuilder.__setitem__` and both `copy` overloads (`core.cc` 329-360) | `copied` the bytes written by the checked `copy(offset, bytes)`; `raw` those written by the unchecked overloads; offsets are `size_t`, taken mod `2^Width` |
| `MC_SyncSchema`, `MC_LoaderProtocol`, `MC_LabelIndex`, `MC_BlobBuilder` | definitions of the finite input sets the cfgs substitute | — |

How `LoaderProtocol` corresponds to the code:
- **Collectives.** `sent[w]` is the sequence of collectives worker w has
  entered, each `[site, val]`. The k-th entries of all workers form one
  collective. `Gathered(w)` says an all-gather (a `sync_gs_error`, a
  `GlobalAllGatherv` or a shuffle) is complete: every worker has entered
  round k from the same site. MPI_Gather and MPI_Bcast have their own
  completion rules.
- **Control point.** `pc[w]` is the statement a worker is blocked in or
  about to run. `stage[w]` (V, E, EV) and `fi[w]` (file index) are the loop
  state.
- **Persisted objects.** `persisted` holds the objects persisted to
  vineyard; `group` is the registry the root built.
- **Inputs.** These are chosen in `Init` and then never change:
  - `tbl[w][f]`: worker w's slice of file f (its type and chunk count);
  - `meta[f]`: the file's metadata verdict (ok, no label name, no
    src/dst labels);
  - `vless`: whether vfiles is empty;
  - `asGroup`: which entry point is called;
  - `labelsOK`: whether shuffleAndBuild's label-index checks pass;
  - `streams`: whether the stream constructor built the loader (then
    `vfiles_` is empty). `held[w]` records which streams' tables w's
    constructor kept (`GatherStreams`). An edge stream's endpoints are
    vertices of the first vertex label. `WellFormedStreams` restricts stream
    inputs to one column type per label on every partition and complete
    label metadata.
- **Faults.** The constant `Faults` lists which operations may fail, on any
  worker, independently: file reads, stream reads, `BatchInsert`,
  `frag_builder.Init`, the fragment's `Persist`, the `GetGid` lookup of an
  edge endpoint (only with vertex files), and the group's `Persist`.
- **Abnormal exits.** `pc[w] = "aborted"` is a worker that left the load
  without returning. This covers an exception (`VINEYARD_CHECK_OK` at 380,
  a `VINEYARD_ASSERT` or a `.at` in the stream constructor), an abort
  (`CHECK` at 292), and the out-of-bounds `efiles[0]` of the fallback after
  the stream constructor (630; with libstdc++ an empty vector's data
  pointer is null, so the read faults). Such a worker enters no further
  collective.
- **One action per handler.** Each action is a step between two
  collectives, with the code's guards and early returns. For example,
  `SchemaGathered` is the return of `GlobalAllGatherv` inside `SyncSchema`
  together with TypeLoosen and the cast, and it posts the status of the
  surrounding `sync_gs_error`. `OuterSynced` is the end of the
  `sync_gs_error` wrapping a whole load procedure, including the move from
  the vertex load to the edge load, or to the shuffle.

How `LabelIndex` corresponds to the code:
- **Names.** Label names are small positive integers, ordered as
  `std::set<std::string>` and `std::map` order them; `NoName` (0) is `""`,
  the default of an unset entry. An absent map key reads as `Absent`.
- **Inputs.** `mode` is the constructor used (files, streams, pre-built
  tables) and `cat` the catalog: the vertex label names and, per edge label,
  its sub-files `[label, src, dst]`. In stream mode `vok`/`eok` say which
  stream reads succeed (`readTableFromVineyard`).
- **Control.** `pc` walks the code's loops in order: the stream gathers in
  the constructor, `initBasicLoader`'s branch at 244, the file loops (`li`,
  `si`), then the vertex and edge entries of `shuffleAndBuild`. Each action
  is one loop iteration with its assignments and its early returns
  (`Fail`). `result` records how the load ended: `ok`, a returned error
  (`IOError`, `InvalidValue`), an exception out of a `.at` (`throw`), or an
  out-of-bounds read (`ub`).
- **State.** `vl2i`, `el2i`, `evl` are `vertex_label_to_index_`,
  `edge_label_to_index_`, `edge_vertex_label_`; `vnum` is
  `vertex_label_num_`; `vtabs`/`etabs` the label each partial table carries
  in its metadata; `ventry`/`eentry` the schema entries.

## 3. Runs

Passing runs (each property has a mutant that TLC kills; see PROJECT.json):

- **sync_schema** (`SyncSchema.cfg`: N=3, every table type with 0 or 1 chunk,
  or nullptr). 19,965 states.
  - `NoLossyCast`: a worker with rows is never cast to a lower type.
  - There is no agreement property. Every worker applies `TypeLoosen` to
    the same all-gathered vector, so the workers agree whatever order they
    run in. What can go wrong is the reconciled type itself, which
    `sync_schema_lub` checks.
- **loader** (`LoaderProtocol.cfg`: N=2, one vfile, one efile, read faults,
  three table types, every metadata verdict, both file paths, the stream
  constructor with well-formed streams, and both entry points). About
  197,000 states.
  - `CollectivesMatch`: the k-th collective of all workers comes from the
    same call site.
  - `GroupRegistryCorrect`: a returned group is persisted and maps every
    fragment id to that worker's persisted fragment and instance.
  - `AtomicLoadSpec`: the protocol refines `AtomicLoad` under the mapping
    `verdict[w]` = ok/err/pending from `pc[w]` (done, failed, otherwise) and
    `frags` = the workers whose `FragId` is persisted. This includes the
    liveness of the abstract spec: every worker eventually returns.
  - TLC's deadlock check is on. A terminal state steps only through
    `Terminated`.
  - This run does not check `NoStrandedWorker` or `ShuffledSchemasAgree`.
    With read faults only, every exit is synchronised by `sync_gs_error`,
    so a stranded worker would already break the liveness of
    `AtomicLoadSpec` and TLC's deadlock check. In file mode every worker
    loosens the same gathered schemas, and the well-formed streams of this
    run are identical by assumption, so agreement holds by construction.
    Both properties are checked where they can fail: in `loader_stranded`
    and `loader_stream_schema`.
  This run takes about 50 s.
- **labels** (`LabelIndex.cfg`: two label names; one or two vertex labels;
  one or two edge labels of one or two sub-files; file mode with distinct
  vertex labels and each edge label name at one index, stream mode with every
  label declared, and any catalog on the vertex-less path). About 79,000
  states.
  - `SchemaMatchesTables`: a successful load names every vertex entry as its
    table and every edge entry as each of its sub-tables, with the relations
    of those sub-tables.
  - `FailuresAreReported`: a load never ends in an exception or an
    out-of-bounds read.
  - `InconsistentLabelRejected`: an edge label name at two indices ends in a
    reported error (spec 4.2).
  - `IndexBelowCount`: every index in the label maps is below the label
    count the bounds checks of `shuffleAndBuild` compare against.
- **blob_builder** (`BlobBuilder.cfg`: a 4-byte blob, 8-bit `size_t`,
  offsets 0..5, lengths 0..4). `CheckedCopyInBlob`: the checked
  `copy(offset, bytes)` writes only inside the blob.

Violation runs (findings in PROJECT.json):

- **sync_schema_lub** (`ReconcileIsLub`, slices of int64/float64/utf8,
  and an empty slice typed null as in the spec's scenario C).
  - TypeLoosen widens to utf8 only from float64 (line 927), so reconciling
    {int64, utf8} gives int64 and the utf8 worker fails with DataTypeError,
    where the spec asks for the upper bound.
  - An empty slice is a null-typed column with one empty chunk: a present
    schema that fails its cast (TLC's shortest trace is this one). This relies
    on the CSV reader typing an empty slice's column as null.
- **loader_stranded** (`NoStrandedWorker`, faults grouppersist, fraginit,
  persist, gid and stream, with malformed streams allowed). Each fault on
  its own also violates the property; TLC reports the shortest trace, a
  stream constructor that throws on worker 0 while worker 1 enters the
  vertex shuffle.
  - The root's `VY_OK_OR_RAISE` (line 417) returns before `MPI_Bcast`, and
    worker 1 waits forever at line 428.
  - `frag_builder.Init` fails on worker 1, which returns without
    `constructFragmentGroup`, so the root waits forever in `MPI_Gather`
    (line 396).
  - The fragment's `Persist` throws on one worker (380), or the `GetGid`
    CHECK aborts it in the edge shuffle (292); its peers wait in the group's
    gather or broadcast, or in the shuffle.
  - A worker whose stream reads of one kind all failed takes the
    vertex-less branch at 244 and faults on `efiles[0]` (630), while its
    peers go straight to the shuffle.
- **loader_batch_insert** (`CollectivesMatch`, fault batch, two edge
  sub-files).
  - `BOOST_LEAF_CHECK` at line 718 returns mid-loop, so one worker's outer
    `sync_gs_error` pairs with the other's read sync.
  - This assumes `BatchInsert` can fail on a subset of the workers.
- **loader_stream_schema** (`ShuffledSchemasAgree`, stream constructor,
  stream read faults, two edge streams, stream types free). The deadlock
  check is off: aborted workers strand their peers, which `loader_stranded`
  covers.
  - TLC's trace: worker 0 lost edge stream 2 and worker 1 lost edge stream
    3. `gatherETables` drops empty labels, so each worker's first edge table
    belongs to a different label (line 860).
  - Without stream faults the property fails too: the stream branch of
    `initBasicLoader` (244) never runs `SyncSchema`, so int64 and float64
    slices are shuffled unreconciled.

- **labels_duplicate_names** (`SchemaMatchesTables`, files reusing a vertex
  or an edge label name at two indices).
  - Line 484 overwrites a vertex name's index; the schema gets a vertex
    entry named `""` and the load succeeds (TLC's trace).
  - `loadEdgeTables` overwrites an edge name's index at line 566 with no
    check. The load throws at 355, or succeeds with a sub-table filed under
    the wrong edge label, where spec 4.2 asks for InvalidValue.
- **labels_no_files** (`FailuresAreReported`, the pre-built-tables
  constructor and the stream constructor with failing reads).
  - With pre-built tables the label maps stay empty and line 355 throws.
  - A skipped vertex stream makes `vertex_label_to_index_.at` (847) throw
    out of the constructor; when all streams of a kind fail, `efiles_[...]`
    is read out of bounds (630).
- **labels_vertex_streams** (`IndexBelowCount`, vertex streams without edge
  streams). The vertex-less loader resets `vertex_label_num_` to 0 but
  keeps the streams' names, so index 0 passes the `>` check at 306.
- **blob_copy_wrap** (`CheckedCopyInBlob`, offsets near the top of
  `size_t`). `offset + size` wraps, the assertion at line 357 passes and
  `memcpy` writes before the blob.

### Bounds

- **Workers.** Two workers are enough for every disagreement above, since
  each needs one failing and one succeeding worker. The root and non-root
  paths of the group are both present with N=2. `SyncSchema` uses N=3
  because TypeLoosen's order dependence needs a seed and two later schemas.
- **Files.** One vertex file and one edge file make both loops iterate and
  exit. With two edge files, N=2 already has about 105,000 initial states,
  and the full loader run does not finish within minutes, so that case is
  left to the focused violation runs. The batch-insert run needs two edge sub-files, because the failure
  must happen before a later read.
- **Labels.** Two names are enough for a shared name, a duplicate, and a
  missing key beside a present one; two edge labels with two sub-files give
  every index collision the loops can produce.
- **Blob.** Only the relation of offset, length and size matters; an 8-bit
  `size_t` has the same wrap-around as a 64-bit one, and TLC's integers are
  32-bit.
- **Table types.** In the loader run, int64, float64 and utf8 are enough to
  produce both cast success and cast failure. The full five-type lattice is
  checked in `sync_schema`.

### Fairness

`Spec` assumes weak fairness of each worker's `Step`. A worker is a process
that keeps running while it has something enabled, and the MPI
implementation completes a collective once all participants have entered it.
Under this fairness the loader run checks, through `AtomicLoadSpec`, that
every worker eventually returns (the weak fairness of `Finish` in
`AtomicLoad`). `LabelIndex` and `BlobBuilder` are single-threaded and
check only safety.

## 4. What is not modelled, and why

- **What the MPI runtime does after a process dies.** An aborted worker
  simply enters no further collective; whether the launcher then kills the
  job is outside the code (spec 5 leaves it to a supervisor).
- **The stream payload.** `readTableFromVineyard` is abstracted to success
  or failure, and a stream table to one column type.
- **The internals of the shuffle and the vertex map.** These are not under
  `src/`; only their collectives are modelled.
- **Schema IPC serialisation** (lines 52-88) is an encoding round trip.
  `swapColumn` is never called.
- **The rest of `core.cc`** forwards attributes and calls to the vineyard
  client and holds no state of its own. `ObjectMeta`'s `__getitem__`, `get`,
  `get_member`, `__setitem__` and `add_member` delegate to `ObjectMeta` and
  its property tree, whose overwrite and duplicate-key behaviour lives
  outside `src/` (and outside the spec, which excludes binding glue). The
  bindings' own logic is a key lookup that raises `key_error` or returns a
  default. The unchecked `__getitem__`/`__setitem__` on a blob index are
  unchecked by design ("NB: unchecked").

## 5. Plan for the following work

1. A shuffle contract module (spec-modelled): the vertex shuffle is a
   partition by the hash partitioner, and the GIDs are injective.
2. Larger instances of `LoaderProtocol` (three workers, two vertex files).
   These need a symmetry reduction over workers, or a coarser abstraction of
   the input tables, before TLC can finish them: with two edge files the
   initial states alone exceed 100,000.
