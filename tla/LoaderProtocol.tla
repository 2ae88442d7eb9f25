---------------------------- MODULE LoaderProtocol ----------------------------
(***************************************************************************)
(* The control flow of ArrowFragmentLoader::LoadFragment and               *)
(* LoadFragmentAsFragmentGroup on every worker of the group, and the       *)
(* collective calls that tie the workers together.                         *)
(*                                                                         *)
(* MPI matches collective calls by their order on the communicator, not by *)
(* the line that makes them.  sent[w] is the sequence of collective calls  *)
(* worker w has entered, each tagged with its call site and carrying the   *)
(* value w contributes; the k-th calls of all workers form one collective. *)
(* An all-gather (sync_gs_error, GlobalAllGatherv, the shuffles) returns   *)
(* once every worker has entered it; MPI_Gather returns at once on a       *)
(* non-root and waits for everyone on the root; MPI_Bcast returns at once  *)
(* on the root and waits for the root on the others.  A worker whose k-th  *)
(* call pairs with a call from another site never returns from it.         *)
(*                                                                         *)
(* File data are abstracted to the type and chunk count of one property   *)
(* column (TypeLattice) and the label metadata of each file's descriptor.  *)
(***************************************************************************)
EXTENDS Naturals, Sequences, FiniteSets, TypeLattice

CONSTANTS
  N,            \* comm_spec.worker_num() = fnum()
  NV,           \* number of vertex files (vfiles) when vfiles are given
  NES,          \* number of edge sub-files (all ';'-separated efiles)
  InputTables,  \* what a worker's partial read of one file may yield
  Faults,       \* the local failures that may occur, a subset of FaultKinds
  WellFormedStreams \* stream producers wrote one column type to every
                    \* partition and label metadata on every table

\* read: a file read; batch: OidSet::BatchInsert; fraginit: frag_builder.Init;
\* grouppersist: the group's Persist; persist: the fragment's Persist (380);
\* gid: vm_ptr->GetGid of an edge endpoint no vertex file lists (292);
\* stream: readTableFromVineyard of a stream.
FaultKinds == {"read", "batch", "fraginit", "grouppersist", "persist", "gid", "stream"}

ASSUME N \in Nat \ {0} /\ NV \in Nat \ {0} /\ NES \in Nat \ {0}
ASSUME InputTables \subseteq Tables /\ Faults \subseteq FaultKinds
ASSUME WellFormedStreams \in BOOLEAN

Worker == 0 .. N-1
Root   == 0
VFiles == 1 .. NV
EFiles == NV+1 .. NV+NES
Files  == VFiles \cup EFiles

\* Object ids: a fragment and a vineyard instance per worker, one group.
FragId(w) == <<"frag", w>>
InstId(w) == <<"inst", w>>
GroupId   == <<"group", Root>>
NoGroup   == <<"nogroup">>

\* grape::CommSpec::FragToWorker: fragment fid is loaded by worker fid.
FragToWorker(fid) == fid

\* Label metadata of a file descriptor: complete, no `label`, or an edge
\* file without `src_label`/`dst_label` (or naming an unknown vertex label).
Metas == {"ok", "nolabel", "noends"}

Sites == {"readSync", "schema", "schemaSync", "outerV", "outerE", "outerEV",
          "shuffleV", "shuffleE", "gatherInst", "gatherFrag", "bcast"}

VARIABLES
  tbl,       \* tbl[w][f]: the table worker w's partial read of file f yields
  meta,      \* meta[f]: the label metadata of file f's descriptor
  vless,     \* vfiles_.empty(): vertex tables are inferred from edge files
  asGroup,   \* the entry point is LoadFragmentAsFragmentGroup
  labelsOK,  \* the label-to-index maps pass shuffleAndBuild's checks
  streams,   \* the loader was constructed from vstreams and estreams
  held,      \* held[w]: the streams whose tables w's constructor kept
  pc,        \* pc[w]: where worker w is in the load
  stage,     \* stage[w]: which loader runs ("V", "E" or "EV")
  fi,        \* fi[w]: the file worker w is loading
  sent,      \* sent[w]: the collective calls worker w has entered
  norm,      \* norm[w][f]: the type SyncSchema gave file f on w
  persisted, \* objects persisted in the vineyard store
  group,     \* the fragment group registry the root sealed, or NoGroup
  result     \* result[w]: what the entry point returned on w

inputs == <<tbl, meta, vless, asGroup, labelsOK, streams>>
vars == <<inputs, held, pc, stage, fi, sent, norm, persisted, group, result>>

Terminal(w) == pc[w] \in {"done", "failed"}

\* w has left the load: it returned, or an exception or abort ended it.
Ended(w) == Terminal(w) \/ pc[w] = "aborted"

\* The collective w is in is its last entered call, round Len(sent[w]).
Round(w) == Len(sent[w])

\* Enter a collective call contributing value x.
Post(w, site, x) == sent' = [sent EXCEPT ![w] = Append(@, [site |-> site, val |-> x])]

\* The all-gather w waits in has returned: every worker entered the same
\* round from the same call site.
Gathered(w) ==
  \A v \in Worker : Round(v) >= Round(w) /\ sent[v][Round(w)].site = sent[w][Round(w)].site
Values(w) == [i \in 1 .. N |-> sent[i-1][Round(w)].val]

\* sync_gs_error: the local results are all-gathered and every worker
\* returns an error if any worker's procedure failed.
AllOk(w) == \A v \in Worker : sent[v][Round(w)].val = "ok"
Status(ok) == IF ok THEN "ok" ELSE "err"

\* The outcomes a local step may have, given the enabled faults.
Outcomes(kind) == IF kind \in Faults THEN {TRUE, FALSE} ELSE {TRUE}

LastFile(w) == IF stage[w] = "V" THEN NV ELSE NV + NES

Init ==
  /\ tbl \in [Worker -> [Files -> InputTables]]
  /\ meta \in {m \in [Files -> Metas] : \A f \in VFiles : m[f] # "noends"}
  /\ vless \in BOOLEAN
  /\ asGroup \in BOOLEAN
  /\ labelsOK \in BOOLEAN
  /\ streams \in BOOLEAN
  \* the stream constructor leaves vfiles_ empty
  /\ streams => vless
  /\ streams /\ WellFormedStreams =>
       (\A v, w \in Worker : tbl[v] = tbl[w]) /\ \A f \in Files : meta[f] = "ok"
  /\ held = [w \in Worker |-> {}]
  /\ pc = [w \in Worker |-> IF streams THEN "ctor" ELSE "start"]
  /\ stage = [w \in Worker |-> "V"]
  /\ fi = [w \in Worker |-> 0]
  /\ sent = [w \in Worker |-> << >>]
  /\ norm = [w \in Worker |-> [f \in Files |-> NoSchema]]
  /\ persisted = {}
  /\ group = NoGroup
  /\ result = [w \in Worker |-> "none"]

-----------------------------------------------------------------------------
(* Loading the tables (initBasicLoader and the load* procedures).          *)

\* Leave a load procedure with result `ok` and enter the sync_gs_error that
\* wraps it in initBasicLoader.
ExitLoad(w, ok) ==
  /\ Post(w, IF stage[w] = "V" THEN "outerV" ELSE IF stage[w] = "E" THEN "outerE" ELSE "outerEV",
          Status(ok))
  /\ pc' = [pc EXCEPT ![w] = "outerSync"]

\* Go on with the next file of the loop, or leave the procedure.
NextFile(w) ==
  IF fi[w] = LastFile(w)
    THEN ExitLoad(w, TRUE) /\ UNCHANGED fi
    ELSE /\ fi' = [fi EXCEPT ![w] = @ + 1]
         /\ pc' = [pc EXCEPT ![w] = "read"]
         /\ UNCHANGED sent

\* Every edge stream connects vertices of the first vertex label.
EdgeEnds == {1}

\* The stream constructor: gatherVTables and gatherETables read each stream
\* (readTableFromVineyard); a failed read is logged and its table skipped.
\* A kept table without its label metadata fails VINEYARD_ASSERT, and an
\* edge table whose endpoint label has no kept vertex table makes
\* vertex_label_to_index_.at throw: the exception leaves the constructor.
GatherStreams(w) ==
  /\ pc[w] = "ctor"
  /\ \E ok \in [Files -> Outcomes("stream")] :
       LET got == {f \in Files : ok[f]}
       IN  IF \/ \E f \in got \cap VFiles : meta[f] = "nolabel"
              \/ \E f \in got \cap EFiles : meta[f] # "ok" \/ ~(EdgeEnds \subseteq got)
             THEN /\ pc' = [pc EXCEPT ![w] = "aborted"]
                  /\ UNCHANGED held
             ELSE /\ held' = [held EXCEPT ![w] = got]
                  /\ pc' = [pc EXCEPT ![w] = "start"]
  /\ UNCHANGED <<inputs, stage, fi, sent, norm, persisted, group, result>>

\* LoadFragment: initPartitioner (hash partitioner, cannot fail), then
\* initBasicLoader: with both partial_v_tables_ and partial_e_tables_
\* non-empty it goes straight to ShuffleVertexTables; otherwise it picks
\* loadVertexTables or loadEVTablesFromEFiles by vfiles_.empty().
InitPartitioner(w) ==
  /\ pc[w] = "start"
  /\ IF streams /\ held[w] \cap VFiles # {} /\ held[w] \cap EFiles # {}
       THEN /\ Post(w, "shuffleV", "rows")
            /\ pc' = [pc EXCEPT ![w] = "shuffleV"]
            /\ UNCHANGED <<stage, fi>>
     ELSE IF vless
       THEN /\ stage' = [stage EXCEPT ![w] = "EV"]
            /\ pc' = [pc EXCEPT ![w] = "scan"]
            /\ UNCHANGED <<fi, sent>>
       ELSE /\ stage' = [stage EXCEPT ![w] = "V"]
            /\ fi' = [fi EXCEPT ![w] = 1]
            /\ pc' = [pc EXCEPT ![w] = "read"]
            /\ UNCHANGED sent
  /\ UNCHANGED <<inputs, held, norm, persisted, group, result>>

\* loadEVTablesFromEFiles, first block: the descriptors of all edge
\* sub-files must name src_label and dst_label; no file is opened.
\* After the stream constructor efiles_ is empty: the scan finds no label,
\* and the edge loop, bounded by edge_label_num_ = estreams.size(), reads
\* efiles[0] of an empty vector (a null dereference with libstdc++).
ScanEdgeLabels(w) ==
  /\ pc[w] = "scan"
  /\ IF streams
       THEN pc' = [pc EXCEPT ![w] = "aborted"] /\ UNCHANGED <<fi, sent>>
     ELSE IF \E f \in EFiles : meta[f] = "noends"
       THEN ExitLoad(w, FALSE) /\ UNCHANGED fi
       ELSE /\ fi' = [fi EXCEPT ![w] = NV + 1]
            /\ pc' = [pc EXCEPT ![w] = "read"]
            /\ UNCHANGED sent
  /\ UNCHANGED <<inputs, held, stage, norm, persisted, group, result>>

\* read_procedure: SetPartialRead, Open, ReadTable, run under sync_gs_error.
ReadTable(w) ==
  /\ pc[w] = "read"
  /\ \E ok \in Outcomes("read") : Post(w, "readSync", Status(ok))
  /\ pc' = [pc EXCEPT ![w] = "readSync"]
  /\ UNCHANGED <<inputs, held, stage, fi, norm, persisted, group, result>>

\* Mutation: read_procedure called without sync_gs_error, each worker
\* acting on its own read status.
ReadSyncedUnsynced(w) ==
  /\ pc[w] = "readSync"
  /\ Gathered(w)
  /\ IF sent[w][Round(w)].val = "ok"
       THEN /\ Post(w, "schema", tbl[w][fi[w]].type)
            /\ pc' = [pc EXCEPT ![w] = "schema"]
       ELSE ExitLoad(w, FALSE)
  /\ UNCHANGED <<inputs, held, stage, fi, norm, persisted, group, result>>

\* The read's sync_gs_error returns; on success SyncSchema starts with its
\* GlobalAllGatherv of the table's schema.
ReadSynced(w) ==
  /\ pc[w] = "readSync"
  /\ Gathered(w)
  /\ IF AllOk(w)
       THEN /\ Post(w, "schema", tbl[w][fi[w]].type)
            /\ pc' = [pc EXCEPT ![w] = "schema"]
       ELSE ExitLoad(w, FALSE)
  /\ UNCHANGED <<inputs, held, stage, fi, norm, persisted, group, result>>

\* SyncSchema after its all-gather: TypeLoosen over the gathered schemas and
\* CastTableToSchema of the local table; the result enters the
\* sync_gs_error around sync_schema_procedure.
SchemaGathered(w) ==
  /\ pc[w] = "schema"
  /\ Gathered(w)
  /\ LET t == TypeLoosen(Values(w))
     IN  /\ norm' = [norm EXCEPT ![w][fi[w]] = t]
         /\ Post(w, "schemaSync", Status(CastTableToSchema(tbl[w][fi[w]], t)))
  /\ pc' = [pc EXCEPT ![w] = "schemaSync"]
  /\ UNCHANGED <<inputs, held, stage, fi, persisted, group, result>>

\* loadVertexTables after the normalized table: the descriptor must carry a
\* label; vertex_label_to_index_[label] = label_id.
VertexFileLoaded(w) ==
  IF meta[fi[w]] = "nolabel" THEN ExitLoad(w, FALSE) /\ UNCHANGED fi ELSE NextFile(w)

\* loadEdgeTables after the normalized table: label, src_label and
\* dst_label must be present and name known vertex labels (.at() throws
\* otherwise, caught as IOError).
EdgeFileLoaded(w) ==
  IF meta[fi[w]] # "ok" THEN ExitLoad(w, FALSE) /\ UNCHANGED fi ELSE NextFile(w)

\* loadEVTablesFromEFiles after the normalized table: the label checks, then
\* BatchInsert of the src and dst columns into the oid sets, whose failure
\* returns from the procedure at once (BOOST_LEAF_CHECK).
EVFileLoaded(w) ==
  IF meta[fi[w]] # "ok" THEN ExitLoad(w, FALSE) /\ UNCHANGED fi
  ELSE \E ok \in Outcomes("batch") :
         IF ok THEN NextFile(w) ELSE ExitLoad(w, FALSE) /\ UNCHANGED fi

\* The sync_gs_error around SyncSchema returns.
SchemaSynced(w) ==
  /\ pc[w] = "schemaSync"
  /\ Gathered(w)
  /\ IF ~AllOk(w) THEN ExitLoad(w, FALSE) /\ UNCHANGED fi
     ELSE IF stage[w] = "V" THEN VertexFileLoaded(w)
     ELSE IF stage[w] = "E" THEN EdgeFileLoaded(w)
     ELSE EVFileLoaded(w)
  /\ UNCHANGED <<inputs, held, stage, norm, persisted, group, result>>

-----------------------------------------------------------------------------
(* shuffleAndBuild, LoadFragment's return and constructFragmentGroup.      *)

\* Mutation: the edge loop starts one file too late.
OuterSyncedSkipFile(w) ==
  /\ pc[w] = "outerSync"
  /\ Gathered(w)
  /\ IF ~AllOk(w)
       THEN /\ pc' = [pc EXCEPT ![w] = "failed"]
            /\ result' = [result EXCEPT ![w] = "error"]
            /\ UNCHANGED <<stage, fi, sent>>
     ELSE IF stage[w] = "V"
       THEN /\ stage' = [stage EXCEPT ![w] = "E"]
            /\ fi' = [fi EXCEPT ![w] = NV + 2]
            /\ pc' = [pc EXCEPT ![w] = "read"]
            /\ UNCHANGED <<sent, result>>
       ELSE /\ Post(w, "shuffleV", "rows")
            /\ pc' = [pc EXCEPT ![w] = "shuffleV"]
            /\ UNCHANGED <<stage, fi, result>>
  /\ UNCHANGED <<inputs, held, norm, persisted, group>>

\* A load procedure's sync_gs_error returns in initBasicLoader.  After the
\* vertex tables the edge tables are loaded; after the edge tables the
\* basic loader is initialised and ShuffleVertexTables starts.
OuterSynced(w) ==
  /\ pc[w] = "outerSync"
  /\ Gathered(w)
  /\ IF ~AllOk(w)
       THEN /\ pc' = [pc EXCEPT ![w] = "failed"]
            /\ result' = [result EXCEPT ![w] = "error"]
            /\ UNCHANGED <<stage, fi, sent>>
     ELSE IF stage[w] = "V"
       THEN /\ stage' = [stage EXCEPT ![w] = "E"]
            /\ fi' = [fi EXCEPT ![w] = NV + 1]
            /\ pc' = [pc EXCEPT ![w] = "read"]
            /\ UNCHANGED <<sent, result>>
       ELSE /\ Post(w, "shuffleV", "rows")
            /\ pc' = [pc EXCEPT ![w] = "shuffleV"]
            /\ UNCHANGED <<stage, fi, result>>
  /\ UNCHANGED <<inputs, held, norm, persisted, group>>

\* ShuffleVertexTables returns; the vertex map is built from the oid lists
\* and sealed; ShuffleEdgeTables resolves the local edges' endpoints with
\* the mapper, whose CHECK(GetGid) aborts the process on an oid the vertex
\* map lacks (possible only when vertices come from vertex files), and
\* then shuffles the edges.
ShuffledVertices(w) ==
  /\ pc[w] = "shuffleV"
  /\ Gathered(w)
  /\ \E ok \in Outcomes("gid") :
       IF ok \/ vless
         THEN Post(w, "shuffleE", "rows") /\ pc' = [pc EXCEPT ![w] = "shuffleE"]
         ELSE pc' = [pc EXCEPT ![w] = "aborted"] /\ UNCHANGED sent
  /\ UNCHANGED <<inputs, held, stage, fi, norm, persisted, group, result>>

\* ShuffleEdgeTables returns; the label-to-index maps are turned into the
\* PropertyGraphSchema, returning IOError if they are inconsistent.
ShuffledEdges(w) ==
  /\ pc[w] = "shuffleE"
  /\ Gathered(w)
  /\ IF labelsOK
       THEN /\ pc' = [pc EXCEPT ![w] = "build"]
            /\ UNCHANGED result
       ELSE /\ pc' = [pc EXCEPT ![w] = "failed"]
            /\ result' = [result EXCEPT ![w] = "error"]
  /\ UNCHANGED <<inputs, held, stage, fi, sent, norm, persisted, group>>

\* frag_builder.Init (BOOST_LEAF_CHECK), Seal and Persist of the fragment,
\* whose failure VINEYARD_CHECK_OK turns into an exception; LoadFragment
\* returns its id, and LoadFragmentAsFragmentGroup goes on to
\* constructFragmentGroup only if LoadFragment succeeded.
BuildFragment(w) ==
  /\ pc[w] = "build"
  /\ \E ok \in Outcomes("fraginit"), stored \in Outcomes("persist") :
       CASE ok /\ stored ->
              /\ persisted' = persisted \cup {FragId(w)}
              /\ pc' = [pc EXCEPT ![w] = IF asGroup THEN "group" ELSE "done"]
              /\ result' = [result EXCEPT ![w] = IF asGroup THEN "none" ELSE "frag"]
         [] ok /\ ~stored ->
              /\ pc' = [pc EXCEPT ![w] = "aborted"]
              /\ UNCHANGED <<persisted, result>>
         [] OTHER ->
              /\ pc' = [pc EXCEPT ![w] = "failed"]
              /\ result' = [result EXCEPT ![w] = "error"]
              /\ UNCHANGED persisted
  /\ UNCHANGED <<inputs, held, stage, fi, sent, norm, group>>

\* constructFragmentGroup on a non-root worker: both MPI_Gathers return at
\* once, MPI_Bcast waits for the root's group id.
NonRootGather(w) ==
  /\ w # Root
  /\ pc[w] = "group"
  /\ sent' = [sent EXCEPT ![w] = @ \o << [site |-> "gatherInst", val |-> InstId(w)],
                                          [site |-> "gatherFrag", val |-> FragId(w)],
                                          [site |-> "bcast", val |-> NoGroup] >>]
  /\ pc' = [pc EXCEPT ![w] = "bcast"]
  /\ UNCHANGED <<inputs, held, stage, fi, norm, persisted, group, result>>

\* The root enters the gather of instance ids.
RootGatherInst(w) ==
  /\ w = Root
  /\ pc[w] = "group"
  /\ Post(w, "gatherInst", InstId(w))
  /\ pc' = [pc EXCEPT ![w] = "gatherInst"]
  /\ UNCHANGED <<inputs, held, stage, fi, norm, persisted, group, result>>

\* The root's gather of instance ids returns; it enters the gather of
\* fragment ids.
RootGatherFrag(w) ==
  /\ pc[w] = "gatherInst"
  /\ Gathered(w)
  /\ Post(w, "gatherFrag", FragId(w))
  /\ pc' = [pc EXCEPT ![w] = "gatherFrag"]
  /\ UNCHANGED <<inputs, held, stage, fi, norm, persisted, group, result>>

\* Mutation: every entry filled from the root's own slot.
RegistryRootOnly(insts, frags) ==
  [fid \in Worker |-> [frag |-> frags[Root + 1], inst |-> insts[Root + 1]]]

\* The registry: fragment fid is the object gathered from FragToWorker(fid),
\* with the instance id gathered from the same worker.
Registry(insts, frags) ==
  [fid \in Worker |-> [frag |-> frags[FragToWorker(fid) + 1],
                       inst |-> insts[FragToWorker(fid) + 1]]]

\* The root's gather of fragment ids returns: it builds the group, seals and
\* persists it (VY_OK_OR_RAISE returns the error) and broadcasts its id.
RootBuildGroup(w) ==
  /\ pc[w] = "gatherFrag"
  /\ Gathered(w)
  /\ LET insts == [i \in 1 .. N |-> sent[i-1][Round(w) - 1].val]
     IN  group' = Registry(insts, Values(w))
  /\ \E ok \in Outcomes("grouppersist") :
       IF ok
         THEN /\ persisted' = persisted \cup {GroupId}
              /\ Post(w, "bcast", GroupId)
              /\ pc' = [pc EXCEPT ![w] = "done"]
              /\ result' = [result EXCEPT ![w] = "group"]
         ELSE /\ pc' = [pc EXCEPT ![w] = "failed"]
              /\ result' = [result EXCEPT ![w] = "error"]
              /\ UNCHANGED <<persisted, sent>>
  /\ UNCHANGED <<inputs, held, stage, fi, norm>>

\* A non-root's MPI_Bcast returns with the root's group id.
ReceiveGroup(w) ==
  /\ pc[w] = "bcast"
  /\ Round(Root) >= Round(w)
  /\ sent[Root][Round(w)].site = "bcast"
  /\ pc' = [pc EXCEPT ![w] = "done"]
  /\ result' = [result EXCEPT ![w] = "group"]
  /\ UNCHANGED <<inputs, held, stage, fi, sent, norm, persisted, group>>

\* Every worker has returned from the entry point.
Terminated == (\A w \in Worker : Ended(w)) /\ UNCHANGED vars

Step(w) ==
  \/ GatherStreams(w) \/ InitPartitioner(w) \/ ScanEdgeLabels(w) \/ ReadTable(w) \/ ReadSynced(w)
  \/ SchemaGathered(w) \/ SchemaSynced(w) \/ OuterSynced(w)
  \/ ShuffledVertices(w) \/ ShuffledEdges(w) \/ BuildFragment(w)
  \/ NonRootGather(w) \/ RootGatherInst(w) \/ RootGatherFrag(w)
  \/ RootBuildGroup(w) \/ ReceiveGroup(w)

Next == (\E w \in Worker : Step(w)) \/ Terminated

\* Each worker is an MPI process that keeps running while it can.
Spec == Init /\ [][Next]_vars /\ \A w \in Worker : WF_vars(Step(w))

-----------------------------------------------------------------------------
PCs == {"ctor", "aborted", "start", "scan", "read", "readSync", "schema", "schemaSync", "outerSync",
        "shuffleV", "shuffleE", "build", "group", "gatherInst", "gatherFrag",
        "bcast", "done", "failed"}
\* The values each call site contributes.
SiteVals(site) ==
  CASE site = "schema" -> Types
    [] site \in {"shuffleV", "shuffleE"} -> {"rows"}
    [] site = "gatherInst" -> {InstId(w) : w \in Worker}
    [] site = "gatherFrag" -> {FragId(w) : w \in Worker}
    [] site = "bcast" -> {NoGroup, GroupId}
    [] OTHER -> {"ok", "err"}

TypeOK ==
  /\ pc \in [Worker -> PCs]
  /\ stage \in [Worker -> {"V", "E", "EV"}]
  /\ fi \in [Worker -> {0} \cup Files]
  /\ held \in [Worker -> SUBSET Files]
  /\ \A w \in Worker : \A k \in 1 .. Round(w) :
       sent[w][k].site \in Sites /\ sent[w][k].val \in SiteVals(sent[w][k].site)
  /\ norm \in [Worker -> [Files -> Types \cup {NoSchema}]]
  /\ persisted \subseteq {FragId(w) : w \in Worker} \cup {GroupId}
  /\ group \in {NoGroup} \cup [Worker -> [frag : {FragId(w) : w \in Worker},
                                          inst : {InstId(w) : w \in Worker}]]
  /\ result \in [Worker -> {"none", "frag", "group", "error"}]

\* MPI pairs the k-th collective call of every worker: the k-th calls must
\* come from the same call site on all workers, or a worker's error status
\* is read as another's schema and the group is out of step.  This is what
\* the sync_gs_error wrappers are for: a local failure inside a load
\* procedure must not let one worker skip collectives the others make.
CollectivesMatch ==
  \A v, w \in Worker :
    \A k \in 1 .. IF Round(v) < Round(w) THEN Round(v) ELSE Round(w) :
      sent[v][k].site = sent[w][k].site

WaitPCs == {"readSync", "schema", "schemaSync", "outerSync", "shuffleV",
            "shuffleE", "gatherInst", "gatherFrag", "bcast"}

\* The workers a blocked collective call waits for.
Needs(w) == IF pc[w] = "bcast" THEN {Root} ELSE Worker

\* w waits in a collective that a peer has left the load without entering.
Stranded(w) ==
  /\ pc[w] \in WaitPCs
  /\ \E v \in Needs(w) : Ended(v) /\ Round(v) < Round(w)

\* Spec 5/7: no worker is left blocked in a collective call because a peer
\* returned from the load (with an error) without making that call.
NoStrandedWorker == \A w \in Worker : ~Stranded(w)

\* The type of the table w hands to the shuffle for file f: the type
\* SyncSchema gave it, or, after the stream constructor, the type of the
\* stream's table (NoSchema where the constructor kept none).
ShuffledType(w, f) ==
  IF streams THEN IF f \in held[w] THEN tbl[w][f].type ELSE NoSchema
  ELSE norm[w][f]

\* w has entered ShuffleVertexTables.
Shuffling(w) == \E k \in 1 .. Round(w) : sent[w][k].site = "shuffleV"

\* Spec 4.1 and 4.3: every source, file or stream, is reconciled before the
\* shuffle, and label indices agree across workers.  Any two workers that
\* enter ShuffleVertexTables hand it tables of the same labels, each with
\* one column type on both.  File sources get this from SyncSchema's
\* all-gather; stream sources, read at lines 778-863 and handed on at line
\* 244, never pass through SyncSchema.
ShuffledSchemasAgree ==
  \A v, w \in Worker :
    Shuffling(v) /\ Shuffling(w) =>
      \A f \in Files : ShuffledType(v, f) = ShuffledType(w, f)

\* A worker that returns a fragment group id gets the id of a persisted
\* registry in which every fragment fid is the persisted fragment of the
\* worker that loaded it, paired with that worker's instance id.
GroupRegistryCorrect ==
  \A w \in Worker :
    result[w] = "group" =>
      /\ GroupId \in persisted
      /\ group # NoGroup
      /\ \A fid \in Worker :
           /\ group[fid] = [frag |-> FragId(fid), inst |-> InstId(fid)]
           /\ FragId(fid) \in persisted

-----------------------------------------------------------------------------
(* Refinement: the detailed protocol implements AtomicLoad.  A worker's   *)
(* verdict is what its entry point returned; a fragment counts once the   *)
(* worker's Persist has run.                                              *)
Verdict(w) == CASE pc[w] = "done" -> "ok" [] pc[w] = "failed" -> "err"
                [] OTHER -> "pending"

Abstract == INSTANCE AtomicLoad
              WITH Workers <- Worker,
                   verdict <- [w \in Worker |-> Verdict(w)],
                   frags <- {w \in Worker : FragId(w) \in persisted}

\* Under the weak fairness of each worker, every worker returns, all with
\* the same verdict, success exactly when its fragment was persisted: the
\* sync_gs_error wrappers, the shuffles and the group's gathers and
\* broadcast together make the load atomic across the group.
AtomicLoadSpec == Abstract!Spec
=============================================================================
