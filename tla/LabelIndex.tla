----------------------------- MODULE LabelIndex -----------------------------
(***************************************************************************)
(* The label bookkeeping of one ArrowFragmentLoader session: how the maps  *)
(* vertex_label_to_index_, edge_label_to_index_ and edge_vertex_label_ are *)
(* filled while tables are acquired (from files, from the edge files only, *)
(* from streams, or from tables handed to the constructor), and how        *)
(* shuffleAndBuild turns them into the PropertyGraphSchema entries.        *)
(*                                                                         *)
(* The label metadata is the same on every worker, so one worker is        *)
(* modelled; the reads, schema syncs and collectives around these steps    *)
(* are in LoaderProtocol.  A label name is a positive integer, ordered as  *)
(* std::set<std::string> orders names; NoName is the empty string that a   *)
(* default-constructed std::string holds.  A partial table is abstracted   *)
(* to its label metadata: a name for a vertex table, a sub-file record for *)
(* an edge table.                                                          *)
(***************************************************************************)
EXTENDS Integers, Sequences, FiniteSets, SequencesExt

CONSTANTS
  Names,        \* label names occurring in the metadata
  Catalogs,     \* per acquisition mode ("files", "streams", "tables"), the
                \* inputs: [v : vertex label per vfile/vstream/table,
                \*          e : per edge label, its sub-files' metadata]
  StreamFaults  \* whether a stream read may fail (readTableFromVineyard)

ASSUME Names \subseteq Nat \ {0} /\ StreamFaults \in BOOLEAN
ASSUME DOMAIN Catalogs \subseteq {"files", "streams", "tables"}

NoName == 0
Absent == -1                       \* the key is not in the std::map
Keys   == Names \cup {NoName}
SubFiles == [label : Names, src : Names, dst : Names]

VARIABLES
  mode, cat, vok, eok,      \* the inputs: mode, metadata, stream read outcomes
  pc, li, si,               \* control point; label and sub-file loop indices
  vl2i, el2i, evl,          \* vertex_label_to_index_, edge_label_to_index_,
                            \* edge_vertex_label_
  vnum,                     \* vertex_label_num_
  vtabs, etabs, sub,        \* partial vertex / edge tables; subtables of
                            \* the edge label gatherETables is at
  ventry, eentry,           \* the schema's vertex and edge entries
  result

inputs == <<mode, cat, vok, eok>>
vars == <<inputs, pc, li, si, vl2i, el2i, evl, vnum, vtabs, etabs, sub,
          ventry, eentry, result>>

\* edge_label_num_: efiles.size() or estreams.size(), whatever the mode.
ENum == Len(cat.e)

\* efiles_: only the file constructors set it.
EFiles == IF mode = "files" THEN cat.e ELSE << >>

\* A std::map<std::string, T>: its keys, and the key mapped to index i.
MapKeys(m) == {n \in Keys : m[n] # Absent}
KeyOf(m, i) == IF \E n \in MapKeys(m) : m[n] = i
                 THEN CHOOSE n \in MapKeys(m) : m[n] = i ELSE NoName

\* The position of name n in the std::set S (lines 611-619).
SetIndex(S, n) == Cardinality({m \in S : m < n})

\* The vertex label names the vertex-less scan discovers (lines 585-609).
SubsOf(files) == UNION {{files[i][j] : j \in 1 .. Len(files[i])} : i \in 1 .. Len(files)}
ScanNames == UNION {{f.src, f.dst} : f \in SubsOf(EFiles)}

\* The nested loops over edge labels and their sub-files: go to the next
\* sub-file, the next label, or leave the loops for `exit`.
Advance(files, exit) ==
  IF si < Len(files[li]) THEN si' = si + 1 /\ UNCHANGED <<li, pc>>
  ELSE IF li < Len(files) THEN li' = li + 1 /\ si' = 1 /\ UNCHANGED pc
  ELSE pc' = exit /\ UNCHANGED <<li, si>>

Fail(err) == result' = err /\ pc' = "done"

Init ==
  /\ mode \in DOMAIN Catalogs
  /\ cat \in Catalogs[mode]
  /\ vok \in [1 .. Len(cat.v) -> IF mode = "streams" /\ StreamFaults
                                   THEN BOOLEAN ELSE {TRUE}]
  /\ eok \in [UNION {{<<i, j>> : j \in 1 .. Len(cat.e[i])} : i \in 1 .. ENum} ->
                IF mode = "streams" /\ StreamFaults THEN BOOLEAN ELSE {TRUE}]
  /\ pc = IF mode = "streams" THEN "vstream" ELSE "init"
  /\ li = 1 /\ si = 1
  /\ vl2i = [n \in Keys |-> Absent]
  /\ el2i = [n \in Keys |-> Absent]
  /\ evl = [n \in Keys |-> {}]
  /\ vnum = Len(cat.v)
  /\ vtabs = IF mode = "tables" THEN cat.v ELSE << >>
  /\ etabs = IF mode = "tables" THEN cat.e ELSE << >>
  /\ sub = << >>
  /\ ventry = << >> /\ eentry = << >>
  /\ result = "none"

-----------------------------------------------------------------------------
(* The stream constructor: gatherVTables, then gatherETables.             *)

\* One vertex stream (lines 778-801).  A failed read is logged and skipped:
\* the table is not appended, so later tables move down one index.
GatherVTable ==
  /\ pc = "vstream"
  /\ IF li <= Len(cat.v)
       THEN /\ IF vok[li]
                 THEN /\ vtabs' = Append(vtabs, cat.v[li])
                      /\ vl2i' = [vl2i EXCEPT ![cat.v[li]] = li - 1]
                 ELSE UNCHANGED <<vtabs, vl2i>>
            /\ li' = li + 1
            /\ UNCHANGED pc
       ELSE pc' = "estream" /\ li' = 1 /\ UNCHANGED <<vtabs, vl2i>>
  /\ UNCHANGED <<inputs, si, el2i, evl, vnum, etabs, sub, ventry, eentry, result>>

\* One edge sub-stream (lines 809-863).  vertex_label_to_index_.at throws
\* std::out_of_range out of the constructor when the src or dst label has
\* no index; an edge label whose sub-streams all failed is not appended.
GatherESub ==
  /\ pc = "estream"
  /\ IF li > ENum
       THEN pc' = "init" /\ UNCHANGED <<li, si, el2i, evl, etabs, sub, result>>
       ELSE LET f   == cat.e[li][si]
                ok  == eok[<<li, si>>]
                s2  == IF ok THEN Append(sub, f) ELSE sub
                endL == si = Len(cat.e[li])
            IN IF ok /\ (vl2i[f.src] = Absent \/ vl2i[f.dst] = Absent)
                 THEN Fail("throw") /\ UNCHANGED <<li, si, el2i, evl, etabs, sub>>
                 ELSE /\ el2i' = IF ok THEN [el2i EXCEPT ![f.label] = li - 1] ELSE el2i
                      /\ evl' = IF ok THEN [evl EXCEPT ![f.label] = @ \cup {<<f.src, f.dst>>}]
                                      ELSE evl
                      /\ etabs' = IF endL /\ s2 # << >> THEN Append(etabs, s2) ELSE etabs
                      /\ sub' = IF endL THEN << >> ELSE s2
                      /\ IF endL THEN li' = li + 1 /\ si' = 1 ELSE si' = si + 1 /\ UNCHANGED li
                      /\ UNCHANGED <<pc, result>>
  /\ UNCHANGED <<inputs, vl2i, vnum, vtabs, ventry, eentry>>

\* initBasicLoader (lines 244-270): tables already held are used as they
\* are; otherwise, with vfiles_ empty, the vertex-less loader, else the
\* vertex and then the edge files.
SelectLoader ==
  /\ pc = "init"
  /\ pc' = CASE vtabs # << >> /\ etabs # << >> -> "vertices"
             [] mode # "files" \/ cat.v = << >> -> "scan"
             [] OTHER -> "vload"
  /\ li' = 1 /\ si' = 1
  /\ UNCHANGED <<inputs, vl2i, el2i, evl, vnum, vtabs, etabs, sub, ventry, eentry, result>>

-----------------------------------------------------------------------------
(* loadVertexTables, loadEdgeTables: the labels of the vertex and edge    *)
(* files (a read, schema or metadata failure is in LoaderProtocol).       *)

\* Mutation: the label index appended where the label name belongs.
LoadVertexFileIndexAsName ==
  /\ pc = "vload"
  /\ vtabs' = Append(vtabs, li - 1)
  /\ vl2i' = [vl2i EXCEPT ![cat.v[li]] = li - 1]
  /\ IF li = Len(cat.v)
       THEN /\ pc' = IF ENum = 0 THEN "vertices" ELSE "eload"
            /\ li' = 1
            /\ etabs' = [i \in 1 .. ENum |-> << >>]
       ELSE li' = li + 1 /\ UNCHANGED <<pc, etabs>>
  /\ UNCHANGED <<inputs, si, el2i, evl, vnum, sub, ventry, eentry, result>>

\* One vertex file (lines 440-485): tables[label_id] gets the file's label
\* and vertex_label_to_index_[label] = label_id, overwriting silently.
LoadVertexFile ==
  /\ pc = "vload"
  /\ vtabs' = Append(vtabs, cat.v[li])
  /\ vl2i' = [vl2i EXCEPT ![cat.v[li]] = li - 1]
  /\ IF li = Len(cat.v)
       THEN /\ pc' = IF ENum = 0 THEN "vertices" ELSE "eload"
            /\ li' = 1
            /\ etabs' = [i \in 1 .. ENum |-> << >>]
       ELSE li' = li + 1 /\ UNCHANGED <<pc, etabs>>
  /\ UNCHANGED <<inputs, si, el2i, evl, vnum, sub, ventry, eentry, result>>

\* One edge sub-file (lines 496-571).  The src and dst label must have an
\* index (.at throws, caught at 569 as IOError); the label's index is then
\* set to the file's position without looking at an earlier one.
LoadEdgeSubFile ==
  /\ pc = "eload"
  /\ LET f == cat.e[li][si]
     IN IF vl2i[f.src] = Absent \/ vl2i[f.dst] = Absent
          THEN Fail("IOError") /\ UNCHANGED <<li, si, etabs, evl, el2i>>
          ELSE /\ etabs' = [etabs EXCEPT ![li] = Append(@, f)]
               /\ evl' = [evl EXCEPT ![f.label] = @ \cup {<<f.src, f.dst>>}]
               /\ el2i' = [el2i EXCEPT ![f.label] = li - 1]
               /\ Advance(cat.e, "vertices")
               /\ UNCHANGED result
  /\ UNCHANGED <<inputs, vl2i, vnum, vtabs, sub, ventry, eentry>>

-----------------------------------------------------------------------------
(* loadEVTablesFromEFiles: vertex labels discovered from the edge files.  *)

\* Mutation: label ids numbered from 1 (v_label_id = 1).
ScanEdgeLabelsFromOne ==
  /\ pc = "scan"
  /\ vnum' = Cardinality(ScanNames)
  /\ vl2i' = [n \in Keys |-> IF n \in ScanNames THEN SetIndex(ScanNames, n) + 1
                                                ELSE vl2i[n]]
  /\ etabs' = [i \in 1 .. ENum |-> << >>]
  /\ pc' = IF ENum = 0 THEN "oids" ELSE "evload"
  /\ li' = 1 /\ si' = 1
  /\ UNCHANGED <<inputs, el2i, evl, vtabs, sub, ventry, eentry, result>>

\* Lines 580-624: the src/dst names of every sub-file, numbered in set
\* order; vertex_label_num_ becomes their count.
ScanEdgeLabels ==
  /\ pc = "scan"
  /\ vnum' = Cardinality(ScanNames)
  /\ vl2i' = [n \in Keys |-> IF n \in ScanNames THEN SetIndex(ScanNames, n)
                                                ELSE vl2i[n]]
  /\ etabs' = [i \in 1 .. ENum |-> << >>]
  /\ pc' = IF ENum = 0 THEN "oids" ELSE "evload"
  /\ li' = 1 /\ si' = 1
  /\ UNCHANGED <<inputs, el2i, evl, vtabs, sub, ventry, eentry, result>>

\* Mutation: the label index overwritten without the consistency check,
\* as loadEdgeTables does.
LoadEVSubFileOverwrite ==
  /\ pc = "evload"
  /\ IF li > Len(EFiles)
       THEN Fail("ub") /\ UNCHANGED <<li, si, etabs, evl, el2i>>
       ELSE LET f == EFiles[li][si]
            IN /\ etabs' = [etabs EXCEPT ![li] = Append(@, f)]
               /\ evl' = [evl EXCEPT ![f.label] = @ \cup {<<f.src, f.dst>>}]
               /\ el2i' = [el2i EXCEPT ![f.label] = li - 1]
               /\ Advance(EFiles, "oids") /\ UNCHANGED result
  /\ UNCHANGED <<inputs, vl2i, vnum, vtabs, sub, ventry, eentry>>

\* Mutation: a label met again keeps its first index and is not rejected.
LoadEVSubFileKeepFirst ==
  /\ pc = "evload"
  /\ IF li > Len(EFiles)
       THEN Fail("ub") /\ UNCHANGED <<li, si, etabs, evl, el2i>>
       ELSE LET f == EFiles[li][si]
            IN /\ etabs' = [etabs EXCEPT ![li] = Append(@, f)]
               /\ evl' = [evl EXCEPT ![f.label] = @ \cup {<<f.src, f.dst>>}]
               /\ el2i' = IF el2i[f.label] = Absent
                            THEN [el2i EXCEPT ![f.label] = li - 1] ELSE el2i
               /\ Advance(EFiles, "oids") /\ UNCHANGED result
  /\ UNCHANGED <<inputs, vl2i, vnum, vtabs, sub, ventry, eentry>>

\* Mutation: a sub-file's (src, dst) pair recorded only for the first
\* sub-file of its label.
LoadEVSubFileFirstRelation ==
  /\ pc = "evload"
  /\ IF li > Len(EFiles)
       THEN Fail("ub") /\ UNCHANGED <<li, si, etabs, evl, el2i>>
       ELSE LET f == EFiles[li][si]
            IN /\ etabs' = [etabs EXCEPT ![li] = Append(@, f)]
               /\ evl' = IF evl[f.label] = {}
                           THEN [evl EXCEPT ![f.label] = {<<f.src, f.dst>>}] ELSE evl
               /\ CASE el2i[f.label] = Absent ->
                         el2i' = [el2i EXCEPT ![f.label] = li - 1]
                         /\ Advance(EFiles, "oids") /\ UNCHANGED result
                    [] el2i[f.label] # li - 1 ->
                         Fail("InvalidValue") /\ UNCHANGED <<li, si, el2i>>
                    [] OTHER ->
                         Advance(EFiles, "oids") /\ UNCHANGED <<el2i, result>>
  /\ UNCHANGED <<inputs, vl2i, vnum, vtabs, sub, ventry, eentry>>

\* One edge sub-file (lines 627-715).  The loop runs to edge_label_num_ but
\* indexes efiles, which is empty under the stream constructor: undefined
\* behaviour.  A label met again at another index is an InvalidValue error.
LoadEVSubFile ==
  /\ pc = "evload"
  /\ IF li > Len(EFiles)
       THEN Fail("ub") /\ UNCHANGED <<li, si, etabs, evl, el2i>>
       ELSE LET f == EFiles[li][si]
            IN /\ etabs' = [etabs EXCEPT ![li] = Append(@, f)]
               /\ evl' = [evl EXCEPT ![f.label] = @ \cup {<<f.src, f.dst>>}]
               /\ CASE el2i[f.label] = Absent ->
                         el2i' = [el2i EXCEPT ![f.label] = li - 1]
                         /\ Advance(EFiles, "oids") /\ UNCHANGED result
                    [] el2i[f.label] # li - 1 ->
                         Fail("InvalidValue") /\ UNCHANGED <<li, si, el2i>>
                    [] OTHER ->
                         Advance(EFiles, "oids") /\ UNCHANGED <<el2i, result>>
  /\ UNCHANGED <<inputs, vl2i, vnum, vtabs, sub, ventry, eentry>>

\* Lines 729-747: one vertex table per discovered label, in set order.
BuildOidTables ==
  /\ pc = "oids"
  /\ vtabs' = [v \in 1 .. vnum |-> CHOOSE n \in ScanNames : SetIndex(ScanNames, n) = v - 1]
  /\ pc' = "vertices"
  /\ UNCHANGED <<inputs, li, si, vl2i, el2i, evl, vnum, etabs, sub, ventry, eentry, result>>

-----------------------------------------------------------------------------
(* shuffleAndBuild's PropertyGraphSchema (lines 302-368).  The shuffles   *)
(* return one local table per partial table, in order.                    *)

\* The loop over a label map in key order, building the index bitset: the
\* first key whose index is past the count (IOError), equal to the count
\* (vector<bool> read past its end), or already taken (IOError).
Problem(m, num, n) ==
  CASE m[n] > num -> "IOError"
    [] m[n] = num -> "ub"
    [] \E k \in MapKeys(m) : k < n /\ m[k] = m[n] -> "IOError"
    [] OTHER -> "none"
BadKeys(m, num) == {n \in MapKeys(m) : Problem(m, num, n) # "none"}
FirstKey(S) == CHOOSE n \in S : \A k \in S : n <= k

\* Vertex entries: named from the index map, one per vertex label, reading
\* local_v_tables[v] (unchecked operator[]).
BuildVertexEntries ==
  /\ pc = "vertices"
  /\ CASE BadKeys(vl2i, vnum) # {} ->
            Fail(Problem(vl2i, vnum, FirstKey(BadKeys(vl2i, vnum)))) /\ UNCHANGED ventry
       [] vnum > Len(vtabs) -> Fail("ub") /\ UNCHANGED ventry
       [] OTHER -> ventry' = [v \in 1 .. vnum |-> KeyOf(vl2i, v - 1)]
                   /\ pc' = "edges" /\ UNCHANGED result
  /\ UNCHANGED <<inputs, li, si, vl2i, el2i, evl, vnum, vtabs, etabs, sub, eentry>>

\* Edge entries: named from the index map, with the relations of
\* edge_vertex_label_.at(name) and the table local_e_tables.at(e); both
\* .at calls throw std::out_of_range, which nothing in shuffleAndBuild catches.
BuildEdgeEntries ==
  /\ pc = "edges"
  /\ LET name(e) == KeyOf(el2i, e - 1)
     IN CASE BadKeys(el2i, ENum) # {} ->
               Fail(Problem(el2i, ENum, FirstKey(BadKeys(el2i, ENum)))) /\ UNCHANGED eentry
          [] \E e \in 1 .. ENum : evl[name(e)] = {} \/ e > Len(etabs) ->
               Fail("throw") /\ UNCHANGED eentry
          [] OTHER -> /\ eentry' = [e \in 1 .. ENum |-> [name |-> name(e), rel |-> evl[name(e)]]]
                      /\ result' = "ok" /\ pc' = "done"
  /\ UNCHANGED <<inputs, li, si, vl2i, el2i, evl, vnum, vtabs, etabs, sub, ventry>>

\* The session has returned (a schema, or an error) or thrown.
Done == pc = "done" /\ UNCHANGED vars

Next ==
  \/ GatherVTable \/ GatherESub \/ SelectLoader
  \/ LoadVertexFile \/ LoadEdgeSubFile
  \/ ScanEdgeLabels \/ LoadEVSubFile \/ BuildOidTables
  \/ BuildVertexEntries \/ BuildEdgeEntries
  \/ Done

Spec == Init /\ [][Next]_vars

-----------------------------------------------------------------------------
Results == {"none", "ok", "IOError", "InvalidValue", "throw", "ub"}
ReportedErrors == {"IOError", "InvalidValue"}

TypeOK ==
  /\ pc \in {"vstream", "estream", "init", "vload", "eload", "scan", "evload",
             "oids", "vertices", "edges", "done"}
  /\ vl2i \in [Keys -> {Absent} \cup Nat]
  /\ el2i \in [Keys -> {Absent} \cup Nat]
  /\ evl \in [Keys -> SUBSET (Names \X Names)]
  /\ vtabs \in Seq(Names)
  /\ etabs \in Seq(Seq(SubFiles))
  /\ ventry \in Seq(Keys)
  /\ result \in Results

\* When shuffleAndBuild gets its schema, the schema describes the tables it
\* is built with: vertex entry v is named after the label of local vertex
\* table v, and edge entry e is named after the label of every sub-table of
\* edge table e, with exactly their (src, dst) label pairs as relations.
\* The names come from the index maps filled while loading, the tables
\* from the loading order; this says the two agree.
SchemaMatchesTables ==
  result = "ok" =>
    /\ \A v \in 1 .. vnum : ventry[v] = vtabs[v]
    /\ \A e \in 1 .. ENum :
         /\ \A t \in ToSet(etabs[e]) : t.label = eentry[e].name
         /\ eentry[e].rel = {<<t.src, t.dst>> : t \in ToSet(etabs[e])}

\* Every failure of the label bookkeeping is returned as an error of the
\* loader: no std::out_of_range escapes shuffleAndBuild or the constructor,
\* and no vector is indexed past its end.
FailuresAreReported == result \notin {"throw", "ub"}

\* Spec 4.2: sub-sources that share an edge label name at two different
\* label indices make the load fail with a consistency error, never a
\* schema built from the last index written (loadEdgeTables line 566,
\* loadEVTablesFromEFiles lines 706-715).
SharedLabelIn(es) ==
  \E i, j \in 1 .. Len(es) :
    i # j /\ \E a \in ToSet(es[i]), b \in ToSet(es[j]) : a.label = b.label
InconsistentLabelRejected ==
  pc = "done" /\ SharedLabelIn(cat.e) => result \in ReportedErrors

\* The indices in the label maps stay below the label counts that size the
\* bitsets of shuffleAndBuild: the `>` checks at lines 306 and 340 (which
\* let an index equal to the count through) are then never at fault.
IndexBelowCount ==
  /\ \A n \in MapKeys(vl2i) : vl2i[n] < vnum
  /\ \A n \in MapKeys(el2i) : el2i[n] < ENum
============================================================================
