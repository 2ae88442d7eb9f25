---------------------------- MODULE MC_LabelIndex ----------------------------
(* Finite catalogs of label metadata for checking LabelIndex: two label    *)
(* names, at most two vertex files or streams, at most two edge labels     *)
(* with at most two sub-files each.                                        *)
EXTENDS LabelIndex

MCNames == {1, 2}
SeqUpTo(S, k) == UNION {[1 .. n -> S] : n \in 0 .. k}
EdgeLabels == UNION {[1 .. n -> SubFiles] : n \in 1 .. 2}
AllCatalogs == [v : SeqUpTo(Names, 2), e : SeqUpTo(EdgeLabels, 2)]

\* Edge files whose src and dst labels are among the vertex labels.
Declared(c) == \A f \in SubsOf(c.e) : {f.src, f.dst} \subseteq ToSet(c.v)

\* Inputs on which the loader should succeed or report an error: without
\* vertex files anything; with vertex files or streams, distinct vertex
\* labels and an edge label name used at one index only (streams also need
\* every endpoint label declared and at least one edge label).
MCWellFormed ==
  {c \in AllCatalogs :
     \/ c.v = << >>
     \/ IsInjective(c.v) /\ ~SharedLabelIn(c.e)}
MCStreamWellFormed ==
  {c \in MCWellFormed : c.v # << >> /\ c.e # << >> /\ Declared(c)}
MCPass == [m \in {"files", "streams"} |->
             IF m = "files" THEN MCWellFormed ELSE MCStreamWellFormed]

\* One edge label name at two indices, vertex labels distinct and declared.
MCSharedEdge ==
  {c \in AllCatalogs : c.v # << >> /\ IsInjective(c.v) /\ Declared(c) /\ SharedLabelIn(c.e)}
\* Two vertex files with the same label name.
MCSharedVertex == {c \in AllCatalogs : c.v # << >> /\ ~IsInjective(c.v) /\ c.e = << >>}
\* Declared, distinct labels: inputs every mode should handle.
MCDeclared == {c \in MCStreamWellFormed : Len(c.e) = 1}
\* Vertex streams without edge streams.
MCVertexOnly == {c \in AllCatalogs : c.v # << >> /\ IsInjective(c.v) /\ c.e = << >>}
\* The inputs of each run, per acquisition mode.
MCFilesDuplicate == [m \in {"files"} |-> MCSharedEdge \cup MCSharedVertex]
MCTables == [m \in {"tables"} |-> MCDeclared]
MCStreams == [m \in {"streams"} |-> MCDeclared]
\* The two constructors that do not read files, with one declared edge label.
MCNoFiles == [m \in {"streams", "tables"} |-> MCDeclared]
MCVertexStreams == [m \in {"streams"} |-> MCVertexOnly]
=============================================================================
