--------------------------- MODULE ClusterGraph ---------------------------
(***************************************************************************)
(* What the DawnHex node table promises to its clients: an undirected      *)
(* graph without loops.  Vertices are the ids of the present nodes, an     *)
(* edge is a two-element set of vertices, and removing a vertex removes    *)
(* every edge it was part of.  The size they are told is the number of     *)
(* edges.  DawnHexCluster implements this module.                          *)
(***************************************************************************)
EXTENDS FiniteSets

CONSTANTS
  Ids,          \* ids a vertex may have
  DefaultIds,   \* vertices the module loads with
  DefaultEdges  \* edges the module loads with

VARIABLES vertices, edges, size

vars == <<vertices, edges, size>>

Edge(a, b) == {a, b}

Init ==
  /\ vertices = {}
  /\ edges = {}
  /\ size = 0

AddVertex(v) ==
  /\ v \notin vertices
  /\ vertices' = vertices \cup {v}
  /\ UNCHANGED edges

RemoveVertex(v) ==
  /\ v \in vertices
  /\ vertices' = vertices \ {v}
  /\ edges' = {e \in edges : v \notin e}

Connect(a, b) ==
  /\ a # b
  /\ {a, b} \subseteq vertices
  /\ edges' = edges \cup {Edge(a, b)}
  /\ UNCHANGED vertices

Disconnect(a, b) ==
  /\ a # b
  /\ {a, b} \subseteq vertices
  /\ edges' = edges \ {Edge(a, b)}
  /\ UNCHANGED vertices

\* Loading adds the default graph to whatever the first clients made of it.
Populate ==
  /\ vertices' = vertices \cup DefaultIds
  /\ edges' = edges \cup DefaultEdges

Next ==
  /\ \/ Populate
     \/ \E v \in Ids : AddVertex(v) \/ RemoveVertex(v)
     \/ \E a, b \in Ids : Connect(a, b) \/ Disconnect(a, b)
  /\ size' = Cardinality(edges')

Spec == Init /\ [][Next]_vars
=============================================================================
