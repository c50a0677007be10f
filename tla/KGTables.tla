------------------------------- MODULE KGTables -------------------------------
(***************************************************************************)
(* The tables `nodes' and `edges' of dist_stack.kg and the effect of each  *)
(* committed transaction on them.  An edge is its unique key: source,      *)
(* target and relation.  A soft delete stamps the row and keeps it, so a   *)
(* table is the rows it holds and those of them that are stamped.          *)
(***************************************************************************)
EXTENDS Naturals

CONSTANTS
  NodeIds,     \* node identifiers
  Relations    \* the vocabulary of edges

VARIABLES
  nodes,    \* node -> "absent", "live" or "deleted"
  edges,    \* rows of table edges
  hidden    \* those of them that are soft-deleted

graph == <<nodes, edges, hidden>>

Edge == NodeIds \X NodeIds \X Relations

Source(e)   == e[1]
Target(e)   == e[2]
Relation(e) == e[3]
Ends(e)     == {Source(e), Target(e)}

Known(n) == nodes[n] # "absent"
Alive(n) == nodes[n] = "live"
Shown(e) == e \in edges \ hidden

GraphTypeOK ==
  /\ nodes \in [NodeIds -> {"absent", "live", "deleted"}]
  /\ edges \subseteq Edge
  /\ hidden \subseteq edges

GraphInit ==
  /\ nodes = [n \in NodeIds |-> "absent"]
  /\ edges = {}
  /\ hidden = {}

-----------------------------------------------------------------------------
\* Faulty variant of PutNode: INSERT OR REPLACE, whose delete cascades.
PutNodeReplacing(n) ==
  /\ nodes' = [nodes EXCEPT ![n] = "live"]
  /\ edges' = {e \in edges : n \notin Ends(e)}
  /\ hidden' = {e \in hidden : n \notin Ends(e)}

\* The upsert of upsert_node clears the stamp.
PutNode(n) ==
  /\ nodes' = [nodes EXCEPT ![n] = "live"]
  /\ UNCHANGED <<edges, hidden>>

\* delete_node(soft=True): the edges stay as they are.
StampNode(n) ==
  /\ Known(n)
  /\ nodes' = [nodes EXCEPT ![n] = "deleted"]
  /\ UNCHANGED <<edges, hidden>>

\* delete_node(soft=False): ON DELETE CASCADE on both ends of an edge.
DropNode(n) ==
  /\ Known(n)
  /\ nodes' = [nodes EXCEPT ![n] = "absent"]
  /\ edges' = {e \in edges : n \notin Ends(e)}
  /\ hidden' = {e \in hidden : n \notin Ends(e)}

\* upsert_edge wants both ends undeleted, the foreign keys want both rows.
EndsAlive(e) == \A n \in Ends(e) : Alive(n)
EndsKnown(e) == \A n \in Ends(e) : Known(n)

\* The upsert of upsert_edge clears the stamp too.
PutEdge(e) ==
  /\ edges' = edges \cup {e}
  /\ hidden' = hidden \ {e}
  /\ UNCHANGED nodes

-----------------------------------------------------------------------------
(* Both ends of an edge, shown or hidden, are rows of the node table, *)
(* although upsert_edge looks for them before the transaction it inserts in. *)
EdgesHaveEnds == \A e \in edges : EndsKnown(e)
=============================================================================
