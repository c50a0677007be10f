--------------------------- MODULE MCKnowledgeGraph ---------------------------
(***************************************************************************)
(* A few calls of two clients on every small graph.                        *)
(***************************************************************************)
EXTENDS KnowledgeGraph, KGQueries, FiniteSets, TLC

CONSTANTS
  MaxEdges,   \* edges of the graphs to start from
  MaxCalls    \* calls of the clients; each of those edges counts as one

VARIABLE calls

InsideSelf == [n \in NodeIds |-> {n}]
Symmetry   == Permutations(NodeIds) \cup Permutations(Clients)

EdgeSets[k \in 0..MaxEdges] ==
  IF k = 0 THEN {{}} ELSE {E \cup {e} : E \in EdgeSets[k - 1], e \in Edge} \cup EdgeSets[k - 1]

\* A graph that upserts, deletes and prunes have left behind.
MCInit ==
  /\ nodes \in [NodeIds -> {"absent", "live", "deleted"}]
  /\ edges \in EdgeSets[MaxEdges] /\ EdgesHaveEnds
  /\ hidden \in SUBSET edges
  /\ metadata = [n \in NodeIds |-> {}]
  /\ pc = [c \in Clients |-> "idle"] /\ call = [c \in Clients |-> NoCall]
  /\ acked = {} /\ raced = {}
  /\ calls = Cardinality(edges)

Starts == {c \in Clients : pc[c] = "idle" /\ pc'[c] # "idle"}
Deletes == pc' = pc

MCNext ==
  /\ Next
  /\ calls' = IF Starts # {} \/ Deletes THEN calls + 1 ELSE calls
  /\ calls' <= MaxCalls

MCSpec == MCInit /\ [][MCNext]_<<vars, calls>>
=============================================================================
