------------------------------ MODULE KGQueries ------------------------------
(***************************************************************************)
(* The recursive queries of dist_stack.kg over the tables as they stand.   *)
(* A recursive CTE enumerates paths from the start node; its cycle guard   *)
(* keeps a node out of a path that contains it already.  The guard is a    *)
(* substring test on the joined path, so a node also counts as visited     *)
(* when its id is part of the id of a node on the path (Inside).           *)
(***************************************************************************)
EXTENDS KGTables, Sequences, FiniteSets

CONSTANTS
  Inside,   \* Inside[n]: the nodes whose id contains the id of n
  Depths    \* depths that callers ask for

ASSUME QueriesAssumption ==
  /\ Inside \in [NodeIds -> SUBSET NodeIds]
  /\ \A n \in NodeIds : n \in Inside[n]
  /\ Depths \subseteq Nat

Directions == {"in", "out", "both"}

\* The edge leads from m to n when it is walked in that direction.
Leads(e, m, n, direction) ==
  \/ direction \in {"out", "both"} /\ Source(e) = m /\ Target(e) = n
  \/ direction \in {"in", "both"} /\ Target(e) = m /\ Source(e) = n

\* instr(path, node_id) # 0
Visited(n, path) == \E i \in DOMAIN path : path[i] \in Inside[n]

\* Faulty variant of Joined: hidden edges take part.
JoinedHidden(path, e, n, relations, direction) ==
  /\ e \in edges /\ Relation(e) \in relations
  /\ Leads(e, path[Len(path)], n, direction)
  /\ Alive(n) /\ ~Visited(n, path)

\* The two joins of the recursive part.
Joined(path, e, n, relations, direction) ==
  /\ Shown(e) /\ Relation(e) \in relations
  /\ Leads(e, path[Len(path)], n, direction)
  /\ Alive(n) /\ ~Visited(n, path)

\* What the recursive part makes of the paths of one depth.
Longer(paths, relations, direction) ==
  { Append(w[1], w[2]) :
      w \in { w \in paths \X NodeIds :
                \E e \in edges : Joined(w[1], e, w[2], relations, direction) } }

\* The CTE: the paths found at each depth.
Walks(start, relations, direction, max) ==
  LET walks[d \in 0..max] ==
        IF d = 0 THEN {<<start>>} ELSE Longer(walks[d - 1], relations, direction)
  IN walks

\* At least one hop, at most five.
Hops(depth) == IF depth = 0 THEN 1 ELSE IF depth > 5 THEN 5 ELSE depth

\* get_neighbors: the edges walked.
Neighbors(start, relations, direction, depth) ==
  LET walks == Walks(start, relations, direction, Hops(depth)) IN
  { e \in edges : \E d \in 0..(Hops(depth) - 1) : \E path \in walks[d] : \E n \in NodeIds :
                    Joined(path, e, n, relations, direction) }

\* get_provenance_chain: `up' walks edges backwards, `down' forwards.
UpRelations   == {"derived_from", "generated_by", "references"}
DownRelations == {"derived_from", "has_artifact"}

Chain(start, direction, max) ==
  LET walks == IF direction = "up" THEN Walks(start, UpRelations, "in", max)
               ELSE Walks(start, DownRelations, "out", max)
  IN  [d \in 0..max |-> {path[Len(path)] : path \in walks[d]}]

\* graph_stats: the ends of undeleted edges at n, whatever became of the other end.
Degree(n) ==
  Cardinality({e \in edges \ hidden : Source(e) = n})
    + Cardinality({e \in edges \ hidden : Target(e) = n})

ChainNodes(start, direction, max) == UNION {Chain(start, direction, max)[d] : d \in 0..max}

-----------------------------------------------------------------------------
\* What lies within some hops of a node, found without enumerating paths.
Around(ball, relations, direction) ==
  ball \cup { n \in NodeIds :
               /\ Alive(n)
               /\ \E e \in edges, m \in ball : /\ Shown(e) /\ Relation(e) \in relations
                                            /\ Leads(e, m, n, direction) }

Ball(start, relations, direction, max) ==
  LET ball[d \in 0..max] ==
        IF d = 0 THEN {start} ELSE Around(ball[d - 1], relations, direction)
  IN ball[max]

\* No id of an undeleted node is part of another's.
IdsApart == \A m, n \in NodeIds : Alive(m) /\ Alive(n) /\ m \in Inside[n] => m = n

(* get_provenance_chain lists all that can be reached over undeleted nodes  *)
(* and edges within the depth asked for, and nothing else, and it lists a   *)
(* node at its distance first, whatever cycles the graph has.               *)
ChainIsExact ==
  \A n \in NodeIds, max \in Depths : \A d \in 0..max : Alive(n) =>
    /\ UNION {Chain(n, "up", max)[k] : k \in 0..d} = Ball(n, UpRelations, "in", d)
    /\ UNION {Chain(n, "down", max)[k] : k \in 0..d} = Ball(n, DownRelations, "out", d)

(* The edges that get_neighbors lists, of all relations or of one, lead to  *)
(* exactly the nodes within the hops it makes.                              *)
NeighborsAreExact ==
  \A n \in NodeIds, direction \in Directions, depth \in Depths :
    \A relations \in {Relations} \cup {{r} : r \in Relations} : Alive(n) =>
      {n} \cup UNION {Ends(e) : e \in Neighbors(n, relations, direction, depth)}
        = Ball(n, relations, direction, Hops(depth))

(* graph_stats ranks a node by the edges that get_neighbors lists at it, by *)
(* its loops, twice, and by the edges whose other end is deleted.           *)
DegreeIsNeighborhood ==
  \A n \in NodeIds : Alive(n) =>
    LET at == Neighbors(n, Relations, "both", 1)
        touching == {e \in edges \ hidden : n \in Ends(e)} IN
    Degree(n) = Cardinality(at) + Cardinality({e \in touching : Ends(e) = {n}}) * 2
                 + Cardinality({e \in touching : ~EndsAlive(e)})

(* The queries of the graph are exact.                                      *)
QueriesExact == ChainIsExact /\ NeighborsAreExact /\ DegreeIsNeighborhood
=============================================================================
