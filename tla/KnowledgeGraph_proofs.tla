------------------------- MODULE KnowledgeGraph_proofs -------------------------
(***************************************************************************)
(* Safety of the knowledge graph for any number of clients, nodes and      *)
(* relations, and of the component ingestion that writes to its tables,    *)
(* for any number of calls, systems, models and components.                *)
(***************************************************************************)
EXTENDS KnowledgeGraph, KGQueries, KGComponents, FiniteSetTheorems, SequenceTheorems,
        WellFoundedInduction, TLAPS

(***************************************************************************)
(* The calls on the graph.  The proofs rest on what a call may rely on     *)
(* between its two steps as long as it is alone: that the node it merges   *)
(* into has nothing the call has not read, and that the ends of its edge   *)
(* are undeleted.                                                          *)
(***************************************************************************)
NodeReadStands(c) ==
  pc[c] = "upsert_node" /\ call[c].alone =>
    metadata[call[c].node] \cup call[c].given \subseteq call[c].merged

EdgeReadStands(c) ==
  pc[c] = "upsert_edge" /\ call[c].alone => EndsAlive(call[c].edge)

ReadsStand == \A c \in Clients : NodeReadStands(c) /\ EdgeReadStands(c)

IInv == TypeOK /\ EdgesHaveEnds /\ MergesKept /\ ReadsStand

-----------------------------------------------------------------------------
LEMMA EndsAreNodes == ASSUME NEW e \in Edge PROVE Ends(e) \subseteq NodeIds
  BY DEF Edge, Ends, Source, Target

LEMMA DropKeepsEdges ==
  ASSUME GraphTypeOK, EdgesHaveEnds, NEW n \in NodeIds, DropNode(n)
  PROVE  GraphTypeOK' /\ EdgesHaveEnds'
<1>1. nodes' = [nodes EXCEPT ![n] = "absent"] /\ edges' \subseteq edges
      /\ (\A e \in edges' : n \notin Ends(e)) /\ hidden' \subseteq edges'
  BY DEF DropNode, GraphTypeOK
<1>2. GraphTypeOK'
  BY <1>1 DEF GraphTypeOK
<1>3. EdgesHaveEnds'
  <2>1. SUFFICES ASSUME NEW e \in edges', NEW x \in Ends(e) PROVE Known(x)'
    BY DEF EdgesHaveEnds, EndsKnown
  <2>2. e \in edges /\ x # n /\ x \in NodeIds
    BY <1>1, <2>1, EndsAreNodes DEF GraphTypeOK
  <2>3. Known(x)
    BY <2>1, <2>2 DEF EdgesHaveEnds, EndsKnown
  <2>4. QED
    BY <1>1, <2>2, <2>3 DEF GraphTypeOK, Known
<1>4. QED
  BY <1>2, <1>3

\* The row of a node that is set to live or deleted keeps the edges' ends.
LEMMA SetKeepsEdges ==
  ASSUME GraphTypeOK, EdgesHaveEnds, NEW n \in NodeIds, NEW mark \in {"live", "deleted"},
         nodes' = [nodes EXCEPT ![n] = mark], UNCHANGED <<edges, hidden>>
  PROVE  /\ GraphTypeOK' /\ EdgesHaveEnds'
         /\ \A x \in NodeIds : Known(x)' => Known(x) \/ x = n
<1>1. GraphTypeOK'
  BY DEF GraphTypeOK
<1>2. \A x \in NodeIds : (Known(x) => Known(x)') /\ (Known(x)' => Known(x) \/ x = n)
  BY DEF GraphTypeOK, Known
<1>3. EdgesHaveEnds'
  BY <1>2, EndsAreNodes DEF GraphTypeOK, EdgesHaveEnds, EndsKnown
<1>4. QED
  BY <1>1, <1>2, <1>3

\* What a call holds survives being overtaken, except that it is not alone.
LEMMA OvertakenStep ==
  ASSUME TypeOK, NEW whom \in SUBSET Clients, \A d \in whom : pc[d] # "idle"
  PROVE  /\ Overtaken(whom) \in [Clients -> NodeCall \cup EdgeCall \cup {NoCall}]
         /\ \A d \in Clients : pc[d] = "upsert_node" =>
              /\ Overtaken(whom)[d] \in NodeCall
              /\ Overtaken(whom)[d].node = call[d].node
              /\ Overtaken(whom)[d].given = call[d].given
              /\ Overtaken(whom)[d].merged = call[d].merged
              /\ Overtaken(whom)[d].alone => call[d].alone /\ d \notin whom
         /\ \A d \in Clients : pc[d] = "upsert_edge" =>
              /\ Overtaken(whom)[d] \in EdgeCall
              /\ Overtaken(whom)[d].edge = call[d].edge
              /\ Overtaken(whom)[d].alone => call[d].alone /\ d \notin whom
<1> DEFINE new == Overtaken(whom)
<1>0. new = [d \in Clients |-> new[d]]
  BY DEF Overtaken
<1>1. ASSUME NEW d \in Clients \ whom PROVE new[d] = call[d]
  BY DEF Overtaken
<1>2. ASSUME NEW d \in whom PROVE new[d] = [call[d] EXCEPT !.alone = FALSE]
  BY DEF Overtaken
<1> HIDE DEF new
<1>3. ASSUME NEW d \in Clients, pc[d] = "upsert_node"
      PROVE  /\ new[d] \in NodeCall
             /\ new[d].node = call[d].node /\ new[d].given = call[d].given
             /\ new[d].merged = call[d].merged
             /\ new[d].alone => call[d].alone /\ d \notin whom
  <2>1. call[d] \in NodeCall
    BY <1>3 DEF TypeOK
  <2>2. QED
    BY <1>1, <1>2, <2>1 DEF NodeCall
<1>4. ASSUME NEW d \in Clients, pc[d] = "upsert_edge"
      PROVE  /\ new[d] \in EdgeCall /\ new[d].edge = call[d].edge
             /\ new[d].alone => call[d].alone /\ d \notin whom
  <2>1. call[d] \in EdgeCall
    BY <1>4 DEF TypeOK
  <2>2. QED
    BY <1>1, <1>2, <2>1 DEF EdgeCall
<1>5. \A d \in Clients : new[d] \in NodeCall \cup EdgeCall \cup {NoCall}
  <2>1. SUFFICES ASSUME NEW d \in Clients, d \notin whom \/ pc[d] \in {"upsert_node", "upsert_edge"}
                 PROVE  new[d] \in NodeCall \cup EdgeCall \cup {NoCall}
    BY DEF TypeOK
  <2>2. QED
    BY <1>1, <1>3, <1>4, <2>1 DEF TypeOK
<1>6. QED
  BY <1>0, <1>3, <1>4, <1>5 DEF new

-----------------------------------------------------------------------------
LEMMA InitInv == Init => IInv
<1> SUFFICES ASSUME Init PROVE IInv
  OBVIOUS
<1>1. TypeOK
  BY DEF Init, GraphInit, TypeOK, GraphTypeOK
<1>2. EdgesHaveEnds /\ MergesKept /\ ReadsStand
  BY DEF Init, GraphInit, EdgesHaveEnds, MergesKept, ReadsStand, NodeReadStands, EdgeReadStands
<1>3. QED
  BY <1>1, <1>2 DEF IInv

LEMMA NodeReadStep ==
  ASSUME IInv, NEW c \in Clients, NEW n \in NodeIds, NEW given \in SUBSET Entries,
         NodeRead(c, n, given)
  PROVE  IInv'
<1> DEFINE args == [node |-> n, given |-> given, merged |-> metadata[n] \cup given, alone |-> TRUE]
<1>0. TypeOK
  BY DEF IInv
<1>1. /\ pc[c] = "idle" /\ pc' = [pc EXCEPT ![c] = "upsert_node"] /\ call' = [call EXCEPT ![c] = args]
      /\ UNCHANGED <<nodes, edges, hidden, metadata, acked, raced>>
  BY DEF NodeRead, Begin, Merged, graph
<1>2. args \in NodeCall
  BY <1>0 DEF NodeCall, TypeOK
<1>3. TypeOK'
  BY <1>0, <1>1, <1>2 DEF TypeOK, GraphTypeOK, Known
<1>4. EdgesHaveEnds' /\ MergesKept'
  BY <1>1 DEF IInv, EdgesHaveEnds, EndsKnown, Known, MergesKept
<1>5. ReadsStand'
  <2>1. SUFFICES ASSUME NEW d \in Clients PROVE NodeReadStands(d)' /\ EdgeReadStands(d)'
    BY DEF ReadsStand
  <2>2. CASE d = c
    BY <1>0, <1>1, <2>2 DEF TypeOK, NodeReadStands, EdgeReadStands
  <2>3. CASE d # c
    BY <1>0, <1>1, <2>3 DEF TypeOK, IInv, ReadsStand, NodeReadStands, EdgeReadStands, EndsAlive, Alive
  <2>4. QED
    BY <2>2, <2>3
<1>6. QED
  BY <1>3, <1>4, <1>5 DEF IInv

LEMMA EdgeReadStep ==
  ASSUME IInv, NEW c \in Clients, NEW e \in Edge, EdgeRead(c, e)
  PROVE  IInv'
<1> DEFINE args == [edge |-> e, alone |-> TRUE]
<1>0. TypeOK
  BY DEF IInv
<1>1. /\ pc[c] = "idle" /\ pc' = [pc EXCEPT ![c] = "upsert_edge"] /\ call' = [call EXCEPT ![c] = args]
      /\ UNCHANGED <<nodes, edges, hidden, metadata, acked, raced>> /\ EndsAlive(e)
  BY DEF EdgeRead, Begin, graph
<1>2. args \in EdgeCall
  BY DEF EdgeCall
<1>3. TypeOK'
  BY <1>0, <1>1, <1>2 DEF TypeOK, GraphTypeOK, Known
<1>4. EdgesHaveEnds' /\ MergesKept'
  BY <1>1 DEF IInv, EdgesHaveEnds, EndsKnown, Known, MergesKept
<1>5. ReadsStand'
  <2>1. SUFFICES ASSUME NEW d \in Clients PROVE NodeReadStands(d)' /\ EdgeReadStands(d)'
    BY DEF ReadsStand
  <2>2. CASE d = c
    BY <1>0, <1>1, <2>2 DEF TypeOK, NodeReadStands, EdgeReadStands, EndsAlive, Alive
  <2>3. CASE d # c
    BY <1>0, <1>1, <2>3 DEF TypeOK, IInv, ReadsStand, NodeReadStands, EdgeReadStands, EndsAlive, Alive
  <2>4. QED
    BY <2>2, <2>3
<1>6. QED
  BY <1>3, <1>4, <1>5 DEF IInv

LEMMA NodeWriteStep ==
  ASSUME IInv, NEW c \in Clients, NodeWrite(c)
  PROVE  IInv'
<1> DEFINE n == call[c].node
           whom == {d \in Clients : MergesInto(d, n)}
<1>0. TypeOK
  BY DEF IInv
<1>1. /\ pc[c] = "upsert_node" /\ nodes' = [nodes EXCEPT ![n] = "live"] /\ UNCHANGED <<edges, hidden>>
      /\ metadata' = [metadata EXCEPT ![n] = call[c].merged]
      /\ acked' = acked \cup ({n} \X call[c].given)
      /\ raced' = IF call[c].alone THEN raced ELSE raced \cup {n}
      /\ pc' = [pc EXCEPT ![c] = "idle"] /\ call' = [Overtaken(whom) EXCEPT ![c] = NoCall]
  BY DEF NodeWrite, PutNode, End
<1>2. n \in NodeIds /\ call[c].given \subseteq Entries /\ call[c].merged \subseteq Entries
  BY <1>0, <1>1 DEF TypeOK, NodeCall
<1>3. \A d \in whom : pc[d] # "idle"
  BY DEF MergesInto
<1> HIDE DEF n
<1>4. /\ GraphTypeOK' /\ EdgesHaveEnds'
      /\ \A x \in NodeIds : Known(x)' => Known(x) \/ x = n
      /\ \A x \in NodeIds : Alive(x) => Alive(x)'
  <2>1. nodes' \in [NodeIds -> {"absent", "live", "deleted"}] /\ nodes'[n] = "live"
        /\ \A x \in NodeIds : x # n => nodes'[x] = nodes[x]
    BY <1>0, <1>1, <1>2 DEF TypeOK, GraphTypeOK
  <2>2. GraphTypeOK' /\ EdgesHaveEnds' /\ \A x \in NodeIds : Known(x)' => Known(x) \/ x = n
    BY <1>0, <1>1, <1>2, SetKeepsEdges DEF IInv, TypeOK
  <2>3. \A x \in NodeIds : Alive(x) => Alive(x)'
    BY <2>1 DEF Alive
  <2>4. QED
    BY <2>2, <2>3
<1>5. TypeOK'
  <2>1. metadata' \in [NodeIds -> SUBSET Entries] /\ \A x \in NodeIds : ~Known(x)' => metadata'[x] = {}
    BY <1>0, <1>1, <1>2, <1>4 DEF TypeOK, GraphTypeOK, Known
  <2>2. /\ pc' \in [Clients -> {"idle", "upsert_node", "upsert_edge"}]
        /\ call' \in [Clients -> NodeCall \cup EdgeCall \cup {NoCall}]
        /\ \A d \in Clients : /\ pc'[d] = "upsert_node" => call'[d] \in NodeCall
                              /\ pc'[d] = "upsert_edge" => call'[d] \in EdgeCall
    BY <1>0, <1>1, <1>3, OvertakenStep DEF TypeOK
  <2>3. acked' \subseteq NodeIds \X Entries /\ raced' \subseteq NodeIds
    BY <1>0, <1>1, <1>2 DEF TypeOK
  <2>4. QED
    BY <1>4, <2>1, <2>2, <2>3 DEF TypeOK
<1>6. MergesKept'
  <2>1. SUFFICES ASSUME NEW a \in acked' PROVE a[1] \in raced' \/ a[2] \in metadata'[a[1]]
    BY DEF MergesKept
  <2>2. CASE a[1] # n
    <3>1. a \in acked /\ a[1] \in NodeIds
      BY <1>0, <1>1, <2>1, <2>2 DEF TypeOK
    <3>2. QED
      BY <1>0, <1>1, <2>2, <3>1 DEF TypeOK, IInv, MergesKept
  <2>3. CASE a[1] = n /\ ~call[c].alone
    BY <1>1, <2>3
  <2>4. CASE a[1] = n /\ call[c].alone
    <3>1. metadata[n] \cup call[c].given \subseteq call[c].merged
      BY <1>1, <2>4 DEF IInv, ReadsStand, NodeReadStands, n
    <3>2. metadata'[n] = call[c].merged
      BY <1>0, <1>1, <1>2 DEF TypeOK
    <3>3. CASE a \in acked
      BY <1>1, <2>4, <3>1, <3>2, <3>3 DEF IInv, MergesKept
    <3>4. CASE a \in {n} \X call[c].given
      BY <2>4, <3>1, <3>2, <3>4
    <3>5. QED
      BY <1>1, <2>1, <3>3, <3>4
  <2>5. QED
    BY <2>2, <2>3, <2>4
<1>7. ReadsStand'
  <2>1. SUFFICES ASSUME NEW d \in Clients PROVE NodeReadStands(d)' /\ EdgeReadStands(d)'
    BY DEF ReadsStand
  <2>2. CASE d = c
    BY <1>0, <1>1, <2>2 DEF TypeOK, NodeReadStands, EdgeReadStands
  <2>3. CASE d # c /\ pc[d] = "upsert_node"
    <3>1. SUFFICES ASSUME call'[d].alone
                   PROVE  metadata'[call'[d].node] \cup call'[d].given \subseteq call'[d].merged
      BY <1>0, <1>1, <2>3 DEF TypeOK, NodeReadStands, EdgeReadStands
    <3>2. call'[d] = Overtaken(whom)[d]
      BY <1>0, <1>1, <1>3, <2>3, OvertakenStep
    <3>3. call[d].alone /\ d \notin whom /\ call'[d].node = call[d].node
          /\ call'[d].given = call[d].given /\ call'[d].merged = call[d].merged
      BY <1>0, <1>3, <2>3, <3>1, <3>2, OvertakenStep
    <3>4. call[d].node # n
      BY <2>3, <3>3 DEF MergesInto
    <3>5. call[d].node \in NodeIds
      BY <1>0, <2>3 DEF TypeOK, NodeCall
    <3>6. QED
      BY <1>0, <1>1, <2>3, <3>3, <3>4, <3>5 DEF TypeOK, IInv, ReadsStand, NodeReadStands
  <2>4. CASE d # c /\ pc[d] = "upsert_edge"
    <3>1. SUFFICES ASSUME call'[d].alone PROVE \A x \in Ends(call'[d].edge) : Alive(x)'
      BY <1>0, <1>1, <2>4 DEF TypeOK, NodeReadStands, EdgeReadStands, EndsAlive, Alive
    <3>2. call'[d] = Overtaken(whom)[d]
      BY <1>0, <1>1, <1>3, <2>4, OvertakenStep
    <3>3. call[d].alone /\ call'[d].edge = call[d].edge /\ call[d].edge \in Edge
      BY <1>0, <1>3, <2>4, <3>1, <3>2, OvertakenStep DEF TypeOK, EdgeCall
    <3>4. EndsAlive(call[d].edge) /\ Ends(call[d].edge) \subseteq NodeIds
      BY <2>4, <3>3, EndsAreNodes DEF IInv, ReadsStand, EdgeReadStands
    <3>5. QED
      BY <1>4, <3>3, <3>4 DEF EndsAlive
  <2>5. CASE d # c /\ pc[d] \notin {"upsert_node", "upsert_edge"}
    BY <1>0, <1>1, <2>5 DEF TypeOK, NodeReadStands, EdgeReadStands
  <2>6. QED
    BY <2>2, <2>3, <2>4, <2>5
<1>8. QED
  BY <1>4, <1>5, <1>6, <1>7 DEF IInv

LEMMA EdgeWriteStep ==
  ASSUME IInv, NEW c \in Clients, EdgeWrite(c)
  PROVE  IInv'
<1> DEFINE e == call[c].edge
<1>0. TypeOK
  BY DEF IInv
<1>1. /\ pc[c] = "upsert_edge" /\ pc' = [pc EXCEPT ![c] = "idle"] /\ call' = [call EXCEPT ![c] = NoCall]
      /\ IF EndsKnown(e) THEN PutEdge(e) ELSE UNCHANGED <<nodes, edges, hidden>>
      /\ UNCHANGED <<metadata, acked, raced>>
  BY DEF EdgeWrite, End, graph
<1>2. e \in Edge
  BY <1>0, <1>1 DEF TypeOK, EdgeCall
<1>3. nodes' = nodes /\ GraphTypeOK' /\ \A x \in edges' : x \in edges \/ (x = e /\ EndsKnown(e))
  BY <1>0, <1>1, <1>2 DEF TypeOK, GraphTypeOK, PutEdge
<1>4. TypeOK'
  BY <1>0, <1>1, <1>3 DEF TypeOK, Known
<1>5. EdgesHaveEnds' /\ MergesKept'
  BY <1>1, <1>3 DEF IInv, EdgesHaveEnds, EndsKnown, Known, MergesKept
<1>6. ReadsStand'
  BY <1>0, <1>1, <1>3 DEF TypeOK, IInv, ReadsStand, NodeReadStands, EdgeReadStands, EndsAlive, Alive
<1>7. QED
  BY <1>4, <1>5, <1>6 DEF IInv

LEMMA DeleteStep ==
  ASSUME IInv, NEW c \in Clients, NEW n \in NodeIds, NEW soft \in BOOLEAN, Delete(c, n, soft)
  PROVE  IInv'
<1> DEFINE whom == {d \in Clients : Connects(d, n) \/ (~soft /\ MergesInto(d, n))}
<1>0. TypeOK
  BY DEF IInv
<1>1. /\ pc' = pc /\ call' = Overtaken(whom) /\ Known(n)
      /\ \A x \in NodeIds \ {n} : nodes'[x] = nodes[x] /\ metadata'[x] = metadata[x]
      /\ \A a \in acked' : a \in acked
      /\ soft => UNCHANGED <<metadata, acked, raced>> /\ nodes'[n] = "deleted"
      /\ ~soft => /\ nodes'[n] = "absent" /\ metadata'[n] = {}
                  /\ \A a \in acked' : a[1] # n
                  /\ raced' = raced \ {n}
      /\ metadata' \in [NodeIds -> SUBSET Entries]
  BY <1>0 DEF Delete, StampNode, DropNode, TypeOK, GraphTypeOK
<1>2. \A d \in whom : pc[d] # "idle"
  BY DEF Connects, MergesInto
<1> HIDE DEF whom
<1>x. whom \in SUBSET Clients
  BY DEF whom
<1>3. GraphTypeOK' /\ EdgesHaveEnds'
  <2>1. CASE soft
    BY <1>0, <2>1, SetKeepsEdges DEF Delete, StampNode, IInv, TypeOK
  <2>2. CASE ~soft
    BY <1>0, <2>2, DropKeepsEdges DEF Delete, IInv, TypeOK
  <2>3. QED
    BY <2>1, <2>2
<1>4. TypeOK'
  <2>1. \A x \in NodeIds : ~Known(x)' => metadata'[x] = {}
    BY <1>0, <1>1 DEF TypeOK, Known
  <2>2. /\ call' \in [Clients -> NodeCall \cup EdgeCall \cup {NoCall}]
        /\ \A d \in Clients : /\ pc'[d] = "upsert_node" => call'[d] \in NodeCall
                              /\ pc'[d] = "upsert_edge" => call'[d] \in EdgeCall
    BY <1>0, <1>1, <1>2, <1>x, OvertakenStep
  <2>3. acked' \subseteq NodeIds \X Entries /\ raced' \subseteq NodeIds
    BY <1>0, <1>1 DEF TypeOK
  <2>4. QED
    BY <1>0, <1>1, <1>3, <2>1, <2>2, <2>3 DEF TypeOK
<1>5. MergesKept'
  <2>1. SUFFICES ASSUME NEW a \in acked' PROVE a[1] \in raced' \/ a[2] \in metadata'[a[1]]
    BY DEF MergesKept
  <2>2. a \in acked /\ a[1] \in NodeIds /\ (a[1] \in raced \/ a[2] \in metadata[a[1]])
    BY <1>0, <1>1, <2>1 DEF TypeOK, IInv, MergesKept
  <2>3. CASE soft
    BY <1>1, <2>2, <2>3
  <2>4. CASE ~soft
    BY <1>1, <2>1, <2>2, <2>4
  <2>5. QED
    BY <2>3, <2>4
<1>6. ReadsStand'
  <2>1. SUFFICES ASSUME NEW d \in Clients PROVE NodeReadStands(d)' /\ EdgeReadStands(d)'
    BY DEF ReadsStand
  <2>2. CASE pc[d] = "upsert_node"
    <3>1. SUFFICES ASSUME call'[d].alone
                   PROVE  metadata'[call'[d].node] \cup call'[d].given \subseteq call'[d].merged
      BY <1>1, <2>2 DEF NodeReadStands, EdgeReadStands
    <3>2. call[d].alone /\ d \notin whom /\ call'[d].node = call[d].node
          /\ call'[d].given = call[d].given /\ call'[d].merged = call[d].merged
      BY <1>0, <1>1, <1>2, <1>x, <2>2, <3>1, OvertakenStep
    <3>3. soft \/ call[d].node # n
      BY <2>2, <3>2 DEF whom, MergesInto
    <3>4. call[d].node \in NodeIds
      BY <1>0, <2>2 DEF TypeOK, NodeCall
    <3>5. metadata'[call[d].node] = metadata[call[d].node]
      BY <1>1, <3>3, <3>4
    <3>6. QED
      BY <2>2, <3>2, <3>5 DEF IInv, ReadsStand, NodeReadStands
  <2>3. CASE pc[d] = "upsert_edge"
    <3>1. SUFFICES ASSUME call'[d].alone PROVE \A x \in Ends(call'[d].edge) : Alive(x)'
      BY <1>1, <2>3 DEF NodeReadStands, EdgeReadStands, EndsAlive, Alive
    <3>2. call[d].alone /\ d \notin whom /\ call'[d].edge = call[d].edge /\ call[d].edge \in Edge
      BY <1>0, <1>1, <1>2, <1>x, <2>3, <3>1, OvertakenStep DEF TypeOK, EdgeCall
    <3>3. n \notin Ends(call[d].edge) /\ EndsAlive(call[d].edge) /\ Ends(call[d].edge) \subseteq NodeIds
      BY <2>3, <3>2, EndsAreNodes DEF whom, Connects, IInv, ReadsStand, EdgeReadStands
    <3>4. QED
      BY <1>1, <3>2, <3>3 DEF EndsAlive, Alive
  <2>4. CASE pc[d] \notin {"upsert_node", "upsert_edge"}
    BY <1>1, <2>4 DEF NodeReadStands, EdgeReadStands
  <2>5. QED
    BY <2>2, <2>3, <2>4
<1>7. QED
  BY <1>3, <1>4, <1>5, <1>6 DEF IInv

LEMMA AbandonStep ==
  ASSUME IInv, NEW c \in Clients, Abandon(c)
  PROVE  IInv'
<1>0. TypeOK
  BY DEF IInv
<1>1. /\ pc' = [pc EXCEPT ![c] = "idle"] /\ call' = [call EXCEPT ![c] = NoCall]
      /\ UNCHANGED <<nodes, edges, hidden, metadata, acked, raced>>
  BY DEF Abandon, End, graph
<1>2. TypeOK'
  BY <1>0, <1>1 DEF TypeOK, GraphTypeOK, Known
<1>3. EdgesHaveEnds' /\ MergesKept'
  BY <1>1 DEF IInv, EdgesHaveEnds, EndsKnown, Known, MergesKept
<1>4. ReadsStand'
  BY <1>0, <1>1 DEF TypeOK, IInv, ReadsStand, NodeReadStands, EdgeReadStands, EndsAlive, Alive
<1>5. QED
  BY <1>2, <1>3, <1>4 DEF IInv

LEMMA StepInv == IInv /\ [Next]_vars => IInv'
<1> SUFFICES ASSUME IInv, [Next]_vars PROVE IInv'
  OBVIOUS
<1>1. CASE UNCHANGED vars
  <2>1. UNCHANGED <<nodes, edges, hidden, metadata, pc, call, acked, raced>>
    BY <1>1 DEF vars, graph
  <2>2. TypeOK' /\ EdgesHaveEnds' /\ MergesKept'
    BY <2>1 DEF IInv, TypeOK, GraphTypeOK, Known, EdgesHaveEnds, EndsKnown, MergesKept
  <2>3. ReadsStand'
    BY <2>1 DEF IInv, ReadsStand, NodeReadStands, EdgeReadStands, EndsAlive, Alive
  <2>4. QED
    BY <2>2, <2>3 DEF IInv
<1>2. CASE Next
  BY <1>2, NodeReadStep, NodeWriteStep, EdgeReadStep, EdgeWriteStep, DeleteStep, AbandonStep DEF Next
<1>3. QED
  BY <1>1, <1>2

\* The inductive invariant.
THEOREM Inductive == Spec => []IInv
  BY InitInv, StepInv, PTL DEF Spec

\* The tables and the calls on them keep their type.
THEOREM TypeCorrect == Spec => []TypeOK
<1>1. IInv => TypeOK
  BY DEF IInv
<1>2. QED
  BY Inductive, <1>1, PTL

\* No edge outlives a row of its ends, whatever deletes and upserts interleave.
THEOREM EdgesEnd == Spec => []EdgesHaveEnds
<1>1. IInv => EdgesHaveEnds
  BY DEF IInv
<1>2. QED
  BY Inductive, <1>1, PTL

\* Entries of metadata are merged and kept unless upserts of the node overlap.
THEOREM Merges == Spec => []MergesKept
<1>1. IInv => MergesKept
  BY DEF IInv
<1>2. QED
  BY Inductive, <1>1, PTL

\* An upsert of an edge that was alone connects undeleted nodes.
THEOREM Connected == Spec => EdgesToLiveNodes
<1> DEFINE ToLive == \A c \in Clients, e \in Edge :
             EdgeWrite(c) /\ call[c].alone /\ call[c].edge = e => EndsAlive(e)'
<1>1. ASSUME IInv PROVE ToLive
  <2>1. SUFFICES ASSUME NEW c \in Clients, NEW e \in Edge, EdgeWrite(c), call[c].alone, call[c].edge = e
                 PROVE  EndsAlive(e)'
    OBVIOUS
  <2>2. EndsAlive(e)
    BY <1>1, <2>1 DEF IInv, ReadsStand, EdgeReadStands, EdgeWrite
  <2>3. nodes' = nodes
    BY <2>1 DEF EdgeWrite, PutEdge, graph
  <2>4. QED
    BY <2>2, <2>3 DEF EndsAlive, Alive
<1>2. IInv => [ToLive]_vars
  BY <1>1
<1>3. QED
  BY Inductive, <1>2, PTL DEF EdgesToLiveNodes

\* No step takes an edge away while both of its ends stay.
THEOREM EdgesStay == Spec => EdgesDurable
<1> DEFINE Stay == \A e \in edges : e \in edges' \/ \E n \in Ends(e) : ~Known(n)'
<1>1. ASSUME IInv, Next PROVE Stay
  <2>1. PICK c \in Clients :
          \/ \E n \in NodeIds, given \in SUBSET Entries : NodeRead(c, n, given)
          \/ NodeWrite(c)
          \/ \E e \in Edge : EdgeRead(c, e)
          \/ EdgeWrite(c)
          \/ \E n \in NodeIds, soft \in BOOLEAN : Delete(c, n, soft)
          \/ Abandon(c)
    BY <1>1 DEF Next
  <2>2. ASSUME NEW n \in NodeIds, DropNode(n) PROVE Stay
    BY <1>1, <2>2 DEF DropNode, IInv, TypeOK, GraphTypeOK, Known
  <2>3. CASE edges \subseteq edges'
    BY <2>3
  <2>4. CASE \E n \in NodeIds, soft \in BOOLEAN : Delete(c, n, soft)
    BY <2>2, <2>3, <2>4 DEF Delete, StampNode
  <2>5. QED
    BY <2>1, <2>3, <2>4
       DEF NodeRead, NodeWrite, EdgeRead, EdgeWrite, Abandon, Begin, PutNode, PutEdge, graph
<1>2. IInv /\ [Next]_vars => [Stay]_vars
  BY <1>1
<1>3. QED
  BY Inductive, <1>2, PTL DEF EdgesDurable, Spec

-----------------------------------------------------------------------------
(***************************************************************************)
(* The queries of the graph.  Walks and Ball are recursive functions, and  *)
(* what they are at every depth is shown by induction: the least depth at  *)
(* which it fails would be one more than one at which it holds.  As long   *)
(* as no id is part of another, the cycle guard only keeps a path from a   *)
(* node that it has been to, and that a shorter path ends at.              *)
(***************************************************************************)
\* Every nonempty set of naturals has a least element.
LEMMA Least ==
  ASSUME NEW T, T \subseteq Nat, T # {}
  PROVE  \E x \in T : \A y \in T : x <= y
<1> DEFINE R == OpToRel(<, Nat)
<1>1. IsWellFoundedOn(R, Nat)
  BY NatLessThanWellFounded
<1>2. R = {ss \in Nat \X Nat : ss[1] < ss[2]}
  BY DEF OpToRel
<1> HIDE DEF R
<1>3. PICK x \in T : \A y \in T : <<y, x>> \notin R
  BY <1>1, WFMin
<1>4. \A y \in T : x <= y
  <2> TAKE y \in T
  <2>1. <<y, x>> \in Nat \X Nat /\ <<y, x>>[1] = y /\ <<y, x>>[2] = x
    OBVIOUS
  <2>2. ~(y < x)
    BY <2>1, <1>2, <1>3
  <2>3. QED
    BY <2>2
<1>5. QED
  BY <1>4

\* Induction up to a bound, over the set of the numbers of which something holds.
LEMMA UpTo ==
  ASSUME NEW max \in Nat, NEW Good, 0 \in Good,
         \A d \in 1..max : d - 1 \in Good => d \in Good
  PROVE  0..max \subseteq Good
<1> DEFINE Bad == (0..max) \ Good
<1>1. SUFFICES ASSUME Bad # {} PROVE FALSE
  OBVIOUS
<1>2. PICK d \in Bad : \A y \in Bad : d <= y
  <2>1. Bad \subseteq Nat
    OBVIOUS
  <2> HIDE DEF Bad
  <2>2. QED
    BY <1>1, <2>1, Least
<1>3. d \in 1..max /\ d - 1 \in 0..max /\ d - 1 < d
  BY <1>2
<1>4. d - 1 \in Good
  BY <1>2, <1>3
<1>5. QED
  BY <1>2, <1>3, <1>4

\* A function defined by a first value and a step.
Follows(f, first, step, max) ==
  f[0] = first /\ \A d \in 1..max : f[d] = step[f[d - 1]]

LEMMA Recursion ==
  ASSUME NEW S, NEW first \in S, NEW step \in [S -> S], NEW max \in Nat
  PROVE  \E f \in [0..max -> S] : Follows(f, first, step, max)
<1> DEFINE Is(f, m) ==
      f \in [0..m -> S] /\ f[0] = first /\ \A d \in 1..m : f[d] = step[f[d - 1]]
<1> DEFINE Good == {m \in Nat : \E f : Is(f, m)}
<1>1. 0 \in Good
  <2>1. Is([d \in 0..0 |-> first], 0)
    OBVIOUS
  <2>2. QED
    BY <2>1
<1>2. ASSUME NEW m \in 1..max, m - 1 \in Good
      PROVE  m \in Good
  <2>1. PICK f : Is(f, m - 1)
    BY <1>2
  <2> DEFINE g == [d \in 0..m |-> IF d = m THEN step[f[m - 1]] ELSE f[d]]
  <2>2. m - 1 \in 0..(m - 1) /\ f[m - 1] \in S
    BY <2>1
  <2>3. g \in [0..m -> S]
    BY <2>1, <2>2
  <2>4. g[0] = first
    BY <2>1
  <2>5. \A d \in 1..m : g[d] = step[g[d - 1]]
    <3> TAKE d \in 1..m
    <3>1. d \in 0..m /\ d - 1 \in 0..m /\ d - 1 # m /\ g[d - 1] = f[d - 1]
      OBVIOUS
    <3>2. CASE d = m
      BY <3>1, <3>2
    <3>3. CASE d # m
      <4>1. d \in 1..(m - 1) /\ g[d] = f[d]
        BY <3>1, <3>3
      <4>2. QED
        BY <2>1, <3>1, <4>1
    <3>4. QED
      BY <3>2, <3>3
  <2>6. QED
    <3> HIDE DEF Is, g
    <3> QED
      BY <2>3, <2>4, <2>5 DEF Is
<1>3. 0..max \subseteq Good
  <2> HIDE DEF Good
  <2> QED
    BY <1>1, <1>2, UpTo
<1>4. QED
  BY <1>3 DEF Follows

LEMMA FollowsOnce ==
  ASSUME NEW S, NEW first, NEW step, NEW l \in Nat, NEW m \in Nat, NEW f, NEW g,
         Follows(f, first, step, l), Follows(g, first, step, m)
  PROVE  \A d \in 0..l : d \in 0..m => f[d] = g[d]
<1> DEFINE Good == {d \in 0..l : d \in 0..m => f[d] = g[d]}
<1>1. 0 \in Good
  BY DEF Follows
<1>2. ASSUME NEW d \in 1..l, d - 1 \in Good
      PROVE  d \in Good
  <2>1. SUFFICES ASSUME d \in 0..m PROVE f[d] = g[d]
    BY <1>2
  <2>2. d \in 1..m /\ d - 1 \in 0..m
    BY <2>1
  <2>3. QED
    BY <1>2, <2>2 DEF Follows
<1>3. 0..l \subseteq Good
  <2> HIDE DEF Good
  <2> QED
    BY <1>1, <1>2, UpTo
<1>4. QED
  BY <1>3

NodeSets == SUBSET NodeIds
PathSets == SUBSET Seq(NodeIds)

LEMMA LongerType ==
  ASSUME NEW paths \in PathSets, NEW relations, NEW direction
  PROVE  Longer(paths, relations, direction) \in PathSets
<1>1. \A w \in paths \X NodeIds : Append(w[1], w[2]) \in Seq(NodeIds)
  BY DEF PathSets
<1>2. QED
  BY <1>1 DEF Longer, PathSets

LEMMA WalksAre ==
  ASSUME NEW start \in NodeIds, NEW relations, NEW direction, NEW max \in Nat
  PROVE  LET walks == Walks(start, relations, direction, max) IN
         /\ walks[0] = {<<start>>}
         /\ \A d \in 1..max : walks[d] = Longer(walks[d - 1], relations, direction)
<1> DEFINE first == {<<start>>}
           step  == [P \in PathSets |-> Longer(P, relations, direction)]
<1>1. first \in PathSets
  BY DEF PathSets
<1>2. step \in [PathSets -> PathSets]
  BY LongerType
<1>3. PICK f \in [0..max -> PathSets] : Follows(f, first, step, max)
  <2> HIDE DEF first, step
  <2> QED
    BY <1>1, <1>2, Recursion
<1>4. \A d \in 1..max : d - 1 \in 0..max /\ f[d] = Longer(f[d - 1], relations, direction)
  <2> TAKE d \in 1..max
  <2>1. d - 1 \in 0..max
    OBVIOUS
  <2>2. f[d - 1] \in PathSets
    BY <1>3, <2>1
  <2>3. QED
    BY <1>3, <2>1, <2>2 DEF Follows
<1>5. f = [d \in 0..max |-> IF d = 0 THEN {<<start>>} ELSE Longer(f[d - 1], relations, direction)]
  <2>1. \A d \in 0..max : d # 0 => d \in 1..max
    OBVIOUS
  <2>2. f = [d \in 0..max |-> f[d]]
    BY <1>3
  <2>3. f[0] = {<<start>>}
    BY <1>3 DEF Follows
  <2>4. QED
    BY <1>4, <2>1, <2>2, <2>3
<1> DEFINE walks == Walks(start, relations, direction, max)
<1>6. walks = [d \in 0..max |-> IF d = 0 THEN {<<start>>}
                                ELSE Longer(walks[d - 1], relations, direction)]
  BY <1>5 DEF Walks
<1> HIDE DEF walks
<1>7. walks[0] = {<<start>>}
  BY <1>6
<1>8. \A d \in 1..max : walks[d] = Longer(walks[d - 1], relations, direction)
  <2> TAKE d \in 1..max
  <2>1. d \in 0..max /\ d # 0
    OBVIOUS
  <2>2. QED
    BY <1>6, <2>1
<1>9. QED
  BY <1>7, <1>8 DEF walks

LEMMA AroundType ==
  ASSUME NEW ball \in NodeSets, NEW relations, NEW direction
  PROVE  Around(ball, relations, direction) \in NodeSets
  BY DEF Around, NodeSets

LEMMA BallsAre ==
  ASSUME NEW start \in NodeIds, NEW relations, NEW direction
  PROVE  /\ Ball(start, relations, direction, 0) = {start}
         /\ \A max \in Nat : Ball(start, relations, direction, max) \in NodeSets
         /\ \A max \in Nat \ {0} :
              Ball(start, relations, direction, max)
                = Around(Ball(start, relations, direction, max - 1), relations, direction)
<1> DEFINE first == {start}
           step  == [N \in NodeSets |-> Around(N, relations, direction)]
<1>1. ASSUME NEW max \in Nat
      PROVE  \E f \in [0..max -> NodeSets] :
               Follows(f, first, step, max) /\ Ball(start, relations, direction, max) = f[max]
  <2>1. first \in NodeSets /\ step \in [NodeSets -> NodeSets]
    BY AroundType DEF NodeSets
  <2>2. PICK f \in [0..max -> NodeSets] : Follows(f, first, step, max)
    <3> HIDE DEF first, step
    <3> QED
      BY <2>1, Recursion
  <2>3. \A d \in 1..max : d - 1 \in 0..max /\ f[d] = Around(f[d - 1], relations, direction)
    <3> TAKE d \in 1..max
    <3>1. d - 1 \in 0..max
      OBVIOUS
    <3>2. f[d - 1] \in NodeSets
      BY <2>2, <3>1
    <3>3. QED
      BY <2>2, <3>1, <3>2 DEF Follows
  <2>4. f = [d \in 0..max |-> IF d = 0 THEN {start} ELSE Around(f[d - 1], relations, direction)]
    <3>1. \A d \in 0..max : d # 0 => d \in 1..max
      OBVIOUS
    <3>2. f = [d \in 0..max |-> f[d]]
      BY <2>2
    <3>3. f[0] = {start}
      BY <2>2 DEF Follows
    <3>4. QED
      BY <2>3, <3>1, <3>2, <3>3
  <2> DEFINE ball == CHOOSE g : g = [d \in 0..max |-> IF d = 0 THEN {start}
                                       ELSE Around(g[d - 1], relations, direction)]
  <2>5. ball = [d \in 0..max |-> IF d = 0 THEN {start}
                                 ELSE Around(ball[d - 1], relations, direction)]
    BY <2>4
  <2>6. Ball(start, relations, direction, max) = ball[max]
    BY DEF Ball
  <2> HIDE DEF ball
  <2> DEFINE Good == {d \in 0..max : ball[d] = f[d]}
  <2>7. 0 \in Good
    BY <2>2, <2>5 DEF Follows
  <2>8. ASSUME NEW d \in 1..max, d - 1 \in Good
        PROVE  d \in Good
    <3>1. d \in 0..max /\ d # 0
      OBVIOUS
    <3>2. ball[d] = Around(ball[d - 1], relations, direction)
      BY <2>5, <3>1
    <3>3. QED
      BY <2>3, <2>8, <3>1, <3>2
  <2>9. 0..max \subseteq Good
    <3> HIDE DEF Good
    <3> QED
      BY <2>7, <2>8, UpTo
  <2>10. QED
    BY <2>2, <2>6, <2>9
<1>2. Ball(start, relations, direction, 0) = {start}
  <2>1. PICK f \in [0..0 -> NodeSets] :
          Follows(f, first, step, 0) /\ Ball(start, relations, direction, 0) = f[0]
    BY <1>1
  <2>2. QED
    BY <2>1 DEF Follows
<1>3. \A max \in Nat : Ball(start, relations, direction, max) \in NodeSets
  <2> TAKE max \in Nat
  <2>1. PICK f \in [0..max -> NodeSets] : Ball(start, relations, direction, max) = f[max]
    BY <1>1
  <2>2. QED
    BY <2>1
<1>4. ASSUME NEW max \in Nat \ {0}
      PROVE  Ball(start, relations, direction, max)
               = Around(Ball(start, relations, direction, max - 1), relations, direction)
  <2>1. max - 1 \in Nat /\ max \in 1..max /\ max - 1 \in 0..max /\ max - 1 \in 0..(max - 1)
    OBVIOUS
  <2>2. PICK f \in [0..max -> NodeSets] :
          Follows(f, first, step, max) /\ Ball(start, relations, direction, max) = f[max]
    BY <1>1
  <2>3. PICK g \in [0..(max - 1) -> NodeSets] :
          /\ Follows(g, first, step, max - 1)
          /\ Ball(start, relations, direction, max - 1) = g[max - 1]
    BY <1>1, <2>1
  <2>4. f[max - 1] = g[max - 1]
    <3> HIDE DEF first, step
    <3> QED
      BY <2>1, <2>2, <2>3, FollowsOnce
  <2>5. f[max] = step[f[max - 1]] /\ f[max - 1] \in NodeSets
    BY <2>1, <2>2 DEF Follows
  <2>6. QED
    BY <2>2, <2>3, <2>4, <2>5
<1>5. QED
  BY <1>2, <1>3, <1>4

-----------------------------------------------------------------------------
\* What a path of the next depth is made of.
LEMMA LongerIs ==
  ASSUME NEW paths \in PathSets, NEW relations, NEW direction,
         NEW w \in Longer(paths, relations, direction)
  PROVE  \E v \in paths, n \in NodeIds, e \in edges :
           w = Append(v, n) /\ Joined(v, e, n, relations, direction)
<1>1. PICK p \in paths \X NodeIds : /\ w = Append(p[1], p[2])
                                    /\ \E e \in edges : Joined(p[1], e, p[2], relations, direction)
  BY DEF Longer
<1>2. p[1] \in paths /\ p[2] \in NodeIds
  OBVIOUS
<1>3. QED
  BY <1>1, <1>2

LEMMA LongerHas ==
  ASSUME NEW paths \in PathSets, NEW relations, NEW direction,
         NEW v \in paths, NEW n \in NodeIds, NEW e \in edges,
         Joined(v, e, n, relations, direction)
  PROVE  Append(v, n) \in Longer(paths, relations, direction)
<1> DEFINE p == <<v, n>>
<1>1. p \in paths \X NodeIds /\ p[1] = v /\ p[2] = n
  OBVIOUS
<1>2. QED
  BY <1>1 DEF Longer

\* A path of depth d has d + 1 nodes.
LEMMA WalksShape ==
  ASSUME NEW start \in NodeIds, NEW relations, NEW direction, NEW max \in Nat
  PROVE  LET walks == Walks(start, relations, direction, max) IN
         \A d \in 0..max : /\ walks[d] \in PathSets
                           /\ \A w \in walks[d] : Len(w) = d + 1
<1> DEFINE walks == Walks(start, relations, direction, max)
           Good == {d \in 0..max : walks[d] \in PathSets /\ \A w \in walks[d] : Len(w) = d + 1}
<1>1. /\ walks[0] = {<<start>>}
      /\ \A d \in 1..max : walks[d] = Longer(walks[d - 1], relations, direction)
  BY WalksAre
<1> HIDE DEF walks
<1>2. 0 \in Good
  <2>1. <<start>> \in Seq(NodeIds) /\ Len(<<start>>) = 0 + 1
    OBVIOUS
  <2>2. walks[0] \in PathSets
    BY <1>1, <2>1 DEF PathSets
  <2>3. \A w \in walks[0] : Len(w) = 0 + 1
    BY <1>1, <2>1
  <2>4. QED
    BY <2>2, <2>3
<1>3. ASSUME NEW d \in 1..max, d - 1 \in Good
      PROVE  d \in Good
  <2>1. walks[d] = Longer(walks[d - 1], relations, direction) /\ walks[d - 1] \in PathSets
    BY <1>1, <1>3
  <2>2. walks[d] \in PathSets
    BY <2>1, LongerType
  <2>3. \A w \in walks[d] : Len(w) = d + 1
    <3> TAKE w \in walks[d]
    <3>1. PICK v \in walks[d - 1], n \in NodeIds : w = Append(v, n)
      BY <2>1, LongerIs
    <3>2. v \in Seq(NodeIds) /\ Len(v) = (d - 1) + 1
      BY <1>3, <2>1 DEF PathSets
    <3>3. QED
      BY <3>1, <3>2
  <2>4. QED
    BY <2>2, <2>3
<1>4. 0..max \subseteq Good
  <2> HIDE DEF Good
  <2> QED
    BY <1>2, <1>3, UpTo
<1>5. QED
  BY <1>4 DEF walks

\* Each node of a path ends a path at most as long.
LEMMA WalksHaveStarts ==
  ASSUME NEW start \in NodeIds, NEW relations, NEW direction, NEW max \in Nat
  PROVE  LET walks == Walks(start, relations, direction, max) IN
         \A d \in 0..max : \A w \in walks[d] : \A i \in 1..Len(w) :
           \E k \in 0..d : \E v \in walks[k] : v[Len(v)] = w[i]
<1> DEFINE walks == Walks(start, relations, direction, max)
           Has(d) == \A w \in walks[d] : \A i \in 1..Len(w) :
                       \E k \in 0..d : \E v \in walks[k] : v[Len(v)] = w[i]
           Good == {d \in 0..max : Has(d)}
<1>1. /\ walks[0] = {<<start>>}
      /\ \A d \in 1..max : walks[d] = Longer(walks[d - 1], relations, direction)
      /\ \A d \in 0..max : walks[d] \in PathSets
  BY WalksAre, WalksShape
<1> HIDE DEF walks
<1>2. 0 \in Good
  BY <1>1
<1>3. ASSUME NEW d \in 1..max, d - 1 \in Good
      PROVE  d \in Good
  <2>1. walks[d] = Longer(walks[d - 1], relations, direction) /\ walks[d - 1] \in PathSets
    BY <1>1
  <2>2. SUFFICES ASSUME NEW w \in walks[d], NEW i \in 1..Len(w)
                 PROVE  \E k \in 0..d : \E v \in walks[k] : v[Len(v)] = w[i]
    OBVIOUS
  <2>3. PICK v \in walks[d - 1], n \in NodeIds : w = Append(v, n)
    BY <2>1, LongerIs
  <2>4. v \in Seq(NodeIds)
    BY <2>1 DEF PathSets
  <2>5. CASE i = Len(w)
    BY <2>5
  <2>6. CASE i # Len(w)
    <3>1. i \in 1..Len(v) /\ w[i] = v[i]
      BY <2>3, <2>4, <2>6
    <3>2. PICK k \in 0..(d - 1) : \E u \in walks[k] : u[Len(u)] = v[i]
      BY <1>3, <3>1
    <3>3. QED
      BY <3>1, <3>2
  <2>7. QED
    BY <2>5, <2>6
<1>4. 0..max \subseteq Good
  <2> HIDE DEF Good
  <2> QED
    BY <1>2, <1>3, UpTo
<1>5. QED
  BY <1>4 DEF walks

\* A ball is part of every larger one.
LEMMA BallsGrow ==
  ASSUME NEW start \in NodeIds, NEW relations, NEW direction, NEW max \in Nat
  PROVE  \A d \in 0..max : \A k \in 0..d :
           Ball(start, relations, direction, k) \subseteq Ball(start, relations, direction, d)
<1> DEFINE B(d) == Ball(start, relations, direction, d)
           Good == {d \in 0..max : \A k \in 0..d : B(k) \subseteq B(d)}
<1>1. 0 \in Good
  OBVIOUS
<1>2. ASSUME NEW d \in 1..max, d - 1 \in Good
      PROVE  d \in Good
  <2>1. B(d) = Around(B(d - 1), relations, direction)
    BY BallsAre
  <2>2. B(d - 1) \subseteq B(d)
    BY <2>1 DEF Around
  <2>3. \A k \in 0..(d - 1) : B(k) \subseteq B(d - 1)
    BY <1>2
  <2>4. \A k \in 0..d : k = d \/ k \in 0..(d - 1)
    OBVIOUS
  <2> HIDE DEF B
  <2>5. QED
    BY <2>2, <2>3, <2>4
<1>3. 0..max \subseteq Good
  <2> HIDE DEF Good
  <2> QED
    BY <1>1, <1>2, UpTo
<1>4. QED
  BY <1>3

\* Paths end in the ball of their depth.
LEMMA WalksInBall ==
  ASSUME NEW start \in NodeIds, NEW relations, NEW direction, NEW max \in Nat
  PROVE  LET walks == Walks(start, relations, direction, max) IN
         \A d \in 0..max : \A w \in walks[d] :
           w[Len(w)] \in Ball(start, relations, direction, d)
<1> DEFINE walks == Walks(start, relations, direction, max)
           B(d) == Ball(start, relations, direction, d)
           Good == {d \in 0..max : \A w \in walks[d] : w[Len(w)] \in B(d)}
<1>1. /\ walks[0] = {<<start>>}
      /\ \A d \in 1..max : walks[d] = Longer(walks[d - 1], relations, direction)
      /\ \A d \in 0..max : walks[d] \in PathSets
  BY WalksAre, WalksShape
<1>2. B(0) = {start} /\ \A d \in 1..max : B(d) = Around(B(d - 1), relations, direction)
  BY BallsAre
<1> HIDE DEF walks, B
<1>3. 0 \in Good
  <2>1. \A w \in walks[0] : w[Len(w)] = start
    <3>1. <<start>>[Len(<<start>>)] = start
      OBVIOUS
    <3>2. \A w \in walks[0] : w = <<start>>
      BY <1>1
    <3>3. QED
      BY <3>1, <3>2
  <2>2. QED
    BY <1>2, <2>1
<1>4. ASSUME NEW d \in 1..max, d - 1 \in Good
      PROVE  d \in Good
  <2>1. walks[d] = Longer(walks[d - 1], relations, direction) /\ walks[d - 1] \in PathSets
    BY <1>1
  <2>2. SUFFICES ASSUME NEW w \in walks[d] PROVE w[Len(w)] \in B(d)
    OBVIOUS
  <2>3. PICK v \in walks[d - 1], n \in NodeIds, e \in edges :
          w = Append(v, n) /\ Joined(v, e, n, relations, direction)
    BY <2>1, LongerIs
  <2>4. v \in Seq(NodeIds)
    BY <2>1 DEF PathSets
  <2>5. w[Len(w)] = n
    BY <2>3, <2>4
  <2>6. v[Len(v)] \in B(d - 1)
    BY <1>4
  <2>7. n \in Around(B(d - 1), relations, direction)
    BY <2>3, <2>6 DEF Joined, Around
  <2>8. QED
    BY <1>2, <2>5, <2>7
<1>5. 0..max \subseteq Good
  <2> HIDE DEF Good
  <2> QED
    BY <1>3, <1>4, UpTo
<1>6. QED
  BY <1>5 DEF walks, B

\* Paths from an undeleted node lead over undeleted nodes.
LEMMA WalksAlive ==
  ASSUME NEW start \in NodeIds, Alive(start), NEW relations, NEW direction, NEW max \in Nat
  PROVE  LET walks == Walks(start, relations, direction, max) IN
         \A d \in 0..max : \A w \in walks[d] : \A i \in 1..Len(w) : Alive(w[i])
<1> DEFINE walks == Walks(start, relations, direction, max)
           Good == {d \in 0..max : \A w \in walks[d] : \A i \in 1..Len(w) : Alive(w[i])}
<1>1. /\ walks[0] = {<<start>>}
      /\ \A d \in 1..max : walks[d] = Longer(walks[d - 1], relations, direction)
      /\ \A d \in 0..max : walks[d] \in PathSets
  BY WalksAre, WalksShape
<1> HIDE DEF walks
<1>2. 0 \in Good
  <2>1. \A i \in 1..Len(<<start>>) : <<start>>[i] = start
    OBVIOUS
  <2>2. \A w \in walks[0] : w = <<start>>
    BY <1>1
  <2>3. QED
    BY <2>1, <2>2
<1>3. ASSUME NEW d \in 1..max, d - 1 \in Good
      PROVE  d \in Good
  <2>1. walks[d] = Longer(walks[d - 1], relations, direction) /\ walks[d - 1] \in PathSets
    BY <1>1
  <2>2. SUFFICES ASSUME NEW w \in walks[d], NEW i \in 1..Len(w)
                 PROVE  Alive(w[i])
    OBVIOUS
  <2>3. PICK v \in walks[d - 1], n \in NodeIds, e \in edges :
          w = Append(v, n) /\ Joined(v, e, n, relations, direction)
    BY <2>1, LongerIs
  <2>4. v \in Seq(NodeIds)
    BY <2>1 DEF PathSets
  <2>5. w[i] = n \/ (i \in 1..Len(v) /\ w[i] = v[i])
    BY <2>3, <2>4
  <2>6. Alive(n)
    BY <2>3 DEF Joined
  <2>7. QED
    BY <1>3, <2>5, <2>6
<1>4. 0..max \subseteq Good
  <2> HIDE DEF Good
  <2> QED
    BY <1>2, <1>3, UpTo
<1>5. QED
  BY <1>4 DEF walks

\* Each node of a ball ends a path, which the cycle guard does not prevent.
LEMMA BallInWalks ==
  ASSUME IdsApart,
         NEW start \in NodeIds, Alive(start), NEW relations, NEW direction, NEW max \in Nat
  PROVE  LET walks == Walks(start, relations, direction, max) IN
         \A d \in 0..max : \A n \in Ball(start, relations, direction, d) :
           \E k \in 0..d : \E w \in walks[k] : w[Len(w)] = n
<1> DEFINE walks == Walks(start, relations, direction, max)
           B(d) == Ball(start, relations, direction, d)
           EndsBy(d, n) == \E k \in 0..d : \E w \in walks[k] : w[Len(w)] = n
           Good == {d \in 0..max : \A n \in B(d) : EndsBy(d, n)}
<1>1. /\ walks[0] = {<<start>>}
      /\ \A d \in 1..max : walks[d] = Longer(walks[d - 1], relations, direction)
      /\ \A d \in 0..max : walks[d] \in PathSets
      /\ \A d \in 0..max : \A w \in walks[d] : Len(w) = d + 1
  BY WalksAre, WalksShape
<1>2. B(0) = {start} /\ \A d \in 1..max : B(d) = Around(B(d - 1), relations, direction)
  BY BallsAre
<1>3. \A d \in 0..max : \A w \in walks[d] : \A i \in 1..Len(w) :
        \E k \in 0..d : \E v \in walks[k] : v[Len(v)] = w[i]
  BY WalksHaveStarts
<1>0. \A d \in 0..max : \A w \in walks[d] : \A i \in 1..Len(w) : Alive(w[i])
  BY WalksAlive DEF Alive
<1> HIDE DEF walks, B
<1>4. 0 \in Good
  <2>1. <<start>> \in walks[0] /\ <<start>>[Len(<<start>>)] = start
    BY <1>1
  <2>2. EndsBy(0, start)
    BY <2>1
  <2>3. QED
    BY <1>2, <2>2
<1>5. ASSUME NEW d \in 1..max, d - 1 \in Good
      PROVE  d \in Good
  <2>1. SUFFICES ASSUME NEW n \in B(d) PROVE EndsBy(d, n)
    OBVIOUS
  <2>2. B(d) = Around(B(d - 1), relations, direction)
    BY <1>2
  <2>3. CASE n \in B(d - 1)
    <3>1. PICK k \in 0..(d - 1) : \E w \in walks[k] : w[Len(w)] = n
      BY <1>5, <2>3
    <3>2. QED
      BY <3>1
  <2>4. CASE n \notin B(d - 1)
    <3>1. n \in NodeIds /\ Alive(n)
      BY <2>1, <2>2, <2>4 DEF Around
    <3>2. PICK e \in edges, m \in B(d - 1) :
            Shown(e) /\ Relation(e) \in relations /\ Leads(e, m, n, direction)
      BY <2>1, <2>2, <2>4 DEF Around
    <3>3. PICK k \in 0..(d - 1) : \E w \in walks[k] : w[Len(w)] = m
      BY <1>5
    <3> PICK w \in walks[k] : w[Len(w)] = m
      BY <3>3
    <3>4. k \in 0..max /\ w \in Seq(NodeIds)
      BY <1>1, <3>3 DEF PathSets
    <3>5. CASE Visited(n, w)
      <4>1. \E i \in DOMAIN w : w[i] \in Inside[n]
        BY <3>5 DEF Visited
      <4> PICK i \in DOMAIN w : w[i] \in Inside[n]
        BY <4>1
      <4>2. i \in 1..Len(w) /\ w[i] = n
        <5>1. i \in 1..Len(w) /\ w[i] \in NodeIds
          BY <3>4
        <5>2. QED
          BY <1>0, <3>1, <3>4, <5>1 DEF IdsApart
      <4>3. EndsBy(k, n)
        BY <1>3, <3>4, <4>2
      <4>4. QED
        BY <4>3
    <3>6. CASE ~Visited(n, w)
      <4>1. Joined(w, e, n, relations, direction)
        BY <3>1, <3>2, <3>3, <3>6 DEF Joined
      <4>2. k + 1 \in 1..max /\ k + 1 \in 0..d /\ (k + 1) - 1 = k
        BY <3>3
      <4>3. Append(w, n) \in Longer(walks[k], relations, direction)
        BY <1>1, <3>1, <3>4, <4>1, LongerHas
      <4>4. Append(w, n) \in walks[k + 1]
        BY <1>1, <4>2, <4>3
      <4>5. Append(w, n)[Len(Append(w, n))] = n
        BY <3>4, <3>1
      <4>6. QED
        BY <4>2, <4>4, <4>5
    <3>7. QED
      BY <3>5, <3>6
  <2>5. QED
    BY <2>3, <2>4
<1>6. 0..max \subseteq Good
  <2> HIDE DEF Good
  <2> QED
    BY <1>4, <1>5, UpTo
<1>7. QED
  BY <1>6 DEF walks, B

-----------------------------------------------------------------------------
\* What the paths end at within a depth is the ball of that depth.
LEMMA EndsAreBall ==
  ASSUME IdsApart,
         NEW start \in NodeIds, Alive(start), NEW relations, NEW direction,
         NEW max \in Nat, NEW d \in 0..max, NEW x
  PROVE  (\E k \in 0..d : \E w \in Walks(start, relations, direction, max)[k] : w[Len(w)] = x)
           <=> x \in Ball(start, relations, direction, d)
<1> DEFINE walks == Walks(start, relations, direction, max)
           B(k) == Ball(start, relations, direction, k)
<1>1. \A k \in 0..max : \A w \in walks[k] : w[Len(w)] \in B(k)
  BY WalksInBall
<1>2. \A n \in B(d) : \E k \in 0..d : \E w \in walks[k] : w[Len(w)] = n
  <2>1. \A c \in 0..max : \A n \in Ball(start, relations, direction, c) :
          \E k \in 0..c : \E w \in Walks(start, relations, direction, max)[k] : w[Len(w)] = n
    BY BallInWalks DEF Alive
  <2>2. QED
    BY <2>1
<1>3. \A c \in 0..max : \A k \in 0..c : B(k) \subseteq B(c)
  BY BallsGrow
<1> HIDE DEF walks, B
<1>4. (\E k \in 0..d : \E w \in walks[k] : w[Len(w)] = x) => x \in B(d)
  BY <1>1, <1>3
<1>5. x \in B(d) => \E k \in 0..d : \E w \in walks[k] : w[Len(w)] = x
  BY <1>2
<1>6. QED
  BY <1>4, <1>5 DEF walks, B

\* The same of a list of the nodes at each depth.
LEMMA ListIsBall ==
  ASSUME IdsApart,
         NEW start \in NodeIds, Alive(start), NEW relations, NEW direction,
         NEW max \in Nat, NEW d \in 0..max, NEW list,
         \A k \in 0..max : list[k] = {w[Len(w)] : w \in Walks(start, relations, direction, max)[k]}
  PROVE  UNION {list[k] : k \in 0..d} = Ball(start, relations, direction, d)
<1> DEFINE listed == UNION {list[k] : k \in 0..d}
           ball   == Ball(start, relations, direction, d)
           walks  == Walks(start, relations, direction, max)
<1>1. \A x : x \in listed <=> \E k \in 0..d : x \in list[k]
  OBVIOUS
<1>2. \A x : (\E k \in 0..d : \E w \in walks[k] : w[Len(w)] = x) <=> x \in ball
  BY EndsAreBall DEF Alive
<1> HIDE DEF walks, listed, ball
<1>3. \A k \in 0..d : \A x : x \in list[k] <=> \E w \in walks[k] : w[Len(w)] = x
  BY DEF walks
<1>4. \A x : x \in listed <=> x \in ball
  BY <1>1, <1>2, <1>3
<1>5. QED
  BY <1>4 DEF listed, ball

LEMMA ChainExact == IdsApart => ChainIsExact
<1> SUFFICES ASSUME IdsApart, NEW n \in NodeIds, NEW max \in Depths, NEW d \in 0..max, Alive(n)
             PROVE  /\ UNION {Chain(n, "up", max)[k] : k \in 0..d} = Ball(n, UpRelations, "in", d)
                    /\ UNION {Chain(n, "down", max)[k] : k \in 0..d}
                         = Ball(n, DownRelations, "out", d)
  BY DEF ChainIsExact
<1> DEFINE up   == Chain(n, "up", max)
           down == Chain(n, "down", max)
<1>1. max \in Nat
  BY QueriesAssumption
<1>2. \A k \in 0..max : up[k] = {w[Len(w)] : w \in Walks(n, UpRelations, "in", max)[k]}
  BY DEF Chain
<1>3. \A k \in 0..max : down[k] = {w[Len(w)] : w \in Walks(n, DownRelations, "out", max)[k]}
  BY DEF Chain
<1> HIDE DEF up, down
<1>4. UNION {up[k] : k \in 0..d} = Ball(n, UpRelations, "in", d)
  BY <1>1, <1>2, ListIsBall DEF Alive
<1>5. UNION {down[k] : k \in 0..d} = Ball(n, DownRelations, "out", d)
  BY <1>1, <1>3, ListIsBall DEF Alive
<1>6. QED
  BY <1>4, <1>5 DEF up, down

\* The nodes of an edge that a walk takes.
LEMMA LeadsEnds ==
  ASSUME NEW e, NEW m, NEW n, NEW direction, Leads(e, m, n, direction)
  PROVE  Ends(e) = {m, n}
  BY DEF Leads, Ends

LEMMA NeighborsExact == IdsApart => NeighborsAreExact
<1> SUFFICES ASSUME IdsApart, NEW start \in NodeIds, Alive(start), NEW direction, NEW depth \in Depths,
                    NEW relations
             PROVE  {start} \cup UNION {Ends(e) : e \in Neighbors(start, relations, direction, depth)}
                      = Ball(start, relations, direction, Hops(depth))
  BY DEF NeighborsAreExact
<1> DEFINE max == Hops(depth)
           walks == Walks(start, relations, direction, max)
           B(k) == Ball(start, relations, direction, k)
           near == Neighbors(start, relations, direction, depth)
           touched == {start} \cup UNION {Ends(e) : e \in near}
<1>1. max \in Nat /\ max >= 1
  BY QueriesAssumption DEF Hops
<1>2. /\ walks[0] = {<<start>>}
      /\ \A d \in 1..max : walks[d] = Longer(walks[d - 1], relations, direction)
      /\ \A d \in 0..max : walks[d] \in PathSets
  BY <1>1, WalksAre, WalksShape
<1>3. \A k \in 0..max : \A w \in walks[k] : w[Len(w)] \in B(k)
  BY <1>1, WalksInBall
<1>4. \A n \in B(max) : \E k \in 0..max : \E w \in walks[k] : w[Len(w)] = n
  <2>1. max \in 0..max
    BY <1>1
  <2>2. QED
    BY <1>1, <2>1, BallInWalks DEF Alive
<1>5. \A k \in 0..max : B(k) \subseteq B(max)
  <2>1. max \in 0..max
    BY <1>1
  <2>2. QED
    BY <1>1, <2>1, BallsGrow
<1>6. B(0) = {start} /\ \A d \in 1..max : B(d) = Around(B(d - 1), relations, direction)
  BY <1>1, BallsAre
<1>7. near = { e \in edges : \E d \in 0..(max - 1) : \E path \in walks[d] : \E n \in NodeIds :
                 Joined(path, e, n, relations, direction) }
  BY DEF Neighbors
<1> HIDE DEF max, walks, B, near
<1>11. \A x : x \in touched <=> x = start \/ \E e \in near : x \in Ends(e)
  OBVIOUS
<1> HIDE DEF touched
<1>8. touched \subseteq B(max)
  <2>1. start \in B(max)
    <3>1. 0 \in 0..max
      BY <1>1
    <3>2. QED
      BY <1>5, <1>6, <3>1
  <2>2. ASSUME NEW e \in near PROVE Ends(e) \subseteq B(max)
    <3>1. \E d \in 0..(max - 1) : \E path \in walks[d] : \E n \in NodeIds :
            Joined(path, e, n, relations, direction)
      BY <1>7, <2>2
    <3> PICK d \in 0..(max - 1) : \E path \in walks[d] : \E n \in NodeIds :
            Joined(path, e, n, relations, direction)
      BY <3>1
    <3> PICK path \in walks[d], n \in NodeIds : Joined(path, e, n, relations, direction)
      OBVIOUS
    <3>2. d \in 0..max /\ d + 1 \in 1..max /\ d + 1 \in 0..max /\ (d + 1) - 1 = d
      BY <1>1
    <3>3. path[Len(path)] \in B(d)
      BY <1>3, <3>2
    <3>4. n \in Around(B(d), relations, direction)
      BY <3>3, <1>7 DEF Joined, Around
    <3>5. n \in B(d + 1)
      BY <1>6, <3>2, <3>4
    <3>6. Ends(e) = {path[Len(path)], n}
      BY LeadsEnds DEF Joined
    <3>7. QED
      BY <1>5, <3>2, <3>3, <3>5, <3>6
  <2>3. QED
    BY <1>11, <2>1, <2>2
<1>9. B(max) \subseteq touched
  <2>1. SUFFICES ASSUME NEW n \in B(max), n # start PROVE \E e \in near : n \in Ends(e)
    BY <1>11
  <2>2. PICK k \in 0..max : \E w \in walks[k] : w[Len(w)] = n
    BY <1>4
  <2> PICK w \in walks[k] : w[Len(w)] = n
    BY <2>2
  <2>3. k # 0
    BY <1>2, <2>1
  <2>4. k \in 1..max /\ k - 1 \in 0..max /\ k - 1 \in 0..(max - 1)
    BY <1>1, <2>3
  <2>5. walks[k] = Longer(walks[k - 1], relations, direction) /\ walks[k - 1] \in PathSets
    BY <1>2, <2>4
  <2>6. \E v \in walks[k - 1], x \in NodeIds, e \in edges :
          w = Append(v, x) /\ Joined(v, e, x, relations, direction)
    BY <2>5, LongerIs
  <2> PICK v \in walks[k - 1], x \in NodeIds, e \in edges :
          w = Append(v, x) /\ Joined(v, e, x, relations, direction)
    BY <2>6
  <2>7. x = n
    <3>1. v \in Seq(NodeIds)
      BY <2>5 DEF PathSets
    <3>2. QED
      BY <3>1
  <2>8. e \in near
    BY <1>7, <2>4
  <2>9. n \in Ends(e)
    BY <2>7, LeadsEnds DEF Joined
  <2>10. QED
    BY <2>8, <2>9
<1>10. touched = B(max)
  BY <1>8, <1>9
<1>12. QED
  BY <1>10 DEF touched, near, B, max

\* The edges that get_neighbors lists at one hop.
LEMMA NextTo ==
  ASSUME IdsApart, GraphTypeOK, NEW n \in NodeIds, Alive(n)
  PROVE  Neighbors(n, Relations, "both", 1)
           = { e \in edges \ hidden : /\ n \in Ends(e) /\ Ends(e) # {n}
                                      /\ \A m \in Ends(e) : m # n => Alive(m) }
<1> DEFINE near == Neighbors(n, Relations, "both", 1)
           open == { e \in edges \ hidden : /\ n \in Ends(e) /\ Ends(e) # {n}
                                            /\ \A m \in Ends(e) : m # n => Alive(m) }
<1>1. near = {e \in edges : \E m \in NodeIds : Joined(<<n>>, e, m, Relations, "both")}
  <2>1. Hops(1) = 1 /\ 1 \in Nat
    BY DEF Hops
  <2> DEFINE walks == Walks(n, Relations, "both", 1)
  <2>2. walks[0] = {<<n>>}
    BY <2>1, WalksAre
  <2>3. near = {e \in edges : \E d \in 0..(1 - 1) : \E path \in walks[d] : \E m \in NodeIds :
                  Joined(path, e, m, Relations, "both")}
    BY <2>1 DEF Neighbors
  <2> HIDE DEF walks, near
  <2>4. \A d \in 0..(1 - 1) : d = 0
    OBVIOUS
  <2>5. 0 \in 0..(1 - 1)
    OBVIOUS
  <2>6. QED
    BY <2>2, <2>3, <2>4, <2>5
<1>2. ASSUME NEW e \in edges, NEW m \in NodeIds
      PROVE  Joined(<<n>>, e, m, Relations, "both")
               <=> e \notin hidden /\ Ends(e) = {n, m} /\ m # n /\ Alive(m)
  <2>1. Relation(e) \in Relations
    BY DEF GraphTypeOK, Edge, Relation
  <2>2. <<n>>[Len(<<n>>)] = n
    OBVIOUS
  <2>3. Alive(m) => (Visited(m, <<n>>) <=> n = m)
    <3>1. DOMAIN <<n>> = {1} /\ <<n>>[1] = n
      OBVIOUS
    <3>2. m \in Inside[m] /\ (Alive(m) /\ n \in Inside[m] => n = m)
      BY QueriesAssumption DEF IdsApart
    <3>3. QED
      BY <3>1, <3>2 DEF Visited
  <2>4. m # n => (Leads(e, n, m, "both") <=> Ends(e) = {n, m})
    BY DEF Leads, Ends
  <2>5. QED
    BY <2>1, <2>2, <2>3, <2>4 DEF Joined, Shown
<1>3. \A e \in edges : Ends(e) = {Source(e), Target(e)} /\ Ends(e) \subseteq NodeIds
  BY DEF GraphTypeOK, Edge, Ends, Source, Target
<1> HIDE DEF near
<1>4. near \subseteq open
  BY <1>1, <1>2
<1>5. open \subseteq near
  <2> SUFFICES ASSUME NEW e \in open PROVE e \in near
    OBVIOUS
  <2>1. PICK m \in NodeIds : Ends(e) = {n, m} /\ m # n
    BY <1>3
  <2>2. Joined(<<n>>, e, m, Relations, "both")
    BY <1>2, <2>1
  <2>3. QED
    BY <1>1, <2>2
<1>6. near = open
  BY <1>4, <1>5
<1>7. QED
  BY <1>6 DEF near

LEMMA DegreeExact ==
  ASSUME IdsApart, GraphTypeOK, IsFiniteSet(edges)
  PROVE  DegreeIsNeighborhood
<1> SUFFICES ASSUME NEW n \in NodeIds, Alive(n)
             PROVE  LET at == Neighbors(n, Relations, "both", 1)
                        touching == {e \in edges \ hidden : n \in Ends(e)} IN
                    Degree(n) = Cardinality(at)
                                 + Cardinality({e \in touching : Ends(e) = {n}}) * 2
                                 + Cardinality({e \in touching : ~EndsAlive(e)})
  BY DEF DegreeIsNeighborhood
<1> DEFINE at == Neighbors(n, Relations, "both", 1)
           touching == {e \in edges \ hidden : n \in Ends(e)}
           loops == {e \in touching : Ends(e) = {n}}
           dead  == {e \in touching : ~EndsAlive(e)}
           from  == {e \in edges \ hidden : Source(e) = n}
           into  == {e \in edges \ hidden : Target(e) = n}
<1>1. from \cup into = touching /\ from \cap into = loops
  BY DEF Ends
<1>2. at = { e \in edges \ hidden : /\ n \in Ends(e) /\ Ends(e) # {n}
                                    /\ \A m \in Ends(e) : m # n => Alive(m) }
  BY NextTo DEF Alive
<1>3. touching = at \cup (loops \cup dead)
  BY <1>2 DEF EndsAlive
<1>4. at \cap (loops \cup dead) = {} /\ loops \cap dead = {}
  BY <1>2 DEF EndsAlive
<1>5. at \subseteq edges /\ touching \subseteq edges
  BY <1>2
<1>6. Degree(n) = Cardinality(from) + Cardinality(into)
  BY DEF Degree
<1> HIDE DEF at
<1>7. /\ IsFiniteSet(at) /\ IsFiniteSet(loops) /\ IsFiniteSet(dead)
      /\ IsFiniteSet(from) /\ IsFiniteSet(into)
  <2>1. \A S : S \subseteq edges => IsFiniteSet(S)
    BY FS_Subset
  <2>2. QED
    BY <1>5, <2>1
<1> HIDE DEF touching, loops, dead, from, into
<1>8. Cardinality(touching) = Cardinality(from) + Cardinality(into) - Cardinality(loops)
  BY <1>1, <1>7, FS_Union
<1>9. /\ IsFiniteSet(loops \cup dead)
      /\ Cardinality(loops \cup dead)
           = Cardinality(loops) + Cardinality(dead) - Cardinality(loops \cap dead)
  BY <1>7, FS_Union
<1>10. Cardinality(touching)
         = Cardinality(at) + Cardinality(loops \cup dead)
             - Cardinality(at \cap (loops \cup dead))
  BY <1>3, <1>7, <1>9, FS_Union
<1>11. Cardinality({}) = 0
  BY FS_EmptySet
<1>12. /\ Cardinality(at) \in Nat /\ Cardinality(loops) \in Nat /\ Cardinality(dead) \in Nat
       /\ Cardinality(from) \in Nat /\ Cardinality(into) \in Nat
  BY <1>7, FS_CardinalityType
<1>13. Degree(n) = Cardinality(at) + Cardinality(loops) * 2 + Cardinality(dead)
  <2>1. /\ Cardinality(at \cap (loops \cup dead)) = 0
        /\ Cardinality(loops \cap dead) = 0
    BY <1>4, <1>11
  <2>2. Cardinality(touching) = Cardinality(at) + (Cardinality(loops) + Cardinality(dead))
    BY <1>9, <1>10, <1>12, <2>1
  <2>3. Cardinality(from) + Cardinality(into) = Cardinality(touching) + Cardinality(loops)
    BY <1>8, <1>12
  <2>4. QED
    BY <1>6, <1>12, <2>2, <2>3
<1>14. QED
  BY <1>13 DEF at, touching, loops, dead

-----------------------------------------------------------------------------
\* Each step adds at most one edge to the table.
LEMMA FiniteStep == IsFiniteSet(edges) /\ [Next]_vars => IsFiniteSet(edges')
<1> SUFFICES ASSUME IsFiniteSet(edges), [Next]_vars PROVE IsFiniteSet(edges')
  OBVIOUS
<1>1. CASE edges' \subseteq edges
  BY <1>1, FS_Subset
<1>2. CASE \E e : edges' = edges \cup {e}
  BY <1>2, FS_AddElement
<1>3. edges' \subseteq edges \/ \E e : edges' = edges \cup {e}
  <2>1. CASE UNCHANGED vars
    BY <2>1 DEF vars, graph
  <2>2. CASE Next
    BY <2>2 DEF Next, NodeRead, NodeWrite, EdgeRead, EdgeWrite, Delete, Abandon, Begin,
                PutNode, PutEdge, StampNode, DropNode, graph
  <2>3. QED
    BY <2>1, <2>2
<1>4. QED
  BY <1>1, <1>2, <1>3

\* The chain lists exactly what is within the depth asked for, each node at its
\* distance first, the neighbors are the edges that lead to it, and the degree
\* counts them, of any graph that the calls can make, whatever cycles it has, and
\* for any depth, as long as no undeleted node has an id that is part of another's.
THEOREM QueriesAreExact == Spec => [](IdsApart => QueriesExact)
<1> DEFINE Finite == IsFiniteSet(edges)
<1>1. Init => Finite
  BY FS_EmptySet DEF Init, GraphInit
<1>2. Finite /\ [Next]_vars => Finite'
  BY FiniteStep
<1>3. Spec => []Finite
  <2> HIDE DEF Finite
  <2>1. QED
    BY <1>1, <1>2, PTL DEF Spec
<1>4. TypeOK /\ Finite => (IdsApart => QueriesExact)
  BY ChainExact, NeighborsExact, DegreeExact DEF TypeOK, QueriesExact
<1>5. QED
  BY <1>3, <1>4, TypeCorrect, PTL

-----------------------------------------------------------------------------
(***************************************************************************)
(* The ingestion of components.  A pass owns what it knows: its counts are *)
(* of the edges it has touched, and as long as nobody deletes a node, what *)
(* it has written stays shown, whoever else writes.  So an undisturbed     *)
(* pass without errors has, of each component gdm listed, either written   *)
(* it or still to write it, and the same of its edges and relationships.   *)
(* The names are right because every name a pass goes by is one of those   *)
(* the registry gives the path while it is certain.                        *)
(***************************************************************************)
\* x is an element of the sequence s.
InSeq(x, s) == \E k \in 1..Len(s) : s[k] = x

Writing(p) == p.at \in {"query", "anchor", "nodes", "relations", "ended"}

Identified(p) ==
  IF Writing(p) THEN p.path \in Paths /\ p.name \in Names ELSE ~p.quiet

CountsAgree(p) ==
  /\ p.touched = p.put \cup p.missed
  /\ IsFiniteSet(p.touched) /\ p.added = Cardinality(p.touched)

\* The edges of a pass that it has shown or is about to.
Held(p, e)    == Shown(e) \/ InSeq(e, p.jobs)
HasEdge(p, u) == <<System(p.path), Component(p.name, u), "has_component">>
Listed(p)     == {u \in Uuids : \E k \in DOMAIN Listing[p.path] : Listing[p.path][k] = u}
Related(p, u) == \A r \in Told[u] : {r[1], r[2]} \subseteq p.by_uuid => Held(p, Pair(p, r))

\* What an undisturbed pass without errors has behind it, at each of its points.
Complete(p) ==
  p.quiet /\ ~p.errors =>
    /\ \A e \in p.touched : Shown(e)
    /\ \A u \in p.by_uuid : Alive(Component(p.name, u)) /\ Held(p, HasEdge(p, u))
    /\ p.at \in {"query", "anchor"} => p.by_uuid = {} /\ p.jobs = <<>>
    /\ p.at \in {"anchor", "nodes"} => \A u \in Listed(p) : u \in p.by_uuid \/ InSeq(u, p.todo)
    /\ p.at \in {"query", "anchor", "nodes"} => \A u \in p.by_uuid : InSeq(u, p.ask)
    /\ p.at \in {"relations", "ended"} =>
         /\ Listed(p) \subseteq p.by_uuid
         /\ p.deep /\ ~p.refused => \A u \in p.by_uuid : InSeq(u, p.ask) \/ Related(p, u)
    /\ p.at = "ended" => p.jobs = <<>> /\ (p.deep => p.ask = <<>>)

\* The models whose records might name the components of a system.
Stores(p)      == {m \in ModelIds : stored[m] = p}
WellStored(p)  == Stores(p) \cap relative = {}
RightName(p, name) == WellStored(p) => name \in NamesOf(p)
RightEdge(e) ==
  \A p \in Paths :
    Relation(e) = "has_component" /\ Source(e) = System(p) => RightName(p, e[2][1])
RightPass(p) ==
  /\ Writing(p) => RightName(p.path, p.name)
  /\ \A k \in 1..Len(p.jobs) : RightEdge(p.jobs[k])
NamesRight ==
  certain => (\A e \in edges : RightEdge(e)) /\ (\A i \in Ingesters : RightPass(pass[i]))

ComponentsInv ==
  /\ ComponentsTypeOK /\ NamesRight
  /\ \A i \in Ingesters : Identified(pass[i]) /\ CountsAgree(pass[i]) /\ Complete(pass[i])

-----------------------------------------------------------------------------
(* Sequences.                                                               *)

LEMMA InTail ==
  ASSUME NEW S, NEW s \in Seq(S), s # <<>>, NEW x, InSeq(x, s), x # Head(s)
  PROVE  InSeq(x, Tail(s))
<1>1. PICK k \in 1..Len(s) : s[k] = x
  BY DEF InSeq
<1>2. k # 1
  BY <1>1
<1>3. k - 1 \in 1..Len(Tail(s)) /\ Tail(s)[k - 1] = s[k]
  BY <1>1, <1>2, HeadTailProperties
<1>4. QED
  BY <1>1, <1>3 DEF InSeq

LEMMA InAppend ==
  ASSUME NEW S, NEW s \in Seq(S), NEW y \in S
  PROVE  InSeq(y, Append(s, y)) /\ \A x : InSeq(x, s) => InSeq(x, Append(s, y))
  BY AppendProperties DEF InSeq

LEMMA AllOfTail ==
  ASSUME NEW S, NEW s \in Seq(S), s # <<>>
  PROVE  \A k \in 1..Len(Tail(s)) : k + 1 \in 1..Len(s) /\ Tail(s)[k] = s[k + 1]
  BY HeadTailProperties

LEMMA SetToSeqCovers ==
  ASSUME NEW S, IsFiniteSet(S)
  PROVE  SetToSeq(S) \in Seq(S) /\ \A x \in S : InSeq(x, SetToSeq(S))
<1> DEFINE n == Cardinality(S)
           s == SetToSeq(S)
<1>1. n \in Nat /\ ExistsBijection(1..n, S)
  BY FS_CardinalityType
<1>2. \E f \in [1..n -> S] : IsInjective(f)
  BY <1>1 DEF ExistsBijection, Bijection, Injection
<1>3. s \in [1..n -> S] /\ IsInjective(s)
  BY <1>2 DEF SetToSeq
<1>4. s \in Injection(1..n, S)
  BY <1>3 DEF Injection
<1>5. Cardinality(1..n) = n /\ IsFiniteSet(1..n)
  BY <1>1, FS_Interval
<1>6. s \in Surjection(1..n, S)
  BY <1>4, <1>5, FS_Injection
<1>7. s \in Seq(S) /\ Len(s) = n
  BY <1>1, <1>3
<1>8. \A x \in S : \E k \in 1..n : s[k] = x
  BY <1>6 DEF Surjection
<1>9. QED
  BY <1>7, <1>8 DEF InSeq

-----------------------------------------------------------------------------
(* The graph.                                                               *)

Grows ==
  /\ \A n \in NodeIds : Alive(n) => Alive(n)'
  /\ \A e : Shown(e) => Shown(e)'

LEMMA PutNodeGrows ==
  ASSUME GraphTypeOK, NEW n \in NodeIds, PutNode(n)
  PROVE  GraphTypeOK' /\ Grows /\ Alive(n)' /\ edges' = edges
  BY DEF GraphTypeOK, PutNode, Grows, Alive, Shown

LEMMA PutEdgeGrows ==
  ASSUME GraphTypeOK, NEW e \in Edge, PutEdge(e)
  PROVE  GraphTypeOK' /\ Grows /\ Shown(e)' /\ edges' = edges \cup {e}
  BY DEF GraphTypeOK, PutEdge, Grows, Alive, Shown

LEMMA SameGrows == ASSUME GraphTypeOK, UNCHANGED graph
                   PROVE  GraphTypeOK' /\ Grows /\ edges' = edges
  BY DEF graph, GraphTypeOK, Grows, Alive, Shown

LEMMA NodesOf ==
  /\ \A p \in Paths : System(p) \in NodeIds
  /\ \A m \in Names, u \in Uuids : Component(m, u) \in NodeIds
  BY ComponentsAssumption DEF System, Component

LEMMA EdgesOf ==
  ASSUME NEW p \in Pass, p.path \in Paths, p.name \in Names
  PROVE  /\ \A u \in Uuids : HasEdge(p, u) \in Edge
         /\ \A u \in Uuids : \A r \in Told[u] : Pair(p, r) \in Edge
<1>1. \A u \in Uuids : HasEdge(p, u) \in Edge
  BY NodesOf, ComponentsAssumption DEF HasEdge, Edge
<1>2. ASSUME NEW u \in Uuids, NEW r \in Told[u] PROVE Pair(p, r) \in Edge
  <2>1. r \in Uuids \X Uuids
    BY ComponentsAssumption
  <2>2. QED
    BY <2>1, NodesOf, ComponentsAssumption DEF Pair, Edge
<1>3. QED
  BY <1>1, <1>2

\* A pass that stays as it is keeps what it has when the graph grows.
LEMMA CompleteKept ==
  ASSUME NEW p \in Pass, Identified(p), Complete(p), Grows
  PROVE  Complete(p)'
<1> SUFFICES ASSUME p.quiet, ~p.errors PROVE Complete(p)'
  BY DEF Complete
<1>1. \A e : Held(p, e) => Held(p, e)'
  BY DEF Grows, Held
<1>2. \A u \in p.by_uuid : Related(p, u) => Related(p, u)'
  BY <1>1 DEF Related
<1>3. \A u \in p.by_uuid : Component(p.name, u) \in NodeIds
  BY NodesOf DEF Identified, Pass
<1>4. QED
  BY <1>1, <1>2, <1>3 DEF Complete, Grows

-----------------------------------------------------------------------------
(* A step of one pass, in a graph that grows.                               *)

\* What a step of i hands over to the other passes.
Handover(i, q) ==
  /\ pass' = [pass EXCEPT ![i] = q]
  /\ GraphTypeOK' /\ Grows
  /\ registry' = registry /\ events' = events /\ certain' \in BOOLEAN

LEMMA SameNames ==
  ASSUME registry' = registry
  PROVE  /\ \A p, name : RightName(p, name)' <=> RightName(p, name)
         /\ \A e : RightEdge(e)' <=> RightEdge(e)
  BY DEF registry, RightName, RightEdge, WellStored, Stores, NamesOf

LEMMA PassStep ==
  ASSUME ComponentsInv, NEW i \in Ingesters, NEW q \in Pass, Handover(i, q),
         Identified(q), CountsAgree(q), Complete(q)',
         certain' => certain /\ RightPass(q) /\ \A e \in edges' : RightEdge(e)
  PROVE  ComponentsInv'
<1>1. ComponentsTypeOK'
  BY DEF ComponentsInv, ComponentsTypeOK, Handover, registry
<1>2. ASSUME NEW j \in Ingesters
      PROVE  pass'[j] \in Pass /\ (j = i => pass'[j] = q) /\ (j # i => pass'[j] = pass[j])
  BY <1>2 DEF ComponentsInv, ComponentsTypeOK, Handover
<1>3. NamesRight'
  <2>1. SUFFICES ASSUME certain'
                 PROVE  /\ \A e \in edges' : RightEdge(e)'
                        /\ \A j \in Ingesters : RightPass(pass[j])'
    BY DEF NamesRight
  <2>2. registry' = registry /\ certain
    BY <2>1 DEF Handover
  <2>3. ASSUME NEW j \in Ingesters PROVE RightPass(pass'[j])
    BY <1>2, <2>1, <2>2 DEF ComponentsInv, NamesRight
  <2>4. QED
    BY <2>1, <2>2, <2>3, SameNames DEF RightPass
<1>4. ASSUME NEW j \in Ingesters
      PROVE  (Identified(pass[j]) /\ CountsAgree(pass[j]) /\ Complete(pass[j]))'
  <2>1. CASE j = i
    BY <1>2, <2>1 DEF Identified, Writing, CountsAgree
  <2>2. CASE j # i
    <3>1. Complete(pass[j])'
      BY <1>2, <2>2, CompleteKept DEF ComponentsInv, ComponentsTypeOK, Handover
    <3>2. QED
      BY <1>2, <2>2, <3>1 DEF ComponentsInv, Identified, Writing, CountsAgree
  <2>3. QED
    BY <2>1, <2>2
<1>5. QED
  BY <1>1, <1>3, <1>4 DEF ComponentsInv

LEMMA ProceedStep ==
  ASSUME ComponentsInv, NEW i \in Ingesters, NEW q \in Pass, Proceed(i, q),
         Identified(q), CountsAgree(q), Complete(q), certain => RightPass(q)
  PROVE  ComponentsInv'
<1>1. GraphTypeOK /\ UNCHANGED <<graph, registry, events, certain>> /\ pass' = [pass EXCEPT ![i] = q]
  BY DEF ComponentsInv, ComponentsTypeOK, Proceed, Become
<1>2. GraphTypeOK' /\ Grows /\ edges' = edges
  BY <1>1, SameGrows
<1>3. Handover(i, q)
  BY <1>1, <1>2 DEF Handover, ComponentsInv, ComponentsTypeOK
<1>4. Complete(q)'
  BY <1>2, CompleteKept
<1>5. certain' => certain /\ RightPass(q) /\ \A e \in edges' : RightEdge(e)
  BY <1>1, <1>2 DEF ComponentsInv, NamesRight
<1>6. QED
  BY <1>3, <1>4, <1>5, PassStep

\* What the invariant says of the pass that takes a step.
LEMMA PassFacts ==
  ASSUME ComponentsInv, NEW i \in Ingesters
  PROVE  /\ pass[i] \in Pass /\ Identified(pass[i]) /\ CountsAgree(pass[i])
         /\ Complete(pass[i]) /\ (certain => RightPass(pass[i]))
         /\ GraphTypeOK /\ certain \in BOOLEAN
  BY DEF ComponentsInv, ComponentsTypeOK, NamesRight

LEMMA NoPassType ==
  /\ NoPass \in Pass
  /\ NoPass.jobs = <<>> /\ NoPass.touched = {} /\ NoPass.put = {} /\ NoPass.missed = {}
  /\ NoPass.added = 0 /\ NoPass.by_uuid = {} /\ NoPass.quiet = FALSE
<1>1. NoPass \in Pass
  BY DEF NoPass, Pass
<1>2. QED
  BY <1>1 DEF NoPass

LEMMA FailsStep ==
  ASSUME ComponentsInv, NEW i \in Ingesters, NEW where, Fails(i, where)
  PROVE  ComponentsInv'
<1>1. PICK q : q = [NoPass EXCEPT !.at = "failed"]
  OBVIOUS
<1>2. q \in Pass /\ q.at = "failed" /\ ~q.quiet /\ q.jobs = <<>>
      /\ q.touched = {} /\ q.put = {} /\ q.missed = {} /\ q.added = 0
  BY <1>1, NoPassType DEF Pass
<1>3. Identified(q) /\ CountsAgree(q) /\ Complete(q) /\ RightPass(q)
  BY <1>2, FS_EmptySet DEF Identified, Writing, CountsAgree, Complete, RightPass
<1>4. Proceed(i, q)
  BY <1>1 DEF Fails
<1>5. QED
  BY <1>2, <1>3, <1>4, ProceedStep

\* A pass that begins.
LEMMA StartsStep ==
  ASSUME ComponentsInv, NEW i \in Ingesters, NEW path \in Paths, NEW name \in Names,
         NEW deep \in BOOLEAN, Starts(i, path, name, deep), UNCHANGED <<graph, registry, events>>,
         certain' \in BOOLEAN, certain' => certain /\ RightName(path, name)
  PROVE  ComponentsInv'
<1>1. PICK q : q = [NoPass EXCEPT !.at = "query", !.path = path, !.name = name, !.deep = deep,
                                  !.quiet = TRUE]
  OBVIOUS
<1>2. q \in Pass /\ q.at = "query" /\ q.path = path /\ q.name = name /\ q.jobs = <<>>
      /\ q.touched = {} /\ q.put = {} /\ q.missed = {} /\ q.added = 0 /\ q.by_uuid = {}
  BY <1>1, NoPassType DEF Pass
<1>3. Identified(q) /\ CountsAgree(q) /\ Complete(q)
  BY <1>2, FS_EmptySet DEF Identified, Writing, CountsAgree, Complete
<1>4. RightName(path, name) => RightPass(q)
  BY <1>2 DEF RightPass
<1>5. GraphTypeOK' /\ Grows /\ edges' = edges
  BY SameGrows, PassFacts
<1>6. Handover(i, q)
  BY <1>1, <1>5 DEF Handover, Starts, Become
<1>7. Complete(q)'
  BY <1>2, <1>3, <1>5, CompleteKept
<1>8. certain' => certain /\ RightPass(q) /\ \A e \in edges' : RightEdge(e)
  BY <1>4, <1>5 DEF ComponentsInv, NamesRight
<1>9. QED
  BY <1>2, <1>3, <1>6, <1>7, <1>8, PassStep

LEMMA BeginModelStep ==
  ASSUME ComponentsInv, NEW i \in Ingesters, NEW m \in ModelIds, NEW deep \in BOOLEAN,
         BeginModel(i, m, deep)
  PROVE  ComponentsInv'
<1>1. lookup(m) \in Paths /\ m \in Names /\ m \in Stores(lookup(m))
  BY DEF BeginModel, lookup, ComponentsInv, ComponentsTypeOK, Names, Stores
<1>2. RightName(lookup(m), m)
  BY <1>1 DEF RightName, WellStored, Stores, NamesOf
<1>3. QED
  BY <1>1, <1>2, StartsStep, PassFacts DEF BeginModel

LEMMA BeginPathStep ==
  ASSUME ComponentsInv, NEW i \in Ingesters, NEW p \in Paths, NEW deep \in BOOLEAN,
         BeginPath(i, p, deep)
  PROVE  ComponentsInv'
<1>1. NamesOf(p) \subseteq Names /\ Slug[p] \in Names
  BY DEF NamesOf, Names
<1>2. CASE \E name \in NamesOf(p) : Starts(i, p, name, deep) /\ UNCHANGED certain
  <2>1. PICK name \in NamesOf(p) : Starts(i, p, name, deep) /\ UNCHANGED certain
    BY <1>2
  <2>2. RightName(p, name) /\ name \in Names
    BY <1>1, <2>1 DEF RightName
  <2>3. QED
    BY <2>1, <2>2, StartsStep, PassFacts DEF BeginPath
<1>3. CASE Starts(i, p, Slug[p], deep) /\ certain' = FALSE
  BY <1>1, <1>3, StartsStep DEF BeginPath
<1>4. QED
  BY <1>2, <1>3 DEF BeginPath

LEMMA QueryStep ==
  ASSUME ComponentsInv, NEW i \in Ingesters, Query(i)
  PROVE  ComponentsInv'
<1> DEFINE p == pass[i]
<1>0. p \in Pass /\ Identified(p) /\ CountsAgree(p) /\ Complete(p) /\ (certain => RightPass(p))
  BY PassFacts
<1>1. PICK q : q = [p EXCEPT !.at = "anchor", !.todo = Listing[p.path]]
  OBVIOUS
<1>2. p.at = "query" /\ p.path \in Paths /\ p.name \in Names
  BY <1>0 DEF Query, At, Identified, Writing
<1>3. /\ q \in Pass /\ q.at = "anchor" /\ q.todo = Listing[p.path] /\ q.path = p.path /\ q.name = p.name
      /\ q.jobs = p.jobs /\ q.touched = p.touched /\ q.put = p.put /\ q.missed = p.missed
      /\ q.added = p.added /\ q.by_uuid = p.by_uuid /\ q.quiet = p.quiet /\ q.errors = p.errors
      /\ q.ask = p.ask
  BY <1>0, <1>1, <1>2, ComponentsAssumption DEF Pass
<1>4. Identified(q) /\ CountsAgree(q) /\ (certain => RightPass(q))
  BY <1>0, <1>2, <1>3 DEF Identified, Writing, CountsAgree, RightPass
<1>5. ASSUME q.quiet, ~q.errors PROVE Complete(q)
  <2>1. \A u \in Listed(q) : InSeq(u, q.todo)
    <3>1. q.todo \in Seq(Uuids \cup {NoUuid}) /\ DOMAIN q.todo = 1..Len(q.todo)
      BY <1>2, <1>3, ComponentsAssumption
    <3>2. QED
      BY <3>1, <1>3 DEF Listed, InSeq
  <2>2. q.by_uuid = {} /\ q.jobs = <<>> /\ \A e \in q.touched : Shown(e)
    BY <1>0, <1>2, <1>3, <1>5 DEF Complete
  <2>3. QED
    BY <2>1, <2>2, <1>3 DEF Complete
<1>6. Complete(q)
  BY <1>5 DEF Complete
<1>7. QED
  BY <1>1, <1>3, <1>4, <1>6, ProceedStep DEF Query

LEMMA AnchorStep ==
  ASSUME ComponentsInv, NEW i \in Ingesters, Anchor(i)
  PROVE  ComponentsInv'
<1> DEFINE p == pass[i]
<1>0. p \in Pass /\ Identified(p) /\ CountsAgree(p) /\ Complete(p) /\ (certain => RightPass(p))
  BY PassFacts
<1>1. PICK q : q = [p EXCEPT !.at = "nodes"]
  OBVIOUS
<1>2. p.at = "anchor" /\ p.path \in Paths
  BY <1>0 DEF Anchor, At, Identified, Writing
<1>3. /\ q \in Pass /\ q.at = "nodes" /\ q.todo = p.todo /\ q.path = p.path /\ q.name = p.name
      /\ q.jobs = p.jobs /\ q.touched = p.touched /\ q.put = p.put /\ q.missed = p.missed
      /\ q.added = p.added /\ q.by_uuid = p.by_uuid /\ q.quiet = p.quiet /\ q.errors = p.errors
      /\ q.ask = p.ask
  BY <1>0, <1>1 DEF Pass
<1>4. Identified(q) /\ CountsAgree(q) /\ (certain => RightPass(q))
  BY <1>0, <1>2, <1>3 DEF Identified, Writing, CountsAgree, RightPass
<1>5. Complete(q)
  BY <1>0, <1>2, <1>3 DEF Complete, Listed
<1>6. GraphTypeOK' /\ Grows /\ edges' = edges
  BY <1>2, PassFacts, NodesOf, PutNodeGrows DEF Anchor
<1>7. Handover(i, q) /\ certain' = certain
  BY <1>1, <1>6, PassFacts DEF Handover, Anchor, Become
<1>8. Complete(q)'
  BY <1>3, <1>4, <1>5, <1>6, CompleteKept
<1>9. QED
  BY <1>3, <1>4, <1>6, <1>7, <1>8, PassStep DEF ComponentsInv, NamesRight

LEMMA SkipComponentStep ==
  ASSUME ComponentsInv, NEW i \in Ingesters, SkipComponent(i)
  PROVE  ComponentsInv'
<1> DEFINE p == pass[i]
<1>0. p \in Pass /\ Identified(p) /\ CountsAgree(p) /\ (certain => RightPass(p))
  BY PassFacts
<1>1. PICK q : q = [Rest(i) EXCEPT !.errors = TRUE]
  OBVIOUS
<1>2. p.at = "nodes" /\ p.todo # <<>> /\ Tail(p.todo) \in Seq(Uuids \cup {NoUuid})
  BY <1>0, HeadTailProperties DEF SkipComponent, At, Pass
<1>3. /\ q \in Pass /\ q.at = "nodes" /\ q.path = p.path /\ q.name = p.name
      /\ q.jobs = p.jobs /\ q.touched = p.touched /\ q.put = p.put /\ q.missed = p.missed
      /\ q.added = p.added /\ q.errors = TRUE
  BY <1>0, <1>1, <1>2 DEF Pass, Rest
<1>4. Identified(q) /\ CountsAgree(q) /\ (certain => RightPass(q)) /\ Complete(q)
  BY <1>0, <1>2, <1>3 DEF Identified, Writing, CountsAgree, RightPass, Complete
<1>5. QED
  BY <1>1, <1>3, <1>4, ProceedStep DEF SkipComponent

LEMMA PassExcept ==
  ASSUME NEW p \in Pass, NEW todo \in Seq(Uuids \cup {NoUuid}), NEW by_uuid \in SUBSET Uuids,
         NEW ask \in Seq(Uuids), NEW jobs \in Seq(Edge)
  PROVE  [[p EXCEPT !.todo = todo] EXCEPT !.by_uuid = by_uuid, !.ask = ask, !.jobs = jobs] \in Pass
  BY DEF Pass

LEMMA NodeStepStep ==
  ASSUME ComponentsInv, NEW i \in Ingesters, NodeStep(i)
  PROVE  ComponentsInv'
<1>0. PICK p \in Pass : /\ p = pass[i] /\ Identified(p) /\ CountsAgree(p) /\ Complete(p)
                       /\ (certain => RightPass(p))
  BY PassFacts
<1>a. PICK u : u = Current(i)
  OBVIOUS
<1> DEFINE e == <<System(p.path), Component(p.name, u), "has_component">>
<1>1. PICK q : q = [Rest(i) EXCEPT !.by_uuid = @ \cup {u},
                      !.ask = IF u \in p.by_uuid THEN @ ELSE Append(@, u), !.jobs = <<e>>]
  OBVIOUS
<1>2. /\ p.at = "nodes" /\ p.path \in Paths /\ p.name \in Names /\ p.jobs = <<>> /\ p.todo # <<>>
      /\ u # NoUuid
  BY <1>0, <1>a DEF NodeStep, At, Identified, Writing
<1>3. p.todo \in Seq(Uuids \cup {NoUuid}) /\ p.ask \in Seq(Uuids) /\ p.by_uuid \subseteq Uuids
  BY <1>0 DEF Pass
<1>4. u = Head(p.todo) /\ u \in Uuids /\ Tail(p.todo) \in Seq(Uuids \cup {NoUuid})
  BY <1>0, <1>a, <1>2, <1>3, HeadTailProperties DEF Current
<1>5. Append(p.ask, u) \in Seq(Uuids) /\ e \in Edge /\ e = HasEdge(p, u)
      /\ Component(p.name, u) \in NodeIds
  BY <1>0, <1>2, <1>3, <1>4, AppendProperties, EdgesOf, NodesOf DEF HasEdge
<1>6. /\ q.at = "nodes" /\ q.todo = Tail(p.todo) /\ q.path = p.path /\ q.name = p.name
      /\ q.jobs = <<e>> /\ q.touched = p.touched /\ q.put = p.put /\ q.missed = p.missed
      /\ q.added = p.added /\ q.by_uuid = p.by_uuid \cup {u} /\ q.quiet = p.quiet
      /\ q.errors = p.errors /\ q.ask = (IF u \in p.by_uuid THEN p.ask ELSE Append(p.ask, u))
  BY <1>0, <1>1, <1>2 DEF Pass, Rest
<1>7. q \in Pass
  <2>1. <<e>> \in Seq(Edge) /\ p.by_uuid \cup {u} \subseteq Uuids
        /\ (IF u \in p.by_uuid THEN p.ask ELSE Append(p.ask, u)) \in Seq(Uuids)
    BY <1>3, <1>4, <1>5
  <2>2. Rest(i) = [p EXCEPT !.todo = Tail(p.todo)]
        /\ Rest(i).by_uuid = p.by_uuid /\ Rest(i).ask = p.ask
    BY <1>0 DEF Rest, Pass
  <2>3. q = [[p EXCEPT !.todo = Tail(p.todo)] EXCEPT !.by_uuid = p.by_uuid \cup {u},
               !.ask = IF u \in p.by_uuid THEN p.ask ELSE Append(p.ask, u), !.jobs = <<e>>]
    BY <1>1, <2>2
  <2>4. QED
    BY <1>4, <2>1, <2>3, PassExcept
<1>8. Identified(q) /\ CountsAgree(q)
  BY <1>0, <1>2, <1>6 DEF Identified, Writing, CountsAgree
<1>9. GraphTypeOK' /\ Grows /\ edges' = edges /\ Alive(Component(p.name, u))'
  <2>1. GraphTypeOK /\ PutNode(Component(p.name, u))
    BY <1>0, <1>a, PassFacts DEF NodeStep
  <2>2. QED
    BY <1>5, <2>1, PutNodeGrows
<1>10. certain => RightPass(q)
  <2>1. SUFFICES ASSUME certain PROVE RightPass(q)
    OBVIOUS
  <2>2. RightName(p.path, p.name)
    BY <1>0, <1>2, <2>1 DEF RightPass, Writing
  <2>3. RightEdge(e)
    BY <2>2 DEF RightEdge, Source, System, Component
  <2>4. Len(q.jobs) = 1 /\ q.jobs[1] = e
    BY <1>6
  <2>5. QED
    BY <1>6, <2>2, <2>3, <2>4 DEF RightPass
<1>11. Complete(q)'
  <2>1. SUFFICES ASSUME q.quiet, ~q.errors PROVE Complete(q)'
    BY DEF Complete
  <2>2. Complete(p)'
    BY <1>0, <1>9, CompleteKept
  <2>3. ASSUME NEW x \in Listed(q) PROVE x \in q.by_uuid \/ InSeq(x, q.todo)
    <3>1. x \in p.by_uuid \/ InSeq(x, p.todo)
      BY <1>0, <1>2, <1>6, <2>1, <2>3 DEF Complete, Listed
    <3>2. QED
      BY <1>2, <1>3, <1>4, <1>6, <3>1, InTail
  <2>4. ASSUME NEW x \in q.by_uuid PROVE InSeq(x, q.ask)
    <3>1. \A y \in p.by_uuid : InSeq(y, p.ask)
      BY <1>0, <1>2, <1>6, <2>1 DEF Complete
    <3>2. QED
      BY <1>3, <1>4, <1>6, <2>4, <3>1, InAppend
  <2>5. ASSUME NEW x \in q.by_uuid PROVE Alive(Component(q.name, x))' /\ Held(q, HasEdge(q, x))'
    <3>1. CASE x = u
      <4>1. InSeq(e, q.jobs)
        BY <1>6 DEF InSeq
      <4>2. QED
        BY <1>5, <1>6, <1>9, <3>1, <4>1 DEF Held, HasEdge
    <3>2. CASE x \in p.by_uuid
      <4>1. Alive(Component(p.name, x))' /\ Shown(HasEdge(p, x))'
        BY <1>2, <1>6, <2>1, <2>2, <3>2 DEF Complete, Held, InSeq
      <4>2. HasEdge(q, x) = HasEdge(p, x)
        BY <1>6 DEF HasEdge
      <4>3. QED
        BY <1>6, <4>1, <4>2 DEF Held
    <3>3. QED
      BY <1>6, <2>5, <3>1, <3>2
  <2>6. \A x \in q.touched : Shown(x)'
    BY <1>6, <2>1, <2>2 DEF Complete
  <2>7. QED
    BY <1>6, <2>3, <2>4, <2>5, <2>6 DEF Complete
<1>12. Handover(i, q) /\ certain' = certain
  BY <1>0, <1>a, <1>1, <1>9, PassFacts DEF Handover, NodeStep, Become
<1>13. QED
  BY <1>7, <1>8, <1>9, <1>10, <1>11, <1>12, PassStep DEF ComponentsInv, NamesRight

LEMMA EdgeStepStep ==
  ASSUME ComponentsInv, NEW i \in Ingesters, EdgeStep(i)
  PROVE  ComponentsInv'
<1>0. PICK p \in Pass : /\ p = pass[i] /\ Identified(p) /\ CountsAgree(p) /\ Complete(p)
                       /\ (certain => RightPass(p))
  BY PassFacts
<1>1. PICK e : e = Head(p.jobs)
  OBVIOUS
<1>2. PICK counted : counted = [p EXCEPT !.jobs = Tail(@), !.touched = @ \cup {e},
                                         !.added = IF Counted(p, e) THEN @ + 1 ELSE @]
  OBVIOUS
<1>3. p.at \in {"nodes", "relations"} /\ p.jobs # <<>> /\ p.jobs \in Seq(Edge)
  BY <1>0 DEF EdgeStep, Pass
<1>4. e \in Edge /\ Tail(p.jobs) \in Seq(Edge) /\ InSeq(e, p.jobs)
  <2>1. 1 \in 1..Len(p.jobs) /\ p.jobs[1] = e
    BY <1>1, <1>3
  <2>2. QED
    BY <1>1, <1>3, <2>1, HeadTailProperties DEF InSeq
<1>5. p.added \in Nat /\ p.touched \subseteq Edge /\ p.put \subseteq Edge /\ p.missed \subseteq Edge
      /\ p.errors \in BOOLEAN
  BY <1>0 DEF Pass
<1>6. /\ counted \in Pass /\ counted.at = p.at /\ counted.todo = p.todo /\ counted.path = p.path
      /\ counted.name = p.name /\ counted.jobs = Tail(p.jobs) /\ counted.touched = p.touched \cup {e}
      /\ counted.put = p.put /\ counted.missed = p.missed
      /\ counted.added = (IF Counted(p, e) THEN p.added + 1 ELSE p.added)
      /\ counted.by_uuid = p.by_uuid /\ counted.quiet = p.quiet /\ counted.errors = p.errors
      /\ counted.ask = p.ask /\ counted.deep = p.deep /\ counted.refused = p.refused
  <2>1. PICK n \in Nat : n = IF Counted(p, e) THEN p.added + 1 ELSE p.added
    BY <1>5
  <2>2. PICK rest \in Seq(Edge), all \in SUBSET Edge :
          rest = Tail(p.jobs) /\ all = p.touched \cup {e}
    BY <1>4, <1>5
  <2>3. counted = [p EXCEPT !.jobs = rest, !.touched = all, !.added = n]
    BY <1>2, <2>1, <2>2
  <2>4. QED
    BY <2>1, <2>2, <2>3 DEF Pass
<1>7. counted.added = Cardinality(counted.touched) /\ IsFiniteSet(counted.touched)
  <2>1. IsFiniteSet(p.touched) /\ p.added = Cardinality(p.touched)
    BY <1>0 DEF CountsAgree
  <2>2. Counted(p, e) <=> e \notin p.touched
    BY DEF Counted
  <2>3. /\ counted.touched = p.touched \cup {e}
        /\ counted.added = IF Counted(p, e) THEN p.added + 1 ELSE p.added
    BY <1>6
  <2>4. QED
    BY <2>1, <2>2, <2>3, FS_AddElement
<1>8. RightPass(p) => RightPass(counted)
  <2>1. \A k \in 1..Len(counted.jobs) : k + 1 \in 1..Len(p.jobs) /\ counted.jobs[k] = p.jobs[k + 1]
    BY <1>3, <1>6, AllOfTail
  <2>2. QED
    BY <1>6, <2>1 DEF RightPass, Writing
<1>9. UNCHANGED <<registry, events, certain>> /\ GraphTypeOK /\ certain \in BOOLEAN
  BY PassFacts DEF EdgeStep
<1>10. CASE EndsAlive(e)
  <2>1. PICK q : q = [counted EXCEPT !.put = @ \cup {e}]
    OBVIOUS
  <2>2. PutEdge(e) /\ Become(i, q)
    BY <1>0, <1>1, <1>2, <1>10, <2>1 DEF EdgeStep
  <2>3. /\ q \in Pass /\ q.at = p.at /\ q.todo = p.todo /\ q.path = p.path
        /\ q.name = p.name /\ q.jobs = Tail(p.jobs) /\ q.touched = p.touched \cup {e}
        /\ q.put = p.put \cup {e} /\ q.missed = p.missed /\ q.added = counted.added
        /\ q.by_uuid = p.by_uuid /\ q.quiet = p.quiet /\ q.errors = p.errors
        /\ q.ask = p.ask /\ q.deep = p.deep /\ q.refused = p.refused
    BY <1>4, <1>5, <1>6, <2>1 DEF Pass
  <2>4. Identified(q) /\ CountsAgree(q)
    BY <1>0, <1>6, <1>7, <2>3 DEF Identified, Writing, CountsAgree
  <2>5. RightPass(p) => RightPass(q)
    BY <1>6, <1>8, <2>3 DEF RightPass, Writing
  <2>6. GraphTypeOK' /\ Grows /\ Shown(e)' /\ edges' = edges \cup {e}
    BY <1>4, <1>9, <2>2, PutEdgeGrows
  <2>7. RightPass(p) => RightEdge(e)
    BY <1>4 DEF RightPass, InSeq
  <2>8. Complete(q)'
    <3>1. SUFFICES ASSUME q.quiet, ~q.errors PROVE Complete(q)'
      BY DEF Complete
    <3>2. Complete(p)'
      BY <1>0, <2>6, CompleteKept
    <3>3. ASSUME NEW f, Held(p, f)' PROVE Held(q, f)'
      BY <1>1, <1>3, <2>3, <2>6, <3>3, InTail DEF Held
    <3>4. \A u : HasEdge(q, u) = HasEdge(p, u)
      BY <2>3 DEF HasEdge
    <3>5. \A u \in p.by_uuid : Related(p, u)' => Related(q, u)'
      BY <2>3, <3>3 DEF Related, Pair
    <3>6. QED
      BY <1>3, <2>3, <2>6, <3>1, <3>2, <3>3, <3>4, <3>5 DEF Complete, Listed
  <2>9. Handover(i, q)
    BY <1>9, <2>2, <2>6 DEF Handover, Become
  <2>10. certain' => certain /\ RightPass(q) /\ \A f \in edges' : RightEdge(f)
    BY <1>0, <1>9, <2>5, <2>6, <2>7 DEF ComponentsInv, NamesRight
  <2>11. QED
    BY <2>3, <2>4, <2>8, <2>9, <2>10, PassStep
<1>11. CASE ~EndsAlive(e)
  <2>1. PICK q : q = [counted EXCEPT !.missed = @ \cup {e}, !.errors = TRUE]
    OBVIOUS
  <2>2. UNCHANGED graph /\ Become(i, q)
    BY <1>0, <1>1, <1>2, <1>11, <2>1 DEF EdgeStep
  <2>3. /\ q \in Pass /\ q.at = p.at /\ q.path = p.path /\ q.name = p.name
        /\ q.jobs = Tail(p.jobs) /\ q.touched = p.touched \cup {e} /\ q.put = p.put
        /\ q.missed = p.missed \cup {e} /\ q.added = counted.added /\ q.errors = TRUE
    BY <1>4, <1>5, <1>6, <2>1 DEF Pass
  <2>4. Identified(q) /\ CountsAgree(q) /\ Complete(q)
    BY <1>0, <1>3, <1>6, <1>7, <2>3 DEF Identified, Writing, CountsAgree, Complete
  <2>5. RightPass(p) => RightPass(q)
    BY <1>6, <1>8, <2>3 DEF RightPass, Writing
  <2>6. Proceed(i, q)
    BY <1>9, <2>2 DEF Proceed
  <2>7. QED
    BY <1>0, <2>3, <2>4, <2>5, <2>6, ProceedStep
<1>12. QED
  BY <1>10, <1>11

LEMMA NodesDoneStep ==
  ASSUME ComponentsInv, NEW i \in Ingesters, NodesDone(i)
  PROVE  ComponentsInv'
<1>0. PICK p \in Pass : /\ p = pass[i] /\ Identified(p) /\ CountsAgree(p) /\ Complete(p)
                       /\ (certain => RightPass(p))
  BY PassFacts
<1>1. PICK where \in {"relations", "ended"} : where = IF p.deep THEN "relations" ELSE "ended"
  OBVIOUS
<1>2. PICK q : q = [p EXCEPT !.at = where]
  OBVIOUS
<1>3. p.at = "nodes" /\ p.todo = <<>> /\ p.jobs = <<>> /\ Proceed(i, q)
  BY <1>0, <1>1, <1>2 DEF NodesDone, At
<1>4. /\ q \in Pass /\ q.at = where /\ q.path = p.path /\ q.name = p.name /\ q.jobs = p.jobs
      /\ q.touched = p.touched /\ q.put = p.put /\ q.missed = p.missed /\ q.added = p.added
      /\ q.by_uuid = p.by_uuid /\ q.quiet = p.quiet /\ q.errors = p.errors /\ q.ask = p.ask
      /\ q.deep = p.deep
  BY <1>2 DEF Pass
<1>5. Identified(q) /\ CountsAgree(q) /\ (certain => RightPass(q))
  BY <1>0, <1>3, <1>4 DEF Identified, Writing, CountsAgree, RightPass
<1>6. ASSUME q.quiet, ~q.errors PROVE Complete(q)
  <2>1. Listed(q) \subseteq q.by_uuid
    BY <1>0, <1>3, <1>4, <1>6 DEF Complete, InSeq, Listed
  <2>2. \A u \in q.by_uuid : InSeq(u, q.ask)
    BY <1>0, <1>3, <1>4, <1>6 DEF Complete
  <2>3. \A u \in q.by_uuid : Alive(Component(q.name, u)) /\ Held(q, HasEdge(q, u))
    BY <1>0, <1>4, <1>6 DEF Complete, Held, HasEdge
  <2>4. \A e \in q.touched : Shown(e)
    BY <1>0, <1>4, <1>6 DEF Complete
  <2>5. where = "ended" => ~q.deep
    BY <1>1, <1>4
  <2>6. QED
    BY <1>3, <1>4, <2>1, <2>2, <2>3, <2>4, <2>5 DEF Complete
<1>7. QED
  BY <1>3, <1>4, <1>5, <1>6, ProceedStep DEF Complete

LEMMA AskRelationsStep ==
  ASSUME ComponentsInv, NEW i \in Ingesters, NEW outcome \in Calls, AskRelations(i, outcome)
  PROVE  ComponentsInv'
<1>0. PICK p \in Pass : /\ p = pass[i] /\ Identified(p) /\ CountsAgree(p) /\ Complete(p)
                       /\ (certain => RightPass(p))
  BY PassFacts
<1>1. PICK u : u = Head(p.ask)
  OBVIOUS
<1>2. PICK jobs : jobs = IF outcome = "answered" THEN SetToSeq(ParentOf(p, u) \ p.touched) ELSE <<>>
  OBVIOUS
<1>3. PICK q : q = CASE outcome = "answered" -> [[p EXCEPT !.ask = Tail(@)] EXCEPT !.jobs = jobs]
                     [] outcome = "refused"  -> [[p EXCEPT !.ask = Tail(@)] EXCEPT !.refused = TRUE]
                     [] outcome = "raised"   -> [[p EXCEPT !.ask = Tail(@)] EXCEPT !.errors = TRUE]
  OBVIOUS
<1>4. /\ p.at = "relations" /\ p.jobs = <<>> /\ p.ask # <<>> /\ p.ask \in Seq(Uuids)
      /\ p.path \in Paths /\ p.name \in Names /\ p.refused \in BOOLEAN /\ p.errors \in BOOLEAN
  BY <1>0 DEF AskRelations, At, Identified, Writing, Pass
<1>5. u \in Uuids /\ Tail(p.ask) \in Seq(Uuids) /\ \A x : InSeq(x, p.ask) => x = u \/ InSeq(x, Tail(p.ask))
  BY <1>1, <1>4, HeadTailProperties, InTail
<1>6. ParentOf(p, u) \subseteq Edge /\ IsFiniteSet(ParentOf(p, u) \ p.touched)
  <2>1. ParentOf(p, u) \subseteq Edge
    BY <1>0, <1>4, <1>5, EdgesOf DEF ParentOf
  <2>2. IsFiniteSet(Uuids \X Uuids)
    BY ComponentsAssumption, FS_Product
  <2>3. Told[u] \subseteq Uuids \X Uuids
    BY <1>5, ComponentsAssumption
  <2>4. IsFiniteSet({r \in Told[u] : {r[1], r[2]} \subseteq p.by_uuid})
    BY <2>2, <2>3, FS_Subset
  <2>5. IsFiniteSet(ParentOf(p, u))
    <3> DEFINE R == {r \in Told[u] : {r[1], r[2]} \subseteq p.by_uuid}
               f == [r \in R |-> Pair(p, r)]
    <3>1. f \in Surjection(R, ParentOf(p, u))
      BY DEF Surjection, ParentOf
    <3>2. QED
      BY <2>4, <3>1, FS_Surjection
  <2>6. QED
    BY <2>1, <2>5, FS_Subset
<1>7. /\ jobs \in Seq(Edge)
      /\ outcome = "answered" => \A e \in ParentOf(p, u) \ p.touched : InSeq(e, jobs)
      /\ \A k \in 1..Len(jobs) : jobs[k] \in ParentOf(p, u)
  <2> DEFINE new == ParentOf(p, u) \ p.touched
  <2>1. CASE outcome = "answered"
    <3>1. jobs \in Seq(new) /\ \A e \in new : InSeq(e, jobs)
      BY <1>2, <1>6, <2>1, SetToSeqCovers
    <3>2. new \subseteq Edge
      BY <1>6
    <3>3. jobs \in Seq(Edge) /\ \A k \in 1..Len(jobs) : jobs[k] \in new
      BY <3>1, <3>2, SeqMonotonic, ElementOfSeq
    <3>4. QED
      BY <3>1, <3>3
  <2>2. CASE outcome # "answered"
    BY <1>2, <2>2
  <2>3. QED
    BY <2>1, <2>2
<1>8. Proceed(i, q)
  <2>1. CASE outcome = "answered"
    BY <1>0, <1>1, <1>2, <1>3, <2>1 DEF AskRelations
  <2>2. CASE outcome = "refused"
    BY <1>0, <1>1, <1>2, <1>3, <2>2 DEF AskRelations
  <2>3. CASE outcome = "raised"
    BY <1>0, <1>1, <1>2, <1>3, <2>3 DEF AskRelations
  <2>4. QED
    BY <2>1, <2>2, <2>3 DEF Calls
<1>9. /\ q \in Pass /\ q.at = "relations" /\ q.path = p.path /\ q.name = p.name /\ q.jobs = jobs
      /\ q.touched = p.touched /\ q.put = p.put /\ q.missed = p.missed /\ q.added = p.added
      /\ q.by_uuid = p.by_uuid /\ q.quiet = p.quiet /\ q.ask = Tail(p.ask)
      /\ q.deep = p.deep /\ q.refused = (p.refused \/ outcome = "refused")
      /\ q.errors = (p.errors \/ outcome = "raised")
  <2>1. CASE outcome = "answered"
    BY <1>3, <1>4, <1>5, <1>7, <2>1 DEF Pass
  <2>2. CASE outcome = "refused"
    BY <1>2, <1>3, <1>4, <1>5, <2>2 DEF Pass
  <2>3. CASE outcome = "raised"
    BY <1>2, <1>3, <1>4, <1>5, <2>3 DEF Pass
  <2>4. QED
    BY <2>1, <2>2, <2>3 DEF Calls
<1>10. Identified(q) /\ CountsAgree(q)
  BY <1>0, <1>4, <1>9 DEF Identified, Writing, CountsAgree
<1>11. RightPass(p) => RightPass(q)
  <2>1. \A e \in ParentOf(p, u) : RightEdge(e)
    BY DEF ParentOf, Pair, RightEdge, Relation
  <2>2. QED
    BY <1>4, <1>7, <1>9, <2>1 DEF RightPass, Writing
<1>12. ASSUME q.quiet, ~q.errors PROVE Complete(q)
  <2>1. ~p.errors /\ outcome # "raised" /\ p.quiet
    BY <1>9, <1>12
  <2>2. ASSUME NEW e, Held(p, e) PROVE Held(q, e)
    BY <1>4, <2>2 DEF Held, InSeq
  <2>3. ASSUME NEW x \in p.by_uuid, p.deep, ~q.refused PROVE InSeq(x, q.ask) \/ Related(q, x)
    <3>1. InSeq(x, p.ask) \/ Related(p, x)
      BY <1>0, <1>4, <1>9, <2>1, <2>3 DEF Complete
    <3>2. ASSUME Related(p, x) PROVE Related(q, x)
      BY <1>9, <2>2, <3>2 DEF Related, Pair
    <3>3. ASSUME x = u PROVE Related(q, x)
      <4>1. outcome = "answered"
        BY <1>9, <2>1, <2>3 DEF Calls
      <4>2. ASSUME NEW r \in Told[u], {r[1], r[2]} \subseteq p.by_uuid PROVE Held(q, Pair(p, r))
        <5>1. Pair(p, r) \in ParentOf(p, u)
          BY <4>2 DEF ParentOf
        <5>2. CASE Pair(p, r) \in p.touched
          BY <1>0, <2>1, <5>2 DEF Complete, Held
        <5>3. CASE Pair(p, r) \notin p.touched
          BY <1>7, <1>9, <4>1, <5>1, <5>3 DEF Held
        <5>4. QED
          BY <5>2, <5>3
      <4>3. QED
        BY <1>9, <3>3, <4>2 DEF Related, Pair
    <3>4. QED
      BY <1>5, <1>9, <3>1, <3>2, <3>3
  <2>4. \A x \in q.by_uuid : Alive(Component(q.name, x)) /\ Held(q, HasEdge(q, x))
    BY <1>0, <1>9, <2>1, <2>2 DEF Complete, HasEdge
  <2>5. Listed(q) \subseteq q.by_uuid /\ \A e \in q.touched : Shown(e)
    BY <1>0, <1>4, <1>9, <2>1 DEF Complete, Listed
  <2>6. QED
    BY <1>9, <2>3, <2>4, <2>5 DEF Complete
<1>13. QED
  BY <1>0, <1>8, <1>9, <1>10, <1>11, <1>12, ProceedStep DEF Complete

LEMMA RelationsDoneStep ==
  ASSUME ComponentsInv, NEW i \in Ingesters, RelationsDone(i)
  PROVE  ComponentsInv'
<1>0. PICK p \in Pass : /\ p = pass[i] /\ Identified(p) /\ CountsAgree(p) /\ Complete(p)
                       /\ (certain => RightPass(p))
  BY PassFacts
<1>1. PICK q : q = [p EXCEPT !.at = "ended"]
  OBVIOUS
<1>2. p.at = "relations" /\ p.ask = <<>> /\ p.jobs = <<>> /\ Proceed(i, q)
  BY <1>0, <1>1 DEF RelationsDone, At
<1>3. /\ q \in Pass /\ q.at = "ended" /\ q.path = p.path /\ q.name = p.name /\ q.jobs = p.jobs
      /\ q.touched = p.touched /\ q.put = p.put /\ q.missed = p.missed /\ q.added = p.added
      /\ q.by_uuid = p.by_uuid /\ q.quiet = p.quiet /\ q.errors = p.errors /\ q.ask = p.ask
      /\ q.deep = p.deep /\ q.refused = p.refused
  BY <1>1 DEF Pass
<1>4. Identified(q) /\ CountsAgree(q) /\ (certain => RightPass(q))
  BY <1>0, <1>2, <1>3 DEF Identified, Writing, CountsAgree, RightPass
<1>5. Complete(q)
  BY <1>0, <1>2, <1>3 DEF Complete, Held, HasEdge, Related, Pair, Listed
<1>6. QED
  BY <1>2, <1>3, <1>4, <1>5, ProceedStep

-----------------------------------------------------------------------------
(* What others do.                                                          *)

LEMMA DeletedStep ==
  ASSUME ComponentsInv, NEW n \in NodeIds, NEW soft \in BOOLEAN, Deleted(n, soft)
  PROVE  ComponentsInv'
<1>1. GraphTypeOK' /\ edges' \subseteq edges
  BY DEF ComponentsInv, ComponentsTypeOK, GraphTypeOK, Deleted, StampNode, DropNode
<1>2. registry' = registry /\ certain' = certain /\ events' \in 0..MaxEvents
  BY ComponentsAssumption DEF ComponentsInv, ComponentsTypeOK, Deleted
<1>3. ASSUME NEW j \in Ingesters
      PROVE  \E p \in Pass, q \in Pass :
               /\ p = pass[j] /\ q = pass'[j] /\ q.quiet = FALSE /\ q.at = p.at /\ q.path = p.path
               /\ q.name = p.name /\ q.jobs = p.jobs /\ q.touched = p.touched /\ q.put = p.put
               /\ q.missed = p.missed /\ q.added = p.added
  <2>1. pass[j] \in Pass /\ pass'[j] = [pass[j] EXCEPT !.quiet = FALSE]
    BY <1>3 DEF ComponentsInv, ComponentsTypeOK, Deleted
  <2>2. PICK p \in Pass : p = pass[j]
    BY <2>1
  <2> DEFINE q == [p EXCEPT !.quiet = FALSE]
  <2>3. /\ q \in Pass /\ q.quiet = FALSE /\ q.at = p.at /\ q.path = p.path
        /\ q.name = p.name /\ q.jobs = p.jobs /\ q.touched = p.touched /\ q.put = p.put
        /\ q.missed = p.missed /\ q.added = p.added
    BY DEF Pass
  <2>4. QED
    BY <2>1, <2>2, <2>3
<1>4. pass' \in [Ingesters -> Pass]
  <2>1. pass' = [j \in Ingesters |-> pass'[j]]
    BY DEF Deleted
  <2>2. QED
    BY <1>3, <2>1
<1>5. ComponentsTypeOK'
  BY <1>1, <1>2, <1>4 DEF ComponentsInv, ComponentsTypeOK, registry
<1>6. ASSUME NEW j \in Ingesters
      PROVE  (Identified(pass[j]) /\ CountsAgree(pass[j]) /\ Complete(pass[j]))'
             /\ (RightPass(pass[j]) => RightPass(pass[j])')
  <2>1. PICK p \in Pass, q \in Pass :
               /\ p = pass[j] /\ q = pass'[j] /\ q.quiet = FALSE /\ q.at = p.at /\ q.path = p.path
               /\ q.name = p.name /\ q.jobs = p.jobs /\ q.touched = p.touched /\ q.put = p.put
               /\ q.missed = p.missed /\ q.added = p.added
    BY <1>3, <1>6
  <2>2. Identified(p) /\ CountsAgree(p)
    BY <1>6, <2>1 DEF ComponentsInv
  <2>3. Identified(q) /\ CountsAgree(q)
    BY <2>1, <2>2 DEF Identified, Writing, CountsAgree
  <2>4. RightPass(p) => RightPass(q)
    BY <2>1 DEF RightPass, Writing
  <2>5. RightPass(q) => RightPass(q)'
    BY <1>2, SameNames DEF RightPass
  <2>6. QED
    BY <2>1, <2>3, <2>4, <2>5 DEF Identified, Writing, CountsAgree, Complete
<1>7. NamesRight'
  BY <1>1, <1>2, <1>6, SameNames DEF ComponentsInv, NamesRight
<1>8. QED
  BY <1>5, <1>6, <1>7 DEF ComponentsInv

LEMMA RegisteredStep ==
  ASSUME ComponentsInv, NEW m \in ModelIds, NEW p \in Paths \cup {NoPath}, NEW relatively \in BOOLEAN,
         Registered(m, p, relatively)
  PROVE  ComponentsInv'
<1>1. ComponentsTypeOK'
  <2>1. ComponentsTypeOK /\ UNCHANGED <<nodes, edges, hidden, pass>> /\ certain' = FALSE
    BY DEF ComponentsInv, Registered, graph
  <2>2. stored' \in [ModelIds -> Paths \cup {NoPath}] /\ relative' \subseteq ModelIds
    BY <2>1 DEF ComponentsTypeOK, Registered
  <2>3. events' \in 0..MaxEvents
    BY <2>1, ComponentsAssumption DEF ComponentsTypeOK, Registered
  <2>4. QED
    BY <2>1, <2>2, <2>3 DEF ComponentsTypeOK, GraphTypeOK
<1>2. NamesRight'
  BY DEF NamesRight, Registered
<1>3. GraphTypeOK /\ UNCHANGED graph /\ pass' = pass
  BY DEF ComponentsInv, ComponentsTypeOK, Registered
<1>4. Grows
  BY <1>3, SameGrows
<1>5. ASSUME NEW j \in Ingesters
      PROVE  (Identified(pass[j]) /\ CountsAgree(pass[j]) /\ Complete(pass[j]))'
  <2>1. PICK q \in Pass : q = pass[j] /\ Identified(q) /\ CountsAgree(q) /\ Complete(q)
    BY <1>5, PassFacts
  <2>2. Complete(q)'
    BY <1>4, <2>1, CompleteKept
  <2>3. QED
    BY <1>3, <2>1, <2>2 DEF Identified, Writing, CountsAgree
<1>6. QED
  BY <1>1, <1>2, <1>5 DEF ComponentsInv

-----------------------------------------------------------------------------
LEMMA ComponentsInitInv == ComponentsInit => ComponentsInv
<1> SUFFICES ASSUME ComponentsInit PROVE ComponentsInv
  OBVIOUS
<1>1. ComponentsTypeOK
  BY NoPassType, ComponentsAssumption DEF ComponentsInit, ComponentsTypeOK, GraphInit, GraphTypeOK
<1>2. edges = {} /\ \A i \in Ingesters : pass[i] = NoPass
  BY DEF ComponentsInit, GraphInit
<1>3. ~Writing(NoPass)
  BY DEF Writing, NoPass
<1>4. Identified(NoPass) /\ CountsAgree(NoPass) /\ Complete(NoPass) /\ RightPass(NoPass)
  BY <1>3, NoPassType, FS_EmptySet DEF Identified, CountsAgree, Complete, RightPass
<1>5. QED
  BY <1>1, <1>2, <1>4 DEF ComponentsInv, NamesRight

LEMMA ComponentsNextInv == ComponentsInv /\ [ComponentsNext]_components => ComponentsInv'
<1> SUFFICES ASSUME ComponentsInv, [ComponentsNext]_components PROVE ComponentsInv'
  OBVIOUS
<1>1. CASE UNCHANGED components
  <2>1. UNCHANGED <<nodes, edges, hidden, stored, relative, pass, events, certain>>
    BY <1>1 DEF components, graph, registry
  <2>2. ComponentsTypeOK'
    BY <2>1 DEF ComponentsInv, ComponentsTypeOK, GraphTypeOK
  <2>3. NamesRight'
    <3>1. registry' = registry
      BY <2>1 DEF registry
    <3>2. \A j \in Ingesters : RightPass(pass[j]) => RightPass(pass[j])'
      BY <2>1, <3>1, SameNames DEF RightPass, Writing
    <3>3. QED
      BY <2>1, <3>1, <3>2, SameNames DEF ComponentsInv, NamesRight
  <2>4. \A j \in Ingesters : (Identified(pass[j]) /\ CountsAgree(pass[j]) /\ Complete(pass[j]))'
    BY <2>1 DEF ComponentsInv, Identified, Writing, CountsAgree, Complete, Held, Related, Shown, Alive
  <2>5. QED
    BY <2>2, <2>3, <2>4 DEF ComponentsInv
<1>2. ASSUME NEW i \in Ingesters,
             \/ \E m \in ModelIds, deep \in BOOLEAN : BeginModel(i, m, deep)
             \/ \E p \in Paths, deep \in BOOLEAN : BeginPath(i, p, deep)
      PROVE  ComponentsInv'
  BY <1>2, BeginModelStep, BeginPathStep
<1>3. ASSUME NEW i \in Ingesters, Query(i) \/ Anchor(i) \/ SkipComponent(i) \/ NodeStep(i)
      PROVE  ComponentsInv'
  BY <1>3, QueryStep, AnchorStep, SkipComponentStep, NodeStepStep
<1>4. ASSUME NEW i \in Ingesters,
             \/ EdgeStep(i) \/ NodesDone(i) \/ RelationsDone(i)
             \/ \E outcome \in Calls : AskRelations(i, outcome)
             \/ \E where \in {"query", "anchor", "nodes", "relations"} : Fails(i, where)
      PROVE  ComponentsInv'
  BY <1>4, EdgeStepStep, NodesDoneStep, AskRelationsStep, RelationsDoneStep, FailsStep
<1>5. CASE \E n \in NodeIds, soft \in BOOLEAN : Deleted(n, soft)
  BY <1>5, DeletedStep
<1>6. CASE \/ \E m \in ModelIds, p \in Paths, relatively \in BOOLEAN : Registered(m, p, relatively)
           \/ \E m \in ModelIds : Registered(m, NoPath, FALSE)
  BY <1>6, RegisteredStep
<1>7. QED
  BY <1>1, <1>2, <1>3, <1>4, <1>5, <1>6 DEF ComponentsNext

\* The invariant of the passes.
THEOREM ComponentsInductive == ComponentsSpec => []ComponentsInv
  BY ComponentsInitInv, ComponentsNextInv, PTL DEF ComponentsSpec

\* The graph, the registrations and the passes keep their type.
THEOREM ComponentsTypeCorrect == ComponentsSpec => []ComponentsTypeOK
<1>1. ComponentsInv => ComponentsTypeOK
  BY DEF ComponentsInv
<1>2. QED
  BY <1>1, ComponentsInductive, PTL

\* edges_added counts every edge that a pass writes or reports once.
THEOREM EdgesAreCounted == ComponentsSpec => []EdgesCounted
<1>1. ComponentsInv => EdgesCounted
  BY DEF ComponentsInv, CountsAgree, EdgesCounted
<1>2. QED
  BY <1>1, ComponentsInductive, PTL

\* A clean pass has shown every component listed and every relationship told.
THEOREM CleanPasses == ComponentsSpec => []CleanPassIsComplete
<1>1. ASSUME ComponentsInv PROVE CleanPassIsComplete
  <2>1. SUFFICES ASSUME NEW i \in Ingesters, NEW p \in Pass, p = pass[i], Ended(i), p.quiet, ~p.errors
                 PROVE  /\ \A u \in Listed(p) : Alive(Component(p.name, u)) /\ Shown(HasEdge(p, u))
                        /\ p.deep /\ ~p.refused =>
                             \A u \in Listed(p) : \A r \in Told[u] :
                               {r[1], r[2]} \subseteq Listed(p) => Shown(Pair(p, r))
    BY <1>1, PassFacts DEF CleanPassIsComplete, Listed, HasEdge
  <2>2. p.at = "ended" /\ Complete(p) /\ \A e : ~InSeq(e, <<>>)
    BY <1>1, <2>1, PassFacts DEF Ended, At, InSeq
  <2>3. Listed(p) \subseteq p.by_uuid /\ \A e : Held(p, e) => Shown(e)
    BY <2>1, <2>2 DEF Complete, Held
  <2>4. \A u \in Listed(p) : Alive(Component(p.name, u)) /\ Shown(HasEdge(p, u))
    BY <2>1, <2>2, <2>3 DEF Complete
  <2>5. p.deep /\ ~p.refused => \A u \in p.by_uuid : Related(p, u)
    BY <2>1, <2>2 DEF Complete
  <2>6. QED
    BY <2>3, <2>4, <2>5 DEF Related
<1>2. QED
  BY <1>1, ComponentsInductive, PTL

\* The components of a system have one name, as long as the registry is
\* certain and has the system in full under one model at most.
THEOREM OneName == ComponentsSpec => []OneNamePerSystem
<1>1. ASSUME ComponentsInv PROVE OneNamePerSystem
  <2> DEFINE named(p) == {e[2][1] : e \in {e \in edges : Relation(e) = "has_component"
                                                          /\ Source(e) = System(p)}}
  <2>1. SUFFICES ASSUME certain, NEW p \in Paths, Cardinality(Stores(p)) <= 1, WellStored(p)
                 PROVE  Cardinality(named(p)) <= 1
    BY DEF OneNamePerSystem, Stores, WellStored
  <2>2. named(p) \subseteq NamesOf(p)
    BY <1>1, <2>1 DEF ComponentsInv, NamesRight, RightEdge, RightName
  <2>3. IsFiniteSet(Stores(p))
    BY ComponentsAssumption, FS_Subset DEF Stores
  <2>4. IsFiniteSet(NamesOf(p)) /\ Cardinality(NamesOf(p)) <= 1
    <3>1. CASE NamesOf(p) = {Slug[p]}
      <4>1. IsFiniteSet({Slug[p]}) /\ Cardinality({Slug[p]}) = 1
        BY FS_Singleton
      <4>2. QED
        BY <3>1, <4>1
    <3>2. CASE NamesOf(p) \subseteq Stores(p)
      <4>1. Cardinality(NamesOf(p)) <= Cardinality(Stores(p)) /\ IsFiniteSet(NamesOf(p))
        BY <2>3, <3>2, FS_Subset
      <4>2. Cardinality(NamesOf(p)) \in Nat /\ Cardinality(Stores(p)) \in Nat
        BY <2>3, <4>1, FS_CardinalityType
      <4>3. QED
        BY <2>1, <4>1, <4>2
    <3>3. QED
      BY <3>1, <3>2 DEF NamesOf, Stores
  <2>5. Cardinality(named(p)) <= Cardinality(NamesOf(p)) /\ IsFiniteSet(named(p))
    BY <2>2, <2>4, FS_Subset
  <2>6. QED
    BY <2>4, <2>5, FS_CardinalityType
<1>2. QED
  BY <1>1, ComponentsInductive, PTL
=============================================================================
