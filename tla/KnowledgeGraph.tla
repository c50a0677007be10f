---------------------------- MODULE KnowledgeGraph ----------------------------
(***************************************************************************)
(* dist_stack.kg used by several processes at once.  upsert_node reads the *)
(* metadata it merges into, and upsert_edge looks for the ends of its edge, *)
(* with a SELECT outside of the transaction that the INSERT then opens, so *)
(* each is two steps.  A delete is one.                                    *)
(*                                                                         *)
(* The metadata of a node is the set of its entries.  Its other columns    *)
(* are overwritten by each upsert and are left out.                        *)
(***************************************************************************)
EXTENDS KGTables

CONSTANTS
  Clients,   \* processes that call the library
  Entries    \* entries of metadata

VARIABLES
  metadata,   \* node -> its entries
  pc,         \* client -> "idle", or the call it is in the middle of
  call,       \* client -> what that call is about
  acked,      \* history: <<node, entry>> that calls have recorded and returned
  raced       \* history: nodes upserted by a call that had been overtaken

vars == <<graph, metadata, pc, call, acked, raced>>

\* The arguments of upsert_node and what it is going to write; of upsert_edge.
\* A call is alone until another one invalidates what it has read.
NodeCall == [node : NodeIds, given : SUBSET Entries, merged : SUBSET Entries, alone : BOOLEAN]
EdgeCall == [edge : Edge, alone : BOOLEAN]
NoCall   == [alone |-> TRUE]

TypeOK ==
  /\ GraphTypeOK
  /\ metadata \in [NodeIds -> SUBSET Entries]
  /\ \A n \in NodeIds : ~Known(n) => metadata[n] = {}
  /\ pc \in [Clients -> {"idle", "upsert_node", "upsert_edge"}]
  /\ call \in [Clients -> NodeCall \cup EdgeCall \cup {NoCall}]
  /\ \A c \in Clients : /\ pc[c] = "upsert_node" => call[c] \in NodeCall
                        /\ pc[c] = "upsert_edge" => call[c] \in EdgeCall
  /\ acked \subseteq NodeIds \X Entries
  /\ raced \subseteq NodeIds

Init ==
  /\ GraphInit
  /\ metadata = [n \in NodeIds |-> {}]
  /\ pc = [c \in Clients |-> "idle"]
  /\ call = [c \in Clients |-> NoCall]
  /\ acked = {}
  /\ raced = {}

-----------------------------------------------------------------------------
MergesInto(d, n) == pc[d] = "upsert_node" /\ n = call[d].node
Connects(d, n)   == pc[d] = "upsert_edge" /\ n \in Ends(call[d].edge)

\* Those who are overtaken are not alone any more.
Overtaken(whom) ==
  [d \in Clients |-> IF d \in whom THEN [call[d] EXCEPT !.alone = FALSE] ELSE call[d]]

Begin(c, step, args) ==
  /\ pc[c] = "idle"
  /\ pc' = [pc EXCEPT ![c] = step]
  /\ call' = [call EXCEPT ![c] = args]
  /\ UNCHANGED <<graph, metadata, acked, raced>>

End(c, calls) ==
  /\ pc' = [pc EXCEPT ![c] = "idle"]
  /\ call' = [calls EXCEPT ![c] = NoCall]

\* Faulty variant of Merged: the metadata is replaced.
Replaced(n, given) == given

\* _merge_metadata: a soft-deleted node keeps what it had.
Merged(n, given) == metadata[n] \cup given

\* upsert_node, its SELECT.
NodeRead(c, n, given) ==
  Begin(c, "upsert_node",
        [node |-> n, given |-> given, merged |-> Merged(n, given), alone |-> TRUE])

\* upsert_node, its INSERT ... ON CONFLICT.
NodeWrite(c) ==
  LET n == call[c].node IN
  /\ pc[c] = "upsert_node"
  /\ PutNode(n)
  /\ metadata' = [metadata EXCEPT ![n] = call[c].merged]
  /\ acked' = acked \cup ({n} \X call[c].given)
  /\ raced' = IF call[c].alone THEN raced ELSE raced \cup {n}
  /\ End(c, Overtaken({d \in Clients : MergesInto(d, n)}))

\* Faulty variant of EdgeRead: only the source is looked for.
EdgeReadSource(c, e) ==
  /\ Alive(Source(e))
  /\ Begin(c, "upsert_edge", [edge |-> e, alone |-> TRUE])

\* upsert_edge, its SELECT.  NodeNotFoundError changes nothing.
EdgeRead(c, e) ==
  /\ EndsAlive(e)
  /\ Begin(c, "upsert_edge", [edge |-> e, alone |-> TRUE])

\* upsert_edge, its INSERT ... ON CONFLICT: the foreign keys hold, or it raises.
EdgeWrite(c) ==
  /\ pc[c] = "upsert_edge"
  /\ IF EndsKnown(call[c].edge) THEN PutEdge(call[c].edge) ELSE UNCHANGED graph
  /\ End(c, call)
  /\ UNCHANGED <<metadata, acked, raced>>

\* delete_node
Delete(c, n, soft) ==
  /\ pc[c] = "idle"
  /\ \/ /\ soft
        /\ StampNode(n)
        /\ UNCHANGED <<metadata, acked, raced>>
     \/ /\ ~soft
        /\ DropNode(n)
        /\ metadata' = [metadata EXCEPT ![n] = {}]
        /\ acked' = {a \in acked : a[1] # n}
        /\ raced' = raced \ {n}
  /\ call' = Overtaken({d \in Clients : Connects(d, n) \/ (~soft /\ MergesInto(d, n))})
  /\ UNCHANGED pc

\* The process dies, or its database stays locked.
Abandon(c) ==
  /\ pc[c] # "idle"
  /\ End(c, call)
  /\ UNCHANGED <<graph, metadata, acked, raced>>

Next ==
  \E c \in Clients :
    \/ \E n \in NodeIds, given \in SUBSET Entries : NodeRead(c, n, given)
    \/ NodeWrite(c)
    \/ \E e \in Edge : EdgeRead(c, e)
    \/ EdgeWrite(c)
    \/ \E n \in NodeIds, soft \in BOOLEAN : Delete(c, n, soft)
    \/ Abandon(c)

Spec == Init /\ [][Next]_vars

-----------------------------------------------------------------------------
(* upsert_node merges: an entry that a call has recorded stays, through     *)
(* later upserts and soft deletes, until a hard delete; or upserts of the   *)
(* node overlapped, when the later write puts back what it had read.        *)
MergesKept == \A a \in acked : a[1] \in raced \/ a[2] \in metadata[a[1]]

(* An edge, shown or hidden, goes only when one of its ends is hard-deleted, *)
(* whatever is upserted again.                                              *)
EdgesDurable ==
  [][\A e \in edges : e \in edges' \/ \E n \in Ends(e) : ~Known(n)']_vars

(* upsert_edge takes a soft-deleted end for a missing one: an edge that it  *)
(* brings into view has undeleted ends, unless one was deleted between its  *)
(* look at them and its insert.                                             *)
EdgesToLiveNodes ==
  [][\A c \in Clients, e \in Edge :
       EdgeWrite(c) /\ call[c].alone /\ call[c].edge = e => EndsAlive(e)']_vars
=============================================================================
