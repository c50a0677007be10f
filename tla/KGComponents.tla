------------------------------ MODULE KGComponents ------------------------------
(***************************************************************************)
(* kg_server.tools.components: ingest_components asks a gdm server, which  *)
(* is spawned for each question, for the components of a system and for    *)
(* the relationships of each of them, and writes what it hears to the      *)
(* graph, one transaction at a time.  Between these, other processes edit  *)
(* the graph and the model registry.                                       *)
(*                                                                         *)
(* A system is identified with its normalised path, and a model has one    *)
(* version.  What gdm knows of a system does not change.                   *)
(***************************************************************************)
EXTENDS KGTables, Sequences, FiniteSets, SequencesExt

CONSTANTS
  Ingesters,   \* calls of the tool
  Paths,       \* systems
  ModelIds,    \* models of the registry
  Slug,        \* path -> the name made of its stem
  Uuids, NoUuid,
  Listing,     \* path -> the uuids query_components lists; NoUuid where one is missing
  Told,        \* uuid -> the pairs of parent and child that its relationships mention
  NoPath,
  MaxEvents    \* bound: what other processes do

Names == ModelIds \cup {Slug[p] : p \in Paths}

System(p)       == <<p>>
Component(m, u) == <<m, u>>

ASSUME ComponentsAssumption ==
  /\ NodeIds = {System(p) : p \in Paths} \cup (Names \X Uuids)
  /\ {"has_component", "parent_of"} \subseteq Relations
  /\ NoUuid \notin Uuids /\ NoPath \notin Paths
  /\ Listing \in [Paths -> Seq(Uuids \cup {NoUuid})]
  /\ Told \in [Uuids -> SUBSET (Uuids \X Uuids)]
  /\ \A u \in Uuids : \A r \in Told[u] : u \in {r[1], r[2]}
  /\ MaxEvents \in Nat
  /\ IsFiniteSet(Uuids) /\ IsFiniteSet(ModelIds)

VARIABLES
  stored,     \* model -> where its record says it is, or NoPath
  relative,   \* models whose record says so relative to the registry's directory
  pass,       \* ingester -> its pass
  events,     \* what other processes have done
  certain     \* history: the registrations have not changed, and no look into the
              \* registry for a path has failed

registry == <<stored, relative>>
components == <<graph, registry, pass, events, certain>>

NoPass == [at |-> "idle", path |-> NoPath, name |-> NoPath, deep |-> FALSE,
           todo |-> <<>>, by_uuid |-> {}, ask |-> <<>>, jobs |-> <<>>,
           touched |-> {}, added |-> 0, put |-> {}, missed |-> {}, errors |-> FALSE,
           refused |-> FALSE, quiet |-> FALSE]

Pass ==
  [at : {"idle", "query", "anchor", "nodes", "relations", "ended", "failed"},
   path : Paths \cup {NoPath}, name : Names \cup {NoPath}, deep : BOOLEAN,
   todo : Seq(Uuids \cup {NoUuid}), by_uuid : SUBSET Uuids, ask : Seq(Uuids),
   jobs : Seq(Edge), touched : SUBSET Edge, added : Nat, put : SUBSET Edge,
   missed : SUBSET Edge, errors : BOOLEAN, refused : BOOLEAN, quiet : BOOLEAN]

ComponentsTypeOK ==
  /\ GraphTypeOK
  /\ stored \in [ModelIds -> Paths \cup {NoPath}]
  /\ relative \subseteq ModelIds
  /\ pass \in [Ingesters -> Pass]
  /\ events \in 0..MaxEvents
  /\ certain \in BOOLEAN

ComponentsInit ==
  /\ GraphInit
  /\ stored \in [ModelIds -> Paths \cup {NoPath}]
  /\ relative \in SUBSET {m \in ModelIds : stored[m] # NoPath}
  /\ pass = [i \in Ingesters |-> NoPass]
  /\ events = 0 /\ certain = TRUE

At(i, where) == pass[i].at = where
Become(i, new) == pass' = [pass EXCEPT ![i] = new]

\* A step that leaves the graph alone.
Proceed(i, new) == Become(i, new) /\ UNCHANGED <<graph, registry, events, certain>>

\* An exception leaves the pass: ValueError and GdmClientError become an error
\* payload, what the database raises does not.
Fails(i, where) == At(i, where) /\ Proceed(i, [NoPass EXCEPT !.at = "failed"])

-----------------------------------------------------------------------------
(* The names.                                                               *)

Starts(i, path, name, deep) ==
  Become(i, [NoPass EXCEPT !.at = "query", !.path = path, !.name = name, !.deep = deep,
                           !.quiet = TRUE])

\* What lookup makes of the path of a record, wherever that is.
lookup(m) == stored[m]

\* By model id: the registry is asked for it, and is the authority.
BeginModel(i, m, deep) ==
  /\ pass[i].at \in {"idle", "ended", "failed"} /\ lookup(m) # NoPath
  /\ Starts(i, lookup(m), m, deep)
  /\ UNCHANGED <<graph, registry, events, certain>>

\* Faulty variant of NamesOf: the registry is not looked through.
NamesOfStem(p) == {Slug[p]}

\* _resolve_model_id_for_path: a record stored at the path, else the slug.  It
\* takes a relative path for one below its own directory.
NamesOf(p) ==
  LET records == {m \in ModelIds \ relative : stored[m] = p} IN
  IF records = {} THEN {Slug[p]} ELSE records

\* By path.  Whatever goes wrong in the registry counts as no record.
BeginPath(i, p, deep) ==
  /\ pass[i].at \in {"idle", "ended", "failed"}
  /\ \/ \E name \in NamesOf(p) : Starts(i, p, name, deep) /\ UNCHANGED certain
     \/ Starts(i, p, Slug[p], deep) /\ certain' = FALSE
  /\ UNCHANGED <<graph, registry, events>>

-----------------------------------------------------------------------------
(* The query pass.                                                          *)

\* GdmClient.call ends with the answer, with a payload that says that gdm has
\* failed, or, for want of a connection or of time, with an exception.
Calls == {"answered", "refused", "raised"}

\* Of a query, the last two end the pass.
Query(i) ==
  /\ At(i, "query")
  /\ Proceed(i, [pass[i] EXCEPT !.at = "anchor", !.todo = Listing[pass[i].path]])

Anchor(i) ==
  /\ At(i, "anchor")
  /\ PutNode(System(pass[i].path))
  /\ Become(i, [pass[i] EXCEPT !.at = "nodes"])
  /\ UNCHANGED <<registry, events, certain>>

Current(i) == Head(pass[i].todo)
Rest(i)  == [pass[i] EXCEPT !.todo = Tail(@)]

\* A component without a uuid, or that upsert_node refuses, is reported.
SkipComponent(i) ==
  /\ At(i, "nodes") /\ pass[i].jobs = <<>> /\ pass[i].todo # <<>>
  /\ Proceed(i, [Rest(i) EXCEPT !.errors = TRUE])

NodeStep(i) ==
  LET p == pass[i]
      n == Component(p.name, Current(i)) IN
  /\ At(i, "nodes") /\ p.jobs = <<>> /\ p.todo # <<>> /\ Current(i) # NoUuid
  /\ PutNode(n)
  /\ Become(i, [Rest(i) EXCEPT !.by_uuid = @ \cup {Current(i)},
                  !.ask = IF Current(i) \in p.by_uuid THEN @ ELSE Append(@, Current(i)),
                  !.jobs = <<<<System(p.path), n, "has_component">>>>])
  /\ UNCHANGED <<registry, events, certain>>

\* Faulty variant of Counted: every edge that is written is counted.
CountedTwice(p, e) == TRUE

\* triple not in touched_edges
Counted(p, e) == e \notin p.touched

\* An edge is counted, then upserted.  An end that was deleted is reported.
EdgeStep(i) ==
  LET p == pass[i]
      e == Head(p.jobs)
      counted == [p EXCEPT !.jobs = Tail(@), !.touched = @ \cup {e},
                           !.added = IF Counted(p, e) THEN @ + 1 ELSE @] IN
  /\ p.at \in {"nodes", "relations"} /\ p.jobs # <<>>
  /\ IF EndsAlive(e)
     THEN PutEdge(e) /\ Become(i, [counted EXCEPT !.put = @ \cup {e}])
     ELSE /\ UNCHANGED graph
          /\ Become(i, [counted EXCEPT !.missed = @ \cup {e}, !.errors = TRUE])
  /\ UNCHANGED <<registry, events, certain>>

NodesDone(i) ==
  /\ At(i, "nodes") /\ pass[i].todo = <<>> /\ pass[i].jobs = <<>>
  /\ Proceed(i, [pass[i] EXCEPT !.at = IF pass[i].deep THEN "relations" ELSE "ended"])

-----------------------------------------------------------------------------
(* The relationship pass.                                                   *)

Pair(p, r) == <<Component(p.name, r[1]), Component(p.name, r[2]), "parent_of">>

\* Faulty variant of ParentOf: only what a component says of its children.
ParentOfChildren(p, u) ==
  {Pair(p, r) : r \in {r \in Told[u] : r[1] = u /\ r[2] \in p.by_uuid}}

\* _parent_of_edges of the payload for u: the pairs among the components seen.
ParentOf(p, u) == {Pair(p, r) : r \in {r \in Told[u] : {r[1], r[2]} \subseteq p.by_uuid}}

\* A payload that says that gdm has failed has neither parents nor children, and
\* is no error; an exception of the client is reported.
AskRelations(i, outcome) ==
  LET p == pass[i]
      asked == [p EXCEPT !.ask = Tail(@)] IN
  /\ At(i, "relations") /\ p.jobs = <<>> /\ p.ask # <<>>
  /\ Proceed(i, CASE outcome = "answered" ->
                       [asked EXCEPT !.jobs = SetToSeq(ParentOf(p, Head(p.ask)) \ p.touched)]
                  [] outcome = "refused"  -> [asked EXCEPT !.refused = TRUE]
                  [] outcome = "raised"   -> [asked EXCEPT !.errors = TRUE])

RelationsDone(i) ==
  /\ At(i, "relations") /\ pass[i].ask = <<>> /\ pass[i].jobs = <<>>
  /\ Proceed(i, [pass[i] EXCEPT !.at = "ended"])

-----------------------------------------------------------------------------
\* Others delete nodes: every pass under way is disturbed.
Deleted(n, soft) ==
  /\ events < MaxEvents /\ events' = events + 1
  /\ IF soft THEN StampNode(n) ELSE DropNode(n)
  /\ pass' = [i \in Ingesters |-> [pass[i] EXCEPT !.quiet = FALSE]]
  /\ UNCHANGED <<registry, certain>>

\* Others register models, with store_relative_to_db or without, and unregister them.
Registered(m, p, relatively) ==
  /\ events < MaxEvents /\ events' = events + 1
  /\ p # stored[m]
  /\ stored' = [stored EXCEPT ![m] = p]
  /\ relative' = IF relatively THEN relative \cup {m} ELSE relative \ {m}
  /\ certain' = FALSE
  /\ UNCHANGED <<graph, pass>>

ComponentsNext ==
  \/ \E i \in Ingesters :
       \/ \E m \in ModelIds, deep \in BOOLEAN : BeginModel(i, m, deep)
       \/ \E p \in Paths, deep \in BOOLEAN : BeginPath(i, p, deep)
       \/ Query(i) \/ Anchor(i) \/ SkipComponent(i) \/ NodeStep(i) \/ EdgeStep(i)
       \/ NodesDone(i) \/ \E outcome \in Calls : AskRelations(i, outcome)
       \/ RelationsDone(i)
       \/ \E where \in {"query", "anchor", "nodes", "relations"} : Fails(i, where)
  \/ \E n \in NodeIds, soft \in BOOLEAN : Deleted(n, soft)
  \/ \E m \in ModelIds, p \in Paths, relatively \in BOOLEAN : Registered(m, p, relatively)
  \/ \E m \in ModelIds : Registered(m, NoPath, FALSE)

ComponentsSpec == ComponentsInit /\ [][ComponentsNext]_components

-----------------------------------------------------------------------------
Ended(i) == At(i, "ended")

(* edges_added is the number of distinct edges that the pass has written,   *)
(* and of those it reports as errors: however often an edge is listed, by   *)
(* its parent, by its child or twice.                                       *)
EdgesCounted ==
  \A i \in Ingesters : Ended(i) =>
    pass[i].added = Cardinality(pass[i].put \cup pass[i].missed)

(* A pass that nobody disturbed and that reports no error has written every *)
(* component that gdm listed, its edge from the system and, when asked to,  *)
(* every relationship between two of them that either has told.  The        *)
(* exception is a payload of gdm that says it has failed, which the pass    *)
(* takes for an answer.                                                     *)
CleanPassIsComplete ==
  \A i \in Ingesters :
    LET p == pass[i]
        listed == {u \in Uuids : \E k \in DOMAIN Listing[p.path] : Listing[p.path][k] = u} IN
    Ended(i) /\ p.quiet /\ ~p.errors =>
      /\ \A u \in listed :
           /\ Alive(Component(p.name, u))
           /\ Shown(<<System(p.path), Component(p.name, u), "has_component">>)
      /\ p.deep /\ ~p.refused =>
           \A u \in listed : \A r \in Told[u] :
             {r[1], r[2]} \subseteq listed => Shown(Pair(p, r))

(* As long as the registry answers and does not change, and a path is       *)
(* stored under one model at most and there in full, the components of a    *)
(* system are nodes of one name, whether it is ingested by path or by       *)
(* model.                                                                   *)
OneNamePerSystem ==
  LET named(p) == {e[2][1] : e \in {e \in edges : Relation(e) = "has_component"
                                                   /\ Source(e) = System(p)}} IN
  certain => \A p \in Paths :
    LET stores == {m \in ModelIds : stored[m] = p} IN
    Cardinality(stores) <= 1 /\ stores \cap relative = {} => Cardinality(named(p)) <= 1
=============================================================================
