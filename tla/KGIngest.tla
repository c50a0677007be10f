------------------------------- MODULE KGIngest -------------------------------
(***************************************************************************)
(* dist_stack.kg.ingest: passes that derive the knowledge graph from the   *)
(* registry, the runstore and the sidecars, while these change, while the  *)
(* graph is edited by others, and while other passes run.                  *)
(*                                                                         *)
(* Each read of a source is one transaction and so is each upsert, so a    *)
(* pass is a sequence of steps between which anything may happen.  (What   *)
(* happens inside an upsert is KnowledgeGraph's.)  A node is identified    *)
(* with the run, the artifact path or the model it stands for.             *)
(***************************************************************************)
EXTENDS KGQueries

CONSTANTS
  Ingesters,   \* processes that ingest
  RunIds, Paths, ModelIds,
  Parents,     \* path -> derived_from of its sidecar: a sequence of entries, an
               \* entry the sequence of nodes it may stand for
  Uses,        \* run or path -> its model_id, or NoModel
  NoModel,
  Typed,       \* runs and paths whose type is one of VALID_NODE_TYPES
  Modes        \* the arguments passes are called with

\* prune, and whether manifest_dir and limit are given.
Options == [prune : BOOLEAN, sweep : BOOLEAN, limit : BOOLEAN]

IngestRelations == {"has_artifact", "generated_by", "derived_from", "references"}

ASSUME IngestAssumption ==
  /\ RunIds \cap Paths = {} /\ RunIds \cap ModelIds = {} /\ Paths \cap ModelIds = {}
  /\ NodeIds = RunIds \cup Paths \cup ModelIds
  /\ IngestRelations \subseteq Relations
  /\ Parents \in [Paths -> Seq(Seq(RunIds \cup Paths))]
  /\ Uses \in [RunIds \cup Paths -> ModelIds \cup {NoModel}]
  /\ NoModel \notin NodeIds
  /\ Typed \subseteq RunIds \cup Paths
  /\ Modes \subseteq Options

VARIABLES
  registered,   \* models with an undeleted version
  runRow,       \* run -> "absent", "live" or "deleted"
  rows,         \* table artifacts, as <<run, path>>
  sidecars,     \* paths with a readable sidecar
  pass,         \* ingester -> its pass
  settled       \* history: the options of the last pass, when it reported no
                \* error and nothing else has happened since it began

sources == <<registered, runRow, rows, sidecars>>
vars == <<graph, sources, pass, settled>>

LiveRuns == {r \in RunIds : runRow[r] = "live"}
LiveRows == {row \in rows : row[1] \in LiveRuns}
Attached == {row[2] : row \in LiveRows}
Items    == registered \cup LiveRuns \cup Attached

\* What a pass called with opts is to find besides.
Swept(opts) == IF opts.sweep THEN sidecars ELSE {}

Points == {"idle", "start", "models", "runs", "rows", "row edges", "run edges",
           "sweep", "sweep edges", "prune", "ended", "raised"}

\* artifact_info and sweep_records: the path, the run of its row if it has one,
\* and whether its manifest was read.
Info == [path : Paths, run : RunIds \cup {NoModel}, manifest : BOOLEAN]

\* The edges still to write for an item: a known one, or a parent still to be
\* resolved, or a model still to be made sure of.
Job == [edge : Edge] \cup [of : Paths, entry : Seq(RunIds \cup Paths)]
         \cup [from : RunIds \cup Paths, model : ModelIds]

NoPass == [at |-> "idle", opts |-> [prune |-> FALSE, sweep |-> FALSE, limit |-> FALSE],
           todo |-> {}, jobs |-> <<>>, runs |-> {}, info |-> {},
           touched |-> {}, fresh |-> {}, ok |-> TRUE, created |-> FALSE,
           quiet |-> FALSE, again |-> FALSE, seen |-> {}]

\* The sources are as their writers have left them.
Init ==
  /\ GraphInit
  /\ registered \in SUBSET ModelIds /\ sidecars \in SUBSET Paths
  /\ runRow \in [RunIds -> {"absent", "live", "deleted"}]
  /\ rows \in SUBSET ({r \in RunIds : runRow[r] # "absent"} \X Paths)
  /\ pass = [i \in Ingesters |-> NoPass]
  /\ settled = {}

-----------------------------------------------------------------------------
\* The pass of i becomes `new'; `put' are the nodes it has just upserted, whose
\* updated_at_utc is now later than the start of every pass under way.
Become(i, new, put) ==
  /\ pass' = [j \in Ingesters |->
                IF j = i THEN [new EXCEPT !.fresh = @ \cup put]
                ELSE [pass[j] EXCEPT !.fresh = @ \cup put, !.quiet = FALSE]]
  /\ UNCHANGED sources

\* A step that leaves the graph alone.
Proceed(i, new) == Become(i, new, {}) /\ settled' = {} /\ UNCHANGED graph

\* Faulty variant of Exists: deleted nodes are not found.
ExistsAlive(n) == Alive(n)

\* _node_exists
Exists(n) == Known(n)

\* _upsert_node
Affirm(i, n, new) ==
  /\ PutNode(n)
  /\ Become(i, [new EXCEPT !.created = @ \/ ~Exists(n)], {n})
  /\ settled' = {}

At(i, where) == pass[i].at = where
Through(i)   == pass[i].todo = {} /\ pass[i].jobs = <<>>
Less(i, x)   == [pass[i] EXCEPT !.todo = @ \ {x}]
Failed(new)  == [new EXCEPT !.ok = FALSE]

Start(i, opts) ==
  /\ pass[i].at \in {"idle", "ended", "raised"}
  /\ Become(i, [NoPass EXCEPT !.at = "start", !.opts = opts, !.seen = Items \cup Swept(opts),
                              !.quiet = TRUE, !.again = (settled = {opts})], {})
  /\ settled' = {}
  /\ UNCHANGED graph

\* Pass 1.
ReadModels(i) ==
  /\ At(i, "start")
  /\ Proceed(i, [pass[i] EXCEPT !.at = "models", !.todo = registered])

AffirmModel(i) ==
  /\ At(i, "models")
  /\ \E m \in pass[i].todo : Affirm(i, m, Less(i, m))

\* Pass 2.
ReadRuns(i) ==
  /\ At(i, "models") /\ Through(i)
  /\ Proceed(i, [pass[i] EXCEPT !.at = "runs", !.todo = LiveRuns, !.runs = LiveRuns])

AffirmRun(i) ==
  /\ At(i, "runs")
  /\ \E r \in pass[i].todo \cap Typed : Affirm(i, r, Less(i, r))

\* Faulty variant of Readable: the join forgets that the run may be deleted.
ReadableAny == rows

\* What _read_artifacts selects, apart from its limit.
Readable == LiveRows

\* Pass 3.
ReadRows(i) ==
  /\ At(i, "runs") /\ Through(i)
  /\ \E what \in IF pass[i].opts.limit THEN SUBSET Readable ELSE {Readable} :
       Proceed(i, [pass[i] EXCEPT !.at = "rows", !.todo = what])

AffirmRow(i, row, manifest, new) ==
  /\ At(i, "rows") /\ row \in pass[i].todo /\ row[2] \in Typed
  /\ Affirm(i, row[2], [new EXCEPT !.info = @ \cup
                          {[path |-> row[2], run |-> row[1], manifest |-> manifest]}])

AffirmAnyRow(i) ==
  \E row \in pass[i].todo : AffirmRow(i, row, row[2] \in sidecars, Less(i, row))

\* upsert_node raises for a type that is not in its vocabulary.
RejectType(i) ==
  /\ pass[i].at \in {"runs", "rows"}
  /\ \E x \in pass[i].todo :
       /\ (IF At(i, "runs") THEN x ELSE x[2]) \notin Typed
       /\ Proceed(i, Failed(Less(i, x)))

-----------------------------------------------------------------------------
(* Edges.                                                                   *)

NextPhase(i) ==
  LET to(where, todo) == Proceed(i, [pass[i] EXCEPT !.at = where, !.todo = todo]) IN
  /\ Through(i)
  /\ \/ At(i, "rows") /\ to("row edges", pass[i].info)
     \/ At(i, "row edges") /\ to("run edges", pass[i].runs)
     \/ /\ At(i, "run edges") /\ pass[i].opts.sweep
        /\ Proceed(i, [pass[i] EXCEPT !.at = "sweep", !.todo = sidecars, !.info = {}])
     \/ At(i, "run edges") /\ ~pass[i].opts.sweep /\ to("prune", {})
     \/ At(i, "sweep") /\ to("sweep edges", pass[i].info)
     \/ At(i, "sweep edges") /\ to("prune", {})

\* Faulty variant of RefJob: no test for a missing model_id.
RefJobAny(x) == << [from |-> x, model |-> Uses[x]] >>

\* _add_references_edge
RefJob(x) == IF Uses[x] = NoModel THEN <<>> ELSE << [from |-> x, model |-> Uses[x]] >>
ParentJobs(p) == [k \in DOMAIN Parents[p] |-> [of |-> p, entry |-> Parents[p][k]]]
RunJobs(r, p) ==
  << [edge |-> <<r, p, "has_artifact">>], [edge |-> <<p, r, "generated_by">>] >>

\* A row whose run has no node gets no run edges.
InfoJobs(x) ==
  (IF x.run # NoModel /\ Exists(x.run) THEN RunJobs(x.run, x.path) ELSE <<>>)
    \o (IF x.manifest THEN ParentJobs(x.path) ELSE <<>>) \o RefJob(x.path)

TakeItem(i) ==
  /\ pass[i].at \in {"row edges", "run edges", "sweep edges"} /\ pass[i].jobs = <<>>
  /\ \E x \in pass[i].todo :
       Proceed(i, [Less(i, x) EXCEPT
                     !.jobs = IF At(i, "run edges") THEN RefJob(x) ELSE InfoJobs(x)])

Rest(i) == [pass[i] EXCEPT !.jobs = Tail(@)]

\* An exception: the rest of the item's edges are given up.
GiveUp(i, new) == Proceed(i, Failed([new EXCEPT !.jobs = <<>>]))

\* _upsert_edge: probe and count first, then upsert_edge, which raises when an
\* end is deleted.
WriteEdge(i, e) ==
  LET counted == [pass[i] EXCEPT !.created = @ \/ e \notin edges] IN
  \/ /\ EndsAlive(e)
     /\ PutEdge(e)
     /\ Become(i, [counted EXCEPT !.jobs = Tail(@), !.touched = @ \cup {e}], {})
     /\ settled' = {}
  \/ ~EndsAlive(e) /\ GiveUp(i, counted)

WriteRunEdge(i) ==
  LET job == Head(pass[i].jobs) IN
  /\ pass[i].jobs # <<>> /\ "edge" \in DOMAIN job
  /\ WriteEdge(i, job.edge)

\* Faulty variant of Candidates: the entry is taken for the artifact only.
FirstCandidate(job) ==
  { k \in {1} \cap DOMAIN job.entry : Exists(job.entry[k]) \/ job.entry[k] = job.of }

\* The first of the nodes an entry may stand for that is there, or that is the
\* artifact itself, decides.
Candidates(job) ==
  { k \in DOMAIN job.entry :
      /\ Exists(job.entry[k]) \/ job.entry[k] = job.of
      /\ \A l \in 1..(k - 1) : ~Exists(job.entry[l]) /\ job.entry[l] # job.of }

WriteParentEdge(i) ==
  LET job == Head(pass[i].jobs) IN
  /\ pass[i].jobs # <<>> /\ "entry" \in DOMAIN job
  /\ \/ \E k \in Candidates(job) :
          \/ job.entry[k] = job.of /\ Proceed(i, Rest(i))
          \/ /\ job.entry[k] # job.of
             /\ WriteEdge(i, <<job.of, job.entry[k], "derived_from">>)
     \/ Candidates(job) = {} /\ Proceed(i, Rest(i))

\* _ensure_model leaves a model it finds, deleted or not, alone.
WriteReference(i) ==
  LET job == Head(pass[i].jobs) IN
  /\ pass[i].jobs # <<>> /\ "model" \in DOMAIN job
  /\ \/ ~Exists(job.model) /\ Affirm(i, job.model, pass[i])
     \/ Exists(job.model) /\ WriteEdge(i, <<job.from, job.model, "references">>)

-----------------------------------------------------------------------------
(* The sweep of manifest_dir, and the prune.                                *)

Raise(i) == Proceed(i, [pass[i] EXCEPT !.at = "raised", !.todo = {}, !.ok = FALSE])

\* The node of a swept sidecar; a type outside the vocabulary raises, and
\* nothing catches it here.
AffirmSwept(i) ==
  /\ At(i, "sweep")
  /\ \E p \in pass[i].todo \cap sidecars :
       \/ /\ p \in Typed
          /\ Affirm(i, p, [Less(i, p) EXCEPT !.info = @ \cup
                             {[path |-> p, run |-> NoModel, manifest |-> TRUE]}])
       \/ p \notin Typed /\ Raise(i)

\* The sidecar is not there any more.
SkipSwept(i) ==
  /\ At(i, "sweep")
  /\ \E p \in pass[i].todo \ sidecars : Proceed(i, Failed(Less(i, p)))

\* Faulty variant of Pruned: edges, which have no updated_at_utc, are left out.
PrunedNodes(i) ==
  /\ nodes' = [n \in NodeIds |-> IF Alive(n) /\ n \notin pass[i].fresh THEN "deleted" ELSE nodes[n]]
  /\ UNCHANGED <<edges, hidden>>

\* _prune: one transaction.
Pruned(i) ==
  /\ nodes' = [n \in NodeIds |-> IF Alive(n) /\ n \notin pass[i].fresh THEN "deleted" ELSE nodes[n]]
  /\ hidden' = edges \ pass[i].touched
  /\ UNCHANGED edges

Finish(i) ==
  /\ At(i, "prune")
  /\ IF pass[i].opts.prune THEN Pruned(i) ELSE UNCHANGED graph
  /\ Become(i, [pass[i] EXCEPT !.at = "ended"], {})
  /\ settled' = IF pass[i].quiet /\ pass[i].ok THEN {pass[i].opts} ELSE {}

Ingest(i) ==
  \/ ReadModels(i) \/ AffirmModel(i) \/ ReadRuns(i) \/ AffirmRun(i)
  \/ ReadRows(i) \/ AffirmAnyRow(i) \/ RejectType(i) \/ NextPhase(i) \/ TakeItem(i)
  \/ WriteRunEdge(i) \/ WriteParentEdge(i) \/ WriteReference(i)
  \/ AffirmSwept(i) \/ SkipSwept(i) \/ Finish(i)

\* What fails from outside, by phase: the source is unavailable or the read
\* raises; the graph's database stays locked; a sidecar cannot be parsed.  One
\* handler stands around the whole of pass 1, none around the nodes of the
\* sweep and the prune.
Fault(i) ==
  \/ At(i, "start") /\ Proceed(i, Failed([pass[i] EXCEPT !.at = "models"]))
  \/ At(i, "models") /\ pass[i].todo # {} /\ Proceed(i, Failed([pass[i] EXCEPT !.todo = {}]))
  \/ At(i, "models") /\ Through(i) /\ Proceed(i, Failed([pass[i] EXCEPT !.at = "runs"]))
  \/ At(i, "runs") /\ Through(i) /\ Proceed(i, Failed([pass[i] EXCEPT !.at = "rows"]))
  \/ /\ pass[i].at \in {"runs", "rows"}
     /\ \E x \in pass[i].todo : Proceed(i, Failed(Less(i, x)))
  \/ \E row \in pass[i].todo :
       AffirmRow(i, row, FALSE, Failed(Less(i, row))) /\ row[2] \in sidecars
  \/ pass[i].jobs # <<>> /\ GiveUp(i, pass[i])
  \/ At(i, "sweep") /\ \E p \in pass[i].todo : Proceed(i, Failed(Less(i, p)))
  \/ At(i, "sweep") /\ pass[i].todo # {} /\ Raise(i)
  \/ At(i, "prune") /\ pass[i].opts.prune /\ Raise(i)

-----------------------------------------------------------------------------
(* The surroundings.                                                        *)

Disturb ==
  /\ pass' = [i \in Ingesters |->
                [pass[i] EXCEPT !.quiet = FALSE,
                   !.seen = @ \cup Items' \cup IF pass[i].opts.sweep THEN sidecars' ELSE {}]]
  /\ settled' = {}

RegisterModel(m) ==
  /\ m \notin registered
  /\ registered' = registered \cup {m}
  /\ UNCHANGED <<runRow, rows, sidecars>>
DeleteModel(m) ==
  /\ m \in registered
  /\ registered' = registered \ {m}
  /\ UNCHANGED <<runRow, rows, sidecars>>
CreateRun(r) ==
  /\ runRow[r] = "absent"
  /\ runRow' = [runRow EXCEPT ![r] = "live"]
  /\ UNCHANGED <<registered, rows, sidecars>>
DeleteRun(r, soft) ==
  /\ runRow[r] # "absent"
  /\ runRow' = [runRow EXCEPT ![r] = IF soft THEN "deleted" ELSE "absent"]
  /\ rows' = IF soft THEN rows ELSE {row \in rows : row[1] # r}
  /\ UNCHANGED <<registered, sidecars>>
Attach(r, p) ==
  /\ runRow[r] = "live"
  /\ rows' = rows \cup {<<r, p>>}
  /\ sidecars' = sidecars \cup {p}
  /\ UNCHANGED <<registered, runRow>>
WriteSidecar(p) ==
  /\ p \notin sidecars
  /\ sidecars' = sidecars \cup {p}
  /\ UNCHANGED <<registered, runRow, rows>>
LoseSidecar(p) ==
  /\ p \in sidecars
  /\ sidecars' = sidecars \ {p}
  /\ UNCHANGED <<registered, runRow, rows>>

SourceStep ==
  /\ \/ \E m \in ModelIds : RegisterModel(m) \/ DeleteModel(m)
     \/ \E r \in RunIds : CreateRun(r) \/ \E soft \in BOOLEAN : DeleteRun(r, soft)
     \/ \E r \in RunIds, p \in Paths : Attach(r, p)
     \/ \E p \in Paths : WriteSidecar(p) \/ LoseSidecar(p)
  /\ Disturb
  /\ UNCHANGED graph

\* delete_node called by some other client.
EditStep ==
  /\ \E n \in NodeIds : StampNode(n) \/ DropNode(n)
  /\ UNCHANGED sources
  /\ Disturb

Next ==
  \/ \E i \in Ingesters :
       Ingest(i) \/ Fault(i) \/ \E opts \in Modes : Start(i, opts)
  \/ SourceStep \/ EditStep

Spec == Init /\ [][Next]_vars

-----------------------------------------------------------------------------
\* What the items are that a pass has before it.
Todo(where) ==
  CASE where = "models"                        -> ModelIds
    [] where \in {"runs", "run edges"}         -> RunIds
    [] where = "rows"                          -> RunIds \X Paths
    [] where \in {"row edges", "sweep edges"}  -> Info
    [] where = "sweep"                         -> Paths
    [] OTHER                                   -> {}

TypeOK ==
  /\ GraphTypeOK
  /\ registered \subseteq ModelIds /\ sidecars \subseteq Paths
  /\ runRow \in [RunIds -> {"absent", "live", "deleted"}]
  /\ rows \subseteq RunIds \X Paths
  /\ settled \subseteq Options
  /\ \A i \in Ingesters :
       /\ pass[i].at \in Points /\ pass[i].opts \in Options
       /\ pass[i].todo \subseteq Todo(pass[i].at)
       /\ pass[i].jobs \in Seq(Job)
       /\ pass[i].info \subseteq Info /\ pass[i].runs \subseteq RunIds
       /\ pass[i].touched \subseteq Edge /\ pass[i].fresh \subseteq NodeIds

Undisturbed(i) == At(i, "ended") /\ pass[i].quiet /\ pass[i].ok

Expected(i) ==
  LiveRuns \cup Attached \cup Swept(pass[i].opts)

(* After a pass with prune=True that nothing disturbed, the graph mirrors   *)
(* the sources: its runs and artifacts are theirs, however it looked        *)
(* before, no registered model is missing, and the edges are those that the *)
(* pass has affirmed.                                                       *)
MirrorAfterPrune ==
  \A i \in Ingesters :
    Undisturbed(i) /\ pass[i].opts.prune /\ ~pass[i].opts.limit =>
      /\ {n \in RunIds \cup Paths : Alive(n)} = Expected(i)
      /\ \A m \in registered : Alive(m)
      /\ edges \ hidden = pass[i].touched

\* The first node of the graph among those an entry may stand for.  (It may be
\* one that the same pass has pruned after it wrote the edge.)
Resolved(p, entry, n) ==
  /\ n # p /\ Known(n)
  /\ \E k \in DOMAIN entry :
       entry[k] = n /\ \A l \in 1..(k - 1) : ~Known(entry[l]) /\ entry[l] # p

(* A pass that reports no error and was not disturbed has shown every       *)
(* relation the sources state: the run edges of each row, the parents that  *)
(* its sidecar names and that are in the graph, and its model.              *)
PassIsComplete ==
  \A i \in Ingesters, row \in LiveRows :
    LET r == row[1]  p == row[2] IN
    Undisturbed(i) /\ ~pass[i].opts.limit /\ ~pass[i].opts.sweep =>
      /\ Shown(<<r, p, "has_artifact">>) /\ Shown(<<p, r, "generated_by">>)
      /\ Uses[p] # NoModel => Shown(<<p, Uses[p], "references">>)
      /\ p \in sidecars =>
           \A k \in DOMAIN Parents[p], n \in NodeIds :
             Resolved(p, Parents[p][k], n) => Shown(<<p, n, "derived_from">>)

Unchanged(i) == At(i, "ended") /\ pass[i].quiet /\ pass[i].again

(* A second pass over unchanged sources, after one that reported no error,  *)
(* creates nothing, when neither sweeps a manifest_dir.                     *)
SecondPassCreatesNothing ==
  \A i \in Ingesters : Unchanged(i) /\ ~pass[i].opts.sweep /\ ~pass[i].opts.limit => ~pass[i].created

Underway(i) == pass[i].at \notin {"idle", "ended", "raised"}

(* Nothing that was deleted in the sources when a pass began is brought     *)
(* back by it: a node comes alive through a pass under way only, and for a  *)
(* registered model, an undeleted run or an artifact of one that was there  *)
(* at some time since the pass began, or as the stub of a model the graph   *)
(* never had.  A pass with manifest_dir brings back besides the artifact of *)
(* each sidecar it has found, also where all its runs are deleted.          *)
NothingResurrected ==
  [][\A n \in NodeIds : ~Alive(n) /\ Alive(n)' =>
       \E i \in Ingesters :
         Underway(i) /\ (n \in pass[i].seen \/ (n \in ModelIds /\ ~Known(n)))]_vars

(* The artifacts of deleted runs stay out, whatever the pass.  It fails for *)
(* passes that sweep.                                                       *)
DeletedStayOut ==
  \A i \in Ingesters, row \in rows :
    Undisturbed(i) /\ row[2] \in pass[i].fresh => row[2] \in Attached

(* The same for passes of any kind.                                         *)
Idempotent == \A i \in Ingesters : Unchanged(i) /\ ~pass[i].opts.limit => ~pass[i].created

(* A pass never raises.                                                     *)
NeverRaises == \A i \in Ingesters : ~At(i, "raised")

(* The up chain of an artifact that a pass has just ingested leads to the   *)
(* run that produced it.                                                    *)
UpFindsProducer ==
  \A i \in Ingesters, row \in LiveRows :
    Undisturbed(i) /\ ~pass[i].opts.limit => row[1] \in ChainNodes(row[2], "up", 10)
=============================================================================
