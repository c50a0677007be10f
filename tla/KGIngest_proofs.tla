---------------------------- MODULE KGIngest_proofs ----------------------------
(***************************************************************************)
(* Safety of the passes that derive the knowledge graph, for any number of *)
(* ingesters, runs, paths and models.  What is known of a pass depends on  *)
(* what became of it: of every pass, what it may have before it and what   *)
(* it has seen; of one that nothing disturbed, that it only writes what    *)
(* the sources state; of one that besides reported no error, that nothing  *)
(* the sources state is lost between what it has still to do and what it   *)
(* has done.                                                               *)
(***************************************************************************)
EXTENDS KGIngest, SequenceTheorems, TLAPS

InSeq(x, s) == \E k \in 1..Len(s) : s[k] = x

Pass ==
  [at : Points, opts : Options, todo : SUBSET (NodeIds \cup (RunIds \X Paths) \cup Info),
   jobs : Seq(Job), runs : SUBSET RunIds, info : SUBSET Info, touched : SUBSET Edge,
   fresh : SUBSET NodeIds, ok : BOOLEAN, created : BOOLEAN, quiet : BOOLEAN,
   again : BOOLEAN, seen : SUBSET NodeIds]

Started(p) == p.at # "idle"
Alone(p)   == Started(p) /\ p.quiet
\* Besides reporting no error so far, it is to read all of the rows.
Clean(p)   == Alone(p) /\ p.ok /\ ~p.opts.limit
Plain(p)   == ~p.opts.sweep /\ ~p.opts.limit

EdgePhases  == {"row edges", "run edges", "sweep edges"}
SweepPhases == {"sweep", "sweep edges"}

\* The phases after a phase, along every way to the end.
AfterModels == Points \ {"idle", "start", "models", "raised"}
AfterRuns   == AfterModels \ {"runs"}
AfterRows   == AfterRuns \ {"rows"}
AfterSweep  == {"sweep edges", "prune", "ended"}
AfterEdges  == {"prune", "ended"}

-----------------------------------------------------------------------------
(* The edges that the sources ask for.                                      *)

InfoOf(row) == [path |-> row[2], run |-> row[1], manifest |-> row[2] \in sidecars]

References(x) == IF Uses[x] = NoModel THEN {} ELSE {[from |-> x, model |-> Uses[x]]}

Needed(x) ==
  (IF x.run = NoModel THEN {}
   ELSE {[edge |-> <<x.run, x.path, "has_artifact">>], [edge |-> <<x.path, x.run, "generated_by">>]})
    \cup (IF x.manifest THEN {[of |-> x.path, entry |-> Parents[x.path][k]] : k \in DOMAIN Parents[x.path]}
          ELSE {})
    \cup References(x.path)

SourceJobs ==
  {job \in Job : \/ \E row \in LiveRows : job \in Needed(InfoOf(row))
                \/ \E r \in LiveRuns : job \in References(r)}

\* What a job asks for is among the edges E.
Done(job, E) ==
  /\ "edge" \in DOMAIN job => job.edge \in E
  /\ "entry" \in DOMAIN job =>
       \A k \in Candidates(job) : job.entry[k] = job.of \/ <<job.of, job.entry[k], "derived_from">> \in E
  /\ "model" \in DOMAIN job => <<job.from, job.model, "references">> \in E

\* The graph has what the sources ask for.
Derived ==
  /\ \A n \in registered \cup LiveRuns \cup Attached : Known(n)
  /\ \A job \in SourceJobs : Done(job, edges)

-----------------------------------------------------------------------------
(* The invariant.                                                           *)

\* Of any pass.
Shaped(p) ==
  /\ p.todo \subseteq Todo(p.at)
  /\ p.jobs # <<>> => p.at \in EdgePhases
  /\ p.at \in SweepPhases => p.opts.sweep

Foreseen(p) ==
  /\ p.at \in {"models", "runs", "sweep"} => p.todo \subseteq p.seen
  /\ p.at = "rows" => \A row \in p.todo : row[2] \in p.seen
HasSeen(p) == Started(p) => Items \cup Swept(p.opts) \subseteq p.seen /\ Foreseen(p)

\* Of a pass that nothing disturbed: what it has before it, and what it has
\* done, stays within the sources.
Within(p) ==
  /\ p.at = "models" => p.todo \subseteq registered
  /\ p.at = "runs" => p.todo \subseteq LiveRuns
  /\ p.at = "rows" => p.todo \subseteq LiveRows
  /\ p.at = "sweep" => p.todo \subseteq sidecars
  /\ p.at = "row edges" => p.todo \subseteq p.info
  /\ p.at = "run edges" => p.todo \subseteq p.runs
  /\ p.runs \subseteq LiveRuns
  /\ ~p.opts.sweep =>
       /\ \A x \in p.info : <<x.run, x.path>> \in LiveRows /\ (x.manifest => x.path \in sidecars)
       /\ \A k \in 1..Len(p.jobs) : p.jobs[k] \in SourceJobs
Standing(p) ==
  /\ \A n \in p.fresh : Alive(n)
  /\ p.fresh \cap (RunIds \cup Paths) \subseteq
       LiveRuns \cup Attached \cup (IF p.opts.sweep THEN sidecars ELSE {})
  /\ p.touched \subseteq edges \ hidden

\* Of one that is clean: nothing is lost.
Covered(p) ==
  /\ p.at = "models" => registered \subseteq p.fresh \cup p.todo
  /\ p.at \in AfterModels => registered \subseteq p.fresh /\ p.runs = LiveRuns
  /\ p.at = "runs" => LiveRuns \subseteq p.fresh \cup p.todo
  /\ p.at \in AfterRuns => LiveRuns \subseteq p.fresh
  /\ p.at = "rows" => \A row \in LiveRows : row \in p.todo \/ row[2] \in p.fresh
  /\ p.at \in AfterRows => Attached \subseteq p.fresh
  /\ p.opts.sweep =>
       /\ p.at = "sweep" => sidecars \subseteq p.fresh \cup p.todo
       /\ p.at \in AfterSweep => sidecars \subseteq p.fresh

\* Of one that is clean and plain: no edge is lost.
Kept(p, job) == Done(job, p.touched) \/ InSeq(job, p.jobs)
Linked(p) ==
  /\ p.at = "rows" => \A row \in LiveRows : row \in p.todo \/ InfoOf(row) \in p.info
  /\ p.at \in AfterRows => \A row \in LiveRows : InfoOf(row) \in p.info
  /\ p.at = "row edges" => \A x \in p.info : x \in p.todo \/ \A job \in Needed(x) : Kept(p, job)
  /\ p.at \in {"run edges"} \cup AfterEdges =>
       \A x \in p.info : \A job \in Needed(x) : Done(job, p.touched)
  /\ p.at = "run edges" => \A r \in p.runs : r \in p.todo \/ \A job \in References(r) : Kept(p, job)
  /\ p.at \in AfterEdges => \A r \in p.runs : \A job \in References(r) : Done(job, p.touched)

\* Of one that follows another over the same sources.
Repeats(p) == Derived /\ ~p.created

Mirrored(p) ==
  p.at = "ended" /\ p.opts.prune =>
    /\ {n \in RunIds \cup Paths : Alive(n)} =
         LiveRuns \cup Attached \cup (IF p.opts.sweep THEN sidecars ELSE {})
    /\ edges \ hidden = p.touched

PassInv(p) ==
  /\ Shaped(p) /\ HasSeen(p)
  /\ Alone(p) => Within(p) /\ Standing(p)
  /\ Clean(p) => Covered(p) /\ Mirrored(p)
  /\ Clean(p) /\ Plain(p) => Linked(p)
  /\ Alone(p) /\ Plain(p) /\ p.again => Repeats(p)

SourcesOK ==
  /\ registered \subseteq ModelIds /\ sidecars \subseteq Paths
  /\ runRow \in [RunIds -> {"absent", "live", "deleted"}]
  /\ rows \subseteq RunIds \X Paths

IInv ==
  /\ GraphTypeOK /\ EdgesHaveEnds /\ SourcesOK
  /\ settled \subseteq Options
  /\ pass \in [Ingesters -> Pass]
  /\ \A i \in Ingesters : PassInv(pass[i])
  /\ \A opts \in settled : ~opts.sweep /\ ~opts.limit => Derived

-----------------------------------------------------------------------------
(* Jobs.                                                                    *)

LEMMA JobKinds ==
  ASSUME NEW job \in Job
  PROVE  /\ "edge" \in DOMAIN job => job.edge \in Edge
         /\ "entry" \in DOMAIN job =>
              job.of \in Paths /\ job.entry \in Seq(RunIds \cup Paths)
         /\ "model" \in DOMAIN job => job.from \in RunIds \cup Paths /\ job.model \in ModelIds
         /\ "edge" \in DOMAIN job \/ "entry" \in DOMAIN job \/ "model" \in DOMAIN job
         /\ ~("edge" \in DOMAIN job /\ "entry" \in DOMAIN job)
         /\ ~("edge" \in DOMAIN job /\ "model" \in DOMAIN job)
         /\ ~("entry" \in DOMAIN job /\ "model" \in DOMAIN job)
<1>1. CASE job \in [edge : Edge]
  BY <1>1
<1>2. CASE job \in [of : Paths, entry : Seq(RunIds \cup Paths)]
  BY <1>2
<1>3. CASE job \in [from : RunIds \cup Paths, model : ModelIds]
  BY <1>3
<1>4. QED
  BY <1>1, <1>2, <1>3 DEF Job

LEMMA ReferenceJobs ==
  ASSUME NEW x \in RunIds \cup Paths
  PROVE  /\ References(x) \subseteq Job /\ RefJob(x) \in Seq(Job)
         /\ \A job : InSeq(job, RefJob(x)) <=> job \in References(x)
<1>1. CASE Uses[x] = NoModel
  BY <1>1 DEF References, RefJob, InSeq
<1>2. CASE Uses[x] # NoModel
  <2> DEFINE job == [from |-> x, model |-> Uses[x]]
  <2>1. Uses[x] \in ModelIds
    BY <1>2, IngestAssumption
  <2>2. job \in Job
    BY <2>1 DEF Job
  <2>3. References(x) = {job} /\ RefJob(x) = <<job>>
    BY <1>2 DEF References, RefJob
  <2>4. <<job>> \in Seq(Job) /\ Len(<<job>>) = 1 /\ <<job>>[1] = job
    BY <2>2
  <2>5. QED
    BY <2>2, <2>3, <2>4 DEF InSeq
<1>3. QED
  BY <1>1, <1>2

LEMMA InPair == ASSUME NEW a, NEW b PROVE \A x : InSeq(x, <<a, b>>) <=> x \in {a, b}
<1>1. Len(<<a, b>>) = 2 /\ <<a, b>>[1] = a /\ <<a, b>>[2] = b /\ 1..2 = {1, 2}
  OBVIOUS
<1>2. QED
  BY <1>1 DEF InSeq

LEMMA InConcat ==
  ASSUME NEW S, NEW s \in Seq(S), NEW t \in Seq(S)
  PROVE  s \o t \in Seq(S) /\ \A x : InSeq(x, s \o t) <=> InSeq(x, s) \/ InSeq(x, t)
<1>1. /\ s \o t \in Seq(S) /\ Len(s \o t) = Len(s) + Len(t) /\ Len(s) \in Nat /\ Len(t) \in Nat
      /\ \A k \in 1..Len(s) + Len(t) : (s \o t)[k] = IF k <= Len(s) THEN s[k] ELSE t[k - Len(s)]
  BY ConcatProperties, LenProperties
<1>2. ASSUME NEW x, InSeq(x, s \o t) PROVE InSeq(x, s) \/ InSeq(x, t)
  <2>1. PICK k \in 1..Len(s) + Len(t) : (s \o t)[k] = x
    BY <1>1, <1>2 DEF InSeq
  <2>2. CASE k <= Len(s)
    BY <1>1, <2>1, <2>2 DEF InSeq
  <2>3. CASE k > Len(s)
    <3>1. k - Len(s) \in 1..Len(t) /\ t[k - Len(s)] = x
      BY <1>1, <2>1, <2>3
    <3>2. QED
      BY <3>1 DEF InSeq
  <2>4. QED
    BY <1>1, <2>1, <2>2, <2>3
<1>3. ASSUME NEW x, InSeq(x, s) PROVE InSeq(x, s \o t)
  BY <1>1, <1>3 DEF InSeq
<1>4. ASSUME NEW x, InSeq(x, t) PROVE InSeq(x, s \o t)
  <2>1. PICK k \in 1..Len(t) : t[k] = x
    BY <1>4 DEF InSeq
  <2>2. Len(s) + k \in 1..Len(s) + Len(t) /\ (s \o t)[Len(s) + k] = x
    BY <1>1, <2>1
  <2>3. QED
    BY <1>1, <2>2 DEF InSeq
<1>5. QED
  BY <1>1, <1>2, <1>3, <1>4

LEMMA InfoHasJobs ==
  ASSUME NEW x \in Info
  PROVE  /\ Needed(x) \subseteq Job /\ InfoJobs(x) \in Seq(Job)
         /\ \A job : InSeq(job, InfoJobs(x)) => job \in Needed(x)
         /\ (x.run = NoModel \/ Known(x.run)) =>
              \A job \in Needed(x) : InSeq(job, InfoJobs(x))
<1> DEFINE r == x.run
           p == x.path
           has == [edge |-> <<r, p, "has_artifact">>]
           by == [edge |-> <<p, r, "generated_by">>]
           linked == IF r # NoModel /\ Exists(r) THEN RunJobs(r, p) ELSE <<>>
           parents == IF x.manifest THEN ParentJobs(p) ELSE <<>>
<1>1. p \in Paths /\ r \in RunIds \cup {NoModel} /\ x.manifest \in BOOLEAN
  BY DEF Info
<1>2. r # NoModel => has \in Job /\ by \in Job
  <2>1. SUFFICES ASSUME r # NoModel PROVE has \in Job /\ by \in Job
    OBVIOUS
  <2>2. <<r, p, "has_artifact">> \in Edge /\ <<p, r, "generated_by">> \in Edge
    BY <1>1, <2>1, IngestAssumption DEF Edge, IngestRelations
  <2>3. QED
    BY <2>2 DEF Job
<1>3. linked \in Seq(Job) /\ (r # NoModel /\ Exists(r) => \A job : InSeq(job, linked) <=> job \in {has, by})
      /\ (~(r # NoModel /\ Exists(r)) => linked = <<>>)
  <2>1. CASE r # NoModel /\ Exists(r)
    <3>1. linked = <<has, by>> /\ <<has, by>> \in Seq(Job)
      BY <1>2, <2>1 DEF RunJobs
    <3> HIDE DEF linked, has, by
    <3>2. \A job : InSeq(job, <<has, by>>) <=> job \in {has, by}
      BY InPair
    <3>3. QED
      BY <2>1, <3>1, <3>2
  <2>2. CASE ~(r # NoModel /\ Exists(r))
    BY <2>2
  <2>3. QED
    BY <2>1, <2>2
<1>4. /\ parents \in Seq(Job)
      /\ x.manifest => \A job : InSeq(job, parents) <=>
                          job \in {[of |-> p, entry |-> Parents[p][k]] : k \in DOMAIN Parents[p]}
      /\ ~x.manifest => parents = <<>>
  <2>1. CASE x.manifest
    <3>1. Parents[p] \in Seq(Seq(RunIds \cup Paths))
      BY <1>1, IngestAssumption
    <3>2. DOMAIN Parents[p] = 1..Len(Parents[p]) /\ Len(Parents[p]) \in Nat
          /\ \A k \in DOMAIN Parents[p] : Parents[p][k] \in Seq(RunIds \cup Paths)
      BY <3>1, LenProperties, ElementOfSeq
    <3>3. \A k \in DOMAIN Parents[p] : [of |-> p, entry |-> Parents[p][k]] \in Job
      BY <1>1, <3>2 DEF Job
    <3>4. parents = [k \in 1..Len(Parents[p]) |-> [of |-> p, entry |-> Parents[p][k]]]
      BY <2>1, <3>2 DEF ParentJobs
    <3>5. parents \in Seq(Job) /\ Len(parents) = Len(Parents[p])
      <4>1. parents \in [1..Len(Parents[p]) -> Job]
        BY <3>2, <3>3, <3>4
      <4> HIDE DEF parents
      <4>2. QED
        BY <3>2, <4>1
    <3>6. \A k \in 1..Len(parents) : parents[k] = [of |-> p, entry |-> Parents[p][k]]
      BY <3>4, <3>5
    <3> HIDE DEF parents
    <3>7. \A job : InSeq(job, parents) <=>
                     \E k \in DOMAIN Parents[p] : job = [of |-> p, entry |-> Parents[p][k]]
      BY <3>2, <3>5, <3>6 DEF InSeq
    <3>8. QED
      BY <2>1, <3>5, <3>7
  <2>2. CASE ~x.manifest
    BY <2>2
  <2>3. QED
    BY <2>1, <2>2
<1> HIDE DEF linked, parents
<1>5. InfoJobs(x) = linked \o parents \o RefJob(p)
  BY DEF InfoJobs, linked, parents
<1>6. /\ InfoJobs(x) \in Seq(Job)
      /\ \A job : InSeq(job, InfoJobs(x)) <=> InSeq(job, linked) \/ InSeq(job, parents) \/ job \in References(p)
  <2>1. PICK s \in Seq(Job) : s = linked \o parents
                              /\ \A job : InSeq(job, s) <=> InSeq(job, linked) \/ InSeq(job, parents)
    <3>1. linked \in Seq(Job) /\ parents \in Seq(Job)
      BY <1>3, <1>4
    <3>2. linked \o parents \in Seq(Job)
          /\ \A job : InSeq(job, linked \o parents) <=> InSeq(job, linked) \/ InSeq(job, parents)
      BY <3>1, InConcat
    <3>3. QED
      BY <3>2
  <2>2. PICK t \in Seq(Job) : t = RefJob(p) /\ \A job : InSeq(job, t) <=> job \in References(p)
    BY <1>1, ReferenceJobs
  <2>3. PICK all \in Seq(Job) : all = s \o t /\ \A job : InSeq(job, all) <=> InSeq(job, s) \/ InSeq(job, t)
    BY InConcat
  <2>4. InfoJobs(x) = all
    BY <1>5, <2>1, <2>2, <2>3
  <2>5. QED
    BY <2>1, <2>2, <2>3, <2>4
<1>7. \A job : ~InSeq(job, <<>>)
  BY DEF InSeq
<1>8. Needed(x) \subseteq Job
  <2>1. ASSUME x.manifest, NEW k \in DOMAIN Parents[p]
        PROVE  [of |-> p, entry |-> Parents[p][k]] \in Job
    <3>1. Parents[p] \in Seq(Seq(RunIds \cup Paths))
      BY <1>1, IngestAssumption
    <3>2. Parents[p][k] \in Seq(RunIds \cup Paths)
      BY <2>1, <3>1, LenProperties, ElementOfSeq
    <3>3. QED
      BY <1>1, <3>2 DEF Job
  <2>2. QED
    BY <1>1, <1>2, <2>1, ReferenceJobs DEF Needed
<1>9. \A job : InSeq(job, InfoJobs(x)) => job \in Needed(x)
  BY <1>3, <1>4, <1>6, <1>7 DEF Needed
<1>10. ASSUME r = NoModel \/ Known(r), NEW job \in Needed(x) PROVE InSeq(job, InfoJobs(x))
  BY <1>3, <1>4, <1>6, <1>7, <1>10 DEF Needed, Exists
<1>11. QED
  BY <1>6, <1>8, <1>9, <1>10

-----------------------------------------------------------------------------
(* What follows from the sources, and what becomes of it.                   *)

LEMMA SourceSets ==
  ASSUME SourcesOK
  PROVE  /\ LiveRuns \subseteq RunIds /\ LiveRows \subseteq RunIds \X Paths /\ Attached \subseteq Paths
         /\ Items \subseteq NodeIds /\ sidecars \subseteq NodeIds /\ SourceJobs \subseteq Job
         /\ \A row \in LiveRows : InfoOf(row) \in Info /\ row[1] \in LiveRuns /\ row[2] \in Attached
<1>1. /\ LiveRuns \subseteq RunIds /\ LiveRows \subseteq RunIds \X Paths /\ Attached \subseteq Paths
      /\ \A row \in LiveRows : row[1] \in LiveRuns /\ row[2] \in Attached
  BY DEF SourcesOK, LiveRuns, LiveRows, Attached
<1>2. Items \subseteq NodeIds /\ sidecars \subseteq NodeIds
  BY <1>1, IngestAssumption DEF SourcesOK, Items
<1>3. \A row \in LiveRows : InfoOf(row) \in Info
  BY <1>1 DEF InfoOf, Info
<1>4. SourceJobs \subseteq Job
  BY DEF SourceJobs
<1>5. QED
  BY <1>1, <1>2, <1>3, <1>4

LEMMA SameSources ==
  ASSUME UNCHANGED sources
  PROVE  /\ LiveRuns' = LiveRuns /\ LiveRows' = LiveRows /\ Attached' = Attached /\ Items' = Items
         /\ SourceJobs' = SourceJobs /\ \A row : InfoOf(row)' = InfoOf(row)
         /\ registered' = registered /\ sidecars' = sidecars
<1>1. UNCHANGED <<registered, runRow, rows, sidecars>>
  BY DEF sources
<1>2. LiveRuns' = LiveRuns
  BY <1>1 DEF LiveRuns
<1>3. LiveRows' = LiveRows
  BY <1>1, <1>2 DEF LiveRows
<1>4. Attached' = Attached
  BY <1>3 DEF Attached
<1>5. \A row : InfoOf(row)' = InfoOf(row)
  BY <1>1 DEF InfoOf
<1>6. SourceJobs' = SourceJobs
  BY <1>1, <1>2, <1>3 DEF SourceJobs, InfoOf
<1>7. QED
  BY <1>1, <1>2, <1>3, <1>4, <1>5, <1>6 DEF Items

SameNodes(S) == \A n \in S : Known(n)' <=> Known(n)

LEMMA SameCandidates ==
  ASSUME NEW job \in Job, "entry" \in DOMAIN job, SameNodes(RunIds \cup Paths)
  PROVE  Candidates(job)' = Candidates(job)
<1>1. job.entry \in Seq(RunIds \cup Paths)
  BY JobKinds
<1>2. DOMAIN job.entry = 1..Len(job.entry) /\ Len(job.entry) \in Nat
      /\ \A k \in DOMAIN job.entry : job.entry[k] \in RunIds \cup Paths
  BY <1>1, LenProperties, ElementOfSeq
<1>3. \A k \in DOMAIN job.entry : Exists(job.entry[k])' <=> Exists(job.entry[k])
  BY <1>2 DEF SameNodes, Exists
<1>4. \A k \in DOMAIN job.entry : 1..(k - 1) \subseteq DOMAIN job.entry
  BY <1>2
<1>5. QED
  BY <1>3, <1>4 DEF Candidates

LEMMA DoneKept ==
  ASSUME NEW job \in Job, SameNodes(RunIds \cup Paths), NEW E, NEW F, E \subseteq F, Done(job, E)
  PROVE  Done(job, F)'
<1>1. "entry" \in DOMAIN job => Candidates(job)' = Candidates(job)
  BY SameCandidates
<1>2. QED
  BY <1>1 DEF Done

LEMMA DerivedKept ==
  ASSUME SourcesOK, Derived, UNCHANGED sources, SameNodes(NodeIds), edges \subseteq edges'
  PROVE  Derived'
<1>1. SourceJobs' = SourceJobs /\ SourceJobs \subseteq Job
  BY SameSources, SourceSets
<1>2. \A n \in registered \cup LiveRuns \cup Attached : n \in NodeIds
  BY SourceSets, IngestAssumption DEF SourcesOK
<1>3. \A n \in (registered \cup LiveRuns \cup Attached)' : Known(n)'
  BY <1>2, SameSources DEF Derived, SameNodes
<1>4. SameNodes(RunIds \cup Paths)
  BY IngestAssumption DEF SameNodes
<1>5. PICK E, F : E = edges /\ F = edges'
  OBVIOUS
<1>6. \A job \in SourceJobs : Done(job, F)'
  BY <1>1, <1>4, <1>5, DoneKept DEF Derived
<1>7. \A job \in SourceJobs' : Done(job, edges)'
  BY <1>1, <1>5, <1>6 DEF Done
<1>8. QED
  BY <1>3, <1>7 DEF Derived

-----------------------------------------------------------------------------
(* A step of one pass.                                                      *)

Freshened(new, put) == [new EXCEPT !.fresh = @ \cup put]

\* What a step of i does to the other passes they can stand: they have been
\* disturbed.
LEMMA Stepped ==
  ASSUME IInv, NEW i \in Ingesters, NEW put \in SUBSET NodeIds, NEW new \in Pass, Become(i, new, put),
         NEW q \in Pass, q = Freshened(new, put), PassInv(q)',
         GraphTypeOK', EdgesHaveEnds', settled' \subseteq Options,
         \A opts \in settled' : ~opts.sweep /\ ~opts.limit => Derived'
  PROVE  IInv'
<1>1. UNCHANGED sources /\ pass' = [j \in Ingesters |-> pass'[j]] /\ pass'[i] = q
      /\ \A j \in Ingesters \ {i} :
           pass'[j] = [pass[j] EXCEPT !.fresh = @ \cup put, !.quiet = FALSE]
  BY DEF Become, Freshened
<1>2. SourcesOK'
  BY <1>1 DEF IInv, SourcesOK, sources
<1>3. ASSUME NEW j \in Ingesters, j # i
      PROVE  pass'[j] \in Pass /\ PassInv(pass[j])'
  <2>1. PICK p \in Pass : p = pass[j] /\ PassInv(p)
    BY <1>3 DEF IInv
  <2>2. PICK o : o = [p EXCEPT !.fresh = @ \cup put, !.quiet = FALSE]
    OBVIOUS
  <2>3. o \in Pass /\ o.at = p.at /\ o.opts = p.opts /\ o.todo = p.todo /\ o.jobs = p.jobs
        /\ o.seen = p.seen /\ o.quiet = FALSE
    BY <2>2 DEF Pass
  <2>4. Shaped(o) /\ ~Alone(o) /\ ~Clean(o)
    BY <2>1, <2>3 DEF PassInv, Shaped, Alone, Clean
  <2>5. HasSeen(o)'
    <3>1. Foreseen(p) => Foreseen(o)
      BY <2>3 DEF Foreseen
    <3>2. Items' = Items /\ sidecars' = sidecars
      BY <1>1, SameSources
    <3>3. QED
      BY <2>1, <2>3, <3>1, <3>2 DEF PassInv, HasSeen, Started, Swept
  <2>6. PassInv(o)'
    BY <2>4, <2>5 DEF PassInv, Shaped, Alone, Clean, Started
  <2>7. pass'[j] = o
    BY <1>1, <1>3, <2>1, <2>2
  <2>8. QED
    BY <2>3, <2>6, <2>7
<1>4. pass' \in [Ingesters -> Pass]
  BY <1>1, <1>3
<1>5. \A j \in Ingesters : PassInv(pass[j])'
  <2>1. PassInv(pass[i])'
    BY <1>1
  <2>2. QED
    BY <1>3, <2>1
<1>6. QED
  BY <1>2, <1>4, <1>5 DEF IInv

LEMMA SameDone ==
  ASSUME nodes' = nodes
  PROVE  \A job, E : Done(job, E) => Done(job, E)'
<1>1. \A job : Candidates(job)' = Candidates(job)
  BY DEF Candidates, Exists, Known
<1>2. QED
  BY <1>1 DEF Done

LEMMA SamePassInv ==
  ASSUME IInv, UNCHANGED graph, UNCHANGED sources, NEW p \in Pass, PassInv(p)
  PROVE  PassInv(p)'
<1>1. nodes' = nodes /\ edges' = edges /\ hidden' = hidden
  BY DEF graph
<1>2. /\ LiveRuns' = LiveRuns /\ LiveRows' = LiveRows /\ Attached' = Attached /\ Items' = Items
      /\ SourceJobs' = SourceJobs /\ \A row : InfoOf(row)' = InfoOf(row)
      /\ registered' = registered /\ sidecars' = sidecars
  BY SameSources
<1>3. Shaped(p) /\ HasSeen(p)'
  BY <1>2 DEF PassInv, HasSeen, Swept
<1>4. Alone(p) => Within(p)' /\ Standing(p)'
  BY <1>1, <1>2 DEF PassInv, Within, Standing, Alive
<1>5. Clean(p) => Covered(p)' /\ Mirrored(p)'
  BY <1>1, <1>2 DEF PassInv, Covered, Mirrored, Alive
<1>6. Clean(p) /\ Plain(p) => Linked(p)'
  <2>1. SUFFICES ASSUME Linked(p) PROVE Linked(p)'
    BY DEF PassInv
  <2>2. \A job : Done(job, p.touched) => Done(job, p.touched)'
    BY <1>1, SameDone
  <2>3. \A job : Kept(p, job) => Kept(p, job)'
    BY <2>2 DEF Kept
  <2>4. QED
    BY <1>2, <2>1, <2>2, <2>3 DEF Linked
<1>7. Alone(p) /\ Plain(p) /\ p.again => Repeats(p)'
  <2>1. SameNodes(NodeIds)
    BY <1>1 DEF SameNodes, Known
  <2>2. Derived => Derived'
    BY <1>1, <2>1, DerivedKept DEF IInv
  <2>3. QED
    BY <2>2 DEF PassInv, Repeats
<1>8. QED
  BY <1>3, <1>4, <1>5, <1>6, <1>7 DEF PassInv

LEMMA NothingPut ==
  ASSUME NEW new \in Pass
  PROVE  \E none \in SUBSET NodeIds : none = {} /\ new = Freshened(new, none)
<1>1. PICK none \in SUBSET NodeIds : none = {}
  OBVIOUS
<1>2. new.fresh \cup none = new.fresh /\ new = [new EXCEPT !.fresh = new.fresh]
  BY <1>1 DEF Pass
<1>3. QED
  BY <1>1, <1>2 DEF Freshened

LEMMA ProceedInv ==
  ASSUME IInv, NEW i \in Ingesters, NEW q \in Pass, Proceed(i, q), PassInv(q)
  PROVE  IInv'
<1>1. Become(i, q, {}) /\ settled' = {} /\ UNCHANGED graph /\ UNCHANGED sources
  BY DEF Proceed, Become
<1>2. PassInv(q)'
  BY <1>1, SamePassInv
<1>3. GraphTypeOK' /\ EdgesHaveEnds'
  BY <1>1 DEF IInv, graph, GraphTypeOK, EdgesHaveEnds, EndsKnown, Known
<1>4. PICK none \in SUBSET NodeIds : none = {} /\ q = Freshened(q, none)
  BY NothingPut
<1>5. Become(i, q, none) /\ settled' \subseteq Options /\ \A opts \in settled' : Derived'
  BY <1>1, <1>4
<1>6. QED
  BY <1>2, <1>3, <1>4, <1>5, Stepped

\* What stays of a pass from step to step.
Follows(p, q) ==
  /\ q.opts = p.opts /\ q.touched = p.touched /\ q.fresh = p.fresh /\ q.quiet = p.quiet
  /\ q.again = p.again /\ q.seen = p.seen /\ Started(p) /\ Started(q)

LEMMA OnwardInv ==
  ASSUME IInv, NEW i \in Ingesters, NEW p \in Pass, p = pass[i], NEW q \in Pass, Proceed(i, q),
         Follows(p, q), Shaped(q), Foreseen(q), Alone(q) => Within(q),
         Clean(q) => Covered(q) /\ q.at # "ended", Clean(q) /\ Plain(q) => Linked(q),
         Alone(q) /\ Plain(q) /\ q.again /\ ~p.created => ~q.created
  PROVE  IInv'
<1>1. PassInv(p)
  BY DEF IInv
<1>2. HasSeen(q)
  BY <1>1 DEF PassInv, HasSeen, Follows
<1>3. Alone(q) => Standing(q)
  BY <1>1 DEF PassInv, Alone, Standing, Follows
<1>4. Clean(q) => Mirrored(q)
  BY DEF Mirrored
<1>5. Alone(q) /\ Plain(q) /\ q.again => Repeats(q)
  BY <1>1 DEF PassInv, Alone, Plain, Repeats, Follows
<1>6. PassInv(q)
  BY <1>2, <1>3, <1>4, <1>5 DEF PassInv
<1>7. QED
  BY <1>6, ProceedInv

LEMMA NoJobs == \A x : ~InSeq(x, <<>>)
BY DEF InSeq

LEMMA HeadOrTail ==
  ASSUME NEW s \in Seq(Job), s # <<>>
  PROVE  /\ Head(s) \in Job /\ InSeq(Head(s), s) /\ Tail(s) \in Seq(Job)
         /\ \A x : InSeq(x, s) <=> x = Head(s) \/ InSeq(x, Tail(s))
<1>1. /\ Len(s) \in Nat \ {0} /\ Head(s) = s[1] /\ s[1] \in Job
      /\ Tail(s) \in Seq(Job) /\ Len(Tail(s)) = Len(s) - 1
      /\ \A k \in 1..Len(Tail(s)) : Tail(s)[k] = s[k + 1]
  BY HeadTailProperties, LenProperties, EmptySeq, ElementOfSeq
<1>2. InSeq(Head(s), s)
  BY <1>1 DEF InSeq
<1>3. ASSUME NEW x, InSeq(x, s) PROVE x = Head(s) \/ InSeq(x, Tail(s))
  <2>1. PICK k \in 1..Len(s) : s[k] = x
    BY <1>3 DEF InSeq
  <2>2. CASE k = 1
    BY <1>1, <2>1, <2>2
  <2>3. CASE k # 1
    <3>1. k - 1 \in 1..Len(Tail(s)) /\ Tail(s)[k - 1] = s[k]
      BY <1>1, <2>1, <2>3
    <3>2. QED
      BY <2>1, <3>1 DEF InSeq
  <2>4. QED
    BY <2>2, <2>3
<1>4. ASSUME NEW x, InSeq(x, Tail(s)) PROVE InSeq(x, s)
  <2>1. PICK k \in 1..Len(Tail(s)) : Tail(s)[k] = x
    BY <1>4 DEF InSeq
  <2>2. k + 1 \in 1..Len(s) /\ s[k + 1] = x
    BY <1>1, <2>1
  <2>3. QED
    BY <2>2 DEF InSeq
<1>5. QED
  BY <1>1, <1>2, <1>3, <1>4

-----------------------------------------------------------------------------
(* The steps that leave the graph alone.                                    *)

LEMMA AnyPass ==
  ASSUME IInv, NEW i \in Ingesters
  PROVE  pass[i] \in Pass /\ PassInv(pass[i])
BY DEF IInv

\* A pass that has met an error has to keep to the sources still.
LEMMA FailedInv ==
  ASSUME IInv, NEW i \in Ingesters, NEW p \in Pass, p = pass[i], NEW q \in Pass, Proceed(i, q),
         Follows(p, q), q.ok = FALSE, q.runs = p.runs, q.info = p.info,
         \/ q.at = p.at /\ q.todo \subseteq p.todo
         \/ q.at \notin SweepPhases /\ q.todo = {},
         q.jobs = <<>> \/ (q.jobs = p.jobs /\ q.at = p.at),
         Alone(p) /\ Plain(p) /\ p.again /\ ~p.created => ~q.created
  PROVE  IInv'
<1>1. PassInv(p)
  BY AnyPass
<1>2. Shaped(q)
  <2>1. q.todo \subseteq Todo(q.at)
    BY <1>1 DEF PassInv, Shaped
  <2>2. QED
    BY <1>1, <2>1 DEF PassInv, Shaped, Follows
<1>3. Foreseen(q)
  BY <1>1 DEF PassInv, HasSeen, Foreseen, Follows
<1>4. Alone(q) => Within(q)
  <2>1. SUFFICES ASSUME Within(p) PROVE Within(q)
    BY <1>1 DEF PassInv, Alone, Follows
  <2>2. ~q.opts.sweep =>
          /\ \A x \in q.info : <<x.run, x.path>> \in LiveRows /\ (x.manifest => x.path \in sidecars)
          /\ \A k \in 1..Len(q.jobs) : q.jobs[k] \in SourceJobs
    <3>1. q.jobs = <<>> => \A k \in 1..Len(q.jobs) : q.jobs[k] \in SourceJobs
      OBVIOUS
    <3>2. QED
      BY <2>1, <3>1 DEF Within, Follows
  <2>3. QED
    BY <2>1, <2>2 DEF Within, Follows
<1>5. ~Clean(q)
  BY DEF Clean
<1>6. Alone(q) /\ Plain(q) /\ q.again /\ ~p.created => ~q.created
  BY DEF Alone, Plain, Follows
<1>7. QED
  BY <1>2, <1>3, <1>4, <1>5, <1>6, OnwardInv

LEMMA ReadModelsInv ==
  ASSUME IInv, NEW i \in Ingesters, ReadModels(i)
  PROVE  IInv'
<1>1. PICK p \in Pass : p = pass[i] /\ PassInv(p)
  BY AnyPass
<1>2. PICK q : q = [p EXCEPT !.at = "models", !.todo = registered]
  OBVIOUS
<1>3. p.at = "start" /\ Proceed(i, q)
  BY <1>1, <1>2 DEF ReadModels, At
<1>4. /\ q.at = "models" /\ q.todo = registered /\ q.jobs = p.jobs /\ q.runs = p.runs
      /\ q.info = p.info /\ q.ok = p.ok /\ q.created = p.created /\ Follows(p, q)
  BY <1>2, <1>3 DEF Pass, Follows, Started
<1>5. registered \subseteq ModelIds /\ registered \subseteq NodeIds /\ registered \subseteq Items
  BY IngestAssumption DEF IInv, SourcesOK, Items
<1>6. q \in Pass
  BY <1>2, <1>5 DEF Pass, Points
<1>7. Shaped(q) /\ Foreseen(q)
  BY <1>1, <1>3, <1>4, <1>5 DEF PassInv, Shaped, HasSeen, Foreseen, Follows, Todo, EdgePhases, SweepPhases
<1>8. Alone(q) => Within(q)
  BY <1>1, <1>4 DEF PassInv, Alone, Within, Follows
<1>9. Clean(q) => Covered(q) /\ q.at # "ended"
  BY <1>4 DEF Covered, AfterModels, AfterRuns, AfterRows, AfterSweep
<1>10. Linked(q)
  BY <1>4 DEF Linked, AfterModels, AfterRuns, AfterRows, AfterEdges
<1>11. QED
  BY <1>1, <1>3, <1>4, <1>6, <1>7, <1>8, <1>9, <1>10, OnwardInv

LEMMA ReadRunsInv ==
  ASSUME IInv, NEW i \in Ingesters, ReadRuns(i)
  PROVE  IInv'
<1>1. PICK p \in Pass : p = pass[i] /\ PassInv(p)
  BY AnyPass
<1>2. PICK q : q = [p EXCEPT !.at = "runs", !.todo = LiveRuns, !.runs = LiveRuns]
  OBVIOUS
<1>3. p.at = "models" /\ p.todo = {} /\ p.jobs = <<>> /\ Proceed(i, q)
  BY <1>1, <1>2 DEF ReadRuns, At, Through
<1>4. /\ q.at = "runs" /\ q.todo = LiveRuns /\ q.jobs = p.jobs /\ q.runs = LiveRuns
      /\ q.info = p.info /\ q.ok = p.ok /\ q.created = p.created /\ Follows(p, q)
  BY <1>2, <1>3 DEF Pass, Follows, Started
<1>5. LiveRuns \subseteq RunIds /\ LiveRuns \subseteq NodeIds /\ LiveRuns \subseteq Items
  BY IngestAssumption, SourceSets DEF IInv, Items
<1>6. q \in Pass
  BY <1>2, <1>5 DEF Pass, Points
<1>7. Shaped(q) /\ Foreseen(q)
  BY <1>1, <1>3, <1>4, <1>5
     DEF PassInv, Shaped, HasSeen, Started, Foreseen, Follows, Todo, EdgePhases, SweepPhases
<1>8. Alone(q) => Within(q)
  BY <1>1, <1>4 DEF PassInv, Alone, Within, Follows
<1>9. Clean(q) => Covered(q) /\ q.at # "ended"
  BY <1>1, <1>3, <1>4
     DEF PassInv, Clean, Alone, Follows, Covered, AfterModels, AfterRuns, AfterRows, AfterSweep
<1>10. Linked(q)
  BY <1>4 DEF Linked, AfterModels, AfterRuns, AfterRows, AfterEdges
<1>11. QED
  BY <1>1, <1>3, <1>4, <1>6, <1>7, <1>8, <1>9, <1>10, OnwardInv

LEMMA ReadRowsInv ==
  ASSUME IInv, NEW i \in Ingesters, ReadRows(i)
  PROVE  IInv'
<1>1. PICK p \in Pass : p = pass[i] /\ PassInv(p)
  BY AnyPass
<1>2. PICK what : /\ what \subseteq LiveRows /\ (~p.opts.limit => what = LiveRows)
                  /\ Proceed(i, [p EXCEPT !.at = "rows", !.todo = what])
  BY <1>1 DEF ReadRows, Readable
<1>3. PICK q : q = [p EXCEPT !.at = "rows", !.todo = what]
  OBVIOUS
<1>4. p.at = "runs" /\ p.todo = {} /\ p.jobs = <<>> /\ Proceed(i, q)
  BY <1>1, <1>2, <1>3 DEF ReadRows, At, Through
<1>5. /\ q.at = "rows" /\ q.todo = what /\ q.jobs = p.jobs /\ q.runs = p.runs
      /\ q.info = p.info /\ q.ok = p.ok /\ q.created = p.created /\ Follows(p, q)
  BY <1>3, <1>4 DEF Pass, Follows, Started
<1>6. what \subseteq RunIds \X Paths /\ \A row \in what : row[2] \in Items
  BY <1>2, SourceSets DEF IInv, Items
<1>7. q \in Pass
  BY <1>3, <1>6 DEF Pass, Points
<1>8. Shaped(q) /\ Foreseen(q)
  BY <1>1, <1>4, <1>5, <1>6
     DEF PassInv, Shaped, HasSeen, Started, Foreseen, Follows, Todo, EdgePhases, SweepPhases
<1>9. Alone(q) => Within(q)
  BY <1>1, <1>2, <1>5 DEF PassInv, Alone, Within, Follows
<1>10. Clean(q) => Covered(q) /\ q.at # "ended"
  <2>1. SUFFICES ASSUME Clean(q) PROVE Covered(q)
    BY <1>5
  <2>2. Covered(p) /\ what = LiveRows
    BY <1>1, <1>2, <1>5, <2>1 DEF PassInv, Clean, Alone, Follows
  <2>3. registered \subseteq p.fresh /\ p.runs = LiveRuns /\ LiveRuns \subseteq p.fresh
    BY <1>4, <2>2 DEF Covered, AfterModels, Points
  <2>4. QED
    BY <1>5, <2>2, <2>3 DEF Covered, Follows, AfterModels, AfterRuns, AfterRows, AfterSweep
<1>11. Clean(q) => Linked(q)
  BY <1>2, <1>5 DEF Linked, Clean, Follows, AfterModels, AfterRuns, AfterRows, AfterEdges
<1>12. QED
  BY <1>1, <1>4, <1>5, <1>7, <1>8, <1>9, <1>10, <1>11, OnwardInv

\* An error with one of the items, or with all that is left of a phase.
LEMMA SkipInv ==
  ASSUME IInv, NEW i \in Ingesters, pass[i].at # "idle", NEW x, Proceed(i, Failed(Less(i, x)))
  PROVE  IInv'
<1>1. PICK p \in Pass : p = pass[i]
  BY AnyPass
<1>2. PICK q : q = [p EXCEPT !.todo = @ \ {x}, !.ok = FALSE]
  OBVIOUS
<1>3. q \in Pass
  BY <1>2 DEF Pass
<1>4. /\ q.at = p.at /\ q.todo \subseteq p.todo /\ q.jobs = p.jobs /\ q.runs = p.runs
      /\ q.info = p.info /\ q.ok = FALSE /\ q.created = p.created /\ Follows(p, q)
  BY <1>1, <1>2 DEF Pass, Follows, Started
<1>5. Proceed(i, q)
  <2>1. Failed(Less(i, x)) = q
    BY <1>1, <1>2 DEF Failed, Less, Pass
  <2>2. QED
    BY <2>1
<1>6. QED
  BY <1>1, <1>3, <1>4, <1>5, FailedInv

LEMMA MoveOnInv ==
  ASSUME IInv, NEW i \in Ingesters, pass[i].at # "idle", pass[i].jobs = <<>>,
         NEW where \in Points \ (SweepPhases \cup {"idle"}),
         Proceed(i, [pass[i] EXCEPT !.at = where, !.todo = {}, !.ok = FALSE])
  PROVE  IInv'
<1>1. PICK p \in Pass : p = pass[i]
  BY AnyPass
<1>2. PICK q : q = [p EXCEPT !.at = where, !.todo = {}, !.ok = FALSE]
  OBVIOUS
<1>3. q \in Pass
  BY <1>2 DEF Pass
<1>4. /\ q.at = where /\ q.todo = {} /\ q.jobs = <<>> /\ q.runs = p.runs
      /\ q.info = p.info /\ q.ok = FALSE /\ q.created = p.created /\ Follows(p, q)
  BY <1>1, <1>2 DEF Pass, Follows, Started
<1>5. Proceed(i, q)
  BY <1>1, <1>2
<1>6. QED
  BY <1>1, <1>3, <1>4, <1>5, FailedInv

LEMMA RaiseInv ==
  ASSUME IInv, NEW i \in Ingesters, pass[i].at \in {"sweep", "prune"}, Raise(i)
  PROVE  IInv'
<1>1. pass[i].jobs = <<>>
  BY AnyPass DEF PassInv, Shaped, EdgePhases
<1>2. "raised" \in Points \ (SweepPhases \cup {"idle"})
  BY DEF Points, SweepPhases
<1>3. QED
  BY <1>1, <1>2, MoveOnInv DEF Raise

LEMMA GiveUpInv ==
  ASSUME IInv, NEW i \in Ingesters, pass[i].jobs # <<>>, NEW made \in BOOLEAN,
         GiveUp(i, [pass[i] EXCEPT !.created = made]),
         Alone(pass[i]) /\ Plain(pass[i]) /\ pass[i].again /\ ~pass[i].created => ~made
  PROVE  IInv'
<1>1. PICK p \in Pass : p = pass[i] /\ PassInv(p)
  BY AnyPass
<1>2. PICK q : q = [p EXCEPT !.created = made, !.jobs = <<>>, !.ok = FALSE]
  OBVIOUS
<1>3. q \in Pass
  <2>1. <<>> \in Seq(Job)
    OBVIOUS
  <2>2. QED
    BY <1>2, <2>1 DEF Pass
<1>4. Started(p)
  BY <1>1 DEF PassInv, Shaped, EdgePhases, Started
<1>5. /\ q.at = p.at /\ q.todo \subseteq p.todo /\ q.jobs = <<>> /\ q.runs = p.runs
      /\ q.info = p.info /\ q.ok = FALSE /\ q.created = made /\ Follows(p, q)
  BY <1>2, <1>4 DEF Pass, Follows, Started
<1>6. Proceed(i, q)
  <2>1. Failed([[pass[i] EXCEPT !.created = made] EXCEPT !.jobs = <<>>]) = q
    BY <1>1, <1>2 DEF Failed, Pass
  <2>2. QED
    BY <2>1 DEF GiveUp
<1>7. QED
  BY <1>1, <1>3, <1>5, <1>6, FailedInv

LEMMA RejectTypeInv ==
  ASSUME IInv, NEW i \in Ingesters, RejectType(i)
  PROVE  IInv'
BY SkipInv DEF RejectType

LEMMA SkipSweptInv ==
  ASSUME IInv, NEW i \in Ingesters, SkipSwept(i)
  PROVE  IInv'
BY SkipInv DEF SkipSwept, At

\* One phase after another.
LEMMA PhaseInv ==
  ASSUME IInv, NEW i \in Ingesters, NEW p \in Pass, p = pass[i], Through(i), NEW where, NEW todo, NEW info,
         Proceed(i, [p EXCEPT !.at = where, !.todo = todo, !.info = info]),
         \/ p.at = "rows" /\ where = "row edges" /\ todo = p.info /\ info = p.info
         \/ p.at = "row edges" /\ where = "run edges" /\ todo = p.runs /\ info = p.info
         \/ p.at = "run edges" /\ p.opts.sweep /\ where = "sweep" /\ todo = sidecars /\ info = {}
         \/ p.at = "run edges" /\ ~p.opts.sweep /\ where = "prune" /\ todo = {} /\ info = p.info
         \/ p.at = "sweep" /\ where = "sweep edges" /\ todo = p.info /\ info = p.info
         \/ p.at = "sweep edges" /\ where = "prune" /\ todo = {} /\ info = p.info
  PROVE  IInv'
<1>1. PassInv(p) /\ p.todo = {} /\ p.jobs = <<>>
  BY AnyPass DEF Through
<1>2. PICK q : q = [p EXCEPT !.at = where, !.todo = todo, !.info = info]
  OBVIOUS
<1>3. sidecars \subseteq Paths /\ sidecars \subseteq NodeIds /\ RunIds \subseteq NodeIds
  BY IngestAssumption DEF IInv, SourcesOK
<1>4. p.info \subseteq Info /\ p.runs \subseteq RunIds
  BY DEF Pass
<1>5. todo \subseteq NodeIds \cup (RunIds \X Paths) \cup Info
  BY <1>3, <1>4
<1>6. where \in Points /\ info \subseteq Info /\ p.at # "idle" /\ where # "idle"
  BY <1>4 DEF Points
<1>7. q \in Pass
  BY <1>2, <1>5, <1>6 DEF Pass
<1>8. /\ q.at = where /\ q.todo = todo /\ q.jobs = <<>> /\ q.runs = p.runs
      /\ q.info = info /\ q.ok = p.ok /\ q.created = p.created /\ Follows(p, q)
  BY <1>1, <1>2, <1>6 DEF Pass, Follows, Started
<1>9. Shaped(q)
  <2>1. todo \subseteq Todo(where)
    BY <1>3, <1>4 DEF Todo
  <2>2. where \in SweepPhases => p.opts.sweep
    BY <1>1 DEF PassInv, Shaped, SweepPhases
  <2>3. QED
    BY <1>8, <2>1, <2>2 DEF Shaped, Follows
<1>10. Foreseen(q)
  BY <1>1, <1>6, <1>8 DEF PassInv, HasSeen, Started, Foreseen, Follows, Swept
<1>11. Alone(q) => Within(q)
  <2>1. SUFFICES ASSUME Within(p) PROVE Within(q)
    BY <1>1, <1>8 DEF PassInv, Alone, Follows
  <2>2. q.runs \subseteq LiveRuns
    BY <1>8, <2>1 DEF Within
  <2>3. \A k \in 1..Len(q.jobs) : q.jobs[k] \in SourceJobs
    <3>1. \A x : ~InSeq(x, q.jobs)
      BY <1>8, NoJobs
    <3>2. QED
      BY <3>1 DEF InSeq
  <2>4. \A x \in q.info : x \in p.info
    BY <1>8
  <2>5. ~q.opts.sweep => \A x \in q.info : <<x.run, x.path>> \in LiveRows /\ (x.manifest => x.path \in sidecars)
    BY <1>8, <2>1, <2>4 DEF Within, Follows
  <2>6. /\ q.at = "sweep" => q.todo \subseteq sidecars
        /\ q.at = "row edges" => q.todo \subseteq q.info
        /\ q.at = "run edges" => q.todo \subseteq q.runs
    BY <1>8
  <2>7. q.at \notin {"models", "runs", "rows"}
    BY <1>8
  <2>8. QED
    BY <2>2, <2>3, <2>5, <2>6, <2>7 DEF Within
<1>12. Clean(q) => Covered(q) /\ q.at # "ended"
  <2>1. q.at # "ended"
    BY <1>8
  <2>2. SUFFICES ASSUME Covered(p) PROVE Covered(q)
    BY <1>1, <1>8, <2>1 DEF PassInv, Clean, Alone, Follows
  <2>3. registered \subseteq p.fresh /\ p.runs = LiveRuns /\ LiveRuns \subseteq p.fresh
    BY <2>2 DEF Covered, AfterModels, AfterRuns, Points
  <2>4. Attached \subseteq p.fresh
    <3>1. CASE p.at = "rows"
      BY <1>1, <2>2, <3>1 DEF Covered, Attached
    <3>2. CASE p.at # "rows"
      BY <2>2, <3>2 DEF Covered, AfterModels, AfterRuns, AfterRows, Points
    <3>3. QED
      BY <3>1, <3>2
  <2>5. p.opts.sweep =>
           /\ where = "sweep" => sidecars \subseteq p.fresh \cup todo
           /\ where \in AfterSweep => sidecars \subseteq p.fresh
    BY <1>1, <2>2 DEF Covered, AfterSweep
  <2>6. where \notin {"models", "runs", "rows"}
    OBVIOUS
  <2>7. QED
    BY <1>8, <2>3, <2>4, <2>5, <2>6 DEF Covered, Follows
<1>13. Clean(q) /\ Plain(q) => Linked(q)
  <2>1. SUFFICES ASSUME Linked(p), Covered(p), ~p.opts.sweep PROVE Linked(q)
    BY <1>1, <1>8 DEF PassInv, Clean, Plain, Alone, Follows
  <2>2. p.at \notin SweepPhases
    BY <1>1, <2>1 DEF PassInv, Shaped
  <2>3. \A job : Kept(p, job) => Done(job, q.touched)
    <3>1. \A job : ~InSeq(job, p.jobs)
      BY <1>1, NoJobs
    <3>2. q.touched = p.touched
      BY <1>8 DEF Follows
    <3>3. QED
      BY <3>1, <3>2 DEF Kept
  <2>4. CASE p.at = "rows"
    <3>1. \A row \in LiveRows : InfoOf(row) \in q.info
      BY <1>1, <1>8, <2>1, <2>4 DEF Linked
    <3>2. q.at = "row edges" /\ q.todo = q.info
      BY <1>8, <2>4
    <3>3. QED
      BY <3>1, <3>2 DEF Linked, AfterEdges
  <2>5. CASE p.at = "row edges"
    <3>1. \A row \in LiveRows : InfoOf(row) \in q.info
      BY <1>8, <2>1, <2>5 DEF Linked, AfterModels, AfterRuns, AfterRows, Points
    <3>2. q.at = "run edges" /\ q.todo = q.runs /\ q.info = p.info
      BY <1>8, <2>5
    <3>3. \A x \in q.info : \A job \in Needed(x) : Done(job, q.touched)
      BY <1>1, <2>1, <2>3, <2>5, <3>2 DEF Linked
    <3>4. QED
      BY <3>1, <3>2, <3>3 DEF Linked, AfterEdges
  <2>6. CASE p.at = "run edges"
    <3>1. q.at = "prune" /\ q.info = p.info /\ q.runs = p.runs /\ q.touched = p.touched
      BY <1>8, <2>1, <2>6 DEF Follows
    <3>2. \A row \in LiveRows : InfoOf(row) \in q.info
      BY <3>1, <2>1, <2>6 DEF Linked, AfterModels, AfterRuns, AfterRows, Points
    <3>3. \A x \in q.info : \A job \in Needed(x) : Done(job, q.touched)
      BY <2>1, <2>6, <3>1 DEF Linked
    <3>4. \A r \in q.runs : \A job \in References(r) : Done(job, q.touched)
      BY <1>1, <2>1, <2>3, <2>6, <3>1 DEF Linked
    <3>5. QED
      BY <3>1, <3>2, <3>3, <3>4 DEF Linked
  <2>7. QED
    BY <2>2, <2>4, <2>5, <2>6 DEF SweepPhases
<1>14. QED
  BY <1>1, <1>2, <1>7, <1>8, <1>9, <1>10, <1>11, <1>12, <1>13, OnwardInv

LEMMA NextPhaseInv ==
  ASSUME IInv, NEW i \in Ingesters, NextPhase(i)
  PROVE  IInv'
<1>1. PICK p \in Pass : p = pass[i]
  BY AnyPass
<1>2. Through(i)
  BY DEF NextPhase
<1>3. \A where, todo : [p EXCEPT !.at = where, !.todo = todo]
                        = [p EXCEPT !.at = where, !.todo = todo, !.info = p.info]
  BY DEF Pass
<1>4. PICK where, todo, info :
        /\ Proceed(i, [p EXCEPT !.at = where, !.todo = todo, !.info = info])
        /\ \/ p.at = "rows" /\ where = "row edges" /\ todo = p.info /\ info = p.info
           \/ p.at = "row edges" /\ where = "run edges" /\ todo = p.runs /\ info = p.info
           \/ p.at = "run edges" /\ p.opts.sweep /\ where = "sweep" /\ todo = sidecars /\ info = {}
           \/ p.at = "run edges" /\ ~p.opts.sweep /\ where = "prune" /\ todo = {} /\ info = p.info
           \/ p.at = "sweep" /\ where = "sweep edges" /\ todo = p.info /\ info = p.info
           \/ p.at = "sweep edges" /\ where = "prune" /\ todo = {} /\ info = p.info
  <2> DEFINE to(where, todo) == Proceed(i, [p EXCEPT !.at = where, !.todo = todo])
  <2>1. \/ p.at = "rows" /\ to("row edges", p.info)
        \/ p.at = "row edges" /\ to("run edges", p.runs)
        \/ /\ p.at = "run edges" /\ p.opts.sweep
           /\ Proceed(i, [p EXCEPT !.at = "sweep", !.todo = sidecars, !.info = {}])
        \/ p.at = "run edges" /\ ~p.opts.sweep /\ to("prune", {})
        \/ p.at = "sweep" /\ to("sweep edges", p.info)
        \/ p.at = "sweep edges" /\ to("prune", {})
    BY <1>1 DEF NextPhase, At
  <2>2. \A where, todo : to(where, todo) =>
          Proceed(i, [p EXCEPT !.at = where, !.todo = todo, !.info = p.info])
    BY <1>3
  <2> HIDE DEF to
  <2>3. CASE p.at = "rows" /\ to("row edges", p.info)
    BY <2>2, <2>3
  <2>4. CASE p.at = "row edges" /\ to("run edges", p.runs)
    BY <2>2, <2>4
  <2>5. CASE /\ p.at = "run edges" /\ p.opts.sweep
             /\ Proceed(i, [p EXCEPT !.at = "sweep", !.todo = sidecars, !.info = {}])
    BY <2>5
  <2>6. CASE p.at = "run edges" /\ ~p.opts.sweep /\ to("prune", {})
    BY <2>2, <2>6
  <2>7. CASE p.at = "sweep" /\ to("sweep edges", p.info)
    BY <2>2, <2>7
  <2>8. CASE p.at = "sweep edges" /\ to("prune", {})
    BY <2>2, <2>8
  <2>9. QED
    BY <2>1, <2>3, <2>4, <2>5, <2>6, <2>7, <2>8
<1>5. QED
  BY <1>1, <1>2, <1>4, PhaseInv

\* The edges of an item are those its row, or its run, asks for.
LEMMA ItemJobs ==
  ASSUME SourcesOK, NEW x \in Info, <<x.run, x.path>> \in LiveRows, x.manifest => x.path \in sidecars
  PROVE  /\ \A job : InSeq(job, InfoJobs(x)) => job \in SourceJobs
         /\ Known(x.run) => \A job \in Needed(x) : InSeq(job, InfoJobs(x))
<1>1. PICK row \in LiveRows : row = <<x.run, x.path>>
  OBVIOUS
<1>2. InfoOf(row).run = x.run /\ InfoOf(row).path = x.path /\ (x.manifest => InfoOf(row).manifest)
  BY <1>1 DEF InfoOf
<1>3. Needed(x) \subseteq Needed(InfoOf(row))
  BY <1>2 DEF Needed
<1>4. Needed(x) \subseteq SourceJobs
  BY <1>3, InfoHasJobs DEF SourceJobs
<1>5. QED
  BY <1>4, InfoHasJobs

LEMMA TakeItemInv ==
  ASSUME IInv, NEW i \in Ingesters, TakeItem(i)
  PROVE  IInv'
<1>1. PICK p \in Pass : p = pass[i] /\ PassInv(p)
  BY AnyPass
<1>2. PICK x, taken :
        /\ x \in p.todo
        /\ taken = IF p.at = "run edges" THEN RefJob(x) ELSE InfoJobs(x)
        /\ Proceed(i, [p EXCEPT !.todo = @ \ {x}, !.jobs = taken])
  <2>1. PICK x \in p.todo :
          Proceed(i, [Less(i, x) EXCEPT !.jobs = IF At(i, "run edges") THEN RefJob(x) ELSE InfoJobs(x)])
    BY <1>1 DEF TakeItem
  <2>2. PICK taken : taken = IF p.at = "run edges" THEN RefJob(x) ELSE InfoJobs(x)
    OBVIOUS
  <2>3. [Less(i, x) EXCEPT !.jobs = taken] = [p EXCEPT !.todo = @ \ {x}, !.jobs = taken]
    BY <1>1 DEF Less, Pass
  <2>4. taken = IF At(i, "run edges") THEN RefJob(x) ELSE InfoJobs(x)
    BY <1>1, <2>2 DEF At
  <2>5. QED
    BY <2>1, <2>2, <2>3, <2>4
<1>3. PICK q : q = [p EXCEPT !.todo = @ \ {x}, !.jobs = taken]
  OBVIOUS
<1>4. p.at \in EdgePhases /\ p.jobs = <<>> /\ Proceed(i, q)
  BY <1>1, <1>2, <1>3 DEF TakeItem, EdgePhases
<1>5. p.at = "run edges" => x \in RunIds
  BY <1>1, <1>2 DEF PassInv, Shaped, Todo
<1>6. p.at # "run edges" => x \in Info
  BY <1>1, <1>2, <1>4 DEF PassInv, Shaped, Todo, EdgePhases
<1>7. taken \in Seq(Job)
  <2>1. CASE p.at = "run edges"
    BY <1>2, <1>5, <2>1, ReferenceJobs
  <2>2. CASE p.at # "run edges"
    BY <1>2, <1>6, <2>2, InfoHasJobs
  <2>3. QED
    BY <2>1, <2>2
<1>8. q \in Pass
  BY <1>3, <1>7 DEF Pass
<1>9. /\ q.at = p.at /\ q.todo = p.todo \ {x} /\ q.jobs = taken /\ q.runs = p.runs
      /\ q.info = p.info /\ q.ok = p.ok /\ q.created = p.created /\ Follows(p, q)
  BY <1>3, <1>4 DEF Pass, Follows, Started, EdgePhases
<1>10. Shaped(q)
  BY <1>1, <1>4, <1>9 DEF PassInv, Shaped, Follows
<1>11. Foreseen(q)
  BY <1>4, <1>9 DEF Foreseen, EdgePhases
<1>12. ASSUME Within(p), ~p.opts.sweep
       PROVE  /\ \A job : InSeq(job, taken) => job \in SourceJobs
              /\ p.at = "run edges" => \A job \in References(x) : InSeq(job, taken)
              /\ p.at # "run edges" => x.run \in LiveRuns /\ (Known(x.run) => \A job \in Needed(x) : InSeq(job, taken))
  <2>1. CASE p.at = "run edges"
    <3>1. x \in LiveRuns
      BY <1>2, <1>12, <2>1 DEF Within
    <3>2. \A job : InSeq(job, taken) <=> job \in References(x)
      BY <1>2, <1>5, <2>1, ReferenceJobs
    <3>3. References(x) \subseteq SourceJobs
      <4>1. References(x) \subseteq Job
        BY <1>5, <2>1, ReferenceJobs
      <4>2. QED
        BY <3>1, <4>1 DEF SourceJobs
    <3>4. QED
      BY <2>1, <3>2, <3>3
  <2>2. CASE p.at # "run edges"
    <3>1. p.at = "row edges"
      BY <1>1, <1>4, <1>12, <2>2 DEF PassInv, Shaped, EdgePhases, SweepPhases
    <3>2. x \in Info /\ <<x.run, x.path>> \in LiveRows /\ (x.manifest => x.path \in sidecars)
      BY <1>2, <1>6, <1>12, <3>1 DEF Within
    <3>3. SourcesOK /\ taken = InfoJobs(x)
      BY <1>2, <2>2 DEF IInv
    <3>4. x.run \in LiveRuns
      BY <3>2, <3>3, SourceSets
    <3>5. QED
      BY <2>2, <3>2, <3>3, <3>4, ItemJobs
  <2>3. QED
    BY <2>1, <2>2
<1>13. Alone(q) => Within(q)
  <2>1. SUFFICES ASSUME Within(p) PROVE Within(q)
    BY <1>1, <1>9 DEF PassInv, Alone, Follows
  <2>2. ~q.opts.sweep => \A k \in 1..Len(q.jobs) : q.jobs[k] \in SourceJobs
    BY <1>9, <1>12, <2>1 DEF InSeq, Follows
  <2>3. ~q.opts.sweep => \A y \in q.info : <<y.run, y.path>> \in LiveRows /\ (y.manifest => y.path \in sidecars)
    BY <1>9, <2>1 DEF Within, Follows
  <2>4. q.todo \subseteq p.todo
    BY <1>9
  <2>5. QED
    BY <1>9, <2>1, <2>2, <2>3, <2>4 DEF Within
<1>14. Clean(q) => Covered(q) /\ q.at # "ended"
  <2>1. SUFFICES ASSUME Covered(p) PROVE Covered(q)
    BY <1>1, <1>4, <1>9 DEF PassInv, Clean, Alone, Follows, EdgePhases
  <2>2. q.at \notin {"models", "runs", "rows", "sweep"}
    BY <1>4, <1>9 DEF EdgePhases
  <2>3. QED
    BY <1>9, <2>1, <2>2 DEF Covered, Follows
<1>15. Clean(q) /\ Plain(q) => Linked(q)
  <2>1. SUFFICES ASSUME Linked(p), Covered(p), Within(p), Standing(p), ~p.opts.sweep PROVE Linked(q)
    BY <1>1, <1>9 DEF PassInv, Clean, Plain, Alone, Follows
  <2>2. p.at \in {"row edges", "run edges"}
    BY <1>1, <1>4, <2>1 DEF PassInv, Shaped, EdgePhases, SweepPhases
  <2>3. \A job : Kept(p, job) => Done(job, q.touched)
    <3>1. \A job : ~InSeq(job, p.jobs)
      BY <1>4, NoJobs
    <3>2. q.touched = p.touched
      BY <1>9 DEF Follows
    <3>3. QED
      BY <3>1, <3>2 DEF Kept
  <2>4. \A row \in LiveRows : InfoOf(row) \in q.info
    BY <1>9, <2>1, <2>2 DEF Linked, AfterModels, AfterRuns, AfterRows, Points
  <2>5. CASE p.at = "row edges"
    <3>1. x.run \in LiveRuns /\ x.run \in p.fresh
      BY <1>12, <2>1, <2>5 DEF Covered, AfterModels, AfterRuns, Points
    <3>2. Known(x.run)
      BY <3>1, <2>1 DEF Standing, Alive, Known
    <3>3. \A job \in Needed(x) : InSeq(job, q.jobs)
      BY <1>9, <1>12, <2>1, <2>5, <3>2
    <3>4. \A y \in q.info : y \in q.todo \/ \A job \in Needed(y) : Kept(q, job)
      <4>1. SUFFICES ASSUME NEW y \in q.info, y \notin q.todo PROVE \A job \in Needed(y) : Kept(q, job)
        OBVIOUS
      <4>2. CASE y = x
        BY <3>3, <4>2 DEF Kept
      <4>3. CASE y # x
        <5>1. y \in p.info /\ y \notin p.todo
          BY <1>9, <4>1, <4>3
        <5>2. \A job \in Needed(y) : Done(job, q.touched)
          BY <2>1, <2>3, <2>5, <5>1 DEF Linked
        <5>3. QED
          BY <5>2 DEF Kept
      <4>4. QED
        BY <4>2, <4>3
    <3>5. q.at = "row edges"
      BY <1>9, <2>5
    <3>6. QED
      BY <2>4, <3>4, <3>5 DEF Linked, AfterEdges
  <2>6. CASE p.at = "run edges"
    <3>1. \A job \in References(x) : InSeq(job, q.jobs)
      BY <1>9, <1>12, <2>1, <2>6
    <3>2. \A r \in q.runs : r \in q.todo \/ \A job \in References(r) : Kept(q, job)
      <4>1. SUFFICES ASSUME NEW r \in q.runs, r \notin q.todo PROVE \A job \in References(r) : Kept(q, job)
        OBVIOUS
      <4>2. CASE r = x
        BY <3>1, <4>2 DEF Kept
      <4>3. CASE r # x
        <5>1. r \in p.runs /\ r \notin p.todo
          BY <1>9, <4>1, <4>3
        <5>2. \A job \in References(r) : Done(job, q.touched)
          BY <2>1, <2>3, <2>6, <5>1 DEF Linked
        <5>3. QED
          BY <5>2 DEF Kept
      <4>4. QED
        BY <4>2, <4>3
    <3>3. q.at = "run edges" /\ q.info = p.info /\ q.touched = p.touched
      BY <1>9, <2>6 DEF Follows
    <3>4. \A y \in q.info : \A job \in Needed(y) : Done(job, q.touched)
      BY <2>1, <2>6, <3>3 DEF Linked
    <3>5. QED
      BY <2>4, <3>2, <3>3, <3>4 DEF Linked, AfterEdges
  <2>7. QED
    BY <2>2, <2>5, <2>6
<1>16. QED
  BY <1>1, <1>4, <1>8, <1>9, <1>10, <1>11, <1>13, <1>14, <1>15, OnwardInv

-----------------------------------------------------------------------------
(* The steps that write an edge, or find that there is none to write.       *)

\* At most one of the nodes an entry may stand for decides.
LEMMA OneCandidate ==
  ASSUME NEW job \in Job, "entry" \in DOMAIN job,
         NEW k \in Candidates(job), NEW l \in Candidates(job)
  PROVE  k = l
<1>1. job.entry \in Seq(RunIds \cup Paths) /\ DOMAIN job.entry = 1..Len(job.entry)
  BY JobKinds, LenProperties
<1>2. k \in Nat /\ l \in Nat /\ k >= 1 /\ l >= 1
  BY <1>1, LenProperties DEF Candidates
<1>3. ~(k < l)
  <2>1. SUFFICES ASSUME k < l PROVE FALSE
    OBVIOUS
  <2>2. k \in 1..(l - 1)
    BY <1>2, <2>1
  <2>3. QED
    BY <2>2 DEF Candidates
<1>4. ~(l < k)
  <2>1. SUFFICES ASSUME l < k PROVE FALSE
    OBVIOUS
  <2>2. l \in 1..(k - 1)
    BY <1>2, <2>1
  <2>3. QED
    BY <2>2 DEF Candidates
<1>5. QED
  BY <1>2, <1>3, <1>4

\* What a pass that nothing disturbed is about to do, the sources ask for.
LEMMA HeadIsAsked ==
  ASSUME NEW p \in Pass, Within(p), ~p.opts.sweep, p.jobs # <<>>
  PROVE  Head(p.jobs) \in SourceJobs
<1>1. p.jobs \in Seq(Job)
  BY DEF Pass
<1>2. InSeq(Head(p.jobs), p.jobs)
  BY <1>1, HeadOrTail
<1>3. QED
  BY <1>2 DEF Within, InSeq

\* The first of the jobs is done: `written' are the edges that were written.
Advanced(p, written) == [p EXCEPT !.jobs = Tail(@), !.touched = @ \cup written]

LEMMA JobDone ==
  ASSUME IInv, NEW p \in Pass, PassInv(p), p.jobs # <<>>, NEW written \in SUBSET Edge, NEW q,
         q = Advanced(p, written),
         UNCHANGED nodes, UNCHANGED sources, Done(Head(p.jobs), q.touched)
  PROVE  /\ q \in Pass /\ Started(p) /\ q.at = p.at /\ q.at \in EdgePhases
         /\ q.opts = p.opts /\ q.fresh = p.fresh /\ q.seen = p.seen /\ q.quiet = p.quiet /\ q.ok = p.ok
         /\ q.created = p.created /\ q.again = p.again /\ q.touched = p.touched \cup written
         /\ Shaped(q) /\ Foreseen(q)
         /\ Alone(q) => Within(q)
         /\ Clean(q) => Covered(q)
         /\ Clean(q) /\ Plain(q) => Linked(q) /\ Linked(q)'
<1>1. p.jobs \in Seq(Job) /\ p.at \in EdgePhases /\ p.touched \subseteq Edge
  BY DEF Pass, PassInv, Shaped
<1>2. PICK job \in Job, rest \in Seq(Job) :
        job = Head(p.jobs) /\ rest = Tail(p.jobs) /\ \A x : InSeq(x, p.jobs) <=> x = job \/ InSeq(x, rest)
  BY <1>1, HeadOrTail
<1>3. /\ q.at = p.at /\ q.todo = p.todo /\ q.jobs = rest /\ q.runs = p.runs /\ q.info = p.info
      /\ q.opts = p.opts /\ q.fresh = p.fresh /\ q.seen = p.seen /\ q.quiet = p.quiet /\ q.ok = p.ok
      /\ q.created = p.created /\ q.again = p.again /\ q.touched = p.touched \cup written
  BY <1>2 DEF Pass, Advanced
<1>4. q \in Pass
  <2>1. p.touched \cup written \subseteq Edge
    BY <1>1
  <2>2. q = [p EXCEPT !.jobs = rest, !.touched = p.touched \cup written]
    BY <1>2 DEF Advanced
  <2>3. QED
    BY <1>2, <2>1, <2>2 DEF Pass
<1>5. Started(p)
  BY <1>1 DEF Started, EdgePhases
<1>6. Shaped(q)
  BY <1>1, <1>3 DEF PassInv, Shaped
<1>7. Foreseen(q)
  BY <1>1, <1>3 DEF Foreseen, EdgePhases
<1>8. Alone(q) => Within(q)
  <2>1. SUFFICES ASSUME Within(p) PROVE Within(q)
    BY <1>3 DEF PassInv, Alone, Started
  <2>2. ~q.opts.sweep => \A k \in 1..Len(q.jobs) : q.jobs[k] \in SourceJobs
    <3>1. SUFFICES ASSUME ~p.opts.sweep, NEW k \in 1..Len(rest) PROVE rest[k] \in SourceJobs
      BY <1>3
    <3>2. InSeq(rest[k], p.jobs)
      BY <1>2 DEF InSeq
    <3>3. QED
      BY <2>1, <3>1, <3>2 DEF Within, InSeq
  <2>3. ~q.opts.sweep => \A y \in q.info : <<y.run, y.path>> \in LiveRows /\ (y.manifest => y.path \in sidecars)
    BY <1>3, <2>1 DEF Within
  <2>4. QED
    BY <1>3, <2>1, <2>2, <2>3 DEF Within
<1>9. Clean(q) => Covered(q)
  BY <1>3 DEF PassInv, Clean, Alone, Started, Covered
<1>10. Clean(q) /\ Plain(q) => Linked(q)
  <2>1. SUFFICES ASSUME Linked(p), Within(p), ~p.opts.sweep PROVE Linked(q)
    BY <1>3 DEF PassInv, Clean, Plain, Alone, Started
  <2>2. \A x \in Job : Done(x, p.touched) => Done(x, q.touched)
    BY <1>3 DEF Done
  <2>3. \A x \in Job : Kept(p, x) => Kept(q, x)
    BY <1>2, <1>3, <2>2 DEF Kept
  <2>4. \A x \in q.info : Needed(x) \subseteq Job
    BY <1>3, InfoHasJobs DEF Pass
  <2>5. \A r \in q.runs : References(r) \subseteq Job
    BY <1>3, ReferenceJobs DEF Pass
  <2>6. p.at \in {"row edges", "run edges"}
    BY <1>1, <2>1 DEF PassInv, Shaped, EdgePhases, SweepPhases
  <2>7. \A row \in LiveRows : InfoOf(row) \in q.info
    BY <1>3, <2>1, <2>6 DEF Linked, AfterModels, AfterRuns, AfterRows, Points
  <2>8. CASE p.at = "row edges"
    <3>1. \A x \in q.info : x \in q.todo \/ \A y \in Needed(x) : Kept(q, y)
      BY <1>3, <2>1, <2>3, <2>4, <2>8 DEF Linked
    <3>2. QED
      BY <1>3, <2>7, <2>8, <3>1 DEF Linked, AfterEdges
  <2>9. CASE p.at = "run edges"
    <3>1. \A x \in q.info : \A y \in Needed(x) : Done(y, q.touched)
      BY <1>3, <2>1, <2>2, <2>4, <2>9 DEF Linked
    <3>2. \A r \in q.runs : r \in q.todo \/ \A y \in References(r) : Kept(q, y)
      BY <1>3, <2>1, <2>3, <2>5, <2>9 DEF Linked
    <3>3. QED
      BY <1>3, <2>7, <2>9, <3>1, <3>2 DEF Linked, AfterEdges
  <2>10. QED
    BY <2>6, <2>8, <2>9
<1>11. Linked(q) => Linked(q)'
  <2>1. \A x : Done(x, q.touched) => Done(x, q.touched)'
    BY SameDone
  <2>2. \A x : Kept(q, x) => Kept(q, x)'
    BY <2>1 DEF Kept
  <2>3. LiveRows' = LiveRows /\ \A row : InfoOf(row)' = InfoOf(row)
    BY SameSources
  <2>4. QED
    BY <2>1, <2>2, <2>3 DEF Linked
<1>12. QED
  BY <1>1, <1>3, <1>4, <1>5, <1>6, <1>7, <1>8, <1>9, <1>10, <1>11

\* An entry that stands for nothing in the graph, or for the artifact itself.
LEMMA NoParentInv ==
  ASSUME IInv, NEW i \in Ingesters, pass[i].jobs # <<>>, Proceed(i, Rest(i)), Done(Head(pass[i].jobs), {})
  PROVE  IInv'
<1>1. PICK p \in Pass : p = pass[i] /\ PassInv(p)
  BY AnyPass
<1>2. PICK none \in SUBSET Edge : none = {}
  OBVIOUS
<1>3. PICK q : q = Advanced(p, none)
  OBVIOUS
<1>4. Rest(i) = q
  BY <1>1, <1>2, <1>3 DEF Rest, Pass, Advanced
<1>5. q.touched = p.touched
  BY <1>2, <1>3 DEF Pass, Advanced
<1>6. Done(Head(p.jobs), q.touched)
  BY <1>1 DEF Done
<1>7. UNCHANGED nodes /\ UNCHANGED sources /\ Proceed(i, q)
  BY <1>4 DEF Proceed, Become, graph
<1>8. p.jobs # <<>> /\ UNCHANGED nodes /\ UNCHANGED sources
  BY <1>1, <1>7
<1>9. /\ q \in Pass /\ Started(p) /\ q.at = p.at /\ q.at \in EdgePhases
      /\ q.opts = p.opts /\ q.fresh = p.fresh /\ q.seen = p.seen /\ q.quiet = p.quiet /\ q.ok = p.ok
      /\ q.created = p.created /\ q.again = p.again
      /\ Shaped(q) /\ Foreseen(q)
      /\ Alone(q) => Within(q)
      /\ Clean(q) => Covered(q)
      /\ Clean(q) /\ Plain(q) => Linked(q)
  BY <1>1, <1>3, <1>6, <1>8, JobDone
<1>10. Follows(p, q)
  BY <1>5, <1>9 DEF Follows, Started
<1>11. q.at # "ended"
  BY <1>9 DEF EdgePhases
<1>12. QED
  BY <1>1, <1>7, <1>9, <1>10, <1>11, OnwardInv

\* _upsert_edge for the first of the jobs.
LEMMA WriteEdgeInv ==
  ASSUME IInv, NEW i \in Ingesters, pass[i].jobs # <<>>, NEW e \in Edge, WriteEdge(i, e),
         Done(Head(pass[i].jobs), {e}), Done(Head(pass[i].jobs), edges) => e \in edges
  PROVE  IInv'
<1>1. PICK p \in Pass : p = pass[i] /\ PassInv(p)
  BY AnyPass
<1>2. PICK made \in BOOLEAN : made = (p.created \/ e \notin edges)
  OBVIOUS
<1>3. [pass[i] EXCEPT !.created = @ \/ e \notin edges] = [p EXCEPT !.created = made]
  BY <1>1, <1>2 DEF Pass
<1>4. Alone(p) /\ Plain(p) /\ p.again => Derived /\ (~p.created => ~made)
  <2>1. SUFFICES ASSUME Alone(p), Plain(p), p.again PROVE Derived /\ (~p.created => ~made)
    OBVIOUS
  <2>2. Within(p) /\ Derived
    BY <1>1, <2>1 DEF PassInv, Repeats
  <2>3. Head(p.jobs) \in SourceJobs
    BY <1>1, <2>1, <2>2, HeadIsAsked DEF Plain
  <2>4. e \in edges
    BY <1>1, <2>2, <2>3 DEF Derived
  <2>5. QED
    BY <1>2, <2>2, <2>4
<1>5. CASE ~EndsAlive(e)
  <2>1. GiveUp(i, [pass[i] EXCEPT !.created = made])
    BY <1>1, <1>3, <1>5 DEF WriteEdge
  <2>2. QED
    BY <1>1, <1>4, <2>1, GiveUpInv
<1>6. CASE EndsAlive(e)
  <2>1. PICK put \in SUBSET Edge : put = {e}
    OBVIOUS
  <2>2. PICK c \in Pass : c = [p EXCEPT !.created = made]
    BY DEF Pass
  <2>3. c.created = made /\ c.jobs = p.jobs /\ c.touched = p.touched /\ c.at = p.at /\ c.opts = p.opts
        /\ c.todo = p.todo /\ c.runs = p.runs /\ c.info = p.info /\ c.fresh = p.fresh /\ c.ok = p.ok
        /\ c.quiet = p.quiet /\ c.again = p.again /\ c.seen = p.seen
    BY <2>2 DEF Pass
  <2>4. PassInv(c)
    <3>1. Shaped(c) /\ HasSeen(c)
      BY <1>1, <2>3 DEF PassInv, Shaped, HasSeen, Started, Foreseen
    <3>2. Alone(c) => Within(c) /\ Standing(c)
      BY <1>1, <2>3 DEF PassInv, Alone, Started, Within, Standing
    <3>3. Clean(c) => Covered(c) /\ Mirrored(c)
      BY <1>1, <2>3 DEF PassInv, Clean, Alone, Started, Covered, Mirrored
    <3>4. Clean(c) /\ Plain(c) => Linked(c)
      BY <1>1, <2>3 DEF PassInv, Clean, Plain, Alone, Started, Linked, Kept
    <3>5. Alone(c) /\ Plain(c) /\ c.again => Repeats(c)
      BY <1>1, <1>4, <2>3 DEF PassInv, Alone, Plain, Started, Repeats
    <3>6. QED
      BY <3>1, <3>2, <3>3, <3>4, <3>5 DEF PassInv
  <2>5. PICK q : q = Advanced(c, put)
    OBVIOUS
  <2>6. /\ PutEdge(e) /\ settled' = {}
        /\ Become(i, q, {})
    <3>1. [[pass[i] EXCEPT !.created = @ \/ e \notin edges] EXCEPT !.jobs = Tail(@), !.touched = @ \cup {e}] = q
      BY <1>3, <2>1, <2>2, <2>5 DEF Advanced
    <3>2. QED
      BY <1>6, <3>1 DEF WriteEdge
  <2>7. nodes' = nodes /\ edges' = edges \cup {e} /\ hidden' = hidden \ {e}
    BY <2>6 DEF PutEdge
  <2>8. UNCHANGED nodes /\ UNCHANGED sources
    BY <2>6, <2>7 DEF Become
  <2>9. Done(Head(c.jobs), q.touched)
    <3>1. e \in q.touched
      BY <2>1, <2>5 DEF Pass, Advanced
    <3>2. \A job : Done(job, {e}) => Done(job, q.touched)
      BY <3>1 DEF Done
    <3>3. QED
      BY <1>1, <2>3, <3>2
  <2>10. /\ q \in Pass /\ Started(c) /\ q.at = c.at /\ q.at \in EdgePhases
         /\ q.opts = c.opts /\ q.fresh = c.fresh /\ q.seen = c.seen /\ q.quiet = c.quiet /\ q.ok = c.ok
         /\ q.created = c.created /\ q.again = c.again /\ q.touched = c.touched \cup put
         /\ Shaped(q) /\ Foreseen(q)
         /\ Alone(q) => Within(q)
         /\ Clean(q) => Covered(q)
         /\ Clean(q) /\ Plain(q) => Linked(q)'
    <3>1. c.jobs # <<>>
      BY <1>1, <2>3
    <3>2. QED
      BY <2>4, <2>5, <2>8, <2>9, <3>1, JobDone
  <2>11. PassInv(q)'
    <3>1. /\ LiveRuns' = LiveRuns /\ LiveRows' = LiveRows /\ Attached' = Attached /\ Items' = Items
          /\ SourceJobs' = SourceJobs /\ registered' = registered /\ sidecars' = sidecars
      BY <2>8, SameSources
    <3>2. HasSeen(q)'
      BY <2>4, <2>10, <3>1 DEF PassInv, HasSeen, Started, Swept
    <3>3. Alone(q) => Within(q)'
      BY <2>10, <3>1 DEF Within
    <3>4. Alone(q) => Standing(q)'
      <4>1. SUFFICES ASSUME Standing(c) PROVE Standing(q)'
        BY <2>4, <2>10 DEF PassInv, Alone
      <4>2. q.touched \subseteq (edges \ hidden)'
        BY <2>1, <2>7, <2>10, <4>1 DEF Standing
      <4>3. QED
        BY <2>7, <2>10, <3>1, <4>1, <4>2 DEF Standing, Alive
    <3>5. Clean(q) => Covered(q)' /\ Mirrored(q)'
      <4>1. Covered(q) => Covered(q)'
        BY <3>1 DEF Covered
      <4>2. Mirrored(q)'
        BY <2>10 DEF Mirrored, EdgePhases
      <4>3. QED
        BY <2>10, <4>1, <4>2
    <3>6. Alone(q) /\ Plain(q) /\ q.again => Repeats(q)'
      <4>1. SUFFICES ASSUME Derived, ~q.created PROVE Repeats(q)'
        BY <2>4, <2>10 DEF PassInv, Alone, Plain, Repeats
      <4>2. SameNodes(NodeIds) /\ edges \subseteq edges'
        BY <2>7 DEF SameNodes, Known
      <4>3. Derived'
        BY <2>8, <4>1, <4>2, DerivedKept DEF IInv
      <4>4. QED
        BY <4>1, <4>3 DEF Repeats
    <3>7. QED
      BY <2>10, <3>2, <3>3, <3>4, <3>5, <3>6 DEF PassInv
  <2>12. GraphTypeOK' /\ EdgesHaveEnds'
    <3>1. GraphTypeOK'
      BY <2>7 DEF IInv, GraphTypeOK
    <3>2. EdgesHaveEnds'
      BY <1>6, <2>7 DEF IInv, EdgesHaveEnds, EndsKnown, EndsAlive, Known, Alive
    <3>3. QED
      BY <3>1, <3>2
  <2>13. PICK none \in SUBSET NodeIds : none = {} /\ q = Freshened(q, none)
    BY <2>10, NothingPut
  <2>14. Become(i, q, none) /\ settled' \subseteq Options /\ \A opts \in settled' : Derived'
    BY <2>6, <2>13
  <2>15. QED
    BY <2>10, <2>11, <2>12, <2>13, <2>14, Stepped
<1>7. QED
  BY <1>5, <1>6

LEMMA NextJob ==
  ASSUME IInv, NEW i \in Ingesters, pass[i].jobs # <<>>
  PROVE  Head(pass[i].jobs) \in Job
<1>1. pass[i].jobs \in Seq(Job)
  BY AnyPass DEF Pass
<1>2. QED
  BY <1>1, HeadOrTail

LEMMA WriteRunEdgeInv ==
  ASSUME IInv, NEW i \in Ingesters, WriteRunEdge(i)
  PROVE  IInv'
<1>1. PICK job \in Job : job = Head(pass[i].jobs)
  BY NextJob DEF WriteRunEdge
<1>2. pass[i].jobs # <<>> /\ "edge" \in DOMAIN job /\ WriteEdge(i, job.edge)
  BY <1>1 DEF WriteRunEdge
<1>3. job.edge \in Edge /\ "entry" \notin DOMAIN job /\ "model" \notin DOMAIN job
  BY <1>2, JobKinds
<1>4. Done(job, {job.edge}) /\ (Done(job, edges) => job.edge \in edges)
  BY <1>2, <1>3 DEF Done
<1>5. QED
  BY <1>1, <1>2, <1>3, <1>4, WriteEdgeInv

LEMMA WriteParentEdgeInv ==
  ASSUME IInv, NEW i \in Ingesters, WriteParentEdge(i)
  PROVE  IInv'
<1>1. PICK job \in Job : job = Head(pass[i].jobs)
  BY NextJob DEF WriteParentEdge
<1>2. /\ pass[i].jobs # <<>> /\ "entry" \in DOMAIN job
      /\ \/ \E k \in Candidates(job) :
              \/ job.entry[k] = job.of /\ Proceed(i, Rest(i))
              \/ /\ job.entry[k] # job.of
                 /\ WriteEdge(i, <<job.of, job.entry[k], "derived_from">>)
         \/ Candidates(job) = {} /\ Proceed(i, Rest(i))
  BY <1>1 DEF WriteParentEdge
<1>3. /\ job.of \in Paths /\ job.entry \in Seq(RunIds \cup Paths)
      /\ "edge" \notin DOMAIN job /\ "model" \notin DOMAIN job
  BY <1>2, JobKinds
<1>4. CASE Candidates(job) = {} /\ Proceed(i, Rest(i))
  <2>1. Done(job, {})
    BY <1>3, <1>4 DEF Done
  <2>2. QED
    BY <1>1, <1>2, <1>4, <2>1, NoParentInv
<1>5. ASSUME NEW k \in Candidates(job), job.entry[k] = job.of, Proceed(i, Rest(i))
      PROVE  IInv'
  <2>1. \A l \in Candidates(job) : l = k
    BY <1>2, OneCandidate
  <2>2. Done(job, {})
    BY <1>3, <1>5, <2>1 DEF Done
  <2>3. QED
    BY <1>1, <1>2, <1>5, <2>2, NoParentInv
<1>6. ASSUME NEW k \in Candidates(job), job.entry[k] # job.of,
             WriteEdge(i, <<job.of, job.entry[k], "derived_from">>)
      PROVE  IInv'
  <2>1. \A l \in Candidates(job) : l = k
    BY <1>2, OneCandidate
  <2>2. PICK e : e = <<job.of, job.entry[k], "derived_from">>
    OBVIOUS
  <2>3. job.entry[k] \in RunIds \cup Paths
    <3>1. k \in DOMAIN job.entry
      BY DEF Candidates
    <3>2. QED
      BY <1>3, <3>1, LenProperties, ElementOfSeq
  <2>4. e \in Edge
    BY <1>3, <2>2, <2>3, IngestAssumption DEF Edge, IngestRelations
  <2>5. Done(job, {e})
    BY <1>3, <2>1, <2>2 DEF Done
  <2>6. Done(job, edges) => e \in edges
    BY <1>2, <1>6, <2>2 DEF Done
  <2>7. QED
    BY <1>1, <1>2, <1>6, <2>2, <2>4, <2>5, <2>6, WriteEdgeInv
<1>7. QED
  BY <1>2, <1>4, <1>5, <1>6

-----------------------------------------------------------------------------
(* The steps that put a node.                                               *)

Affirmed(new, n) == [new EXCEPT !.created = @ \/ ~Exists(n), !.fresh = @ \cup {n}]

LEMMA AffirmedPass ==
  ASSUME NEW new \in Pass, NEW n \in NodeIds
  PROVE  \E q \in Pass :
           /\ q = Affirmed(new, n) /\ q.fresh = new.fresh \cup {n}
           /\ q.at = new.at /\ q.opts = new.opts /\ q.todo = new.todo /\ q.jobs = new.jobs /\ q.runs = new.runs
           /\ q.info = new.info /\ q.touched = new.touched /\ q.ok = new.ok /\ q.quiet = new.quiet
           /\ q.again = new.again /\ q.seen = new.seen
<1>1. PICK fresh \in SUBSET NodeIds : fresh = new.fresh \cup {n}
  BY DEF Pass
<1>2. PICK made \in BOOLEAN : made = (new.created \/ ~Exists(n))
  OBVIOUS
<1>3. PICK q : q = [new EXCEPT !.created = made, !.fresh = fresh]
  OBVIOUS
<1>4. q \in Pass
  BY <1>3 DEF Pass
<1>5. q = Affirmed(new, n)
  BY <1>1, <1>2, <1>3 DEF Pass, Affirmed
<1>6. QED
  BY <1>1, <1>3, <1>4, <1>5 DEF Pass

\* q is the pass afterwards.
LEMMA AffirmInv ==
  ASSUME IInv, NEW i \in Ingesters, NEW p \in Pass, p = pass[i], Started(p), p.at # "ended",
         NEW n \in NodeIds, NEW new \in Pass, Affirm(i, n, new),
         NEW q \in Pass, q = Affirmed(new, n),
         new.opts = p.opts, new.touched = p.touched, new.fresh = p.fresh, new.quiet = p.quiet,
         new.again = p.again, new.seen = p.seen, new.at = p.at, new.runs = p.runs, new.created = p.created,
         Shaped(q), Foreseen(q), Alone(q) => Within(q),
         Alone(q) => n \in ModelIds \cup LiveRuns \cup Attached \cup (IF p.opts.sweep THEN sidecars ELSE {}),
         Clean(q) => Covered(q), Clean(q) /\ Plain(q) => Linked(q)',
         Alone(p) /\ Plain(p) /\ p.again /\ Derived => Known(n)
  PROVE  IInv'
<1>1. PassInv(p)
  BY AnyPass
<1>2. PICK made \in BOOLEAN : made = (new.created \/ ~Exists(n))
  OBVIOUS
<1>3. PICK put \in SUBSET NodeIds : put = {n}
  OBVIOUS
<1>4. PICK c \in Pass : c = [new EXCEPT !.created = made]
  BY DEF Pass
<1>5. q = Freshened(c, put)
  BY <1>2, <1>3, <1>4 DEF Pass, Freshened, Affirmed
<1>6. /\ q.at = p.at /\ q.opts = p.opts /\ q.touched = p.touched /\ q.fresh = p.fresh \cup {n}
      /\ q.quiet = p.quiet /\ q.again = p.again /\ q.seen = p.seen /\ q.created = made /\ q.runs = p.runs
  BY <1>3, <1>4, <1>5 DEF Pass, Freshened
<1>7. PutNode(n) /\ Become(i, c, put) /\ settled' = {}
  <2>1. [new EXCEPT !.created = @ \/ ~Exists(n)] = c
    BY <1>2, <1>4 DEF Pass
  <2>2. QED
    BY <1>3, <2>1 DEF Affirm
<1>8. UNCHANGED sources /\ edges' = edges /\ hidden' = hidden /\ nodes' = [nodes EXCEPT ![n] = "live"]
  BY <1>7 DEF Become, PutNode
<1>9. nodes \in [NodeIds -> {"absent", "live", "deleted"}]
  BY DEF IInv, GraphTypeOK
<1>10. GraphTypeOK' /\ EdgesHaveEnds'
  <2>1. \A m \in NodeIds : Known(m) => Known(m)'
    BY <1>8, <1>9 DEF Known
  <2>2. edges \subseteq Edge /\ \A e \in edges : EndsKnown(e) /\ Ends(e) \subseteq NodeIds
    BY DEF IInv, GraphTypeOK, EdgesHaveEnds, Ends, Edge, Source, Target
  <2>3. EdgesHaveEnds'
    BY <1>8, <2>1, <2>2 DEF EdgesHaveEnds, EndsKnown
  <2>4. GraphTypeOK'
    BY <1>8, <1>9 DEF IInv, GraphTypeOK
  <2>5. QED
    BY <2>3, <2>4
<1>11. /\ LiveRuns' = LiveRuns /\ LiveRows' = LiveRows /\ Attached' = Attached /\ Items' = Items
       /\ SourceJobs' = SourceJobs /\ registered' = registered /\ sidecars' = sidecars
  BY <1>8, SameSources
<1>12. PassInv(q)'
  <2>1. HasSeen(q)'
    BY <1>1, <1>6, <1>11 DEF PassInv, HasSeen, Started, Swept
  <2>2. Alone(q) => Within(q)'
    BY <1>11 DEF Within
  <2>3. Alone(q) => Standing(q)'
    <3>1. SUFFICES ASSUME Alone(q), Standing(p) PROVE Standing(q)'
      BY <1>1, <1>6 DEF PassInv, Alone, Started
    <3>2. \A m \in q.fresh : Alive(m)'
      <4>1. \A m \in p.fresh : m \in NodeIds /\ Alive(m)
        BY <3>1 DEF Standing, Pass
      <4>2. QED
        BY <1>6, <1>8, <1>9, <4>1 DEF Alive
    <3>3. q.fresh \cap (RunIds \cup Paths) \subseteq
            LiveRuns \cup Attached \cup (IF q.opts.sweep THEN sidecars ELSE {})
      BY <1>6, <3>1, IngestAssumption DEF Standing
    <3>4. q.touched \subseteq edges \ hidden
      BY <1>6, <3>1 DEF Standing
    <3>5. QED
      BY <1>8, <1>11, <3>2, <3>3, <3>4 DEF Standing
  <2>4. Clean(q) => Covered(q)' /\ Mirrored(q)'
    <3>1. Covered(q) => Covered(q)'
      BY <1>11 DEF Covered
    <3>2. Mirrored(q)'
      BY <1>6 DEF Mirrored
    <3>3. QED
      BY <3>1, <3>2
  <2>5. Alone(q) /\ Plain(q) /\ q.again => Repeats(q)'
    <3>1. SUFFICES ASSUME Derived, ~p.created, Known(n) PROVE Repeats(q)'
      BY <1>1, <1>6 DEF PassInv, Alone, Plain, Started, Repeats
    <3>2. SameNodes(NodeIds)
      BY <1>8, <1>9, <3>1 DEF SameNodes, Known
    <3>3. Derived'
      BY <1>8, <3>1, <3>2, DerivedKept DEF IInv
    <3>4. ~q.created
      BY <1>2, <1>6, <3>1 DEF Exists
    <3>5. QED
      BY <3>3, <3>4 DEF Repeats
  <2>6. QED
    BY <2>1, <2>2, <2>3, <2>4, <2>5 DEF PassInv
<1>13. QED
  BY <1>5, <1>6, <1>7, <1>10, <1>12, Stepped

LEMMA AffirmModelInv ==
  ASSUME IInv, NEW i \in Ingesters, AffirmModel(i)
  PROVE  IInv'
<1>1. PICK p \in Pass : p = pass[i] /\ PassInv(p)
  BY AnyPass
<1>2. PICK m \in p.todo : Affirm(i, m, Less(i, m))
  BY <1>1 DEF AffirmModel
<1>3. p.at = "models" /\ p.jobs = <<>>
  BY <1>1 DEF AffirmModel, At, PassInv, Shaped, EdgePhases
<1>4. p.todo \subseteq ModelIds /\ m \in ModelIds /\ m \in NodeIds
  BY <1>1, <1>2, <1>3, IngestAssumption DEF PassInv, Shaped, Todo
<1>5. PICK new \in Pass : new = [p EXCEPT !.todo = @ \ {m}] /\ new = Less(i, m)
  BY <1>1 DEF Less, Pass
<1>6. /\ new.at = p.at /\ new.todo = p.todo \ {m} /\ new.jobs = p.jobs /\ new.runs = p.runs
      /\ new.info = p.info /\ new.ok = p.ok /\ new.created = p.created /\ new.opts = p.opts
      /\ new.touched = p.touched /\ new.fresh = p.fresh /\ new.quiet = p.quiet /\ new.again = p.again
      /\ new.seen = p.seen
  BY <1>5 DEF Pass
<1>7. PICK q \in Pass :
        /\ q = Affirmed(new, m) /\ q.fresh = p.fresh \cup {m}
        /\ q.at = p.at /\ q.opts = p.opts /\ q.todo = p.todo \ {m} /\ q.jobs = p.jobs /\ q.runs = p.runs
        /\ q.info = p.info /\ q.ok = p.ok /\ q.quiet = p.quiet /\ q.seen = p.seen
  BY <1>4, <1>6, AffirmedPass
<1>8. Shaped(q) /\ Foreseen(q)
  BY <1>1, <1>3, <1>7 DEF PassInv, Shaped, HasSeen, Started, Foreseen
<1>9. Alone(q) => Within(q)
  BY <1>1, <1>3, <1>7 DEF PassInv, Alone, Started, Within
<1>10. Clean(q) => Covered(q)
  <2>1. SUFFICES ASSUME Covered(p) PROVE Covered(q)
    BY <1>1, <1>3, <1>7 DEF PassInv, Clean, Alone, Started
  <2>2. q.at = "models" /\ registered \subseteq q.fresh \cup q.todo
    BY <1>3, <1>7, <2>1 DEF Covered
  <2>3. QED
    BY <2>2 DEF Covered, AfterModels, AfterRuns, AfterRows, AfterSweep
<1>11. Linked(q)'
  BY <1>3, <1>7 DEF Linked, AfterModels, AfterRuns, AfterRows, AfterEdges
<1>12. Alone(p) /\ Plain(p) /\ p.again /\ Derived => Known(m)
  BY <1>1, <1>2, <1>3 DEF PassInv, Within, Derived
<1>13. Started(p) /\ p.at # "ended" /\ Affirm(i, m, new)
  BY <1>2, <1>3, <1>5 DEF Started
<1>14. QED
  BY <1>1, <1>4, <1>6, <1>7, <1>8, <1>9, <1>10, <1>11, <1>12, <1>13, AffirmInv

LEMMA AffirmRunInv ==
  ASSUME IInv, NEW i \in Ingesters, AffirmRun(i)
  PROVE  IInv'
<1>1. PICK p \in Pass : p = pass[i] /\ PassInv(p)
  BY AnyPass
<1>2. PICK r \in p.todo : Affirm(i, r, Less(i, r))
  BY <1>1 DEF AffirmRun
<1>3. p.at = "runs" /\ p.jobs = <<>>
  BY <1>1 DEF AffirmRun, At, PassInv, Shaped, EdgePhases
<1>4. p.todo \subseteq RunIds /\ r \in RunIds /\ r \in NodeIds
  BY <1>1, <1>2, <1>3, IngestAssumption DEF PassInv, Shaped, Todo
<1>5. PICK new \in Pass : new = [p EXCEPT !.todo = @ \ {r}] /\ new = Less(i, r)
  BY <1>1 DEF Less, Pass
<1>6. /\ new.at = p.at /\ new.todo = p.todo \ {r} /\ new.jobs = p.jobs /\ new.runs = p.runs
      /\ new.info = p.info /\ new.ok = p.ok /\ new.created = p.created /\ new.opts = p.opts
      /\ new.touched = p.touched /\ new.fresh = p.fresh /\ new.quiet = p.quiet /\ new.again = p.again
      /\ new.seen = p.seen
  BY <1>5 DEF Pass
<1>7. PICK q \in Pass :
        /\ q = Affirmed(new, r) /\ q.fresh = p.fresh \cup {r}
        /\ q.at = p.at /\ q.opts = p.opts /\ q.todo = p.todo \ {r} /\ q.jobs = p.jobs /\ q.runs = p.runs
        /\ q.info = p.info /\ q.ok = p.ok /\ q.quiet = p.quiet /\ q.seen = p.seen
  BY <1>4, <1>6, AffirmedPass
<1>8. Shaped(q) /\ Foreseen(q)
  BY <1>1, <1>3, <1>7 DEF PassInv, Shaped, HasSeen, Started, Foreseen
<1>9. Alone(q) => Within(q) /\ r \in LiveRuns
  BY <1>1, <1>2, <1>3, <1>7 DEF PassInv, Alone, Started, Within
<1>10. Clean(q) => Covered(q)
  <2>1. SUFFICES ASSUME Covered(p) PROVE Covered(q)
    BY <1>1, <1>3, <1>7 DEF PassInv, Clean, Alone, Started
  <2>2. registered \subseteq p.fresh /\ p.runs = LiveRuns /\ LiveRuns \subseteq p.fresh \cup p.todo
    BY <1>3, <2>1 DEF Covered, AfterModels, Points
  <2>3. q.at = "runs" /\ registered \subseteq q.fresh /\ q.runs = LiveRuns /\ LiveRuns \subseteq q.fresh \cup q.todo
    BY <1>3, <1>7, <2>2
  <2>4. QED
    BY <2>3 DEF Covered, AfterRuns, AfterRows, AfterSweep
<1>11. Linked(q)'
  BY <1>3, <1>7 DEF Linked, AfterModels, AfterRuns, AfterRows, AfterEdges
<1>12. Alone(p) /\ Plain(p) /\ p.again /\ Derived => Known(r)
  BY <1>1, <1>2, <1>3 DEF PassInv, Within, Derived
<1>13. Started(p) /\ p.at # "ended" /\ Affirm(i, r, new)
  BY <1>2, <1>3, <1>5 DEF Started
<1>14. QED
  BY <1>1, <1>4, <1>6, <1>7, <1>8, <1>9, <1>10, <1>11, <1>12, <1>13, AffirmInv

LEMMA AffirmRowInv ==
  ASSUME IInv, NEW i \in Ingesters, NEW p \in Pass, p = pass[i], NEW row, NEW ok \in BOOLEAN, NEW manifest \in BOOLEAN,
         AffirmRow(i, row, manifest, [p EXCEPT !.todo = @ \ {row}, !.ok = ok]),
         manifest => row[2] \in sidecars, ok => p.ok /\ manifest = (row[2] \in sidecars)
  PROVE  IInv'
<1>1. PassInv(p)
  BY AnyPass
<1>2. p.at = "rows" /\ row \in p.todo /\ p.jobs = <<>>
  BY <1>1 DEF AffirmRow, At, PassInv, Shaped, EdgePhases
<1>3. PICK r, n, x : r = row[1] /\ n = row[2] /\ x = [path |-> n, run |-> r, manifest |-> manifest]
  OBVIOUS
<1>4. row \in RunIds \X Paths /\ row = <<r, n>> /\ r \in RunIds /\ n \in Paths /\ n \in NodeIds
  BY <1>1, <1>2, <1>3, IngestAssumption DEF PassInv, Shaped, Todo
<1>5. x \in Info /\ x.run = r /\ x.path = n /\ x.manifest = manifest
  BY <1>3, <1>4 DEF Info
<1>6. PICK info \in SUBSET Info : info = p.info \cup {x}
  BY <1>5 DEF Pass
<1>7. PICK new \in Pass : new = [p EXCEPT !.todo = @ \ {row}, !.ok = ok, !.info = info]
  BY DEF Pass
<1>8. Affirm(i, n, new)
  <2>1. [[p EXCEPT !.todo = @ \ {row}, !.ok = ok] EXCEPT !.info = @ \cup
           {[path |-> row[2], run |-> row[1], manifest |-> manifest]}] = new
    BY <1>3, <1>6, <1>7 DEF Pass
  <2>2. QED
    BY <1>3, <2>1 DEF AffirmRow
<1>9. /\ new.at = p.at /\ new.todo = p.todo \ {row} /\ new.jobs = p.jobs /\ new.runs = p.runs
      /\ new.info = info /\ new.ok = ok /\ new.created = p.created /\ new.opts = p.opts
      /\ new.touched = p.touched /\ new.fresh = p.fresh /\ new.quiet = p.quiet /\ new.again = p.again
      /\ new.seen = p.seen
  BY <1>7 DEF Pass
<1>10. PICK q \in Pass :
         /\ q = Affirmed(new, n) /\ q.fresh = p.fresh \cup {n}
         /\ q.at = p.at /\ q.opts = p.opts /\ q.todo = p.todo \ {row} /\ q.jobs = p.jobs /\ q.runs = p.runs
         /\ q.info = info /\ q.ok = ok /\ q.quiet = p.quiet /\ q.seen = p.seen
  BY <1>4, <1>9, AffirmedPass
<1>11. Shaped(q) /\ Foreseen(q)
  BY <1>1, <1>2, <1>10 DEF PassInv, Shaped, HasSeen, Started, Foreseen
<1>12. SourcesOK /\ \A m \in Attached : m \in Paths
  BY SourceSets DEF IInv
<1>13. Within(p) => row \in LiveRows /\ n \in Attached
  BY <1>2, <1>3, <1>12, SourceSets DEF Within
<1>14. Alone(q) => Within(q) /\ n \in Attached
  <2>1. SUFFICES ASSUME Within(p) PROVE Within(q) /\ n \in Attached
    BY <1>1, <1>2, <1>10 DEF PassInv, Alone, Started
  <2>2. <<x.run, x.path>> \in LiveRows /\ (x.manifest => x.path \in sidecars)
    BY <1>3, <1>4, <1>5, <1>13, <2>1
  <2>3. ~q.opts.sweep => \A y \in q.info : <<y.run, y.path>> \in LiveRows /\ (y.manifest => y.path \in sidecars)
    BY <1>6, <1>10, <2>1, <2>2 DEF Within
  <2>4. ~q.opts.sweep => \A k \in 1..Len(q.jobs) : q.jobs[k] \in SourceJobs
    BY <1>10, <2>1 DEF Within
  <2>5. q.at = "rows" /\ q.todo \subseteq LiveRows /\ q.runs \subseteq LiveRuns
    BY <1>2, <1>10, <2>1 DEF Within
  <2>6. QED
    BY <1>13, <2>1, <2>3, <2>4, <2>5 DEF Within
<1>15. Clean(q) => Covered(q)
  <2>1. SUFFICES ASSUME Covered(p) PROVE Covered(q)
    BY <1>1, <1>2, <1>10 DEF PassInv, Clean, Alone, Started
  <2>2. /\ registered \subseteq p.fresh /\ p.runs = LiveRuns /\ LiveRuns \subseteq p.fresh
        /\ \A w \in LiveRows : w \in p.todo \/ w[2] \in p.fresh
    BY <1>2, <2>1 DEF Covered, AfterModels, AfterRuns, Points
  <2>3. /\ q.at = "rows" /\ registered \subseteq q.fresh /\ q.runs = LiveRuns /\ LiveRuns \subseteq q.fresh
        /\ \A w \in LiveRows : w \in q.todo \/ w[2] \in q.fresh
    BY <1>2, <1>3, <1>10, <2>2
  <2>4. QED
    BY <2>3 DEF Covered, AfterRows, AfterSweep
<1>16. Clean(q) /\ Plain(q) => Linked(q)'
  <2>1. SUFFICES ASSUME Linked(p), manifest = (n \in sidecars) PROVE Linked(q)'
    BY <1>1, <1>2, <1>3, <1>10 DEF PassInv, Clean, Alone, Plain, Started
  <2>2. InfoOf(row) = x
    BY <1>3, <2>1 DEF InfoOf
  <2>3. \A w \in LiveRows : w \in q.todo \/ InfoOf(w) \in q.info
    <3>1. \A w \in LiveRows : w \in p.todo \/ InfoOf(w) \in p.info
      BY <1>2, <2>1 DEF Linked
    <3>2. QED
      BY <1>6, <1>10, <2>2, <3>1
  <2>4. LiveRows' = LiveRows /\ \A w : InfoOf(w)' = InfoOf(w)
    BY <1>8, SameSources DEF Affirm, Become
  <2>5. \A w \in LiveRows' : w \in q.todo \/ InfoOf(w)' \in q.info
    BY <2>3, <2>4
  <2>6. q.at = "rows"
    BY <1>2, <1>10
  <2>7. QED
    BY <2>5, <2>6 DEF Linked, AfterRows, AfterEdges
<1>17. Alone(p) /\ Plain(p) /\ p.again /\ Derived => Known(n)
  BY <1>1, <1>13 DEF PassInv, Derived
<1>18. Started(p) /\ p.at # "ended"
  BY <1>2 DEF Started
<1>19. QED
  BY <1>4, <1>8, <1>9, <1>10, <1>11, <1>14, <1>15, <1>16, <1>17, <1>18, AffirmInv

LEMMA AffirmSweptInv ==
  ASSUME IInv, NEW i \in Ingesters, AffirmSwept(i)
  PROVE  IInv'
<1>1. PICK p \in Pass : p = pass[i] /\ PassInv(p)
  BY AnyPass
<1>2. p.at = "sweep" /\ p.jobs = <<>> /\ p.opts.sweep
  BY <1>1 DEF AffirmSwept, At, PassInv, Shaped, EdgePhases, SweepPhases
<1>3. CASE Raise(i)
  BY <1>1, <1>2, <1>3, RaiseInv
<1>4. ASSUME NEW n \in p.todo \cap sidecars,
             Affirm(i, n, [Less(i, n) EXCEPT !.info = @ \cup
                             {[path |-> n, run |-> NoModel, manifest |-> TRUE]}])
      PROVE  IInv'
  <2>1. n \in Paths /\ n \in NodeIds
    BY <1>4, IngestAssumption DEF IInv, SourcesOK
  <2>2. PICK x \in Info : x = [path |-> n, run |-> NoModel, manifest |-> TRUE]
    BY <2>1 DEF Info
  <2>3. PICK info \in SUBSET Info : info = p.info \cup {x}
    BY DEF Pass
  <2>4. PICK new \in Pass : new = [p EXCEPT !.todo = @ \ {n}, !.info = info]
    BY DEF Pass
  <2>5. Affirm(i, n, new)
    <3>1. [Less(i, n) EXCEPT !.info = @ \cup {[path |-> n, run |-> NoModel, manifest |-> TRUE]}] = new
      BY <1>1, <2>2, <2>3, <2>4 DEF Pass, Less
    <3>2. QED
      BY <1>4, <3>1
  <2>6. /\ new.at = p.at /\ new.todo = p.todo \ {n} /\ new.jobs = p.jobs /\ new.runs = p.runs
        /\ new.info = info /\ new.ok = p.ok /\ new.created = p.created /\ new.opts = p.opts
        /\ new.touched = p.touched /\ new.fresh = p.fresh /\ new.quiet = p.quiet /\ new.again = p.again
        /\ new.seen = p.seen
    BY <2>4 DEF Pass
  <2>7. PICK q \in Pass :
          /\ q = Affirmed(new, n) /\ q.fresh = p.fresh \cup {n}
          /\ q.at = p.at /\ q.opts = p.opts /\ q.todo = p.todo \ {n} /\ q.jobs = p.jobs /\ q.runs = p.runs
          /\ q.info = info /\ q.ok = p.ok /\ q.quiet = p.quiet /\ q.seen = p.seen
    BY <2>1, <2>6, AffirmedPass
  <2>8. Shaped(q) /\ Foreseen(q)
    BY <1>1, <1>2, <2>7 DEF PassInv, Shaped, HasSeen, Started, Foreseen
  <2>9. Alone(q) => Within(q)
    BY <1>1, <1>2, <2>7 DEF PassInv, Alone, Started, Within
  <2>10. Clean(q) => Covered(q)
    <3>1. SUFFICES ASSUME Covered(p) PROVE Covered(q)
      BY <1>1, <1>2, <2>7 DEF PassInv, Clean, Alone, Started
    <3>2. /\ registered \subseteq p.fresh /\ p.runs = LiveRuns /\ LiveRuns \subseteq p.fresh
          /\ Attached \subseteq p.fresh /\ sidecars \subseteq p.fresh \cup p.todo
      BY <1>2, <3>1 DEF Covered, AfterModels, AfterRuns, AfterRows, Points
    <3>3. /\ q.at = "sweep" /\ registered \subseteq q.fresh /\ q.runs = LiveRuns /\ LiveRuns \subseteq q.fresh
          /\ Attached \subseteq q.fresh /\ sidecars \subseteq q.fresh \cup q.todo
      BY <1>2, <2>7, <3>2
    <3>4. QED
      BY <3>3 DEF Covered, AfterSweep
  <2>11. ~Plain(p) /\ ~Plain(q)
    BY <1>2, <2>7 DEF Plain
  <2>12. Started(p) /\ p.at # "ended"
    BY <1>2 DEF Started
  <2>13. n \in ModelIds \cup LiveRuns \cup Attached \cup (IF p.opts.sweep THEN sidecars ELSE {})
    BY <1>2, <1>4
  <2>14. QED
    BY <1>1, <2>1, <2>5, <2>6, <2>7, <2>8, <2>9, <2>10, <2>11, <2>12, <2>13, AffirmInv
<1>5. QED
  BY <1>1, <1>3, <1>4 DEF AffirmSwept

LEMMA WriteReferenceInv ==
  ASSUME IInv, NEW i \in Ingesters, WriteReference(i)
  PROVE  IInv'
<1>1. PICK p \in Pass : p = pass[i] /\ PassInv(p)
  BY AnyPass
<1>2. PICK job \in Job : job = Head(p.jobs)
  BY <1>1, NextJob DEF WriteReference
<1>3. /\ p.jobs # <<>> /\ "model" \in DOMAIN job
      /\ \/ ~Exists(job.model) /\ Affirm(i, job.model, p)
         \/ Exists(job.model) /\ WriteEdge(i, <<job.from, job.model, "references">>)
  BY <1>1, <1>2 DEF WriteReference
<1>4. /\ job.from \in RunIds \cup Paths /\ job.model \in ModelIds
      /\ "edge" \notin DOMAIN job /\ "entry" \notin DOMAIN job
  BY <1>3, JobKinds
<1>5. PICK e, n : e = <<job.from, job.model, "references">> /\ n = job.model
  OBVIOUS
<1>6. e \in Edge /\ n \in ModelIds /\ n \in NodeIds /\ n \in Ends(e)
  BY <1>4, <1>5, IngestAssumption DEF Edge, IngestRelations, Ends, Source, Target
<1>7. Done(job, {e}) /\ (Done(job, edges) => e \in edges)
  BY <1>3, <1>4, <1>5 DEF Done
<1>8. CASE WriteEdge(i, e)
  BY <1>1, <1>2, <1>3, <1>6, <1>7, <1>8, WriteEdgeInv
<1>9. CASE ~Exists(n) /\ Affirm(i, n, p)
  <2>1. p.at \in EdgePhases
    BY <1>1, <1>3 DEF PassInv, Shaped
  <2>2. PICK q \in Pass :
          /\ q = Affirmed(p, n) /\ q.fresh = p.fresh \cup {n}
          /\ q.at = p.at /\ q.opts = p.opts /\ q.todo = p.todo /\ q.jobs = p.jobs /\ q.runs = p.runs
          /\ q.info = p.info /\ q.touched = p.touched /\ q.ok = p.ok /\ q.quiet = p.quiet /\ q.seen = p.seen
    BY <1>6, AffirmedPass
  <2>3. Shaped(q) /\ Foreseen(q)
    BY <1>1, <2>1, <2>2 DEF PassInv, Shaped, Foreseen, EdgePhases
  <2>4. Alone(q) => Within(q)
    BY <1>1, <2>1, <2>2 DEF PassInv, Alone, Started, Within
  <2>5. Clean(q) => Covered(q)
    <3>1. SUFFICES ASSUME Covered(p) PROVE Covered(q)
      BY <1>1, <2>1, <2>2 DEF PassInv, Clean, Alone, Started
    <3>2. q.at \notin {"models", "runs", "rows", "sweep"}
      BY <2>1, <2>2 DEF EdgePhases
    <3>3. p.fresh \subseteq q.fresh
      BY <2>2
    <3>4. QED
      BY <2>2, <3>1, <3>2, <3>3 DEF Covered
  <2>6. nodes' = [nodes EXCEPT ![n] = "live"] /\ UNCHANGED sources
    BY <1>9 DEF Affirm, PutNode, Become
  <2>7. Clean(q) /\ Plain(q) => Linked(q)'
    <3>1. SUFFICES ASSUME Linked(p), ~p.opts.sweep PROVE Linked(q)'
      BY <1>1, <2>1, <2>2 DEF PassInv, Clean, Alone, Plain, Started
    <3>2. SameNodes(RunIds \cup Paths)
      <4>1. n \notin RunIds \cup Paths /\ nodes \in [NodeIds -> {"absent", "live", "deleted"}]
            /\ RunIds \cup Paths \subseteq NodeIds
        BY <1>6, IngestAssumption DEF IInv, GraphTypeOK
      <4>2. QED
        BY <2>6, <4>1 DEF SameNodes, Known
    <3>3. \A x \in Job : Done(x, p.touched) => Done(x, q.touched)'
      <4>1. PICK E : E = p.touched /\ E = q.touched
        BY <2>2
      <4>2. \A x \in Job : Done(x, E) => Done(x, E)'
        BY <3>2, DoneKept
      <4>3. QED
        BY <4>1, <4>2
    <3>4. \A x \in Job : Kept(p, x) => Kept(q, x)'
      BY <2>2, <3>3 DEF Kept
    <3>5. \A x \in q.info : Needed(x) \subseteq Job
      BY <2>2, InfoHasJobs DEF Pass
    <3>6. \A r \in q.runs : References(r) \subseteq Job
      BY <2>2, ReferenceJobs DEF Pass
    <3>7. p.at \in {"row edges", "run edges"}
      BY <1>1, <2>1, <3>1 DEF PassInv, Shaped, EdgePhases, SweepPhases
    <3>8. \A row \in LiveRows : InfoOf(row) \in q.info
      BY <2>2, <3>1, <3>7 DEF Linked, AfterModels, AfterRuns, AfterRows, Points
    <3>9. LiveRows' = LiveRows /\ \A row : InfoOf(row)' = InfoOf(row)
      BY <2>6, SameSources
    <3>10. \A row \in LiveRows' : InfoOf(row)' \in q.info
      BY <3>8, <3>9
    <3>11. CASE p.at = "row edges"
      <4>1. \A x \in q.info : x \in q.todo \/ \A y \in Needed(x) : Kept(p, y)
        BY <2>2, <3>1, <3>11 DEF Linked
      <4>2. \A x \in q.info : x \in q.todo \/ \A y \in Needed(x) : Kept(q, y)'
        BY <3>4, <3>5, <4>1
      <4>3. q.at = "row edges"
        BY <2>2, <3>11
      <4>4. QED
        BY <3>10, <4>2, <4>3 DEF Linked, AfterEdges
    <3>12. CASE p.at = "run edges"
      <4>1. \A x \in q.info : \A y \in Needed(x) : Done(y, q.touched)'
        BY <2>2, <3>1, <3>3, <3>5, <3>12 DEF Linked
      <4>2. \A r \in q.runs : r \in q.todo \/ \A y \in References(r) : Kept(p, y)
        BY <2>2, <3>1, <3>12 DEF Linked
      <4>3. \A r \in q.runs : r \in q.todo \/ \A y \in References(r) : Kept(q, y)'
        BY <3>4, <3>6, <4>2
      <4>4. q.at = "run edges"
        BY <2>2, <3>12
      <4>5. QED
        BY <3>10, <4>1, <4>3, <4>4 DEF Linked, AfterEdges
    <3>13. QED
      BY <3>7, <3>11, <3>12
  <2>8. Alone(p) /\ Plain(p) /\ p.again /\ Derived => Known(n)
    <3>1. SUFFICES ASSUME Within(p), ~p.opts.sweep, Derived PROVE Known(n)
      BY <1>1 DEF PassInv, Plain
    <3>2. job \in SourceJobs
      BY <1>2, <1>3, <3>1, HeadIsAsked
    <3>3. e \in edges
      BY <1>7, <3>1, <3>2 DEF Derived
    <3>4. QED
      BY <1>6, <3>3 DEF IInv, EdgesHaveEnds, EndsKnown
  <2>9. Started(p) /\ p.at # "ended"
    BY <2>1 DEF Started, EdgePhases
  <2>10. QED
    BY <1>1, <1>6, <1>9, <2>2, <2>3, <2>4, <2>5, <2>7, <2>8, <2>9, AffirmInv
<1>10. QED
  BY <1>3, <1>5, <1>8, <1>9

-----------------------------------------------------------------------------
(* The first and the last step of a pass, and its faults.                   *)

LEMMA StartInv ==
  ASSUME IInv, NEW i \in Ingesters, NEW opts \in Modes, Start(i, opts)
  PROVE  IInv'
<1>1. opts \in Options
  BY IngestAssumption
<1>2. PICK again \in BOOLEAN : again = (settled = {opts})
  OBVIOUS
<1>3. PICK items \in SUBSET NodeIds : items = Items \cup Swept(opts)
  BY SourceSets DEF IInv, Swept
<1>4. PICK q : q = [NoPass EXCEPT !.at = "start", !.opts = opts, !.seen = items,
                                  !.quiet = TRUE, !.again = again]
  OBVIOUS
<1>5. /\ q.at = "start" /\ q.opts = opts /\ q.seen = items /\ q.todo = {} /\ q.jobs = <<>> /\ q.runs = {}
      /\ q.info = {} /\ q.touched = {} /\ q.fresh = {} /\ q.created = FALSE /\ q.again = again
  BY <1>4 DEF NoPass
<1>6. q \in Pass
  <2>1. <<>> \in Seq(Job)
    OBVIOUS
  <2>2. QED
    BY <1>1, <1>4, <2>1 DEF NoPass, Pass, Points
<1>7. Proceed(i, q)
  <2>1. [NoPass EXCEPT !.at = "start", !.opts = opts, !.seen = Items \cup Swept(opts),
                       !.quiet = TRUE, !.again = (settled = {opts})] = q
    BY <1>2, <1>3, <1>4
  <2>2. QED
    BY <2>1 DEF Start, Proceed
<1>8. Shaped(q) /\ HasSeen(q)
  BY <1>3, <1>5 DEF Shaped, HasSeen, Foreseen, EdgePhases, SweepPhases
<1>9. Within(q) /\ Standing(q)
  <2>1. \A x : ~InSeq(x, q.jobs)
    BY <1>5, NoJobs
  <2>2. QED
    BY <1>5, <2>1 DEF Within, Standing, InSeq
<1>10. Covered(q) /\ Mirrored(q) /\ Linked(q)
  BY <1>5 DEF Covered, Mirrored, Linked, AfterModels, AfterRuns, AfterRows, AfterSweep, AfterEdges
<1>11. Plain(q) /\ q.again => Repeats(q)
  BY <1>2, <1>5 DEF IInv, Plain, Repeats
<1>12. QED
  BY <1>6, <1>7, <1>8, <1>9, <1>10, <1>11, ProceedInv DEF PassInv

LEMMA FinishInv ==
  ASSUME IInv, NEW i \in Ingesters, Finish(i)
  PROVE  IInv'
<1>1. PICK p \in Pass : p = pass[i] /\ PassInv(p)
  BY AnyPass
<1>2. PICK q : q = [p EXCEPT !.at = "ended"]
  OBVIOUS
<1>3. p.at = "prune" /\ p.jobs = <<>> /\ p.todo = {}
  BY <1>1 DEF Finish, At, PassInv, Shaped, EdgePhases, Todo
<1>4. q \in Pass
  BY <1>2 DEF Pass, Points
<1>5. /\ q.at = "ended" /\ q.opts = p.opts /\ q.todo = p.todo /\ q.jobs = p.jobs /\ q.runs = p.runs
      /\ q.info = p.info /\ q.touched = p.touched /\ q.fresh = p.fresh /\ q.ok = p.ok
      /\ q.created = p.created /\ q.quiet = p.quiet /\ q.again = p.again /\ q.seen = p.seen
  BY <1>2 DEF Pass
<1>6. Become(i, q, {}) /\ settled' = IF p.quiet /\ p.ok THEN {p.opts} ELSE {}
  BY <1>1, <1>2 DEF Finish
<1>7. UNCHANGED sources
  BY <1>6 DEF Become
<1>8. /\ LiveRuns' = LiveRuns /\ LiveRows' = LiveRows /\ Attached' = Attached /\ Items' = Items
      /\ SourceJobs' = SourceJobs /\ registered' = registered /\ sidecars' = sidecars
      /\ \A row : InfoOf(row)' = InfoOf(row)
  BY <1>7, SameSources
<1>9. GraphTypeOK /\ EdgesHaveEnds /\ p.fresh \subseteq NodeIds
  BY DEF IInv, Pass
\* The graph, pruned or not.
<1>10. /\ GraphTypeOK' /\ edges' = edges
       /\ \A n \in NodeIds : Known(n)' <=> Known(n)
       /\ \A n \in p.fresh : Alive(n) => Alive(n)'
       /\ hidden' = IF p.opts.prune THEN edges \ p.touched ELSE hidden
       /\ p.opts.prune => \A n \in NodeIds : Alive(n)' => n \in p.fresh
  <2>1. CASE p.opts.prune
    <3>1. Pruned(i)
      BY <1>1, <2>1 DEF Finish
    <3>2. edges' = edges /\ hidden' = edges \ p.touched
          /\ nodes' = [n \in NodeIds |-> IF Alive(n) /\ n \notin p.fresh THEN "deleted" ELSE nodes[n]]
      BY <1>1, <3>1 DEF Pruned
    <3>3. \A n \in NodeIds : nodes'[n] = IF Alive(n) /\ n \notin p.fresh THEN "deleted" ELSE nodes[n]
      BY <3>2
    <3>4. \A n \in NodeIds : nodes[n] \in {"absent", "live", "deleted"}
      BY <1>9 DEF GraphTypeOK
    <3>5. GraphTypeOK'
      BY <1>9, <3>2, <3>4 DEF GraphTypeOK
    <3>6. QED
      BY <1>9, <2>1, <3>2, <3>3, <3>4, <3>5 DEF Known, Alive
  <2>2. CASE ~p.opts.prune
    <3>1. nodes' = nodes /\ edges' = edges /\ hidden' = hidden
      BY <1>1, <2>2 DEF Finish, graph
    <3>2. QED
      BY <1>9, <2>2, <3>1 DEF GraphTypeOK, Known, Alive
  <2>3. QED
    BY <2>1, <2>2
<1>11. EdgesHaveEnds'
  <2>1. \A e \in edges : EndsKnown(e) /\ Ends(e) \subseteq NodeIds
    BY <1>9 DEF GraphTypeOK, EdgesHaveEnds, Ends, Edge, Source, Target
  <2>2. QED
    BY <1>10, <2>1 DEF EdgesHaveEnds, EndsKnown
<1>12. SameNodes(NodeIds) /\ SameNodes(RunIds \cup Paths)
  BY <1>10, IngestAssumption DEF SameNodes
<1>13. \A job \in Job : \A E : Done(job, E) => Done(job, E)'
  BY <1>12, DoneKept
<1>14. Derived => Derived'
  BY <1>7, <1>10, <1>12, DerivedKept DEF IInv
<1>15. Shaped(q) /\ HasSeen(q)'
  BY <1>1, <1>3, <1>5, <1>8
     DEF PassInv, Shaped, HasSeen, Started, Foreseen, Todo, EdgePhases, SweepPhases, Swept
<1>16. Alone(p) => Within(q)
  BY <1>1, <1>5 DEF PassInv, Within
<1>17. Alone(p) => Standing(q)'
  <2>1. SUFFICES ASSUME Standing(p) PROVE Standing(q)'
    BY <1>1 DEF PassInv
  <2>2. \A n \in q.fresh : Alive(n)'
    BY <1>5, <1>10, <2>1 DEF Standing
  <2>3. q.touched \subseteq edges' \ hidden'
    BY <1>5, <1>10, <2>1 DEF Standing
  <2>4. QED
    BY <1>5, <1>8, <2>1, <2>2, <2>3 DEF Standing
<1>18. Clean(p) =>
         /\ registered \subseteq p.fresh /\ p.runs = LiveRuns /\ LiveRuns \subseteq p.fresh
         /\ Attached \subseteq p.fresh /\ (p.opts.sweep => sidecars \subseteq p.fresh)
  BY <1>1, <1>3 DEF PassInv, Covered, AfterModels, AfterRuns, AfterRows, AfterSweep, Points
<1>19. Clean(p) => Covered(q)
  BY <1>5, <1>18 DEF Covered
<1>20. Clean(p) => Mirrored(q)'
  <2>1. SUFFICES ASSUME Clean(p), p.opts.prune PROVE Mirrored(q)'
    BY <1>5 DEF Mirrored
  <2>2. Standing(p)
    BY <1>1, <2>1 DEF PassInv, Clean
  <2>3. PICK expected : expected = LiveRuns \cup Attached \cup (IF p.opts.sweep THEN sidecars ELSE {})
    OBVIOUS
  <2>4. expected \subseteq RunIds \cup Paths /\ expected \subseteq p.fresh
    BY <1>18, <2>1, <2>3, SourceSets DEF IInv, SourcesOK
  <2>5. \A n \in p.fresh : Alive(n)'
    BY <1>10, <2>2 DEF Standing
  <2>6. \A n \in RunIds \cup Paths : Alive(n)' => n \in expected
    BY <1>10, <2>1, <2>2, <2>3, IngestAssumption DEF Standing
  <2>7. {n \in RunIds \cup Paths : Alive(n)'} = expected
    BY <2>4, <2>5, <2>6
  <2>8. edges' \ hidden' = p.touched
    BY <1>10, <2>1, <2>2 DEF Standing
  <2>9. QED
    BY <1>5, <1>8, <2>3, <2>7, <2>8 DEF Mirrored
<1>21. Clean(p) /\ Plain(p) => Linked(p)
  BY <1>1 DEF PassInv
<1>22. ASSUME Linked(p)
       PROVE  /\ \A row \in LiveRows : InfoOf(row) \in p.info
              /\ \A x \in p.info : \A job \in Needed(x) : Done(job, p.touched)
              /\ \A r \in p.runs : \A job \in References(r) : Done(job, p.touched)
  BY <1>3, <1>22 DEF Linked, AfterModels, AfterRuns, AfterRows, AfterEdges, Points
<1>23. /\ \A x \in p.info : Needed(x) \subseteq Job
       /\ \A r \in p.runs : References(r) \subseteq Job
  BY InfoHasJobs, ReferenceJobs DEF Pass
<1>24. Clean(p) /\ Plain(p) => Linked(q)'
  <2>1. SUFFICES ASSUME Linked(p) PROVE Linked(q)'
    BY <1>21
  <2>2. \A row \in LiveRows' : InfoOf(row)' \in q.info
    BY <1>5, <1>8, <1>22, <2>1
  <2>3. \A x \in q.info : \A job \in Needed(x) : Done(job, q.touched)'
    BY <1>5, <1>13, <1>22, <1>23, <2>1
  <2>4. \A r \in q.runs : \A job \in References(r) : Done(job, q.touched)'
    BY <1>5, <1>13, <1>22, <1>23, <2>1
  <2>5. QED
    BY <1>5, <2>2, <2>3, <2>4 DEF Linked
<1>25. Clean(p) /\ Plain(p) => Derived
  <2>1. SUFFICES ASSUME Clean(p), Plain(p) PROVE Derived
    OBVIOUS
  <2>2. Linked(p) /\ Standing(p)
    BY <1>1, <1>21, <2>1 DEF PassInv, Clean
  <2>3. \A n \in registered \cup LiveRuns \cup Attached : Known(n)
    BY <1>18, <2>1, <2>2 DEF Standing, Alive, Known
  <2>4. \A job \in Job : Done(job, p.touched) => Done(job, edges)
    BY <2>2 DEF Standing, Done
  <2>5. ASSUME NEW job \in SourceJobs PROVE Done(job, edges)
    <3>1. job \in Job
      BY DEF SourceJobs
    <3>2. ASSUME NEW row \in LiveRows, job \in Needed(InfoOf(row)) PROVE Done(job, edges)
      BY <1>22, <2>2, <2>4, <3>1, <3>2
    <3>3. ASSUME NEW r \in LiveRuns, job \in References(r) PROVE Done(job, edges)
      BY <1>18, <1>22, <2>1, <2>2, <2>4, <3>1, <3>3
    <3>4. QED
      BY <3>2, <3>3 DEF SourceJobs
  <2>6. QED
    BY <2>3, <2>5 DEF Derived
<1>26. /\ Alone(q) <=> Alone(p)
       /\ Clean(q) <=> Clean(p)
       /\ Plain(q) <=> Plain(p)
  BY <1>3, <1>5 DEF Alone, Clean, Plain, Started
<1>27. PassInv(q)'
  <2>1. Alone(q) => Within(q)'
    BY <1>8, <1>16, <1>26 DEF Within
  <2>2. Clean(q) => Covered(q)'
    BY <1>8, <1>19, <1>26 DEF Covered
  <2>3. Alone(q) /\ Plain(q) /\ q.again => Repeats(q)'
    BY <1>1, <1>5, <1>14, <1>26 DEF PassInv, Repeats
  <2>4. QED
    BY <1>15, <1>17, <1>20, <1>24, <1>26, <2>1, <2>2, <2>3 DEF PassInv
<1>28. settled' \subseteq Options /\ \A opts \in settled' : ~opts.sweep /\ ~opts.limit => Derived'
  <2>1. p.opts \in Options
    BY DEF Pass
  <2>2. p.quiet /\ p.ok /\ ~p.opts.sweep /\ ~p.opts.limit => Derived'
    BY <1>3, <1>14, <1>25 DEF Clean, Plain, Alone, Started
  <2>3. QED
    BY <1>6, <2>1, <2>2
<1>29. PICK none \in SUBSET NodeIds : none = {} /\ q = Freshened(q, none)
  BY <1>4, NothingPut
<1>30. QED
  BY <1>4, <1>6, <1>10, <1>11, <1>27, <1>28, <1>29, Stepped

LEMMA IngestInv ==
  ASSUME IInv, NEW i \in Ingesters, Ingest(i)
  PROVE  IInv'
<1>1. CASE AffirmAnyRow(i)
  <2>1. PICK p \in Pass : p = pass[i]
    BY AnyPass
  <2>2. PICK row \in p.todo : AffirmRow(i, row, row[2] \in sidecars, Less(i, row))
    BY <1>1, <2>1 DEF AffirmAnyRow
  <2>3. PICK manifest \in BOOLEAN : manifest = (row[2] \in sidecars)
    <3>1. \A b \in BOOLEAN : \E manifest \in BOOLEAN : manifest = b
      OBVIOUS
    <3>2. (row[2] \in sidecars) \in BOOLEAN
      OBVIOUS
    <3>3. QED
      BY <3>1, <3>2
  <2>4. PICK ok \in BOOLEAN : ok = p.ok
    BY DEF Pass
  <2>5. Less(i, row) = [p EXCEPT !.todo = @ \ {row}, !.ok = ok]
    BY <2>1, <2>4 DEF Less, Pass
  <2>6. AffirmRow(i, row, manifest, [p EXCEPT !.todo = @ \ {row}, !.ok = ok])
    BY <2>2, <2>3, <2>5
  <2>7. QED
    BY <2>1, <2>3, <2>4, <2>6, AffirmRowInv
<1>2. QED
  BY <1>1, ReadModelsInv, AffirmModelInv, ReadRunsInv, AffirmRunInv, ReadRowsInv, RejectTypeInv,
     NextPhaseInv, TakeItemInv, WriteRunEdgeInv, WriteParentEdgeInv, WriteReferenceInv,
     AffirmSweptInv, SkipSweptInv, FinishInv DEF Ingest

LEMMA FaultInv ==
  ASSUME IInv, NEW i \in Ingesters, Fault(i)
  PROVE  IInv'
<1>1. PICK p \in Pass : p = pass[i] /\ PassInv(p)
  BY AnyPass
<1>2. p.at \notin EdgePhases => p.jobs = <<>>
  BY <1>1 DEF PassInv, Shaped
<1>3. p.at = "start" => p.todo = {}
  BY <1>1 DEF PassInv, Shaped, Todo
<1>4. \A where \in {"models", "runs", "rows"} : where \in Points \ (SweepPhases \cup {"idle"})
  BY DEF Points, SweepPhases
<1>5. ASSUME NEW where \in {"models", "runs", "rows"}, p.at \in {"start", "models", "runs"},
             Proceed(i, [p EXCEPT !.at = where, !.todo = {}, !.ok = FALSE])
      PROVE  IInv'
  <2>1. p.at # "idle" /\ p.jobs = <<>>
    BY <1>2, <1>5 DEF EdgePhases
  <2>2. QED
    BY <1>1, <1>4, <1>5, <2>1, MoveOnInv
<1>6. \A where : p.todo = {} =>
        Failed([p EXCEPT !.at = where]) = [p EXCEPT !.at = where, !.todo = {}, !.ok = FALSE]
  BY DEF Failed, Pass
<1>7. CASE At(i, "start") /\ Proceed(i, Failed([pass[i] EXCEPT !.at = "models"]))
  BY <1>1, <1>3, <1>5, <1>6, <1>7 DEF At
<1>8. CASE At(i, "models") /\ Proceed(i, Failed([pass[i] EXCEPT !.todo = {}]))
  <2>1. p.at = "models"
    BY <1>1, <1>8 DEF At
  <2>2. Failed([p EXCEPT !.todo = {}]) = [p EXCEPT !.at = "models", !.todo = {}, !.ok = FALSE]
    BY <2>1 DEF Failed, Pass
  <2>3. QED
    BY <1>1, <1>5, <1>8, <2>1, <2>2
<1>9. CASE At(i, "models") /\ Through(i) /\ Proceed(i, Failed([pass[i] EXCEPT !.at = "runs"]))
  BY <1>1, <1>5, <1>6, <1>9 DEF At, Through
<1>10. CASE At(i, "runs") /\ Through(i) /\ Proceed(i, Failed([pass[i] EXCEPT !.at = "rows"]))
  BY <1>1, <1>5, <1>6, <1>10 DEF At, Through
<1>11. CASE /\ pass[i].at \in {"runs", "rows"}
            /\ \E x \in pass[i].todo : Proceed(i, Failed(Less(i, x)))
  BY <1>11, SkipInv
<1>12. ASSUME NEW row \in pass[i].todo, AffirmRow(i, row, FALSE, Failed(Less(i, row)))
       PROVE  IInv'
  <2>1. Failed(Less(i, row)) = [p EXCEPT !.todo = @ \ {row}, !.ok = FALSE]
    BY <1>1 DEF Failed, Less, Pass
  <2>2. AffirmRow(i, row, FALSE, [p EXCEPT !.todo = @ \ {row}, !.ok = FALSE])
    BY <1>12, <2>1
  <2>3. PICK no \in BOOLEAN : no = FALSE
    OBVIOUS
  <2>4. AffirmRow(i, row, no, [p EXCEPT !.todo = @ \ {row}, !.ok = no])
    BY <2>2, <2>3
  <2>5. QED
    BY <1>1, <2>3, <2>4, AffirmRowInv
<1>13. CASE pass[i].jobs # <<>> /\ GiveUp(i, pass[i])
  <2>1. PICK made \in BOOLEAN : made = p.created
    BY DEF Pass
  <2>2. pass[i] = [pass[i] EXCEPT !.created = made]
    BY <1>1, <2>1 DEF Pass
  <2>3. GiveUp(i, [pass[i] EXCEPT !.created = made])
    BY <1>13, <2>2
  <2>4. QED
    BY <1>1, <1>13, <2>1, <2>3, GiveUpInv
<1>14. CASE At(i, "sweep") /\ \E x \in pass[i].todo : Proceed(i, Failed(Less(i, x)))
  BY <1>14, SkipInv DEF At
<1>15. CASE pass[i].at \in {"sweep", "prune"} /\ Raise(i)
  BY <1>15, RaiseInv
<1>16. QED
  BY <1>7, <1>8, <1>9, <1>10, <1>11, <1>12, <1>13, <1>14, <1>15 DEF Fault, At

\* No pass is alone with the sources when they, or the graph, are changed.
LEMMA DisturbInv ==
  ASSUME IInv, Disturb, SourcesOK', GraphTypeOK', EdgesHaveEnds'
  PROVE  IInv'
<1> DEFINE found(opts) == Items' \cup IF opts.sweep THEN sidecars' ELSE {}
<1>1. \A opts : found(opts) \in SUBSET NodeIds
  <2>1. Items' \subseteq NodeIds
    BY IngestAssumption DEF SourcesOK, Items, Attached, LiveRows, LiveRuns
  <2>2. sidecars' \subseteq NodeIds
    BY IngestAssumption DEF SourcesOK
  <2>3. QED
    BY <2>1, <2>2
<1>2. \A i \in Ingesters :
        pass'[i] = [pass[i] EXCEPT !.quiet = FALSE, !.seen = @ \cup found(pass[i].opts)]
  BY DEF Disturb
<1>3. ASSUME NEW i \in Ingesters
      PROVE  pass'[i] \in Pass /\ PassInv(pass[i])'
  <2>1. PICK p \in Pass : p = pass[i] /\ PassInv(p)
    BY AnyPass
  <2>2. PICK seen \in SUBSET NodeIds : seen = p.seen \cup found(p.opts)
    BY <1>1 DEF Pass
  <2>3. PICK q : q = [p EXCEPT !.quiet = FALSE, !.seen = seen]
    OBVIOUS
  <2>4. q \in Pass
    BY <2>3 DEF Pass
  <2>5. q.at = p.at /\ q.opts = p.opts /\ q.todo = p.todo /\ q.jobs = p.jobs /\ ~q.quiet /\ q.seen = seen
    BY <2>3 DEF Pass
  <2>6. Shaped(q) /\ ~Alone(q) /\ ~Clean(q)
    BY <2>1, <2>5 DEF PassInv, Shaped, Alone, Clean
  <2>7. Foreseen(p) => Foreseen(q)
    BY <2>2, <2>5 DEF Foreseen
  <2>8. HasSeen(q)'
    BY <2>1, <2>2, <2>5, <2>7 DEF PassInv, HasSeen, Started, Swept
  <2>9. PassInv(q)'
    BY <2>6, <2>8 DEF PassInv
  <2>10. pass'[i] = q
    BY <1>2, <2>1, <2>2, <2>3
  <2>11. QED
    BY <2>4, <2>9, <2>10
<1>4. pass' \in [Ingesters -> Pass]
  BY <1>3 DEF Disturb
<1>5. settled' = {}
  BY DEF Disturb
<1>6. QED
  BY <1>3, <1>4, <1>5 DEF IInv

LEMMA SourceStepInv ==
  ASSUME IInv, SourceStep
  PROVE  IInv'
<1>1. Disturb /\ UNCHANGED <<nodes, edges, hidden>>
  BY DEF SourceStep, graph
<1>2. GraphTypeOK' /\ EdgesHaveEnds'
  BY <1>1 DEF IInv, GraphTypeOK, EdgesHaveEnds, EndsKnown, Known
<1>3. SourcesOK'
  <2>1. SourcesOK
    BY DEF IInv
  <2>2. ASSUME NEW m \in ModelIds, RegisterModel(m) \/ DeleteModel(m) PROVE SourcesOK'
    BY <2>1, <2>2 DEF RegisterModel, DeleteModel, SourcesOK
  <2>3. ASSUME NEW r \in RunIds, CreateRun(r) PROVE SourcesOK'
    BY <2>1, <2>3 DEF CreateRun, SourcesOK
  <2>4. ASSUME NEW r \in RunIds, NEW soft \in BOOLEAN, DeleteRun(r, soft) PROVE SourcesOK'
    BY <2>1, <2>4 DEF DeleteRun, SourcesOK
  <2>5. ASSUME NEW r \in RunIds, NEW p \in Paths, Attach(r, p) PROVE SourcesOK'
    BY <2>1, <2>5 DEF Attach, SourcesOK
  <2>6. ASSUME NEW p \in Paths, WriteSidecar(p) \/ LoseSidecar(p) PROVE SourcesOK'
    BY <2>1, <2>6 DEF WriteSidecar, LoseSidecar, SourcesOK
  <2>7. QED
    BY <2>2, <2>3, <2>4, <2>5, <2>6 DEF SourceStep
<1>4. QED
  BY <1>1, <1>2, <1>3, DisturbInv

LEMMA EditStepInv ==
  ASSUME IInv, EditStep
  PROVE  IInv'
<1>1. Disturb /\ UNCHANGED sources
  BY DEF EditStep
<1>2. SourcesOK'
  BY <1>1 DEF IInv, SourcesOK, sources
<1>3. PICK n \in NodeIds : StampNode(n) \/ DropNode(n)
  BY DEF EditStep
<1>4. GraphTypeOK /\ \A e \in edges : EndsKnown(e) /\ Ends(e) \subseteq NodeIds
  BY DEF IInv, GraphTypeOK, EdgesHaveEnds, Ends, Edge, Source, Target
<1>5. CASE StampNode(n)
  BY <1>1, <1>2, <1>4, <1>5, DisturbInv DEF StampNode, GraphTypeOK, EdgesHaveEnds, EndsKnown, Known
<1>6. CASE DropNode(n)
  BY <1>1, <1>2, <1>4, <1>6, DisturbInv DEF DropNode, GraphTypeOK, EdgesHaveEnds, EndsKnown, Known
<1>7. QED
  BY <1>3, <1>5, <1>6

LEMMA InitInv == Init => IInv
<1> SUFFICES ASSUME Init PROVE IInv
  OBVIOUS
<1>1. NoPass \in Pass
  <2>1. <<>> \in Seq(Job)
    OBVIOUS
  <2>2. QED
    BY <2>1 DEF NoPass, Pass, Points, Options
<1>2. NoPass.at = "idle" /\ NoPass.todo = {} /\ NoPass.jobs = <<>>
  BY DEF NoPass
<1>3. PassInv(NoPass)
  BY <1>2 DEF PassInv, Shaped, HasSeen, Alone, Clean, Started, SweepPhases
<1>4. GraphTypeOK /\ EdgesHaveEnds
  BY DEF Init, GraphInit, GraphTypeOK, EdgesHaveEnds
<1>5. SourcesOK
  BY DEF Init, SourcesOK
<1>6. QED
  BY <1>1, <1>3, <1>4, <1>5 DEF Init, IInv

LEMMA StepInv == IInv /\ [Next]_vars => IInv'
<1> SUFFICES ASSUME IInv, [Next]_vars PROVE IInv'
  OBVIOUS
<1>1. ASSUME NEW i \in Ingesters, Ingest(i) \/ Fault(i) \/ \E opts \in Modes : Start(i, opts)
      PROVE  IInv'
  BY <1>1, IngestInv, FaultInv, StartInv
<1>2. CASE SourceStep
  BY <1>2, SourceStepInv
<1>3. CASE EditStep
  BY <1>3, EditStepInv
<1>4. CASE UNCHANGED vars
  <2>1. /\ nodes' = nodes /\ edges' = edges /\ hidden' = hidden /\ UNCHANGED sources
        /\ UNCHANGED graph /\ pass' = pass /\ settled' = settled
    BY <1>4 DEF vars, graph
  <2>2. SourcesOK' /\ GraphTypeOK' /\ EdgesHaveEnds'
    BY <2>1 DEF IInv, SourcesOK, sources, GraphTypeOK, EdgesHaveEnds, EndsKnown, Known
  <2>3. \A p \in Pass : PassInv(p) => PassInv(p)'
    BY <2>1, SamePassInv
  <2>4. \A i \in Ingesters : PassInv(pass[i])'
    <3>1. SUFFICES ASSUME NEW i \in Ingesters PROVE PassInv(pass[i])'
      OBVIOUS
    <3>2. PICK p \in Pass : p = pass[i] /\ PassInv(p)
      BY AnyPass
    <3>3. PassInv(p)' /\ pass'[i] = p
      BY <2>1, <2>3, <3>2
    <3>4. QED
      BY <3>3
  <2>5. Derived => Derived'
    <3>1. SameNodes(NodeIds)
      BY <2>1 DEF SameNodes, Known
    <3>2. QED
      BY <2>1, <3>1, DerivedKept DEF IInv
  <2>6. QED
    BY <2>1, <2>2, <2>4, <2>5 DEF IInv
<1>5. QED
  BY <1>1, <1>2, <1>3, <1>4 DEF Next

-----------------------------------------------------------------------------
(* What a pass promises.                                                    *)

\* The inductive invariant holds of every state, for any number of ingesters
\* over any sources: dist_stack.kg.ingest.
THEOREM IngestInductive == Spec => []IInv
<1>1. QED
  BY InitInv, StepInv, PTL DEF Spec

LEMMA IngestTypes == IInv => TypeOK
<1> SUFFICES ASSUME IInv PROVE TypeOK
  OBVIOUS
<1>1. \A i \in Ingesters :
        /\ pass[i].at \in Points /\ pass[i].opts \in Options
        /\ pass[i].todo \subseteq Todo(pass[i].at)
        /\ pass[i].jobs \in Seq(Job)
        /\ pass[i].info \subseteq Info /\ pass[i].runs \subseteq RunIds
        /\ pass[i].touched \subseteq Edge /\ pass[i].fresh \subseteq NodeIds
  BY AnyPass DEF Pass, PassInv, Shaped
<1>2. QED
  BY <1>1 DEF TypeOK, IInv, SourcesOK

\* A pass has before it, at each point, items of the kind that the point is
\* about: the loops of ingest over the runs and over the artifacts.
THEOREM IngestTypeCorrect == Spec => []TypeOK
<1>1. QED
  BY IngestInductive, IngestTypes, PTL

\* Whatever passes and other clients do at the same time, the ends of an edge
\* are rows of the node table: upsert_edge, delete_node and _prune.
THEOREM IngestKeepsEnds == Spec => []EdgesHaveEnds
<1>1. IInv => EdgesHaveEnds
  BY DEF IInv
<1>2. QED
  BY <1>1, IngestInductive, PTL

LEMMA Mirrors == IInv => MirrorAfterPrune
<1> SUFFICES ASSUME IInv, NEW i \in Ingesters, Undisturbed(i), pass[i].opts.prune, ~pass[i].opts.limit
             PROVE  /\ {n \in RunIds \cup Paths : Alive(n)} = Expected(i)
                    /\ \A m \in registered : Alive(m)
                    /\ edges \ hidden = pass[i].touched
  BY DEF MirrorAfterPrune
<1>1. PICK p \in Pass : p = pass[i] /\ PassInv(p)
  BY AnyPass
<1>2. p.at = "ended" /\ Clean(p) /\ p.opts.prune
  BY <1>1 DEF Undisturbed, At, Clean, Alone, Started
<1>3. Mirrored(p) /\ Covered(p) /\ Standing(p)
  BY <1>1, <1>2 DEF PassInv, Clean
<1>4. \A m \in registered : Alive(m)
  BY <1>2, <1>3 DEF Covered, Standing, AfterModels, Points
<1>5. QED
  BY <1>1, <1>2, <1>3, <1>4 DEF Mirrored, Expected, Swept

\* After a pass with prune=True that nothing disturbed and that reports no
\* error, the graph mirrors its sources: ingest and _prune.
THEOREM MirrorsAfterPrune == Spec => []MirrorAfterPrune
<1>1. QED
  BY IngestInductive, Mirrors, PTL

LEMMA Completes == IInv => PassIsComplete
<1> SUFFICES ASSUME IInv, NEW i \in Ingesters, NEW row \in LiveRows,
                    Undisturbed(i), ~pass[i].opts.limit, ~pass[i].opts.sweep
             PROVE  /\ Shown(<<row[1], row[2], "has_artifact">>) /\ Shown(<<row[2], row[1], "generated_by">>)
                    /\ Uses[row[2]] # NoModel => Shown(<<row[2], Uses[row[2]], "references">>)
                    /\ row[2] \in sidecars =>
                         \A k \in DOMAIN Parents[row[2]], n \in NodeIds :
                           Resolved(row[2], Parents[row[2]][k], n) => Shown(<<row[2], n, "derived_from">>)
  BY DEF PassIsComplete
<1>1. PICK p \in Pass : p = pass[i] /\ PassInv(p)
  BY AnyPass
<1>2. p.at = "ended" /\ Clean(p) /\ Plain(p)
  BY <1>1 DEF Undisturbed, At, Clean, Alone, Plain, Started
<1>3. Linked(p) /\ Standing(p)
  BY <1>1, <1>2 DEF PassInv, Clean
<1>4. PICK r, a, x : r = row[1] /\ a = row[2] /\ x = InfoOf(row)
  OBVIOUS
<1>5. x \in p.info /\ \A job \in Needed(x) : Done(job, p.touched)
  BY <1>2, <1>3, <1>4 DEF Linked, AfterModels, AfterRuns, AfterRows, AfterEdges, Points
<1>6. x.run = r /\ x.path = a /\ (x.manifest <=> a \in sidecars) /\ r \in RunIds /\ a \in Paths
  BY <1>4, SourceSets DEF IInv, InfoOf
<1>7. \A e \in p.touched : Shown(e)
  BY <1>3 DEF Standing, Shown
<1>8. r # NoModel
  BY <1>6, IngestAssumption
<1>9. Shown(<<r, a, "has_artifact">>)
  <2>1. PICK job : job = [edge |-> <<r, a, "has_artifact">>]
    OBVIOUS
  <2>2. job \in Needed(x)
    BY <1>6, <1>8, <2>1 DEF Needed
  <2>3. "edge" \in DOMAIN job /\ job.edge = <<r, a, "has_artifact">>
    BY <2>1
  <2>4. QED
    BY <1>5, <1>7, <2>2, <2>3 DEF Done
<1>10. Shown(<<a, r, "generated_by">>)
  <2>1. PICK job : job = [edge |-> <<a, r, "generated_by">>]
    OBVIOUS
  <2>2. job \in Needed(x)
    BY <1>6, <1>8, <2>1 DEF Needed
  <2>3. "edge" \in DOMAIN job /\ job.edge = <<a, r, "generated_by">>
    BY <2>1
  <2>4. QED
    BY <1>5, <1>7, <2>2, <2>3 DEF Done
<1>11. ASSUME Uses[a] # NoModel PROVE Shown(<<a, Uses[a], "references">>)
  <2>1. PICK job : job = [from |-> a, model |-> Uses[a]]
    OBVIOUS
  <2>2. job \in Needed(x)
    BY <1>6, <1>11, <2>1 DEF Needed, References
  <2>3. "model" \in DOMAIN job /\ job.from = a /\ job.model = Uses[a]
    BY <2>1
  <2>4. QED
    BY <1>5, <1>7, <2>2, <2>3 DEF Done
<1>12. ASSUME a \in sidecars, NEW k \in DOMAIN Parents[a], NEW n \in NodeIds, Resolved(a, Parents[a][k], n)
       PROVE  Shown(<<a, n, "derived_from">>)
  <2>1. PICK job : job = [of |-> a, entry |-> Parents[a][k]]
    OBVIOUS
  <2>2. job \in Needed(x)
    BY <1>6, <1>12, <2>1 DEF Needed
  <2>3. "entry" \in DOMAIN job /\ job.of = a /\ job.entry = Parents[a][k]
    BY <2>1
  <2>4. PICK l \in DOMAIN job.entry :
          job.entry[l] = n /\ \A m \in 1..(l - 1) : ~Known(job.entry[m]) /\ job.entry[m] # a
    BY <1>12, <2>3 DEF Resolved
  <2>5. n # a /\ Known(n)
    BY <1>12 DEF Resolved
  <2>6. l \in Candidates(job)
    BY <2>3, <2>4, <2>5 DEF Candidates, Exists
  <2>7. QED
    BY <1>5, <1>7, <2>2, <2>3, <2>4, <2>5, <2>6 DEF Done
<1>13. QED
  BY <1>4, <1>9, <1>10, <1>11, <1>12

\* A pass that nothing disturbed and that reports no error has shown every
\* relation that the sources state: ingest, _add_derived_from_edges and
\* _add_references_edge.
THEOREM PassCompletes == Spec => []PassIsComplete
<1>1. QED
  BY IngestInductive, Completes, PTL

LEMMA Repeated == IInv => SecondPassCreatesNothing
<1> SUFFICES ASSUME IInv, NEW i \in Ingesters, Unchanged(i), ~pass[i].opts.sweep, ~pass[i].opts.limit
             PROVE  ~pass[i].created
  BY DEF SecondPassCreatesNothing
<1>1. QED
  BY AnyPass DEF Unchanged, At, PassInv, Alone, Plain, Started, Repeats

\* Ingesting again what has not changed creates nothing: ingest is idempotent,
\* as far as no manifest_dir is swept.
THEOREM SecondPassIsIdle == Spec => []SecondPassCreatesNothing
<1>1. QED
  BY IngestInductive, Repeated, PTL

-----------------------------------------------------------------------------
(* What comes alive.                                                        *)

\* n comes alive in this step.
Wakes(n) == ~Alive(n) /\ Alive(n)'

LEMMA Still ==
  ASSUME UNCHANGED nodes, NEW n
  PROVE  ~Wakes(n)
BY DEF Wakes, Alive

LEMMA ProceedStill ==
  ASSUME NEW i \in Ingesters, NEW new, Proceed(i, new), NEW n
  PROVE  ~Wakes(n)
BY Still DEF Proceed, graph

LEMMA OnlyAffirmed ==
  ASSUME GraphTypeOK, NEW i \in Ingesters, NEW m, NEW new, Affirm(i, m, new), NEW n \in NodeIds, Wakes(n)
  PROVE  n = m
BY DEF Affirm, PutNode, GraphTypeOK, Wakes, Alive

LEMMA WriteEdgeStill ==
  ASSUME NEW i \in Ingesters, NEW e, WriteEdge(i, e), NEW n
  PROVE  ~Wakes(n)
BY Still, ProceedStill DEF WriteEdge, PutEdge, GiveUp

LEMMA IngestWakes ==
  ASSUME IInv, NEW i \in Ingesters, Ingest(i) \/ Fault(i), NEW n \in NodeIds, Wakes(n)
  PROVE  Underway(i) /\ (n \in pass[i].seen \/ (n \in ModelIds /\ ~Known(n)))
<1>1. PICK p \in Pass : p = pass[i] /\ PassInv(p) /\ GraphTypeOK
  BY AnyPass DEF IInv
<1>0. Underway(i)
  <2>1. p.jobs = <<>> \/ p.at \in EdgePhases
    BY <1>1 DEF PassInv, Shaped
  <2>2. p.todo \subseteq Todo(p.at)
    BY <1>1 DEF PassInv, Shaped
  <2>3. p.at \in {"idle", "ended", "raised"} => p.jobs = <<>> /\ p.todo = {}
    BY <2>1, <2>2 DEF EdgePhases, Todo
  <2>4. QED
    BY <1>1, <2>3 DEF Underway, Ingest, Fault, At, ReadModels, AffirmModel, ReadRuns, AffirmRun, ReadRows,
          AffirmAnyRow, AffirmRow, RejectType, NextPhase, TakeItem, WriteRunEdge, WriteParentEdge,
          WriteReference, AffirmSwept, SkipSwept, Finish
<1>2. CASE AffirmModel(i)
  <2>1. PICK m \in p.todo : n = m
    BY <1>1, <1>2, OnlyAffirmed DEF AffirmModel
  <2>2. p.at = "models"
    BY <1>1, <1>2 DEF AffirmModel, At
  <2>3. QED
    BY <1>0, <1>1, <2>1, <2>2 DEF PassInv, HasSeen, Started, Foreseen
<1>3. CASE AffirmRun(i)
  <2>1. PICK r \in p.todo : n = r
    BY <1>1, <1>3, OnlyAffirmed DEF AffirmRun
  <2>2. p.at = "runs"
    BY <1>1, <1>3 DEF AffirmRun, At
  <2>3. QED
    BY <1>0, <1>1, <2>1, <2>2 DEF PassInv, HasSeen, Started, Foreseen
<1>4. ASSUME NEW row, NEW manifest, NEW new, AffirmRow(i, row, manifest, new) PROVE n \in p.seen
  <2>1. n = row[2]
    BY <1>1, <1>4, OnlyAffirmed DEF AffirmRow
  <2>2. p.at = "rows" /\ row \in p.todo
    BY <1>1, <1>4 DEF AffirmRow, At
  <2>3. QED
    BY <1>0, <1>1, <2>1, <2>2 DEF PassInv, HasSeen, Started, Foreseen
<1>5. CASE AffirmSwept(i)
  <2>1. PICK a \in p.todo : n = a
    BY <1>1, <1>5, OnlyAffirmed, ProceedStill DEF AffirmSwept, Raise
  <2>2. p.at = "sweep"
    BY <1>1, <1>5 DEF AffirmSwept, At
  <2>3. QED
    BY <1>0, <1>1, <2>1, <2>2 DEF PassInv, HasSeen, Started, Foreseen
<1>6. CASE WriteReference(i)
  <2>1. PICK job \in Job : job = Head(p.jobs)
    BY <1>1, <1>6, NextJob DEF WriteReference
  <2>2. "model" \in DOMAIN job /\ ~Exists(job.model) /\ n = job.model
    BY <1>1, <1>6, <2>1, OnlyAffirmed, WriteEdgeStill DEF WriteReference
  <2>3. QED
    BY <1>0, <2>2, JobKinds DEF Exists
<1>7. CASE Finish(i)
  <2>1. Pruned(i) \/ UNCHANGED graph
    BY <1>7 DEF Finish
  <2>2. ~UNCHANGED graph
    BY Still DEF graph
  <2>3. QED
    BY <2>1, <2>2 DEF Pruned, Wakes, Alive
<1>8. ~(ReadModels(i) \/ ReadRuns(i) \/ ReadRows(i) \/ RejectType(i) \/ NextPhase(i) \/ TakeItem(i) \/ SkipSwept(i))
  BY ProceedStill DEF ReadModels, ReadRuns, ReadRows, RejectType, NextPhase, TakeItem, SkipSwept
<1>9. ~(WriteRunEdge(i) \/ WriteParentEdge(i))
  BY ProceedStill, WriteEdgeStill DEF WriteRunEdge, WriteParentEdge
<1>10. Ingest(i) => n \in pass[i].seen \/ (n \in ModelIds /\ ~Known(n))
  BY <1>1, <1>2, <1>3, <1>4, <1>5, <1>6, <1>7, <1>8, <1>9 DEF Ingest, AffirmAnyRow
<1>11. Fault(i) => n \in pass[i].seen
  BY <1>1, <1>4, ProceedStill DEF Fault, GiveUp, Raise
<1>12. QED
  BY <1>0, <1>10, <1>11

\* A pass brings back nothing that was deleted in its sources when it began,
\* whatever happens meanwhile: the stamps of nodes are cleared by upsert_node
\* only, by a pass under way, and for what it has read: models, undeleted runs,
\* the artifacts of these, and the sidecars if it sweeps (kg/ingest.py).
THEOREM IngestResurrectsNothing == Spec => NothingResurrected
<1>1. ASSUME IInv, Next, NEW n \in NodeIds, ~Alive(n), Alive(n)'
      PROVE  \E i \in Ingesters :
               Underway(i) /\ (n \in pass[i].seen \/ (n \in ModelIds /\ ~Known(n)))
  <2>1. Wakes(n)
    BY <1>1 DEF Wakes
  <2>2. GraphTypeOK
    BY <1>1 DEF IInv
  <2>3. ASSUME NEW i \in Ingesters, NEW opts \in Modes, Start(i, opts) PROVE FALSE
    BY <2>1, <2>3, Still DEF Start, graph
  <2>4. ~SourceStep
    BY <2>1, Still DEF SourceStep, graph
  <2>5. ~EditStep
    BY <2>1, <2>2 DEF EditStep, StampNode, DropNode, Wakes, Alive, GraphTypeOK
  <2>6. QED
    BY <1>1, <2>1, <2>3, <2>4, <2>5, IngestWakes DEF Next
<1>2. IInv /\ [Next]_vars =>
        [\A n \in NodeIds : ~Alive(n) /\ Alive(n)' =>
           \E i \in Ingesters :
             Underway(i) /\ (n \in pass[i].seen \/ (n \in ModelIds /\ ~Known(n)))]_vars
  BY <1>1
<1>3. QED
  BY <1>2, IngestInductive, PTL DEF Spec, NothingResurrected
=============================================================================
