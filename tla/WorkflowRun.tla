----------------------------- MODULE WorkflowRun -----------------------------
(***************************************************************************)
(* workflow_runner.executor.execute_workflow: runs of workflow templates,  *)
(* several at once, recorded in the shared runstore.                       *)
(*                                                                         *)
(* A run is one asyncio task of a runner process.  Its only await is the   *)
(* tool call, so between two calls it has the event loop of its process to *)
(* itself (LoopFree); processes, and library clients that delete runs,     *)
(* interleave at every transaction and file operation.  A process may die  *)
(* at any point and be started again: nothing recovers the runs it had.    *)
(*                                                                         *)
(* The tool call is abstract here: it succeeds, it fails in a way the      *)
(* executor records, or it raises something the executor does not catch.   *)
(***************************************************************************)
EXTENDS RunTables, Sequences

CONSTANTS
  Processes,   \* runner processes
  Names,       \* names of inputs and captures
  NoName,      \* a step that captures nothing
  Workflows,   \* templates a caller may run
  GraphFile    \* run -> path of its execution graph, wf_<suffix>.execution.json

StepSpec == [needs : SUBSET Names, capture : Names \cup {NoName},
             onFailure : {"fail", "continue"}]

ASSUME WorkflowAssumption ==
  /\ NoName \notin Names
  /\ GraphFile \in [RunIds -> Paths]
  /\ \A w \in Workflows : w.required \subseteq Names /\ w.steps \in Seq(StepSpec)

\* _collect_step_artifact_paths never takes a graph for a step's artifact.
StepFiles == Paths \ {GraphFile[r] : r \in RunIds}

VARIABLES
  proc,      \* run -> the process that executes it
  graphs,    \* path -> the execution graph stored there
  pc,        \* run -> where execute_workflow is
  workflow,  \* run -> its template
  inputs,    \* run -> names bound by the caller's inputs
  env,       \* run -> names bound by inputs and captures
  log,       \* run -> statuses of the recorded steps
  made,      \* run -> files that the recorded results point to
  abort,     \* run -> a step with on_failure "fail" has failed
  flag,      \* run -> cancel_event
  killed,    \* run -> its task was cancelled from outside
  verdict,   \* run -> status of the WorkflowExecution, "none" until built
  cur,       \* run -> file being attached
  todo       \* run -> step files still to attach

memory == <<workflow, inputs, env, log, made, abort, killed, verdict>>
vars == <<tables, proc, graphs, pc, memory, flag, cur, todo>>

-----------------------------------------------------------------------------
StepStatus == {"succeeded", "failed", "unbound", "skip_abort", "skip_cancel"}
Failed     == {"failed", "unbound"}
Skipped    == {"skip_abort", "skip_cancel"}

\* Points at which the run holds the event loop, and the ways it ends.
Busy  == {"boundary", "update", "persist", "attach", "insert", "next"}
Ended == {"rejected", "returned", "cancelled", "raised", "crashed"}

NoGraph    == [run |-> NoManifest, status |-> "absent"]
NoWorkflow == [required |-> {}, steps |-> <<>>]

Steps(r)  == workflow[r].steps
Index(r)  == Len(log[r]) + 1
Step(r)   == Steps(r)[Index(r)]
Active(r) == pc[r] \notin Ended \cup {"new"}

\* Faulty variant of LoopFree: finalization awaits its file operations.
LoopShared(r) == TRUE

LoopFree(r) == \A q \in RunIds \ {r} : proc[q] = proc[r] => pc[q] \notin Busy

TypeOK ==
  /\ TablesTypeOK
  /\ proc \in [RunIds -> Processes]
  /\ graphs \in [Paths -> [run : RunIds, status : Terminal] \cup {NoGraph}]
  /\ pc \in [RunIds -> Busy \cup Ended \cup {"new", "calling"}]
  /\ workflow \in [RunIds -> Workflows \cup {NoWorkflow}]
  /\ inputs \in [RunIds -> SUBSET Names]
  /\ env \in [RunIds -> SUBSET Names]
  /\ log \in [RunIds -> Seq(StepStatus)]
  /\ made \in [RunIds -> SUBSET StepFiles]
  /\ abort \in [RunIds -> BOOLEAN]
  /\ flag \in [RunIds -> BOOLEAN]
  /\ killed \in [RunIds -> BOOLEAN]
  /\ verdict \in [RunIds -> Terminal \cup {"none"}]
  /\ cur \in [RunIds -> Paths]
  /\ todo \in [RunIds -> SUBSET StepFiles]

Init ==
  /\ TablesInit
  /\ proc \in [RunIds -> Processes]
  /\ graphs = [p \in Paths |-> NoGraph]
  /\ pc = [r \in RunIds |-> "new"]
  /\ workflow = [r \in RunIds |-> NoWorkflow]
  /\ inputs = [r \in RunIds |-> {}]
  /\ env = [r \in RunIds |-> {}]
  /\ log = [r \in RunIds |-> <<>>]
  /\ made = [r \in RunIds |-> {}]
  /\ abort = [r \in RunIds |-> FALSE]
  /\ flag = [r \in RunIds |-> FALSE]
  /\ killed = [r \in RunIds |-> FALSE]
  /\ verdict = [r \in RunIds |-> "none"]
  /\ cur = GraphFile
  /\ todo = [r \in RunIds |-> {}]

Goto(r, where) == pc' = [pc EXCEPT ![r] = where]

-----------------------------------------------------------------------------
(* The in-memory loop.                                                      *)

\* _resolve_inputs, then create_run(status="running").  It raises, and there is
\* no row of this run, when a required input is missing, when the id is in the
\* table already, and when the database stays locked by other writers.
Start(r) ==
  /\ pc[r] = "new"
  /\ LoopFree(r)
  /\ \E w \in Workflows, given \in SUBSET Names :
       /\ workflow' = [workflow EXCEPT ![r] = w]
       /\ inputs' = [inputs EXCEPT ![r] = given]
       /\ env' = [env EXCEPT ![r] = given]
       /\ \/ w.required \subseteq given /\ InsertRun(r, "running") /\ Goto(r, "boundary")
          \/ UNCHANGED tables /\ Goto(r, "rejected")
  /\ UNCHANGED <<proc, graphs, log, made, abort, flag, killed, verdict, cur, todo>>

\* The flag is read at each step boundary; abort is sticky.
MustSkip(r) == abort[r] \/ flag[r]

Skip(r) ==
  /\ pc[r] = "boundary" /\ Index(r) <= Len(Steps(r))
  /\ MustSkip(r)
  /\ log' = [log EXCEPT ![r] =
               Append(@, IF flag[r] THEN "skip_cancel" ELSE "skip_abort")]
  /\ UNCHANGED <<tables, proc, graphs, pc, workflow, inputs, env, made, abort,
                 flag, killed, verdict, cur, todo>>

\* The step is done: `fatal' says whether on_failure is looked at, `bound' which
\* name its value is bound to.
Book(r, status, files, fatal, bound) ==
  /\ log' = [log EXCEPT ![r] = Append(@, status)]
  /\ made' = [made EXCEPT ![r] = @ \cup files]
  /\ abort' = [abort EXCEPT ![r] = @ \/ (fatal /\ Step(r).onFailure = "fail")]
  /\ env' = [env EXCEPT ![r] = @ \cup bound]
  /\ Goto(r, "boundary")
  /\ UNCHANGED <<tables, proc, graphs, workflow, inputs, flag, killed, verdict,
                 cur, todo>>

\* `if step.capture'
Captured(r) == {Step(r).capture} \ {NoName}

\* Faulty variants of Record: a step that was never called does not abort; the
\* value is captured whether or not the step failed.
RecordUnboundHarmless(r, status, files) ==
  Book(r, status, files, status = "failed",
       IF status = "succeeded" THEN Captured(r) ELSE {})
RecordCapturingFailures(r, status, files) ==
  Book(r, status, files, status \in Failed, Captured(r))

\* The bookkeeping after a step that was not skipped: append the result, then
\* abort on failure or capture on success.
Record(r, status, files) ==
  Book(r, status, files, status \in Failed,
       IF status = "succeeded" THEN Captured(r) ELSE {})

\* _substitute raises ValueError on an unknown variable, or on a dotted path that
\* does not resolve in the value of a known one: no call is made.
Unbound(r) ==
  /\ pc[r] = "boundary" /\ Index(r) <= Len(Steps(r))
  /\ ~MustSkip(r)
  /\ Step(r).needs # {}
  /\ Record(r, "unbound", {})

Invoke(r) ==
  /\ pc[r] = "boundary" /\ Index(r) <= Len(Steps(r))
  /\ ~MustSkip(r)
  /\ Step(r).needs \subseteq env[r]
  /\ Goto(r, "calling")
  /\ UNCHANGED <<tables, proc, graphs, memory, flag, cur, todo>>

\* The call comes back.  A payload, also one with success=False, may point to
\* files; a ServerError (connect failure, timeout) leaves none.
Return(r) ==
  /\ pc[r] = "calling" /\ LoopFree(r)
  /\ \E status \in {"succeeded", "failed"}, files \in SUBSET StepFiles :
       Record(r, status, files)

\* The call raises neither ValueError nor ServerError (the transport broke, an
\* assertion of the pool failed): execute_workflow is left as it stands.
Escape(r) ==
  /\ pc[r] = "calling" /\ LoopFree(r)
  /\ Goto(r, "raised")
  /\ UNCHANGED <<tables, proc, graphs, memory, flag, cur, todo>>

\* task.cancel(): CancelledError at the await; the step in flight is not
\* recorded and the partial execution is finalized as cancelled.
TaskCancelled(r) ==
  /\ pc[r] = "calling" /\ LoopFree(r)
  /\ killed' = [killed EXCEPT ![r] = TRUE]
  /\ verdict' = [verdict EXCEPT ![r] = "cancelled"]
  /\ Goto(r, "update")
  /\ UNCHANGED <<tables, proc, graphs, workflow, inputs, env, log, made, abort,
                 flag, cur, todo>>

AnyFailed(r) == \E i \in 1..Len(log[r]) : log[r][i] \in Failed

\* Faulty variants of Verdict: failed wins over cancelled; a failure of a step
\* with on_failure "continue" is forgotten.
VerdictFailedFirst(r) ==
  IF AnyFailed(r) THEN "failed" ELSE IF flag[r] THEN "cancelled" ELSE "succeeded"
VerdictByAbort(r) ==
  IF flag[r] THEN "cancelled" ELSE IF abort[r] THEN "failed" ELSE "succeeded"

\* Cancelled wins over failed, failed over succeeded.
Verdict(r) ==
  IF flag[r] THEN "cancelled"
  ELSE IF AnyFailed(r) THEN "failed"
  ELSE "succeeded"

Conclude(r) ==
  /\ pc[r] = "boundary" /\ Index(r) > Len(Steps(r))
  /\ verdict' = [verdict EXCEPT ![r] = Verdict(r)]
  /\ Goto(r, "update")
  /\ UNCHANGED <<tables, proc, graphs, workflow, inputs, env, log, made, abort,
                 flag, killed, cur, todo>>

-----------------------------------------------------------------------------
(* _finalize_runstore: one synchronous stretch of its process, several      *)
(* transactions and file operations to everyone else.                       *)

\* Faulty variant of UpdateRow: its failure is swallowed like the later ones.
UpdateRowTolerant(r) ==
  /\ pc[r] = "update"
  /\ SetStatus(r, verdict[r]) \/ UNCHANGED tables
  /\ Goto(r, "persist")
  /\ todo' = [todo EXCEPT ![r] = made[r]]
  /\ UNCHANGED <<proc, graphs, memory, flag, cur>>

\* update_run.  It raises when the row is gone, and when the database stays
\* locked by other writers; neither is caught here.
UpdateRow(r) ==
  /\ pc[r] = "update"
  /\ \/ SetStatus(r, verdict[r]) /\ Goto(r, "persist")
     \/ UNCHANGED tables /\ Goto(r, "raised")
  /\ todo' = [todo EXCEPT ![r] = made[r]]
  /\ UNCHANGED <<proc, graphs, memory, flag, cur>>

WriteGraph(r, p) ==
  /\ pc[r] = "persist"
  /\ graphs' = [graphs EXCEPT ![p] = [run |-> r, status |-> verdict[r]]]
  /\ cur' = [cur EXCEPT ![r] = p]
  /\ Goto(r, "attach")
  /\ UNCHANGED <<tables, proc, memory, flag, todo>>

\* Faulty variant of Persist: the file is not named after the run.
PersistLatest(r) == WriteGraph(r, CHOOSE p \in Paths : p \notin StepFiles)

\* _persist_execution: path.write_text(execution).
Persist(r) == WriteGraph(r, GraphFile[r])

\* write_manifest, unconditionally, and the get_run of attach_artifact.
Attach(r) ==
  /\ pc[r] = "attach"
  /\ PutSidecar(cur[r], r)
  /\ Goto(r, IF Live(r) THEN "insert" ELSE "next")
  /\ UNCHANGED <<proc, graphs, memory, flag, cur, todo>>

\* read_manifest and the insert of attach_artifact.
Insert(r) ==
  /\ pc[r] = "insert"
  /\ ForeignKeyHolds(r)
  /\ InsertArtifact(r, cur[r], sidecars[cur[r]])
  /\ Goto(r, "next")
  /\ UNCHANGED <<proc, graphs, memory, flag, cur, todo>>

\* Faulty variant of Swallow: an exception is taken for a reason to try again.
SwallowRetrying(r) ==
  /\ pc[r] \in {"persist", "attach", "insert"}
  /\ Goto(r, "persist")
  /\ UNCHANGED <<tables, proc, graphs, memory, flag, cur, todo>>

\* Any exception while persisting or attaching (a foreign key that no longer
\* holds, a torn sidecar, a full disk) is logged and swallowed.
Swallow(r) ==
  /\ pc[r] \in {"persist", "attach", "insert"}
  /\ Goto(r, "next")
  /\ UNCHANGED <<tables, proc, graphs, memory, flag, cur, todo>>

NextFile(r) ==
  /\ pc[r] = "next"
  /\ \E p \in todo[r] :
       /\ cur' = [cur EXCEPT ![r] = p]
       /\ todo' = [todo EXCEPT ![r] = @ \ {p}]
  /\ Goto(r, "attach")
  /\ UNCHANGED <<tables, proc, graphs, memory, flag>>

\* return execution, or re-raise the CancelledError.
Finish(r) ==
  /\ pc[r] = "next" /\ todo[r] = {}
  /\ Goto(r, IF killed[r] THEN "cancelled" ELSE "returned")
  /\ UNCHANGED <<tables, proc, graphs, memory, flag, cur, todo>>

-----------------------------------------------------------------------------
(* The surroundings.                                                        *)

\* cancel_event.set(), by another task of the process while the run awaits its
\* call, by the on_step callback at a boundary, or before the run starts.
RequestCancel(r) ==
  /\ pc[r] \in {"new", "boundary", "calling"} /\ LoopFree(r)
  /\ flag' = [flag EXCEPT ![r] = TRUE]
  /\ UNCHANGED <<tables, proc, graphs, pc, memory, cur, todo>>

Crash(p) ==
  /\ \E r \in RunIds : proc[r] = p /\ Active(r)
  /\ pc' = [r \in RunIds |-> IF proc[r] = p /\ Active(r) THEN "crashed" ELSE pc[r]]
  /\ UNCHANGED <<tables, proc, graphs, memory, flag, cur, todo>>

\* delete_run called by some other client of the library.
DeleteRun(r) ==
  /\ StampDeleted(r) \/ DropRow(r)
  /\ UNCHANGED <<proc, graphs, pc, memory, flag, cur, todo>>

Progress(r) ==
  \/ Skip(r) \/ Unbound(r) \/ Invoke(r) \/ Return(r) \/ Conclude(r)
  \/ UpdateRow(r) \/ Persist(r) \/ Attach(r) \/ Insert(r) \/ NextFile(r) \/ Finish(r)

Next ==
  \/ \E r \in RunIds :
       \/ Start(r) \/ Progress(r) \/ Escape(r) \/ TaskCancelled(r) \/ Swallow(r)
       \/ RequestCancel(r) \/ DeleteRun(r)
  \/ \E p \in Processes : Crash(p)

Spec == Init /\ [][Next]_vars

\* A task that is ready is scheduled, and fail_after bounds every call.
FairSpec == Spec /\ \A r \in RunIds : WF_vars(Progress(r) \/ Swallow(r))
-----------------------------------------------------------------------------
(* Properties of the step loop.                                             *)

Fatal(r, i) == log[r][i] \in Failed /\ Steps(r)[i].onFailure = "fail"

StopsAfterAbort(r) ==
  \A i, j \in 1..Len(log[r]) :
    /\ i < j /\ (Fatal(r, i) \/ log[r][i] \in Skipped) => log[r][j] \in Skipped
    /\ log[r][j] = "skip_abort" => \E k \in 1..(j - 1) : Fatal(r, k)

(* Once a step has failed fatally or has been skipped, no later step of the *)
(* run is executed; and a step is skipped for an abort only when an earlier *)
(* one did fail fatally.                                                    *)
NothingRunsAfterAbort == \A r \in RunIds : StopsAfterAbort(r)

Bound(r, v, i) ==
  \/ v \in inputs[r]
  \/ \E j \in 1..(i - 1) : log[r][j] = "succeeded" /\ Steps(r)[j].capture = v

ArgumentsBound(r) ==
  \A i \in 1..Len(log[r]) :
    log[r][i] \in {"succeeded", "failed"} => \A v \in Steps(r)[i].needs : Bound(r, v, i)

(* A tool is called only with arguments bound by the inputs or captured     *)
(* from a step that succeeded: no data of a failed or skipped step flows    *)
(* into a later call, however the template's continue steps fail.           *)
CallsOnlyWithBoundArguments == \A r \in RunIds : ArgumentsBound(r)

AllRecorded(r)  == Len(log[r]) = Len(Steps(r))
AllSucceeded(r) == AllRecorded(r) /\ \A i \in 1..Len(log[r]) : log[r][i] = "succeeded"

Honest(r) ==
  /\ verdict[r] = "succeeded" => AllSucceeded(r)
  /\ verdict[r] = "failed" =>
       /\ AllRecorded(r) /\ AnyFailed(r)
       /\ \A i \in 1..Len(log[r]) : log[r][i] # "skip_cancel"
  /\ verdict[r] = "cancelled" => killed[r] \/ (flag[r] /\ AllRecorded(r))

(* The reported status says what happened: a run that succeeded executed    *)
(* every step with success; one that failed has a failed step, recorded     *)
(* every step and was not skipped over by a cancellation; one that was      *)
(* cancelled had been asked to stop.                                        *)
VerdictHonest == \A r \in RunIds : Honest(r)

(* Every run that was started comes to an end of some kind: the loop and    *)
(* the finalization cannot get stuck, whatever fails in them.               *)
EveryRunEnds == \A r \in RunIds : pc[r] # "new" ~> pc[r] \in Ended

(* A cancellation requested while a run executes its steps is honoured: the *)
(* run concludes as cancelled unless it dies first.                         *)
CancelHonoured ==
  \A r \in RunIds :
    flag[r] /\ pc[r] \in {"boundary", "calling"}
      ~> verdict[r] = "cancelled" \/ pc[r] \in {"raised", "crashed"}

-----------------------------------------------------------------------------
(* Properties of what is recorded.                                          *)

IsGraphRow(a) == a.path \notin StepFiles

(* Every attached execution graph is that of its run, and the run's row     *)
(* shows the status the graph shows: update_run comes before the graph, and *)
(* nothing changes either afterwards.                                       *)
GraphAgreesWithRow ==
  \A a \in artifacts : IsGraphRow(a) =>
    graphs[a.path] = [run |-> a.run, status |-> runs[a.run].status]

\* _load_prior_graph: what it demands of a run, and the graph it then returns.
ReuseAccepted(r) ==
  /\ Live(r) /\ runs[r].status = "succeeded"
  /\ \E a \in artifacts : a.run = r /\ IsGraphRow(a)
PriorGraph(r) == graphs[GraphFile[r]]

(* reuse_run_id only ever surfaces a run that did execute all its steps     *)
(* successfully, and surfaces that run's own graph.                         *)
ReuseHonest ==
  \A r \in RunIds : ReuseAccepted(r) =>
    PriorGraph(r) = [run |-> r, status |-> "succeeded"] /\ AllSucceeded(r)

(* The runner never rewrites the graph of a prior run.                      *)
GraphsNeverRewritten ==
  [][\A a \in artifacts : IsGraphRow(a) => graphs'[a.path] = graphs[a.path]]_vars

(* A row is left at `running' only by a run whose process died or that an   *)
(* exception the executor does not handle has ended.                        *)
DanglingOnlyAfterEscape ==
  \A r \in RunIds : pc[r] \in Ended /\ runs[r].status = "running" =>
    pc[r] \in {"raised", "crashed"}

(* Within a process an attached row names its own run as producer, because  *)
(* finalization does not await between the sidecar's write and its reading: *)
(* only a run of another process can relabel a shared file in between.      *)
OwnLabelWithinProcess ==
  \A a \in artifacts : a.about # a.run => proc[a.about] # proc[a.run]

(* The runs in the store behave like a ledger: opened, settled once, and    *)
(* published only when settled, whatever crashes and deletes happen.        *)
Ledger == INSTANCE RunLedger WITH
  status    <- [r \in RunIds |-> runs[r].status],
  published <- {r \in RunIds : \E a \in artifacts : a.run = r /\ a.path = GraphFile[r]}
ImplementsLedger == Ledger!Spec
=============================================================================
