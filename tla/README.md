# dist-stack in TLA+

A TLA+ verification of dist-stack: the shared library `dist_stack` (model
registry, runstore, manifest sidecars, knowledge graph), the workflow runner with
its templates and the server pool it drives its domain servers with, the component
ingestion of the graph server, and the assistant page of the dashboard. Component
specifications are model-checked with TLC on small instances; all but one of the safety
properties are also proved with TLAPS, for every value of the constants.

Source paths below are shortened: `runstore/`, `registry/`, `manifest/`, `kg/`
are under `src/packages/dist-stack-model-registry/src/dist_stack/`, `executor.py`,
`client.py`, `server.py`, `templates.py`, `tools/` under
`src/packages/dist-workflow-runner/src/workflow_runner/`, `kg_server/` under
`src/packages/dist-kg/src/` (`components.py` is in its `tools/`), `assistant/` under
`src/apps/dist-dashboard/`.

Contents: [1 the system](#1-the-system) · [2 the modules](#2-the-modules) ·
[3 the runs](#3-the-runs) · [4 the proofs](#4-the-proofs) ·
[5 where code and documents disagree](#5-where-code-and-documents-disagree) ·
[6 assumptions and omissions](#6-assumptions-and-omissions) ·
[7 plan](#7-plan)

To run:

    tlc -workers 2 -config MCRunstore.cfg MCRunstore      # any pair of section 3
    tlapm Runstore_proofs.tla                             # any module of section 4

## 1. The system

Several operating-system processes (runner servers, a knowledge-graph server,
a dashboard, scripts) share SQLite files and the files next to artifacts, with no
coordinator. Every library call opens a connection and commits a transaction
(`runstore/sqlite.py`, `registry/sqlite.py`, `kg/sqlite.py`); a call made of
several transactions or file operations is interleaved with everything. Inside a
runner, all is one asyncio loop and interleaving happens at awaits only.

| component | state | operations | what makes it correct |
|---|---|---|---|
| Runstore (`runstore/`) | tables `runs`, `artifacts` | `create_run`, `update_run`, `delete_run` soft and hard, `attach_artifact`, queries | artifact rows never outlive their run; soft deletes stick; attached stays attached; a row names what its sidecar said |
| Manifest sidecars (`manifest/`) | one JSON file per artifact | `write_manifest`, `read_manifest`, `has_manifest` | the sidecar is the truth about the producer |
| Workflow executor (`executor.py`) | the step loop in memory; a row, a graph file and artifact rows in the store | `execute_workflow`, cancellation by flag and by task, finalization | abort and captures follow the template; the verdict is honest; what is recorded agrees with what happened; every run ends |
| Server pool (`client.py`, `server.py`) | handles, owner tasks, subprocesses | `connect`, `call_tool`, `list_tools`, `close_all` | one subprocess per server, none left over; calls are answered; shutdown ends |
| Runner tools (`tools/`) | none of their own | `run_workflow`, reuse of a prior run, listings, `create_workflow` | reuse surfaces the graph of that very run, and of a success |
| Workflow templates (`templates.py`) | one JSON file per workflow id | `load_workflow`, `list_workflows`, `validate_workflow`, `create_workflow` | a confirmed template is the one that is loaded; a torn file has a known cause |
| Runner configuration, resources, prompts | read once | rendering | none that is stateful |
| Model registry (`registry/`) | table `models` | `register` with and without version, `delete`, `lookup`, `next_version` | no registration is lost; the newest is the latest |
| Knowledge graph (`kg/api.py`) | tables `nodes`, `edges` | `upsert_node`, `upsert_edge`, `delete_node`, neighbours, provenance chains | nothing dangles; metadata merges; queries are exact |
| Graph ingestion (`kg/ingest.py`) | what a pass holds in memory | `ingest` with its five passes and `prune` | a pass is complete, idempotent, mirrors with prune, resurrects nothing |
| KG server (`kg_server/`) | what a pass of `ingest_components` holds | tool wrappers, `ingest_components` | counters agree with what was written; a pass without errors is complete; a system keeps one name |
| Dashboard assistant (`assistant/`) | the session of the page, a thread and a queue per turn, runtimes with a pool each | prompt, suggestion, write toggle, choice of a file, clear, test, restart; a turn of the model with its tools | no change in a read-only turn; one agent at a time; the conversation is kept; the page comes back |
| Dashboard views (`app.py`, `data.py`) | none | read-only queries | none that is stateful |

Interactions:

- the executor calls `create_run`, then one `call_tool` of the pool per step, then
  `update_run`, writes its graph file, and for it and every reported step file
  `write_manifest` and `attach_artifact`;
- `run_workflow` reads a prior run through the runstore (row, artifact rows, graph
  file) to reuse it;
- `ingest` reads registry, runstore and sidecars and writes the graph, while all of
  them change;
- `ingest_components` asks the registry for a name, spawns a gdm server for each
  question, and writes the graph that `ingest` and the clients of `kg/` write too;
- `create_workflow` writes a template that every runner of the directory loads;
- the assistant page starts a runtime (a thread with a loop and a pool) and, for a turn,
  an agent thread that calls the pool and tells the page of its rounds by a
  queue; Streamlit stops and restarts the page's script at every interaction, and
  neither the threads nor the session notice.

What is hard here: multi-transaction calls (`attach_artifact`, `register`,
`upsert_node`, `upsert_edge`, the finalization of a run, an ingestion pass)
interleaved with deletes and with each other; a process that dies between any
two of their steps, with nothing that recovers; files truncated and rewritten in place; cancellation that
may arrive at any await; a script that is stopped at any access to its session while
its thread works on; failures that are recorded, swallowed or let through depending on where
they happen; the first connection to a server, raced for by requests; shutdown with
handles in every state. `PROJECT.json` lists each such hazard at its line with the
properties that speak about it.

## 2. The modules

    RunTables ── Runstore                    KGTables ── KnowledgeGraph
        └────── WorkflowRun ─► RunLedger         ├── KGQueries ── KGIngest
    ServerPool     Registry     Templates        └── KGComponents

    ToolPolicy ──┐
    PoolRuntime ─┴── AgentTurn ── Assistant

(── is EXTENDS, ─► refines.) Each `MC…` module instantiates one of them for TLC, and
each `…_proofs` module holds theorems: about the module it is named after, and
`KnowledgeGraph_proofs` about KGComponents too, `Runner_proofs` about ServerPool and Templates.

Definitions called "Faulty variant of X" are not part of any specification. They
are X with a bug of the kind its code could have, kept to show that each
property notices such a bug when X is replaced by it.

**RunTables** — the tables `runs` and `artifacts` and the sidecars, and the effect of
each committed transaction (`InsertRun` is the INSERT of `create_run`, `SetStatus`
the UPDATE of `update_run`, `StampDeleted` and `DropRow` the two deletes with the
foreign-key cascade, `InsertArtifact` the last transaction of `attach_artifact`,
`PutSidecar` a file write). A run row keeps its status and its soft-delete stamp; an
artifact row keeps its run, its path and the producer copied from the manifest; a
sidecar is the run it names, missing, or `Torn` (truncated and not yet
written).

**Runstore** — clients that call the library at once. Each of `Create`, `Update`,
`Delete` is one transaction with its errors. `attach_artifact` is modelled statement
by statement: path test and `get_run` (`AttachFetch`), `has_manifest` and
`read_manifest` (`AttachRead`) or the decision to write one (`AttachMissing`), the
truncation and the write of `Path.write_text` (`AttachTruncate`, `AttachWrite`), and
the INSERT, which fails when the foreign key no longer holds (`AttachInsert`).
`write_manifest` called by itself, as the executor does for every file a step reports, is
`ManifestTruncate` and `ManifestWrite`. A client may die between any two of these. Two
writers of one sidecar each start at its beginning, so that it may end up with the end of
the longer text behind the shorter (`Texts`). `current` and `stale` are history: the clients
that have in memory what the sidecar says, and the rows whose sidecar has been written since
their manifest was read or written.

**WorkflowRun** — `execute_workflow` for several runs in several processes over
RunTables. `Start` is input resolution and `create_run`; `Skip`, `Unbound`, `Invoke`,
`Return`, `Escape`, `TaskCancelled` are the ways a step goes; `Book` is the common
bookkeeping (result, abort, capture); `Conclude` computes the verdict; `UpdateRow`,
`Persist`, `Attach`, `Insert`, `NextFile`, `Finish` are `_finalize_runstore`, with
`Swallow` for its `except Exception`. `LoopFree` is asyncio: the finalization does not
await, so it excludes the other runs of its process and nobody else. `Crash` kills
a process. A template is a sequence of steps with the names they need, the name they
capture and their `on_failure`; values are reduced to which names are bound.
`ReuseAccepted` and `PriorGraph` are `_load_prior_graph`.

**RunLedger** — what the runner promises, seen from outside: a run is opened once,
settled once and for all, and published (given a graph) only when settled; removal
takes the publication along. WorkflowRun implements it under the mapping "status of
the row, and the runs whose own graph is attached".

**ServerPool** — requests, owner tasks and the lifespan of one runner on one asyncio
loop; an action is what a task does between two awaits. `Request` is `connect` up to
its await, or all the way to the call when a handle is found; `Wake` the rest; `Respond`,
`TimesOut`, `TransportFails`, `Cancelled` the ends of a call; `Connected`, `ConnectFails`,
`BeginClose`, `EndClose` the owner task; `CloseAll`, `CloseWait`, `CloseDone`,
`GroupExit` the shutdown.

**Templates** — one directory, several runners. `Create` is validation and the test
for the file; `Truncate`, `WriteBlock` and `Confirm` are `Path.write_text`: truncation,
the blocks of the text, the close; `Breaks` is a death or a full disk at any point.
There is no temporary file and no lock, so that two writers fall into
each other's file, block by block (`Hole` is a block nobody has written). `Loads` and
`Listed` are `load_workflow` and `list_workflows`. `acked`, `contended`, `broken` are
history: what was confirmed, where creations overlapped, where one was cut short.

**Registry** — `register` with a version in one step and without one in two
(`Number`, `Commit`, with `Abandon` for a failing `hash_fn` or a death in between),
`delete` of a version and of all, soft and hard. `alone`, `acked` and `shared` are history:
whether a call has been overtaken, and what automatic registrations returned.
`IsLatest` is what `lookup` without a version answers.

**KGTables, KnowledgeGraph** — rows of nodes and edges with their stamps;
`upsert_node` as the SELECT of the metadata it merges into and the INSERT that
follows, `upsert_edge` as the look at its ends and its INSERT under the foreign keys,
`delete_node` soft and hard, and clients that die in between. `alone`, `acked`, `raced`
are history as in Registry.

**KGQueries** — the recursive CTEs of `get_neighbors` and `get_provenance_chain` as the
paths they enumerate, depth by depth and with their cycle guard, against what lies within so
many hops, found without paths (`Ball`); and the degrees that `graph_stats` ranks nodes by,
against their neighbourhoods. `Hops` is the range of `depth` (1 to 5).

**KGIngest** — `ingest` item by item: models, runs, artifact rows, edges of rows,
edges of runs, the sweep of `manifest_dir` and its edges, the prune. Each read of a
source is one transaction and each upsert one step; between them sources change,
the graph is edited by others, and reads and upserts fail (`Fault`, which says for each
phase how far the handler around it lets the failure reach). A pass keeps what the code keeps:
items still to do, nodes it has found, edges it has touched, whether it created
anything or met an error. `fresh` is `updated_at_utc >= started_at`. `quiet`,
`again`, `seen` and `settled` are history: whether something else happened during
the pass, whether an identical pass preceded it, and what the sources have
contained since it began.

**KGComponents** — `ingest_components` transaction by transaction. `BeginModel` and
`BeginPath` find the name under which components are stored: the registry's, or the
slug of the path's stem when the registry knows nothing or fails (`NamesOf`). `Query`
and `Anchor` are the list of components and the node of the system; `NodeStep` and
`SkipComponent` what becomes of each component; `EdgeStep` counts an edge, marks it
touched and only then writes it; `AskRelations` is one question to gdm with its three
outcomes (answered, a payload that says it failed, an exception of the client); `Fails`
lets what is not caught out of the pass. Others delete nodes and register and unregister
models in between. `quiet`, `refused` and `certain` are history: whether the graph was
edited during the pass, whether gdm answered with a failure, whether the registry has
answered and stood still.

**ToolPolicy** — `policy.py` with its real table of tools. `Curated` asserts that
`drift_report` has nothing to say of it; TLC evaluates it.

**PoolRuntime** — `pool_runtime.py` as the page sees it: which runtimes have their pool
and loop. A runtime's thread never ends, because `stop()` does not wake its loop (see
section 5), so that a join always takes its whole time.

**AgentTurn** — the thread of a turn (`chat.py`, `router.py`): it asks the model, which
answers, fails, or calls tools by any names it likes; `Route` is `ToolRouter.execute` with
its second look at the policy; `RoundEnds` the `yield`, which becomes an item of the
queue, and the cap on rounds; `Dies` the end of the thread, which comes after its last item.
`LetGo` says that no script holds the thread's queue any more: it works on, unseen.

**Assistant** — the page's script (`view.py`) between two accesses to Streamlit: an action
for each access to session state or element that matters, from `_get_runtime` (`Top` to
`Name`) over `_get_catalog` (`Catalog` to `AssignKey`) to `render_chat_view` and `_run_turn` (`Chat`
to `Unset`). Taking a prompt (`Submit`, `OpenTrace`) and ending a turn (`Commit`, `Note`,
`CapHistory`, `Unset`) are several steps each, since the session is read in between. At an `Open` point an interaction may stop the script
(`Interrupt`) and start it from the top; at a `Waiting` point it is inside a wait and cannot be
stopped. The session survives, what the script holds does not. `torn` is history: whether
a script was stopped between storing a catalog and storing its key.

## 3. The runs

Each configuration is checked with `tlc -config <cfg> <module>`.

### Runs in which every property holds

| run (`cfg`) | what it asks | instance |
|---|---|---|
| `runstore` (`MCRunstore.cfg`) | Two clients create, update, delete and attach, and write sidecars by themselves, at once, and may die in the middle. Do the tables and the sidecars stay consistent? | 2 clients, 2 runs, 1 path |
| `workflow_loop` (`MCWorkflowLoop.cfg`) | Does the loop do what the template says under failures, unbound arguments and both kinds of cancellation, and does it end? | 1 run of each of 32 three-step templates, 2 names |
| `workflow_store` (`MCWorkflowStore.cfg`) | Do two runs that finalize at once, crash and are deleted leave a truthful record, and does the store implement the ledger? | 2 runs with their own graph files and one shared step file, in 1 or 2 processes, one-step template |
| `server_pool` (`MCServerPool.cfg`) | Is nothing spawned twice or left over, and do calls and shutdown end? | 2 requests, 2 configured servers and an unknown one |
| `templates` (`MCTemplates.cfg`) | Is what `create_workflow` confirmed what is loaded, and is a file that cannot be loaded explained? | 2 runners, 2 ids, 3 valid documents of 1 or 2 blocks and one with a repeated step id |
| `registry` (`MCRegistry.cfg`) | Are registrations kept and the newest the latest? | 2 clients, 1 model, 2 contents, versions 0 to 3 |
| `knowledge_graph` (`MCKnowledgeGraph.cfg`) | Does nothing dangle or get lost, and are the recursive queries exact? | every graph of 3 nodes, 2 relations and up to 3 edges, shown or hidden; 2 clients, 2 entries; `MaxCalls` 3 |
| `kg_ingest` (`MCKGIngest.cfg`) | Is an undisturbed pass complete, a mirror, and idempotent, and does no pass resurrect anything? | 1 run, 3 paths (one of an unknown type), 1 model; any number of passes, 4 kinds of them; `MaxChanges` 2 |
| `kg_components` (`MCKGComponents.cfg`) | Do counts and reports of a pass agree with the graph, and does a system keep one name? | 2 systems with one slug, of which 1 model may be registered; 2 uuids, one of them listed twice, and a missing one; any number of passes; `MaxEvents` 1 |
| `assistant` (`MCAssistant.cfg`) | Does no change slip through, does one agent work at a time, is the conversation kept, does the page come back? | 2 prompts, 2 interactions; a reading and a changing tool; a file that loads and one that does not; 2 rounds of 1 call; 3 messages of history |

What they establish:

- **runstore.** `NoOrphanArtifacts`: a hard delete between the two transactions of
  `attach_artifact` never leaves a row without its run, thanks to the foreign key.
  `IndexMatchesSidecar`: a row names the producer that the sidecar named when the attach
  read or wrote it, although the row is inserted in a later step, and agrees with the sidecar
  until somebody writes that again. That a row always agrees with its sidecar is false
  (`IndexUpToDate`, section 5). `DeletedStaysDeleted`, `ArtifactsDurable`: neither
  updates of soft-deleted rows nor the reuse of an id undo a delete or lose a row.
- **workflow_loop.** `NothingRunsAfterAbort`, `CallsOnlyWithBoundArguments` (no data of
  a failed or skipped step reaches a later call, also when a name is captured
  twice), `VerdictHonest`; and under fairness `EveryRunEnds`, `CancelHonoured`.
- **workflow_store.** `GraphAgreesWithRow`, `ReuseHonest`, `GraphsNeverRewritten`,
  `DanglingOnlyAfterEscape`, `OwnLabelWithinProcess`, and the refinement
  `ImplementsLedger`.
- **server_pool.** `OneSubprocessPerServer`, `NoOrphanSubprocess`; under fairness
  `EveryCallAnswered`, `ShutdownTerminates`.
- **templates.** `CreatedTemplateStands`: unless two creations of the id overlapped, exactly
  one document is confirmed until somebody asks to overwrite it, and it is loaded as it was
  submitted. `TornFilesExplained`: what `list_workflows` passes over was invalid, is
  being written, or is the remains of a creation that was cut short or overlapped.
  Without the exceptions (`contended`, `broken`) both fail: see section 5.
- **registry.** `RegistrationsKept`, `NewestIsLatest`: both hold for registrations that
  were not overtaken between their two transactions; numbers count
  soft-deleted rows, and a number whose row was hard-deleted may be given out again.
- **knowledge_graph.** `EdgesDurable`, `EdgesToLiveNodes`, `MergesKept`, and
  `QueriesExact`: neighbours and provenance chains are exactly what lies within the depth asked
  for over undeleted nodes and shown edges, cycles and parallel edges included, a chain lists
  each node at its distance first, and degrees are the sizes of neighbourhoods. Depths are 0,
  which `get_neighbors` raises to one hop, and 3, beyond which 3 nodes have no path.
- **kg_ingest.** `PassIsComplete`, `MirrorAfterPrune`, `SecondPassCreatesNothing` and
  `NothingResurrected`: a node comes alive only through a pass under way, and only for a registered
  model, an undeleted run or an artifact of one that was there at some time since that pass
  began, or as the stub of a model the graph never had. A pass that sweeps `manifest_dir` also
  brings back the artifacts of the sidecars it finds, those of deleted runs included, which
  the documentation excludes (section 5). Its `TypeOK` says of what kind the items are that a pass has before it
  at each point, which a failing read or a wrong phase would break.
- **kg_components.** `EdgesCounted`: however often an edge is told, it is counted once,
  and counted when it failed. `CleanPassIsComplete`: a pass that nobody disturbed and
  that reports no error has written everything, but for relations that gdm refused to tell
  with a payload (`refused`). `OneNamePerSystem`: whether by path or by model, a system's
  components carry one name as long as the registry answers, stands still, and has
  the path in full under one model (`certain`, `relative`).
- **assistant.** `ReadOnlyTurnsNeverWrite`: a turn begun with write tools disabled
  executes nothing that changes templates, runs or the graph, whatever the model
  asks for, whatever catalog it was shown, and whatever the toggle says since.
  `CatalogFitsTurn`: nor is it shown such tools, but for a script stopped between the
  assignments of catalog and key (`torn`). `OneAgentAtATime`: no thread starts while
  another is inside a turn, although scripts are stopped and fail.
  `ConversationKept`: a turn that ends late never brings back a conversation that was
  cleared nor loses a prompt. `PageComesBack`, under fairness: no script waits for ever,
  unless the model fails over and over.

Why the bounds are enough. *Two actors*: every multi-transaction call here has two
transactions (or a truncation and a write) that one other actor can fall between;
a third would repeat what the second does. *Two runs, one path*: a row relates one run
to one path; the second run is the other producer, or the reused id. *Three-step
templates*: a producer, a middle step that aborts, reuses or overwrites, and a step that would be
executed or fed wrongly. *Versions 0 to 3*: room for an explicit version that leaves
a gap, and for a number given out again. *Three nodes, three edges*: a
cycle, parallel edges, a hidden edge beside a shown one, a deleted node between
two others; each initial edge counts as a call, so that large graphs are only queried
and small ones are worked on. *`MaxChanges` 2*: in a pass two changes of the sources,
edits of the graph or failures, at any two points, over sources that start full or
empty; afterwards any number of passes. Passes with `limit`, whose
subset is arbitrary, start when the changes are spent. *Two systems with one slug*: a
name is right or wrong only where two could share it or one have two. *A uuid
listed twice, a relation told by its parent and by its child*: every way an edge
can be counted again. *Two prompts, two interactions*: a turn that is left alone by one
interaction, and a second one, or a second prompt, that meets what the first left
behind; three messages are fewer than a turn with a round produces, so the cap bites.
*Documents of two blocks*: a text can be half written, and a short one can fall into
a long one.

Deadlock is checked in `runstore`, `registry`, `templates` and `kg_components`, where a
client can always do something. It is off where the system may stop: when all runs have
ended, when the pool has exited, when the bounded calls, changes or interactions are spent.

### Fairness

`FairSpec` of WorkflowRun assumes weak fairness of `Progress(r) \/ Swallow(r)` for each run: a
task that is ready is scheduled by asyncio, every call ends because the pool bounds it
with `fail_after` (`client.py:212`), and every statement of the finalization either succeeds or
raises. Nothing says a call succeeds, nor that a cancellation arrives.

`FairSpec` of ServerPool assumes weak fairness of waking a request whose handle is
ready, of the timeout of `call_tool`, of each owner task (connecting ends,
since `initialize` is bounded) and of the lifespan. Servers owe no
answer. `list_tools` has no deadline in the code and gets no promise here:
`EveryCallAnswered` is about `call_tool`.

`FairSpec` of Assistant assumes weak fairness of the page's script and of each agent thread:
they are threads of one process, and each of their waits is bounded: the queue by 0.2 s
(`view.py:319`), the future of a catalog by 300 s, the joins by 5 s and 10 s, the model by the
timeout of its client, a tool by `fail_after` of its pool. Nothing is assumed of the
loop of a runtime, which may never end, and users owe nothing.

### Runs that find a documented promise broken

`provenance_up` (`MCKGIngestUp.cfg`) and `page_stuck` (`MCAssistantStuck.cfg`); see
section 5.

## 4. The proofs

The theorems hold for every value of the constants, under the `ASSUME`s of the modules
(distinct tags, functions of the right type, nothing about sizes).

| module | proved |
|---|---|
| `RunTables_proofs` | what each transaction does to the types and to `NoOrphanArtifacts`; cited by the next two |
| `Runstore_proofs` | `TypeOK`, `NoOrphanArtifacts`, `IndexMatchesSidecar`, `DeletedStaysDeleted`, `ArtifactsDurable` |
| `WorkflowRun_proofs` | `TypeOK`, `NoOrphanArtifacts`, `DanglingOnlyAfterEscape`, `ImplementsLedger`, `NothingRunsAfterAbort`, `CallsOnlyWithBoundArguments`, `VerdictHonest`, `OwnLabelWithinProcess`; with distinct graph files `GraphAgreesWithRow`, `ReuseHonest`, `GraphsNeverRewritten` |
| `Runner_proofs` | of ServerPool `TypeOK`, `OneSubprocessPerServer`, `NoOrphanSubprocess`; of Templates `TemplatesTypeOK`, `CreatedTemplateStands`, `TornFilesExplained` |
| `Registry_proofs` | `TypeOK`, `RegistrationsKept`, `NewestIsLatest` |
| `KnowledgeGraph_proofs` | `TypeOK`, `EdgesHaveEnds`, `MergesKept`, `EdgesToLiveNodes`, `EdgesDurable`; `QueriesExact` while no id is part of another; of KGComponents `ComponentsTypeOK`, `EdgesCounted`, `CleanPassIsComplete`, `OneNamePerSystem` |
| `KGIngest_proofs` | `TypeOK`, `EdgesHaveEnds`, `MirrorAfterPrune`, `PassIsComplete`, `SecondPassCreatesNothing`, `NothingResurrected` |
| `Assistant_proofs` | `TypeOK`, `ReadOnlyTurnsNeverWrite`, `OneAgentAtATime`, `CatalogFitsTurn`, `ConversationKept` |

The inductive invariants, and why they are needed:

- **Runstore.** `IndexMatchesSidecar` is not inductive: it depends on what clients
  inside `attach_artifact` and `write_manifest` hold in memory. `SidecarsKnown` says that a manifest
  a `current` client has in memory is the one on disk, and that a sidecar is empty while a
  current client is writing it; so a client that is current at its INSERT adds a row that agrees
  with the sidecar, and every write of the sidecar (`RewriteStep`) takes the rows of its
  path out of the claim.
- **WorkflowRun**, in layers, each using those before it. `TypeInv` adds to the types which
  fields are meaningful at which point. `RowInv` relates a run's point to what its row
  shows (`running` before `update_run`, its verdict or nothing after); the ledger
  refinement and `DanglingOnlyAfterEscape` follow. `LogInv` says that the log is a
  prefix of the template, that `abort` and the flag account for everything skipped, and that every
  bound name has a source. `GraphInv` says that an attached graph has been written by its own
  run, under `DistinctGraphs`: no two run ids share a graph file, as is the case for ids the runner
  mints; caller-chosen ids can break it (section 5). `LabelInv`
  is the event loop: two runs of one process are never both between two awaits
  (`Exclusive`), so the sidecar a run is about to read is its own or of another process
  (`FreshSidecar`).
- **ServerPool.** `SpawnedOnce`: a server has been spawned once if it has a handle and
  never otherwise; with it a handle in `handles` keeps a second request from spawning.
  `OverIsReaped`, `ExitedIsOver`: an owner task that has ended has no subprocess, and
  the group exits after all of them.
- **Templates.** `Underway`: what is being written is valid. `Alone`: a creation of an id
  that is not contended is the only one, nothing of the id is confirmed, and its file
  holds the blocks written so far and nothing else. `Explained`: a file is
  whole, or being written, or its id is broken or contended.
- **Assistant.** `AgentInv`: `OneRuns`, that `running` is set while a thread is inside its turn and that a
  script about to begin a turn, or watching one, knows of no other (so that interrupting
  a script cannot start a second thread), and `ErrorsEnd`, that a thread inside its turn has
  put no error (so that a script that meets one may reset `running`). `CatalogInv`: unless `torn`,
  what the session caches fits its key, and `CatalogFits` says for every point of the
  script what it is about to use or store fits the setting it has read. `Holding`: while a
  script watches over a turn whose conversation it has not taken yet, the thread is held and
  its conversation extends the page's (`Extends`); so what `Commit` writes back begins with
  everything the page has; the note adds to its end, and the cap keeps an end of it.
- **Registry.** `NumberFresh`: the number that a client which is still alone holds is
  beyond every recorded version. With it `Commit` neither replaces a registration
  nor hides behind a higher one.
- **KnowledgeGraph.** `ReadsStand`: what a client that is still alone has read is still
  so; the metadata it is going to write contains what was recorded, and the ends of its
  edge are there.
- **KGQueries.** `QueriesExact` is a fact about every graph of the right type with finitely many
  edges, which the calls keep, whenever `IdsApart` holds of it: no undeleted node's id is part of
  another's. The code does not see to that, and the cycle guard then leaves nodes out (section 5). The paths and the
  balls are recursive functions, and the library's induction theorems take an operator as a
  parameter, so the induction is done by hand: the least depth at which a fact fails (`Least`, from
  `WFMin`) would follow one at which it holds (`UpTo`). `Recursion` gives the functions their
  equations in the same way. The cycle guard costs nothing because each node of a path ends a
  path that is no longer (`WalksHaveStarts`).
- **KGComponents.** `CountsAgree`: the edges a pass has touched are those it has put or missed,
  and their number is its count. `Complete`: of an undisturbed pass without errors, at each of
  its points, each component listed has been written or is still to be, and so have its edge and
  the relations told of it, shown or on the list of edges to write (`Held`).
  `NamesRight`: while the registry is `certain`, each name a pass goes by, in the graph or
  in hand, is one that `NamesOf` gives its path. `Uuids` and `ModelIds` are assumed to be finite, as
  a payload and a table are.
- **KGIngest.** `IInv` speaks of a pass according to what has become of it. Of any pass:
  the items before it are of the kind of its phase (`Shaped`), and all that it holds it has seen
  since it began among the undeleted sources, or the sidecars if it sweeps (`HasSeen`, for
  `NothingResurrected`). Of one that
  nothing disturbed: what it has before it and behind it stays within what the sources state
  (`Within`), the nodes it found are alive and the edges it touched are shown (`Standing`). Of one that
  also reported no error: nothing the sources state is lost between what is still to do and what
  is done, for nodes (`Covered`) and, without sweep and limit, for edges
  (`Linked`: each edge an item needs is written, or is among the jobs in hand, or the item is still
  to come); at its end `Mirrored` holds. Of one that follows another of the same kind:
  the graph has all that the sources ask for (`Derived`), and nothing has been created (`Repeats`).
  The work is in `IngestInv`, one lemma per action: a step of one pass need not be followed for
  the others, since it takes away their `quiet` (`Stepped`). The argument for
  a parent (`OneCandidate`) is that of the entries of `derived_from` at most one node decides.

Each of these invariants was a run's invariant before it was proved: TLC found `Holding` and
the parts of `IInv` and `ComponentsInv` to hold of the instances of section 3, and refuted earlier
forms of them (section 5 has one that was about the code).

Only model-checked are the liveness properties (`EveryRunEnds`, `CancelHonoured`, `EveryCallAnswered`,
`ShutdownTerminates`, `PageComesBack`), since fairness and ENABLED are beyond the prover.

The other way round, `EdgesHaveEnds` and the types of most modules are proved and no longer
listed in a configuration.

## 5. Where code and documents disagree

Found by a run that ends in a counterexample (details with quotations in
`PROJECT.json`):

- `provenance_up`: the edges written by `ingest` point from an artifact to what it came
  from, `up` walks them backwards: from an artifact it does not reach its run, its
  parents or its model (`kg/api.py:535`).
- `page_stuck`: the agent thread puts triples on its queue and the page unpacks pairs
  (`assistant/view.py:298`, `319`): the first round of tools ends the script with a
  `ValueError`, and the chat field stays disabled although no turn runs.

Met while modelling, and without a run of their own. In the store, the runner and
the registry:

- An exception of the tool call that is neither `ValueError` nor `ServerError` leaves
  `execute_workflow` before `update_run`, and the row stays at `running` for good
  (`executor.py:588`; `Escape`, the exception of `DanglingOnlyAfterEscape`). The
  documentation says that step failures are never raised.
- Graph files are named after the last `_` segment of the run id; two caller-chosen ids
  with the same one overwrite each other's graph, and `reuse_run_id` surfaces the
  wrong one (`executor.py:278`; `GraphAgreesWithRow` fails without `DistinctGraphs`).
- A request that finds a handle still connecting does not wait and fails on an
  assertion (`client.py:156-178`).
- Two overlapping `register` calls without a version get the same number and the second
  silently replaces the first (`registry/api.py:152`; the exception of
  `RegistrationsKept`).
- A template that was cut short is passed over by `list_workflows` and refuses to be
  created again without overwrite (`templates.py:207`); text torn inside a multibyte
  character makes `list_workflows` raise `UnicodeDecodeError` instead. Two creations
  without overwrite that overlap are both confirmed.
- `attach_artifact` documents `RunNotFoundError`; after a concurrent hard delete it
  raises `sqlite3.IntegrityError` (`runstore/api.py:446-447`, the error branch
  of `AttachInsert`).
- An artifact row is documented as an "index of the sidecar" (`runstore/api.py:443`), and
  sidecars as immutable (`manifest/api.py:3`). The executor writes the sidecar of every file
  a step reports, also of one that an earlier run has attached (`executor.py:476-483`): the sidecar
  then names the later run, and the earlier run's row goes on naming the earlier (`IndexUpToDate` of
  Runstore, which fails). No two calls need overlap for that.
- The cycle guard of the recursive queries is a substring test (`kg/api.py:481`): a
  node whose id is part of the id of a node on the path is left out, as `model:net` is
  after `model:net_v2`. The model has it (`Inside`); `QueriesExact` is checked and
  proved for ids of which none contains another (`IdsApart`) and fails otherwise.
- `ingest` documents that it never fails mid-pass (`kg/ingest.py:331-332`); a
  swept sidecar of an unknown `artifact_type` makes it raise (`kg/ingest.py:491`;
  `Raise`, and the definition `NeverRaises` of KGIngest, which fails).
- With `manifest_dir`, parents of swept artifacts that are swept later than their first
  mention can be resolved only by the next pass, which then creates edges
  although nothing has changed (`Idempotent` of KGIngest, which fails;
  `SecondPassCreatesNothing` is about passes that do not sweep).
- Soft-deleted rows are documented to be "skipped and never resurrected" (`docs/kg.md:207-208`,
  `kg/ingest.py:328-329`). The sidecars of a deleted run stay on disk, and a pass with
  `manifest_dir` upserts an artifact node for each sidecar it finds, without a look at the runstore
  (`kg/ingest.py:477-500`): it revives the node (`DeletedStayOut` of KGIngest, which fails for such
  passes).
- The parent that an entry of `derived_from` stands for is its first candidate with a row,
  undeleted or not (`kg/ingest.py:100-107`, `166-193`). With an entry of two candidates, of which the
  first is a node that is no longer in the sources, a pass writes the edge to that node and then
  prunes it: the edge to the second, which is in the sources, is never written
  (`Resolved` of KGIngest says which candidate decides; `PassIsComplete` fails when
  deleted candidates are to be passed over).
- `_ensure_model` does not refresh the stub of an unregistered model: the next prune hides the
  stub and leaves the edge to it in view (`kg/ingest.py:215`).
- `graph_stats` is documented to count over undeleted nodes and edges
  (`kg/api.py:591-623`); its degrees count edges at deleted nodes too.

In `ingest_components`:

- A payload in which gdm says that it failed is taken for a component without
  relations, and the pass reports no error (`components.py:218`; `refused`).
- An edge is counted before it is written (`components.py:199-201`), so `edges_added` includes
  those whose write failed.
- A record whose path is relative to the registry, or a failing look into the registry,
  makes an ingestion by path use the stem where one by model uses the model's id
  (`components.py:83`): one system, two names (`relative`, `certain`).

On the assistant page (`view.py` and its neighbours):

- When the model fails, the prompt stays the last message, and the rerun at the end of the
  turn begins the turn again, as long as the failure lasts (`view.py:338-351`,
  `566-569`; the exception of `PageComesBack`). `llm.py:76` says that the agent loop is
  the retry layer, and it has no retry.
- An interaction during a turn stops its script; `assistant_running` then stays set for ever,
  since only that script would reset it, and what the thread answers is lost.
- A script stopped between the message and the place for its trace (`view.py:263-264`), with no
  earlier turn on the page, leaves a turn that ends in an `IndexError` (`view.py:339`), and
  `assistant_running` set (`Commit`).
- A thread keeps the setting its turn began with: switching write tools off does not
  reach a turn under way.
- Catalog and key are stored by two assignments (`view.py:171-172`). Stopped in
  between, a catalog with write tools can be cached under the key of the read-only
  setting; the model is then shown tools that the router refuses.
- An empty catalog, of servers that were down, stays cached, also after Test connections.
- An item that a thread puts after the page's poll came up empty and before it looks at
  `is_alive()` is lost (`view.py:320-323`): a turn that failed is shown as done.
- `stop()` hands `Event.set()` to `run_coroutine_threadsafe`, which refuses it, and nobody
  calls `close_all` (`pool_runtime.py:63`, `101`): each restart leaves a thread and its
  connections behind.
- A suggestion clicked while a turn is thought to run is recorded and not answered
  (`view.py:547-562`).

## 6. Assumptions and omissions

Common to all modules: values are reduced to names; validation of arguments, wording,
timestamps (other than the comparison in the prune), paths and hashes are left out; SQLite
transactions are atomic and durable, and the foreign keys are enforced, as each
`_connect` asks.

- *WorkflowRun*: each run id is executed at most once; `on_step` does not raise;
  "database is locked" is a nondeterministic failure of `create_run` and `update_run`;
  the sidecar write is one step here (Runstore has its two); the allow-list of
  artifact roots only shrinks the set of step files, which is free.
- *ServerPool*: requests arrive while the pool serves and are gone before `close_all`, as
  the MCP SDK arranges; `_done.wait()` with its deadline always moves on.
- *Registry*: `created_at_utc` and the paths are part of one abstract content.
- *KnowledgeGraph*: columns of a node other than its metadata are overwritten by each
  upsert and left out. `search_nodes` and the limits of result lists only select rows.
- *KGIngest*: `derived_from` and `model_id` of a path or run are constants; an
  unavailable source is a failing read; `os.walk` is a snapshot of the listing, with
  each sidecar read later; `limit` gives an arbitrary subset.
- *Templates*: the blocks of a text are written in order, the last at the close; a reader
  sees the file as it is at one moment; the directory may be found with any whole files.
- *KGComponents*: a path is its normalised form; a model has one version; what gdm
  knows of a system stands still; each upsert is one step.
- *Assistant*: a model is configured; interactions are stopped at accesses to Streamlit
  only, as its script runner arranges; statuses, traces other than whether there are any, LLM
  settings and rendering are left out. The pool inside a runtime is a call that
  ends: ServerPool is not composed with it, and that the agent calls it from the
  loop of its own thread, against the docstring of `PoolRuntime`, is left out with it.

Not modelled: the runner's configuration, resources and prompts, and the dashboard's
views and its `data.py` (rendering and reading; they change no state); `_query_runs`
of the runner and the query and ingest tools of the KG server, which wrap calls that are
modelled; `mcp` result decoding; the domain servers themselves, which are external and appear
as calls that succeed, fail or break. Still to be modelled: section 7.

## 7. Plan

Order: the store and the executor first, since everything else reads what they record; then
the pool they call through; the registry; the graph and its ingestion; then the
components of systems, the templates and the assistant page. That much is done. What is
left, in this order:

1. A **MCP session** (`dist_stack/mcp/client.py`), the session that a handle of ServerPool
   uses, and PoolRuntime composed with ServerPool: what of a pool outlives `stop()`.
2. Two executions of one run id, the remaining hazard of the executor without a property.
