---------------------------- MODULE WorkflowRun_proofs ----------------------------
(***************************************************************************)
(* Safety of the runner for any number of runs, processes, templates and   *)
(* files, and the refinement of the run ledger.                            *)
(*                                                                         *)
(* The invariants are proved in layers, each using the ones before it:     *)
(* types, the row of each run, the step log, the execution graphs.         *)
(***************************************************************************)
EXTENDS WorkflowRun, RunTables_proofs, SequenceTheorems

\* What a run's position says about its data: a call belongs to a step of the
\* template, finalization has a verdict, and an insert finds a sidecar.
PointsOK ==
  \A r \in RunIds :
    /\ pc[r] = "calling" => Index(r) <= Len(Steps(r))
    /\ pc[r] \in {"update", "persist"} => verdict[r] \in Terminal
    /\ pc[r] = "insert" => sidecars[cur[r]] \in RunIds

TypeInv == TypeOK /\ PointsOK

LEMMA TemplateType ==
  ASSUME TypeInv, NEW r \in RunIds
  PROVE  /\ Steps(r) \in Seq(StepSpec) /\ Len(Steps(r)) \in Nat /\ Index(r) \in Nat \ {0}
         /\ Index(r) <= Len(Steps(r)) => Step(r) \in StepSpec
<1>1. workflow[r] \in Workflows \cup {NoWorkflow} /\ log[r] \in Seq(StepStatus)
  BY DEF TypeInv, TypeOK
<1>2. Steps(r) \in Seq(StepSpec)
  <2>1. CASE workflow[r] \in Workflows
    BY <2>1, WorkflowAssumption DEF Steps
  <2>2. CASE workflow[r] = NoWorkflow
    BY <2>2 DEF Steps, NoWorkflow
  <2>3. QED
    BY <1>1, <2>1, <2>2
<1>3. Index(r) \in Nat \ {0} /\ Len(Steps(r)) \in Nat
  BY <1>1, <1>2 DEF Index
<1>4. Index(r) <= Len(Steps(r)) => Step(r) \in StepSpec
  BY <1>2, <1>3 DEF Step
<1>5. QED
  BY <1>2, <1>3, <1>4

LEMMA FileTypes == GraphFile \in [RunIds -> Paths] /\ StepFiles \subseteq Paths
                   /\ \A r \in RunIds : GraphFile[r] \in Paths \ StepFiles
  BY WorkflowAssumption DEF StepFiles

LEMMA InitType == Init => TypeInv
  BY InitTables, FileTypes DEF Init, TypeInv, TypeOK, PointsOK, Busy, Ended, NoGraph, StepFiles, NoWorkflow

\* A step of run r that leaves the other runs and the sidecars alone.
LEMMA PointsFrame ==
  ASSUME TypeInv, NEW r \in RunIds, UNCHANGED <<cur, sidecars>>,
         pc'[r] \notin {"calling", "persist", "insert"},
         pc'[r] = "update" => verdict'[r] \in Terminal,
         \A q \in RunIds \ {r} : /\ pc'[q] = pc[q] /\ workflow'[q] = workflow[q]
                                 /\ log'[q] = log[q] /\ verdict'[q] = verdict[q]
  PROVE  PointsOK'
<1>1. \A q \in RunIds \ {r} : Index(q)' = Index(q) /\ Steps(q)' = Steps(q)
  BY DEF Index, Steps
<1>2. QED
  BY <1>1 DEF TypeInv, PointsOK

LEMMA RecordType ==
  ASSUME TypeInv, NEW r \in RunIds, NEW st \in {"succeeded", "failed", "unbound"},
         NEW files \in SUBSET StepFiles, Index(r) <= Len(Steps(r)), Record(r, st, files)
  PROVE  TypeInv'
<1>1. Step(r) \in StepSpec /\ Captured(r) \subseteq Names
  BY TemplateType DEF StepSpec, Captured
<1>2. log[r] \in Seq(StepStatus) /\ st \in StepStatus /\ Append(log[r], st) \in Seq(StepStatus)
  BY DEF TypeInv, TypeOK, StepStatus
<1>3. log' \in [RunIds -> Seq(StepStatus)]
  BY <1>2 DEF Record, Book, TypeInv, TypeOK
<1>4. env' \in [RunIds -> SUBSET Names]
  BY <1>1 DEF Record, Book, TypeInv, TypeOK
<1>5. made' \in [RunIds -> SUBSET StepFiles] /\ abort' \in [RunIds -> BOOLEAN]
  BY DEF Record, Book, TypeInv, TypeOK
<1>6. pc' = [pc EXCEPT ![r] = "boundary"] /\ pc' \in [RunIds -> Busy \cup Ended \cup {"new", "calling"}]
  BY DEF Record, Book, TypeInv, TypeOK, Goto, Busy
<1>7. TypeOK'
  BY <1>3, <1>4, <1>5, <1>6, StutterTables DEF Record, Book, TypeInv, TypeOK
<1>8. PointsOK'
  BY <1>6, PointsFrame DEF Record, Book, TypeInv, TypeOK, tables
<1>9. QED
  BY <1>7, <1>8 DEF TypeInv

\* A step that only moves the program counter of one run.
LEMMA MoveType ==
  ASSUME TypeInv, NEW r \in RunIds, NEW where \in Busy \cup Ended \cup {"calling"}, Goto(r, where),
         where = "calling" => Index(r) <= Len(Steps(r)),
         where \in {"update", "persist"} => verdict'[r] \in Terminal,
         where = "insert" => sidecars'[cur[r]] \in RunIds /\ cur'[r] = cur[r],
         \A q \in RunIds \ {r} : verdict'[q] = verdict[q] /\ cur'[q] = cur[q],
         \A p \in Paths : sidecars[p] \in RunIds => sidecars'[p] \in RunIds,
         UNCHANGED <<proc, graphs, workflow, inputs, env, log, made, abort, flag, killed>>,
         TablesTypeOK', verdict' \in [RunIds -> Terminal \cup {"none"}],
         cur' \in [RunIds -> Paths], todo' \in [RunIds -> SUBSET StepFiles]
  PROVE  TypeInv'
<1>1. pc' \in [RunIds -> Busy \cup Ended \cup {"new", "calling"}]
  BY DEF TypeInv, TypeOK, Goto
<1>2. TypeOK'
  BY <1>1 DEF TypeInv, TypeOK
<1>3. PointsOK'
  <2>1. SUFFICES ASSUME NEW q \in RunIds
                 PROVE  /\ pc'[q] = "calling" => Index(q)' <= Len(Steps(q))'
                        /\ pc'[q] \in {"update", "persist"} => verdict'[q] \in Terminal
                        /\ pc'[q] = "insert" => sidecars'[cur'[q]] \in RunIds
    BY DEF PointsOK
  <2>2. Index(q)' = Index(q) /\ Steps(q)' = Steps(q)
    BY DEF Index, Steps
  <2>3. CASE q = r
    BY <2>2, <2>3 DEF TypeInv, TypeOK, Goto
  <2>4. CASE q # r
    BY <2>2, <2>4 DEF TypeInv, TypeOK, Goto, PointsOK
  <2>5. QED
    BY <2>3, <2>4
<1>4. QED
  BY <1>2, <1>3 DEF TypeInv

LEMMA StartType ==
  ASSUME TypeInv, NEW r \in RunIds, Start(r)
  PROVE  TypeInv'
<1>1. TablesTypeOK' /\ pc' \in [RunIds -> Busy \cup Ended \cup {"new", "calling"}] /\ pc'[r] # "calling"
  BY InsertRunStep, StutterTables DEF Start, TypeInv, TypeOK, Goto, Busy, Ended, Status
<1>2. /\ workflow' \in [RunIds -> Workflows \cup {NoWorkflow}]
      /\ inputs' \in [RunIds -> SUBSET Names] /\ env' \in [RunIds -> SUBSET Names]
      /\ \A q \in RunIds \ {r} : workflow'[q] = workflow[q] /\ pc'[q] = pc[q]
  BY DEF Start, TypeInv, TypeOK, Goto
<1>3. TypeOK'
  BY <1>1, <1>2 DEF Start, TypeInv, TypeOK
<1>4. pc'[r] \in {"boundary", "rejected"}
  BY DEF Start, Goto, TypeInv, TypeOK
<1>5. UNCHANGED <<cur, sidecars, log, verdict>>
  BY DEF Start, InsertRun, tables
<1>6. PointsOK'
  BY <1>2, <1>4, <1>5, PointsFrame
<1>7. QED
  BY <1>3, <1>6 DEF TypeInv

LEMMA SkipType ==
  ASSUME TypeInv, NEW r \in RunIds, Skip(r)
  PROVE  TypeInv'
<1>1. PICK st \in Skipped : log' = [log EXCEPT ![r] = Append(log[r], st)]
  BY DEF Skip, Skipped
<1>2. log' \in [RunIds -> Seq(StepStatus)]
  BY <1>1 DEF TypeInv, TypeOK, Skipped, StepStatus
<1>3. TypeOK'
  BY <1>2, StutterTables DEF Skip, TypeInv, TypeOK
<1>4. PointsOK'
  BY <1>1, PointsFrame DEF Skip, TypeInv, TypeOK, tables
<1>5. QED
  BY <1>3, <1>4 DEF TypeInv

LEMMA CancelType ==
  ASSUME TypeInv, NEW r \in RunIds, TaskCancelled(r)
  PROVE  TypeInv'
<1>1. /\ pc' \in [RunIds -> Busy \cup Ended \cup {"new", "calling"}] /\ pc' = [pc EXCEPT ![r] = "update"]
      /\ killed' \in [RunIds -> BOOLEAN]
      /\ verdict' \in [RunIds -> Terminal \cup {"none"}]
  BY DEF TaskCancelled, TypeInv, TypeOK, Goto, Busy, Terminal
<1>2. TypeOK'
  BY <1>1, StutterTables DEF TaskCancelled, TypeInv, TypeOK
<1>3. PointsOK'
  <2>1. pc'[r] = "update" /\ verdict'[r] \in Terminal
    BY <1>1 DEF TaskCancelled, TypeInv, TypeOK, Terminal
  <2>2. QED
    BY <1>1, <2>1, PointsFrame DEF TaskCancelled, TypeInv, TypeOK, tables
<1>4. QED
  BY <1>2, <1>3 DEF TypeInv

LEMMA VerdictType == \A r \in RunIds : Verdict(r) \in Terminal
  BY DEF Verdict, Terminal

LEMMA StepType == TypeInv /\ [Next]_vars => TypeInv'
<1> SUFFICES ASSUME TypeInv, [Next]_vars PROVE TypeInv'
  OBVIOUS
<1>0. TablesTypeOK /\ TypeOK
  BY DEF TypeInv, TypeOK
<1>1. CASE UNCHANGED vars
  BY <1>1, StutterTables DEF vars, memory, tables, TypeInv, TypeOK, PointsOK, Index, Steps
<1>2. ASSUME NEW r \in RunIds, Unbound(r) \/ Return(r) PROVE TypeInv'
  <2>1. \E st \in {"succeeded", "failed", "unbound"}, files \in SUBSET StepFiles :
          Index(r) <= Len(Steps(r)) /\ Record(r, st, files)
    BY <1>2 DEF Unbound, Return, TypeInv, PointsOK
  <2>2. QED
    BY <2>1, RecordType
<1>3. ASSUME NEW r \in RunIds, Invoke(r) \/ Escape(r) \/ Swallow(r) \/ Finish(r) PROVE TypeInv'
  <2>1. \E where \in {"calling", "raised", "next", "cancelled", "returned"} :
          Goto(r, where) /\ (where = "calling" => Index(r) <= Len(Steps(r)))
    BY <1>3 DEF Invoke, Escape, Swallow, Finish
  <2>2. UNCHANGED <<tables, proc, graphs, memory, flag, cur, todo>>
    BY <1>3 DEF Invoke, Escape, Swallow, Finish
  <2>3. QED
    BY <1>0, <2>1, <2>2, MoveType, StutterTables DEF memory, tables, TypeOK, Busy, Ended
<1>4. ASSUME NEW r \in RunIds, Conclude(r) PROVE TypeInv'
  <2>1. verdict' \in [RunIds -> Terminal \cup {"none"}] /\ verdict'[r] \in Terminal
    BY <1>0, <1>4, VerdictType DEF Conclude, TypeOK
  <2>2. QED
    BY <1>0, <1>4, <2>1, MoveType, StutterTables DEF Conclude, TypeOK, Busy, tables
<1>5. ASSUME NEW r \in RunIds, UpdateRow(r) PROVE TypeInv'
  <2>1. \E where \in {"persist", "raised"} : Goto(r, where)
    BY <1>5 DEF UpdateRow
  <2>2. todo' \in [RunIds -> SUBSET StepFiles] /\ verdict[r] \in Terminal
    BY <1>0, <1>5 DEF UpdateRow, TypeOK, TypeInv, PointsOK
  <2>3. TablesTypeOK' /\ UNCHANGED sidecars
    BY <1>0, <1>5, <2>2, SetStatusStep, StutterTables DEF UpdateRow, Status, SetStatus, tables
  <2>4. QED
    BY <1>0, <1>5, <2>1, <2>2, <2>3, MoveType DEF UpdateRow, memory, TypeOK, Busy, Ended
<1>6. ASSUME NEW r \in RunIds, Persist(r) PROVE TypeInv'
  <2>1. verdict[r] \in Terminal /\ GraphFile[r] \in Paths
    BY <1>6, FileTypes DEF Persist, WriteGraph, TypeInv, PointsOK
  <2>2. TypeOK' /\ pc' = [pc EXCEPT ![r] = "attach"]
    <3>1. /\ pc' \in [RunIds -> Busy \cup Ended \cup {"new", "calling"}]
          /\ cur' \in [RunIds -> Paths]
          /\ graphs' \in [Paths -> [run : RunIds, status : Terminal] \cup {NoGraph}]
          /\ pc' = [pc EXCEPT ![r] = "attach"]
      BY <1>0, <1>6, <2>1 DEF Persist, WriteGraph, TypeOK, Goto, Busy
    <3>2. QED
      BY <1>0, <1>6, <3>1, StutterTables DEF Persist, WriteGraph, TypeOK, memory
  <2>3. PointsOK'
    BY <1>0, <1>6, <2>2 DEF Persist, WriteGraph, TypeOK, TypeInv, PointsOK, memory, tables, Index, Steps
  <2>4. QED
    BY <2>2, <2>3 DEF TypeInv
<1>7. ASSUME NEW r \in RunIds, Attach(r) PROVE TypeInv'
  <2>1. TablesTypeOK' /\ cur[r] \in Paths
    BY <1>0, <1>7, PutSidecarStep DEF Attach, TypeOK
  <2>2. sidecars'[cur[r]] = r /\ \A p \in Paths : sidecars[p] \in RunIds => sidecars'[p] \in RunIds
    BY <1>0, <1>7, <2>1 DEF Attach, PutSidecar, TablesTypeOK
  <2>3. \E where \in {"insert", "next"} : Goto(r, where)
    BY <1>7 DEF Attach
  <2>4. QED
    BY <1>0, <1>7, <2>1, <2>2, <2>3, MoveType DEF Attach, memory, TypeOK, Busy
<1>8. ASSUME NEW r \in RunIds, Insert(r) PROVE TypeInv'
  <2>1. cur[r] \in Paths /\ sidecars[cur[r]] \in RunIds
    BY <1>0, <1>8 DEF Insert, TypeOK, TypeInv, PointsOK
  <2>2. TablesTypeOK' /\ UNCHANGED sidecars
    BY <1>0, <1>8, <2>1, InsertArtifactStep DEF Insert, InsertArtifact
  <2>3. QED
    BY <1>0, <1>8, <2>2, MoveType DEF Insert, memory, TypeOK, Busy
<1>9. ASSUME NEW r \in RunIds, NextFile(r) PROVE TypeInv'
  <2>1. PICK p \in todo[r] : cur' = [cur EXCEPT ![r] = p] /\ todo' = [todo EXCEPT ![r] = @ \ {p}]
    BY <1>9 DEF NextFile
  <2>2. p \in Paths /\ todo' \in [RunIds -> SUBSET StepFiles]
    BY <1>0, <2>1, FileTypes DEF TypeOK
  <2>3. QED
    BY <1>0, <1>9, <2>1, <2>2, MoveType, StutterTables DEF NextFile, memory, TypeOK, Busy, tables
<1>10. ASSUME NEW r \in RunIds, RequestCancel(r) PROVE TypeInv'
  BY <1>0, <1>10, StutterTables DEF RequestCancel, memory, tables, TypeInv, TypeOK, PointsOK, Index, Steps
<1>11. ASSUME NEW r \in RunIds, DeleteRun(r) PROVE TypeInv'
  <2>1. TablesTypeOK' /\ UNCHANGED sidecars
    BY <1>0, <1>11, StampDeletedStep, DropRowStep DEF DeleteRun, StampDeleted, DropRow
  <2>2. QED
    BY <1>0, <1>11, <2>1 DEF DeleteRun, memory, TypeInv, TypeOK, PointsOK, Index, Steps
<1>12. ASSUME NEW p \in Processes, Crash(p) PROVE TypeInv'
  <2>1. /\ pc' \in [RunIds -> Busy \cup Ended \cup {"new", "calling"}]
        /\ \A r \in RunIds : pc'[r] = pc[r] \/ pc'[r] = "crashed"
    BY <1>0, <1>12 DEF Crash, TypeOK, Ended
  <2>2. TypeOK'
    BY <1>0, <1>12, <2>1, StutterTables DEF Crash, TypeOK, memory
  <2>3. PointsOK'
    BY <1>12, <2>1 DEF Crash, TypeInv, PointsOK, memory, tables, Index, Steps
  <2>4. QED
    BY <2>2, <2>3 DEF TypeInv
<1>13. QED
  BY <1>1, <1>2, <1>3, <1>4, <1>5, <1>6, <1>7, <1>8, <1>9, <1>10, <1>11, <1>12,
     StartType, SkipType, CancelType DEF Next, Progress

LEMMA Typed == Spec => []TypeInv
  BY InitType, StepType, PTL DEF Spec

\* Every variable of the runner keeps its type, for all templates, files and
\* interleavings: only declared names are bound, only statuses of the protocol
\* reach the table.
THEOREM TypeCorrect == Spec => []TypeOK
<1>1. TypeInv => TypeOK
  BY DEF TypeInv
<1>2. QED
  BY Typed, <1>1, PTL

-----------------------------------------------------------------------------
(* The row of each run.                                                     *)

Unsettled == {"boundary", "calling", "update", "raised"}
Settled   == {"persist", "attach", "insert", "next", "returned", "cancelled"}

\* Where the run is tells what its row shows, unless somebody deleted it.
RowInv ==
  \A r \in RunIds :
    /\ pc[r] \in {"new", "rejected"} => runs[r].status = "absent"
    /\ pc[r] \in Unsettled => runs[r].status \in {"absent", "running"}
    /\ pc[r] \in Settled => verdict[r] \in Terminal /\ runs[r].status \in {"absent", verdict[r]}
    /\ pc[r] = "crashed" =>
         \/ runs[r].status \in {"absent", "running"}
         \/ verdict[r] \in Terminal /\ runs[r].status = verdict[r]

\* Every step is one transaction on the tables, or none.
LEMMA StoreStep ==
  ASSUME TypeInv, Next
  PROVE  \/ \E r \in RunIds : Start(r) /\ InsertRun(r, "running")
         \/ \E r \in RunIds : UpdateRow(r) /\ SetStatus(r, verdict[r])
         \/ \E r \in RunIds : DeleteRun(r)
         \/ \E r \in RunIds : Insert(r)
         \/ UNCHANGED <<runs, artifacts>>
<1>1. ASSUME NEW r \in RunIds, Start(r), ~InsertRun(r, "running") PROVE UNCHANGED <<runs, artifacts>>
  BY <1>1 DEF Start, tables
<1>2. ASSUME NEW r \in RunIds, UpdateRow(r), ~SetStatus(r, verdict[r]) PROVE UNCHANGED <<runs, artifacts>>
  BY <1>2 DEF UpdateRow, tables
<1>3. ASSUME NEW r \in RunIds, Skip(r) \/ Unbound(r) \/ Return(r) \/ TaskCancelled(r) PROVE UNCHANGED <<runs, artifacts>>
  BY <1>3 DEF Skip, Unbound, Return, TaskCancelled, Record, Book, tables
<1>4. ASSUME NEW r \in RunIds, Invoke(r) \/ Escape(r) \/ Conclude(r) \/ Swallow(r) \/ NextFile(r) \/ Finish(r)
      PROVE  UNCHANGED <<runs, artifacts>>
  BY <1>4 DEF Invoke, Escape, Conclude, Swallow, NextFile, Finish, tables
<1>5. ASSUME NEW r \in RunIds, Persist(r) \/ Attach(r) \/ RequestCancel(r) PROVE UNCHANGED <<runs, artifacts>>
  BY <1>5 DEF Persist, WriteGraph, Attach, PutSidecar, RequestCancel, tables
<1>6. ASSUME NEW p \in Processes, Crash(p) PROVE UNCHANGED <<runs, artifacts>>
  BY <1>6 DEF Crash, tables
<1>7. QED
  BY <1>1, <1>2, <1>3, <1>4, <1>5, <1>6 DEF Next, Progress

LEMMA InitRows == Init => RowInv /\ NoOrphanArtifacts
  BY InitTables DEF Init, RowInv, TablesInit, NoRow, Unsettled, Settled

\* A step of run r that leaves the rows alone and the other runs where they are.
LEMMA RowFrame ==
  ASSUME TypeInv, RowInv, NEW r \in RunIds, UNCHANGED runs,
         \A q \in RunIds \ {r} : pc'[q] = pc[q] /\ verdict'[q] = verdict[q],
         \/ pc'[r] \in Unsettled /\ pc[r] \in Unsettled
         \/ pc'[r] \in Settled /\ pc[r] \in Settled /\ verdict'[r] = verdict[r]
         \/ pc'[r] = "rejected" /\ pc[r] = "new"
         \/ pc'[r] = pc[r] /\ verdict'[r] = verdict[r]
  PROVE  RowInv'
  BY DEF RowInv, Unsettled, Settled

LEMMA StepRows == TypeInv /\ RowInv /\ [Next]_vars => RowInv'
<1> SUFFICES ASSUME TypeInv, RowInv, [Next]_vars PROVE RowInv'
  OBVIOUS
<1>0. TypeOK /\ TablesTypeOK
  BY DEF TypeInv, TypeOK
<1>1. CASE UNCHANGED vars
  BY <1>1 DEF vars, memory, tables, RowInv
<1>2. ASSUME NEW r \in RunIds, Start(r) PROVE RowInv'
  <2>1. CASE InsertRun(r, "running") /\ Goto(r, "boundary")
    <3>1. runs'[r].status = "running" /\ \A q \in RunIds \ {r} : runs'[q] = runs[q]
      BY <1>0, <2>1 DEF InsertRun, TablesTypeOK
    <3>2. pc'[r] = "boundary" /\ \A q \in RunIds \ {r} : pc'[q] = pc[q]
      BY <1>0, <2>1 DEF Goto, TypeOK
    <3>3. UNCHANGED verdict
      BY <1>2 DEF Start
    <3>4. QED
      BY <3>1, <3>2, <3>3 DEF RowInv, Unsettled, Settled
  <2>2. CASE UNCHANGED tables /\ Goto(r, "rejected")
    BY <1>0, <1>2, <2>2, RowFrame DEF Start, Goto, TypeOK, tables
  <2>3. QED
    BY <1>2, <2>1, <2>2 DEF Start
<1>3. ASSUME NEW r \in RunIds, Unbound(r) \/ Return(r) \/ Skip(r) \/ Invoke(r) \/ Escape(r)
      PROVE  RowInv'
  <2>1. UNCHANGED <<tables, verdict>>
    BY <1>3 DEF Unbound, Return, Skip, Invoke, Escape, Record, Book, memory
  <2>2. /\ pc[r] \in Unsettled
        /\ \E where \in Unsettled : pc' = [pc EXCEPT ![r] = where]
    BY <1>0, <1>3 DEF Unbound, Return, Skip, Invoke, Escape, Record, Book, Goto, TypeOK, Unsettled
  <2>3. QED
    BY <1>0, <2>1, <2>2, RowFrame DEF TypeOK, tables
<1>4. ASSUME NEW r \in RunIds, TaskCancelled(r) \/ Conclude(r) PROVE RowInv'
  <2>1. UNCHANGED tables /\ \E v : verdict' = [verdict EXCEPT ![r] = v]
    BY <1>4 DEF TaskCancelled, Conclude
  <2>2. pc[r] \in Unsettled /\ pc' = [pc EXCEPT ![r] = "update"]
    BY <1>4 DEF TaskCancelled, Conclude, Goto, Unsettled
  <2>3. QED
    BY <1>0, <2>1, <2>2, RowFrame DEF TypeOK, tables, Unsettled
<1>5. ASSUME NEW r \in RunIds, UpdateRow(r) PROVE RowInv'
  <2>1. verdict[r] \in Terminal /\ UNCHANGED verdict /\ pc[r] = "update"
    BY <1>5 DEF UpdateRow, memory, TypeInv, PointsOK
  <2>2. CASE SetStatus(r, verdict[r]) /\ Goto(r, "persist")
    <3>1. /\ runs'[r].status = verdict[r] /\ \A q \in RunIds \ {r} : runs'[q] = runs[q]
      BY <1>0, <2>2 DEF SetStatus, TablesTypeOK, Row
    <3>2. pc'[r] = "persist" /\ \A q \in RunIds \ {r} : pc'[q] = pc[q]
      BY <1>0, <2>2 DEF Goto, TypeOK
    <3>3. QED
      BY <2>1, <3>1, <3>2 DEF RowInv, Unsettled, Settled
  <2>3. CASE UNCHANGED tables /\ Goto(r, "raised")
    <3>1. pc'[r] = "raised" /\ \A q \in RunIds \ {r} : pc'[q] = pc[q]
      BY <1>0, <2>3 DEF Goto, TypeOK
    <3>2. pc'[r] \in Unsettled /\ pc[r] \in Unsettled /\ UNCHANGED runs
      BY <2>1, <2>3, <3>1 DEF Unsettled, tables
    <3>3. QED
      BY <2>1, <3>1, <3>2, RowFrame
  <2>4. QED
    BY <1>5, <2>2, <2>3 DEF UpdateRow
<1>6. ASSUME NEW r \in RunIds, Persist(r) \/ Attach(r) \/ Insert(r) \/ Swallow(r) \/ NextFile(r) \/ Finish(r)
      PROVE  RowInv'
  <2>1. UNCHANGED <<runs, verdict>>
    BY <1>6 DEF Persist, WriteGraph, Attach, Insert, Swallow, NextFile, Finish, PutSidecar,
                InsertArtifact, tables, memory
  <2>2. /\ pc[r] \in Settled
        /\ \E where \in Settled : pc' = [pc EXCEPT ![r] = where]
    BY <1>6 DEF Persist, WriteGraph, Attach, Insert, Swallow, NextFile, Finish, Goto, Settled
  <2>3. QED
    BY <1>0, <2>1, <2>2, RowFrame DEF TypeOK
<1>7. ASSUME NEW r \in RunIds, RequestCancel(r) PROVE RowInv'
  BY <1>7 DEF RequestCancel, memory, tables, RowInv
<1>8. ASSUME NEW r \in RunIds, DeleteRun(r) PROVE RowInv'
  <2>1. \A q \in RunIds : runs'[q].status \in {runs[q].status, "absent"}
    BY <1>0, <1>8, StampDeletedStep, DropRowStep DEF DeleteRun, Exists
  <2>2. UNCHANGED <<pc, verdict>>
    BY <1>8 DEF DeleteRun, memory
  <2>3. QED
    BY <2>1, <2>2 DEF RowInv
<1>9. ASSUME NEW p \in Processes, Crash(p) PROVE RowInv'
  <2>1. UNCHANGED <<runs, verdict>>
    BY <1>9 DEF Crash, memory, tables
  <2>2. \A r \in RunIds : \/ pc'[r] = pc[r]
                          \/ pc'[r] = "crashed" /\ pc[r] \in Unsettled \cup Settled
    BY <1>0, <1>9 DEF Crash, Active, TypeOK, Busy, Ended, Unsettled, Settled
  <2>3. QED
    BY <2>1, <2>2 DEF RowInv, Unsettled, Settled
<1>10. QED
  BY <1>1, <1>2, <1>3, <1>4, <1>5, <1>6, <1>7, <1>8, <1>9 DEF Next, Progress

LEMMA Rows == Spec => []RowInv
  BY Typed, InitRows, StepRows, PTL DEF Spec

LEMMA StepOrphans == TypeInv /\ NoOrphanArtifacts /\ [Next]_vars => NoOrphanArtifacts'
<1> SUFFICES ASSUME TypeInv, NoOrphanArtifacts, [Next]_vars PROVE NoOrphanArtifacts'
  OBVIOUS
<1>0. TypeOK /\ TablesTypeOK
  BY DEF TypeInv, TypeOK
<1>1. ASSUME NEW r \in RunIds, UpdateRow(r), SetStatus(r, verdict[r]) PROVE NoOrphanArtifacts'
  BY <1>0, <1>1, SetStatusStep DEF UpdateRow, TypeInv, PointsOK, Status
<1>2. ASSUME NEW r \in RunIds, Insert(r) PROVE NoOrphanArtifacts'
  BY <1>0, <1>2, InsertArtifactStep DEF Insert, TypeInv, TypeOK, PointsOK
<1>3. ASSUME UNCHANGED <<runs, artifacts>> PROVE NoOrphanArtifacts'
  BY <1>3 DEF NoOrphanArtifacts, Exists
<1>4. QED
  BY <1>0, <1>1, <1>2, <1>3, StoreStep, InsertRunStep, StampDeletedStep, DropRowStep
     DEF vars, tables, DeleteRun, Status

\* No artifact outlives its run, also when the run is deleted while its runner
\* is still attaching files to it.
THEOREM NoOrphans == Spec => []NoOrphanArtifacts
  BY Typed, InitRows, StepOrphans, PTL DEF Spec

\* A row that stays at `running' belongs to a run that a crash or an unhandled
\* exception has ended: no path through the executor forgets update_run.
THEOREM Dangling == Spec => []DanglingOnlyAfterEscape
<1>1. TypeInv /\ RowInv => DanglingOnlyAfterEscape
  BY DEF TypeInv, TypeOK, RowInv, DanglingOnlyAfterEscape, Ended, Settled, Terminal
<1>2. QED
  BY Typed, Rows, <1>1, PTL

\* The runs in the store refine the ledger: opened once, settled once, published
\* only when settled.
THEOREM RefinesLedger == Spec => ImplementsLedger
<1>1. Init => Ledger!Init
  BY DEF Init, TablesInit, NoRow, Ledger!Init
<1>2. ASSUME TypeInv, RowInv, [Next]_vars PROVE [Ledger!Next]_(Ledger!ledger)
  <2> DEFINE st == [q \in RunIds |-> runs[q].status]
             pub == {q \in RunIds : \E a \in artifacts : a.run = q /\ a.path = GraphFile[q]}
  <2>0. TypeOK /\ TablesTypeOK
    BY <1>2 DEF TypeInv, TypeOK
  <2>1. ASSUME UNCHANGED <<runs, artifacts>> PROVE UNCHANGED Ledger!ledger
    BY <2>1 DEF Ledger!ledger
  <2>2. ASSUME NEW r \in RunIds, InsertRun(r, "running") PROVE Ledger!Open(r)
    <3>1. st[r] = "absent" /\ st' = [st EXCEPT ![r] = "running"]
      BY <2>0, <2>2 DEF InsertRun, Exists, TablesTypeOK
    <3>2. pub' = pub
      BY <2>2 DEF InsertRun
    <3>3. QED
      BY <3>1, <3>2 DEF Ledger!Open
  <2>3. ASSUME NEW r \in RunIds, UpdateRow(r), SetStatus(r, verdict[r]) PROVE Ledger!Settle(r)
    <3>1. verdict[r] \in Terminal /\ st[r] = "running"
      BY <1>2, <2>3 DEF UpdateRow, TypeInv, PointsOK, RowInv, Unsettled, SetStatus, Exists
    <3>2. st' = [st EXCEPT ![r] = verdict[r]]
      BY <2>0, <2>3 DEF SetStatus, TablesTypeOK, Row
    <3>3. pub' = pub
      BY <2>3 DEF SetStatus
    <3>4. QED
      BY <3>1, <3>2, <3>3 DEF Ledger!Settle, Ledger!Outcome, Terminal
  <2>4. ASSUME NEW r \in RunIds, DeleteRun(r) PROVE [Ledger!Next]_(Ledger!ledger)
    <3>1. CASE StampDeleted(r)
      <4>1. st' = st /\ pub' = pub
        BY <2>0, <3>1, StampDeletedStep DEF StampDeleted
      <4>2. QED
        BY <4>1 DEF Ledger!ledger
    <3>2. CASE DropRow(r)
      <4>1. st' = [st EXCEPT ![r] = "absent"]
        BY <2>0, <3>2 DEF DropRow, TablesTypeOK, NoRow
      <4>2. pub' = pub \ {r}
        BY <3>2 DEF DropRow
      <4>3. QED
        BY <4>1, <4>2 DEF Ledger!Remove, Ledger!Next
    <3>3. QED
      BY <2>4, <3>1, <3>2 DEF DeleteRun
  <2>5. ASSUME NEW r \in RunIds, Insert(r) PROVE [Ledger!Next]_(Ledger!ledger)
    <3>1. st' = st /\ st[r] \in Terminal
      BY <1>2, <2>5 DEF Insert, InsertArtifact, ForeignKeyHolds, Exists, RowInv, Settled
    <3>2. artifacts' = artifacts \cup {[run |-> r, path |-> cur[r], about |-> sidecars[cur[r]]]}
      BY <2>5 DEF Insert, InsertArtifact
    <3>3. CASE cur[r] = GraphFile[r]
      <4>1. pub' = pub \cup {r}
        <5> DEFINE new == [run |-> r, path |-> cur[r], about |-> sidecars[cur[r]]]
        <5>1. new.run = r /\ new.path = GraphFile[r] /\ new \in artifacts'
          BY <3>2, <3>3
        <5>2. artifacts \subseteq artifacts' /\ \A a \in artifacts' : a \in artifacts \/ a = new
          BY <3>2
        <5>3. QED
          BY <5>1, <5>2
      <4>2. QED
        BY <3>1, <4>1 DEF Ledger!Publish, Ledger!Next, Ledger!Outcome, Terminal
    <3>4. CASE cur[r] # GraphFile[r]
      <4>1. pub' = pub
        BY <3>2, <3>4
      <4>2. QED
        BY <3>1, <4>1 DEF Ledger!ledger
    <3>5. QED
      BY <3>3, <3>4
  <2>6. CASE UNCHANGED vars
    BY <2>1, <2>6 DEF vars, tables
  <2>7. CASE Next
    BY <1>2, <2>1, <2>2, <2>3, <2>4, <2>5, <2>7, StoreStep DEF Ledger!Next
  <2>8. QED
    BY <1>2, <2>6, <2>7
<1>3. QED
  BY Typed, Rows, <1>1, <1>2, PTL DEF Spec, ImplementsLedger, Ledger!Spec

-----------------------------------------------------------------------------
(* The step log.                                                            *)

\* The log is a prefix of the template's steps, abort and flag account for all
\* that was skipped, and everything bound has a source.
LogOK(r) ==
  /\ Len(log[r]) <= Len(Steps(r))
  /\ pc[r] = "new" => log[r] = <<>>
  /\ pc[r] \in {"new", "boundary", "calling"} => verdict[r] = "none"
  /\ abort[r] <=> \E i \in 1..Len(log[r]) : Fatal(r, i)
  /\ \A i \in 1..Len(log[r]) : log[r][i] = "skip_cancel" => flag[r]
  /\ \A i \in 1..Len(log[r]) : log[r][i] \in Skipped => abort[r] \/ flag[r]
  /\ pc[r] = "calling" => /\ ~abort[r]
                          /\ Step(r).needs \subseteq env[r]
                          /\ \A i \in 1..Len(log[r]) : log[r][i] \notin Skipped
  /\ \A v \in env[r] : Bound(r, v, Index(r))
  /\ StopsAfterAbort(r) /\ ArgumentsBound(r) /\ Honest(r)

LogInv == \A r \in RunIds : LogOK(r)

LEMMA InitLog == Init => LogInv
<1> SUFFICES ASSUME Init, NEW r \in RunIds PROVE LogOK(r)
  BY DEF LogInv
<1>1. log[r] = <<>> /\ Len(log[r]) = 0 /\ Steps(r) = <<>> /\ Len(Steps(r)) = 0
  BY DEF Init, Steps, NoWorkflow
<1>2. /\ verdict[r] = "none" /\ abort[r] = FALSE /\ env[r] = {} /\ pc[r] = "new"
  BY DEF Init
<1>3. QED
  BY <1>1, <1>2 DEF LogOK, StopsAfterAbort, ArgumentsBound, Honest

\* What a step that does nothing to a run's memory, except perhaps to set its
\* flag, leaves true of that run.
LEMMA LogFrame ==
  ASSUME NEW r \in RunIds, LogOK(r),
         /\ log'[r] = log[r] /\ workflow'[r] = workflow[r] /\ inputs'[r] = inputs[r]
         /\ env'[r] = env[r] /\ abort'[r] = abort[r] /\ verdict'[r] = verdict[r],
         flag[r] => flag'[r], killed[r] => killed'[r],
         pc'[r] = pc[r] \/ pc'[r] \notin {"new", "boundary", "calling"}
  PROVE  LogOK(r)'
<1>1. Steps(r)' = Steps(r) /\ Index(r)' = Index(r) /\ Step(r)' = Step(r)
  BY DEF Steps, Index, Step
<1>2. \A i : Fatal(r, i)' = Fatal(r, i)
  BY <1>1 DEF Fatal
<1>3. \A v, i : Bound(r, v, i)' = Bound(r, v, i)
  BY <1>1 DEF Bound
<1>4. StopsAfterAbort(r)'
  BY <1>2 DEF StopsAfterAbort, LogOK
<1>5. ArgumentsBound(r)'
  BY <1>1, <1>3 DEF ArgumentsBound, LogOK
<1>6. Honest(r)'
  BY <1>1 DEF Honest, LogOK, AllSucceeded, AllRecorded, AnyFailed
<1>7. QED
  BY <1>1, <1>2, <1>3, <1>4, <1>5, <1>6 DEF LogOK

\* What was true of the recorded steps stays true when one more is recorded.
LEMMA LogAppend ==
  ASSUME TypeInv, NEW r \in RunIds, NEW st \in StepStatus,
         LogOK(r), Index(r) <= Len(Steps(r)),
         log' = [log EXCEPT ![r] = Append(@, st)],
         UNCHANGED <<workflow, inputs>>
  PROVE  /\ Len(log'[r]) = Index(r) /\ log'[r][Index(r)] = st
         /\ \A i \in 1..Len(log[r]) : log'[r][i] = log[r][i] /\ Fatal(r, i)' = Fatal(r, i)
         /\ Steps(r)' = Steps(r) /\ Index(r)' = Index(r) + 1
         /\ \A v : \A i \in Int : i <= Index(r) /\ Bound(r, v, i) => Bound(r, v, i)'
         /\ \A v : Bound(r, v, Index(r)) => Bound(r, v, Index(r))'
         /\ Len(log[r]) \in Nat
<1>1. log[r] \in Seq(StepStatus) /\ log'[r] = Append(log[r], st) /\ Len(log[r]) \in Nat
  BY DEF TypeInv, TypeOK
<1>2. /\ Len(log'[r]) = Index(r) /\ log'[r][Index(r)] = st
      /\ \A i \in 1..Len(log[r]) : log'[r][i] = log[r][i]
  BY <1>1 DEF Index
<1>3. Steps(r)' = Steps(r) /\ Index(r)' = Index(r) + 1
  BY <1>1, <1>2 DEF Steps, Index
<1>4. \A i \in 1..Len(log[r]) : Fatal(r, i)' = Fatal(r, i)
  BY <1>2, <1>3 DEF Fatal
<1>5. \A v : \A i \in Int : i <= Index(r) /\ Bound(r, v, i) => Bound(r, v, i)'
  <2>1. SUFFICES ASSUME NEW i \in Int, NEW v, i <= Index(r), Bound(r, v, i) PROVE Bound(r, v, i)'
    OBVIOUS
  <2>2. \A j \in 1..(i - 1) : j \in 1..Len(log[r])
    BY <1>1, <2>1 DEF Index
  <2>3. QED
    BY <1>2, <1>3, <2>1, <2>2 DEF Bound
<1>6. ASSUME NEW v, Bound(r, v, Index(r)) PROVE Bound(r, v, Index(r))'
  <2>1. 1..(Index(r) - 1) = 1..Len(log[r]) /\ 1..Len(log[r]) \subseteq 1..(Index(r)' - 1)
    BY <1>1, <1>3 DEF Index
  <2>2. QED
    BY <1>2, <1>3, <1>6, <2>1 DEF Bound
<1>7. QED
  BY <1>1, <1>2, <1>3, <1>4, <1>5, <1>6

\* Recording the outcome of a step that was not skipped.
LEMMA RecordLog ==
  ASSUME TypeInv, NEW r \in RunIds, NEW st \in {"succeeded", "failed", "unbound"},
         NEW files, LogOK(r), Record(r, st, files), Index(r) <= Len(Steps(r)),
         pc[r] \in {"boundary", "calling"}, ~abort[r],
         \A i \in 1..Len(log[r]) : log[r][i] \notin Skipped,
         st # "unbound" => Step(r).needs \subseteq env[r]
  PROVE  LogOK(r)'
<1>0. st \in StepStatus /\ st \notin Skipped
  BY DEF StepStatus, Skipped
<1>1. /\ log' = [log EXCEPT ![r] = Append(@, st)]
      /\ UNCHANGED <<workflow, inputs, flag, killed, verdict>>
      /\ pc'[r] = "boundary"
      /\ abort'[r] = (abort[r] \/ (st \in Failed /\ Step(r).onFailure = "fail"))
      /\ env'[r] = env[r] \cup (IF st = "succeeded" THEN Captured(r) ELSE {})
  BY DEF Record, Book, TypeInv, TypeOK, Goto
<1>2. /\ Len(log'[r]) = Index(r) /\ log'[r][Index(r)] = st
      /\ \A i \in 1..Len(log[r]) : log'[r][i] = log[r][i] /\ Fatal(r, i)' = Fatal(r, i)
      /\ Steps(r)' = Steps(r) /\ Index(r)' = Index(r) + 1
      /\ \A v : \A i \in Int : i <= Index(r) /\ Bound(r, v, i) => Bound(r, v, i)'
      /\ \A v : Bound(r, v, Index(r)) => Bound(r, v, Index(r))'
      /\ Len(log[r]) \in Nat
  BY <1>0, <1>1, LogAppend
<1>3. Index(r) = Len(log[r]) + 1 /\ 1..Len(log'[r]) = (1..Len(log[r])) \cup {Index(r)}
  BY <1>2 DEF Index
<1>4. \A n \in Int : n = Index(r) => (Fatal(r, n)' <=> st \in Failed /\ Step(r).onFailure = "fail")
  BY <1>2 DEF Fatal, Step
<1>5. abort'[r] <=> \E i \in 1..Len(log'[r]) : Fatal(r, i)'
  <2>1. \A i \in 1..Len(log[r]) : ~Fatal(r, i)'
    BY <1>2 DEF LogOK
  <2>2. abort'[r] <=> st \in Failed /\ Step(r).onFailure = "fail"
    BY <1>1
  <2>3. Index(r) \in Int /\ Index(r) \in 1..Len(log'[r])
    BY <1>2, <1>3
  <2>4. \A i \in 1..Len(log'[r]) : i \in Int /\ (Fatal(r, i)' => i = Index(r))
    BY <1>3, <2>1
  <2>5. QED
    BY <1>4, <2>2, <2>3, <2>4
<1>6. \A i \in 1..Len(log'[r]) : log'[r][i] \notin Skipped
  BY <1>0, <1>2, <1>3
<1>7. \A v \in env'[r] : Bound(r, v, Index(r))'
  <2>1. ASSUME NEW v \in env[r] PROVE Bound(r, v, Index(r))'
    BY <1>2, <2>1 DEF LogOK
  <2>2. ASSUME NEW v \in Captured(r), st = "succeeded" PROVE Bound(r, v, Index(r))'
    <3>1. Steps(r)'[Index(r)].capture = v /\ Index(r) \in 1..(Index(r)' - 1)
      BY <1>2, <1>3, <2>2 DEF Captured, Step
    <3>2. QED
      BY <1>2, <2>2, <3>1 DEF Bound
  <2>3. QED
    BY <1>1, <2>1, <2>2
\* Nothing had been skipped and nothing had failed fatally before.
<1>8. StopsAfterAbort(r)'
  <2>1. \A i \in 1..Len(log[r]) : ~Fatal(r, i)'
    BY <1>2 DEF LogOK
  <2>2. \A i, j \in 1..Len(log'[r]) : i < j => i \in 1..Len(log[r])
    BY <1>2, <1>3
  <2>3. QED
    BY <1>6, <2>1, <2>2 DEF StopsAfterAbort, Skipped
<1>9. ArgumentsBound(r)'
  <2>1. ASSUME NEW i \in 1..Len(log[r]), log'[r][i] \in {"succeeded", "failed"}, NEW v \in Steps(r)[i].needs
        PROVE  Bound(r, v, i)'
    <3>1. Bound(r, v, i)
      BY <1>2, <2>1 DEF LogOK, ArgumentsBound
    <3>2. QED
      BY <1>2, <1>3, <3>1
  <2>2. ASSUME st # "unbound", NEW v \in Steps(r)[Index(r)].needs, NEW n \in Int, n = Index(r)
        PROVE  Bound(r, v, n)'
    <3>1. v \in env[r]
      BY <2>2 DEF Step
    <3>2. Bound(r, v, n)
      BY <2>2, <3>1 DEF LogOK
    <3>3. QED
      BY <1>2, <2>2, <3>2
  <2>3. SUFFICES ASSUME NEW i \in 1..Len(log'[r]), log'[r][i] \in {"succeeded", "failed"},
                        NEW v \in Steps(r)[i].needs
                 PROVE  Bound(r, v, i)'
    BY <1>2 DEF ArgumentsBound
  <2>4. CASE i \in 1..Len(log[r])
    BY <2>1, <2>3, <2>4
  <2>5. CASE i = Index(r)
    <3>1. st # "unbound" /\ i \in Int
      BY <1>2, <2>3, <2>5
    <3>2. QED
      BY <2>2, <2>3, <2>5, <3>1
  <2>6. QED
    BY <1>3, <2>3, <2>4, <2>5
<1>10. verdict'[r] = "none" /\ Honest(r)'
  BY <1>1 DEF LogOK, Honest
<1>11. QED
  BY <1>1, <1>2, <1>5, <1>6, <1>7, <1>8, <1>9, <1>10 DEF LogOK, Skipped

\* Skipping a step.
LEMMA SkipLog ==
  ASSUME TypeInv, NEW r \in RunIds, LogOK(r), Skip(r)
  PROVE  LogOK(r)'
<1> DEFINE st == IF flag[r] THEN "skip_cancel" ELSE "skip_abort"
<1>0. st \in StepStatus /\ st \in Skipped /\ st \notin Failed
  BY DEF StepStatus, Skipped, Failed
<1>1. /\ log' = [log EXCEPT ![r] = Append(@, st)]
      /\ UNCHANGED <<workflow, inputs, flag, killed, verdict, env, abort, pc>>
      /\ pc[r] = "boundary" /\ Index(r) <= Len(Steps(r)) /\ (abort[r] \/ flag[r])
  BY DEF Skip, MustSkip
<1>2. /\ Len(log'[r]) = Index(r) /\ log'[r][Index(r)] = st
      /\ \A i \in 1..Len(log[r]) : log'[r][i] = log[r][i] /\ Fatal(r, i)' = Fatal(r, i)
      /\ Steps(r)' = Steps(r) /\ Index(r)' = Index(r) + 1
      /\ \A v : \A i \in Int : i <= Index(r) /\ Bound(r, v, i) => Bound(r, v, i)'
      /\ \A v : Bound(r, v, Index(r)) => Bound(r, v, Index(r))'
      /\ Len(log[r]) \in Nat
  BY <1>0, <1>1, LogAppend
<1>3. Index(r) = Len(log[r]) + 1 /\ 1..Len(log'[r]) = (1..Len(log[r])) \cup {Index(r)}
  BY <1>2 DEF Index
<1>4. \A n \in Int : n = Index(r) => ~Fatal(r, n)'
  BY <1>0, <1>2 DEF Fatal
<1>5. abort'[r] <=> \E i \in 1..Len(log'[r]) : Fatal(r, i)'
  BY <1>1, <1>2, <1>3, <1>4 DEF LogOK
<1>6. \A i \in 1..Len(log'[r]) : log'[r][i] = "skip_cancel" => flag'[r]
  BY <1>1, <1>2, <1>3 DEF LogOK
<1>7. StopsAfterAbort(r)'
  <2>1. SUFFICES ASSUME NEW i \in 1..Len(log'[r]), NEW j \in 1..Len(log'[r])
                 PROVE  /\ i < j /\ (Fatal(r, i)' \/ log'[r][i] \in Skipped) => log'[r][j] \in Skipped
                        /\ log'[r][j] = "skip_abort" => \E k \in 1..(j - 1) : Fatal(r, k)'
    BY DEF StopsAfterAbort
  <2>2. CASE j = Index(r)
    <3>1. log'[r][j] \in Skipped
      BY <1>0, <1>2, <2>2
    <3>2. log'[r][j] = "skip_abort" => \E k \in 1..(j - 1) : Fatal(r, k)'
      BY <1>1, <1>2, <1>3, <2>2 DEF LogOK
    <3>3. QED
      BY <3>1, <3>2
  <2>3. CASE j \in 1..Len(log[r])
    <3>1. i < j => i \in 1..Len(log[r])
      BY <1>2, <2>3
    <3>2. \A k \in 1..(j - 1) : k \in 1..Len(log[r])
      BY <1>2, <2>3
    <3>3. QED
      BY <1>2, <2>3, <3>1, <3>2 DEF LogOK, StopsAfterAbort
  <2>4. QED
    BY <1>3, <2>2, <2>3
<1>8. ArgumentsBound(r)'
  <2>1. ASSUME NEW i \in 1..Len(log[r]), log'[r][i] \in {"succeeded", "failed"}, NEW v \in Steps(r)[i].needs
        PROVE  Bound(r, v, i)'
    <3>1. Bound(r, v, i)
      BY <1>2, <2>1 DEF LogOK, ArgumentsBound
    <3>2. QED
      BY <1>2, <1>3, <3>1
  <2>2. QED
    BY <1>0, <1>2, <1>3, <2>1 DEF ArgumentsBound, Skipped
<1>9. verdict'[r] = "none" /\ Honest(r)'
  BY <1>1 DEF LogOK, Honest
<1>10. QED
  BY <1>0, <1>1, <1>2, <1>5, <1>6, <1>7, <1>8, <1>9 DEF LogOK

\* The verdict over a complete log.
LEMMA ConcludeLog ==
  ASSUME TypeInv, NEW r \in RunIds, LogOK(r), Conclude(r)
  PROVE  LogOK(r)'
<1>1. /\ UNCHANGED <<workflow, inputs, env, log, abort, flag, killed>>
      /\ pc'[r] = "update" /\ verdict'[r] = Verdict(r)
      /\ Index(r) > Len(Steps(r))
  BY DEF Conclude, Goto, TypeInv, TypeOK
<1>2. AllRecorded(r)
  BY <1>1, TemplateType DEF LogOK, AllRecorded, Index, TypeInv, TypeOK
<1>3. \A i \in 1..Len(log[r]) : log[r][i] \in StepStatus
  BY DEF TypeInv, TypeOK
<1>4. Verdict(r) = "succeeded" => AllSucceeded(r)
  <2>1. SUFFICES ASSUME ~flag[r], ~AnyFailed(r), NEW i \in 1..Len(log[r]) PROVE log[r][i] = "succeeded"
    BY <1>2 DEF Verdict, AllSucceeded
  <2>2. ~abort[r]
    BY <2>1 DEF LogOK, AnyFailed, Fatal
  <2>3. log[r][i] \notin Failed /\ log[r][i] \notin Skipped
    BY <2>1, <2>2 DEF LogOK, AnyFailed
  <2>4. QED
    BY <1>3, <2>3 DEF StepStatus, Failed, Skipped
<1>5. Verdict(r) = "failed" => ~flag[r] /\ AnyFailed(r)
  BY DEF Verdict
<1>6. Verdict(r) = "cancelled" => flag[r]
  BY DEF Verdict
<1>7. Honest(r)'
  BY <1>1, <1>2, <1>4, <1>5, <1>6 DEF Honest, AllSucceeded, AllRecorded, AnyFailed, Steps, LogOK
<1>8. /\ Steps(r)' = Steps(r) /\ Index(r)' = Index(r)
      /\ (\A i : Fatal(r, i)' = Fatal(r, i)) /\ (\A v, i : Bound(r, v, i)' = Bound(r, v, i))
  BY <1>1 DEF Steps, Index, Fatal, Bound
<1>9. StopsAfterAbort(r)' /\ ArgumentsBound(r)'
  BY <1>1, <1>8 DEF LogOK, StopsAfterAbort, ArgumentsBound
<1>10. QED
  BY <1>1, <1>7, <1>8, <1>9 DEF LogOK

\* A cancelled task keeps its partial log.
LEMMA CancelLog ==
  ASSUME TypeInv, NEW r \in RunIds, LogOK(r), TaskCancelled(r)
  PROVE  LogOK(r)'
<1>1. /\ UNCHANGED <<workflow, inputs, env, log, abort, flag>>
      /\ pc'[r] = "update" /\ verdict'[r] = "cancelled" /\ killed'[r] = TRUE
  BY DEF TaskCancelled, Goto, TypeInv, TypeOK
<1>2. Honest(r)'
  BY <1>1 DEF Honest
<1>3. /\ Steps(r)' = Steps(r) /\ Index(r)' = Index(r)
      /\ (\A i : Fatal(r, i)' = Fatal(r, i)) /\ (\A v, i : Bound(r, v, i)' = Bound(r, v, i))
  BY <1>1 DEF Steps, Index, Fatal, Bound
<1>4. StopsAfterAbort(r)' /\ ArgumentsBound(r)'
  BY <1>1, <1>3 DEF LogOK, StopsAfterAbort, ArgumentsBound
<1>5. QED
  BY <1>1, <1>2, <1>3, <1>4 DEF LogOK

\* A run starts with an empty log and the inputs as environment.
LEMMA StartLog ==
  ASSUME TypeInv, NEW r \in RunIds, LogOK(r), Start(r)
  PROVE  LogOK(r)'
<1>1. /\ log'[r] = <<>> /\ verdict'[r] = "none" /\ UNCHANGED abort
      /\ env'[r] = inputs'[r] /\ pc'[r] \in {"boundary", "rejected"}
  BY DEF Start, Goto, TypeInv, TypeOK, LogOK
<1>2. Len(log'[r]) = 0 /\ Len(Steps(r)') \in Nat
  BY <1>1, StartType, TemplateType
<1>3. ~abort[r]
  <2>1. Len(log[r]) = 0
    BY DEF LogOK, Start
  <2>2. QED
    BY <2>1 DEF LogOK
<1>4. \A v \in env'[r] : Bound(r, v, Index(r))'
  BY <1>1 DEF Bound
<1>5. StopsAfterAbort(r)' /\ ArgumentsBound(r)' /\ Honest(r)'
  BY <1>1, <1>2 DEF StopsAfterAbort, ArgumentsBound, Honest
<1>6. QED
  BY <1>1, <1>2, <1>3, <1>4, <1>5 DEF LogOK

\* Calling is entered only where nothing forbids it.
LEMMA InvokeLog ==
  ASSUME TypeInv, NEW r \in RunIds, LogOK(r), Invoke(r)
  PROVE  LogOK(r)'
<1>1. /\ UNCHANGED <<workflow, inputs, env, log, abort, flag, killed, verdict>>
      /\ pc[r] = "boundary" /\ pc'[r] = "calling"
      /\ ~abort[r] /\ ~flag[r] /\ Step(r).needs \subseteq env[r]
  BY DEF Invoke, Goto, MustSkip, memory, TypeInv, TypeOK
<1>2. \A i \in 1..Len(log[r]) : log[r][i] \notin Skipped
  BY <1>1 DEF LogOK
<1>3. /\ Steps(r)' = Steps(r) /\ Index(r)' = Index(r) /\ Step(r)' = Step(r)
      /\ (\A i : Fatal(r, i)' = Fatal(r, i)) /\ (\A v, i : Bound(r, v, i)' = Bound(r, v, i))
  BY <1>1 DEF Steps, Index, Step, Fatal, Bound
<1>4. StopsAfterAbort(r)' /\ ArgumentsBound(r)' /\ Honest(r)'
  BY <1>1, <1>3 DEF LogOK, StopsAfterAbort, ArgumentsBound, Honest, AllSucceeded, AllRecorded, AnyFailed
<1>5. QED
  BY <1>1, <1>2, <1>3, <1>4 DEF LogOK

LEMMA StepLog == TypeInv /\ LogInv /\ [Next]_vars => LogInv'
<1> SUFFICES ASSUME TypeInv, LogInv, [Next]_vars, NEW q \in RunIds PROVE LogOK(q)'
  BY DEF LogInv
<1>0. LogOK(q) /\ TypeOK
  BY DEF LogInv, TypeInv
<1> DEFINE Kept == /\ log'[q] = log[q] /\ workflow'[q] = workflow[q] /\ inputs'[q] = inputs[q]
                   /\ env'[q] = env[q] /\ abort'[q] = abort[q] /\ verdict'[q] = verdict[q]
                   /\ (flag[q] => flag'[q]) /\ (killed[q] => killed'[q])
                   /\ (pc'[q] = pc[q] \/ pc'[q] \notin {"new", "boundary", "calling"})
<1>k. Kept => LogOK(q)'
  BY <1>0, LogFrame
<1> HIDE DEF Kept
<1>1. CASE UNCHANGED vars
  BY <1>1, <1>k DEF vars, memory, Kept
<1>2. ASSUME NEW r \in RunIds, Start(r) PROVE LogOK(q)'
  <2>1. CASE q # r
    BY <1>0, <1>2, <2>1, <1>k DEF Start, Goto, TypeOK, Kept
  <2>2. QED
    BY <1>0, <1>2, <2>1, StartLog
<1>3. ASSUME NEW r \in RunIds, Skip(r) PROVE LogOK(q)'
  <2>1. CASE q # r
    BY <1>0, <1>3, <2>1, <1>k DEF Skip, TypeOK, Kept
  <2>2. QED
    BY <1>0, <1>3, <2>1, SkipLog
<1>4. ASSUME NEW r \in RunIds, Unbound(r) \/ Return(r) PROVE LogOK(q)'
  <2>1. CASE q # r
    <3>1. \E st, files : Record(r, st, files)
      BY <1>4 DEF Unbound, Return
    <3>2. QED
      BY <1>0, <2>1, <3>1, <1>k DEF Record, Book, Goto, TypeOK, Kept
  <2>2. CASE q = r /\ Unbound(r)
    <3>1. /\ Record(r, "unbound", {}) /\ pc[r] = "boundary" /\ Index(r) <= Len(Steps(r))
          /\ ~abort[r] /\ ~flag[r]
      BY <2>2 DEF Unbound, MustSkip
    <3>2. \A i \in 1..Len(log[r]) : log[r][i] \notin Skipped
      BY <1>0, <2>2, <3>1 DEF LogOK
    <3>3. QED
      BY <1>0, <2>2, <3>1, <3>2, RecordLog
  <2>3. CASE q = r /\ Return(r)
    <3>1. pc[r] = "calling" /\ Index(r) <= Len(Steps(r))
      BY <2>3 DEF Return, TypeInv, PointsOK
    <3>2. PICK st \in {"succeeded", "failed"}, files \in SUBSET StepFiles : Record(r, st, files)
      BY <2>3 DEF Return
    <3>3. /\ ~abort[r] /\ Step(r).needs \subseteq env[r]
          /\ \A i \in 1..Len(log[r]) : log[r][i] \notin Skipped
      BY <1>0, <2>3, <3>1 DEF LogOK
    <3>4. QED
      BY <1>0, <2>3, <3>1, <3>2, <3>3, RecordLog
  <2>4. QED
    BY <1>4, <2>1, <2>2, <2>3
<1>5. ASSUME NEW r \in RunIds, Invoke(r) PROVE LogOK(q)'
  <2>1. CASE q # r
    BY <1>0, <1>5, <2>1, <1>k DEF Invoke, Goto, TypeOK, memory, Kept
  <2>2. QED
    BY <1>0, <1>5, <2>1, InvokeLog
<1>6. ASSUME NEW r \in RunIds, TaskCancelled(r) PROVE LogOK(q)'
  <2>1. CASE q # r
    BY <1>0, <1>6, <2>1, <1>k DEF TaskCancelled, Goto, TypeOK, Kept
  <2>2. QED
    BY <1>0, <1>6, <2>1, CancelLog
<1>7. ASSUME NEW r \in RunIds, Conclude(r) PROVE LogOK(q)'
  <2>1. CASE q # r
    BY <1>0, <1>7, <2>1, <1>k DEF Conclude, Goto, TypeOK, Kept
  <2>2. QED
    BY <1>0, <1>7, <2>1, ConcludeLog
<1>8. ASSUME NEW r \in RunIds, Escape(r) \/ UpdateRow(r) \/ Persist(r) \/ Attach(r) \/ Insert(r)
                               \/ Swallow(r) \/ NextFile(r) \/ Finish(r)
      PROVE  LogOK(q)'
  <2>1. UNCHANGED <<memory, flag>>
    BY <1>8 DEF Escape, UpdateRow, Persist, WriteGraph, Attach, Insert, Swallow, NextFile, Finish
  <2>2. \E where \in Busy \cup Ended : where # "boundary" /\ pc' = [pc EXCEPT ![r] = where]
    BY <1>8 DEF Escape, UpdateRow, Persist, WriteGraph, Attach, Insert, Swallow, NextFile, Finish,
                Goto, Busy, Ended
  <2>3. pc'[q] = pc[q] \/ pc'[q] \notin {"new", "boundary", "calling"}
    BY <1>0, <2>2 DEF TypeOK, Busy, Ended
  <2>4. QED
    BY <2>1, <2>3, <1>k DEF memory, Kept
<1>9. ASSUME NEW r \in RunIds, RequestCancel(r) PROVE LogOK(q)'
  <2>1. flag[q] => flag'[q]
    BY <1>0, <1>9 DEF RequestCancel, TypeOK
  <2>2. QED
    BY <1>9, <2>1, <1>k DEF RequestCancel, memory, Kept
<1>10. ASSUME NEW r \in RunIds, DeleteRun(r) PROVE LogOK(q)'
  BY <1>10, <1>k DEF DeleteRun, memory, Kept
<1>11. ASSUME NEW p \in Processes, Crash(p) PROVE LogOK(q)'
  <2>1. pc'[q] = pc[q] \/ pc'[q] = "crashed"
    BY <1>11 DEF Crash
  <2>2. QED
    BY <1>11, <2>1, <1>k DEF Crash, memory, Kept
<1>12. QED
  BY <1>1, <1>2, <1>3, <1>4, <1>5, <1>6, <1>7, <1>8, <1>9, <1>10, <1>11 DEF Next, Progress

LEMMA Logs == Spec => []LogInv
  BY Typed, InitLog, StepLog, PTL DEF Spec

\* No step is executed after a fatal failure or a skip, for every template.
THEOREM StopsOnAbort == Spec => []NothingRunsAfterAbort
<1>1. LogInv => NothingRunsAfterAbort
  BY DEF LogInv, LogOK, NothingRunsAfterAbort
<1>2. QED
  BY Logs, <1>1, PTL

\* No call is made with an argument that neither an input nor a successful step
\* has bound.
THEOREM BoundCalls == Spec => []CallsOnlyWithBoundArguments
<1>1. LogInv => CallsOnlyWithBoundArguments
  BY DEF LogInv, LogOK, CallsOnlyWithBoundArguments
<1>2. QED
  BY Logs, <1>1, PTL

\* The verdict of an execution is what its step log shows.
THEOREM HonestVerdict == Spec => []VerdictHonest
<1>1. LogInv => VerdictHonest
  BY DEF LogInv, LogOK, VerdictHonest
<1>2. QED
  BY Logs, <1>1, PTL

-----------------------------------------------------------------------------
(* The execution graphs.  What follows assumes that no two runs store their *)
(* graph in the same file, which is so for minted run ids.                  *)

DistinctGraphs == \A q, r \in RunIds : GraphFile[q] = GraphFile[r] => q = r

Written == {"attach", "insert", "next", "returned", "cancelled", "crashed"}

GraphRowsOK ==
  \A a \in artifacts : IsGraphRow(a) =>
    /\ a.path = GraphFile[a.run] /\ pc[a.run] \in Written
    /\ graphs[a.path] = [run |-> a.run, status |-> runs[a.run].status]

\* A run that attaches a file attaches its own graph, as it has written it, or a
\* file of its steps.
HeldOK ==
  \A r \in RunIds : pc[r] \in {"attach", "insert"} =>
    /\ cur[r] \in StepFiles \cup {GraphFile[r]}
    /\ cur[r] = GraphFile[r] => graphs[GraphFile[r]] = [run |-> r, status |-> verdict[r]]

GraphInv == GraphRowsOK /\ HeldOK

LEMMA InitGraphs == Init => GraphInv
<1> SUFFICES ASSUME Init PROVE GraphInv
  OBVIOUS
<1>1. artifacts = {} /\ \A r \in RunIds : pc[r] = "new"
  BY DEF Init, TablesInit
<1>2. GraphRowsOK
  BY <1>1 DEF GraphRowsOK
<1>3. HeldOK
  BY <1>1 DEF HeldOK
<1>4. QED
  BY <1>2, <1>3 DEF GraphInv

\* No graph row is new or changes its status, and no run turns to a new file.
LEMMA GraphFrame ==
  ASSUME TypeInv, GraphInv, UNCHANGED graphs,
         \A a \in artifacts' : IsGraphRow(a) =>
           a \in artifacts /\ runs'[a.run].status = runs[a.run].status,
         \A r \in RunIds : pc[r] \in Written => pc'[r] \in Written,
         \A r \in RunIds : pc'[r] \in {"attach", "insert"} =>
           pc[r] \in {"attach", "insert"} /\ cur'[r] = cur[r] /\ verdict'[r] = verdict[r]
  PROVE  GraphInv'
<1>1. GraphRowsOK'
  <2>1. SUFFICES ASSUME NEW a \in artifacts', IsGraphRow(a)
                 PROVE  /\ a.path = GraphFile[a.run] /\ pc'[a.run] \in Written
                        /\ graphs'[a.path] = [run |-> a.run, status |-> runs'[a.run].status]
    BY DEF GraphRowsOK, IsGraphRow
  <2>2. a \in artifacts /\ a.run \in RunIds
    BY <2>1 DEF TypeInv, TypeOK, TablesTypeOK, Artifact
  <2>3. QED
    BY <2>1, <2>2 DEF GraphInv, GraphRowsOK
<1>2. HeldOK'
  BY DEF GraphInv, HeldOK
<1>3. QED
  BY <1>1, <1>2 DEF GraphInv

LEMMA StepGraphs ==
  ASSUME DistinctGraphs
  PROVE  TypeInv /\ RowInv /\ GraphInv /\ [Next]_vars => GraphInv'
<1> SUFFICES ASSUME TypeInv, RowInv, GraphInv, [Next]_vars PROVE GraphInv'
  OBVIOUS
<1>0. TypeOK /\ TablesTypeOK /\ \A a \in artifacts : a.run \in RunIds
  BY DEF TypeInv, TypeOK, TablesTypeOK, Artifact
<1>1. CASE UNCHANGED vars
  BY <1>1 DEF vars, memory, tables, GraphInv, GraphRowsOK, HeldOK
\* A run whose graph is attached is past update_run.
<1>2. ASSUME NEW a \in artifacts, IsGraphRow(a) PROVE pc[a.run] \in Written
  BY <1>2 DEF GraphInv, GraphRowsOK
<1>3. ASSUME NEW r \in RunIds, Start(r) PROVE GraphInv'
  <2>1. /\ UNCHANGED <<graphs, artifacts, cur, verdict>>
        /\ \A q \in RunIds \ {r} : runs'[q] = runs[q] /\ pc'[q] = pc[q]
        /\ pc[r] = "new" /\ pc'[r] \in {"boundary", "rejected"}
    BY <1>0, <1>3 DEF Start, InsertRun, Goto, tables, TypeOK, TablesTypeOK
  <2>2. \A a \in artifacts : IsGraphRow(a) => a.run # r
    BY <1>2, <2>1 DEF Written
  <2>3. QED
    BY <1>0, <2>1, <2>2, GraphFrame DEF Written
<1>4. ASSUME NEW r \in RunIds, UpdateRow(r) PROVE GraphInv'
  <2>1. /\ UNCHANGED <<graphs, artifacts, cur, verdict>>
        /\ \A q \in RunIds \ {r} : runs'[q] = runs[q] /\ pc'[q] = pc[q]
        /\ pc[r] = "update" /\ pc'[r] \in {"persist", "raised"}
    BY <1>0, <1>4 DEF UpdateRow, SetStatus, Goto, tables, memory, TypeOK, TablesTypeOK
  <2>2. \A a \in artifacts : IsGraphRow(a) => a.run # r
    BY <1>2, <2>1 DEF Written
  <2>3. QED
    BY <1>0, <2>1, <2>2, GraphFrame DEF Written
<1>5. ASSUME NEW r \in RunIds, DeleteRun(r) PROVE GraphInv'
  <2>1. /\ artifacts' \subseteq artifacts
        /\ \A a \in artifacts' : runs'[a.run].status = runs[a.run].status
    <3>1. CASE StampDeleted(r)
      BY <1>0, <3>1, StampDeletedStep DEF StampDeleted
    <3>2. CASE DropRow(r)
      BY <1>0, <3>2, DropRowStep DEF DropRow
    <3>3. QED
      BY <1>5, <3>1, <3>2 DEF DeleteRun
  <2>2. QED
    BY <1>5, <2>1, GraphFrame DEF DeleteRun, memory
<1>6. ASSUME NEW r \in RunIds, Persist(r) PROVE GraphInv'
  <2>1. /\ UNCHANGED <<tables, verdict>> /\ pc[r] = "persist"
        /\ pc' = [pc EXCEPT ![r] = "attach"] /\ cur' = [cur EXCEPT ![r] = GraphFile[r]]
        /\ graphs' = [graphs EXCEPT ![GraphFile[r]] = [run |-> r, status |-> verdict[r]]]
    BY <1>6 DEF Persist, WriteGraph, Goto, memory
  <2>2. /\ graphs'[GraphFile[r]] = [run |-> r, status |-> verdict[r]]
        /\ \A q \in RunIds \ {r} : graphs'[GraphFile[q]] = graphs[GraphFile[q]]
    BY <1>0, <2>1, FileTypes DEF DistinctGraphs, TypeOK
  <2>3. GraphRowsOK'
    <3>1. SUFFICES ASSUME NEW a \in artifacts, IsGraphRow(a)
                   PROVE  /\ a.path = GraphFile[a.run] /\ pc'[a.run] \in Written
                          /\ graphs'[a.path] = [run |-> a.run, status |-> runs[a.run].status]
      BY <2>1 DEF GraphRowsOK, IsGraphRow, tables
    <3>2. a.run \in RunIds \ {r}
      BY <1>0, <1>2, <2>1, <3>1 DEF Written
    <3>3. QED
      BY <1>0, <2>1, <2>2, <3>1, <3>2 DEF GraphInv, GraphRowsOK, TypeOK
  <2>4. HeldOK'
    <3>1. SUFFICES ASSUME NEW q \in RunIds, pc'[q] \in {"attach", "insert"}
                   PROVE  /\ cur'[q] \in StepFiles \cup {GraphFile[q]}
                          /\ cur'[q] = GraphFile[q] =>
                               graphs'[GraphFile[q]] = [run |-> q, status |-> verdict[q]]
      BY <2>1 DEF HeldOK
    <3>2. CASE q = r
      BY <1>0, <2>1, <2>2, <3>2 DEF TypeOK
    <3>3. CASE q # r
      BY <1>0, <2>1, <2>2, <3>1, <3>3 DEF TypeOK, GraphInv, HeldOK
    <3>4. QED
      BY <3>2, <3>3
  <2>5. QED
    BY <2>3, <2>4 DEF GraphInv
<1>7. ASSUME NEW r \in RunIds, Insert(r) PROVE GraphInv'
  <2> DEFINE new == [run |-> r, path |-> cur[r], about |-> sidecars[cur[r]]]
  <2>1. /\ UNCHANGED <<runs, graphs, cur, verdict>> /\ artifacts' = artifacts \cup {new}
        /\ pc[r] = "insert" /\ pc' = [pc EXCEPT ![r] = "next"] /\ Exists(r)
    BY <1>7 DEF Insert, InsertArtifact, ForeignKeyHolds, Goto, memory
  <2>2. ASSUME IsGraphRow(new)
        PROVE  /\ new.path = GraphFile[new.run]
               /\ graphs[new.path] = [run |-> new.run, status |-> runs[new.run].status]
    <3>1. cur[r] = GraphFile[r] /\ graphs[GraphFile[r]] = [run |-> r, status |-> verdict[r]]
      BY <2>1, <2>2 DEF GraphInv, HeldOK, IsGraphRow
    <3>2. runs[r].status = verdict[r]
      BY <2>1 DEF RowInv, Settled, Exists
    <3>3. QED
      BY <3>1, <3>2
  <2>3. \A q \in RunIds : pc[q] \in Written => pc'[q] \in Written
    BY <1>0, <2>1 DEF TypeOK, Written
  <2>4. pc'[r] \in Written
    BY <1>0, <2>1 DEF TypeOK, Written
  <2>5. GraphRowsOK'
    <3>1. SUFFICES ASSUME NEW a \in artifacts', IsGraphRow(a)
                   PROVE  /\ a.path = GraphFile[a.run] /\ pc'[a.run] \in Written
                          /\ graphs[a.path] = [run |-> a.run, status |-> runs[a.run].status]
      BY <2>1 DEF GraphRowsOK, IsGraphRow
    <3>2. CASE a = new
      BY <2>2, <2>4, <3>1, <3>2
    <3>3. CASE a \in artifacts
      BY <1>0, <2>3, <3>1, <3>3 DEF GraphInv, GraphRowsOK
    <3>4. QED
      BY <2>1, <3>2, <3>3
  <2>6. HeldOK'
    BY <1>0, <2>1 DEF TypeOK, GraphInv, HeldOK
  <2>7. QED
    BY <2>5, <2>6 DEF GraphInv
<1>8. ASSUME NEW r \in RunIds, NextFile(r) PROVE GraphInv'
  <2>1. /\ UNCHANGED <<tables, graphs, verdict>> /\ pc[r] = "next"
        /\ pc' = [pc EXCEPT ![r] = "attach"]
        /\ \E p \in StepFiles : cur' = [cur EXCEPT ![r] = p]
    BY <1>0, <1>8 DEF NextFile, Goto, memory, TypeOK
  <2>2. cur'[r] \in StepFiles /\ GraphFile[r] \notin StepFiles
    BY <1>0, <2>1, FileTypes DEF TypeOK
  <2>3. GraphRowsOK'
    <3>1. \A q \in RunIds : pc[q] \in Written => pc'[q] \in Written
      BY <1>0, <2>1 DEF TypeOK, Written
    <3>2. QED
      BY <1>0, <2>1, <3>1 DEF GraphInv, GraphRowsOK, IsGraphRow, tables
  <2>4. HeldOK'
    BY <1>0, <2>1, <2>2 DEF TypeOK, GraphInv, HeldOK
  <2>5. QED
    BY <2>3, <2>4 DEF GraphInv
\* The other steps of a run write no graph and attach nothing.
<1>9. ASSUME NEW r \in RunIds,
             \/ Skip(r) \/ Unbound(r) \/ Return(r) \/ Invoke(r) \/ Escape(r)
             \/ TaskCancelled(r) \/ Conclude(r)
      PROVE  GraphInv'
  <2>1. UNCHANGED <<tables, graphs, cur>> /\ \A q \in RunIds \ {r} : verdict'[q] = verdict[q]
    BY <1>0, <1>9 DEF Skip, Unbound, Return, Invoke, Escape, TaskCancelled, Conclude, Record, Book,
                      memory, TypeOK
  <2>2. /\ pc[r] \in {"boundary", "calling"}
        /\ \E where \in {"boundary", "calling", "raised", "update"} : pc' = [pc EXCEPT ![r] = where]
    BY <1>0, <1>9 DEF Skip, Unbound, Return, Invoke, Escape, TaskCancelled, Conclude, Record, Book,
                      Goto, TypeOK
  <2>3. pc'[r] \notin {"attach", "insert"} /\ \A q \in RunIds \ {r} : pc'[q] = pc[q]
    BY <1>0, <2>2 DEF TypeOK
  <2>4. QED
    BY <2>1, <2>2, <2>3, GraphFrame DEF Written, tables
<1>10. ASSUME NEW r \in RunIds, Attach(r) \/ Swallow(r) \/ Finish(r) PROVE GraphInv'
  <2>1. UNCHANGED <<runs, artifacts, graphs, cur, verdict>>
    BY <1>10 DEF Attach, PutSidecar, Swallow, Finish, memory, tables
  <2>2. CASE Attach(r)
    <3>1. /\ pc[r] = "attach"
          /\ pc' = [pc EXCEPT ![r] = "insert"] \/ pc' = [pc EXCEPT ![r] = "next"]
      BY <2>2 DEF Attach, Goto
    <3>2. /\ \A q \in RunIds : pc[q] \in Written => pc'[q] \in Written
          /\ \A q \in RunIds : pc'[q] \in {"attach", "insert"} => pc[q] \in {"attach", "insert"}
      BY <1>0, <3>1 DEF TypeOK, Written
    <3>3. QED
      BY <2>1, <3>2, GraphFrame
  <2>3. CASE Swallow(r) \/ Finish(r)
    <3>1. \/ pc' = [pc EXCEPT ![r] = "next"]
          \/ pc' = [pc EXCEPT ![r] = "cancelled"]
          \/ pc' = [pc EXCEPT ![r] = "returned"]
      BY <2>3 DEF Swallow, Finish, Goto
    <3>2. /\ \A q \in RunIds : pc[q] \in Written => pc'[q] \in Written
          /\ \A q \in RunIds : pc'[q] \in {"attach", "insert"} => pc[q] \in {"attach", "insert"}
      BY <1>0, <3>1 DEF TypeOK, Written
    <3>3. QED
      BY <2>1, <3>2, GraphFrame
  <2>4. QED
    BY <1>10, <2>2, <2>3
<1>11. ASSUME NEW r \in RunIds, RequestCancel(r) PROVE GraphInv'
  BY <1>11, GraphFrame DEF RequestCancel, memory, tables
<1>12. ASSUME NEW p \in Processes, Crash(p) PROVE GraphInv'
  <2>1. \A q \in RunIds : pc'[q] \in {pc[q], "crashed"}
    BY <1>12 DEF Crash
  <2>2. QED
    BY <1>12, <2>1, GraphFrame DEF Crash, memory, tables, Written
<1>13. QED
  BY <1>1, <1>3, <1>4, <1>5, <1>6, <1>7, <1>8, <1>9, <1>10, <1>11, <1>12 DEF Next, Progress

LEMMA GraphsKnown == ASSUME DistinctGraphs PROVE Spec => []GraphInv
  BY Typed, Rows, InitGraphs, StepGraphs, PTL DEF Spec

\* When run ids name distinct graph files, an attached graph is that of its run
\* and shows the status of the run's row.
THEOREM GraphAgrees == ASSUME DistinctGraphs PROVE Spec => []GraphAgreesWithRow
<1>1. GraphInv => GraphAgreesWithRow
  BY DEF GraphInv, GraphRowsOK, GraphAgreesWithRow
<1>2. QED
  BY GraphsKnown, <1>1, PTL

\* When run ids name distinct graph files, reuse_run_id surfaces the run's own
\* graph, and that of a run which executed every step with success.
THEOREM HonestReuse == ASSUME DistinctGraphs PROVE Spec => []ReuseHonest
<1>1. ASSUME TypeInv, RowInv, LogInv, GraphInv, NEW r \in RunIds, ReuseAccepted(r)
      PROVE  PriorGraph(r) = [run |-> r, status |-> "succeeded"] /\ AllSucceeded(r)
  <2>1. PICK a \in artifacts : a.run = r /\ IsGraphRow(a)
    BY <1>1 DEF ReuseAccepted
  <2>2. /\ graphs[GraphFile[r]] = [run |-> r, status |-> "succeeded"]
        /\ pc[r] \in Written /\ runs[r].status = "succeeded"
    BY <1>1, <2>1 DEF ReuseAccepted, GraphInv, GraphRowsOK
  <2>3. verdict[r] = "succeeded"
    BY <1>1, <2>2 DEF RowInv, Written, Settled
  <2>4. QED
    BY <1>1, <2>2, <2>3 DEF PriorGraph, LogInv, LogOK, Honest
<1>2. TypeInv /\ RowInv /\ LogInv /\ GraphInv => ReuseHonest
  BY <1>1 DEF ReuseHonest
<1>3. QED
  BY Typed, Rows, Logs, GraphsKnown, <1>2, PTL

\* When run ids name distinct graph files, no run writes to the graph that
\* another one, or itself, has attached.
THEOREM GraphsStay == ASSUME DistinctGraphs PROVE Spec => GraphsNeverRewritten
<1> DEFINE Stay == \A a \in artifacts : IsGraphRow(a) => graphs'[a.path] = graphs[a.path]
<1>1. ASSUME TypeInv, GraphInv, NEW r \in RunIds, Persist(r) PROVE Stay
  <2>1. SUFFICES ASSUME NEW a \in artifacts, IsGraphRow(a) PROVE graphs'[a.path] = graphs[a.path]
    OBVIOUS
  <2>2. a.run \in RunIds \ {r} /\ a.path = GraphFile[a.run]
    BY <1>1, <2>1 DEF Persist, WriteGraph, GraphInv, GraphRowsOK, Written, TypeInv, TypeOK,
                      TablesTypeOK, Artifact
  <2>3. a.path # GraphFile[r]
    BY <2>2 DEF DistinctGraphs
  <2>4. a.path \in Paths
    BY <2>1, <1>1 DEF TypeInv, TypeOK, TablesTypeOK, Artifact
  <2>5. QED
    BY <1>1, <2>3, <2>4 DEF Persist, WriteGraph, TypeInv, TypeOK
<1>2. ASSUME Next, \A r \in RunIds : ~Persist(r) PROVE UNCHANGED graphs
  BY <1>2 DEF Next, Progress, Start, Skip, Unbound, Return, Record, Book, Invoke, Escape, TaskCancelled,
     Conclude, UpdateRow, Attach, Insert, Swallow, NextFile, Finish, RequestCancel, Crash, DeleteRun
<1>3. TypeInv /\ GraphInv /\ [Next]_vars => [Stay]_vars
  BY <1>1, <1>2
<1>4. QED
  BY Typed, GraphsKnown, <1>3, PTL DEF Spec, GraphsNeverRewritten

-----------------------------------------------------------------------------
(* Who writes sidecars.                                                     *)

\* The event loop: two runs of one process are never both between two awaits.
Exclusive ==
  \A q, r \in RunIds : q # r /\ proc[q] = proc[r] => pc[q] \notin Busy \/ pc[r] \notin Busy

\* The sidecar that a run is about to read is its own, or of another process.
FreshSidecar ==
  \A r \in RunIds : pc[r] = "insert" =>
    sidecars[cur[r]] = r \/ proc[sidecars[cur[r]]] # proc[r]

LabelInv == Exclusive /\ FreshSidecar /\ OwnLabelWithinProcess

LEMMA InitLabels == Init => LabelInv
<1> SUFFICES ASSUME Init PROVE LabelInv
  OBVIOUS
<1>1. artifacts = {} /\ \A r \in RunIds : pc[r] = "new"
  BY DEF Init, TablesInit
<1>2. Exclusive
  BY <1>1 DEF Exclusive, Busy
<1>3. FreshSidecar /\ OwnLabelWithinProcess
  BY <1>1 DEF FreshSidecar, OwnLabelWithinProcess
<1>4. QED
  BY <1>2, <1>3 DEF LabelInv

\* A run becomes busy only when its loop is free.
LEMMA LoopStep ==
  ASSUME TypeInv, Next
  PROVE  /\ UNCHANGED proc
         /\ \/ \A q \in RunIds : pc'[q] \in Busy => pc[q] \in Busy
            \/ \E r \in RunIds : LoopFree(r) /\ \A q \in RunIds \ {r} : pc'[q] = pc[q]
<1>0. TypeOK
  BY DEF TypeInv
<1>1. ASSUME NEW r \in RunIds, Start(r) \/ Return(r) \/ Escape(r) \/ TaskCancelled(r)
      PROVE  UNCHANGED proc /\ LoopFree(r) /\ \A q \in RunIds \ {r} : pc'[q] = pc[q]
  BY <1>0, <1>1 DEF Start, Return, Record, Book, Escape, TaskCancelled, Goto, TypeOK
<1>2. ASSUME NEW r \in RunIds,
             \/ Skip(r) \/ Unbound(r) \/ Invoke(r) \/ Conclude(r) \/ UpdateRow(r) \/ Persist(r)
             \/ Attach(r) \/ Insert(r) \/ Swallow(r) \/ NextFile(r) \/ Finish(r)
      PROVE  UNCHANGED proc /\ \A q \in RunIds : pc'[q] \in Busy => pc[q] \in Busy
  <2>1. UNCHANGED proc /\ pc[r] \in Busy
    BY <1>2 DEF Skip, Unbound, Record, Book, Invoke, Conclude, UpdateRow, Persist, WriteGraph, Attach,
                Insert, Swallow, NextFile, Finish, Busy
  <2>2. \E where : pc' = [pc EXCEPT ![r] = where]
    <3>1. CASE Skip(r)
      BY <1>0, <3>1 DEF Skip, TypeOK
    <3>2. CASE Unbound(r) \/ Invoke(r) \/ Conclude(r) \/ Finish(r) \/ NextFile(r) \/ Swallow(r)
      BY <3>2 DEF Unbound, Record, Book, Invoke, Conclude, Finish, NextFile, Swallow, Goto
    <3>3. CASE UpdateRow(r) \/ Persist(r) \/ Attach(r) \/ Insert(r)
      BY <3>3 DEF UpdateRow, Persist, WriteGraph, Attach, Insert, Goto
    <3>4. QED
      BY <1>2, <3>1, <3>2, <3>3
  <2>3. QED
    BY <1>0, <2>1, <2>2 DEF TypeOK
<1>3. ASSUME NEW r \in RunIds, RequestCancel(r) \/ DeleteRun(r) PROVE UNCHANGED <<proc, pc>>
  BY <1>3 DEF RequestCancel, DeleteRun
<1>4. ASSUME NEW p \in Processes, Crash(p)
      PROVE  UNCHANGED proc /\ \A q \in RunIds : pc'[q] \in Busy => pc[q] \in Busy
  BY <1>0, <1>4 DEF Crash, Busy
<1>5. QED
  BY <1>1, <1>2, <1>3, <1>4 DEF Next, Progress

\* Which steps touch sidecars, turn to an insert or attach a file.
LEMMA SidecarStep ==
  ASSUME TypeInv, Next
  PROVE  \/ \E r \in RunIds : Attach(r)
         \/ \E r \in RunIds : Insert(r)
         \/ /\ UNCHANGED sidecars /\ artifacts' \subseteq artifacts
            /\ \A q \in RunIds : pc'[q] = "insert" => pc[q] = "insert" /\ cur'[q] = cur[q]
<1>0. TypeOK
  BY DEF TypeInv
<1> DEFINE Calm == /\ UNCHANGED sidecars /\ artifacts' \subseteq artifacts
                   /\ \A q \in RunIds : pc'[q] = "insert" => pc[q] = "insert" /\ cur'[q] = cur[q]
<1>1. ASSUME NEW r \in RunIds, Start(r) \/ Skip(r) \/ Unbound(r) \/ Return(r) PROVE Calm
  BY <1>0, <1>1 DEF Start, Skip, Unbound, Return, Record, Book, InsertRun, Goto, tables, TypeOK
<1>2. ASSUME NEW r \in RunIds, Invoke(r) \/ Escape(r) \/ TaskCancelled(r) \/ Conclude(r) PROVE Calm
  BY <1>0, <1>2 DEF Invoke, Escape, TaskCancelled, Conclude, Goto, tables, TypeOK
<1>3. ASSUME NEW r \in RunIds, UpdateRow(r) \/ Swallow(r) \/ Finish(r) PROVE Calm
  BY <1>0, <1>3 DEF UpdateRow, SetStatus, Swallow, Finish, Goto, tables, TypeOK
<1>4. ASSUME NEW r \in RunIds, Persist(r) \/ NextFile(r) PROVE Calm
  BY <1>0, <1>4 DEF Persist, WriteGraph, NextFile, Goto, tables, TypeOK
<1>5. ASSUME NEW r \in RunIds, RequestCancel(r) \/ DeleteRun(r) PROVE Calm
  BY <1>5 DEF RequestCancel, DeleteRun, StampDeleted, DropRow, tables
<1>6. ASSUME NEW p \in Processes, Crash(p) PROVE Calm
  BY <1>0, <1>6 DEF Crash, tables, TypeOK
<1>7. QED
  BY <1>1, <1>2, <1>3, <1>4, <1>5, <1>6 DEF Next, Progress

LEMMA StepLabels == TypeInv /\ LabelInv /\ [Next]_vars => LabelInv'
<1> SUFFICES ASSUME TypeInv, LabelInv, [Next]_vars PROVE LabelInv'
  OBVIOUS
<1>0. TypeOK /\ TablesTypeOK
  BY DEF TypeInv, TypeOK
<1>1. CASE UNCHANGED vars
  BY <1>1 DEF vars, tables, LabelInv, Exclusive, FreshSidecar, OwnLabelWithinProcess
<1>2. CASE Next
  <2>1. UNCHANGED proc
    BY <1>2, LoopStep
  <2>2. Exclusive'
    <3>1. CASE \A q \in RunIds : pc'[q] \in Busy => pc[q] \in Busy
      BY <2>1, <3>1 DEF LabelInv, Exclusive
    <3>2. ASSUME NEW r \in RunIds, LoopFree(r), \A q \in RunIds \ {r} : pc'[q] = pc[q]
          PROVE  Exclusive'
      BY <2>1, <3>2 DEF LabelInv, Exclusive, LoopFree
    <3>3. QED
      BY <1>2, <3>1, <3>2, LoopStep
  <2>3. ASSUME NEW r \in RunIds, Attach(r) PROVE FreshSidecar' /\ OwnLabelWithinProcess'
    <3>1. /\ sidecars' = [sidecars EXCEPT ![cur[r]] = r] /\ UNCHANGED <<cur, artifacts>>
          /\ pc[r] = "attach" /\ \E where : pc' = [pc EXCEPT ![r] = where]
      BY <2>3 DEF Attach, PutSidecar, Goto
    <3>2. FreshSidecar'
      <4>1. SUFFICES ASSUME NEW q \in RunIds, pc'[q] = "insert"
                     PROVE  sidecars'[cur[q]] = q \/ proc[sidecars'[cur[q]]] # proc[q]
        BY <2>1, <3>1 DEF FreshSidecar
      <4>2. cur[q] \in Paths /\ cur[r] \in Paths
        BY <1>0 DEF TypeOK
      <4>3. CASE cur[q] # cur[r]
        <5>1. q # r /\ pc[q] = "insert" /\ sidecars'[cur[q]] = sidecars[cur[q]]
          BY <1>0, <3>1, <4>1, <4>2, <4>3 DEF TypeOK, TablesTypeOK
        <5>2. QED
          BY <5>1 DEF LabelInv, FreshSidecar
      <4>4. CASE cur[q] = cur[r] /\ q # r
        <5>1. pc[q] = "insert" /\ sidecars'[cur[q]] = r
          BY <1>0, <3>1, <4>1, <4>2, <4>4 DEF TypeOK, TablesTypeOK
        <5>2. proc[q] # proc[r]
          BY <3>1, <4>4, <5>1 DEF LabelInv, Exclusive, Busy
        <5>3. QED
          BY <5>1, <5>2
      <4>5. CASE q = r
        BY <1>0, <3>1, <4>2, <4>5 DEF TablesTypeOK
      <4>6. QED
        BY <4>3, <4>4, <4>5
    <3>3. OwnLabelWithinProcess'
      BY <2>1, <3>1 DEF LabelInv, OwnLabelWithinProcess
    <3>4. QED
      BY <3>2, <3>3
  <2>4. ASSUME NEW r \in RunIds, Insert(r) PROVE FreshSidecar' /\ OwnLabelWithinProcess'
    <3>1. /\ UNCHANGED <<cur, sidecars>> /\ pc[r] = "insert"
          /\ artifacts' = artifacts \cup {[run |-> r, path |-> cur[r], about |-> sidecars[cur[r]]]}
          /\ \A q \in RunIds : pc'[q] = "insert" => pc[q] = "insert"
      BY <1>0, <2>4 DEF Insert, InsertArtifact, Goto, TypeOK
    <3>2. sidecars[cur[r]] = r \/ proc[sidecars[cur[r]]] # proc[r]
      BY <3>1 DEF LabelInv, FreshSidecar
    <3>3. QED
      BY <2>1, <3>1, <3>2 DEF LabelInv, FreshSidecar, OwnLabelWithinProcess
  <2>5. ASSUME UNCHANGED sidecars, artifacts' \subseteq artifacts,
               \A q \in RunIds : pc'[q] = "insert" => pc[q] = "insert" /\ cur'[q] = cur[q]
        PROVE  FreshSidecar' /\ OwnLabelWithinProcess'
    BY <2>1, <2>5 DEF LabelInv, FreshSidecar, OwnLabelWithinProcess
  <2>6. FreshSidecar' /\ OwnLabelWithinProcess'
    BY <1>2, <2>3, <2>4, <2>5, SidecarStep
  <2>7. QED
    BY <2>2, <2>6 DEF LabelInv
<1>3. QED
  BY <1>1, <1>2

\* Within one runner process an attached file is labelled with the run that
\* attached it.
THEOREM OwnLabels == Spec => []OwnLabelWithinProcess
<1>1. Spec => []LabelInv
  BY Typed, InitLabels, StepLabels, PTL DEF Spec
<1>2. LabelInv => OwnLabelWithinProcess
  BY DEF LabelInv
<1>3. QED
  BY <1>1, <1>2, PTL
=============================================================================
