---------------------------- MODULE RunTables_proofs ----------------------------
(***************************************************************************)
(* What each transaction on the shared tables preserves.  The proofs about *)
(* the library (Runstore_proofs) and about the runner (WorkflowRun_proofs) *)
(* rest on these facts.                                                    *)
(***************************************************************************)
EXTENDS RunTables, TLAPS

\* The empty store is well typed and holds no orphan.
LEMMA InitTables == TablesInit => TablesTypeOK /\ NoOrphanArtifacts
  BY DEF TablesInit, TablesTypeOK, NoOrphanArtifacts, NoRow, Row, Artifact

\* create_run's transaction.
LEMMA InsertRunStep ==
  ASSUME TablesTypeOK, NEW r \in RunIds, NEW s \in Status, InsertRun(r, s)
  PROVE  /\ TablesTypeOK'
         /\ NoOrphanArtifacts => NoOrphanArtifacts'
<1>1. TablesTypeOK'
  BY DEF TablesTypeOK, InsertRun, Row
<1>2. ASSUME NoOrphanArtifacts PROVE NoOrphanArtifacts'
  <2>1. \A q \in RunIds : Exists(q) => Exists(q)'
    BY DEF TablesTypeOK, InsertRun, Exists, Status, Terminal
  <2>2. QED
    BY <1>2, <2>1 DEF NoOrphanArtifacts, TablesTypeOK, InsertRun, Artifact
<1>3. QED
  BY <1>1, <1>2

\* update_run's transaction: the run's row stays, and so does its stamp.
LEMMA SetStatusStep ==
  ASSUME TablesTypeOK, NEW r \in RunIds, NEW s \in Status, SetStatus(r, s)
  PROVE  /\ TablesTypeOK'
         /\ NoOrphanArtifacts => NoOrphanArtifacts'
         /\ \A q \in RunIds : /\ Exists(q)' = Exists(q)
                              /\ runs'[q].deleted = runs[q].deleted
<1>1. TablesTypeOK'
  BY DEF TablesTypeOK, SetStatus, Row
<1>2. \A q \in RunIds : Exists(q)' = Exists(q) /\ runs'[q].deleted = runs[q].deleted
  BY DEF TablesTypeOK, SetStatus, Exists, Status, Terminal, Row
<1>3. NoOrphanArtifacts => NoOrphanArtifacts'
  BY <1>2 DEF NoOrphanArtifacts, TablesTypeOK, SetStatus, Artifact
<1>4. QED
  BY <1>1, <1>2, <1>3

\* delete_run(soft=True): every row and every artifact stays.
LEMMA StampDeletedStep ==
  ASSUME TablesTypeOK, NEW r \in RunIds, StampDeleted(r)
  PROVE  /\ TablesTypeOK'
         /\ NoOrphanArtifacts => NoOrphanArtifacts'
         /\ \A q \in RunIds : /\ runs'[q].status = runs[q].status
                              /\ runs[q].deleted => runs'[q].deleted
<1>1. TablesTypeOK'
  BY DEF TablesTypeOK, StampDeleted, Row
<1>2. \A q \in RunIds : /\ runs'[q].status = runs[q].status
                        /\ runs[q].deleted => runs'[q].deleted
  BY DEF TablesTypeOK, StampDeleted, Row
<1>3. NoOrphanArtifacts => NoOrphanArtifacts'
  BY <1>2 DEF NoOrphanArtifacts, TablesTypeOK, StampDeleted, Exists, Artifact
<1>4. QED
  BY <1>1, <1>2, <1>3

\* delete_run(soft=False): the cascade takes exactly the rows of the run.
LEMMA DropRowStep ==
  ASSUME TablesTypeOK, NEW r \in RunIds, DropRow(r)
  PROVE  /\ TablesTypeOK'
         /\ NoOrphanArtifacts => NoOrphanArtifacts'
         /\ ~Exists(r)'
         /\ \A q \in RunIds \ {r} : runs'[q] = runs[q]
         /\ \A a \in artifacts : a.run # r => a \in artifacts'
<1>1. TablesTypeOK'
  BY DEF TablesTypeOK, DropRow, Row, NoRow
<1>2. ~Exists(r)' /\ \A q \in RunIds \ {r} : runs'[q] = runs[q]
  BY DEF TablesTypeOK, DropRow, Exists, NoRow
<1>3. NoOrphanArtifacts => NoOrphanArtifacts'
  BY <1>2 DEF NoOrphanArtifacts, TablesTypeOK, DropRow, Exists, Artifact
<1>4. \A a \in artifacts : a.run # r => a \in artifacts'
  BY DEF DropRow
<1>5. QED
  BY <1>1, <1>2, <1>3, <1>4

\* attach_artifact's second transaction: PRAGMA foreign_keys is what keeps the
\* table of artifacts free of orphans.
LEMMA InsertArtifactStep ==
  ASSUME TablesTypeOK, NEW r \in RunIds, NEW p \in Paths, NEW m \in RunIds,
         ForeignKeyHolds(r), InsertArtifact(r, p, m)
  PROVE  /\ TablesTypeOK'
         /\ NoOrphanArtifacts => NoOrphanArtifacts'
<1>1. TablesTypeOK'
  BY DEF TablesTypeOK, InsertArtifact, Artifact
<1>2. NoOrphanArtifacts => NoOrphanArtifacts'
  BY DEF NoOrphanArtifacts, InsertArtifact, ForeignKeyHolds, Exists
<1>3. QED
  BY <1>1, <1>2

\* write_manifest touches no table.
LEMMA PutSidecarStep ==
  ASSUME TablesTypeOK, NEW p \in Paths, NEW m \in RunIds \cup {NoManifest, Torn},
         PutSidecar(p, m)
  PROVE  /\ TablesTypeOK'
         /\ NoOrphanArtifacts => NoOrphanArtifacts'
  BY DEF TablesTypeOK, PutSidecar, NoOrphanArtifacts, Exists

\* A step that leaves the tables alone.
LEMMA StutterTables ==
  ASSUME TablesTypeOK, UNCHANGED tables
  PROVE  /\ TablesTypeOK'
         /\ NoOrphanArtifacts => NoOrphanArtifacts'
  BY DEF TablesTypeOK, tables, NoOrphanArtifacts, Exists
=============================================================================
