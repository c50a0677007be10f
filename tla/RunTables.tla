------------------------------ MODULE RunTables ------------------------------
(***************************************************************************)
(* The shared storage of dist_stack.runstore: the SQLite tables `runs' and *)
(* `artifacts' and the manifest sidecars that lie next to the artifact     *)
(* files.  The module holds the state and the effect of each committed     *)
(* transaction; the modules that extend it decide who issues them, and in  *)
(* which order.                                                            *)
(*                                                                         *)
(* Every API call opens its own connection and commits one transaction     *)
(* (sqlite.py, _connect), so a transaction is one step.  A call made of    *)
(* several transactions or file operations is several steps.               *)
(*                                                                         *)
(* A row keeps its status and its soft-delete stamp.  An artifact row is   *)
(* the run it belongs to, the path it indexes and the run the copied       *)
(* manifest names as producer.  Two rows equal in all three are one.       *)
(***************************************************************************)
EXTENDS Naturals

CONSTANTS
  RunIds,       \* run identifiers
  Paths,        \* absolute paths of artifact files
  NoManifest,   \* "no sidecar at this path"
  Torn          \* a sidecar truncated by a write that has not finished

ASSUME TablesAssumption ==
  /\ {NoManifest, Torn} \cap RunIds = {}
  /\ NoManifest # Torn

VARIABLES
  runs,         \* table runs, by run_id
  artifacts,    \* table artifacts
  sidecars      \* path -> the run its manifest names, NoManifest or Torn

tables == <<runs, artifacts, sidecars>>

Terminal == {"succeeded", "failed", "cancelled"}
Status   == {"pending", "running"} \cup Terminal

Row      == [status : Status \cup {"absent"}, deleted : BOOLEAN]
NoRow    == [status |-> "absent", deleted |-> FALSE]
Artifact == [run : RunIds, path : Paths, about : RunIds]

\* `SELECT ... WHERE run_id = ?' finds a row; get_run also wants it undeleted.
Exists(r) == runs[r].status # "absent"
Live(r)   == Exists(r) /\ ~runs[r].deleted

HasManifest(p) == sidecars[p] # NoManifest

TablesTypeOK ==
  /\ runs \in [RunIds -> Row]
  /\ artifacts \subseteq Artifact
  /\ sidecars \in [Paths -> RunIds \cup {NoManifest, Torn}]

TablesInit ==
  /\ runs = [r \in RunIds |-> NoRow]
  /\ artifacts = {}
  /\ sidecars = [p \in Paths |-> NoManifest]

-----------------------------------------------------------------------------
\* INSERT INTO runs: not an upsert, the primary key must be free.
InsertRun(r, s) ==
  /\ ~Exists(r)
  /\ runs' = [runs EXCEPT ![r] = [status |-> s, deleted |-> FALSE]]
  /\ UNCHANGED <<artifacts, sidecars>>

\* Faulty variant of SetStatus: the update clears the stamp, like the upsert of
\* the model registry does.
RevivingSetStatus(r, s) ==
  /\ Exists(r)
  /\ runs' = [runs EXCEPT ![r] = [status |-> s, deleted |-> FALSE]]
  /\ UNCHANGED <<artifacts, sidecars>>

\* UPDATE runs SET status: matches a soft-deleted row too and keeps its stamp.
SetStatus(r, s) ==
  /\ Exists(r)
  /\ runs' = [runs EXCEPT ![r].status = s]
  /\ UNCHANGED <<artifacts, sidecars>>

\* Faulty variant of StampDeleted: the soft delete takes the artifacts along.
CascadingStamp(r) ==
  /\ Exists(r)
  /\ runs' = [runs EXCEPT ![r].deleted = TRUE]
  /\ artifacts' = {a \in artifacts : a.run # r}
  /\ UNCHANGED sidecars

\* delete_run(soft=True): stamp, and stamp again when already stamped.
StampDeleted(r) ==
  /\ Exists(r)
  /\ runs' = [runs EXCEPT ![r].deleted = TRUE]
  /\ UNCHANGED <<artifacts, sidecars>>

\* Faulty variant of DropRow: a connection without PRAGMA foreign_keys=ON.
DropRowOnly(r) ==
  /\ Exists(r)
  /\ runs' = [runs EXCEPT ![r] = NoRow]
  /\ UNCHANGED <<artifacts, sidecars>>

\* delete_run(soft=False): ON DELETE CASCADE takes the artifact rows along;
\* the files and their sidecars stay on disk.
DropRow(r) ==
  /\ Exists(r)
  /\ runs' = [runs EXCEPT ![r] = NoRow]
  /\ artifacts' = {a \in artifacts : a.run # r}
  /\ UNCHANGED sidecars

\* PRAGMA foreign_keys=ON: the insert fails unless the run's row is there,
\* soft-deleted or not.
ForeignKeyHolds(r) == Exists(r)

InsertArtifact(r, p, about) ==
  /\ artifacts' = artifacts \cup {[run |-> r, path |-> p, about |-> about]}
  /\ UNCHANGED <<runs, sidecars>>

PutSidecar(p, content) ==
  /\ sidecars' = [sidecars EXCEPT ![p] = content]
  /\ UNCHANGED <<runs, artifacts>>

-----------------------------------------------------------------------------
(* No artifact row outlives its run.  attach_artifact inserts the row one   *)
(* transaction after its get_run looked, and a hard delete may commit in    *)
(* between; so may the delete of a run that its runner is still finalizing. *)
NoOrphanArtifacts == \A a \in artifacts : Exists(a.run)
=============================================================================
