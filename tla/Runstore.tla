------------------------------- MODULE Runstore -------------------------------
(***************************************************************************)
(* dist_stack.runstore used by several processes at once.  create_run,     *)
(* update_run and delete_run are one transaction each.  attach_artifact is *)
(* not: it looks at the file, fetches the run in one transaction, reads or *)
(* writes the manifest sidecar with plain file operations and inserts the  *)
(* row in a second transaction, and other clients act in between.  Neither *)
(* is write_manifest, which anybody may call by itself: the runner does so *)
(* for every file a step reports, whether it has a sidecar or not.         *)
(***************************************************************************)
EXTENDS RunTables

CONSTANTS
  Clients,       \* processes that call the library
  CallStatuses   \* the statuses that callers pass to create_run, update_run

ASSUME ClientsAssumption == CallStatuses \subseteq Status

VARIABLES
  disk,    \* the artifact files that exist
  pc,      \* where a client is in attach_artifact or write_manifest
  call,    \* the call's arguments and the manifest it holds in memory
  reply,   \* how the client's last API call ended
  current, \* history: the clients for which the sidecar is as they left or read it
  stale    \* history: the rows whose sidecar has been written since it was read

history == <<current, stale>>
vars    == <<runs, artifacts, sidecars, disk, pc, call, reply, current, stale>>

Writing == {"truncated", "rewriting"}
Points  == {"idle", "fetched", "nosidecar", "described"} \cup Writing
Replies == {"none", "ok", "RunExistsError", "RunNotFoundError",
            "ArtifactPathNotFoundError", "IntegrityError", "JSONDecodeError"}

NoCall == [run |-> NoManifest, path |-> NoManifest, about |-> NoManifest]
Calls  == [run : RunIds, path : Paths, about : RunIds \cup {NoManifest}]

TypeOK ==
  /\ TablesTypeOK
  /\ disk \subseteq Paths
  /\ current \subseteq Clients
  /\ stale \subseteq Artifact
  /\ pc \in [Clients -> Points]
  /\ call \in [Clients -> Calls \cup {NoCall}]
  /\ reply \in [Clients -> Replies]
  /\ \A c \in Clients :
       /\ pc[c] # "idle" => call[c] \in Calls
       /\ pc[c] = "described" => call[c].about \in RunIds

Init ==
  /\ TablesInit
  /\ disk = {}
  /\ current = {}
  /\ stale = {}
  /\ pc = [c \in Clients |-> "idle"]
  /\ call = [c \in Clients |-> NoCall]
  /\ reply = [c \in Clients |-> "none"]

Answer(c, what) ==
  /\ pc' = [pc EXCEPT ![c] = "idle"]
  /\ call' = [call EXCEPT ![c] = NoCall]
  /\ reply' = [reply EXCEPT ![c] = what]

Goto(c, where, args) ==
  /\ pc' = [pc EXCEPT ![c] = where]
  /\ call' = [call EXCEPT ![c] = args]
  /\ UNCHANGED reply

-----------------------------------------------------------------------------
Create(c, r, s) ==
  /\ pc[c] = "idle"
  /\ \/ InsertRun(r, s) /\ Answer(c, "ok")
     \/ Exists(r) /\ UNCHANGED tables /\ Answer(c, "RunExistsError")
  /\ UNCHANGED <<disk, history>>

Update(c, r, s) ==
  /\ pc[c] = "idle"
  /\ \/ SetStatus(r, s) /\ Answer(c, "ok")
     \/ ~Exists(r) /\ UNCHANGED tables /\ Answer(c, "RunNotFoundError")
  /\ UNCHANGED <<disk, history>>

Delete(c, r, soft) ==
  /\ pc[c] = "idle"
  /\ \/ (IF soft THEN StampDeleted(r) ELSE DropRow(r)) /\ Answer(c, "ok")
     \/ ~Exists(r) /\ UNCHANGED tables /\ Answer(c, "RunNotFoundError")
  /\ stale' = stale \cap artifacts'
  /\ UNCHANGED <<disk, current>>

-----------------------------------------------------------------------------
\* What the history keeps of a sidecar's writes.
Rewrite(p, content) ==
  /\ PutSidecar(p, content)
  /\ stale' = stale \cup {a \in artifacts : a.path = p}

Elsewhere(p) == {c \in current : call[c].path # p}

\* Path.write_text opens with mode "w", which truncates: the file is empty for
\* everybody who is about to write it.
Truncate(c, p) ==
  /\ Rewrite(p, Torn)
  /\ current' = Elsewhere(p) \cup {d \in Clients : pc[d] \in Writing /\ call[d].path = p} \cup {c}

\* The text that follows begins at the start of the file: where somebody else has
\* written his meanwhile, the end of a longer one stays behind it.
Texts(c) == {call[c].run} \cup IF c \in current THEN {} ELSE {Torn}

\* write_manifest called by itself, with a manifest that names r: the artifact
\* need not exist, nor the run.
ManifestTruncate(c, r, p) ==
  /\ pc[c] = "idle"
  /\ Truncate(c, p)
  /\ Goto(c, "rewriting", [run |-> r, path |-> p, about |-> NoManifest])
  /\ UNCHANGED disk

ManifestWrite(c) ==
  /\ pc[c] = "rewriting"
  /\ \E text \in Texts(c) : Rewrite(call[c].path, text)
  /\ Answer(c, "ok")
  /\ current' = Elsewhere(call[c].path)
  /\ UNCHANGED disk

-----------------------------------------------------------------------------
\* attach_artifact up to and including its get_run.
AttachFetch(c, r, p) ==
  /\ pc[c] = "idle"
  /\ \/ p \notin disk /\ Answer(c, "ArtifactPathNotFoundError")
     \/ p \in disk /\ ~Live(r) /\ Answer(c, "RunNotFoundError")
     \/ /\ p \in disk /\ Live(r)
        /\ Goto(c, "fetched", [run |-> r, path |-> p, about |-> NoManifest])
  /\ UNCHANGED <<tables, disk, history>>

\* Faulty variant of AttachRead: the row takes the run's own fields although a
\* sidecar says otherwise.
AttachIgnoreSidecar(c) ==
  /\ pc[c] = "fetched"
  /\ HasManifest(call[c].path)
  /\ Goto(c, "described", [call[c] EXCEPT !.about = call[c].run])
  /\ current' = current \cup {c}
  /\ UNCHANGED <<tables, disk, stale>>

\* A sidecar is there: read_manifest, which cannot parse a torn one.
AttachRead(c) ==
  LET found == sidecars[call[c].path] IN
  /\ pc[c] = "fetched"
  /\ HasManifest(call[c].path)
  /\ \/ found = Torn /\ Answer(c, "JSONDecodeError") /\ UNCHANGED current
     \/ /\ found # Torn
        /\ Goto(c, "described", [call[c] EXCEPT !.about = found])
        /\ current' = current \cup {c}
  /\ UNCHANGED <<tables, disk, stale>>

\* has_manifest was false: write_manifest will follow, whatever others do now.
AttachMissing(c) ==
  /\ pc[c] = "fetched"
  /\ ~HasManifest(call[c].path)
  /\ Goto(c, "nosidecar", call[c])
  /\ UNCHANGED <<tables, disk, history>>

AttachTruncate(c) ==
  /\ pc[c] = "nosidecar"
  /\ Truncate(c, call[c].path)
  /\ Goto(c, "truncated", call[c])
  /\ UNCHANGED disk

\* attach_artifact goes on with the manifest that write_manifest has in memory.
AttachWrite(c) ==
  /\ pc[c] = "truncated"
  /\ \E text \in Texts(c) :
       /\ Rewrite(call[c].path, text)
       /\ current' = Elsewhere(call[c].path) \cup IF text = Torn THEN {} ELSE {c}
  /\ Goto(c, "described", [call[c] EXCEPT !.about = call[c].run])
  /\ UNCHANGED disk

AttachInsert(c) ==
  LET row == [run |-> call[c].run, path |-> call[c].path, about |-> call[c].about] IN
  /\ pc[c] = "described"
  /\ \/ /\ ForeignKeyHolds(call[c].run)
        /\ InsertArtifact(call[c].run, call[c].path, call[c].about)
        /\ stale' = IF c \in current THEN stale \ {row} ELSE stale \cup {row}
        /\ Answer(c, "ok")
     \/ /\ ~ForeignKeyHolds(call[c].run)
        /\ UNCHANGED <<tables, stale>>
        /\ Answer(c, "IntegrityError")
  /\ current' = current \ {c}
  /\ UNCHANGED disk

\* The process dies inside a call of several steps: what it wrote stays.
Crash(c) ==
  /\ pc[c] # "idle"
  /\ Answer(c, "none")
  /\ current' = current \ {c}
  /\ UNCHANGED <<tables, disk, stale>>

\* A tool leaves an artifact file behind.
ToolWrites(p) ==
  /\ p \notin disk
  /\ disk' = disk \cup {p}
  /\ UNCHANGED <<tables, pc, call, reply, history>>

Next ==
  \/ \E c \in Clients, r \in RunIds, s \in CallStatuses :
       Create(c, r, s) \/ Update(c, r, s)
  \/ \E c \in Clients, r \in RunIds, soft \in BOOLEAN : Delete(c, r, soft)
  \/ \E c \in Clients, r \in RunIds, p \in Paths : AttachFetch(c, r, p) \/ ManifestTruncate(c, r, p)
  \/ \E c \in Clients :
       \/ AttachRead(c) \/ AttachMissing(c) \/ AttachTruncate(c)
       \/ AttachWrite(c) \/ AttachInsert(c) \/ ManifestWrite(c) \/ Crash(c)
  \/ \E p \in Paths : ToolWrites(p)

Spec == Init /\ [][Next]_vars

-----------------------------------------------------------------------------
(* An artifact row is an index of the sidecar: it names the producer that   *)
(* the sidecar named when attach_artifact read or wrote it, although the    *)
(* row is inserted later, and agrees with the sidecar until somebody writes *)
(* that again.  A run that reports the file of an earlier run does write it *)
(* again, and the earlier run's row is then never brought up to date.       *)
IndexMatchesSidecar ==
  \A a \in artifacts \ stale : sidecars[a.path] = a.about

(* What "index of the sidecar" (runstore/api.py:443) says without the       *)
(* exception.  It fails as soon as a second run reports the file.           *)
IndexUpToDate ==
  \A a \in artifacts : sidecars[a.path] = a.about

(* A soft delete is never undone while the row lasts, although update_run   *)
(* keeps working on soft-deleted rows.                                      *)
DeletedStaysDeleted ==
  [][\A r \in RunIds : Exists(r) /\ runs[r].deleted => runs'[r].deleted \/ ~Exists(r)']_vars

(* An attached artifact stays attached: its row goes only together with its *)
(* run, by a hard delete.                                                   *)
ArtifactsDurable ==
  [][\A a \in artifacts : a \in artifacts' \/ ~Exists(a.run)']_vars
=============================================================================
