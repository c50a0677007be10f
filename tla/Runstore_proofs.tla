----------------------------- MODULE Runstore_proofs -----------------------------
(***************************************************************************)
(* Safety of the runstore library for any number of clients, runs and      *)
(* artifact paths.  IInv is inductive: what makes an artifact row agree    *)
(* with its sidecar is what the clients that are still inside              *)
(* attach_artifact know about it.                                          *)
(***************************************************************************)
EXTENDS Runstore, RunTables_proofs

\* A current client that has a manifest in memory has the one on disk, and before
\* a current writer the sidecar is empty.
SidecarsKnown ==
  \A c \in current :
    /\ pc[c] = "described" => sidecars[call[c].path] = call[c].about
    /\ pc[c] \in Writing => sidecars[call[c].path] = Torn

IInv ==
  /\ TypeOK
  /\ NoOrphanArtifacts
  /\ SidecarsKnown
  /\ IndexMatchesSidecar

-----------------------------------------------------------------------------
\* The two ways a call moves on keep the clients' records well typed.
ClientsOK ==
  /\ pc \in [Clients -> Points]
  /\ call \in [Clients -> Calls \cup {NoCall}]
  /\ reply \in [Clients -> Replies]
  /\ \A c \in Clients :
       /\ pc[c] # "idle" => call[c] \in Calls
       /\ pc[c] = "described" => call[c].about \in RunIds

LEMMA TypeParts ==
  TypeOK <=> TablesTypeOK /\ disk \subseteq Paths /\ current \subseteq Clients /\ stale \subseteq Artifact /\ ClientsOK
  BY DEF TypeOK, ClientsOK

LEMMA AnswerType ==
  ASSUME ClientsOK, NEW c \in Clients, NEW what \in Replies, Answer(c, what)
  PROVE  ClientsOK' /\ pc'[c] = "idle" /\ \A d \in Clients \ {c} : pc'[d] = pc[d] /\ call'[d] = call[d]
  BY DEF ClientsOK, Answer, Points

LEMMA GotoType ==
  ASSUME ClientsOK, NEW c \in Clients, NEW where \in Points \ {"idle"}, NEW args \in Calls,
         where = "described" => args.about \in RunIds,
         Goto(c, where, args)
  PROVE  /\ ClientsOK' /\ pc'[c] = where /\ call'[c] = args
         /\ \A d \in Clients \ {c} : pc'[d] = pc[d] /\ call'[d] = call[d]
  BY DEF ClientsOK, Goto

\* In attach_artifact the call's arguments are a run and a path.
LEMMA CallType ==
  ASSUME ClientsOK, NEW c \in Clients, pc[c] # "idle"
  PROVE  /\ call[c] \in Calls /\ call[c].run \in RunIds /\ call[c].path \in Paths
         /\ \A m \in RunIds : [call[c] EXCEPT !.about = m] = [run |-> call[c].run, path |-> call[c].path, about |-> m]
  BY DEF ClientsOK, Calls

\* A step that writes no sidecar, adds no artifact and brings no client to the
\* points at which it holds or writes a manifest.
LEMMA CalmStep ==
  ASSUME IInv, UNCHANGED sidecars, current' \subseteq current,
         artifacts' \ stale' \subseteq artifacts \ stale,
         \A c \in Clients : pc'[c] \in {"described"} \cup Writing =>
           pc'[c] = pc[c] /\ call'[c] = call[c]
  PROVE  SidecarsKnown' /\ IndexMatchesSidecar'
<1>1. SidecarsKnown'
  <2>1. current \subseteq Clients
    BY DEF IInv, TypeOK
  <2>2. QED
    BY <2>1 DEF IInv, SidecarsKnown, Writing
<1>2. IndexMatchesSidecar'
  BY DEF IInv, IndexMatchesSidecar
<1>3. QED
  BY <1>1, <1>2

\* A write of a sidecar, whoever makes it: the clients that stay current look
\* elsewhere, or are about to write the file that has just been emptied.
LEMMA RewriteStep ==
  ASSUME IInv, NEW p \in Paths, NEW content \in RunIds \cup {Torn}, Rewrite(p, content),
         \A d \in current' :
           \/ d \in current /\ call[d].path # p /\ pc'[d] = pc[d] /\ call'[d] = call[d] /\ pc[d] # "idle"
           \/ pc'[d] = "idle"
           \/ content = Torn /\ pc'[d] \in Writing /\ call'[d].path = p
           \/ pc'[d] = "described" /\ call'[d].path = p /\ call'[d].about = content
  PROVE  /\ TablesTypeOK' /\ NoOrphanArtifacts' /\ stale' \subseteq Artifact
         /\ SidecarsKnown' /\ IndexMatchesSidecar'
<1>0. ClientsOK /\ TablesTypeOK /\ current \subseteq Clients /\ stale \subseteq Artifact
  BY TypeParts DEF IInv
<1>1. PutSidecar(p, content) /\ stale' = stale \cup {a \in artifacts : a.path = p}
  BY DEF Rewrite
<1>2. TablesTypeOK' /\ NoOrphanArtifacts'
  BY <1>0, <1>1, PutSidecarStep DEF IInv
<1>3. stale' \subseteq Artifact
  BY <1>0, <1>1 DEF TablesTypeOK
<1>4. sidecars'[p] = content /\ artifacts' = artifacts /\ \A q \in Paths \ {p} : sidecars'[q] = sidecars[q]
  BY <1>0, <1>1 DEF TablesTypeOK, PutSidecar
<1>5. SidecarsKnown'
  <2>1. SUFFICES ASSUME NEW d \in current'
                 PROVE  /\ pc'[d] = "described" => sidecars'[call'[d].path] = call'[d].about
                        /\ pc'[d] \in Writing => sidecars'[call'[d].path] = Torn
    BY DEF SidecarsKnown
  <2>2. CASE d \in current /\ call[d].path # p /\ pc'[d] = pc[d] /\ call'[d] = call[d] /\ pc[d] # "idle"
    <3>1. call[d].path \in Paths
      BY <2>2, <1>0, CallType
    <3>2. QED
      BY <2>2, <3>1, <1>4 DEF IInv, SidecarsKnown
  <2>3. QED
    BY <2>2, <1>4 DEF Writing
<1>6. IndexMatchesSidecar'
  BY <1>0, <1>1, <1>4 DEF IndexMatchesSidecar, IInv, TablesTypeOK, Artifact
<1>7. QED
  BY <1>2, <1>3, <1>5, <1>6

-----------------------------------------------------------------------------
LEMMA InitInv == Init => IInv
<1> SUFFICES ASSUME Init PROVE IInv
  OBVIOUS
<1>1. TypeOK /\ NoOrphanArtifacts
  BY InitTables DEF Init, TypeOK, Points, Replies
<1>2. artifacts = {} /\ \A c \in Clients : pc[c] = "idle"
  BY DEF Init, TablesInit
<1>3. SidecarsKnown
  BY DEF Init, SidecarsKnown
<1>4. IndexMatchesSidecar
  BY <1>2 DEF IndexMatchesSidecar
<1>5. QED
  BY <1>1, <1>3, <1>4 DEF IInv

\* The one-transaction calls.
LEMMA CallStep ==
  ASSUME IInv, NEW c \in Clients, NEW r \in RunIds,
         \/ \E s \in CallStatuses : Create(c, r, s) \/ Update(c, r, s)
         \/ \E soft \in BOOLEAN : Delete(c, r, soft)
  PROVE  IInv'
<1>1. PICK what \in Replies : Answer(c, what)
  BY DEF Create, Update, Delete, Replies
<1>2. /\ ClientsOK' /\ pc'[c] = "idle"
      /\ \A d \in Clients \ {c} : pc'[d] = pc[d] /\ call'[d] = call[d]
  BY <1>1, AnswerType, TypeParts DEF IInv
<1>3. TablesTypeOK
  BY DEF IInv, TypeOK
<1>4. /\ TablesTypeOK' /\ (NoOrphanArtifacts => NoOrphanArtifacts')
      /\ UNCHANGED sidecars /\ artifacts' \subseteq artifacts
  <2>1. CASE \E s \in CallStatuses : InsertRun(r, s)
    BY <2>1, <1>3, InsertRunStep, ClientsAssumption DEF InsertRun
  <2>2. CASE \E s \in CallStatuses : SetStatus(r, s)
    BY <2>2, <1>3, SetStatusStep, ClientsAssumption DEF SetStatus
  <2>3. CASE StampDeleted(r)
    BY <2>3, <1>3, StampDeletedStep DEF StampDeleted
  <2>4. CASE DropRow(r)
    BY <2>4, <1>3, DropRowStep DEF DropRow
  <2>5. CASE UNCHANGED tables
    BY <2>5, <1>3, StutterTables DEF tables
  <2>6. QED
    BY <2>1, <2>2, <2>3, <2>4, <2>5 DEF Create, Update, Delete
<1>5. UNCHANGED <<disk, current>> /\ (stale' = stale \/ stale' = stale \cap artifacts')
  BY DEF Create, Update, Delete, history
<1>6. TypeOK' /\ NoOrphanArtifacts'
  BY <1>2, <1>4, <1>5 DEF IInv, TypeOK, ClientsOK
<1>7. SidecarsKnown' /\ IndexMatchesSidecar'
  <2>1. artifacts' \ stale' \subseteq artifacts \ stale
    BY <1>4, <1>5
  <2>2. QED
    BY <2>1, <1>2, <1>4, <1>5, CalmStep DEF Writing
<1>8. QED
  BY <1>6, <1>7 DEF IInv

\* The steps of attach_artifact that only look, a crash, and a tool's write.
LEMMA LookStep ==
  ASSUME IInv,
         \/ \E c \in Clients, r \in RunIds, p \in Paths : AttachFetch(c, r, p)
         \/ \E c \in Clients : AttachMissing(c) \/ Crash(c)
         \/ \E p \in Paths : ToolWrites(p)
  PROVE  IInv'
<1>1. UNCHANGED tables /\ UNCHANGED stale /\ current' \subseteq current
  BY DEF AttachFetch, AttachMissing, Crash, ToolWrites, history
<1>2. disk' \subseteq Paths
  BY DEF AttachFetch, AttachMissing, Crash, ToolWrites, IInv, TypeOK
<1>3. /\ ClientsOK'
      /\ \A d \in Clients : pc'[d] \in {"described"} \cup Writing =>
           pc'[d] = pc[d] /\ call'[d] = call[d]
  <2>0. ClientsOK
    BY TypeParts DEF IInv
  <2>1. ASSUME NEW c \in Clients, NEW what \in Replies, Answer(c, what) PROVE <1>3
    BY <2>0, <2>1, AnswerType DEF Writing
  <2>2. ASSUME NEW c \in Clients, NEW r \in RunIds, NEW p \in Paths,
               Goto(c, "fetched", [run |-> r, path |-> p, about |-> NoManifest])
        PROVE  <1>3
    <3>1. /\ ClientsOK' /\ pc'[c] = "fetched"
          /\ \A d \in Clients \ {c} : pc'[d] = pc[d] /\ call'[d] = call[d]
      BY <2>0, <2>2, GotoType DEF Points, Calls
    <3>2. QED
      BY <3>1 DEF Writing
  <2>3. ASSUME NEW c \in Clients, AttachMissing(c) PROVE <1>3
    <3>1. call[c] \in Calls /\ Goto(c, "nosidecar", call[c])
      BY <2>0, <2>3, CallType DEF AttachMissing
    <3>2. /\ ClientsOK' /\ pc'[c] = "nosidecar"
          /\ \A d \in Clients \ {c} : pc'[d] = pc[d] /\ call'[d] = call[d]
      BY <2>0, <3>1, GotoType DEF Points
    <3>3. QED
      BY <3>2 DEF Writing
  <2>4. ASSUME NEW p \in Paths, ToolWrites(p) PROVE <1>3
    BY <2>0, <2>4 DEF ToolWrites, ClientsOK
  <2>5. QED
    BY <2>1, <2>2, <2>3, <2>4 DEF AttachFetch, Crash, Replies
<1>4. TypeOK' /\ NoOrphanArtifacts'
  BY <1>1, <1>2, <1>3, StutterTables DEF IInv, TypeOK, ClientsOK
<1>5. SidecarsKnown' /\ IndexMatchesSidecar'
  BY <1>1, <1>3, CalmStep DEF tables
<1>6. QED
  BY <1>4, <1>5 DEF IInv

\* read_manifest: the client knows what the sidecar says.
LEMMA ReadStep ==
  ASSUME IInv, NEW c \in Clients, AttachRead(c)
  PROVE  IInv'
<1> DEFINE found == sidecars[call[c].path]
<1>0. ClientsOK /\ TablesTypeOK /\ current \subseteq Clients
  BY TypeParts DEF IInv
<1>1. UNCHANGED tables /\ UNCHANGED disk /\ UNCHANGED stale /\ pc[c] = "fetched"
  BY DEF AttachRead
<1>2. call[c] \in Calls /\ call[c].path \in Paths /\ found \in RunIds \cup {NoManifest, Torn}
  BY <1>0, <1>1, CallType DEF TablesTypeOK
<1>3. CASE found = Torn
  <2>1. Answer(c, "JSONDecodeError") /\ UNCHANGED current
    BY <1>3 DEF AttachRead
  <2>2. ClientsOK' /\ pc'[c] = "idle" /\ \A d \in Clients \ {c} : pc'[d] = pc[d] /\ call'[d] = call[d]
    BY <2>1, <1>0, AnswerType DEF Replies
  <2>3. TypeOK' /\ NoOrphanArtifacts'
    BY <1>1, <2>1, <2>2, StutterTables DEF IInv, TypeOK, ClientsOK
  <2>4. SidecarsKnown' /\ IndexMatchesSidecar'
    BY <1>1, <2>1, <2>2, CalmStep DEF tables, Writing
  <2>5. QED
    BY <2>3, <2>4 DEF IInv
<1>4. CASE found # Torn
  <2>1. found \in RunIds
    BY <1>2, <1>4 DEF AttachRead, HasManifest
  <2>2. /\ Goto(c, "described", [run |-> call[c].run, path |-> call[c].path, about |-> found])
        /\ current' = current \cup {c}
    BY <1>0, <1>1, <1>4, <2>1, CallType DEF AttachRead
  <2>3. /\ ClientsOK' /\ pc'[c] = "described"
        /\ call'[c] = [run |-> call[c].run, path |-> call[c].path, about |-> found]
        /\ \A d \in Clients \ {c} : pc'[d] = pc[d] /\ call'[d] = call[d]
    BY <1>0, <1>2, <2>1, <2>2, GotoType DEF Points, Calls
  <2>4. TypeOK' /\ NoOrphanArtifacts'
    BY <1>0, <1>1, <2>2, <2>3, StutterTables DEF IInv, TypeOK, ClientsOK
  <2>5. SidecarsKnown'
    BY <1>0, <1>1, <2>2, <2>3 DEF SidecarsKnown, IInv, tables, Writing
  <2>6. IndexMatchesSidecar'
    BY <1>1 DEF IndexMatchesSidecar, IInv, tables
  <2>7. QED
    BY <2>4, <2>5, <2>6 DEF IInv
<1>5. QED
  BY <1>3, <1>4

\* The truncation, in attach_artifact or in a write_manifest by itself.
LEMMA TruncateStep ==
  ASSUME IInv, NEW c \in Clients,
         AttachTruncate(c) \/ \E r \in RunIds, p \in Paths : ManifestTruncate(c, r, p)
  PROVE  IInv'
<1>0. ClientsOK /\ current \subseteq Clients
  BY TypeParts DEF IInv
<1>1. PICK p \in Paths, args \in Calls, where \in Writing :
        /\ args.path = p /\ Truncate(c, p) /\ Goto(c, where, args)
  <2>1. CASE AttachTruncate(c)
    BY <2>1, <1>0, CallType DEF AttachTruncate, Writing
  <2>2. CASE \E r \in RunIds, p \in Paths : ManifestTruncate(c, r, p)
    <3>1. PICK r \in RunIds, p \in Paths : ManifestTruncate(c, r, p)
      BY <2>2
    <3>2. [run |-> r, path |-> p, about |-> NoManifest] \in Calls
      BY DEF Calls
    <3>3. QED
      BY <3>1, <3>2 DEF ManifestTruncate, Writing
  <2>3. QED
    BY <2>1, <2>2
<1>2. /\ ClientsOK' /\ pc'[c] = where /\ call'[c] = args
      /\ \A d \in Clients \ {c} : pc'[d] = pc[d] /\ call'[d] = call[d]
  <2>1. where \in Points \ {"idle"} /\ where # "described"
    BY DEF Points, Writing
  <2>2. QED
    BY <1>0, <1>1, <2>1, GotoType
<1>3. /\ Rewrite(p, Torn)
      /\ current' = Elsewhere(p) \cup {d \in Clients : pc[d] \in Writing /\ call[d].path = p} \cup {c}
  BY <1>1 DEF Truncate
<1>4. current' \subseteq Clients /\ UNCHANGED disk
  BY <1>0, <1>3 DEF Elsewhere, AttachTruncate, ManifestTruncate
<1>5. /\ TablesTypeOK' /\ NoOrphanArtifacts' /\ stale' \subseteq Artifact
      /\ SidecarsKnown' /\ IndexMatchesSidecar'
  <2>1. ASSUME NEW d \in current'
        PROVE  \/ d \in current /\ call[d].path # p /\ pc'[d] = pc[d] /\ call'[d] = call[d] /\ pc[d] # "idle"
               \/ pc'[d] = "idle"
               \/ pc'[d] \in Writing /\ call'[d].path = p
    <3>1. CASE d = c
      BY <3>1, <1>1, <1>2
    <3>2. CASE d # c
      BY <3>2, <1>2, <1>3, <1>4 DEF Elsewhere
    <3>3. QED
      BY <3>1, <3>2
  <2>2. QED
    BY <2>1, <1>3, RewriteStep
<1>6. QED
  BY <1>2, <1>4, <1>5 DEF IInv, TypeOK, ClientsOK

\* The text follows, in attach_artifact: either the file was still empty, or the
\* client is not current any more.
LEMMA WriteStep ==
  ASSUME IInv, NEW c \in Clients, AttachWrite(c)
  PROVE  IInv'
<1> DEFINE p == call[c].path
           r == call[c].run
<1>0. ClientsOK /\ current \subseteq Clients
  BY TypeParts DEF IInv
<1>1. pc[c] = "truncated" /\ UNCHANGED disk
  BY DEF AttachWrite
<1>2. call[c] \in Calls /\ p \in Paths /\ r \in RunIds
  BY <1>0, <1>1, CallType
<1>3. PICK text \in RunIds \cup {Torn} :
        /\ text = r \/ text = Torn
        /\ Rewrite(p, text)
        /\ current' = Elsewhere(p) \cup IF text = Torn THEN {} ELSE {c}
  BY <1>2 DEF AttachWrite, Texts
<1>4. /\ ClientsOK' /\ pc'[c] = "described"
      /\ call'[c] = [run |-> r, path |-> p, about |-> r]
      /\ \A d \in Clients \ {c} : pc'[d] = pc[d] /\ call'[d] = call[d]
  <2>1. Goto(c, "described", [run |-> r, path |-> p, about |-> r])
    BY <1>0, <1>1, <1>2, CallType DEF AttachWrite
  <2>2. QED
    BY <1>0, <1>2, <2>1, GotoType DEF Points, Calls
<1>5. current' \subseteq Clients
  BY <1>0, <1>3 DEF Elsewhere
<1>6. /\ TablesTypeOK' /\ NoOrphanArtifacts' /\ stale' \subseteq Artifact
      /\ SidecarsKnown' /\ IndexMatchesSidecar'
  <2>1. ASSUME NEW d \in current'
        PROVE  \/ d \in current /\ call[d].path # p /\ pc'[d] = pc[d] /\ call'[d] = call[d] /\ pc[d] # "idle"
               \/ pc'[d] = "idle"
               \/ pc'[d] = "described" /\ call'[d].path = p /\ call'[d].about = text
    <3>1. CASE d = c
      BY <3>1, <1>3, <1>4 DEF Elsewhere
    <3>2. CASE d # c
      BY <3>2, <1>3, <1>4, <1>5 DEF Elsewhere
    <3>3. QED
      BY <3>1, <3>2
  <2>2. QED
    BY <2>1, <1>2, <1>3, RewriteStep
<1>7. QED
  BY <1>1, <1>4, <1>5, <1>6 DEF IInv, TypeOK, ClientsOK

\* The text follows, in a write_manifest by itself.
LEMMA ManifestStep ==
  ASSUME IInv, NEW c \in Clients, ManifestWrite(c)
  PROVE  IInv'
<1> DEFINE p == call[c].path
<1>0. ClientsOK /\ current \subseteq Clients
  BY TypeParts DEF IInv
<1>1. pc[c] = "rewriting" /\ UNCHANGED disk
  BY DEF ManifestWrite
<1>2. p \in Paths /\ call[c].run \in RunIds
  BY <1>0, <1>1, CallType
<1>3. PICK text \in RunIds \cup {Torn} : Rewrite(p, text)
  BY <1>2 DEF ManifestWrite, Texts
<1>4. current' = Elsewhere(p) /\ current' \subseteq Clients
  BY <1>0 DEF ManifestWrite, Elsewhere
<1>5. ClientsOK' /\ pc'[c] = "idle" /\ \A d \in Clients \ {c} : pc'[d] = pc[d] /\ call'[d] = call[d]
  BY <1>0, AnswerType DEF ManifestWrite, Replies
<1>6. /\ TablesTypeOK' /\ NoOrphanArtifacts' /\ stale' \subseteq Artifact
      /\ SidecarsKnown' /\ IndexMatchesSidecar'
  <2>1. ASSUME NEW d \in current'
        PROVE  \/ d \in current /\ call[d].path # p /\ pc'[d] = pc[d] /\ call'[d] = call[d] /\ pc[d] # "idle"
               \/ pc'[d] = "idle"
    BY <1>4, <1>5 DEF Elsewhere
  <2>2. QED
    BY <2>1, <1>2, <1>3, RewriteStep
<1>7. QED
  BY <1>1, <1>4, <1>5, <1>6 DEF IInv, TypeOK, ClientsOK

\* The second transaction.
LEMMA InsertStep ==
  ASSUME IInv, NEW c \in Clients, AttachInsert(c)
  PROVE  IInv'
<1> DEFINE row == [run |-> call[c].run, path |-> call[c].path, about |-> call[c].about]
<1>0. ClientsOK /\ TablesTypeOK /\ current \subseteq Clients /\ stale \subseteq Artifact
  BY TypeParts DEF IInv
<1>1. pc[c] = "described" /\ UNCHANGED <<runs, sidecars, disk>> /\ current' = current \ {c}
  BY DEF AttachInsert, InsertArtifact, tables
<1>2. call[c].path \in Paths /\ call[c].run \in RunIds /\ call[c].about \in RunIds
  BY <1>0, <1>1, CallType DEF ClientsOK
<1>3. PICK what \in Replies : Answer(c, what)
  BY DEF AttachInsert, Replies
<1>4. ClientsOK' /\ pc'[c] = "idle" /\ \A d \in Clients \ {c} : pc'[d] = pc[d] /\ call'[d] = call[d]
  BY <1>0, <1>3, AnswerType
<1>5. \/ /\ ForeignKeyHolds(call[c].run)
         /\ InsertArtifact(call[c].run, call[c].path, call[c].about)
         /\ stale' = IF c \in current THEN stale \ {row} ELSE stale \cup {row}
      \/ UNCHANGED <<tables, stale>>
  BY DEF AttachInsert
<1>6. TablesTypeOK' /\ NoOrphanArtifacts'
  BY <1>0, <1>2, <1>5, InsertArtifactStep, StutterTables DEF IInv
<1>7. TypeOK'
  <2>1. row \in Artifact
    BY <1>2 DEF Artifact
  <2>2. stale' \subseteq Artifact
    BY <1>0, <1>5, <2>1
  <2>3. QED
    BY <1>1, <1>4, <1>6, <2>2 DEF IInv, TypeOK, ClientsOK
<1>8. SidecarsKnown'
  BY <1>0, <1>1, <1>4 DEF IInv, SidecarsKnown
<1>9. IndexMatchesSidecar'
  <2>1. \A a \in artifacts' : a \in artifacts \/ a = row
    BY <1>5 DEF InsertArtifact, tables
  <2>2. c \in current => sidecars[row.path] = row.about
    BY <1>1 DEF IInv, SidecarsKnown
  <2>3. \A a \in artifacts' \ stale' : a \in artifacts \ stale \/ (a = row /\ c \in current)
    BY <2>1, <1>5 DEF tables
  <2>4. QED
    BY <2>2, <2>3, <1>1 DEF IInv, IndexMatchesSidecar
<1>10. QED
  BY <1>6, <1>7, <1>8, <1>9 DEF IInv

-----------------------------------------------------------------------------
LEMMA StepInv == IInv /\ [Next]_vars => IInv'
<1> SUFFICES ASSUME IInv, [Next]_vars PROVE IInv'
  OBVIOUS
<1>1. CASE UNCHANGED vars
  BY <1>1 DEF vars, IInv, TypeOK, TablesTypeOK, NoOrphanArtifacts, Exists, SidecarsKnown,
              IndexMatchesSidecar
<1>2. CASE Next
  BY <1>2, CallStep, LookStep, ReadStep, TruncateStep, WriteStep, ManifestStep, InsertStep DEF Next
<1>3. QED
  BY <1>1, <1>2

\* The invariant that carries the theorems below holds in every reachable state.
THEOREM Inductive == Spec => []IInv
<1>1. QED
  BY InitInv, StepInv, PTL DEF Spec

\* The tables, the sidecars and every client's call record keep their types,
\* whatever clients do to the store at once (runstore/api.py).
THEOREM TypeCorrect == Spec => []TypeOK
<1>1. IInv => TypeOK
  BY DEF IInv
<1>2. QED
  BY Inductive, <1>1, PTL

\* No artifact row outlives its run: the foreign key holds for the insert of
\* attach_artifact although its get_run looked a transaction earlier.
THEOREM NoOrphans == Spec => []NoOrphanArtifacts
<1>1. IInv => NoOrphanArtifacts
  BY DEF IInv
<1>2. QED
  BY Inductive, <1>1, PTL

\* An artifact row names the producer that its sidecar named when attach_artifact
\* read or wrote it, and agrees with the sidecar until that is written again, by
\* an attach or by write_manifest itself (runstore/api.py, manifest/api.py).
THEOREM IndexSound == Spec => []IndexMatchesSidecar
<1>1. IInv => IndexMatchesSidecar
  BY DEF IInv
<1>2. QED
  BY Inductive, <1>1, PTL

-----------------------------------------------------------------------------
\* What one step does to the tables.
LEMMA TablesStep ==
  ASSUME IInv, Next
  PROVE  \/ \E r \in RunIds, s \in Status : InsertRun(r, s) \/ SetStatus(r, s)
         \/ \E r \in RunIds : StampDeleted(r) \/ DropRow(r)
         \/ runs' = runs /\ artifacts \subseteq artifacts'
<1>1. CASE \E c \in Clients, r \in RunIds, s \in CallStatuses : Create(c, r, s) \/ Update(c, r, s)
  BY <1>1, ClientsAssumption DEF Create, Update, tables
<1>2. CASE \E c \in Clients, r \in RunIds, soft \in BOOLEAN : Delete(c, r, soft)
  BY <1>2 DEF Delete, tables
<1>3. CASE \E c \in Clients, r \in RunIds, p \in Paths : AttachFetch(c, r, p) \/ ManifestTruncate(c, r, p)
  BY <1>3 DEF AttachFetch, ManifestTruncate, Truncate, Rewrite, PutSidecar, tables
<1>4. CASE \E c \in Clients : AttachRead(c) \/ AttachMissing(c) \/ Crash(c)
  BY <1>4 DEF AttachRead, AttachMissing, Crash, tables
<1>5. CASE \E c \in Clients : AttachTruncate(c) \/ AttachWrite(c) \/ AttachInsert(c) \/ ManifestWrite(c)
  BY <1>5 DEF AttachTruncate, AttachWrite, AttachInsert, ManifestWrite, Truncate, Rewrite, PutSidecar,
              InsertArtifact, tables
<1>6. CASE \E p \in Paths : ToolWrites(p)
  BY <1>6 DEF ToolWrites, tables
<1>7. QED
  BY <1>1, <1>2, <1>3, <1>4, <1>5, <1>6 DEF Next

\* A soft delete is never undone while the row lasts: update_run leaves the stamp
\* alone, and create_run cannot take the id of a stamped row.
THEOREM StampSticks == Spec => DeletedStaysDeleted
<1> DEFINE Sticks == \A r \in RunIds : Exists(r) /\ runs[r].deleted => runs'[r].deleted \/ ~Exists(r)'
<1>1. ASSUME IInv, Next PROVE Sticks
  <2>0. TablesTypeOK
    BY <1>1 DEF IInv, TypeOK
  <2>1. ASSUME NEW q \in RunIds, NEW s \in Status, InsertRun(q, s) PROVE Sticks
    BY <2>0, <2>1 DEF InsertRun, TablesTypeOK
  <2>2. ASSUME NEW q \in RunIds, NEW s \in Status, SetStatus(q, s) PROVE Sticks
    BY <2>0, <2>2, SetStatusStep
  <2>3. ASSUME NEW q \in RunIds, StampDeleted(q) PROVE Sticks
    BY <2>0, <2>3, StampDeletedStep
  <2>4. ASSUME NEW q \in RunIds, DropRow(q) PROVE Sticks
    BY <2>0, <2>4, DropRowStep
  <2>5. ASSUME runs' = runs PROVE Sticks
    BY <2>5
  <2>6. QED
    BY <1>1, <2>1, <2>2, <2>3, <2>4, <2>5, TablesStep
<1>2. IInv /\ [Next]_vars => [Sticks]_vars
  BY <1>1
<1>3. QED
  BY Inductive, <1>2, PTL DEF Spec, DeletedStaysDeleted

\* An attached artifact goes only together with its run, by a hard delete.
THEOREM AttachedStays == Spec => ArtifactsDurable
<1> DEFINE Stays == \A a \in artifacts : a \in artifacts' \/ ~Exists(a.run)'
<1>1. ASSUME IInv, Next PROVE Stays
  <2>0. TablesTypeOK
    BY <1>1 DEF IInv, TypeOK
  <2>1. ASSUME NEW q \in RunIds, NEW s \in Status, InsertRun(q, s) \/ SetStatus(q, s) PROVE Stays
    BY <2>1 DEF InsertRun, SetStatus
  <2>2. ASSUME NEW q \in RunIds, StampDeleted(q) PROVE Stays
    BY <2>2 DEF StampDeleted
  <2>3. ASSUME NEW q \in RunIds, DropRow(q) PROVE Stays
    BY <2>0, <2>3, DropRowStep
  <2>4. ASSUME artifacts \subseteq artifacts' PROVE Stays
    BY <2>4
  <2>5. QED
    BY <1>1, <2>1, <2>2, <2>3, <2>4, TablesStep
<1>2. IInv /\ [Next]_vars => [Stays]_vars
  BY <1>1
<1>3. QED
  BY Inductive, <1>2, PTL DEF Spec, ArtifactsDurable
=============================================================================
