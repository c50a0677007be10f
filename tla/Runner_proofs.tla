----------------------------- MODULE Runner_proofs -----------------------------
(***************************************************************************)
(* Safety of two parts of the workflow runner that share no state: its     *)
(* server pool, for any number of requests and servers, and its templates, *)
(* for any number of runners, ids and documents.                           *)
(***************************************************************************)
EXTENDS ServerPool, Templates, TLAPS

(***************************************************************************)
(* The server pool.  A handle, once registered, stays registered: that is  *)
(* why no second subprocess is spawned.  An owner task that is over has    *)
(* reaped its subprocess, and none begins after the group has exited: that *)
(* is why none is left over.                                               *)
(***************************************************************************)
SpawnedOnce == \A s \in Servers : spawned[s] = IF s \in handles THEN 1 ELSE 0
OverIsReaped == \A s \in Servers : owner[s] \in Over => alive[s] = 0
ExitedIsOver == phase = "exited" => \A s \in Servers : owner[s] \in Over

PoolInv == TypeOK /\ SpawnedOnce /\ OverIsReaped /\ ExitedIsOver

-----------------------------------------------------------------------------
\* What an answer, and the rest of connect(), do to the requests.
LEMMA AnswerType ==
  ASSUME TypeOK, NEW c \in Callers, NEW what \in Replies, Answer(c, what)
  PROVE  pc' \in [Callers -> {"idle", "waiting", "calling"}] /\ reply' \in [Callers -> Replies]
  BY DEF TypeOK, Answer

LEMMA UseType ==
  ASSUME TypeOK, NEW c \in Callers, NEW s, Use(c, s)
  PROVE  pc' \in [Callers -> {"idle", "waiting", "calling"}] /\ reply' \in [Callers -> Replies]
<1>1. CASE Answer(c, "ServerConnectError") \/ Answer(c, "AssertionError")
  BY <1>1, AnswerType DEF Replies
<1>2. CASE pc' = [pc EXCEPT ![c] = "calling"] /\ UNCHANGED reply
  BY <1>2 DEF TypeOK
<1>3. QED
  BY <1>1, <1>2 DEF Use

\* A step that concerns requests only.
LEMMA RequestSide ==
  ASSUME PoolInv, UNCHANGED <<pool, phase, pending>>,
         req' \in [Callers -> (Servers \X Methods) \cup {NoRequest}],
         pc' \in [Callers -> {"idle", "waiting", "calling"}],
         reply' \in [Callers -> Replies]
  PROVE  PoolInv'
  BY DEF PoolInv, TypeOK, pool, SpawnedOnce, OverIsReaped, ExitedIsOver

LEMMA SpawnStep ==
  ASSUME PoolInv, NEW c \in Callers, NEW s \in Configured \ handles, Spawn(c, s),
         phase = "serving", UNCHANGED <<phase, pending>>,
         req' \in [Callers -> (Servers \X Methods) \cup {NoRequest}]
  PROVE  PoolInv'
<1> USE PoolAssumption DEF Spawn
<1>1. s \in Servers
  OBVIOUS
<1>2. TypeOK'
  <2>1. handles' \subseteq Configured /\ owner' \in [Servers -> OwnerSt]
    BY <1>1 DEF PoolInv, TypeOK, OwnerSt
  <2>2. spawned' \in [Servers -> Nat] /\ alive' \in [Servers -> Nat]
    BY <1>1 DEF PoolInv, TypeOK
  <2>3. pc' \in [Callers -> {"idle", "waiting", "calling"}]
    BY DEF PoolInv, TypeOK
  <2>4. QED
    BY <2>1, <2>2, <2>3 DEF PoolInv, TypeOK
<1>3. SpawnedOnce'
  BY <1>1 DEF PoolInv, TypeOK, SpawnedOnce
<1>4. OverIsReaped'
  BY <1>1 DEF PoolInv, TypeOK, OverIsReaped, Over
<1>5. QED
  BY <1>2, <1>3, <1>4 DEF PoolInv, ExitedIsOver

LEMMA RequestStep ==
  ASSUME PoolInv, NEW c \in Callers, NEW s \in Servers, NEW m \in Methods, Request(c, s, m)
  PROVE  PoolInv'
<1>1. req' \in [Callers -> (Servers \X Methods) \cup {NoRequest}]
  BY DEF PoolInv, TypeOK, Request
<1>2. CASE Use(c, s) /\ UNCHANGED pool
  BY <1>1, <1>2, UseType, RequestSide DEF PoolInv, Request
<1>3. CASE Answer(c, "UnknownServerError") /\ UNCHANGED pool
  <2>1. "UnknownServerError" \in Replies
    BY DEF Replies
  <2>2. QED
    BY <1>1, <1>3, <2>1, AnswerType, RequestSide DEF PoolInv, Request
<1>4. CASE s \in Configured \ handles /\ Spawn(c, s)
  BY <1>1, <1>4, SpawnStep DEF Request
<1>5. QED
  BY <1>2, <1>3, <1>4 DEF Request

LEMMA CallerStep ==
  ASSUME PoolInv, NEW c \in Callers,
         Wake(c) \/ Respond(c) \/ TimesOut(c) \/ TransportFails(c) \/ Cancelled(c)
  PROVE  PoolInv'
<1>1. UNCHANGED <<pool, req, phase, pending>>
  BY DEF Wake, Respond, TimesOut, TransportFails, Cancelled
<1>2. req' \in [Callers -> (Servers \X Methods) \cup {NoRequest}]
  BY <1>1 DEF PoolInv, TypeOK
<1>3. CASE Wake(c)
  BY <1>1, <1>2, <1>3, UseType, RequestSide DEF PoolInv, Wake
<1>4. CASE Respond(c) \/ TimesOut(c) \/ TransportFails(c) \/ Cancelled(c)
  <2>1. PICK what \in Replies : Answer(c, what)
    BY <1>4 DEF Respond, TimesOut, TransportFails, Cancelled, Replies
  <2>2. QED
    BY <1>1, <1>2, <2>1, AnswerType, RequestSide DEF PoolInv
<1>5. QED
  BY <1>3, <1>4

LEMMA OwnerTaskStep ==
  ASSUME PoolInv, NEW s \in Servers, OwnerStep(s) \/ SubprocessDies(s)
  PROVE  PoolInv'
<1>1. UNCHANGED <<handles, stopped, spawned, pc, req, reply, phase, pending>>
  BY DEF OwnerStep, Connected, ConnectFails, BeginClose, EndClose, SubprocessDies
<1>2. ready' \in SUBSET Servers
  BY DEF PoolInv, TypeOK, OwnerStep, Connected, ConnectFails, BeginClose, EndClose, SubprocessDies
<1>3. owner[s] \notin Over
  BY DEF OwnerStep, Connected, ConnectFails, BeginClose, EndClose, SubprocessDies, Over
<1>4. PICK o \in OwnerSt, n \in Nat :
        /\ owner' = [owner EXCEPT ![s] = o] /\ alive' = [alive EXCEPT ![s] = n]
        /\ o \in Over => n = 0
  <2>1. CASE Connected(s)
    <3>1. alive' = [alive EXCEPT ![s] = alive[s]] /\ alive[s] \in Nat
      BY <2>1 DEF PoolInv, TypeOK, Connected
    <3>2. QED
      BY <2>1, <3>1 DEF Connected, OwnerSt, Over
  <2>2. CASE BeginClose(s)
    <3>1. alive' = [alive EXCEPT ![s] = alive[s]] /\ alive[s] \in Nat
      BY <2>2 DEF PoolInv, TypeOK, BeginClose
    <3>2. QED
      BY <2>2, <3>1 DEF BeginClose, OwnerSt, Over
  <2>3. CASE SubprocessDies(s)
    <3>1. owner' = [owner EXCEPT ![s] = owner[s]] /\ owner[s] \in OwnerSt
      BY <2>3 DEF PoolInv, TypeOK, SubprocessDies
    <3>2. QED
      BY <2>3, <3>1 DEF SubprocessDies
  <2>4. CASE ConnectFails(s) \/ EndClose(s)
    BY <2>4 DEF ConnectFails, EndClose, OwnerSt
  <2>5. QED
    BY <2>1, <2>2, <2>3, <2>4 DEF OwnerStep
<1>5. TypeOK'
  BY <1>1, <1>2, <1>4 DEF PoolInv, TypeOK
<1>6. SpawnedOnce' /\ OverIsReaped' /\ ExitedIsOver'
  BY <1>1, <1>3, <1>4 DEF PoolInv, TypeOK, SpawnedOnce, OverIsReaped, ExitedIsOver
<1>7. QED
  BY <1>5, <1>6 DEF PoolInv

LEMMA LifespanStep ==
  ASSUME PoolInv, CloseAll \/ Lifespan
  PROVE  PoolInv'
<1>1. /\ UNCHANGED <<handles, owner, ready, spawned, alive, pc, req, reply>>
      /\ stopped' \in SUBSET Servers /\ pending' \in SUBSET Servers
  BY PoolAssumption DEF PoolInv, TypeOK, CloseAll, Lifespan, CloseWait, CloseDone, GroupExit, pool
<1>2. phase' \in {"serving", "closing", "closed", "exited"}
  BY DEF PoolInv, TypeOK, CloseAll, Lifespan, CloseWait, CloseDone, GroupExit
<1>3. phase' = "exited" => \A s \in Servers : owner[s] \in Over
  BY DEF PoolInv, ExitedIsOver, CloseAll, Lifespan, CloseWait, CloseDone, GroupExit
<1>4. QED
  BY <1>1, <1>2, <1>3 DEF PoolInv, TypeOK, SpawnedOnce, OverIsReaped, ExitedIsOver

-----------------------------------------------------------------------------
LEMMA PoolInitInv == Init => PoolInv
  BY DEF Init, PoolInv, TypeOK, OwnerSt, Replies, SpawnedOnce, OverIsReaped, ExitedIsOver

LEMMA PoolNextInv == PoolInv /\ [Next]_vars => PoolInv'
<1> SUFFICES ASSUME PoolInv, [Next]_vars PROVE PoolInv'
  OBVIOUS
<1>1. CASE \E c \in Callers, s \in Servers, m \in Methods : Request(c, s, m)
  BY <1>1, RequestStep
<1>2. CASE \E c \in Callers :
             Wake(c) \/ Respond(c) \/ TimesOut(c) \/ TransportFails(c) \/ Cancelled(c)
  BY <1>2, CallerStep
<1>3. CASE \E s \in Servers : OwnerStep(s) \/ SubprocessDies(s)
  BY <1>3, OwnerTaskStep
<1>4. CASE CloseAll \/ Lifespan
  BY <1>4, LifespanStep
<1>5. CASE UNCHANGED vars
  BY <1>5 DEF vars, pool, PoolInv, TypeOK, SpawnedOnce, OverIsReaped, ExitedIsOver
<1>6. QED
  BY <1>1, <1>2, <1>3, <1>4, <1>5 DEF Next

\* The inductive invariant of the pool: what is registered has been spawned once,
\* what is over has been reaped, and after the exit of the group all is over.
THEOREM PoolInductive == Spec => []PoolInv
  BY PoolInitInv, PoolNextInv, PTL DEF Spec

\* Handles, owner tasks, subprocesses and requests of client.py keep their types.
THEOREM PoolTypeCorrect == Spec => []TypeOK
<1>1. PoolInv => TypeOK
  BY DEF PoolInv
<1>2. QED
  BY <1>1, PoolInductive, PTL

\* ServerPool.connect never spawns a second subprocess for a server.
THEOREM SpawnsOnce == Spec => []OneSubprocessPerServer
<1>1. PoolInv => OneSubprocessPerServer
  BY DEF PoolInv, SpawnedOnce, OneSubprocessPerServer
<1>2. QED
  BY <1>1, PoolInductive, PTL

\* When the lifespan has left the task group, every subprocess has been reaped.
THEOREM NoneLeft == Spec => []NoOrphanSubprocess
<1>1. PoolInv => NoOrphanSubprocess
  BY DEF PoolInv, OverIsReaped, ExitedIsOver, NoOrphanSubprocess
<1>2. QED
  BY <1>1, PoolInductive, PTL

-----------------------------------------------------------------------------
(***************************************************************************)
(* The templates.  A creation that is alone with its id finds the file as  *)
(* it has left it, and nothing is confirmed for an id while a creation of  *)
(* it is under way.                                                        *)
(***************************************************************************)
Blocks == Documents \cup {Hole}

Mine(r) == writes[r].id

\* A creation under way: what it writes is valid, and its file is open if it writes.
Underway ==
  \A r \in Runners : stage[r] # "idle" =>
    /\ Valid(writes[r])
    /\ stage[r] = "writing" => done[r] <= writes[r].size /\ file[Mine(r)] \in Seq(Blocks)

\* Alone: no other creation of the id is under way, nothing is confirmed, and the file
\* holds what has been written so far.
Alone ==
  \A r \in Runners : stage[r] # "idle" /\ Mine(r) \notin contended =>
    /\ \A q \in Runners \ {r} : stage[q] # "idle" => Mine(q) # Mine(r)
    /\ acked[Mine(r)] = {}
    /\ stage[r] = "writing" => file[Mine(r)] = [k \in 1..done[r] |-> writes[r]]

Explained ==
  \A id \in Ids : Exists(id) =>
    \/ \E d \in Documents : file[id] = Text(d)
    \/ Busy(id) # {} \/ id \in broken \cup contended

TemplatesInv == TemplatesTypeOK /\ Underway /\ Alone /\ Explained /\ CreatedTemplateStands

-----------------------------------------------------------------------------
LEMMA TextType ==
  ASSUME NEW d \in Documents
  PROVE  /\ Text(d) \in Seq(Blocks) /\ Text(d) # NoFile
         /\ d.id \in Ids /\ d.size \in Nat \ {0}
<1>1. IsDocument(d) /\ Text(d) # NoFile
  BY TemplatesAssumption
<1>2. d.id \in Ids /\ d.size \in Nat \ {0}
  BY <1>1 DEF IsDocument
<1>3. QED
  BY <1>1, <1>2 DEF Text, Blocks

LEMMA TemplatesInitInv == TemplatesInit => TemplatesInv
<1> SUFFICES ASSUME TemplatesInit PROVE TemplatesInv
  OBVIOUS
<1>1. file \in [Ids -> Seq(Blocks) \cup {NoFile}]
  <2>1. \A d \in Documents : Text(d) \in Seq(Blocks)
    BY TextType
  <2>2. QED
    BY <2>1 DEF TemplatesInit
<1>2. TemplatesTypeOK
  BY <1>1 DEF TemplatesInit, TemplatesTypeOK, Blocks
<1>3. Explained
  BY DEF TemplatesInit, Explained, Exists
<1>4. QED
  BY <1>2, <1>3 DEF TemplatesInit, TemplatesInv, Underway, Alone, CreatedTemplateStands

\* What every creation knows of its own document.
LEMMA BusyType ==
  ASSUME TemplatesTypeOK, NEW r \in Runners, stage[r] # "idle"
  PROVE  writes[r] \in Documents /\ Mine(r) \in Ids /\ writes[r].size \in Nat \ {0}
  BY TextType DEF TemplatesTypeOK, Mine

LEMMA CreateStep ==
  ASSUME TemplatesInv, NEW r \in Runners, NEW d \in Documents, NEW overwrite \in BOOLEAN,
         Create(r, d, overwrite)
  PROVE  TemplatesInv'
<1> USE DEF TemplatesInv
<1>1. d.id \in Ids
  BY TextType
<1>2. TemplatesTypeOK'
  BY <1>1 DEF Create, TemplatesTypeOK, Blocks
<1>3. /\ stage' = [stage EXCEPT ![r] = "tested"] /\ writes' = [writes EXCEPT ![r] = d]
      /\ UNCHANGED <<file, done, broken>> /\ stage[r] = "idle" /\ Valid(d)
      /\ stage'[r] = "tested" /\ writes'[r] = d
      /\ \A q \in Runners \ {r} : stage'[q] = stage[q] /\ writes'[q] = writes[q]
  BY DEF Create, TemplatesTypeOK
<1>4. Underway'
  BY <1>3 DEF Underway, Mine
<1>5. contended \subseteq contended' /\ \A id \in Ids : acked'[id] \subseteq acked[id]
  BY <1>1 DEF Create, TemplatesTypeOK
<1>6. d.id \notin contended' =>
        /\ acked'[d.id] = {}
        /\ \A q \in Runners : stage[q] # "idle" => Mine(q) # d.id
  <2> SUFFICES ASSUME d.id \notin contended'
               PROVE  /\ acked'[d.id] = {}
                      /\ \A q \in Runners : stage[q] # "idle" => Mine(q) # d.id
    OBVIOUS
  <2>1. \A q \in Runners : stage[q] # "idle" => Mine(q) # d.id
    BY DEF Create, Busy, Mine
  <2>2. CASE overwrite
    BY <1>1, <2>1, <2>2 DEF Create, TemplatesTypeOK
  <2>3. CASE ~overwrite
    <3>1. file[d.id] = NoFile /\ acked' = acked
      BY <2>3 DEF Create, Free, Exists
    <3>2. \A e \in acked[d.id] : e \in Documents /\ file[d.id] = Text(e)
      BY <1>1, <1>5 DEF CreatedTemplateStands, Loads
    <3>3. QED
      BY <2>1, <3>1, <3>2, TextType
  <2>4. QED
    BY <2>1, <2>2, <2>3
<1>7. Alone'
  <2> SUFFICES ASSUME NEW q \in Runners, stage'[q] # "idle", writes'[q].id \notin contended'
               PROVE  /\ \A p \in Runners \ {q} :
                           stage'[p] # "idle" => writes'[p].id # writes'[q].id
                      /\ acked'[writes'[q].id] = {}
                      /\ stage'[q] = "writing" =>
                           file'[writes'[q].id] = [k \in 1..done'[q] |-> writes'[q]]
    BY DEF Alone, Mine
  <2>1. CASE q = r
    BY <1>3, <1>6, <2>1 DEF Mine
  <2>2. CASE q # r
    <3>1. stage'[q] = stage[q] /\ writes'[q] = writes[q] /\ Mine(q) \in Ids
      BY <1>3, <2>2, BusyType
    <3>2. Mine(q) \notin contended
      BY <1>5, <3>1 DEF Mine
    <3>3. /\ \A p \in Runners \ {q} : stage[p] # "idle" => writes[p].id # writes[q].id
          /\ acked[writes[q].id] = {}
          /\ stage[q] = "writing" => file[writes[q].id] = [k \in 1..done[q] |-> writes[q]]
      BY <3>1, <3>2 DEF Alone, Mine
    <3>4. stage'[r] = "tested" /\ writes'[r].id # writes[q].id
      <4>1. CASE d.id = writes[q].id
        BY <1>6, <3>1, <4>1 DEF Mine
      <4>2. QED
        BY <1>3, <4>1
    <3>5. acked'[writes[q].id] = {}
      BY <1>5, <3>1, <3>3 DEF Mine
    <3>6. QED
      BY <1>3, <3>1, <3>3, <3>4, <3>5
  <2>3. QED
    BY <2>1, <2>2
<1>8. Explained'
  BY <1>3, <1>5 DEF Explained, Exists, Busy
<1>9. CreatedTemplateStands'
  BY <1>3, <1>5 DEF CreatedTemplateStands, Loads, Create, TemplatesTypeOK
<1>10. QED
  BY <1>2, <1>4, <1>7, <1>8, <1>9

\* Steps of a creation that is under way leave these alone, and what others have
\* under way.
Goes(r) ==
  /\ UNCHANGED <<acked, contended, writes>>
  /\ stage'[r] = "writing" /\ \A q \in Runners \ {r} : stage'[q] = stage[q] /\ done'[q] = done[q]
  /\ \A id \in Ids \ {Mine(r)} :
       file'[id] = file[id] /\ (id \in broken => id \in broken')
  /\ file'[Mine(r)] \in Seq(Blocks)
  /\ done'[r] \in Nat /\ done'[r] <= writes[r].size
  /\ Mine(r) \notin contended => file'[Mine(r)] = [k \in 1..done'[r] |-> writes[r]]

LEMMA GoesStep ==
  ASSUME TemplatesInv, NEW r \in Runners, stage[r] # "idle", Goes(r), TemplatesTypeOK'
  PROVE  TemplatesInv'
<1> USE DEF TemplatesInv
<1>1. Mine(r) \in Ids /\ writes[r] \in Documents
  BY BusyType
<1>2. Underway'
  <2> SUFFICES ASSUME NEW q \in Runners, stage'[q] # "idle"
               PROVE  /\ Valid(writes[q])
                      /\ stage'[q] = "writing" =>
                           done'[q] <= writes[q].size /\ file'[Mine(q)] \in Seq(Blocks)
    BY DEF Goes, Underway, Mine
  <2>1. CASE q = r
    BY <2>1 DEF Goes, Underway
  <2>2. CASE q # r
    <3>1. stage[q] = stage'[q] /\ done'[q] = done[q] /\ Mine(q) \in Ids
      BY <2>2, BusyType DEF Goes
    <3>2. QED
      BY <3>1 DEF Goes, Underway
  <2>3. QED
    BY <2>1, <2>2
<1>3. Alone'
  <2> SUFFICES ASSUME NEW q \in Runners, stage'[q] # "idle", Mine(q) \notin contended
               PROVE  /\ \A p \in Runners \ {q} : stage'[p] # "idle" => Mine(p) # Mine(q)
                      /\ acked[Mine(q)] = {}
                      /\ stage'[q] = "writing" =>
                           file'[Mine(q)] = [k \in 1..done'[q] |-> writes[q]]
    BY DEF Goes, Alone, Mine
  <2>1. \A p \in Runners : stage'[p] # "idle" <=> stage[p] # "idle"
    BY DEF Goes
  <2>2. \A p \in Runners \ {q} : stage'[p] # "idle" => Mine(p) # Mine(q)
    BY <2>1 DEF Alone
  <2>3. acked[Mine(q)] = {}
    BY <2>1 DEF Alone
  <2>4. CASE q = r
    BY <2>2, <2>3, <2>4 DEF Goes
  <2>5. CASE q # r
    <3>1. Mine(q) # Mine(r) /\ Mine(q) \in Ids
      BY <2>1, <2>2, <2>5, BusyType
    <3>2. stage'[q] = stage[q] /\ done'[q] = done[q] /\ file'[Mine(q)] = file[Mine(q)]
      BY <2>5, <3>1 DEF Goes
    <3>3. QED
      BY <2>2, <2>3, <3>2 DEF Alone
  <2>6. QED
    BY <2>4, <2>5
<1>4. r \in Busy(Mine(r))'
  BY DEF Goes, Busy, Mine
<1>5. Explained'
  <2> SUFFICES ASSUME NEW id \in Ids, Exists(id)'
               PROVE  \/ \E d \in Documents : file'[id] = Text(d)
                      \/ Busy(id)' # {} \/ id \in (broken \cup contended)'
    BY DEF Explained
  <2>1. CASE id = Mine(r)
    BY <1>4, <2>1 DEF Busy, Mine, Goes
  <2>2. CASE id # Mine(r)
    <3>1. Busy(id) \subseteq Busy(id)'
      BY DEF Goes, Busy
    <3>2. QED
      BY <2>2, <3>1 DEF Goes, Explained, Exists
  <2>3. QED
    BY <2>1, <2>2
<1>6. CreatedTemplateStands'
  <2>1. \A id \in Ids \ contended : acked[id] # {} => id # Mine(r)
    BY DEF Alone
  <2>2. QED
    BY <2>1 DEF Goes, CreatedTemplateStands, Loads
<1>7. QED
  BY <1>2, <1>3, <1>5, <1>6

LEMMA TruncateStep ==
  ASSUME TemplatesInv, NEW r \in Runners, Truncate(r)
  PROVE  TemplatesInv'
<1>1. stage[r] = "tested" /\ Mine(r) \in Ids /\ writes[r].size \in Nat
  BY BusyType DEF Truncate, TemplatesInv
<1>2. /\ file' = [file EXCEPT ![Mine(r)] = <<>>] /\ done' = [done EXCEPT ![r] = 0]
      /\ stage' = [stage EXCEPT ![r] = "writing"] /\ broken' = broken \ {Mine(r)}
      /\ UNCHANGED <<writes, acked, contended>>
  BY DEF Truncate, Mine
<1>3. <<>> \in Seq(Blocks) /\ <<>> = [k \in 1..0 |-> writes[r]]
  OBVIOUS
<1>4. TemplatesTypeOK'
  BY <1>1, <1>2, <1>3 DEF TemplatesInv, TemplatesTypeOK, Blocks
<1>5. Goes(r)
  BY <1>1, <1>2, <1>3 DEF TemplatesInv, TemplatesTypeOK, Goes
<1>6. QED
  BY <1>1, <1>4, <1>5, GoesStep

LEMMA WriteStep ==
  ASSUME TemplatesInv, NEW r \in Runners, WriteBlock(r)
  PROVE  TemplatesInv'
<1> DEFINE old == file[Mine(r)]
           at == done[r] + 1
           length == IF Len(old) < at THEN at ELSE Len(old)
           new == [k \in 1..length |-> IF k = at THEN writes[r]
                                       ELSE IF k <= Len(old) THEN old[k] ELSE Hole]
<1>1. /\ stage[r] = "writing" /\ done[r] < writes[r].size
      /\ file' = [file EXCEPT ![Mine(r)] = new] /\ done' = [done EXCEPT ![r] = at]
      /\ UNCHANGED <<stage, writes, acked, contended, broken>>
  BY DEF WriteBlock, Mine
<1>2. Mine(r) \in Ids /\ writes[r] \in Documents /\ writes[r].size \in Nat /\ done[r] \in Nat
  BY <1>1, BusyType DEF TemplatesInv, TemplatesTypeOK
<1>3. old \in Seq(Blocks) /\ Len(old) \in Nat
  BY <1>1 DEF TemplatesInv, Underway
<1>4. new \in Seq(Blocks)
  <2>1. length \in Nat
    BY <1>2, <1>3
  <2>2. \A k \in 1..length :
          (IF k = at THEN writes[r] ELSE IF k <= Len(old) THEN old[k] ELSE Hole) \in Blocks
    BY <1>2, <1>3 DEF Blocks
  <2> HIDE DEF length
  <2>3. QED
    BY <2>1, <2>2
<1>5. Mine(r) \notin contended => new = [k \in 1..at |-> writes[r]]
  <2> SUFFICES ASSUME Mine(r) \notin contended PROVE new = [k \in 1..at |-> writes[r]]
    OBVIOUS
  <2>1. old = [k \in 1..done[r] |-> writes[r]]
    BY <1>1 DEF TemplatesInv, Alone
  <2>2. Len(old) = done[r]
    BY <1>2, <1>3, <2>1
  <2>3. length = at
    BY <1>2, <2>2
  <2>4. \A k \in 1..at : k # at => k <= Len(old) /\ old[k] = writes[r]
    BY <1>2, <2>1, <2>2
  <2> HIDE DEF length, old, at
  <2>5. QED
    BY <2>3, <2>4
<1> HIDE DEF new, old
<1>6. TemplatesTypeOK'
  BY <1>1, <1>2, <1>4 DEF TemplatesInv, TemplatesTypeOK, Blocks
<1>7. Goes(r)
  BY <1>1, <1>2, <1>4, <1>5 DEF TemplatesInv, TemplatesTypeOK, Goes
<1>8. QED
  BY <1>1, <1>6, <1>7, GoesStep

\* The end of a creation, confirmed or not: only its own id is concerned.
Ends(r) ==
  /\ UNCHANGED <<file, contended>>
  /\ stage' = [stage EXCEPT ![r] = "idle"] /\ writes' = [writes EXCEPT ![r] = Nobody]
  /\ done' = [done EXCEPT ![r] = 0]
  /\ broken \subseteq broken' /\ broken' \subseteq Ids
  /\ acked' \in [Ids -> SUBSET Documents]
  /\ \A id \in Ids \ {Mine(r)} : acked'[id] = acked[id]
  /\ Mine(r) \notin contended =>
       \/ acked' = acked /\ Mine(r) \in broken'
       \/ Loads(Mine(r), writes[r]) /\ acked'[Mine(r)] = {writes[r]}

LEMMA EndsStep ==
  ASSUME TemplatesInv, NEW r \in Runners, stage[r] # "idle", Ends(r)
  PROVE  TemplatesInv'
<1> USE DEF TemplatesInv
<1>1. Mine(r) \in Ids /\ writes[r] \in Documents
  BY BusyType
<1>2. /\ stage'[r] = "idle"
      /\ \A q \in Runners \ {r} :
           stage'[q] = stage[q] /\ writes'[q] = writes[q] /\ done'[q] = done[q]
  BY DEF Ends, TemplatesTypeOK
<1>3. TemplatesTypeOK'
  BY <1>2 DEF Ends, TemplatesTypeOK
<1>4. Underway'
  BY <1>2 DEF Ends, Underway, Mine
<1>5. Alone'
  <2> SUFFICES ASSUME NEW q \in Runners, stage'[q] # "idle", writes'[q].id \notin contended
               PROVE  /\ \A p \in Runners \ {q} :
                           stage'[p] # "idle" => writes'[p].id # writes'[q].id
                      /\ acked'[writes'[q].id] = {}
                      /\ stage'[q] = "writing" =>
                           file[writes'[q].id] = [k \in 1..done'[q] |-> writes'[q]]
    BY DEF Ends, Alone, Mine
  <2>1. q # r /\ stage'[q] = stage[q] /\ writes'[q] = writes[q] /\ done'[q] = done[q]
    BY <1>2
  <2>2. Mine(q) \in Ids /\ Mine(q) \notin contended
    BY <2>1, BusyType DEF Mine
  <2>3. /\ \A p \in Runners \ {q} : stage[p] # "idle" => writes[p].id # writes[q].id
        /\ acked[writes[q].id] = {}
        /\ stage[q] = "writing" => file[writes[q].id] = [k \in 1..done[q] |-> writes[q]]
    BY <2>1, <2>2 DEF Alone, Mine
  <2>4. acked'[writes[q].id] = {}
    BY <2>1, <2>2, <2>3 DEF Ends, Mine
  <2>5. QED
    BY <1>2, <2>1, <2>3, <2>4
<1>6. Explained'
  <2> SUFFICES ASSUME NEW id \in Ids, Exists(id), id \notin broken' \cup contended,
                      \A d \in Documents : file[id] # Text(d)
               PROVE  Busy(id)' # {}
    BY DEF Ends, Explained, Exists
  <2>1. id # Mine(r)
    BY DEF Ends, Loads
  <2>2. PICK q \in Runners : stage[q] # "idle" /\ writes[q].id = id
    BY DEF Ends, Explained, Busy
  <2>3. q # r
    BY <2>1, <2>2 DEF Mine
  <2>4. QED
    BY <1>2, <2>2, <2>3 DEF Busy
<1>7. CreatedTemplateStands'
  <2> SUFFICES ASSUME NEW id \in Ids \ contended, NEW d \in acked'[id]
               PROVE  Loads(id, d) /\ acked'[id] = {d}
    BY DEF Ends, CreatedTemplateStands, Loads
  <2>1. CASE acked'[id] = acked[id]
    BY <2>1 DEF CreatedTemplateStands
  <2>2. CASE acked'[id] # acked[id]
    BY <2>2 DEF Ends
  <2>3. QED
    BY <2>1, <2>2
<1>8. QED
  BY <1>3, <1>4, <1>5, <1>6, <1>7

LEMMA ConfirmStep ==
  ASSUME TemplatesInv, NEW r \in Runners, Confirm(r)
  PROVE  TemplatesInv'
<1>1. /\ stage[r] = "writing" /\ done[r] = writes[r].size
      /\ acked' = [acked EXCEPT ![Mine(r)] = @ \cup {writes[r]}]
  BY DEF Confirm, Written, Mine
<1>2. Mine(r) \in Ids /\ writes[r] \in Documents
  BY <1>1, BusyType DEF TemplatesInv
<1>3. Mine(r) \notin contended =>
        Loads(Mine(r), writes[r]) /\ acked'[Mine(r)] = {writes[r]}
  <2> SUFFICES ASSUME Mine(r) \notin contended
               PROVE  Loads(Mine(r), writes[r]) /\ acked'[Mine(r)] = {writes[r]}
    OBVIOUS
  <2>1. acked[Mine(r)] = {} /\ file[Mine(r)] = [k \in 1..done[r] |-> writes[r]]
    BY <1>1 DEF TemplatesInv, Alone
  <2>2. Loads(Mine(r), writes[r])
    BY <1>1, <1>2, <2>1 DEF TemplatesInv, Underway, Loads, Text
  <2>3. acked'[Mine(r)] = {writes[r]}
    BY <1>1, <1>2, <2>1 DEF TemplatesInv, TemplatesTypeOK
  <2>4. QED
    BY <2>2, <2>3
<1>4. Ends(r)
  <2>1. /\ acked' \in [Ids -> SUBSET Documents]
        /\ \A id \in Ids \ {Mine(r)} : acked'[id] = acked[id]
    BY <1>1, <1>2 DEF TemplatesInv, TemplatesTypeOK
  <2>2. broken' = broken /\ broken \subseteq Ids
    BY DEF Confirm, TemplatesInv, TemplatesTypeOK
  <2>3. QED
    BY <1>3, <2>1, <2>2 DEF Confirm, Ends
<1>5. QED
  BY <1>1, <1>4, EndsStep

LEMMA BreaksStep ==
  ASSUME TemplatesInv, NEW r \in Runners, Breaks(r)
  PROVE  TemplatesInv'
<1>1. stage[r] # "idle" /\ Mine(r) \in Ids
  BY BusyType DEF Breaks, TemplatesInv
<1>2. Ends(r)
  BY <1>1 DEF Breaks, Ends, TemplatesInv, TemplatesTypeOK, Mine
<1>3. QED
  BY <1>1, <1>2, EndsStep

LEMMA TemplatesNextInv == TemplatesInv /\ [TemplatesNext]_templates => TemplatesInv'
<1> SUFFICES ASSUME TemplatesInv, [TemplatesNext]_templates PROVE TemplatesInv'
  OBVIOUS
<1>1. CASE TemplatesNext
  BY <1>1, CreateStep, TruncateStep, WriteStep, ConfirmStep, BreaksStep DEF TemplatesNext
<1>2. CASE UNCHANGED templates
  BY <1>2
  DEF templates, TemplatesInv, TemplatesTypeOK, Underway, Alone, Explained, CreatedTemplateStands, Loads, Exists, Busy,
      Mine
<1>3. QED
  BY <1>1, <1>2

-----------------------------------------------------------------------------
\* The inductive invariant of the directory of templates.
THEOREM TemplatesInductive == TemplatesSpec => []TemplatesInv
  BY TemplatesInitInv, TemplatesNextInv, PTL DEF TemplatesSpec

\* Files, creations and what was confirmed keep their types.
THEOREM TemplatesTypeCorrect == TemplatesSpec => []TemplatesTypeOK
<1>1. TemplatesInv => TemplatesTypeOK
  BY DEF TemplatesInv
<1>2. QED
  BY <1>1, TemplatesInductive, PTL

\* What create_workflow has confirmed is what load_workflow returns, for documents of
\* any length, unless two creations of the id overlapped.
THEOREM Stands == TemplatesSpec => []CreatedTemplateStands
<1>1. TemplatesInv => CreatedTemplateStands
  BY DEF TemplatesInv
<1>2. QED
  BY <1>1, TemplatesInductive, PTL

\* list_workflows leaves nothing out that was written to its end alone.
THEOREM TornExplained == TemplatesSpec => []TornFilesExplained
<1>1. TemplatesInv => TornFilesExplained
  BY DEF TemplatesInv, Explained, TornFilesExplained
<1>2. QED
  BY <1>1, TemplatesInductive, PTL
=============================================================================
