------------------------------ MODULE ServerPool ------------------------------
(***************************************************************************)
(* workflow_runner.client.ServerPool: one lazily spawned subprocess per    *)
(* domain server, shared by all the requests of a runner.                  *)
(*                                                                         *)
(* Everything runs on one asyncio loop, so a step is what a task does      *)
(* between two awaits.  The tasks are the requests (Callers), one owner    *)
(* task per handle (_ClientHandle.run) and the lifespan, which ends with   *)
(* close_all and the exit of the task group that holds the owners.         *)
(*                                                                         *)
(* The SDK leaves the lifespan only after its request handlers are gone;   *)
(* a handler may be cancelled at any await.                                *)
(***************************************************************************)
EXTENDS Naturals

CONSTANTS
  Callers,     \* request handlers
  Servers,     \* server names that requests mention
  Configured   \* those of servers.yaml

ASSUME PoolAssumption == Configured \subseteq Servers

VARIABLES
  handles,   \* the servers with an entry in _handles
  owner,     \* server -> what its owner task is doing
  ready,     \* servers whose handle.ready is set
  stopped,   \* servers whose handle._stopped is set
  spawned,   \* server -> subprocesses ever spawned for it
  alive,     \* server -> subprocesses now alive
  pc,        \* caller -> where the request is
  req,       \* caller -> the server and the method it asks for
  reply,     \* caller -> how its last request ended
  phase,     \* the lifespan
  pending    \* handles that close_all has still to wait for

pool == <<handles, owner, ready, stopped, spawned, alive>>
vars == <<pool, pc, req, reply, phase, pending>>

NoRequest == <<>>
Methods   == {"call_tool", "list_tools"}
OwnerSt   == {"none", "connecting", "failed", "up", "closing", "done"}
Replies   == {"none", "result", "UnknownServerError", "ServerConnectError",
              "ToolCallTimeout", "AssertionError", "transport error", "cancelled"}
Over      == {"none", "failed", "done"}   \* the owner task does not exist (any more)

TypeOK ==
  /\ handles \subseteq Configured
  /\ owner \in [Servers -> OwnerSt]
  /\ ready \subseteq Servers /\ stopped \subseteq Servers
  /\ spawned \in [Servers -> Nat] /\ alive \in [Servers -> Nat]
  /\ pc \in [Callers -> {"idle", "waiting", "calling"}]
  /\ req \in [Callers -> (Servers \X Methods) \cup {NoRequest}]
  /\ reply \in [Callers -> Replies]
  /\ phase \in {"serving", "closing", "closed", "exited"}
  /\ pending \subseteq Servers

Init ==
  /\ handles = {} /\ ready = {} /\ stopped = {}
  /\ owner = [s \in Servers |-> "none"]
  /\ spawned = [s \in Servers |-> 0]
  /\ alive = [s \in Servers |-> 0]
  /\ pc = [c \in Callers |-> "idle"]
  /\ req = [c \in Callers |-> NoRequest]
  /\ reply = [c \in Callers |-> "none"]
  /\ phase = "serving"
  /\ pending = {}

Server(c) == req[c][1]
Method(c) == req[c][2]

Answer(c, what) ==
  /\ pc' = [pc EXCEPT ![c] = "idle"]
  /\ reply' = [reply EXCEPT ![c] = what]

-----------------------------------------------------------------------------
(* The requests.                                                            *)

\* handle.session: set by a connect that succeeded, cleared by close().
HasSession(s) == owner[s] = "up"

\* The rest of connect() and the assertion of its callers, without an await.
Use(c, s) ==
  \/ owner[s] = "failed" /\ Answer(c, "ServerConnectError")
  \/ owner[s] # "failed" /\ ~HasSession(s) /\ Answer(c, "AssertionError")
  \/ HasSession(s) /\ pc' = [pc EXCEPT ![c] = "calling"] /\ UNCHANGED reply

\* Register a handle, start its owner, await ready.
Spawn(c, s) ==
  /\ handles' = handles \cup {s}
  /\ owner' = [owner EXCEPT ![s] = "connecting"]
  /\ spawned' = [spawned EXCEPT ![s] = @ + 1]
  /\ alive' = [alive EXCEPT ![s] = @ + 1]
  /\ pc' = [pc EXCEPT ![c] = "waiting"]
  /\ UNCHANGED <<ready, stopped, reply>>

\* Faulty variant of Request: a handle is found only once its connection is up.
LateRequest(c, s, m) ==
  /\ pc[c] = "idle" /\ phase = "serving" /\ s \in Configured
  /\ req' = [req EXCEPT ![c] = <<s, m>>]
  /\ \/ s \in ready /\ Use(c, s) /\ UNCHANGED pool
     \/ s \notin ready /\ Spawn(c, s)
  /\ UNCHANGED <<phase, pending>>

\* connect(name): the first caller registers the handle and waits; a caller that
\* finds a handle goes on without waiting.
Request(c, s, m) ==
  /\ pc[c] = "idle" /\ phase = "serving"
  /\ req' = [req EXCEPT ![c] = <<s, m>>]
  /\ \/ s \in handles /\ Use(c, s) /\ UNCHANGED pool
     \/ s \notin Configured /\ Answer(c, "UnknownServerError") /\ UNCHANGED pool
     \/ s \in Configured \ handles /\ Spawn(c, s)
  /\ UNCHANGED <<phase, pending>>

Wake(c) ==
  /\ pc[c] = "waiting" /\ Server(c) \in ready
  /\ Use(c, Server(c))
  /\ UNCHANGED <<pool, req, phase, pending>>

Respond(c) ==
  /\ pc[c] = "calling" /\ HasSession(Server(c)) /\ alive[Server(c)] > 0
  /\ Answer(c, "result")
  /\ UNCHANGED <<pool, req, phase, pending>>

\* anyio.fail_after around the call; list_tools has none.
TimesOut(c) ==
  /\ pc[c] = "calling" /\ Method(c) = "call_tool"
  /\ Answer(c, "ToolCallTimeout")
  /\ UNCHANGED <<pool, req, phase, pending>>

\* The subprocess is gone: the SDK raises, and nothing here catches it.
TransportFails(c) ==
  /\ pc[c] = "calling" /\ alive[Server(c)] = 0
  /\ Answer(c, "transport error")
  /\ UNCHANGED <<pool, req, phase, pending>>

Cancelled(c) ==
  /\ pc[c] \in {"waiting", "calling"}
  /\ Answer(c, "cancelled")
  /\ UNCHANGED <<pool, req, phase, pending>>

-----------------------------------------------------------------------------
(* The owner tasks.                                                         *)

Connected(s) ==
  /\ owner[s] = "connecting"
  /\ owner' = [owner EXCEPT ![s] = "up"]
  /\ ready' = ready \cup {s}
  /\ UNCHANGED <<handles, stopped, spawned, alive, pc, req, reply, phase, pending>>

\* Faulty variant of ConnectFails: ready is set only after a connect that
\* succeeded, not in the finally.
ConnectFailsSilently(s) ==
  /\ owner[s] = "connecting"
  /\ owner' = [owner EXCEPT ![s] = "failed"]
  /\ alive' = [alive EXCEPT ![s] = 0]
  /\ UNCHANGED <<handles, ready, stopped, spawned, pc, req, reply, phase, pending>>

\* Faulty variant of ConnectFails: a failed initialize leaves its subprocess.
ConnectFailsLeaking(s) ==
  /\ owner[s] = "connecting"
  /\ owner' = [owner EXCEPT ![s] = "failed"]
  /\ ready' = ready \cup {s}
  /\ UNCHANGED <<handles, stopped, spawned, alive, pc, req, reply, phase, pending>>

\* Spawn or initialize fails or times out.  session() reaps the subprocess,
\* run() keeps the error, sets ready and returns: _done stays unset, and the
\* handle stays registered with its error.
ConnectFails(s) ==
  /\ owner[s] = "connecting"
  /\ owner' = [owner EXCEPT ![s] = "failed"]
  /\ ready' = ready \cup {s}
  /\ alive' = [alive EXCEPT ![s] = 0]
  /\ UNCHANGED <<handles, stopped, spawned, pc, req, reply, phase, pending>>

SubprocessDies(s) ==
  /\ owner[s] = "up" /\ alive[s] > 0
  /\ alive' = [alive EXCEPT ![s] = 0]
  /\ UNCHANGED <<handles, owner, ready, stopped, spawned, pc, req, reply, phase, pending>>

\* _stopped.wait() returns; close() clears the session and awaits __aexit__.
BeginClose(s) ==
  /\ owner[s] = "up" /\ s \in stopped
  /\ owner' = [owner EXCEPT ![s] = "closing"]
  /\ UNCHANGED <<handles, ready, stopped, spawned, alive, pc, req, reply, phase, pending>>

EndClose(s) ==
  /\ owner[s] = "closing"
  /\ owner' = [owner EXCEPT ![s] = "done"]
  /\ alive' = [alive EXCEPT ![s] = 0]
  /\ UNCHANGED <<handles, ready, stopped, spawned, pc, req, reply, phase, pending>>

-----------------------------------------------------------------------------
(* The lifespan.                                                            *)

\* Faulty variant of CloseAll: only live connections are told to stop.
CloseAllLive ==
  /\ phase = "serving" /\ \A c \in Callers : pc[c] = "idle"
  /\ phase' = "closing"
  /\ stopped' = stopped \cup {s \in handles : HasSession(s)}
  /\ pending' = {s \in handles : HasSession(s)}
  /\ UNCHANGED <<handles, owner, ready, spawned, alive, pc, req, reply>>

CloseAll ==
  /\ phase = "serving" /\ \A c \in Callers : pc[c] = "idle"
  /\ phase' = "closing"
  /\ stopped' = stopped \cup handles
  /\ pending' = handles
  /\ UNCHANGED <<handles, owner, ready, spawned, alive, pc, req, reply>>

\* with fail_after(10): await handle._done.wait(), one handle after another.
CloseWait(s) ==
  /\ phase = "closing" /\ s \in pending
  /\ pending' = pending \ {s}
  /\ UNCHANGED <<pool, pc, req, reply, phase>>

CloseDone ==
  /\ phase = "closing" /\ pending = {}
  /\ phase' = "closed"
  /\ UNCHANGED <<pool, pc, req, reply, pending>>

\* The task group exits when its last owner task has.
GroupExit ==
  /\ phase = "closed" /\ \A s \in Servers : owner[s] \in Over
  /\ phase' = "exited"
  /\ UNCHANGED <<pool, pc, req, reply, pending>>

OwnerStep(s) == Connected(s) \/ ConnectFails(s) \/ BeginClose(s) \/ EndClose(s)
Lifespan     == (\E s \in Servers : CloseWait(s)) \/ CloseDone \/ GroupExit

Next ==
  \/ \E c \in Callers, s \in Servers, m \in Methods : Request(c, s, m)
  \/ \E c \in Callers :
       Wake(c) \/ Respond(c) \/ TimesOut(c) \/ TransportFails(c) \/ Cancelled(c)
  \/ \E s \in Servers : OwnerStep(s) \/ SubprocessDies(s)
  \/ CloseAll \/ Lifespan

Spec == Init /\ [][Next]_vars

\* Ready tasks are scheduled; connecting ends because initialize is bounded by
\* fail_after, a tool call because call_tool is.  Servers owe no answer.
FairSpec ==
  /\ Spec
  /\ \A c \in Callers : WF_vars(Wake(c)) /\ WF_vars(TimesOut(c))
  /\ \A s \in Servers : WF_vars(OwnerStep(s))
  /\ WF_vars(Lifespan)
-----------------------------------------------------------------------------
(* A server is never spawned twice, however requests for it overlap: the    *)
(* handle is registered before the first await of connect().                *)
OneSubprocessPerServer == \A s \in Servers : spawned[s] <= 1

(* Every call_tool is answered, whatever becomes of the connection: a       *)
(* failed connect still sets ready, and fail_after bounds the call.         *)
EveryCallAnswered ==
  \A c \in Callers :
    pc[c] # "idle" /\ Method(c) = "call_tool" ~> pc[c] = "idle"

(* The lifespan ends: close_all reaches every owner task, also one that is  *)
(* still connecting or whose connect failed, and the group can exit.        *)
ShutdownTerminates == phase = "closing" ~> phase = "exited"

(* No subprocess outlives the pool.                                         *)
NoOrphanSubprocess == phase = "exited" => \A s \in Servers : alive[s] = 0
=============================================================================
