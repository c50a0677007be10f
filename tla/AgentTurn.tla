------------------------------- MODULE AgentTurn -------------------------------
(***************************************************************************)
(* assistant.chat and assistant.router: the threads that drive the model   *)
(* through its tools, one per turn of the conversation.                    *)
(*                                                                         *)
(* A thread works on a copy of the conversation, with the setting and the  *)
(* catalog its turn began with, and tells the page of its rounds through a *)
(* queue.  The model is free: whatever the catalog offers it, it may ask   *)
(* for any tool by any name.                                               *)
(***************************************************************************)
EXTENDS ToolPolicy, PoolRuntime, Sequences, SequencesExt

CONSTANTS
  Turns,       \* turns of the conversation, 1 .. some bound
  Tools,       \* tools that exist on the servers
  Malformed,   \* a name without a separator
  MaxTurns,    \* DIST_DASHBOARD_MAX_TURNS: rounds of tools in a turn
  MaxCalls     \* bound: tool calls in one answer of the model

ASSUME AgentAssumption ==
  /\ Malformed \notin Tools
  /\ MaxTurns \in Nat \ {0} /\ MaxCalls \in Nat \ {0}

VARIABLES
  agent,      \* turn -> its thread
  queue,      \* turn -> what the thread has put for the page
  executed    \* history: <<turn, tool>> of the changing calls that its thread
              \* handed to the pool

agents == <<agent, queue, executed>>

Roles    == {"user", "assistant", "calls", "tool"}
Message  == Turns \X Roles

NoAgent == [at |-> "none", allow |-> FALSE, tools |-> {}, pool |-> NoRuntime,
            work |-> <<>>, rounds |-> 0, calls |-> 0, stopped |-> FALSE, failed |-> FALSE,
            held |-> FALSE]

\* tools, pool: its catalog and runtime; work: its conversation; calls: those still to
\* be routed; stopped: the last round was used up; held: a script still waits for it.
Thread ==
  [at : {"none", "asking", "routing", "finishing", "dead"},
   allow : BOOLEAN, tools : SUBSET Tools, pool : Runtimes \cup {NoRuntime},
   work : Seq(Message), rounds : 0..MaxTurns, calls : 0..MaxCalls,
   stopped : BOOLEAN, failed : BOOLEAN, held : BOOLEAN]

Notes == {"round", "error"}

AgentTypeOK ==
  /\ agent \in [Turns -> Thread]
  /\ queue \in [Turns -> Seq(Notes)]
  /\ executed \subseteq Turns \X ChangingTools

AgentInit ==
  /\ agent = [t \in Turns |-> NoAgent]
  /\ queue = [t \in Turns |-> <<>>]
  /\ executed = {}

Asks(t)    == agent[t].at = "asking"
Routing(t) == agent[t].at = "routing"
Working(t) == agent[t].at \in {"asking", "routing"}
\* worker_thread.is_alive()
Lives(t)   == agent[t].at \notin {"none", "dead"}

\* A new queue, and threading.Thread(target=worker).start().  A turn that failed
\* may be run again; its former thread has nothing left to do.
Launch(t, allow, tools, pool, messages) ==
  /\ agent' = [agent EXCEPT ![t] = [NoAgent EXCEPT
                 !.at = "asking", !.allow = allow, !.tools = tools, !.pool = pool,
                 !.work = messages, !.held = TRUE]]
  /\ queue' = [queue EXCEPT ![t] = <<>>]
  /\ executed' = {call \in executed : call[1] # t}

\* The script that held the thread's conversation, queue and box is over: whatever
\* is in them and whatever the thread still puts there is lost.
LetGo(t) ==
  /\ agent' = [agent EXCEPT ![t] = [@ EXCEPT !.held = FALSE, !.work = <<>>,
                                             !.stopped = FALSE, !.failed = FALSE]]
  /\ queue' = [queue EXCEPT ![t] = <<>>]
  /\ UNCHANGED executed

Say(t, role, new) ==
  agent' = [agent EXCEPT ![t] = [new EXCEPT !.work =
              IF new.held THEN Append(@, <<t, role>>) ELSE @]]

Put(t, what) == queue' = [queue EXCEPT ![t] = IF agent[t].held THEN Append(@, what) ELSE @]

-----------------------------------------------------------------------------
\* LLMError: the request failed, timed out or was answered without a choice.
LlmFails(t) ==
  /\ Asks(t)
  /\ agent' = [agent EXCEPT ![t].at = "finishing", ![t].failed = agent[t].held]
  /\ Put(t, "error")
  /\ UNCHANGED executed

LlmAnswers(t) ==
  /\ Asks(t)
  /\ Say(t, "assistant", [agent[t] EXCEPT !.at = "finishing"])
  /\ UNCHANGED <<queue, executed>>

LlmCalls(t) ==
  /\ Asks(t)
  /\ \E n \in 1..MaxCalls : Say(t, "calls", [agent[t] EXCEPT !.at = "routing", !.calls = n])
  /\ UNCHANGED <<queue, executed>>

\* Faulty variant of Permitted: what was put into the catalog is executed.
PermittedByCatalog(t, tool) == tool \in agent[t].tools

\* The second layer: the policy is asked again, with the setting of the turn.
Permitted(t, tool) == catalog_allowed(tool, agent[t].allow)

\* ToolRouter.execute of the next call, whose name the model has chosen freely.  A
\* malformed name, a blocked tool and a runtime without a pool are answered on the
\* spot; a payload and an exception of the tool are a record alike.
Route(t) ==
  /\ Routing(t) /\ agent[t].calls > 0
  /\ \E name \in Tools \cup {Malformed} :
       executed' = IF name \in ChangingTools /\ Permitted(t, name) /\ agent[t].pool \in bound
                   THEN executed \cup {<<t, name>>} ELSE executed
  /\ Say(t, "tool", [agent[t] EXCEPT !.calls = @ - 1])
  /\ UNCHANGED queue

\* yield, and the next iteration of `for _ in range(max_turns)' if there is one.
RoundEnds(t) ==
  LET last == agent[t].rounds + 1 = MaxTurns IN
  /\ Routing(t) /\ agent[t].calls = 0
  /\ agent' = [agent EXCEPT ![t] = [agent[t] EXCEPT
                 !.at = IF last THEN "finishing" ELSE "asking",
                 !.rounds = agent[t].rounds + 1, !.stopped = last /\ agent[t].held]]
  /\ Put(t, "round")
  /\ UNCHANGED executed

\* asyncio.run winds up and the thread ends; catalog and router go with it.
Dies(t) ==
  /\ agent[t].at = "finishing"
  /\ agent' = [agent EXCEPT ![t] = [@ EXCEPT !.at = "dead", !.tools = {}, !.pool = NoRuntime,
                                             !.rounds = 0, !.calls = 0]]
  /\ UNCHANGED <<queue, executed>>

\* What a thread does by itself.  The SDK bounds a request to the model, the pool
\* a call of a tool.
AgentStep(t) ==
  \/ LlmFails(t) \/ LlmAnswers(t) \/ LlmCalls(t)
  \/ Route(t) \/ RoundEnds(t) \/ Dies(t)

-----------------------------------------------------------------------------
(* A turn begun with write tools disabled never has a tool executed that    *)
(* changes templates, runs or the graph, whatever the model asks for and    *)
(* whatever catalog it was shown.                                           *)
ReadOnlyTurnsNeverWrite == \A call \in executed : agent[call[1]].allow
=============================================================================
