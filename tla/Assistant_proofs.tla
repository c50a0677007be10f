---------------------------- MODULE Assistant_proofs ----------------------------
(***************************************************************************)
(* Safety of the assistant for any conversation, tools, runtimes and       *)
(* interactions.                                                           *)
(***************************************************************************)
EXTENDS Assistant, SequenceTheorems, TLAPS

RoundsLeft == \A t \in Turns : Working(t) => agent[t].rounds < MaxTurns

-----------------------------------------------------------------------------
(* What a step of a thread does.                                            *)

\* Nothing is both read-only and changing.
LEMMA ChangingIsNoReading == ChangingTools \cap READ_ONLY_TOOLS = {}
  BY DEF ChangingTools, READ_ONLY_TOOLS

\* What one thread may be told apart by, but for its conversation and its notes.
Same(old, new) ==
  /\ new.at = old.at /\ new.allow = old.allow /\ new.tools = old.tools
  /\ new.pool = old.pool /\ new.rounds = old.rounds

\* A message more, or none if nobody holds the conversation.
LEMMA SayThread ==
  ASSUME NEW t \in Turns, NEW role \in Roles, NEW new \in Thread, Say(t, role, new)
  PROVE  \E th \in Thread : agent' = [agent EXCEPT ![t] = th] /\ Same(new, th)
<1> DEFINE work == IF new.held THEN Append(new.work, <<t, role>>) ELSE new.work
<1> DEFINE th == [new EXCEPT !.work = work]
<1>1. work \in Seq(Message)
  <2>1. <<t, role>> \in Message /\ new.work \in Seq(Message)
    BY DEF Message, Thread
  <2>2. QED
    BY <2>1
<1>2. th \in Thread
  <2> HIDE DEF work
  <2> QED
    BY <1>1 DEF Thread
<1>3. Same(new, th)
  BY DEF Thread, Same
<1>4. agent' = [agent EXCEPT ![t] = th]
  BY DEF Say
<1>5. QED
  BY <1>2, <1>3, <1>4

\* Putting a note: an error is put by a thread that does not go on only.
NoError(q) == \A k \in 1..Len(q) : q[k] # "error"

LEMMA PutNote ==
  ASSUME NEW t \in Turns, NEW note \in Notes, AgentTypeOK, Put(t, note)
  PROVE  \E q \in Seq(Notes) :
           /\ queue' = [queue EXCEPT ![t] = q]
           /\ note = "round" /\ NoError(queue[t]) => NoError(q)
<1> DEFINE q == IF agent[t].held THEN Append(queue[t], note) ELSE queue[t]
<1>1. queue[t] \in Seq(Notes)
  BY DEF AgentTypeOK
<1>2. q \in Seq(Notes)
  BY <1>1
<1>3. note = "round" /\ NoError(queue[t]) => NoError(q)
  BY <1>1 DEF NoError
<1>4. queue' = [queue EXCEPT ![t] = q]
  BY DEF Put
<1>5. QED
  BY <1>2, <1>3, <1>4

\* A step of a thread: it goes on only if it has not failed and has rounds left, keeps
\* its setting and, while it has a runtime, its catalog; it hands a changing call to
\* the pool only if it may write.
Moves(t, new, q, done) ==
  /\ agent' = [agent EXCEPT ![t] = new]
  /\ queue' = [queue EXCEPT ![t] = q]
  /\ executed' = executed \cup done
  /\ new.allow = agent[t].allow
  /\ new.pool # NoRuntime => new.pool = agent[t].pool /\ new.tools = agent[t].tools
  /\ new.at \in {"asking", "routing"} =>
       Working(t) /\ new.rounds < MaxTurns /\ (NoError(queue[t]) => NoError(q))
  /\ done # {} => agent[t].allow

LEMMA ThreadStep ==
  ASSUME AgentTypeOK, RoundsLeft, NEW t \in Turns, AgentStep(t)
  PROVE  \E new \in Thread, q \in Seq(Notes), done \in SUBSET ({t} \X ChangingTools) :
           Moves(t, new, q, done)
<1> DEFINE old == agent[t]
<1>1. /\ old \in Thread /\ queue[t] \in Seq(Notes)
      /\ agent' \in {agent'} /\ queue = [queue EXCEPT ![t] = queue[t]]
  BY DEF AgentTypeOK
<1>2. {} \in SUBSET ({t} \X ChangingTools) /\ executed = executed \cup {}
  OBVIOUS
<1>3. Working(t) => old.rounds < MaxTurns
  BY DEF RoundsLeft
<1>4. CASE LlmFails(t)
  <2> DEFINE new == [old EXCEPT !.at = "finishing", !.failed = old.held]
  <2>1. new \in Thread
    BY <1>1 DEF Thread
  <2>2. agent' = [agent EXCEPT ![t] = new]
    BY <1>4 DEF LlmFails, AgentTypeOK, Thread
  <2>3. PICK q \in Seq(Notes) : queue' = [queue EXCEPT ![t] = q]
    BY <1>4, PutNote DEF LlmFails, Notes
  <2>4. new.allow = old.allow /\ new.pool = old.pool /\ new.tools = old.tools
        /\ new.at = "finishing"
    BY <1>1 DEF Thread
  <2>5. Moves(t, new, q, {})
    BY <1>4, <1>2, <2>2, <2>3, <2>4 DEF Moves, LlmFails
  <2>6. QED
    BY <1>2, <2>1, <2>3, <2>5
<1>5. CASE LlmAnswers(t)
  <2> DEFINE before == [old EXCEPT !.at = "finishing"]
  <2>1. before \in Thread
    BY <1>1 DEF Thread
  <2>2. PICK new \in Thread : agent' = [agent EXCEPT ![t] = new] /\ Same(before, new)
    BY <1>5, <2>1, SayThread DEF LlmAnswers, Roles
  <2>3. new.allow = old.allow /\ new.pool = old.pool /\ new.tools = old.tools
        /\ new.at = "finishing"
    BY <1>1, <2>2 DEF Thread, Same
  <2>4. Moves(t, new, queue[t], {})
    BY <1>5, <1>1, <1>2, <2>2, <2>3 DEF Moves, LlmAnswers
  <2>5. QED
    BY <1>1, <1>2, <2>4
<1>6. CASE LlmCalls(t)
  <2>1. PICK n \in 1..MaxCalls : Say(t, "calls", [old EXCEPT !.at = "routing", !.calls = n])
    BY <1>6 DEF LlmCalls
  <2> DEFINE before == [old EXCEPT !.at = "routing", !.calls = n]
  <2>2. before \in Thread
    <3>1. n \in 0..MaxCalls
      BY AgentAssumption
    <3>2. QED
      BY <1>1, <3>1 DEF Thread
  <2>3. PICK new \in Thread : agent' = [agent EXCEPT ![t] = new] /\ Same(before, new)
    BY <2>1, <2>2, SayThread DEF Roles
  <2>4. new.allow = old.allow /\ new.pool = old.pool /\ new.tools = old.tools
        /\ new.rounds = old.rounds
    BY <1>1, <2>3 DEF Thread, Same
  <2>5. Working(t)
    BY <1>6 DEF LlmCalls, Asks, Working
  <2>6. Moves(t, new, queue[t], {})
    BY <1>6, <1>1, <1>2, <1>3, <2>3, <2>4, <2>5 DEF Moves, LlmCalls
  <2>7. QED
    BY <1>1, <1>2, <2>6
<1>7. CASE Route(t)
  <2>1. PICK name \in Tools \cup {Malformed} :
          executed' = IF name \in ChangingTools /\ Permitted(t, name) /\ old.pool \in bound
                      THEN executed \cup {<<t, name>>} ELSE executed
    BY <1>7 DEF Route
  <2> DEFINE done == IF name \in ChangingTools /\ Permitted(t, name) /\ old.pool \in bound
                     THEN {<<t, name>>} ELSE {}
             before == [old EXCEPT !.calls = @ - 1]
  <2>2. done \in SUBSET ({t} \X ChangingTools) /\ executed' = executed \cup done
    BY <2>1
  <2>3. done # {} => old.allow
    BY ChangingIsNoReading DEF Permitted, catalog_allowed
  <2>4. before \in Thread
    <3>1. old.calls \in 0..MaxCalls /\ old.calls > 0
      BY <1>1, <1>7 DEF Thread, Route
    <3>2. old.calls - 1 \in 0..MaxCalls
      BY <3>1, AgentAssumption
    <3>3. QED
      BY <1>1, <3>2 DEF Thread
  <2>5. PICK new \in Thread : agent' = [agent EXCEPT ![t] = new] /\ Same(before, new)
    BY <1>7, <2>4, SayThread DEF Route, Roles
  <2>6. new.allow = old.allow /\ new.pool = old.pool /\ new.tools = old.tools
        /\ new.rounds = old.rounds
    BY <1>1, <2>5 DEF Thread, Same
  <2>7. Working(t)
    BY <1>7 DEF Route, Routing, Working
  <2>8. queue' = [queue EXCEPT ![t] = queue[t]]
    BY <1>7, <1>1 DEF Route
  <2>9. Moves(t, new, queue[t], done)
    <3> HIDE DEF done, before
    <3> QED
      BY <1>3, <2>2, <2>3, <2>5, <2>6, <2>7, <2>8 DEF Moves
  <2>10. QED
    BY <1>1, <2>2, <2>9
<1>8. CASE RoundEnds(t)
  <2> DEFINE last == old.rounds + 1 = MaxTurns
             new == [old EXCEPT !.at = IF last THEN "finishing" ELSE "asking",
                       !.rounds = old.rounds + 1, !.stopped = last /\ old.held]
  <2>1. Working(t)
    BY <1>8 DEF RoundEnds, Routing, Working
  <2>2. new \in Thread
    <3>1. old.rounds + 1 \in 0..MaxTurns
      BY <1>1, <1>3, <2>1, AgentAssumption DEF Thread
    <3>2. last \in BOOLEAN /\ (last /\ old.held) \in BOOLEAN
      OBVIOUS
    <3> HIDE DEF last
    <3>3. QED
      BY <1>1, <3>1, <3>2 DEF Thread
  <2>3. agent' = [agent EXCEPT ![t] = new]
    BY <1>8 DEF RoundEnds, AgentTypeOK, Thread
  <2>4. PICK q \in Seq(Notes) :
          queue' = [queue EXCEPT ![t] = q] /\ (NoError(queue[t]) => NoError(q))
    BY <1>8, PutNote DEF RoundEnds, Notes
  <2>5. new.allow = old.allow /\ new.pool = old.pool /\ new.tools = old.tools
    BY <1>1 DEF Thread
  <2>6. new.at = "asking" => new.rounds < MaxTurns
    BY <1>1, <1>3, <2>1, AgentAssumption DEF Thread
  <2>7. new.at \in {"asking", "finishing"}
    BY <1>1 DEF Thread
  <2>8. Moves(t, new, q, {})
    <3> HIDE DEF new
    <3> QED
      BY <1>8, <1>2, <2>1, <2>3, <2>4, <2>5, <2>6, <2>7 DEF Moves, RoundEnds
  <2>9. QED
    BY <1>2, <2>2, <2>4, <2>8
<1>9. CASE Dies(t)
  <2> DEFINE new == [old EXCEPT !.at = "dead", !.tools = {}, !.pool = NoRuntime,
                                !.rounds = 0, !.calls = 0]
  <2>1. new \in Thread
    <3>1. 0 \in 0..MaxTurns /\ 0 \in 0..MaxCalls
      BY AgentAssumption
    <3>2. QED
      BY <1>1, <3>1 DEF Thread
  <2>2. agent' = [agent EXCEPT ![t] = new]
    BY <1>9 DEF Dies, AgentTypeOK, Thread
  <2>3. new.allow = old.allow /\ new.pool = NoRuntime /\ new.at = "dead"
    BY <1>1 DEF Thread
  <2>4. Moves(t, new, queue[t], {})
    BY <1>9, <1>1, <1>2, <2>2, <2>3 DEF Moves, Dies
  <2>5. QED
    BY <1>1, <1>2, <2>1, <2>4
<1>10. QED
  BY <1>4, <1>5, <1>6, <1>7, <1>8, <1>9 DEF AgentStep

-----------------------------------------------------------------------------
(* Types.                                                                   *)

\* Where a script watches over a turn.
Watching == {"status", "poll", "look", "commit", "note", "cap", "unset"}

StartedKnown == page = "starting" => started \in Runtimes
InputCounts  == script.input # "none" => prompts + 1 \in Turns
TurnKnown    == /\ page = "launch" => messages # <<>>
                /\ page \in Watching => script.turn \in Turns

TypeInv == TypeOK /\ RoundsLeft /\ StartedKnown /\ InputCounts /\ TurnKnown

\* A step that leaves the threads as they were but for notes and conversations.
Untouched ==
  /\ agent' \in [Turns -> Thread] /\ queue' \in [Turns -> Seq(Notes)]
  /\ executed' = executed
  /\ \A t \in Turns : Same(agent[t], agent'[t]) /\ (NoError(queue[t]) => NoError(queue'[t]))

LEMMA LetGoStep ==
  ASSUME AgentTypeOK, NEW t \in Turns, LetGo(t)
  PROVE  Untouched
<1> DEFINE new == [agent[t] EXCEPT !.held = FALSE, !.work = <<>>, !.stopped = FALSE,
                                   !.failed = FALSE]
<1>1. agent[t] \in Thread
  BY DEF AgentTypeOK
<1>2. new \in Thread /\ Same(agent[t], new)
  <2>1. <<>> \in Seq(Message)
    OBVIOUS
  <2>2. QED
    BY <1>1, <2>1 DEF Thread, Same
<1>3. agent' = [agent EXCEPT ![t] = new]
  BY DEF LetGo
<1>4. agent' \in [Turns -> Thread] /\ \A u \in Turns : Same(agent[u], agent'[u])
  <2> HIDE DEF new
  <2> QED
    BY <1>2, <1>3 DEF AgentTypeOK, Same
<1>5. queue' = [queue EXCEPT ![t] = <<>>] /\ executed' = executed
  BY DEF LetGo
<1>6. NoError(<<>>) /\ <<>> \in Seq(Notes)
  BY DEF NoError
<1>7. QED
  BY <1>4, <1>5, <1>6 DEF Untouched, AgentTypeOK

LEMMA AgentsUnchanged ==
  ASSUME AgentTypeOK, UNCHANGED agents
  PROVE  Untouched
  BY DEF AgentTypeOK, agents, Untouched, Same

LEMMA TakeNote ==
  ASSUME AgentTypeOK, NEW t \in Turns, queue[t] # <<>>,
         queue' = [queue EXCEPT ![t] = Tail(@)], UNCHANGED <<agent, executed>>
  PROVE  Untouched
<1>1. queue[t] \in Seq(Notes)
  BY DEF AgentTypeOK
<1>2. Tail(queue[t]) \in Seq(Notes)
  BY <1>1
<1>3. NoError(queue[t]) => NoError(Tail(queue[t]))
  BY <1>1 DEF NoError
<1>4. QED
  BY <1>2, <1>3 DEF Untouched, AgentTypeOK, Same

\* Every step of the page but one, and every interaction.
LEMMA PageUntouched ==
  ASSUME TypeInv, PageStep \/ User, ~StartThread
  PROVE  Untouched
<1> USE DEF TypeInv, TypeOK
<1>1. CASE Poll
  <2>1. script.turn \in Turns
    BY <1>1 DEF Poll, TurnKnown, Watching
  <2>2. CASE UNCHANGED agents
    BY <2>2, AgentsUnchanged
  <2>3. CASE LetGo(script.turn)
    BY <2>1, <2>3, LetGoStep
  <2>4. CASE /\ queue[script.turn] # <<>>
             /\ queue' = [queue EXCEPT ![script.turn] = Tail(@)]
             /\ UNCHANGED <<agent, executed>>
    BY <2>1, <2>4, TakeNote
  <2>5. QED
    BY <1>1, <2>2, <2>3, <2>4 DEF Poll
<1>2. CASE Commit \/ Unset
  <2>1. script.turn \in Turns
    BY <1>2 DEF Commit, Unset, TurnKnown, Watching
  <2>2. LetGo(script.turn) \/ UNCHANGED agents
    BY <1>2 DEF Commit, Unset
  <2>3. QED
    BY <2>1, <2>2, LetGoStep, AgentsUnchanged
<1>3. CASE Interrupt
  <2>1. script.turn \in Turns \cup {0}
    BY DEF PageTypeOK, Script
  <2>2. QED
    BY <1>3, <2>1, LetGoStep, AgentsUnchanged DEF Interrupt
<1>4. CASE UNCHANGED agents
  BY <1>4, AgentsUnchanged
<1>5. QED
  BY <1>1, <1>2, <1>3, <1>4
  DEF PageStep, User, Top, Stopped, Drop, Fresh, Started, Bind, Name, Catalog, Built, Assign,
      AssignKey, Chat, OpenTrace, ShowStatus, Look, Note, CapHistory, Tested, Restarted, Type, Suggest, Enter,
      Toggle, ChooseFile, ClearConversation, TestConnections, Restart, agents

\* StartThread begins a turn, whose prompt is the last message.
LEMMA LaunchStep ==
  ASSUME TypeInv, StartThread
  PROVE  /\ messages # <<>> /\ messages[Len(messages)][1] \in Turns
         /\ script'.turn = messages[Len(messages)][1]
         /\ Launch(script'.turn, script.allow, catalog, script.runtime, messages)
         /\ agent' \in [Turns -> Thread] /\ queue' \in [Turns -> Seq(Notes)]
         /\ executed' = {call \in executed : call[1] # script'.turn}
         /\ agent'[script'.turn].at = "asking"
         /\ agent'[script'.turn].allow = script.allow
         /\ agent'[script'.turn].tools = catalog
         /\ agent'[script'.turn].pool = script.runtime
         /\ agent'[script'.turn].rounds = 0
         /\ queue'[script'.turn] = <<>>
         /\ \A u \in Turns \ {script'.turn} : agent'[u] = agent[u] /\ queue'[u] = queue[u]
<1> DEFINE t == messages[Len(messages)][1]
<1> USE DEF TypeInv, TypeOK
<1>1. messages \in Seq(Message) /\ messages # <<>>
  BY DEF PageTypeOK, TurnKnown, StartThread
<1>2. t \in Turns
  <2>1. Len(messages) \in 1..Len(messages)
    BY <1>1
  <2>2. messages[Len(messages)] \in Message
    BY <1>1, <2>1
  <2>3. QED
    BY <2>2 DEF Message
<1>3. script' = [script EXCEPT !.turn = t] /\ script'.turn = t
  BY DEF StartThread, PageTypeOK, Script
<1>4. Launch(t, script.allow, catalog, script.runtime, messages)
  BY DEF StartThread
<1> DEFINE new == [NoAgent EXCEPT
                 !.at = "asking", !.allow = script.allow, !.tools = catalog,
                 !.pool = script.runtime, !.work = messages, !.held = TRUE]
<1>5. new \in Thread
  <2>1. 0 \in 0..MaxTurns /\ 0 \in 0..MaxCalls
    BY AgentAssumption
  <2>2. script.allow \in BOOLEAN /\ script.runtime \in Runtimes \cup {NoRuntime}
        /\ catalog \in SUBSET Tools
    BY DEF PageTypeOK, Script
  <2>3. QED
    BY <1>1, <2>1, <2>2 DEF Thread, NoAgent
<1>6. /\ new.at = "asking" /\ new.allow = script.allow /\ new.tools = catalog
      /\ new.pool = script.runtime /\ new.rounds = 0
  BY DEF NoAgent
<1>7. agent' = [agent EXCEPT ![t] = new] /\ queue' = [queue EXCEPT ![t] = <<>>]
      /\ executed' = {call \in executed : call[1] # t}
  BY <1>4 DEF Launch
<1>8. <<>> \in Seq(Notes)
  OBVIOUS
<1>9. QED
  <2> HIDE DEF new, t
  <2> QED
    BY <1>1, <1>2, <1>3, <1>4, <1>5, <1>6, <1>7, <1>8 DEF AgentTypeOK, t

LEMMA CapType ==
  ASSUME NEW msgs \in Seq(Message)
  PROVE  Cap(msgs) \in Seq(Message)
<1>1. HistoryLimit \in Nat \ {0} /\ Len(msgs) \in Nat
  BY PageAssumption
<1>2. CASE Len(msgs) > HistoryLimit
  <2>1. Len(msgs) - HistoryLimit + 1 \in 1..Len(msgs) + 1
    BY <1>1, <1>2
  <2>2. Len(msgs) - HistoryLimit + 1 \in 1..Len(msgs) /\ Len(msgs) \in 1..Len(msgs)
    BY <1>1, <1>2
  <2>3. SubSeq(msgs, Len(msgs) - HistoryLimit + 1, Len(msgs)) \in Seq(Message)
    BY <2>2, SubSeqProperties
  <2>4. QED
    BY <1>2, <2>3 DEF Cap
<1>3. CASE ~(Len(msgs) > HistoryLimit)
  BY <1>3 DEF Cap
<1>4. QED
  BY <1>2, <1>3

\* The script of a page that is started again.
LEMMA NoScriptType == NoScript \in Script /\ NoScript.input = "none" /\ NoScript.turn = 0
  BY DEF NoScript, Script

PageInv == RuntimeTypeOK /\ PageTypeOK /\ StartedKnown /\ InputCounts /\ TurnKnown

LEMMA PageTypes ==
  ASSUME TypeInv, PageStep \/ User
  PROVE  PageInv'
<1> USE NoScriptType
    DEF TypeInv, TypeOK, PageInv, PageTypeOK, RuntimeTypeOK, StartedKnown, InputCounts, TurnKnown,
        Watching, Open, Waiting, session, counters, Rerun, EndScript
<1>1. CASE Top
  <2>1. script' \in Script /\ script'.input = script.input
    <3> DEFINE r == IF path = field THEN runtime ELSE NoRuntime
    <3>1. r \in Runtimes \cup {NoRuntime} /\ allow \in BOOLEAN /\ script \in Script
      OBVIOUS
    <3>2. script' = [script EXCEPT !.allow = allow, !.path = field, !.runtime = r]
      BY <1>1 DEF Top
    <3> HIDE DEF r
    <3>3. QED
      BY <3>1, <3>2 DEF Script
  <2>2. page' \in {"catalog", "stopping", "fresh"}
    BY <1>1 DEF Top
  <2>3. QED
    BY <1>1, <2>1, <2>2 DEF Top
<1>2. CASE Stopped
  BY <1>2 DEF Stopped, Unbind
<1>3. CASE Drop
  BY <1>3 DEF Drop, Script
<1>4. CASE Fresh
  <2>1. CASE EndScript /\ path' = NoFile /\ UNCHANGED <<bound, started>>
    BY <1>4, <2>1 DEF Fresh
  <2>2. CASE page' = "catalog" /\ UNCHANGED <<bound, script, path, started>>
    BY <1>4, <2>2 DEF Fresh
  <2>3. CASE /\ started + 1 \in Runtimes /\ page' = "starting"
             /\ ThreadStarts(started + 1) /\ started' = started + 1
             /\ UNCHANGED <<script, path>>
    BY <1>4, <2>3 DEF Fresh, ThreadStarts
  <2>4. QED
    BY <1>4, <2>1, <2>2, <2>3 DEF Fresh
<1>5. CASE Started
  BY <1>5 DEF Started, Script
<1>6. CASE Bind
  BY <1>6 DEF Bind, Script
<1>7. CASE Name
  BY <1>7 DEF Name, Script
<1>8. CASE Catalog
  BY <1>8 DEF Catalog, Script
<1>9. CASE Built
  <2>1. PICK up \in SUBSET Servers :
          script' = [script EXCEPT !.built =
                       IF script.runtime \in bound THEN Offered(up) ELSE {}]
    BY <1>9 DEF Built
  <2>2. (IF script.runtime \in bound THEN Offered(up) ELSE {}) \in SUBSET Tools
    BY DEF Offered
  <2>3. script' \in Script /\ script'.input = script.input
    BY <2>1, <2>2 DEF Script
  <2>4. QED
    BY <1>9, <2>3 DEF Built
<1>10. CASE Assign
  BY <1>10 DEF Assign, Script
<1>11. CASE AssignKey
  <2>1. Key \in Keys
    BY DEF Key, Keys, Script
  <2>2. QED
    BY <1>11, <2>1 DEF AssignKey
<1>12. CASE Chat
  <2>1. CASE Submit
    <3>1. script.input # "none"
      BY <1>12, <2>1 DEF Chat, Submit
    <3>2. <<prompts + 1, "user">> \in Message
      BY <3>1 DEF Message, Roles
    <3>3. messages' \in Seq(Message)
      BY <2>1, <3>2 DEF Submit
    <3>4. QED
      BY <1>12, <2>1, <3>3 DEF Chat, Submit
  <2>2. CASE EndScript /\ UNCHANGED <<messages, running, prompts>>
    BY <1>12, <2>2 DEF Chat
  <2>3. CASE /\ Awaiting /\ page' = "launch" /\ running' = TRUE
             /\ UNCHANGED <<script, messages, prompts>>
    BY <1>12, <2>3 DEF Chat, Awaiting
  <2>4. QED
    BY <1>12, <2>1, <2>2, <2>3 DEF Chat
<1>13. CASE ShowStatus
  BY <1>13 DEF ShowStatus, Script
<1>14. CASE Poll
  <2>1. CASE page' = "look" /\ UNCHANGED script
    BY <1>14, <2>1 DEF Poll
  <2>2. CASE EndScript
    BY <1>14, <2>2 DEF Poll
  <2>3. CASE page' = "commit" /\ script' = [script EXCEPT !.failed = TRUE]
    <3>1. script' \in Script /\ script'.input = script.input /\ script'.turn = script.turn
      BY <2>3 DEF Script
    <3>2. QED
      BY <1>14, <2>3, <3>1 DEF Poll
  <2>4. QED
    BY <1>14, <2>1, <2>2, <2>3 DEF Poll
<1>15. CASE Look
  BY <1>15 DEF Look, Script
<1>16. CASE Commit
  <2>1. script.turn \in Turns /\ agent[script.turn].work \in Seq(Message)
    BY <1>16 DEF Commit, AgentTypeOK, Thread
  <2>2. QED
    BY <1>16, <2>1 DEF Commit
<1>17. CASE Note
  <2>1. <<script.turn, "assistant">> \in Message
    BY <1>17 DEF Note, Message, Roles
  <2>2. messages' = messages \/ messages' = Append(messages, <<script.turn, "assistant">>)
    BY <1>17 DEF Note
  <2>3. messages' \in Seq(Message)
    BY <2>1, <2>2
  <2>4. QED
    BY <1>17, <2>3 DEF Note
<1>18. CASE Unset
  <2>1. page' = "top" /\ script' = NoScript /\ running' = FALSE
    BY <1>18 DEF Unset
  <2>2. UNCHANGED <<bound, messages, traces, allow, field, path, runtime, catalog, key, counters>>
    BY <1>18 DEF Unset
  <2>3. QED
    BY <2>1, <2>2
<1>19. CASE Tested
  BY <1>19 DEF Tested, Script
<1>20. CASE Restarted
  BY <1>20 DEF Restarted, Unbind
<1>21. CASE StartThread
  <2>1. script'.turn \in Turns
    BY <1>21, LaunchStep
  <2>2. page' = "status" /\ script' = [script EXCEPT !.turn = script'.turn]
    <3>1. page' = "status"
          /\ script' = [script EXCEPT !.turn = messages[Len(messages)][1]]
      BY <1>21 DEF StartThread
    <3>2. script'.turn = messages[Len(messages)][1]
      BY <1>21, LaunchStep
    <3>3. QED
      BY <3>1, <3>2, Zenon
  <2>3. script' \in Script /\ script'.input = script.input
    BY <2>1, <2>2 DEF Script
  <2>4. UNCHANGED <<bound, session, counters>>
    BY <1>21 DEF StartThread
  <2>5. QED
    BY <2>1, <2>2, <2>3, <2>4
<1>22. CASE Type \/ Suggest
  BY <1>22 DEF Type, Suggest, Enter, Script
<1>23. CASE Toggle \/ ChooseFile \/ ClearConversation \/ TestConnections \/ Restart
  <2>1. Interrupt
    BY <1>23 DEF Toggle, ChooseFile, ClearConversation, TestConnections, Restart
  <2>2. acts' \in Nat /\ UNCHANGED <<running, prompts, started>>
    BY <2>1 DEF Interrupt
  <2>3. torn' \in BOOLEAN
    BY <2>1 DEF Interrupt
  <2>4. CASE Toggle
    BY <2>2, <2>3, <2>4 DEF Toggle
  <2>5. CASE ChooseFile
    BY <2>2, <2>3, <2>5 DEF ChooseFile
  <2>6. CASE ClearConversation
    <3>1. messages' \in Seq(Message)
      BY <2>6 DEF ClearConversation
    <3>2. QED
      BY <2>2, <2>3, <2>6, <3>1 DEF ClearConversation
  <2>7. CASE TestConnections \/ Restart
    BY <2>2, <2>3, <2>7 DEF TestConnections, Restart
  <2>8. QED
    BY <1>23, <2>4, <2>5, <2>6, <2>7
<1>24. CASE CapHistory
  BY <1>24, CapType DEF CapHistory
<1>25. CASE OpenTrace
  BY <1>25 DEF OpenTrace
<1>26. QED
  BY <1>1, <1>2, <1>3, <1>4, <1>5, <1>6, <1>7, <1>8, <1>9, <1>10, <1>11, <1>12, <1>13,
     <1>14, <1>15, <1>16, <1>17, <1>18, <1>19, <1>20, <1>21, <1>22, <1>23, <1>24, <1>25
  DEF PageStep, User

\* Types of the threads through a step of the page, a launch and a thread's own step.
LEMMA AgentTypes ==
  ASSUME TypeInv, Next
  PROVE  AgentTypeOK' /\ RoundsLeft'
<1> USE DEF TypeInv, TypeOK
<1>1. CASE (PageStep \/ User) /\ ~StartThread
  <2>1. Untouched
    BY <1>1, PageUntouched
  <2>2. AgentTypeOK'
    BY <2>1 DEF Untouched, AgentTypeOK
  <2>3. \A t \in Turns : agent'[t].at = agent[t].at /\ agent'[t].rounds = agent[t].rounds
    BY <2>1 DEF Untouched, Same
  <2>4. QED
    BY <2>2, <2>3 DEF RoundsLeft, Working
<1>2. CASE StartThread
  <2> DEFINE t == script'.turn
  <2>1. AgentTypeOK'
    BY <1>2, LaunchStep DEF AgentTypeOK
  <2>2. agent'[t].rounds = 0 /\ \A u \in Turns \ {t} : agent'[u] = agent[u]
    BY <1>2, LaunchStep
  <2>3. MaxTurns \in Nat \ {0}
    BY AgentAssumption
  <2>4. QED
    <3> HIDE DEF t
    <3> QED
      BY <2>1, <2>2, <2>3 DEF RoundsLeft, Working
<1>3. CASE \E t \in Turns : Work(t)
  <2>1. PICK t \in Turns : AgentStep(t)
    BY <1>3 DEF Work
  <2>2. PICK new \in Thread, q \in Seq(Notes), done \in SUBSET ({t} \X ChangingTools) :
          Moves(t, new, q, done)
    BY <2>1, ThreadStep
  <2>3. AgentTypeOK'
    BY <2>2 DEF Moves, AgentTypeOK
  <2>4. RoundsLeft'
    BY <2>2 DEF Moves, AgentTypeOK, RoundsLeft, Working
  <2>5. QED
    BY <2>3, <2>4
<1>4. QED
  BY <1>1, <1>2, <1>3 DEF Next

LEMMA InitTypes == Init => TypeInv
<1> SUFFICES ASSUME Init PROVE TypeInv
  OBVIOUS
<1>1. AgentTypeOK /\ RoundsLeft
  <2>1. NoAgent \in Thread /\ NoAgent.at = "none"
    <3>1. 0 \in 0..MaxTurns /\ 0 \in 0..MaxCalls /\ <<>> \in Seq(Message)
      BY AgentAssumption
    <3>2. QED
      BY <3>1 DEF NoAgent, Thread
  <2>2. <<>> \in Seq(Notes)
    OBVIOUS
  <2>3. QED
    BY <2>1, <2>2 DEF Init, AgentInit, AgentTypeOK, RoundsLeft, Working
<1>2. PageInv
  <2>1. messages \in Seq(Message)
    BY DEF Init
  <2>2. QED
    BY <2>1, NoScriptType, PageAssumption
    DEF Init, RuntimeInit, PageInv, PageTypeOK, RuntimeTypeOK, StartedKnown, InputCounts,
        TurnKnown, Watching
<1>3. QED
  BY <1>1, <1>2 DEF TypeInv, TypeOK, PageInv

LEMMA NextTypes == TypeInv /\ [Next]_vars => TypeInv'
<1> SUFFICES ASSUME TypeInv, [Next]_vars PROVE TypeInv'
  OBVIOUS
<1>1. CASE Next
  <2>1. AgentTypeOK' /\ RoundsLeft'
    BY <1>1, AgentTypes
  <2>2. CASE PageStep \/ User
    BY <2>1, <2>2, PageTypes DEF TypeInv, TypeOK, PageInv
  <2>3. CASE \E t \in Turns : Work(t)
    <3>1. UNCHANGED <<bound, page, script, session, counters>>
      BY <2>3 DEF Work
    <3>2. PageInv'
      BY <3>1
      DEF TypeInv, TypeOK, session, counters, PageInv, PageTypeOK, RuntimeTypeOK, StartedKnown,
          InputCounts, TurnKnown
    <3>3. QED
      BY <2>1, <3>2 DEF TypeInv, TypeOK, PageInv
  <2>4. QED
    BY <1>1, <2>2, <2>3 DEF Next
<1>2. CASE UNCHANGED vars
  BY <1>2
  DEF vars, agents, session, counters, TypeInv, TypeOK, AgentTypeOK, RoundsLeft, Working,
      PageTypeOK, RuntimeTypeOK, StartedKnown, InputCounts, TurnKnown
<1>3. QED
  BY <1>1, <1>2

-----------------------------------------------------------------------------
(* What the runs check.                                                     *)

\* A thread that has put an error does not go on.
ErrorsEnd == \A t \in Turns : Working(t) => NoError(queue[t])

\* While a thread is inside a turn the page is held to be running, and a page that
\* watches over a turn, or is about to begin one, knows of no other.
OneRuns ==
  /\ \A t \in Turns : Working(t) => running
  /\ page = "launch" => running /\ \A t \in Turns : ~Working(t)
  /\ page \in Watching => running /\ \A t \in Turns \ {script.turn} : ~Working(t)
  /\ page \in {"commit", "note", "cap", "unset"} => ~Working(script.turn)

AgentInv == TypeInv /\ ErrorsEnd /\ OneRuns /\ ReadOnlyTurnsNeverWrite

LEMMA PageRuns ==
  ASSUME AgentInv, PageStep \/ User
  PROVE  ErrorsEnd' /\ OneRuns' /\ ReadOnlyTurnsNeverWrite'
<1> USE DEF AgentInv, TypeInv, TypeOK
<1>1. CASE StartThread
  <2>1. PICK t \in Turns :
          /\ t = script'.turn /\ agent'[t].at = "asking" /\ queue'[t] = <<>>
          /\ \A u \in Turns \ {t} : agent'[u] = agent[u] /\ queue'[u] = queue[u]
          /\ executed' = {call \in executed : call[1] # t}
    BY <1>1, LaunchStep
  <2>2. page' = "status" /\ running' = running /\ running
        /\ \A u \in Turns : ~Working(u)
    BY <1>1 DEF StartThread, OneRuns, session
  <2>3. \A u \in Turns \ {t} : ~Working(u)'
    BY <2>1, <2>2 DEF Working
  <2>4. NoError(queue'[t])
    BY <2>1 DEF NoError
  <2>5. ErrorsEnd'
    BY <2>3, <2>4 DEF ErrorsEnd
  <2>6. OneRuns'
    BY <2>1, <2>2, <2>3 DEF OneRuns, Watching, Working
  <2>7. \A call \in executed' : call[1] \in Turns \ {t} /\ call \in executed
    <3>1. \A call \in executed : call[1] \in Turns
      BY DEF AgentTypeOK
    <3>2. QED
      BY <2>1, <3>1
  <2>8. ReadOnlyTurnsNeverWrite'
    <3>1. \A call \in executed' : agent'[call[1]].allow = agent[call[1]].allow
      BY <2>1, <2>7
    <3>2. QED
      BY <2>7, <3>1 DEF ReadOnlyTurnsNeverWrite
  <2>9. QED
    BY <2>5, <2>6, <2>8
<1>2. CASE ~StartThread
  <2>1. Untouched
    BY <1>2, PageUntouched
  <2>2. \A t \in Turns : agent'[t].at = agent[t].at /\ agent'[t].allow = agent[t].allow
    BY <2>1 DEF Untouched, Same
  <2>3. ErrorsEnd'
    BY <2>1, <2>2 DEF Untouched, ErrorsEnd, Working
  <2>4. ReadOnlyTurnsNeverWrite'
    <3>1. \A call \in executed : call[1] \in Turns
      BY DEF AgentTypeOK
    <3>2. QED
      BY <2>1, <2>2, <3>1 DEF Untouched, ReadOnlyTurnsNeverWrite
  <2>5. OneRuns'
    <3>1. CASE Chat
      BY <2>2, <3>1 DEF Chat, Submit, Rerun, EndScript, OneRuns, Watching, Working, TurnKnown
    <3>2. CASE ShowStatus
      BY <2>2, <3>2 DEF ShowStatus, session, OneRuns, Watching, Working, TurnKnown
    <3>3. CASE Poll
      <4>1. script.turn \in Turns /\ queue[script.turn] \in Seq(Notes)
        BY <3>3 DEF Poll, TurnKnown, Watching, AgentTypeOK
      <4>2. page' = "commit" => ~Working(script.turn)
        <5> SUFFICES ASSUME page' = "commit" PROVE ~Working(script.turn)
          OBVIOUS
        <5>1. queue[script.turn] # <<>> /\ Head(queue[script.turn]) = "error"
          BY <3>3 DEF Poll, EndScript
        <5>2. queue[script.turn][1] = "error" /\ 1 \in 1..Len(queue[script.turn])
          BY <4>1, <5>1
        <5>3. QED
          BY <4>1, <5>2 DEF ErrorsEnd, NoError
      <4>3. page' \in {"look", "idle", "commit"}
            /\ (page' # "idle" => script'.turn = script.turn)
        BY <3>3 DEF Poll, EndScript, PageTypeOK, Script
      <4>4. running' = running
        BY <3>3 DEF Poll, session
      <4>5. QED
        BY <2>2, <3>3, <4>1, <4>2, <4>3, <4>4 DEF Poll, OneRuns, Watching, Working
    <3>4. CASE Look
      BY <2>2, <3>4 DEF Look, Over, Lives, Working, session, OneRuns, Watching, TurnKnown
    <3>5. CASE Commit
      BY <2>2, <3>5 DEF Commit, EndScript, OneRuns, Watching, Working, TurnKnown
    <3>6. CASE Note \/ CapHistory
      BY <2>2, <3>6 DEF Note, CapHistory, OneRuns, Watching, Working, TurnKnown
    <3>7. CASE Unset
      BY <2>2, <3>7 DEF Unset, Rerun, OneRuns, Watching, Working, TurnKnown
    <3>8. CASE running' = running /\ page' \notin Watching \cup {"launch"}
      BY <2>2, <3>8 DEF OneRuns, Watching, Working
    <3>9. QED
      BY <1>2, <3>1, <3>2, <3>3, <3>4, <3>5, <3>6, <3>7, <3>8
      DEF PageStep, User, Top, Stopped, Drop, Fresh, Started, Bind, Name, Catalog, Built, Assign,
          AssignKey, OpenTrace, Tested, Restarted, Rerun, EndScript, session, Type, Suggest, Enter, Toggle,
          ChooseFile, ClearConversation, TestConnections, Restart, Interrupt, Watching
  <2>6. QED
    BY <2>3, <2>4, <2>5
<1>3. QED
  BY <1>1, <1>2

LEMMA WorkRuns ==
  ASSUME AgentInv, NEW t \in Turns, Work(t)
  PROVE  ErrorsEnd' /\ OneRuns' /\ ReadOnlyTurnsNeverWrite'
<1> USE DEF AgentInv, TypeInv, TypeOK
<1>1. PICK new \in Thread, q \in Seq(Notes), done \in SUBSET ({t} \X ChangingTools) :
        Moves(t, new, q, done)
  BY ThreadStep DEF Work
<1>2. /\ agent'[t] = new /\ queue'[t] = q
      /\ \A u \in Turns \ {t} : agent'[u] = agent[u] /\ queue'[u] = queue[u]
  BY <1>1 DEF Moves, AgentTypeOK
<1>3. \A u \in Turns : Working(u)' => Working(u)
  BY <1>1, <1>2 DEF Moves, Working
<1>4. ErrorsEnd'
  BY <1>1, <1>2, <1>3 DEF Moves, ErrorsEnd, Working
<1>5. OneRuns'
  <2>1. UNCHANGED <<page, script, running>>
    BY DEF Work, session
  <2>2. \A u \in Turns : agent'[u].at \in {"asking", "routing"} =>
                            agent[u].at \in {"asking", "routing"}
    BY <1>3 DEF Working
  <2>3. page \in Watching => script.turn \in Turns
    BY DEF TurnKnown
  <2>4. QED
    BY <2>1, <2>2, <2>3 DEF OneRuns, Watching, Working
<1>6. ReadOnlyTurnsNeverWrite'
  <2>1. \A u \in Turns : agent'[u].allow = agent[u].allow
    BY <1>1, <1>2 DEF Moves
  <2>2. \A call \in executed : call[1] \in Turns
    BY DEF AgentTypeOK
  <2>3. \A call \in executed' : call \in executed \/ (call[1] = t /\ agent[t].allow)
    BY <1>1 DEF Moves
  <2>4. QED
    BY <2>1, <2>2, <2>3 DEF ReadOnlyTurnsNeverWrite
<1>7. QED
  BY <1>4, <1>5, <1>6

LEMMA InitRuns == Init => AgentInv
<1> SUFFICES ASSUME Init PROVE AgentInv
  OBVIOUS
<1>1. \A t \in Turns : ~Working(t)
  BY DEF Init, AgentInit, NoAgent, Working
<1>2. QED
  BY <1>1, InitTypes
  DEF Init, AgentInit, AgentInv, ErrorsEnd, OneRuns, Watching, ReadOnlyTurnsNeverWrite

LEMMA NextRuns == AgentInv /\ [Next]_vars => AgentInv'
<1> SUFFICES ASSUME AgentInv, [Next]_vars PROVE AgentInv'
  OBVIOUS
<1>1. TypeInv'
  BY NextTypes DEF AgentInv
<1>2. CASE PageStep \/ User
  BY <1>1, <1>2, PageRuns DEF AgentInv
<1>3. CASE \E t \in Turns : Work(t)
  BY <1>1, <1>3, WorkRuns DEF AgentInv
<1>4. CASE UNCHANGED vars
  BY <1>1, <1>4
  DEF vars, agents, session, AgentInv, ErrorsEnd, OneRuns, ReadOnlyTurnsNeverWrite, Watching,
      Working
<1>5. QED
  BY <1>2, <1>3, <1>4 DEF Next

-----------------------------------------------------------------------------
(* The catalog.                                                             *)

Admitted(tools, write) == \A tool \in tools : catalog_allowed(tool, write)

\* Along the page: what is built fits the script's setting, what is stored fits the
\* key, and what a turn is begun with fits the script's setting again.
CatalogFits ==
  /\ page = "assign" => Admitted(script.built, script.allow)
  /\ page = "key" => Admitted(catalog, script.allow)
  /\ ~torn /\ page # "key" /\ key # NoKey => Admitted(catalog, key[2])
  /\ ~torn /\ page \in {"chat", "launch"} /\ script.runtime # NoRuntime =>
       Admitted(catalog, script.allow)

CatalogInv == TypeInv /\ CatalogFits /\ CatalogFitsTurn

LEMMA PageCatalog ==
  ASSUME CatalogInv, PageStep \/ User
  PROVE  CatalogFits'
<1> USE DEF CatalogInv, TypeInv, TypeOK, CatalogFits
<1>1. CASE Catalog
  <2>1. CASE page' = "building"
    BY <1>1, <2>1 DEF Catalog, session, counters
  <2>2. CASE page' = "chat"
    <3>1. script.runtime = NoRuntime \/ key = Key
      BY <1>1, <2>2 DEF Catalog
    <3>2. key = Key => key # NoKey /\ key[2] = script.allow
      BY DEF Key, NoKey
    <3>3. QED
      BY <1>1, <2>2, <3>1, <3>2 DEF Catalog, session, counters
  <2>3. QED
    BY <1>1, <2>1, <2>2 DEF Catalog
<1>2. CASE Built
  <2>1. PICK up \in SUBSET Servers :
          script' = [script EXCEPT !.built =
                       IF script.runtime \in bound THEN Offered(up) ELSE {}]
    BY <1>2 DEF Built
  <2>2. script'.built \subseteq Offered(up) /\ script'.allow = script.allow
    BY <2>1 DEF PageTypeOK, Script
  <2>3. Admitted(script'.built, script'.allow)
    BY <2>2 DEF Admitted, Offered
  <2>4. QED
    BY <1>2, <2>3 DEF Built, session, counters, Admitted
<1>3. CASE Assign
  BY <1>3 DEF Assign, counters, Admitted
<1>4. CASE AssignKey
  <2>1. key' = <<path, script.allow>> /\ key'[2] = script.allow
    BY <1>4 DEF AssignKey, Key
  <2>2. QED
    BY <1>4, <2>1 DEF AssignKey, counters, Admitted
<1>5. CASE Chat
  BY <1>5 DEF Chat, Submit, Rerun, EndScript, counters, Admitted
<1>6. CASE Toggle \/ ChooseFile \/ ClearConversation \/ TestConnections \/ Restart
  <2>1. torn' = (torn \/ page = "key")
    BY <1>6 DEF Interrupt, Toggle, ChooseFile, ClearConversation, TestConnections, Restart
  <2>2. page' \in {"top", "testing", "restarting"}
    BY <1>6 DEF Rerun, Toggle, ChooseFile, ClearConversation, TestConnections, Restart
  <2>3. key' = NoKey \/ UNCHANGED <<catalog, key>>
    BY <1>6 DEF Toggle, ChooseFile, ClearConversation, TestConnections, Restart
  <2>4. QED
    BY <2>1, <2>2, <2>3 DEF Admitted
<1>7. CASE /\ page # "key" /\ page' \notin {"assign", "key", "chat", "launch"}
           /\ torn' = torn /\ (key' = NoKey \/ UNCHANGED <<catalog, key>>)
  BY <1>7 DEF Admitted
<1>8. QED
  BY <1>1, <1>2, <1>3, <1>4, <1>5, <1>6, <1>7
  DEF PageStep, User, Top, Stopped, Drop, Fresh, Started, Bind, Name, StartThread, ShowStatus,
      OpenTrace, Poll, Look, Commit, Note, CapHistory, Unset, Tested, Restarted, Type, Suggest, Enter, Rerun,
      EndScript, session, counters

LEMMA TornStays ==
  ASSUME PageInv, PageStep \/ User, torn
  PROVE  torn'
  BY DEF PageStep, User, Top, Stopped, Drop, Fresh, Started, Bind, Name, Catalog, Built, Assign,
     AssignKey, Chat, OpenTrace, StartThread, ShowStatus, Poll, Look, Commit, Note, CapHistory, Unset, Tested,
     Restarted, Type, Suggest, Enter, Toggle, ChooseFile, ClearConversation, TestConnections,
     Restart, Interrupt, counters

LEMMA PageFits ==
  ASSUME CatalogInv, PageStep \/ User
  PROVE  CatalogFitsTurn'
<1> USE DEF CatalogInv, TypeInv, TypeOK
<1>1. torn => torn'
  BY TornStays DEF PageInv
<1>2. CASE StartThread
  <2>1. PICK t \in Turns :
          /\ agent'[t].tools = catalog /\ agent'[t].allow = script.allow
          /\ agent'[t].pool = script.runtime
          /\ \A u \in Turns \ {t} : agent'[u] = agent[u]
    BY <1>2, LaunchStep
  <2>2. script.runtime # NoRuntime /\ ~torn => Admitted(catalog, script.allow)
    BY <1>2 DEF CatalogFits, StartThread
  <2>3. QED
    BY <1>1, <2>1, <2>2 DEF CatalogFitsTurn, Admitted
<1>3. CASE ~StartThread
  <2>1. Untouched
    BY <1>3, PageUntouched
  <2>2. QED
    BY <1>1, <2>1 DEF Untouched, Same, CatalogFitsTurn
<1>4. QED
  BY <1>2, <1>3

LEMMA InitCatalog == Init => CatalogInv
<1> SUFFICES ASSUME Init PROVE CatalogInv
  OBVIOUS
<1>1. \A t \in Turns : agent[t].pool = NoRuntime
  BY DEF Init, AgentInit, NoAgent
<1>2. QED
  BY <1>1, InitTypes DEF Init, CatalogInv, CatalogFits, CatalogFitsTurn

LEMMA NextCatalog == CatalogInv /\ [Next]_vars => CatalogInv'
<1> SUFFICES ASSUME CatalogInv, [Next]_vars PROVE CatalogInv'
  OBVIOUS
<1>1. TypeInv'
  BY NextTypes DEF CatalogInv
<1>2. CASE PageStep \/ User
  BY <1>1, <1>2, PageCatalog, PageFits DEF CatalogInv
<1>3. CASE \E t \in Turns : Work(t)
  <2>1. PICK t \in Turns : Work(t)
    BY <1>3
  <2>2. PICK new \in Thread, q \in Seq(Notes), done \in SUBSET ({t} \X ChangingTools) :
          Moves(t, new, q, done)
    BY <2>1, ThreadStep DEF Work, CatalogInv, TypeInv, TypeOK
  <2>3. agent'[t] = new /\ \A u \in Turns \ {t} : agent'[u] = agent[u]
    BY <2>2 DEF Moves, CatalogInv, TypeInv, TypeOK, AgentTypeOK
  <2>4. UNCHANGED <<page, script, session, counters>>
    BY <2>1 DEF Work
  <2>5. CatalogFitsTurn'
    BY <2>2, <2>3, <2>4 DEF Moves, CatalogInv, CatalogFitsTurn, counters
  <2>6. CatalogFits'
    BY <2>4 DEF CatalogInv, CatalogFits, session, counters, Admitted
  <2>7. QED
    BY <1>1, <2>5, <2>6 DEF CatalogInv
<1>4. CASE UNCHANGED vars
  BY <1>1, <1>4
  DEF vars, agents, session, counters, CatalogInv, CatalogFits, CatalogFitsTurn, Admitted
<1>5. QED
  BY <1>2, <1>3, <1>4 DEF Next

-----------------------------------------------------------------------------
\* The page, its threads and its runtimes keep their types.
THEOREM TypeCorrect == Spec => []TypeOK
<1>1. TypeInv => TypeOK
  BY DEF TypeInv
<1>2. QED
  BY <1>1, InitTypes, NextTypes, PTL DEF Spec

\* The inductive invariant of the turns: while one is under way the page is held to
\* be running, and what has put an error does not go on.
THEOREM Inductive == Spec => []AgentInv
  BY InitRuns, NextRuns, PTL DEF Spec

\* ToolRouter.execute asks the policy again: no turn that may not write ever hands a
\* changing call to the pool, for any catalog and any requests of the model.
THEOREM NeverWrites == Spec => []ReadOnlyTurnsNeverWrite
<1>1. AgentInv => ReadOnlyTurnsNeverWrite
  BY DEF AgentInv
<1>2. QED
  BY <1>1, Inductive, PTL

\* _run_turn starts a thread only when no other one is inside a turn, whatever has
\* been interrupted or has failed before.
THEOREM OneAtATime == Spec => OneAgentAtATime
<1>1. AgentInv /\ [Next]_vars =>
        [page = "launch" /\ page' = "status" => \A t \in Turns : ~Working(t)]_vars
  BY DEF AgentInv, OneRuns
<1>2. QED
  BY <1>1, Inductive, PTL DEF Spec, OneAgentAtATime

\* _get_catalog never serves a turn the catalog of another setting, unless its script
\* was once stopped between the assignments of catalog and key.
THEOREM CatalogsFit == Spec => []CatalogFitsTurn
<1>1. CatalogInv => CatalogFitsTurn
  BY DEF CatalogInv
<1>2. QED
  BY <1>1, InitCatalog, NextCatalog, PTL DEF Spec
-----------------------------------------------------------------------------
(* The conversation.                                                        *)

\* Sequences, element by element.
Extends(less, more) ==
  Len(less) <= Len(more) /\ \A i \in 1..Len(less) : more[i] = less[i]

Ends(less, more) ==
  Len(less) <= Len(more) /\ \A i \in 1..Len(less) : less[i] = more[Len(more) - Len(less) + i]

LEMMA PrefixOf ==
  ASSUME NEW S, NEW s \in Seq(S), NEW t \in Seq(S), Extends(s, t)
  PROVE  IsPrefix(s, t)
<1> DEFINE n == Len(s)
<1>1. n \in Nat /\ Len(t) \in Nat /\ n <= Len(t)
  BY LenProperties DEF Extends
<1>2. \A i \in 1..n : s[i] \in S /\ t[i] \in S
  BY <1>1, ElementOfSeq
<1>3. /\ SubSeq(s, 1, n) \in Seq(S) /\ Len(SubSeq(s, 1, n)) = n
      /\ \A i \in 1..n : SubSeq(s, 1, n)[i] = s[i]
  <2> HIDE DEF n
  <2> QED
    BY <1>1, <1>2, SubSeqProperties
<1>4. /\ SubSeq(t, 1, n) \in Seq(S) /\ Len(SubSeq(t, 1, n)) = n
      /\ \A i \in 1..n : SubSeq(t, 1, n)[i] = t[i]
  <2> HIDE DEF n
  <2> QED
    BY <1>1, <1>2, SubSeqProperties
<1>5. SubSeq(s, 1, n) = SubSeq(t, 1, n)
  <2>1. \A i \in 1..n : SubSeq(s, 1, n)[i] = SubSeq(t, 1, n)[i]
    BY <1>3, <1>4 DEF Extends
  <2> HIDE DEF n
  <2> QED
    BY <1>3, <1>4, <2>1, SeqEqual
<1>6. QED
  BY <1>1, <1>5 DEF IsPrefix

LEMMA Backwards ==
  ASSUME NEW S, NEW s \in Seq(S)
  PROVE  /\ Reverse(s) \in Seq(S) /\ Len(Reverse(s)) = Len(s)
         /\ \A i \in 1..Len(s) : Reverse(s)[i] = s[Len(s) - i + 1]
<1>1. Len(s) \in Nat
  BY LenProperties
<1>2. \A i \in 1..Len(s) : (Len(s) - i) + 1 \in 1..Len(s)
  BY <1>1
<1>3. \A i \in 1..Len(s) : s[(Len(s) - i) + 1] \in S
  BY <1>1, <1>2, ElementOfSeq
<1>4. QED
  BY <1>1, <1>3 DEF Reverse

LEMMA SuffixOf ==
  ASSUME NEW S, NEW s \in Seq(S), NEW t \in Seq(S), Ends(s, t)
  PROVE  IsSuffix(s, t)
<1>1. Len(s) \in Nat /\ Len(t) \in Nat /\ Len(s) <= Len(t)
  BY LenProperties DEF Ends
<1>2. /\ Reverse(s) \in Seq(S) /\ Len(Reverse(s)) = Len(s)
      /\ Reverse(t) \in Seq(S) /\ Len(Reverse(t)) = Len(t)
  BY Backwards
<1>3. \A i \in 1..Len(s) : Reverse(t)[i] = Reverse(s)[i]
  <2> TAKE i \in 1..Len(s)
  <2>1. i \in 1..Len(t) /\ Len(s) - i + 1 \in 1..Len(s)
    BY <1>1
  <2>2. Reverse(s)[i] = s[Len(s) - i + 1] /\ Reverse(t)[i] = t[Len(t) - i + 1]
    BY <2>1, Backwards
  <2>3. s[Len(s) - i + 1] = t[Len(t) - Len(s) + (Len(s) - i + 1)]
    BY <2>1 DEF Ends
  <2>4. Len(t) - Len(s) + (Len(s) - i + 1) = Len(t) - i + 1
    BY <1>1
  <2>5. QED
    BY <2>2, <2>3, <2>4
<1>4. QED
  <2>1. Extends(Reverse(s), Reverse(t))
    BY <1>1, <1>2, <1>3 DEF Extends
  <2>2. QED
    BY <1>2, <2>1, PrefixOf DEF IsSuffix

\* The cap keeps the newest messages.
LEMMA CapEnds ==
  ASSUME NEW msgs \in Seq(Message)
  PROVE  /\ Ends(Cap(msgs), msgs)
         /\ Cap(msgs) # msgs => Len(Cap(msgs)) = HistoryLimit /\ HistoryLimit < Len(msgs)
<1>1. HistoryLimit \in Nat \ {0} /\ Len(msgs) \in Nat
  BY PageAssumption, LenProperties
<1>2. CASE Len(msgs) > HistoryLimit
  <2> DEFINE first == Len(msgs) - HistoryLimit + 1
             kept  == SubSeq(msgs, first, Len(msgs))
  <2>1. first \in Nat /\ first >= 1 /\ first <= Len(msgs) /\ Len(msgs) - first + 1 = HistoryLimit
    BY <1>1, <1>2
  <2>2. \A i \in first..Len(msgs) : msgs[i] \in Message
    BY <1>1, <2>1, ElementOfSeq
  <2>3. Len(kept) = HistoryLimit /\ \A i \in 1..HistoryLimit : kept[i] = msgs[first + i - 1]
    <3> HIDE DEF first
    <3> QED
      BY <1>1, <2>1, <2>2, SubSeqProperties
  <2>4. \A i \in 1..HistoryLimit : first + i - 1 = Len(msgs) - HistoryLimit + i
    BY <1>1
  <2>5. Cap(msgs) = kept
    BY <1>2 DEF Cap
  <2>6. Ends(kept, msgs)
    <3> HIDE DEF kept
    <3> QED
      BY <1>1, <1>2, <2>3, <2>4 DEF Ends
  <2>7. QED
    <3> HIDE DEF kept
    <3> QED
      BY <1>2, <2>3, <2>5, <2>6
<1>3. CASE ~(Len(msgs) > HistoryLimit)
  <2>1. Cap(msgs) = msgs
    BY <1>3 DEF Cap
  <2>2. \A i \in 1..Len(msgs) : Len(msgs) - Len(msgs) + i = i
    BY <1>1
  <2>3. QED
    BY <1>1, <2>1, <2>2 DEF Ends
<1>4. QED
  BY <1>2, <1>3

\* While the page watches over a turn and has not taken its conversation yet, the
\* thread's conversation is the page's, and what the turn has added.
Holding ==
  page \in {"status", "poll", "look", "commit"} =>
    agent[script.turn].held /\ Extends(messages, agent[script.turn].work)

KeptInv == AgentInv /\ Holding

LEMMA Itself ==
  ASSUME NEW S, NEW s \in Seq(S)
  PROVE  Extends(s, s)
  BY LenProperties DEF Extends

LEMMA OneMore ==
  ASSUME NEW S, NEW s \in Seq(S), NEW e \in S
  PROVE  Extends(s, Append(s, e))
<1>1. Len(s) \in Nat /\ Len(Append(s, e)) = Len(s) + 1
      /\ \A i \in 1..Len(s) : Append(s, e)[i] = s[i]
  BY LenProperties, AppendProperties
<1>2. QED
  BY <1>1 DEF Extends

LEMMA Further ==
  ASSUME NEW S, NEW r \in Seq(S), NEW s \in Seq(S), NEW t \in Seq(S),
         Extends(r, s), Extends(s, t)
  PROVE  Extends(r, t)
<1>1. Len(r) \in Nat /\ Len(s) \in Nat /\ Len(t) \in Nat
      /\ Len(r) <= Len(s) /\ Len(s) <= Len(t)
  BY LenProperties DEF Extends
<1>2. \A i \in 1..Len(r) : i \in 1..Len(s)
  BY <1>1
<1>3. QED
  BY <1>1, <1>2 DEF Extends

\* A step of a thread only adds to its conversation, and lets nobody go.
Grows(old, new) == new.held = old.held /\ Extends(old.work, new.work)

LEMMA SayGrows ==
  ASSUME AgentTypeOK, NEW t \in Turns, NEW role \in Roles, NEW new \in Thread,
         new.work = agent[t].work, new.held = agent[t].held, Say(t, role, new)
  PROVE  \A u \in Turns : Grows(agent[u], agent'[u])
<1> DEFINE more == [new EXCEPT !.work = IF new.held THEN Append(new.work, <<t, role>>)
                                                   ELSE new.work]
<1>1. \A u \in Turns : agent[u] \in Thread /\ agent[u].work \in Seq(Message)
  BY DEF AgentTypeOK, Thread
<1>2. <<t, role>> \in Message
  BY DEF Message
<1>3. Extends(agent[t].work, more.work) /\ more.held = agent[t].held
  <2>1. more.work = IF new.held THEN Append(new.work, <<t, role>>) ELSE new.work
    BY DEF Thread
  <2>2. more.held = agent[t].held
    BY DEF Thread
  <2>3. QED
    BY <1>1, <1>2, <2>1, <2>2, Itself, OneMore
<1>4. agent' = [agent EXCEPT ![t] = more]
  BY DEF Say
<1>5. QED
  <2> HIDE DEF more
  <2> TAKE u \in Turns
  <2>1. CASE u = t
    BY <1>3, <1>4, <2>1 DEF Grows, AgentTypeOK
  <2>2. CASE u # t
    BY <1>1, <1>4, <2>2, Itself DEF Grows, AgentTypeOK
  <2>3. QED
    BY <2>1, <2>2

LEMMA ThreadGrows ==
  ASSUME AgentTypeOK, NEW t \in Turns, AgentStep(t)
  PROVE  \A u \in Turns : Grows(agent[u], agent'[u])
<1>1. agent[t] \in Thread /\ \A u \in Turns : agent[u].work \in Seq(Message)
  BY DEF AgentTypeOK, Thread
<1>2. CASE LlmFails(t) \/ RoundEnds(t) \/ Dies(t)
  <2>1. PICK new : /\ agent' = [agent EXCEPT ![t] = new]
                   /\ new.held = agent[t].held /\ new.work = agent[t].work
    <3>1. CASE LlmFails(t)
      <4> DEFINE new == [agent[t] EXCEPT !.at = "finishing", !.failed = agent[t].held]
      <4>1. agent' = [agent EXCEPT ![t] = new]
        BY <3>1 DEF LlmFails, AgentTypeOK, Thread
      <4>2. new.held = agent[t].held /\ new.work = agent[t].work
        BY <1>1 DEF Thread
      <4>3. QED
        BY <4>1, <4>2
    <3>2. CASE RoundEnds(t)
      <4> DEFINE last == agent[t].rounds + 1 = MaxTurns
                 new  == [agent[t] EXCEPT
                           !.at = IF last THEN "finishing" ELSE "asking",
                           !.rounds = agent[t].rounds + 1, !.stopped = last /\ agent[t].held]
      <4>1. agent' = [agent EXCEPT ![t] = new]
        BY <3>2 DEF RoundEnds
      <4>2. new.held = agent[t].held /\ new.work = agent[t].work
        BY <1>1 DEF Thread
      <4>3. QED
        BY <4>1, <4>2
    <3>3. CASE Dies(t)
      <4> DEFINE new == [agent[t] EXCEPT !.at = "dead", !.tools = {}, !.pool = NoRuntime,
                                         !.rounds = 0, !.calls = 0]
      <4>1. agent' = [agent EXCEPT ![t] = new]
        BY <3>3 DEF Dies
      <4>2. new.held = agent[t].held /\ new.work = agent[t].work
        BY <1>1 DEF Thread
      <4>3. QED
        BY <4>1, <4>2
    <3>4. QED
      BY <1>2, <3>1, <3>2, <3>3
  <2>2. \A u \in Turns : agent'[u].held = agent[u].held /\ agent'[u].work = agent[u].work
    BY <2>1 DEF AgentTypeOK
  <2>3. QED
    BY <1>1, <2>2, Itself DEF Grows
<1>3. CASE LlmAnswers(t)
  <2> DEFINE new == [agent[t] EXCEPT !.at = "finishing"]
  <2>1. new \in Thread /\ new.work = agent[t].work /\ new.held = agent[t].held
    BY <1>1 DEF Thread
  <2>2. Say(t, "assistant", new)
    BY <1>3 DEF LlmAnswers
  <2>3. QED
    <3> HIDE DEF new
    <3> QED
      BY <2>1, <2>2, SayGrows DEF Roles
<1>4. CASE LlmCalls(t)
  <2>1. PICK n \in 1..MaxCalls :
          Say(t, "calls", [agent[t] EXCEPT !.at = "routing", !.calls = n])
    BY <1>4 DEF LlmCalls
  <2> DEFINE new == [agent[t] EXCEPT !.at = "routing", !.calls = n]
  <2>2. new \in Thread /\ new.work = agent[t].work /\ new.held = agent[t].held
    <3>1. n \in 0..MaxCalls
      BY AgentAssumption
    <3>2. QED
      BY <1>1, <3>1 DEF Thread
  <2>3. QED
    <3> HIDE DEF new
    <3> QED
      BY <2>1, <2>2, SayGrows DEF Roles, new
<1>5. CASE Route(t)
  <2> DEFINE new == [agent[t] EXCEPT !.calls = @ - 1]
  <2>1. new \in Thread /\ new.work = agent[t].work /\ new.held = agent[t].held
    <3>1. agent[t].calls - 1 \in 0..MaxCalls
      BY <1>1, <1>5, AgentAssumption DEF Route, Thread
    <3>2. QED
      BY <1>1, <3>1 DEF Thread
  <2>2. Say(t, "tool", new)
    BY <1>5 DEF Route
  <2>3. QED
    <3> HIDE DEF new
    <3> QED
      BY <2>1, <2>2, SayGrows DEF Roles
<1>6. QED
  BY <1>2, <1>3, <1>4, <1>5 DEF AgentStep

LEMMA PageHolds ==
  ASSUME KeptInv, PageStep \/ User
  PROVE  Holding'
<1> DEFINE Taking == {"status", "poll", "look", "commit"}
<1> USE DEF KeptInv, AgentInv, TypeInv, TypeOK
<1>1. messages \in Seq(Message)
  BY DEF PageTypeOK
<1>2. CASE StartThread
  <2>1. /\ script'.turn \in Turns
        /\ Launch(script'.turn, script.allow, catalog, script.runtime, messages)
    BY <1>2, LaunchStep
  <2>2. agent'[script'.turn].held /\ agent'[script'.turn].work = messages
    BY <2>1 DEF Launch, NoAgent, AgentTypeOK
  <2>3. messages' = messages
    BY <1>2 DEF StartThread, session
  <2>4. Extends(messages, messages)
    BY <1>1, Itself
  <2>5. QED
    BY <2>2, <2>3, <2>4 DEF Holding
<1>3. CASE /\ page \in Taking /\ UNCHANGED <<agent, messages>>
           /\ script'.turn = script.turn
  BY <1>3 DEF Holding
<1>4. CASE ShowStatus \/ Look
  <2>1. page \in Taking /\ UNCHANGED <<agent, messages, script>>
    BY <1>4 DEF ShowStatus, Look, agents, session
  <2>2. QED
    BY <1>3, <2>1
<1>5. CASE Poll
  <2>1. page \in Taking /\ messages' = messages
    BY <1>5 DEF Poll, session
  <2>2. page' = "idle" \/ (agent' = agent /\ script'.turn = script.turn)
    BY <1>5 DEF Poll, EndScript, agents, PageTypeOK, Script
  <2>3. QED
    BY <1>3, <2>1, <2>2 DEF Holding
<1>6. CASE page' \notin Taking
  BY <1>6 DEF Holding
<1>7. QED
  BY <1>2, <1>4, <1>5, <1>6
  DEF PageStep, User, Top, Stopped, Drop, Fresh, Started, Bind, Name, Catalog, Built, Assign,
      AssignKey, Chat, Submit, OpenTrace, Commit, Note, CapHistory, Unset, Tested, Restarted, Rerun, EndScript,
      Type, Suggest, Enter, Toggle, ChooseFile, ClearConversation, TestConnections, Restart

LEMMA InitKept == Init => KeptInv
  BY InitRuns DEF Init, KeptInv, Holding

LEMMA NextKept == KeptInv /\ [Next]_vars => KeptInv'
<1> SUFFICES ASSUME KeptInv, [Next]_vars PROVE KeptInv'
  OBVIOUS
<1>1. AgentInv'
  BY NextRuns DEF KeptInv
<1>2. CASE PageStep \/ User
  BY <1>1, <1>2, PageHolds DEF KeptInv
<1>3. CASE \E t \in Turns : Work(t)
  <2>1. PICK t \in Turns : AgentStep(t) /\ UNCHANGED <<page, script, session>>
    BY <1>3 DEF Work
  <2>2. \A u \in Turns : Grows(agent[u], agent'[u])
    BY <2>1, ThreadGrows DEF KeptInv, AgentInv, TypeInv, TypeOK
  <2>3. messages' = messages /\ page' = page /\ script' = script
    BY <2>1 DEF session
  <2>4. messages \in Seq(Message)
    BY DEF KeptInv, AgentInv, TypeInv, TypeOK, PageTypeOK
  <2>5. \A u \in Turns : agent[u].work \in Seq(Message) /\ agent'[u].work \in Seq(Message)
    <3>1. \A th \in Thread : th.work \in Seq(Message)
      BY DEF Thread
    <3>2. agent \in [Turns -> Thread] /\ agent' \in [Turns -> Thread]
      BY <1>1 DEF KeptInv, AgentInv, TypeInv, TypeOK, AgentTypeOK
    <3>3. QED
      BY <3>1, <3>2
  <2>6. page \in {"status", "poll", "look", "commit"} => script.turn \in Turns
    BY DEF KeptInv, AgentInv, TypeInv, TurnKnown, Watching
  <2>7. Holding'
    <3> SUFFICES ASSUME page \in {"status", "poll", "look", "commit"}
                 PROVE  agent'[script.turn].held
                        /\ Extends(messages, agent'[script.turn].work)
      BY <2>3 DEF Holding
    <3>1. agent[script.turn].held /\ Extends(messages, agent[script.turn].work)
      BY DEF KeptInv, Holding
    <3>2. agent'[script.turn].held
          /\ Extends(agent[script.turn].work, agent'[script.turn].work)
      <4>1. Grows(agent[script.turn], agent'[script.turn])
        BY <2>2, <2>6
      <4>2. QED
        BY <3>1, <4>1 DEF Grows
    <3>3. agent[script.turn].work \in Seq(Message) /\ agent'[script.turn].work \in Seq(Message)
      BY <2>5, <2>6
    <3>4. \A b, c \in Seq(Message) :
            Extends(messages, b) /\ Extends(b, c) => Extends(messages, c)
      BY <2>4, Further
    <3>5. QED
      BY <3>1, <3>2, <3>3, <3>4
  <2>8. QED
    BY <1>1, <2>7 DEF KeptInv
<1>4. CASE UNCHANGED vars
  BY <1>1, <1>4 DEF vars, agents, session, KeptInv, Holding
<1>5. QED
  BY <1>2, <1>3, <1>4 DEF Next

\* How a step may change the conversation.
Kept ==
  \/ IsPrefix(messages, messages')
  \/ messages' = <<>>
  \/ IsSuffix(messages', messages)

LEMMA StepKeeps == KeptInv /\ [Next]_vars => [Kept]_messages
<1> SUFFICES ASSUME KeptInv, [Next]_vars, messages' # messages PROVE Kept
  OBVIOUS
<1> USE DEF KeptInv, AgentInv, TypeInv, TypeOK
<1>1. messages \in Seq(Message) /\ messages' \in Seq(Message)
  BY NextTypes DEF PageTypeOK
<1>2. CASE Chat
  <2>1. messages' = Append(messages, <<prompts + 1, "user">>)
    BY <1>2 DEF Chat, Submit
  <2>2. prompts + 1 \in Turns
    BY <1>1, <1>2, <2>1 DEF Chat, Submit, InputCounts, Awaiting, Suggested
  <2>3. <<prompts + 1, "user">> \in Message
    BY <2>2 DEF Message, Roles
  <2>4. IsPrefix(messages, messages')
    BY <1>1, <2>1, <2>3, OneMore, PrefixOf
  <2>5. QED
    BY <2>4 DEF Kept
<1>3. CASE Commit
  <2>1. messages' = agent[script.turn].work /\ Extends(messages, agent[script.turn].work)
    BY <1>3 DEF Commit, Holding
  <2>2. QED
    BY <1>1, <2>1, PrefixOf DEF Kept
<1>4. CASE Note
  <2>1. <<script.turn, "assistant">> \in Message
    BY <1>4 DEF Note, TurnKnown, Watching, Message, Roles
  <2>2. messages' = Append(messages, <<script.turn, "assistant">>)
    BY <1>4 DEF Note
  <2>3. IsPrefix(messages, messages')
    BY <1>1, <2>1, <2>2, OneMore, PrefixOf
  <2>4. QED
    BY <2>3 DEF Kept
<1>7. CASE CapHistory
  BY <1>1, <1>7, CapEnds, SuffixOf DEF CapHistory, Kept
<1>5. CASE ClearConversation
  BY <1>5 DEF ClearConversation, Kept
<1>6. QED
  BY <1>2, <1>3, <1>4, <1>5, <1>7
  DEF Next, vars, Work, session, PageStep, User, Top, Stopped, Drop, Fresh, Started, Bind,
      Name, Catalog, Built, Assign, AssignKey, OpenTrace, StartThread, ShowStatus, Poll, Look, Unset,
      Tested, Restarted, Type, Suggest, Enter, Toggle, ChooseFile, TestConnections, Restart

\* The conversation only grows at its end, but for the button that clears it and for
\* _cap_history: a turn that ends, in whatever way, writes back a conversation that
\* begins with everything the page has.
THEOREM Conversation == Spec => ConversationKept
<1>1. KeptInv /\ [Next]_vars =>
        [\/ IsPrefix(messages, messages')
         \/ messages' = <<>>
         \/ IsSuffix(messages', messages)]_messages
  BY StepKeeps DEF Kept
<1>2. QED
  BY <1>1, InitKept, NextKept, PTL DEF Spec, ConversationKept
=============================================================================
