------------------------------- MODULE Assistant -------------------------------
(***************************************************************************)
(* assistant.view: the assistant page of the dashboard over its session    *)
(* state, the pool runtimes it starts and stops, and the threads that work *)
(* on its turns.                                                           *)
(*                                                                         *)
(* Streamlit runs the script of the page from the top at every             *)
(* interaction.  An interaction that arrives while the script runs stops   *)
(* it at its next access to Streamlit (an element or the session state)    *)
(* and starts it again; the session state stays as it is, and so do the    *)
(* threads.  A step of the page is what lies between two such accesses, or *)
(* between an access and a wait.                                           *)
(***************************************************************************)
EXTENDS AgentTurn

CONSTANTS
  Servers,       \* servers of a file
  NoFile,        \* no servers.yaml is found
  Paths,         \* servers.yaml files
  FirstFields,   \* what the field may resolve to at first
  Unloadable,    \* those of them that cannot be loaded
  HistoryLimit,  \* DIST_DASHBOARD_MAX_HISTORY
  MaxPrompts,    \* bound: prompts submitted
  MaxActs        \* bound: interactions other than prompts

ASSUME PageAssumption ==
  /\ NoFile \notin Paths /\ Unloadable \subseteq Paths
  /\ FirstFields \subseteq Paths \cup {NoFile}
  /\ MaxPrompts \in Nat /\ Turns = 1..MaxPrompts
  /\ MaxActs \in Nat /\ Runtimes = 1 .. MaxActs + 2
  /\ HistoryLimit \in Nat \ {0}

VARIABLES
  page,       \* where the script is
  script,     \* what the script has read: its setting, path, turn and input
  messages,   \* assistant_messages, without the system prompt
  traces,     \* whether assistant_traces holds anything
  running,    \* assistant_running
  allow,      \* assistant_allow_write
  field,      \* what the field of the sidebar resolves to
  path,       \* assistant_servers_yaml
  runtime,    \* assistant_runtime
  catalog,    \* assistant_catalog
  key,        \* assistant_catalog_key
  prompts,    \* prompts submitted so far
  started,    \* runtimes started so far
  acts,       \* interactions so far
  torn        \* history: a script was stopped between the assignments of
              \* catalog and key

session  == <<messages, traces, running, allow, field, path, runtime, catalog, key>>
counters == <<prompts, started, acts, torn>>
vars     == <<agents, bound, page, script, session, counters>>

\* Points at which the script reaches Streamlit next, and may be stopped.
Open    == {"top", "drop", "fresh", "bind", "name", "catalog", "assign", "key", "chat",
            "trace", "launch", "status", "commit", "note", "cap", "unset"}
\* Points at which it waits for a thread or for the queue.
Waiting == {"stopping", "restarting", "starting", "building", "testing", "poll", "look"}

Keys == (Paths \cup {NoFile}) \X BOOLEAN
NoKey == <<>>

\* built: the catalog under construction; failed: the turn ended with an error;
\* input: what was typed into the chat field, or which suggestion was clicked, seen
\* by this script only.
NoScript == [allow |-> FALSE, path |-> NoFile, runtime |-> NoRuntime, turn |-> 0,
             built |-> {}, failed |-> FALSE, input |-> "none"]

Script ==
  [allow : BOOLEAN, path : Paths \cup {NoFile}, runtime : Runtimes \cup {NoRuntime},
   turn : Turns \cup {0}, built : SUBSET Tools, failed : BOOLEAN,
   input : {"none", "typed", "suggestion"}]

PageTypeOK ==
  /\ page \in Open \cup Waiting \cup {"idle"}
  /\ script \in Script
  /\ messages \in Seq(Message)
  /\ traces \in BOOLEAN
  /\ running \in BOOLEAN /\ allow \in BOOLEAN /\ torn \in BOOLEAN
  /\ field \in Paths \cup {NoFile} /\ path \in Paths \cup {NoFile}
  /\ runtime \in Runtimes \cup {NoRuntime}
  /\ catalog \subseteq Tools
  /\ key \in Keys \cup {NoKey}
  /\ prompts \in Nat /\ started \in Nat /\ acts \in Nat

TypeOK == AgentTypeOK /\ RuntimeTypeOK /\ PageTypeOK

Init ==
  /\ AgentInit /\ RuntimeInit
  /\ page = "idle" /\ script = NoScript
  /\ messages = <<>> /\ traces = FALSE
  /\ running = FALSE /\ allow = FALSE
  /\ field \in FirstFields /\ path = NoFile /\ runtime = NoRuntime
  /\ catalog = {} /\ key = NoKey
  /\ prompts = 0 /\ started = 0 /\ acts = 0 /\ torn = FALSE

\* st.rerun(), the start of a script and its end: nothing local survives.
Rerun     == page' = "top" /\ script' = NoScript
EndScript == page' = "idle" /\ script' = NoScript

-----------------------------------------------------------------------------
(* _get_runtime.                                                            *)

Top ==
  /\ page = "top"
  /\ script' = [script EXCEPT !.allow = allow, !.path = field,
                   !.runtime = IF path = field THEN runtime ELSE NoRuntime]
  /\ \/ runtime # NoRuntime /\ path = field /\ page' = "catalog"
     \/ runtime # NoRuntime /\ path # field /\ page' = "stopping"
     \/ runtime = NoRuntime /\ page' = "fresh"
  /\ UNCHANGED <<agents, bound, session, counters>>

Stopped ==
  /\ page = "stopping" /\ JoinEnds
  /\ page' = "drop"
  /\ Unbind(runtime)
  /\ UNCHANGED <<agents, script, session, counters>>

Drop ==
  /\ page = "drop"
  /\ page' = "fresh"
  /\ runtime' = NoRuntime
  /\ UNCHANGED <<agents, bound, script, messages, traces, running, allow, field, path,
                 catalog, key, counters>>

\* No file: the page ends with an explanation.  A file that cannot be loaded
\* leaves the stored path as it was.  Otherwise start the next runtime.
Fresh ==
  /\ page = "fresh"
  /\ \/ script.path = NoFile /\ EndScript /\ path' = NoFile
        /\ UNCHANGED <<bound, started>>
     \/ script.path \in Unloadable /\ page' = "catalog"
        /\ UNCHANGED <<bound, script, path, started>>
     \/ /\ script.path \in Paths \ Unloadable /\ started + 1 \in Runtimes
        /\ page' = "starting" /\ ThreadStarts(started + 1)
        /\ started' = started + 1 /\ UNCHANGED <<script, path>>
  /\ UNCHANGED <<agents, messages, traces, running, allow, field, runtime,
                 catalog, key, prompts, acts, torn>>

\* _started.wait(timeout=10.0) returns or is up; a start that is not seen leaves
\* its thread behind.  Bound: that happens to the first runtime only.
Started ==
  /\ page = "starting"
  /\ page' = "bind"
  /\ \E seen \in BOOLEAN :
       /\ started # 1 => seen
       /\ script' = [script EXCEPT !.runtime = IF seen THEN started ELSE NoRuntime]
  /\ UNCHANGED <<agents, bound, session, counters>>

Bind ==
  /\ page = "bind"
  /\ page' = "name"
  /\ runtime' = script.runtime
  /\ UNCHANGED <<agents, bound, script, messages, traces, running, allow, field, path,
                 catalog, key, counters>>

Name ==
  /\ page = "name"
  /\ page' = "catalog"
  /\ path' = script.path
  /\ UNCHANGED <<agents, bound, script, messages, traces, running, allow, field, runtime,
                 catalog, key, counters>>

-----------------------------------------------------------------------------
(* _get_catalog.                                                            *)

\* Faulty variant of Key: the setting is no part of the key.
KeyOfPath == <<path, FALSE>>

Key == <<path, script.allow>>

Catalog ==
  /\ page = "catalog"
  /\ page' = IF script.runtime = NoRuntime \/ key = Key THEN "chat" ELSE "building"
  /\ UNCHANGED <<agents, bound, script, session, counters>>

\* build_catalog: the admitted tools of the servers that answer.
Offered(up) == {tool \in Tools : tool[1] \in up /\ catalog_allowed(tool, script.allow)}

\* The future is done, or its 300 s are up and the catalog is empty, as it is for a
\* runtime that was stopped.
Built ==
  /\ page = "building"
  /\ \E up \in SUBSET Servers :
       script' = [script EXCEPT !.built =
                    IF script.runtime \in bound THEN Offered(up) ELSE {}]
  /\ page' = "assign"
  /\ UNCHANGED <<agents, bound, session, counters>>

Assign ==
  /\ page = "assign"
  /\ page' = "key"
  /\ catalog' = script.built
  /\ UNCHANGED <<agents, bound, script, messages, traces, running, allow, field, path,
                 runtime, key, counters>>

AssignKey ==
  /\ page = "key"
  /\ page' = "chat"
  /\ key' = Key
  /\ UNCHANGED <<agents, bound, script, messages, traces, running, allow, field, path,
                 runtime, catalog, counters>>

-----------------------------------------------------------------------------
(* render_chat_view, from the transcript on, and _run_turn.                 *)

Awaiting == messages # <<>> /\ messages[Len(messages)][2] = "user"

\* The suggestions are there when there are tools and no messages yet, also while
\* a turn is thought to run.
Suggested == script.runtime # NoRuntime /\ catalog # {} /\ messages = <<>>

\* _submit_prompt: the message, then the place for its trace.
Submit ==
  /\ page' = "trace" /\ script' = NoScript
  /\ prompts' = prompts + 1
  /\ messages' = Append(messages, <<prompts + 1, "user">>)
  /\ UNCHANGED running

OpenTrace ==
  /\ page = "trace" /\ Rerun
  /\ traces' = TRUE
  /\ UNCHANGED <<agents, bound, messages, running, allow, field, path, runtime, catalog,
                 key, counters>>

Chat ==
  LET clicked == Suggested /\ script.input = "suggestion" IN
  /\ page = "chat"
  /\ \/ clicked /\ Submit
     \/ /\ ~clicked /\ running /\ EndScript
        /\ UNCHANGED <<messages, running, prompts>>
     \/ /\ ~clicked /\ ~running /\ Awaiting /\ page' = "launch"
        /\ running' = TRUE
        /\ UNCHANGED <<script, messages, prompts>>
     \/ ~clicked /\ ~running /\ ~Awaiting /\ script.input = "typed" /\ Submit
     \/ /\ ~clicked /\ ~running /\ ~Awaiting /\ script.input # "typed" /\ EndScript
        /\ UNCHANGED <<messages, running, prompts>>
  /\ UNCHANGED <<agents, bound, traces, allow, field, path, runtime, catalog, key, started,
                 acts, torn>>

StartThread ==
  LET t == messages[Len(messages)][1] IN
  /\ page = "launch"
  /\ Launch(t, script.allow, catalog, script.runtime, messages)
  /\ script' = [script EXCEPT !.turn = t]
  /\ page' = "status"
  /\ UNCHANGED <<bound, session, counters>>

ShowStatus ==
  /\ page = "status"
  /\ page' = "poll"
  /\ UNCHANGED <<agents, bound, script, session, counters>>

\* q.get(timeout=0.2).  A round is a triple, which `kind, payload = ...' does not
\* take: the script ends with a ValueError.
Poll ==
  LET t == script.turn IN
  /\ page = "poll"
  /\ IF queue[t] = <<>>
     THEN page' = "look" /\ UNCHANGED <<agents, script>>
     ELSE \/ Head(queue[t]) = "round" /\ EndScript /\ LetGo(t)
          \/ /\ Head(queue[t]) = "error" /\ page' = "commit"
             /\ script' = [script EXCEPT !.failed = TRUE]
             /\ queue' = [queue EXCEPT ![t] = Tail(@)]
             /\ UNCHANGED <<agent, executed>>
  /\ UNCHANGED <<bound, session, counters>>

\* Faulty variant of Over: the loop waits for a "done", which nobody puts.
OverWhenDone(t) == FALSE

Over(t) == ~Lives(t)

\* queue.Empty: leave the loop when the thread is gone, although it may have put
\* something since.
Look ==
  /\ page = "look"
  /\ page' = IF Over(script.turn) THEN "commit" ELSE "poll"
  /\ UNCHANGED <<agents, bound, script, session, counters>>

\* The conversation of the thread, then assistant_traces[-1] = rounds: an
\* IndexError when there is none (the script that took the prompt was stopped
\* before it made a place for the trace).
Commit ==
  /\ page = "commit"
  /\ messages' = agent[script.turn].work
  /\ IF traces THEN page' = "note" /\ UNCHANGED <<agents, script>>
                   ELSE EndScript /\ LetGo(script.turn)
  /\ UNCHANGED <<bound, traces, running, allow, field, path, runtime, catalog,
                 key, counters>>

\* Faulty variant of Cap: the oldest messages are kept.
CapOldest(msgs) == IF Len(msgs) > HistoryLimit THEN SubSeq(msgs, 1, HistoryLimit) ELSE msgs

\* _cap_history
Cap(msgs) ==
  IF Len(msgs) > HistoryLimit
  THEN SubSeq(msgs, Len(msgs) - HistoryLimit + 1, Len(msgs))
  ELSE msgs

\* The note about the rounds.
Note ==
  LET t == script.turn IN
  /\ page = "note"
  /\ page' = "cap"
  /\ messages' = IF agent[t].stopped /\ ~script.failed
                 THEN Append(messages, <<t, "assistant">>) ELSE messages
  /\ UNCHANGED <<agents, bound, script, traces, running, allow, field, path, runtime,
                 catalog, key, counters>>

CapHistory ==
  /\ page = "cap"
  /\ page' = "unset"
  /\ messages' = Cap(messages)
  /\ UNCHANGED <<agents, bound, script, traces, running, allow, field, path, runtime,
                 catalog, key, counters>>

Unset ==
  /\ page = "unset"
  /\ running' = FALSE
  /\ LetGo(script.turn)
  /\ Rerun
  /\ UNCHANGED <<bound, messages, traces, allow, field, path, runtime, catalog,
                 key, counters>>

-----------------------------------------------------------------------------
(* Interactions.                                                            *)

\* Faulty variant of Interrupt: a script that is stopped ends its turn.
InterruptResetting ==
  /\ page \in Open \cup {"idle"} /\ acts < MaxActs
  /\ acts' = acts + 1
  /\ torn' = (torn \/ page = "key")
  /\ running' = FALSE
  /\ IF script.turn = 0 THEN UNCHANGED agents ELSE LetGo(script.turn)
  /\ UNCHANGED <<prompts, started>>

\* The script that runs, if one does, is stopped.
Interrupt ==
  /\ page \in Open \cup {"idle"} /\ acts < MaxActs
  /\ acts' = acts + 1
  /\ torn' = (torn \/ page = "key")
  /\ IF script.turn = 0 THEN UNCHANGED agents ELSE LetGo(script.turn)
  /\ UNCHANGED <<running, prompts, started>>

\* The input starts the script.
Enter(input) ==
  /\ page = "idle" /\ field # NoFile /\ prompts + 1 \in Turns
  /\ page' = "top"
  /\ script' = [NoScript EXCEPT !.input = input]
  /\ UNCHANGED <<agents, bound, session, counters>>

\* The chat field is there when no turn is thought to run.
Type == Enter("typed") /\ ~running /\ ~Awaiting

Suggest == Enter("suggestion") /\ catalog # {} /\ messages = <<>>

Toggle ==
  /\ Interrupt /\ Rerun
  /\ allow' = ~allow
  /\ UNCHANGED <<bound, messages, traces, field, path, runtime, catalog, key>>

ChooseFile ==
  /\ Interrupt /\ Rerun
  /\ field' \in (Paths \cup {NoFile}) \ {field}
  /\ UNCHANGED <<bound, messages, traces, allow, path, runtime, catalog, key>>

ClearConversation ==
  /\ Interrupt /\ Rerun
  /\ messages' = <<>> /\ traces' = FALSE /\ catalog' = {} /\ key' = NoKey
  /\ UNCHANGED <<bound, allow, field, path, runtime>>

\* _test_connections waits for check_all; the catalog stays as it is.
TestConnections ==
  /\ Interrupt /\ runtime # NoRuntime
  /\ page' = "testing" /\ script' = NoScript
  /\ UNCHANGED <<bound, messages, traces, allow, field, path, runtime, catalog, key>>

Tested ==
  /\ page = "testing" /\ Rerun
  /\ UNCHANGED <<agents, bound, session, counters>>

\* _restart_runtime
Restart ==
  /\ Interrupt /\ runtime # NoRuntime
  /\ page' = "restarting" /\ script' = NoScript
  /\ UNCHANGED <<bound, messages, traces, allow, field, path, runtime, catalog, key>>

Restarted ==
  /\ page = "restarting" /\ JoinEnds /\ Rerun
  /\ Unbind(runtime)
  /\ runtime' = NoRuntime /\ path' = NoFile /\ catalog' = {} /\ key' = NoKey
  /\ UNCHANGED <<agents, messages, traces, running, allow, field, counters>>

-----------------------------------------------------------------------------
PageStep ==
  \/ Top \/ Stopped \/ Drop \/ Fresh \/ Started \/ Bind \/ Name \/ Catalog \/ Built \/ Assign \/ AssignKey
  \/ Chat \/ OpenTrace \/ StartThread \/ ShowStatus \/ Poll \/ Look \/ Commit
  \/ Note \/ CapHistory \/ Unset \/ Tested \/ Restarted

Work(t) ==
  /\ AgentStep(t)
  /\ UNCHANGED <<bound, page, script, session, counters>>

User == Type \/ Suggest \/ Toggle \/ ChooseFile \/ ClearConversation \/ TestConnections \/ Restart

Next == PageStep \/ (\E t \in Turns : Work(t)) \/ User

Spec == Init /\ [][Next]_vars

\* Threads are scheduled, and each of their waits is bounded: the model by the
\* timeout of its client, a tool by the pool's, the queue, the future and the
\* joins by theirs.  Nothing is assumed of the loop of a runtime.
FairSpec == Spec /\ WF_vars(PageStep) /\ \A t \in Turns : WF_vars(Work(t))
-----------------------------------------------------------------------------
(* A turn that is begun with a runtime is shown the tools its setting       *)
(* admits and no others, although the catalog is cached over settings and   *)
(* files.  The exception is a script that was stopped between the           *)
(* assignments of catalog and key.                                          *)
CatalogFitsTurn ==
  \A t \in Turns : agent[t].pool # NoRuntime /\ ~torn =>
    \A tool \in agent[t].tools : catalog_allowed(tool, agent[t].allow)

(* A thread is started only when no other is inside a turn, also when the   *)
(* page that started one has been interrupted or has failed.                *)
OneAgentAtATime ==
  [][page = "launch" /\ page' = "status" => \A t \in Turns : ~Working(t)]_vars

(* The conversation only grows, at its end, but for Clear, which empties    *)
(* it, and the cap, which drops its oldest messages: no turn brings back a  *)
(* conversation that was cleared, or loses a prompt submitted since.        *)
ConversationKept ==
  [][\/ IsPrefix(messages, messages')
     \/ messages' = <<>>
     \/ IsSuffix(messages', messages)]_messages

(* The page comes back: no script waits for ever, though no thread of a     *)
(* runtime need ever end.  The exception is a model that fails over and     *)
(* over: the prompt is still the last message then, and every rerun begins  *)
(* its turn again.                                                          *)
PageComesBack ==
  \/ []<>(page = "unset" /\ agent[script.turn].failed)
  \/ page # "idle" ~> page = "idle"

(* The chat field is disabled only while a turn is under way.               *)
DisabledOnlyWhileRunning ==
  running /\ page = "idle" => \E t \in Turns : Lives(t)
=============================================================================
