------------------------------ MODULE PoolRuntime ------------------------------
(***************************************************************************)
(* assistant.pool_runtime.PoolRuntime: ServerPools that live on threads of *)
(* their own, one runtime after another.                                   *)
(*                                                                         *)
(* A runtime's thread runs an event loop whose main task waits inside a    *)
(* task group for the event `shutdown'; the group also holds the owner     *)
(* task of each connection (module ServerPool).  stop() sets the event     *)
(* from the caller's thread: Event.set() is no coroutine, so               *)
(* run_coroutine_threadsafe refuses its result and nothing wakes the loop, *)
(* and nobody calls close_all, so that the group would wait for its owner  *)
(* tasks.  A thread, once started, is therefore taken never to end.        *)
(***************************************************************************)
EXTENDS Naturals

CONSTANTS
  Runtimes,    \* runtimes, in the order of their creation
  NoRuntime

ASSUME RuntimeAssumption == NoRuntime \notin Runtimes

VARIABLES
  bound        \* runtimes whose pool and loop are set

RuntimeTypeOK == bound \subseteq Runtimes

RuntimeInit == bound = {}

\* start(): the thread makes its loop, its pool and its event.
ThreadStarts(r) == bound' = bound \cup {r}

\* stop() lets go of the pool and the loop once thread.join has returned.
Unbind(r) == bound' = bound \ {r}

\* thread.join(timeout=5.0): the time is up, for the thread does not end.
JoinEnds == TRUE
=============================================================================
