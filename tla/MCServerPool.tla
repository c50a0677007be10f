----------------------------- MODULE MCServerPool -----------------------------
(***************************************************************************)
(* Two requests, one configured server and one that is not: enough for two *)
(* requests to race to the first connection of a server, and for shutdown  *)
(* to find a handle in every state.  Servers share nothing but the         *)
(* lifespan, so the second configured server of MCServerPool.cfg is there  *)
(* for close_all, which waits for one handle after another.                *)
(***************************************************************************)
EXTENDS ServerPool, TLC
=============================================================================
