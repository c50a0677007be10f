------------------------------ MODULE MCAssistant ------------------------------
(***************************************************************************)
(* A small instance of Assistant.  One tool reads, the other changes the   *)
(* graph; one file of servers can be loaded, the other cannot.             *)
(***************************************************************************)
EXTENDS Assistant

MCTurns == 1..MaxPrompts
MCTools == {<<"kg_server", "get_node">>, <<"kg_server", "ingest">>}
MCServers == {"kg_server"}
MCRuntimes == 1 .. MaxActs + 2
=============================================================================
