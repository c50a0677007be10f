------------------------------ MODULE MCRegistry ------------------------------
(***************************************************************************)
(* Two clients and one model id (rows of different ids never meet), two    *)
(* contents that tell the clients' registrations apart, and versions up to *)
(* three: room for a gap left by an explicit version and for a number that *)
(* is given out again after its row was deleted.                           *)
(***************************************************************************)
EXTENDS Registry, TLC

Symmetry == Permutations(Clients) \cup Permutations(Contents)
=============================================================================
