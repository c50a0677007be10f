------------------------------- MODULE RunLedger -------------------------------
(***************************************************************************)
(* What the runner promises about its runs, seen from outside: a ledger in *)
(* which a run is opened once, settled once and for all, and only then     *)
(* published, that is given an execution graph.  An entry can be removed   *)
(* at any time, and its publication goes with it.                          *)
(***************************************************************************)
CONSTANT RunIds

VARIABLES
  status,      \* run -> "absent", "running" or how it was settled
  published    \* the runs whose execution graph is attached

ledger == <<status, published>>

Outcome == {"succeeded", "failed", "cancelled"}

Init ==
  /\ status = [r \in RunIds |-> "absent"]
  /\ published = {}

Open(r) ==
  /\ status[r] = "absent"
  /\ status' = [status EXCEPT ![r] = "running"]
  /\ UNCHANGED published

Settle(r) ==
  /\ status[r] = "running"
  /\ \E s \in Outcome : status' = [status EXCEPT ![r] = s]
  /\ UNCHANGED published

Publish(r) ==
  /\ status[r] \in Outcome
  /\ published' = published \cup {r}
  /\ UNCHANGED status

Remove(r) ==
  /\ status' = [status EXCEPT ![r] = "absent"]
  /\ published' = published \ {r}

Next == \E r \in RunIds : Open(r) \/ Settle(r) \/ Publish(r) \/ Remove(r)

Spec == Init /\ [][Next]_ledger
=============================================================================
