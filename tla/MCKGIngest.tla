------------------------------ MODULE MCKGIngest ------------------------------
(***************************************************************************)
(* One ingester over one run, two typed paths p1, p2, a path p3 of a type  *)
(* the graph does not know, and one model.                                 *)
(***************************************************************************)
EXTENDS KGIngest, TLC

CONSTANTS r1, p1, p2, p3, m1, MaxChanges

VARIABLE changes

InsideSelf == [n \in NodeIds |-> {n}]

\* p1 derives from p3, and from an entry that is p2's path or the id of r1.
ParentsPQ == p1 :> << <<p3>>, <<p2, r1>> >> @@ p2 :> <<>> @@ p3 :> <<>>
UsesM == [x \in {p1, p2, p3, r1} |-> IF x \in {p1, r1} THEN m1 ELSE NoModel]

Mode(prune, sweep, limit) == [prune |-> prune, sweep |-> sweep, limit |-> limit]
MainModes == {Mode(FALSE, FALSE, FALSE), Mode(TRUE, FALSE, FALSE), Mode(TRUE, TRUE, FALSE)}
AllModes == MainModes \cup {Mode(FALSE, FALSE, TRUE)}

\* All of the sources at first or none, which the changes then mix.
MCInit ==
  /\ Init /\ changes = 0
  /\ runRow[r1] \in {"absent", "live"}
  /\ rows \in IF runRow[r1] = "live" THEN {{r1} \X {p1, p2}, {<<r1, p3>>}} ELSE {{}}
  /\ sidecars \in {{}, {p1, p2}, {p3}}
  /\ p3 \in sidecars => runRow[r1] = "absent"

\* Passes with a limit start when nothing is left to change.
LateLimit(opts) == opts.limit => changes = MaxChanges

MCNext ==
  \/ /\ \E i \in Ingesters : Ingest(i) \/ \E opts \in Modes : Start(i, opts) /\ LateLimit(opts)
     /\ UNCHANGED changes
  \/ /\ changes < MaxChanges
     /\ SourceStep \/ EditStep \/ \E i \in Ingesters : Fault(i)
     /\ {<<r1, p3>>} \cap rows' \subseteq rows /\ {p3} \cap sidecars' \subseteq sidecars
     /\ changes' = changes + 1
MCSpec == MCInit /\ [][MCNext]_<<vars, changes>>
=============================================================================
