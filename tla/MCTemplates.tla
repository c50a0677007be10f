------------------------------ MODULE MCTemplates ------------------------------
(***************************************************************************)
(* Two workflow ids, three valid documents of one and two blocks, and one  *)
(* whose two steps have the same id.                                       *)
(***************************************************************************)
EXTENDS Templates

Step(id) == [id |-> id, breaks |-> {}]
Doc(id, size, steps) == [id |-> id, breaks |-> {}, steps |-> steps, size |-> size]

MCIds == {"a", "b"}
MCDocuments ==
  {Doc("a", 1, <<Step("x")>>), Doc("a", 2, <<Step("x"), Step("y")>>),
   Doc("b", 2, <<Step("x")>>), Doc("b", 1, <<Step("x"), Step("x")>>)}
=============================================================================
