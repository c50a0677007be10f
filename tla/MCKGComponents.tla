---------------------------- MODULE MCKGComponents ----------------------------
(***************************************************************************)
(* One call at a time, by path or by model, for a system of two components *)
(* of which one is listed twice, and for one whose only component has no   *)
(* uuid.  The systems' files have the same stem, and one of them may be a  *)
(* registered model.                                                       *)
(***************************************************************************)
EXTENDS KGComponents, TLC

CONSTANTS s1, s2, u1, u2, slug

MCSlug      == (s1 :> slug) @@ (s2 :> slug)
MCListing   == (s1 :> <<u1, u2, u1>>) @@ (s2 :> <<NoUuid>>)
MCTold      == (u1 :> {<<u2, u1>>}) @@ (u2 :> {<<u1, u2>>, <<u2, u1>>})
MCRelations == {"has_component", "parent_of"}
MCNodeIds   == {<<p>> : p \in Paths} \cup ((ModelIds \cup {slug}) \X Uuids)
=============================================================================
