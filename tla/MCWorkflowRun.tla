----------------------------- MODULE MCWorkflowRun -----------------------------
(***************************************************************************)
(* Instances of WorkflowRun: the templates, the graph files and the        *)
(* symmetries of the runs that check it.                                   *)
(***************************************************************************)
EXTENDS WorkflowRun, TLC

CONSTANTS r1, r2, g1, g2, p1, p2, a, b

OwnGraphFiles == r1 :> g1 @@ r2 :> g2
OneGraphFile  == r1 :> g1

\* Templates of three steps.  The first captures a; the second may use a and
\* captures b or a again; the third uses what the others captured.  Each of the
\* first two aborts or continues, and a may be a required input as well.
LoopWorkflows ==
  { [required |-> q,
     steps |-> << [needs |-> {}, capture |-> a, onFailure |-> f1],
                  [needs |-> n2, capture |-> c2, onFailure |-> f2],
                  [needs |-> {c2}, capture |-> NoName, onFailure |-> "continue"] >>] :
      q \in {{}, {a}}, n2 \in {{}, {a}}, c2 \in {a, b},
      f1 \in {"fail", "continue"}, f2 \in {"fail", "continue"} }

\* One step that cannot lack an argument: it succeeds, fails or escapes.
OneStepWorkflows ==
  { [required |-> {},
     steps |-> << [needs |-> {}, capture |-> NoName, onFailure |-> "continue"] >>] }

\* The two runs can be exchanged when their graph files are exchanged along.
Swap(x, y) == x :> y @@ y :> x
Keep(x, y) == x :> x @@ y :> y
StoreSymmetry ==
  { f @@ h : f \in {Keep(r1, r2) @@ Keep(g1, g2), Swap(r1, r2) @@ Swap(g1, g2)},
             h \in {Keep(p1, p2), Swap(p1, p2)} }
=============================================================================
