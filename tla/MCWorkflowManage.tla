-------------------------- MODULE MCWorkflowManage --------------------------
(***************************************************************************)
(* Instances of WorkflowManage for TLC.                                    *)
(***************************************************************************)
EXTENDS WorkflowManage

Edge(m, n, a) == [from |-> m, to |-> n, anchor |-> a]

\* start goes to a and b, and j joins them; a and j may fail, and b may pause.
DiamondNodes == {"start", "a", "b", "j"}
Diamond ==
    {Edge("start", "a", "right"), Edge("start", "b", "right"),
     Edge("a", "j", "right"), Edge("b", "j", "right")}
DiamondOutcomes ==
    [n \in DiamondNodes |->
        CASE n \in {"a", "j"} -> {"right", "fail"}
          [] n = "b" -> {"right", "pause"}
          [] OTHER -> {"right"}]
NoNodes == {}

\* A condition node c with two branches, a node x with an exception branch, and behind
\* them an OR node, an AND node and a form.
BranchNodes == {"start", "c", "x", "o", "j", "form"}
Branches ==
    {Edge("start", "c", "right"), Edge("start", "x", "right"),
     Edge("c", "o", "yes"), Edge("c", "j", "no"),
     Edge("x", "j", "right"), Edge("x", "o", "exception"), Edge("x", "form", "right")}
BranchOr == {"o"}
BranchOutcomes ==
    [n \in BranchNodes |->
        CASE n = "c" -> {"yes", "no"}
          [] n = "x" -> {"right", "exception"}
          [] n = "form" -> {"form"}
          [] OTHER -> {"right"}]
=============================================================================
