------------------------- MODULE MCKnowledgeAction -------------------------
(***************************************************************************)
(* Instances of KnowledgeAction for TLC, on the graphs of                  *)
(* MCWorkflowManage.                                                       *)
(***************************************************************************)
EXTENDS KnowledgeAction, MCWorkflowManage

\* The node that joins the others writes the documents.
Writers == {"j"}
=============================================================================
