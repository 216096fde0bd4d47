-------------------------- MODULE MCEmbeddingTask --------------------------
(***************************************************************************)
(* Instances of EmbeddingTask for TLC.                                     *)
(***************************************************************************)
EXTENDS EmbeddingTask

CONSTANTS d1, w1, w2, u1, u2, n

OneDoc == {d1}
AllInD1 == [p \in Paras |-> d1]

\* The two choices of EmbeddingContentDialog.vue: all, and all but SUCCESS.
All == State
Unsuccessful == State \ {"SUCCESS"}
UiStateLists == {All, Unsuccessful}
AllOnly == {All}
=============================================================================
