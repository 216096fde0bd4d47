---------------------------- MODULE MCRetrieval ----------------------------
(***************************************************************************)
(* An instance of Retrieval for TLC.                                       *)
(***************************************************************************)
EXTENDS Retrieval

CONSTANTS p1, k1, k2, a1, a2, w1, w2, n

HomeK1 == [p \in Paras |-> k1]

\* An application of one knowledge base, and one of both.
OneAndBoth == {{k1}, {k1, k2}}
=============================================================================
