------------------------------- MODULE MCChat -------------------------------
(***************************************************************************)
(* An instance of Chat for TLC.                                            *)
(***************************************************************************)
EXTENDS Chat, TLC

CONSTANTS u1, u2, v1, v2

\* Nothing tells the requests in progress apart.
Symmetry == Permutations({u1, u2}) \cup Permutations({v1, v2})
=============================================================================
