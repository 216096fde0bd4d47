----------------------------- MODULE MCTrigger -----------------------------
(***************************************************************************)
(* An instance of Trigger for TLC: one trigger of two applications.        *)
(***************************************************************************)
EXTENDS Trigger

CONSTANTS t1, s1, s2, c1, c2, ev, keep, u1, u2, w1, w2, r1

\* Bodies: an active trigger of both applications, ...
BothActive == {[active |-> TRUE, setting |-> c1, tasks |-> {s1, s2}]}

\* ... a new schedule, a rename, fewer tasks and another type.
SomeEdits ==
    {[active |-> keep, setting |-> c2, tasks |-> keep],
     [active |-> keep, setting |-> keep, tasks |-> keep],
     [active |-> keep, setting |-> ev, tasks |-> {s1}]}
=============================================================================
