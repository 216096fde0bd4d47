----------------------- MODULE KnowledgeActionProofs -----------------------
(***************************************************************************)
(* Proofs about KnowledgeAction, for every graph, outcome, pool and set of *)
(* writing nodes.  The composition is first shown to be an execution of    *)
(* WorkflowManage, so that what is proved of that holds of it: above all   *)
(* that no thread is left when the reader is at its end.  With it the row  *)
(* is written by nobody but the cancelling request from there on, and that *)
(* asks for the state it replaces.                                         *)
(***************************************************************************)
EXTENDS KnowledgeAction, WorkflowManageProofs

-----------------------------------------------------------------------------
(* The composition only adds to the execution.                             *)

LEMMA StepMaps == [ActionNext]_actionVars => [Next]_vars
<1> SUFFICES ASSUME [ActionNext]_actionVars PROVE [Next]_vars
  OBVIOUS
<1>1. CASE \E f \in Futures : ThreadAction(f)
  <2> PICK f \in Futures : ThreadAction(f)
    BY <1>1
  <2>1. Thread(f)
    BY DEF ThreadAction, CheckAction, EndAction, OtherAction, Thread
  <2> QED
    BY <2>1 DEF Next
<1>2. CASE MainAction
  BY <1>2 DEF MainAction, LaunchAction, Judge, HandleAction, ReaderAction, Next, Main
<1>3. CASE CancelFlag \/ CancelState
  BY <1>3 DEF CancelFlag, CancelState, Next
<1>4. CASE Environment
  BY <1>4 DEF Environment, Next
<1>5. CASE UNCHANGED actionVars
  BY <1>5 DEF actionVars
<1> QED
  BY <1>1, <1>2, <1>3, <1>4, <1>5 DEF ActionNext

\* Whatever the row goes through, the execution under it is one of WorkflowManage: what is
\* shown of the engine alone holds of a knowledge base that is filled by it.
THEOREM RunsTheEngine == ActionSpec => Spec
<1>1. ActionInit => Init
  BY DEF ActionInit
<1> QED
  BY <1>1, StepMaps, PTL DEF ActionSpec, Spec

-----------------------------------------------------------------------------
(* The inductive invariant.                                                *)

RowTypes ==
    /\ state \in Settled \cup {"STARTED", "REVOKE"}
    /\ verdict \in Settled \cup {"none"}

\* A knowledge workflow is never taken apart: it is over when its handler has run.
NeverCleaned == ForKnowledge => main.pc # "clean"

\* A verdict that did not see the flag is older than it.
Heard == verdict # "none" /\ flag = "set" /\ ~ late => verdict = "REVOKED"

RowInv == RowTypes /\ NeverCleaned /\ StateStands /\ Heard

LEMMA RowInit == ActionInit => RowInv
BY DEF ActionInit, Init, RowInv, RowTypes, NeverCleaned, StateStands, Heard, ForKnowledge

\* A thread that is at work shows that the reader is not at its end.
LEMMA RowThread ==
    ASSUME TypeOK, NothingRunsAfterTheEnd, RowInv, NEW f \in Futures, ThreadAction(f)
    PROVE  RowInv'
<1> USE DEF RowInv, RowTypes, NeverCleaned, StateStands, Heard, ForKnowledge
<1>1. UNCHANGED <<main, flag, verdict, late>>
  BY DEF ThreadAction, CheckAction, EndAction, OtherAction, rowVars, Check, End, Begin,
         AppendNode, Run, NextEdge, NextNode, SubmitNode, Register
<1>2. pc[f] \notin {"none", "done"}
  BY DEF ThreadAction, CheckAction, EndAction, OtherAction, Check, End, Begin, AppendNode,
         Run, NextEdge, NextNode, SubmitNode, Register
<1>3. main.pc # "finished"
  BY <1>2 DEF NothingRunsAfterTheEnd
<1>4. state' \in {state, "FAILURE"}
  BY DEF ThreadAction, CheckAction, EndAction, OtherAction, rowVars
<1> QED
  BY <1>1, <1>3, <1>4 DEF Settled

LEMMA RowMain ==
    ASSUME TypeOK, RowInv, MainAction
    PROVE  RowInv'
<1> USE DEF RowInv, RowTypes, NeverCleaned, StateStands, Heard, ForKnowledge
<1>0. main \in [pc : MainPcs, mode : AllModes, loop : {"stream", "last", "closed"},
                len : Nat, snap : SUBSET Futures]
  BY DEF TypeOK
<1>1. CASE LaunchAction
  BY <1>0, <1>1 DEF LaunchAction, Launch, MainGoto
<1>2. CASE Judge
  <2>1. verdict' \in Settled /\ (flag = "set" => verdict' = "REVOKED")
    BY <1>2 DEF Judge, WorkflowState, Settled
  <2> QED
    BY <1>2, <2>1 DEF Judge, vars
<1>3. CASE HandleAction
  BY <1>0, <1>3 DEF HandleAction, Handle, MainGoto, Settled
<1>4. CASE ReaderAction
  <2>1. UNCHANGED <<state, verdict, late, flag>>
    BY <1>4 DEF ReaderAction, rowVars, Enlist, IsRunLen, IsRunWait, IsRunWaited, IsRunCompare,
                Cleanup
  <2>2. main'.mode = main.mode
    BY <1>0, <1>4 DEF ReaderAction, MainGoto, Enlist, IsRunLen, IsRunWait, IsRunWaited,
                      IsRunCompare, Cleanup
  <2>3. ForKnowledge => main'.pc \notin {"clean", "finished"}
    BY <1>0, <1>4 DEF ReaderAction, MainGoto, Enlist, IsRunLen, IsRunWait, IsRunWaited,
                      IsRunCompare, Cleanup
  <2> QED
    BY <2>1, <2>2, <2>3
<1> QED
  BY <1>1, <1>2, <1>3, <1>4 DEF MainAction

\* The request touches the row only while that is not settled, and its flag is either
\* older than the verdict or said to be late.
LEMMA RowCancel ==
    ASSUME RowInv, CancelFlag \/ CancelState
    PROVE  RowInv'
<1> USE DEF RowInv, RowTypes, NeverCleaned, StateStands, Heard, ForKnowledge
<1>1. CASE CancelFlag
  <2>1. UNCHANGED <<main, state, verdict>> /\ (flag' = "set")
    BY <1>1 DEF CancelFlag, Cancel, vars
  <2>2. late' = (verdict # "none" /\ (late \/ flag # "set"))
    BY <1>1 DEF CancelFlag
  <2> QED
    BY <2>1, <2>2
<1>2. CASE CancelState
  BY <1>2 DEF CancelState, vars, Settled
<1> QED
  BY <1>1, <1>2

LEMMA RowEnvironment ==
    ASSUME TypeOK, RowInv, Environment
    PROVE  RowInv'
<1> USE DEF RowInv, RowTypes, NeverCleaned, StateStands, Heard, ForKnowledge
<1>0. main \in [pc : MainPcs, mode : AllModes, loop : {"stream", "last", "closed"},
                len : Nat, snap : SUBSET Futures]
  BY DEF TypeOK
<1>1. UNCHANGED <<state, verdict, late>>
  BY DEF Environment, rowVars
<1>2. main'.pc = main.pc /\ main'.mode = main.mode /\ flag' \in {flag, "gone"}
  BY <1>0 DEF Environment, Disconnect, Forget, Rest, vars
<1> QED
  BY <1>1, <1>2

LEMMA RowStep ==
    TypeOK /\ NothingRunsAfterTheEnd /\ RowInv /\ [ActionNext]_actionVars => RowInv'
<1> SUFFICES ASSUME TypeOK, NothingRunsAfterTheEnd, RowInv, [ActionNext]_actionVars
             PROVE  RowInv'
  OBVIOUS
<1>1. CASE UNCHANGED actionVars
  BY <1>1 DEF actionVars, vars, rowVars, RowInv, RowTypes, NeverCleaned, StateStands, Heard,
              ForKnowledge
<1> QED
  BY <1>1, RowThread, RowMain, RowCancel, RowEnvironment DEF ActionNext

LEMMA RowAlways == ActionSpec => []RowInv
BY RowInit, RowStep, RunsTheEngine, TypeCorrect, EndFound, PTL DEF ActionSpec

-----------------------------------------------------------------------------

\* When the run is over, the row holds what its handler found and keeps it: neither a
\* failing thread nor a cancel writes it any more.
THEOREM RowSettles == ActionSpec => []StateStands
<1>1. RowInv => StateStands
  BY DEF RowInv
<1> QED
  BY <1>1, RowAlways, PTL

\* A cancel that came before the verdict, and whose flag has not run out, is answered
\* with REVOKED in every graph and every interleaving.
THEOREM CancelAnswered == ActionSpec => []CancelIsHeard
<1>1. RowInv => CancelIsHeard
  BY DEF RowInv, RowTypes, StateStands, Heard, CancelIsHeard, Settled
<1> QED
  BY <1>1, RowAlways, PTL

-----------------------------------------------------------------------------
(* The details of a knowledge workflow are never taken away.               *)

ShownInv == NeverCleaned /\ (ForKnowledge => DetailsShowAll)

\* Nobody takes instances or details away from a knowledge workflow.
LEMMA ShownRest ==
    ASSUME EndInv, EndInv', ShownInv,
           Main \/ Disconnect \/ Cancel \/ Forget \/ Rest \/ UNCHANGED vars
    PROVE  ShownInv'
<1> USE DEF ShownInv, NeverCleaned, ForKnowledge
<1>0. main \in [pc : MainPcs, mode : AllModes, loop : {"stream", "last", "closed"},
                len : Nat, snap : SUBSET Futures]
  BY DEF EndInv, TypeInv, TypeOK
<1>1. main'.mode = main.mode
  BY <1>0 DEF Main, MainGoto, Launch, Enlist, IsRunLen, IsRunWait, IsRunWaited, IsRunCompare,
              Handle, Cleanup, Disconnect, Cancel, Forget, Rest, vars
<1>2. ForKnowledge => main'.pc # "clean"
  BY <1>0 DEF Main, MainGoto, Launch, Enlist, IsRunLen, IsRunWait, IsRunWaited, IsRunCompare,
              Handle, Cleanup, Disconnect, Cancel, Forget, Rest, vars
<1>3. ForKnowledge => UNCHANGED node_context
  BY DEF Main, Launch, Enlist, IsRunLen, IsRunWait, IsRunWaited, IsRunCompare, Handle, Cleanup,
         Disconnect, Cancel, Forget, Rest, vars
<1>4. ForKnowledge => DetailsShowAll'
  BY <1>3, ShownMain
<1> QED
  BY <1>1, <1>2, <1>4

LEMMA ShownStep == EndInv /\ EndInv' /\ ShownInv /\ [Next]_vars => ShownInv'
<1> SUFFICES ASSUME EndInv, EndInv', ShownInv, [Next]_vars PROVE ShownInv'
  OBVIOUS
<1>1. ASSUME NEW f \in Futures, Thread(f) PROVE ShownInv'
  <2>1. UNCHANGED main
    BY <1>1 DEF Thread, Begin, AppendNode, Run, Check, End, NextEdge, NextNode, SubmitNode,
                Register
  <2> QED
    BY <1>1, <2>1, ShownThread DEF ShownInv, NeverCleaned, ForKnowledge
<1> QED
  BY <1>1, ShownRest DEF Next

LEMMA ShownInit == Init => ShownInv
<1> SUFFICES ASSUME Init PROVE ShownInv
  OBVIOUS
<1>1. Len(objs) = 1 /\ objs[1].out = "none" /\ Shown = {}
  BY DEF Init, Object, Shown
<1> QED
  BY <1>1 DEF Init, ShownInv, NeverCleaned, ForKnowledge, DetailsShowAll, HasRun

LEMMA EngineAlways == ActionSpec => [](EndInv /\ ShownInv)
BY EndInit, EndStep, ShownInit, ShownStep, RunsTheEngine, PTL DEF Spec

-----------------------------------------------------------------------------
(* A SUCCESS is earned.                                                    *)

Earned ==
    /\ \E i \in 1 .. Len(objs) : objs[i].node \in WriteNodes /\ HasRun(objs[i])
    /\ \A i \in 1 .. Len(objs) : objs[i].out = "fail" => MadeUpFor(i)

EarnedInv ==
    /\ flag = "none" => revoked = {}
    /\ verdict # "none" => main.pc \in {"handle", "finished"} /\ ForKnowledge
    /\ verdict = "SUCCESS" /\ flag = "none" => Earned

\* No thread is left: what the details show has run, and the failures among it are seen.
LEMMA JudgeEarned ==
    ASSUME EndInv, ShownInv, EarnedInv, Judge, flag = "none", verdict' = "SUCCESS"
    PROVE  Earned
<1>1. DetailsShowAll /\ revoked = {} /\ main.pc = "handle"
  BY DEF Judge, ShownInv, EarnedInv
<1>2. \A i \in Shown : i \in 1 .. Len(objs) /\ HasRun(objs[i])
  <2>1. \A f \in Futures : pc[f] # "run"
    BY <1>1 DEF EndInv, NothingRunsAfterTheEnd
  <2> QED
    BY <1>1, <2>1, ShownPlaces DEF DetailsShowAll, Working, EndInv
<1>3. /\ \A i \in Shown : objs[i].out # "fail"
      /\ \E i \in Shown : objs[i].node \in WriteNodes
  BY <1>1 DEF Judge, WorkflowState, ShowsFailure
<1>4. \E i \in 1 .. Len(objs) : objs[i].node \in WriteNodes /\ HasRun(objs[i])
  BY <1>2, <1>3
<1>5. ASSUME NEW i \in 1 .. Len(objs), objs[i].out = "fail"
      PROVE  MadeUpFor(i)
  <2>1. Covered(i)
    BY <1>1, <1>5 DEF DetailsShowAll, HasRun
  <2>2. PICK j \in Shown : SameKey(i, j)
    BY <2>1 DEF Covered
  <2>3. j \in DOMAIN objs
    BY <1>2, ShownPlaces DEF EndInv
  <2> QED
    BY <1>2, <1>3, <2>2, <2>3 DEF MadeUpFor, SameKey
<1> QED
  BY <1>4, <1>5 DEF Earned

LEMMA EarnedInit == ActionInit => EarnedInv
BY DEF ActionInit, EarnedInv

LEMMA EarnedStep == EndInv /\ ShownInv /\ EarnedInv /\ [ActionNext]_actionVars => EarnedInv'
<1> SUFFICES ASSUME EndInv, ShownInv, EarnedInv, [ActionNext]_actionVars PROVE EarnedInv'
  OBVIOUS
<1> USE DEF EarnedInv, ForKnowledge
<1>0. /\ main \in [pc : MainPcs, mode : AllModes, loop : {"stream", "last", "closed"},
                   len : Nat, snap : SUBSET Futures]
      /\ ForKnowledge => main.pc # "clean"
  BY DEF EndInv, TypeInv, TypeOK, ShownInv, NeverCleaned
<1>1. ASSUME NEW f \in Futures, ThreadAction(f) PROVE EarnedInv'
  <2>1. UNCHANGED <<main, flag, verdict>>
    BY <1>1 DEF ThreadAction, CheckAction, EndAction, OtherAction, rowVars, Check, End, Begin,
                AppendNode, Run, NextEdge, NextNode, SubmitNode, Register
  <2>2. pc[f] \notin {"none", "done"}
    BY <1>1 DEF ThreadAction, CheckAction, EndAction, OtherAction, Check, End, Begin,
                AppendNode, Run, NextEdge, NextNode, SubmitNode, Register
  <2>3. verdict = "none"
    BY <2>2 DEF EndInv, NothingRunsAfterTheEnd
  <2>4. flag = "none" => revoked' = revoked
    BY <1>1 DEF ThreadAction, CheckAction, EndAction, OtherAction, rowVars
  <2> QED
    BY <2>1, <2>3, <2>4
<1>2. CASE Judge
  <2>1. UNCHANGED <<objs, main, flag, revoked>>
    BY <1>2 DEF Judge, vars
  <2>2. main.pc = "handle" /\ ForKnowledge
    BY <1>2 DEF Judge
  <2>3. verdict' = "SUCCESS" /\ flag = "none" => Earned
    BY <1>2, JudgeEarned
  <2> QED
    BY <2>1, <2>2, <2>3 DEF Earned, MadeUpFor, HasRun
<1>3. CASE \/ LaunchAction \/ HandleAction \/ ReaderAction \/ CancelFlag \/ CancelState
           \/ Environment \/ UNCHANGED actionVars
  <2>1. UNCHANGED <<objs, verdict, revoked>>
    BY <1>3 DEF LaunchAction, HandleAction, ReaderAction, CancelFlag, CancelState, Environment,
                actionVars, vars, rowVars, Launch, Enlist, IsRunLen, IsRunWait, IsRunWaited,
                IsRunCompare, Handle, Cleanup, Disconnect, Cancel, Forget, Rest
  <2>2. flag' = "none" => flag = "none"
    BY <1>3 DEF LaunchAction, HandleAction, ReaderAction, CancelFlag, CancelState, Environment,
                actionVars, vars, Launch, Enlist, IsRunLen, IsRunWait, IsRunWaited,
                IsRunCompare, Handle, Cleanup, Disconnect, Cancel, Forget, Rest
  <2>3. main'.mode = main.mode
    BY <1>0, <1>3 DEF LaunchAction, HandleAction, ReaderAction, CancelFlag, CancelState,
                Environment, actionVars, vars, MainGoto, Launch, Enlist, IsRunLen, IsRunWait,
                IsRunWaited, IsRunCompare, Handle, Cleanup, Disconnect, Cancel, Forget, Rest
  <2>4. ForKnowledge /\ main.pc \in {"handle", "finished"} => main'.pc \in {"handle", "finished"}
    BY <1>0, <1>3 DEF LaunchAction, HandleAction, ReaderAction, CancelFlag, CancelState,
                Environment, actionVars, vars, MainGoto, Launch, Enlist, IsRunLen, IsRunWait,
                IsRunWaited, IsRunCompare, Handle, Cleanup, Disconnect, Cancel, Forget, Rest
  <2> QED
    BY <2>1, <2>2, <2>3, <2>4 DEF Earned, MadeUpFor, HasRun
<1> QED
  BY <1>1, <1>2, <1>3 DEF ActionNext, MainAction

\* A run that reports SUCCESS and was not cancelled has run a node that writes documents,
\* and a failure it does not report was replaced under its runtime_node_id: for every
\* graph, also where a race makes two instances of one node.
THEOREM SuccessEarned == ActionSpec => []SuccessIsEarned
<1>1. EndInv /\ EarnedInv /\ RowInv => SuccessIsEarned
  BY ShownPlaces DEF EndInv, EarnedInv, RowInv, StateStands, SuccessIsEarned, Earned
<1> QED
  BY <1>1, EarnedInit, EarnedStep, EngineAlways, RowAlways, PTL DEF ActionSpec

-----------------------------------------------------------------------------
(* Types.                                                                  *)

LEMMA PlacesStay == TypeInv /\ [Next]_vars => 1 .. Len(objs) \subseteq 1 .. Len(objs')
<1> SUFFICES ASSUME TypeInv, [Next]_vars PROVE Len(objs') >= Len(objs) /\ Len(objs) \in Nat
  OBVIOUS
<1>0. objs \in Seq(Objects) /\ Len(objs) \in Nat
  BY DEF TypeInv, TypeOK
<1>1. CASE UNCHANGED objs
  BY <1>0, <1>1
<1>2. CASE \E o : objs' = Append(objs, o)
  BY <1>0, <1>2
<1>3. CASE \E i, o : objs' = [objs EXCEPT ![i] = o]
  BY <1>0, <1>3
<1>4. ASSUME NEW f \in Futures, Run(f) \/ Check(f) \/ End(f)
      PROVE  objs' = objs \/ \E i, o : objs' = [objs EXCEPT ![i] = o]
  BY <1>4 DEF Run, Check, End
<1>5. ASSUME NEW f \in Futures, NextEdge(f)
      PROVE  objs' = objs \/ \E o : objs' = Append(objs, o)
  BY <1>5 DEF NextEdge
<1>6. \/ UNCHANGED objs \/ \E f \in Futures : Run(f) \/ Check(f) \/ End(f) \/ NextEdge(f)
  BY DEF Next, Thread, Main, Launch, Enlist, IsRunLen, IsRunWait, IsRunWaited, IsRunCompare,
         Handle, Cleanup, Disconnect, Cancel, Forget, Rest, vars, Begin, AppendNode, NextNode,
         SubmitNode, Register
<1> QED
  BY <1>0, <1>1, <1>2, <1>3, <1>4, <1>5, <1>6

LEMMA ActionTypeStep == TypeInv /\ ActionTypeOK /\ [ActionNext]_actionVars => ActionTypeOK'
<1> SUFFICES ASSUME TypeInv, ActionTypeOK, [ActionNext]_actionVars PROVE ActionTypeOK'
  OBVIOUS
<1> USE DEF ActionTypeOK
<1>0. 1 .. Len(objs) \subseteq 1 .. Len(objs')
  BY PlacesStay, StepMaps
<1>1. ASSUME NEW f \in Futures, CheckAction(f) PROVE ActionTypeOK'
  <2>1. cur[f] \in 1 .. Len(objs)
    BY <1>1, ObjType DEF CheckAction, Check
  <2>2. revoked' \subseteq revoked \cup {cur[f]} /\ raised' \subseteq raised \cup {f}
    BY <1>1 DEF CheckAction
  <2>3. UNCHANGED <<state, cancel, verdict, late>>
    BY <1>1 DEF CheckAction
  <2> QED
    BY <1>0, <2>1, <2>2, <2>3
<1>2. ASSUME NEW f \in Futures, EndAction(f) \/ OtherAction(f) PROVE ActionTypeOK'
  BY <1>0, <1>2 DEF EndAction, OtherAction, rowVars, Settled
<1>3. CASE MainAction
  BY <1>0, <1>3 DEF MainAction, LaunchAction, Judge, HandleAction, ReaderAction, rowVars,
                    WorkflowState, Settled
<1>4. CASE CancelFlag \/ CancelState \/ Environment \/ UNCHANGED actionVars
  BY <1>0, <1>4 DEF CancelFlag, CancelState, Environment, actionVars, rowVars
<1> QED
  BY <1>1, <1>2, <1>3, <1>4 DEF ActionNext, ThreadAction

\* The row and what is about to be written to it keep their types in every behaviour.
THEOREM ActionTypeCorrect == ActionSpec => []ActionTypeOK
<1>1. ActionInit => ActionTypeOK
  BY DEF ActionInit, ActionTypeOK
<1>2. EndInv => TypeInv
  BY DEF EndInv
<1> QED
  BY <1>1, <1>2, ActionTypeStep, EngineAlways, PTL DEF ActionSpec
=============================================================================
