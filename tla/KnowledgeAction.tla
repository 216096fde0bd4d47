--------------------------- MODULE KnowledgeAction ---------------------------
(***************************************************************************)
(* The row KnowledgeAction that a user watches while a knowledge workflow  *)
(* runs, composed with the execution itself.  Three parties write its      *)
(* state with nothing between them: the thread of a node that raises, the  *)
(* post handler at the end of the run, and the request that cancels.  The  *)
(* request sets a flag in the cache and then the state; the nodes and the  *)
(* handler look at the flag, and the flag runs out after 300 seconds.      *)
(*                                                                         *)
(* Of the execution, everything is in WorkflowManage; here its steps are   *)
(* joined with what they do to the row, and a run of another kind than     *)
(* "knowledge" leaves the row alone.                                       *)
(***************************************************************************)
EXTENDS WorkflowManage

CONSTANT
    WriteNodes      \* the nodes of the type knowledge-write-node

ASSUME WriteConstants == WriteNodes \subseteq Nodes

VARIABLES
    state,          \* KnowledgeAction.state
    cancel,         \* the request that cancels: "idle", or "update" between its two steps
    raised,         \* futures whose node has raised an exception nobody handles
    revoked,        \* node instances whose status is 201
    verdict,        \* what the post handler is about to write
    late            \* history: the last cancel came after the verdict

rowVars == <<state, cancel, raised, revoked, verdict, late>>
actionVars == <<vars, rowVars>>

Settled == {"SUCCESS", "FAILURE", "REVOKED"}

ActionTypeOK ==
    /\ state \in Settled \cup {"STARTED", "REVOKE"}
    /\ cancel \in {"idle", "update"}
    /\ raised \in SUBSET Futures
    /\ revoked \in SUBSET (1 .. Len(objs))
    /\ verdict \in Settled \cup {"none"}
    /\ late \in BOOLEAN

\* The row is created STARTED before the run is handed to the executor.
ActionInit ==
    /\ Init
    /\ state = "STARTED"
    /\ cancel = "idle"
    /\ raised = {}
    /\ revoked = {}
    /\ verdict = "none"
    /\ late = FALSE

ForKnowledge == main.mode = "knowledge"

-----------------------------------------------------------------------------
(* The run.                                                                *)

\* _run sets STARTED once more, also over the REVOKE of a user who was faster.
LaunchAction ==
    /\ Launch
    /\ state' = IF ForKnowledge THEN "STARTED" ELSE state
    /\ UNCHANGED <<cancel, raised, revoked, verdict, late>>

\* A node that is found interrupted gets the status 201 in place of any other.  A failure
\* is either raised, or recorded by a nested workflow and then a result without an end.
CheckAction(f) ==
    /\ Check(f)
    /\ \/ /\ pc'[f] = "end" \/ Obj(f).out = "fail"
          /\ UNCHANGED <<raised, revoked>>
       \/ /\ pc'[f] = "stop"
          /\ flag = "set"
          /\ revoked' = revoked \cup {cur[f]}
          /\ UNCHANGED raised
       \/ /\ pc'[f] = "stop"
          /\ flag # "set"
          /\ raised' = raised \cup {f}
          /\ UNCHANGED revoked
    /\ UNCHANGED <<state, cancel, verdict, late>>

\* The last thing a node does that has raised: the whole run is a FAILURE.
EndAction(f) ==
    /\ End(f)
    /\ state' = IF f \in raised /\ ForKnowledge THEN "FAILURE" ELSE state
    /\ raised' = raised \ {f}
    /\ UNCHANGED <<cancel, revoked, verdict, late>>

OtherAction(f) ==
    /\ \/ Begin(f) \/ AppendNode(f) \/ Run(f) \/ NextEdge(f) \/ NextNode(f) \/ SubmitNode(f)
       \/ Register(f)
    /\ UNCHANGED rowVars

\* A node in the details whose status is 500.
ShowsFailure(i) == objs[i].out = "fail" /\ i \notin revoked

\* Mutant: the nodes are looked at before the flag.
WorkflowStateErrFirst ==
    IF \E i \in Shown : ShowsFailure(i) THEN "FAILURE"
    ELSE IF flag = "set" THEN "REVOKED"
    ELSE IF \A i \in Shown : objs[i].node \notin WriteNodes THEN "FAILURE"
    ELSE "SUCCESS"

\* Mutant: only the node that writes the documents counts.
WorkflowStateWriteOnly ==
    IF flag = "set" THEN "REVOKED"
    ELSE IF \A i \in Shown : objs[i].node \notin WriteNodes THEN "FAILURE"
    ELSE "SUCCESS"

\* Mutant: the request for a cancel is taken for its success.
WorkflowStateRevoke ==
    IF flag = "set" THEN "REVOKE"
    ELSE IF \E i \in Shown : ShowsFailure(i) THEN "FAILURE"
    ELSE IF \A i \in Shown : objs[i].node \notin WriteNodes THEN "FAILURE"
    ELSE "SUCCESS"

\* get_workflow_state: the nodes that were replaced under their runtime_node_id are not
\* among the details.
WorkflowState ==
    IF flag = "set" THEN "REVOKED"
    ELSE IF \E i \in Shown : ShowsFailure(i) THEN "FAILURE"
    ELSE IF \A i \in Shown : objs[i].node \notin WriteNodes THEN "FAILURE"
    ELSE "SUCCESS"

\* The post handler finds the state ...
Judge ==
    /\ ForKnowledge
    /\ main.pc = "handle"
    /\ verdict = "none"
    /\ verdict' = WorkflowState
    /\ UNCHANGED <<vars, state, cancel, raised, revoked, late>>

\* ... and writes it, whatever the row holds by then.
HandleAction ==
    /\ ForKnowledge => verdict # "none"
    /\ Handle
    /\ state' = IF ForKnowledge THEN verdict ELSE state
    /\ UNCHANGED <<cancel, raised, revoked, verdict, late>>

ReaderAction ==
    /\ Enlist \/ IsRunLen \/ IsRunWait \/ IsRunWaited \/ IsRunCompare \/ Cleanup
    /\ UNCHANGED rowVars

-----------------------------------------------------------------------------
(* The request that cancels, at any time and any number of times.          *)

CancelFlag ==
    /\ ForKnowledge
    /\ cancel = "idle"
    /\ Cancel \/ (flag = "set" /\ UNCHANGED vars)
    /\ cancel' = "update"
    /\ late' = (verdict # "none" /\ (late \/ flag # "set"))
    /\ UNCHANGED <<state, raised, revoked, verdict>>

\* Mutant: the update does not ask for the state it replaces.
CancelAnyState ==
    /\ cancel = "update"
    /\ cancel' = "idle"
    /\ state' = "REVOKE"
    /\ UNCHANGED <<vars, raised, revoked, verdict, late>>

CancelState ==
    /\ cancel = "update"
    /\ cancel' = "idle"
    /\ state' = IF state = "STARTED" THEN "REVOKE" ELSE state
    /\ UNCHANGED <<vars, raised, revoked, verdict, late>>

-----------------------------------------------------------------------------

ThreadAction(f) == CheckAction(f) \/ EndAction(f) \/ OtherAction(f)

MainAction == LaunchAction \/ Judge \/ HandleAction \/ ReaderAction

Environment == (Disconnect \/ Forget \/ Rest) /\ UNCHANGED rowVars

ActionNext ==
    \/ \E f \in Futures : ThreadAction(f)
    \/ MainAction
    \/ CancelFlag
    \/ CancelState
    \/ Environment

ActionSpec == ActionInit /\ [][ActionNext]_actionVars

-----------------------------------------------------------------------------
(* Properties.                                                             *)

\* When the run is over the row says what the post handler found, for ever: no thread
\* writes its FAILURE over it, and a cancel that comes late, or was in the middle, does
\* not turn it back into REVOKE, which nothing would ever resolve.
StateStands ==
    ForKnowledge /\ main.pc = "finished" => state = verdict /\ state \in Settled

\* A failure that was replaced under its runtime_node_id by an instance that did not fail.
MadeUpFor(i) ==
    \E j \in DOMAIN objs :
        /\ objs[j].node = objs[i].node
        /\ objs[j].up = objs[i].up
        /\ HasRun(objs[j]) /\ objs[j].out # "fail"

\* A run that nobody cancelled and that reports SUCCESS has run a node that writes
\* documents, and every failure in it was made up for.
SuccessIsEarned ==
    ForKnowledge /\ main.pc = "finished" /\ state = "SUCCESS" /\ flag = "none" =>
        /\ \E i \in DOMAIN objs : objs[i].node \in WriteNodes /\ HasRun(objs[i])
        /\ \A i \in DOMAIN objs : objs[i].out = "fail" => MadeUpFor(i)

\* A cancel whose flag is still there, and that came before the verdict, ends in REVOKED,
\* whatever the nodes did and in whatever order the states were written.
CancelIsHeard ==
    ForKnowledge /\ main.pc = "finished" /\ flag = "set" /\ ~ late => state = "REVOKED"
=============================================================================
