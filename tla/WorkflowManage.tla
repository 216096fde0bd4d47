--------------------------- MODULE WorkflowManage ---------------------------
(***************************************************************************)
(* One execution of a workflow: WorkflowManage in application/flow.  The   *)
(* nodes of the graph run on threads of a pool; a thread that has run a    *)
(* node decides which nodes come next, runs one of them itself and hands   *)
(* several to the pool.  A node with the condition AND waits for all its   *)
(* predecessors, one with OR runs for each of them.  Meanwhile one reader  *)
(* (await_result, or the busy loop of run_block) must find out, from a     *)
(* list of futures that is still growing, when nothing runs any more: then *)
(* it stores the record of the chat and takes the workflow apart.          *)
(*                                                                         *)
(* The graph is that of a chat whose answer is streamed ("stream") or not  *)
(* ("block"), of the body of a loop node ("loop", streamed to the node),   *)
(* or of a knowledge base ("knowledge"): KnowledgeWorkflowManage and       *)
(* LoopWorkflowManage inherit everything but their reader and the handling *)
(* of exceptions.                                                          *)
(*                                                                         *)
(* The chunks of text that the nodes stream are left out.  A future is a   *)
(* number, in the order of submission; an object is an instance of a node  *)
(* (INode), known by its place in objs.                                    *)
(***************************************************************************)
EXTENDS Naturals, FiniteSets, Sequences

CONSTANTS
    Nodes,          \* the nodes of the graph
    Edges,          \* its edges, [from, to, anchor]
    Start,          \* the node where the execution begins
    Or,             \* the nodes with the condition OR, the others have AND
    Outcomes,       \* node -> how a run of it can end
    Modes,          \* what the execution is for, one of the four below
    PoolSize,       \* threads of the executor (200 in the code)
    MaxFutures      \* bound: futures of one execution

\* "right" is a plain result, "form" a form nobody has submitted yet, "pause" any other
\* result that interrupts (a form inside a nested workflow, the break of a loop), "fail"
\* an exception that ends the chain; every other outcome is the branch_id of an assertion
\* result, "exception" being the branch of a node with enableException.
Anchors == {"right"} \cup {e.anchor : e \in Edges}
Outs == Anchors \cup {"fail", "form", "pause", "none"}

Futures == 1 .. MaxFutures

AllModes == {"stream", "block", "loop", "knowledge"}

\* The reader is a generator, await_result.
Streamed == {"stream", "loop"}

ASSUME Constants ==
    /\ IsFiniteSet(Nodes)
    /\ Start \in Nodes
    /\ \A e \in Edges :
        /\ e.from \in Nodes /\ e.to \in Nodes
        /\ e.anchor \notin {"form", "pause", "fail", "none"}
    /\ Outcomes \in [Nodes -> SUBSET (Outs \ {"none"})]
    /\ Modes \subseteq AllModes
    /\ PoolSize \in Nat \ {0}
    /\ MaxFutures \in Nat \ {0}

VARIABLES
    objs,           \* the node instances: node, up_node_id_list, chunk ended, outcome
    node_context,   \* indices in objs, one for each runtime_node_id
    future_list,    \* the futures the reader waits for
    submitted,      \* number of futures handed to the executor
    pc,             \* future -> program point of its thread
    cur,            \* future -> the object it runs
    todo,           \* future -> the edges get_next_node_list has yet to look at
    chosen,         \* future -> objects that may run next (node_list)
    kids,           \* future -> futures it has yet to put into future_list
    flag,           \* KNOWLEDGE_WORKFLOW_INTERRUPTED in the cache
    main            \* the reader

threads == <<submitted, pc, cur, todo, chosen, kids>>
vars == <<objs, node_context, future_list, submitted, pc, cur, todo, chosen, kids,
          flag, main>>

-----------------------------------------------------------------------------

Objects == [node : Nodes, up : SUBSET Nodes, ended : BOOLEAN, out : Outs]

Pcs ==
    {"none", "queued", "append", "run", "check", "end", "stop", "next", "submit",
     "register", "done"}

MainPcs ==
    {"launch", "enlist", "len", "wait", "waiting", "compare", "handle", "clean", "finished"}

TypeOK ==
    /\ objs \in Seq(Objects)
    /\ node_context \in Seq(1 .. Len(objs))
    /\ future_list \in Seq(Futures)
    /\ submitted \in 0 .. MaxFutures
    /\ pc \in [Futures -> Pcs]
    /\ cur \in [Futures -> 0 .. Len(objs)]
    /\ todo \in [Futures -> SUBSET Edges]
    /\ chosen \in [Futures -> SUBSET (1 .. Len(objs))]
    /\ kids \in [Futures -> SUBSET Futures]
    /\ flag \in {"none", "set", "gone"}
    /\ main \in [pc : MainPcs, mode : AllModes, loop : {"stream", "last", "closed"},
                 len : Nat, snap : SUBSET Futures]
    /\ \A f \in Futures : pc[f] # "none" => cur[f] \in DOMAIN objs

Object(n, up) == [node |-> n, up |-> up, ended |-> FALSE, out |-> "none"]

Init ==
    /\ objs = <<Object(Start, {})>>
    /\ node_context = <<>>
    /\ future_list = <<>>
    /\ submitted = 0
    /\ pc = [f \in Futures |-> "none"]
    /\ cur = [f \in Futures |-> 0]
    /\ todo = [f \in Futures |-> {}]
    /\ chosen = [f \in Futures |-> {}]
    /\ kids = [f \in Futures |-> {}]
    /\ flag = "none"
    /\ \E m \in Modes :
        main = [pc |-> "launch", mode |-> m, len |-> 0, snap |-> {},
                loop |-> IF m \in Streamed THEN "stream" ELSE "last"]

Obj(f) == objs[cur[f]]

Goto(f, l) == pc' = [pc EXCEPT ![f] = l]

In(n) == {e \in Edges : e.to = n}

\* The edges a node takes after an outcome: those of the branch, or the plain ones.
Taken(n, out) == {e \in Edges : e.from = n /\ e.anchor = out}

-----------------------------------------------------------------------------
(* The executor and run_chain_manage.                                      *)

\* Mutant: the executor is not told which node to run.
SubmitWithoutNode(o) ==
    /\ submitted < MaxFutures
    /\ submitted' = submitted + 1
    /\ UNCHANGED cur

\* The new future of an object, at the end of the queue of the executor.
Submit(o) ==
    /\ submitted < MaxFutures
    /\ submitted' = submitted + 1
    /\ cur' = [cur EXCEPT ![submitted + 1] = o]

\* The executor starts the oldest future when a thread is free.
Begin(f) ==
    /\ pc[f] = "queued"
    /\ \A g \in Futures : pc[g] = "queued" => f <= g
    /\ Cardinality({g \in Futures : pc[g] \notin {"none", "queued", "done"}}) < PoolSize
    /\ Goto(f, "append")
    /\ UNCHANGED <<objs, node_context, future_list, submitted, cur, todo, chosen, kids,
                   flag, main>>

\* append_node: an object takes the place of one with its runtime_node_id, which is made
\* of the node's id and its up_node_id_list.
AppendNode(f) ==
    LET same == {i \in DOMAIN node_context :
                    /\ objs[node_context[i]].node = Obj(f).node
                    /\ objs[node_context[i]].up = Obj(f).up}
    IN /\ pc[f] = "append"
       /\ node_context' =
            IF same = {} THEN Append(node_context, cur[f])
            ELSE [i \in DOMAIN node_context |-> IF i \in same THEN cur[f] ELSE node_context[i]]
       /\ Goto(f, "run")
       /\ UNCHANGED <<objs, future_list, submitted, cur, todo, chosen, kids, flag, main>>

\* The instances whose details are stored.
Shown == {node_context[k] : k \in DOMAIN node_context}

\* run_node and write_context.  run_block knows no exception branch.  (An error that a
\* nested workflow records is a plain result to it.)
Run(f) ==
    /\ pc[f] = "run"
    /\ \E out \in Outcomes[Obj(f).node] :
        objs' = [objs EXCEPT ![cur[f]].out =
                    IF out = "exception" /\ main.mode = "block" THEN "fail" ELSE out]
    /\ Goto(f, "check")
    /\ UNCHANGED <<node_context, future_list, submitted, cur, todo, chosen, kids,
                   flag, main>>

\* is_the_task_interrupted is looked up when the node has run.  An exception that was
\* raised is then no longer sent down its branch, one that a nested workflow has recorded
\* is sent before anybody looks.
Check(f) ==
    LET stopped == main.mode # "block" /\ flag = "set"
    IN /\ pc[f] = "check"
       /\ \/ /\ Obj(f).out = "fail" \/ stopped
             /\ objs' = [objs EXCEPT ![cur[f]].out = IF @ = "exception" THEN "fail" ELSE @]
             /\ Goto(f, "stop")
          \/ /\ Obj(f).out # "fail"
             /\ stopped => Obj(f).out = "exception"
             /\ Goto(f, "end")
             /\ UNCHANGED objs
       /\ UNCHANGED <<node_context, future_list, submitted, cur, todo, chosen, kids,
                      flag, main>>

\* Mutant: node_chunk.end() in the except clause only.
EndOnlyOnError(f) ==
    LET o == Obj(f)
    IN /\ pc[f] \in {"end", "stop"}
       /\ objs' = [objs EXCEPT ![cur[f]].ended = (pc[f] = "stop")]
       /\ Goto(f, IF pc[f] = "stop" \/ o.out \in {"form", "pause"} THEN "done" ELSE "next")
       /\ todo' = [todo EXCEPT ![f] = IF pc[f] = "stop" THEN {} ELSE Taken(o.node, o.out)]
       /\ UNCHANGED <<node_context, future_list, submitted, cur, chosen, kids, flag,
                      main>>

\* node_chunk.end() in the finally clause; a result that interrupts has no next node.
End(f) ==
    LET o == Obj(f)
    IN /\ pc[f] \in {"end", "stop"}
       /\ objs' = [objs EXCEPT ![cur[f]].ended = TRUE]
       /\ Goto(f, IF pc[f] = "stop" \/ o.out \in {"form", "pause"} THEN "done" ELSE "next")
       /\ todo' = [todo EXCEPT ![f] = IF pc[f] = "stop" THEN {} ELSE Taken(o.node, o.out)]
       /\ UNCHANGED <<node_context, future_list, submitted, cur, chosen, kids, flag,
                      main>>

\* Mutant: dependent_node does not ask node_chunk.is_end().
DependentBeforeEnd(e, o) ==
    /\ o.node = e.from
    /\ o.out # "form"
    /\ o.out \notin {"right", "fail", "pause", "none"} => e.anchor = o.out

\* dependent_node: the object has ended, and on the branch of the edge if it took one.
\* A failed node took none.
Dependent(e, o) ==
    /\ o.node = e.from
    /\ o.ended
    /\ o.out # "form"
    /\ o.out \notin {"right", "fail", "pause"} => e.anchor = o.out

DependentNodeBeenExecuted(n) ==
    \A e \in In(n) : \E i \in DOMAIN node_context : Dependent(e, objs[node_context[i]])

\* up_node_id_list of the next object: behind a node with several predecessors the list
\* is that of the predecessor with the smallest id, whoever comes last.
UpNodes(f, n) ==
    LET ups == {e.from : e \in In(n)}
        first == CHOOSE m \in ups : TRUE
        place == CHOOSE i \in DOMAIN node_context :
                    /\ objs[node_context[i]].node = first
                    /\ \A j \in 1 .. i - 1 : objs[node_context[j]].node # first
    IN IF n \notin Or /\ Cardinality(In(n)) > 1
       THEN objs[node_context[place]].up \cup {first}
       ELSE Obj(f).up \cup {Obj(f).node}

\* Mutant: the condition of the next node is not looked up.
NextEdgeWithoutOr(f) ==
    /\ pc[f] = "next"
    /\ \E e \in todo[f] :
        /\ todo' = [todo EXCEPT ![f] = @ \ {e}]
        /\ \/ /\ DependentNodeBeenExecuted(e.to)
              /\ objs' = Append(objs, Object(e.to, UpNodes(f, e.to)))
              /\ chosen' = [chosen EXCEPT ![f] = @ \cup {Len(objs) + 1}]
           \/ /\ ~ DependentNodeBeenExecuted(e.to)
              /\ UNCHANGED <<objs, chosen>>
    /\ UNCHANGED <<node_context, future_list, submitted, pc, cur, kids, flag, main>>

\* get_next_node_list, one edge at a time.
NextEdge(f) ==
    /\ pc[f] = "next"
    /\ \E e \in todo[f] :
        /\ todo' = [todo EXCEPT ![f] = @ \ {e}]
        /\ \/ /\ e.to \in Or \/ DependentNodeBeenExecuted(e.to)
              /\ objs' = Append(objs, Object(e.to, UpNodes(f, e.to)))
              /\ chosen' = [chosen EXCEPT ![f] = @ \cup {Len(objs) + 1}]
           \/ /\ ~ (e.to \in Or \/ DependentNodeBeenExecuted(e.to))
              /\ UNCHANGED <<objs, chosen>>
    /\ UNCHANGED <<node_context, future_list, submitted, pc, cur, kids, flag, main>>

\* No next node ends the thread, a single one is run by the same thread.
NextNode(f) ==
    /\ pc[f] = "next"
    /\ todo[f] = {}
    /\ \/ /\ chosen[f] = {}
          /\ Goto(f, "done")
          /\ UNCHANGED <<cur, chosen>>
       \/ \E o \in chosen[f] :
            /\ chosen[f] = {o}
            /\ cur' = [cur EXCEPT ![f] = o]
            /\ chosen' = [chosen EXCEPT ![f] = {}]
            /\ Goto(f, "append")
       \/ /\ Cardinality(chosen[f]) > 1
          /\ Goto(f, "submit")
          /\ UNCHANGED <<cur, chosen>>
    /\ UNCHANGED <<objs, node_context, future_list, submitted, todo, kids, flag, main>>

\* Several next nodes are all handed to the executor before the first of their futures
\* is put into future_list.
SubmitNode(f) ==
    /\ pc[f] = "submit"
    /\ \E o \in chosen[f] :
        /\ Submit(o)
        /\ chosen' = [chosen EXCEPT ![f] = @ \ {o}]
        /\ pc' = [pc EXCEPT ![submitted + 1] = "queued",
                            ![f] = IF chosen[f] = {o} THEN "register" ELSE "submit"]
    /\ kids' = [kids EXCEPT ![f] = @ \cup {submitted + 1}]
    /\ UNCHANGED <<objs, node_context, future_list, todo, flag, main>>

Register(f) ==
    /\ pc[f] = "register"
    /\ \E k \in kids[f] :
        /\ future_list' = Append(future_list, k)
        /\ kids' = [kids EXCEPT ![f] = @ \ {k}]
        /\ Goto(f, IF kids[f] = {k} THEN "done" ELSE "register")
    /\ UNCHANGED <<objs, node_context, submitted, cur, todo, chosen, flag, main>>

-----------------------------------------------------------------------------
(* The reader: run_chain_async, then is_run until nothing runs.            *)

MainGoto(l) == main' = [main EXCEPT !.pc = l]

Launch ==
    /\ main.pc = "launch"
    /\ Submit(1)
    /\ pc' = [pc EXCEPT ![submitted + 1] = "queued"]
    /\ MainGoto("enlist")
    /\ UNCHANGED <<objs, node_context, future_list, todo, chosen, kids, flag>>

Enlist ==
    /\ main.pc = "enlist"
    /\ future_list' = Append(future_list, 1)
    /\ MainGoto("len")
    /\ UNCHANGED <<objs, node_context, threads, flag>>

\* Mutant: is_run counts the list once, before the execution has begun.
IsRunLenOnce ==
    /\ main.pc = "len"
    /\ main' = [main EXCEPT !.pc = "wait"]
    /\ UNCHANGED <<objs, node_context, future_list, threads, flag>>

IsRunLen ==
    /\ main.pc = "len"
    /\ main' = [main EXCEPT !.pc = "wait", !.len = Len(future_list)]
    /\ UNCHANGED <<objs, node_context, future_list, threads, flag>>

\* concurrent.futures.wait copies the list when it is called.
IsRunWait ==
    /\ main.pc = "wait"
    /\ main' = [main EXCEPT !.pc = "waiting",
                            !.snap = {future_list[i] : i \in DOMAIN future_list}]
    /\ UNCHANGED <<objs, node_context, future_list, threads, flag>>

\* All are done, or half a second has passed.
IsRunWaited ==
    /\ main.pc = "waiting"
    /\ MainGoto(IF \A f \in main.snap : pc[f] = "done" THEN "compare" ELSE "len")
    /\ UNCHANGED <<objs, node_context, future_list, threads, flag>>

\* Mutant: is_run does not compare the lengths.
IsRunCompareNothing ==
    /\ main.pc = "compare"
    /\ main' = [main EXCEPT !.pc = IF main.loop # "stream" THEN "handle" ELSE "len",
                            !.loop = IF main.loop = "stream" THEN "last" ELSE @]
    /\ UNCHANGED <<objs, node_context, future_list, threads, flag>>

\* is_run returns False only if the list is as long as before.  await_result then drains
\* the chunks and asks once more in its finally clause.
IsRunCompare ==
    /\ main.pc = "compare"
    /\ main' = [main EXCEPT
                    !.pc = IF main.len = Len(future_list) /\ main.loop # "stream"
                           THEN "handle" ELSE "len",
                    !.loop = IF main.len = Len(future_list) /\ main.loop = "stream"
                             THEN "last" ELSE @]
    /\ UNCHANGED <<objs, node_context, future_list, threads, flag>>

\* The client has gone, or the loop node returns at the chunk of an error: the generator
\* is closed at a yield, which runs its finally clause.
Disconnect ==
    /\ main.pc = "len"
    /\ main.loop = "stream"
    /\ main' = [main EXCEPT !.loop = "closed"]
    /\ UNCHANGED <<objs, node_context, future_list, threads, flag>>

\* The post handler stores the details of node_context.  A closed generator may not yield
\* again: it dies at the last chunk and _cleanup is not reached, and a knowledge workflow
\* is never taken apart.
Handle ==
    /\ main.pc = "handle"
    /\ MainGoto(IF main.loop = "closed" \/ main.mode = "knowledge" THEN "finished" ELSE "clean")
    /\ UNCHANGED <<objs, node_context, future_list, threads, flag>>

Cleanup ==
    /\ main.pc = "clean"
    /\ future_list' = <<>>
    /\ node_context' = <<>>
    /\ MainGoto("finished")
    /\ UNCHANGED <<objs, threads, flag>>

\* The user cancels the run of a knowledge workflow, and with it those of its loops.
Cancel ==
    /\ main.mode \in {"knowledge", "loop"}
    /\ flag # "set"
    /\ flag' = "set"
    /\ UNCHANGED <<objs, node_context, future_list, threads, main>>

\* The flag is cached without a timeout of its own: the default one, 300 seconds, is over.
Forget ==
    /\ flag = "set"
    /\ flag' = "gone"
    /\ UNCHANGED <<objs, node_context, future_list, threads, main>>

-----------------------------------------------------------------------------

Thread(f) ==
    \/ Begin(f) \/ AppendNode(f) \/ Run(f) \/ Check(f) \/ End(f) \/ NextEdge(f)
    \/ NextNode(f) \/ SubmitNode(f) \/ Register(f)

Main ==
    \/ Launch \/ Enlist \/ IsRunLen \/ IsRunWait \/ IsRunWaited \/ IsRunCompare \/ Handle
    \/ Cleanup

Rest ==
    /\ main.pc = "finished"
    /\ \A f \in Futures : pc[f] \in {"none", "done"}
    /\ UNCHANGED vars

Next ==
    \/ \E f \in Futures : Thread(f)
    \/ Main
    \/ Disconnect
    \/ Cancel
    \/ Forget
    \/ Rest

Spec == Init /\ [][Next]_vars

\* Threads make progress, and so does the reader.  No node is assumed to succeed, no
\* client to stay and no user to cancel.
Fairness == WF_vars(Main) /\ \A f \in Futures : WF_vars(Thread(f))

FairSpec == Spec /\ Fairness

-----------------------------------------------------------------------------
(* Properties.                                                             *)

\* The reader stores the record and clears the workflow only when no thread of the
\* execution runs or waits to run, although it never sees the futures that a thread has
\* submitted and not yet put into the list.
NothingRunsAfterTheEnd ==
    main.pc \in {"handle", "clean", "finished"} => \A f \in Futures : pc[f] \in {"none", "done"}

\* A node with the condition AND is instantiated only after an instance of each of its
\* predecessors has ended, none of them on another branch or in a form.  (The first
\* object is the one the execution begins with.)
JoinAfterAll ==
    \A i \in DOMAIN objs :
        i > 1 /\ objs[i].node \notin Or =>
            \A e \in In(objs[i].node) : \E j \in DOMAIN objs :
                /\ objs[j].node = e.from
                /\ objs[j].ended
                /\ objs[j].out \in {e.anchor, "right", "pause", "fail"}

TookEdge(e, o) == o.node = e.from /\ o.out = e.anchor

HasRun(o) == o.out # "none"

\* Two instances of a node have one runtime_node_id: the second replaces the first.
Twice(n) ==
    \E i, j \in DOMAIN objs :
        /\ i # j /\ objs[i].node = n /\ objs[j].node = n
        /\ objs[i].up = objs[j].up

\* No wake-up is lost: when the execution is over and was never cancelled, a node with AND
\* has run if every one of its edges was taken, by predecessors that were not replaced, and
\* a node with OR has run behind every instance that took an edge to it.
NoLostNode ==
    main.pc = "handle" /\ flag = "none" =>
        \A n \in Nodes \ {Start} :
            /\ /\ n \notin Or /\ In(n) # {}
               /\ \A e \in In(n) :
                    ~ Twice(e.from) /\ \E i \in DOMAIN objs : TookEdge(e, objs[i])
               => \E i \in DOMAIN objs : objs[i].node = n /\ HasRun(objs[i])
            /\ n \in Or => \A e \in In(n), i \in DOMAIN objs :
                TookEdge(e, objs[i]) =>
                    \E j \in DOMAIN objs :
                        /\ objs[j].node = n /\ HasRun(objs[j])
                        /\ objs[j].up = objs[i].up \cup {objs[i].node}

\* The condition AND joins the predecessors: no second instance of the node with the
\* same runtime_node_id is ever made.
JoinsOnce == \A n \in Nodes : ~ Twice(n)

\* The reader always gets to its end.
Terminates == <>(main.pc = "finished")
=============================================================================
