------------------------ MODULE WorkflowManageProofs ------------------------
(***************************************************************************)
(* Theorems about WorkflowManage, for every graph, every outcome of its    *)
(* nodes, every mode and every size of the pool.                           *)
(***************************************************************************)
EXTENDS WorkflowManage, FiniteSetTheorems, WellFoundedInduction, TLAPS

USE Constants

-----------------------------------------------------------------------------
(* Types.                                                                  *)

TypeInv == TypeOK /\ objs # <<>>

\* The object of a future that has been submitted.
LEMMA ObjType ==
    ASSUME TypeInv, NEW f \in Futures, pc[f] # "none"
    PROVE  cur[f] \in 1 .. Len(objs) /\ Obj(f) \in Objects
BY DEF TypeInv, TypeOK, Obj

\* A new instance of a node goes to the end of objs, and every place stays valid.
LEMMA NewObject ==
    ASSUME TypeInv, NEW o \in Objects
    PROVE  /\ Append(objs, o) \in Seq(Objects)
           /\ Append(objs, o) # <<>>
           /\ Len(Append(objs, o)) = Len(objs) + 1
           /\ \A i \in 1 .. Len(objs) : Append(objs, o)[i] = objs[i]
           /\ Append(objs, o)[Len(objs) + 1] = o
           /\ Len(objs) \in Nat
           /\ node_context \in Seq(1 .. Len(objs) + 1)
<1>1. Len(objs) \in Nat /\ objs \in Seq(Objects)
  BY DEF TypeInv, TypeOK
<1>2. node_context \in Seq(1 .. Len(objs) + 1)
  <2>1. node_context \in Seq(1 .. Len(objs))
    BY DEF TypeInv, TypeOK
  <2>2. \A i \in 1 .. Len(node_context) : node_context[i] \in 1 .. Len(objs) + 1
    BY <2>1, <1>1
  <2> QED
    BY <2>1, <2>2
<1>3. Append(objs, o) \in Seq(Objects) /\ Len(Append(objs, o)) = Len(objs) + 1
  BY <1>1
<1>4. Append(objs, o)[Len(objs) + 1] = o
  BY <1>1
<1>5. \A i \in 1 .. Len(objs) : Append(objs, o)[i] = objs[i]
  BY <1>1
<1>6. Append(objs, o) # <<>>
  BY <1>1, <1>3
<1> QED
  BY <1>1, <1>2, <1>3, <1>4, <1>5, <1>6

LEMMA TypeInit == Init => TypeInv
<1> SUFFICES ASSUME Init PROVE TypeInv
  OBVIOUS
<1>1. Object(Start, {}) \in Objects
  BY DEF Object, Objects, Outs
<1>2. /\ objs \in Seq(Objects) /\ Len(objs) = 1 /\ objs # <<>>
      /\ node_context \in Seq(1 .. Len(objs))
  BY <1>1 DEF Init
<1>3. main \in [pc : MainPcs, mode : AllModes, loop : {"stream", "last", "closed"},
                len : Nat, snap : SUBSET Futures]
  BY DEF Init, MainPcs, AllModes
<1>4. future_list \in Seq(Futures) /\ submitted \in 0 .. MaxFutures /\ flag \in {"none", "set", "gone"}
  <2>1. submitted \in 0 .. MaxFutures
    BY DEF Init
  <2>2. flag \in {"none", "set", "gone"}
    BY DEF Init
  <2>3. future_list \in Seq(Futures)
    BY DEF Init
  <2> QED
    BY <2>1, <2>2, <2>3
<1>5. pc \in [Futures -> Pcs] /\ \A f \in Futures : pc[f] = "none"
  BY DEF Init, Pcs
<1>6. cur \in [Futures -> 0 .. Len(objs)]
  BY <1>2 DEF Init
<1>7. /\ todo \in [Futures -> SUBSET Edges]
      /\ chosen \in [Futures -> SUBSET (1 .. Len(objs))]
      /\ kids \in [Futures -> SUBSET Futures]
  BY DEF Init
<1> QED
  BY <1>2, <1>3, <1>4, <1>5, <1>6, <1>7 DEF TypeInv, TypeOK

\* up_node_id_list of a next node that is not run because of OR.
LEMMA UpNodesType ==
    ASSUME TypeInv, NEW f \in Futures, pc[f] # "none", NEW e \in Edges,
           e.to \in Or \/ DependentNodeBeenExecuted(e.to)
    PROVE  UpNodes(f, e.to) \in SUBSET Nodes
<1>1. Obj(f).up \cup {Obj(f).node} \in SUBSET Nodes
  BY ObjType DEF Objects
<1> DEFINE ups == {x.from : x \in In(e.to)}
           first == CHOOSE m \in ups : TRUE
           Place(i) == /\ objs[node_context[i]].node = first
                       /\ \A j \in 1 .. i - 1 : objs[node_context[j]].node # first
           place == CHOOSE i \in DOMAIN node_context : Place(i)
<1>2. CASE ~ (e.to \notin Or /\ Cardinality(In(e.to)) > 1)
  BY <1>1, <1>2 DEF UpNodes
<1>3. CASE e.to \notin Or /\ Cardinality(In(e.to)) > 1
  <2>1. first \in ups
    BY DEF In
  <2>2. first \in Nodes
    BY <2>1 DEF In
  <2> DEFINE at == {i \in DOMAIN node_context : objs[node_context[i]].node = first}
  <2>3. at # {} /\ at \subseteq Nat
    <3>1. PICK x \in In(e.to) : x.from = first
      BY <2>1
    <3>2. PICK i \in DOMAIN node_context : Dependent(x, objs[node_context[i]])
      BY <1>3, <3>1 DEF DependentNodeBeenExecuted
    <3> QED
      BY <3>1, <3>2 DEF Dependent, TypeInv, TypeOK
  <2>4. PICK i \in at : \A j \in at : <<j, i>> \notin OpToRel(<, Nat)
    BY <2>3, NatLessThanWellFounded, WFMin
  <2>5. \A j \in 1 .. i - 1 : objs[node_context[j]].node # first
    <3> SUFFICES ASSUME NEW j \in 1 .. i - 1, objs[node_context[j]].node = first PROVE FALSE
      OBVIOUS
    <3>1. i \in 1 .. Len(node_context) /\ Len(node_context) \in Nat
      BY DEF TypeInv, TypeOK
    <3>2. j \in at /\ j < i /\ j \in Nat /\ i \in Nat
      BY <3>1 DEF TypeInv, TypeOK
    <3> QED
      BY <3>2, <2>4 DEF OpToRel
  <2>6. place \in DOMAIN node_context
    BY <2>4, <2>5
  <2>7. objs[node_context[place]] \in Objects
    BY <2>6 DEF TypeInv, TypeOK
  <2>8. objs[node_context[place]].up \cup {first} \in SUBSET Nodes
    BY <2>7, <2>2 DEF Objects
  <2> QED
    BY <1>3, <2>8 DEF UpNodes
<1> QED
  BY <1>2, <1>3

\* The reader's own steps and the cancel.
LEMMA TypeMain ==
    ASSUME TypeInv, Main \/ Disconnect \/ Cancel \/ Forget
    PROVE  TypeInv'
<1>1. CASE Launch
  <2>1. 1 \in 1 .. Len(objs) /\ submitted + 1 \in Futures /\ submitted + 1 \in 0 .. MaxFutures
    BY <1>1 DEF Launch, Submit, TypeInv, TypeOK, Futures
  <2>2. main' \in [pc : MainPcs, mode : AllModes, loop : {"stream", "last", "closed"},
                   len : Nat, snap : SUBSET Futures]
    BY <1>1 DEF Launch, MainGoto, TypeInv, TypeOK, MainPcs
  <2>3. pc' \in [Futures -> Pcs] /\ cur' \in [Futures -> 0 .. Len(objs)]
    BY <1>1, <2>1 DEF Launch, Submit, TypeInv, TypeOK, Pcs
  <2>4. \A f \in Futures : pc'[f] # "none" => cur'[f] \in DOMAIN objs
    BY <1>1, <2>1 DEF Launch, Submit, TypeInv, TypeOK
  <2> QED
    BY <1>1, <2>1, <2>2, <2>3, <2>4 DEF Launch, Submit, TypeInv, TypeOK
<1>2. CASE Enlist
  <2>1. 1 \in Futures
    BY DEF Futures
  <2>2. future_list' \in Seq(Futures)
    BY <1>2, <2>1 DEF Enlist, TypeInv, TypeOK
  <2>3. main' \in [pc : MainPcs, mode : AllModes, loop : {"stream", "last", "closed"},
                   len : Nat, snap : SUBSET Futures]
    BY <1>2 DEF Enlist, MainGoto, TypeInv, TypeOK, MainPcs
  <2> QED
    BY <1>2, <2>2, <2>3 DEF Enlist, TypeInv, TypeOK, threads
<1>3. CASE IsRunLen \/ IsRunWait \/ IsRunWaited \/ IsRunCompare \/ Handle \/ Disconnect
  <2>1. /\ Len(future_list) \in Nat
        /\ {future_list[i] : i \in DOMAIN future_list} \in SUBSET Futures
    BY DEF TypeInv, TypeOK
  <2>2. main' \in [pc : MainPcs, mode : AllModes, loop : {"stream", "last", "closed"},
                   len : Nat, snap : SUBSET Futures]
    BY <1>3, <2>1 DEF IsRunLen, IsRunWait, IsRunWaited, IsRunCompare, Handle, Disconnect,
                      MainGoto, TypeInv, TypeOK, MainPcs
  <2>3. UNCHANGED <<objs, node_context, future_list, threads, flag>>
    BY <1>3 DEF IsRunLen, IsRunWait, IsRunWaited, IsRunCompare, Handle, Disconnect
  <2> QED
    BY <2>2, <2>3 DEF TypeInv, TypeOK, threads
<1>4. CASE Cleanup
  <2>1. main' \in [pc : MainPcs, mode : AllModes, loop : {"stream", "last", "closed"},
                   len : Nat, snap : SUBSET Futures]
    BY <1>4 DEF Cleanup, MainGoto, TypeInv, TypeOK, MainPcs
  <2>2. future_list' \in Seq(Futures) /\ node_context' \in Seq(1 .. Len(objs))
    BY <1>4 DEF Cleanup
  <2> QED
    BY <1>4, <2>1, <2>2 DEF Cleanup, TypeInv, TypeOK, threads
<1>5. CASE Cancel \/ Forget
  BY <1>5 DEF Cancel, Forget, TypeInv, TypeOK, threads
<1> QED
  BY <1>1, <1>2, <1>3, <1>4, <1>5 DEF Main

\* A thread changes its object and goes on.
LEMMA TypeObject ==
    ASSUME TypeInv, NEW f \in Futures, NEW o \in Objects, NEW l \in Pcs, pc[f] # "none",
           objs' = [objs EXCEPT ![cur[f]] = o], Goto(f, l),
           todo' \in [Futures -> SUBSET Edges],
           UNCHANGED <<node_context, future_list, submitted, cur, chosen, kids, flag,
                       main>>
    PROVE  TypeInv'
<1>1. /\ objs' \in Seq(Objects) /\ Len(objs') = Len(objs) /\ objs' # <<>>
      /\ DOMAIN objs' = DOMAIN objs
  BY DEF TypeInv, TypeOK
<1>2. pc' \in [Futures -> Pcs] /\ \A g \in Futures : pc'[g] # "none" => pc[g] # "none"
  BY DEF Goto, TypeInv, TypeOK
<1> QED
  BY <1>1, <1>2 DEF TypeInv, TypeOK

LEMMA TypeThread ==
    ASSUME TypeInv, NEW f \in Futures, Thread(f)
    PROVE  TypeInv'
<1>0. Len(objs) \in Nat /\ pc \in [Futures -> Pcs]
  BY DEF TypeInv, TypeOK
<1>1. CASE Begin(f)
  BY <1>1 DEF Begin, Goto, TypeInv, TypeOK, Pcs
<1>2. CASE AppendNode(f)
  <2>1. cur[f] \in 1 .. Len(objs)
    BY <1>2, ObjType DEF AppendNode
  <2>2. node_context' \in Seq(1 .. Len(objs))
    <3>1. node_context \in Seq(1 .. Len(objs))
      BY DEF TypeInv, TypeOK
    <3>2. CASE node_context' = Append(node_context, cur[f])
      BY <2>1, <3>1, <3>2
    <3>3. ASSUME NEW same,
                 node_context' = [i \in DOMAIN node_context |->
                                    IF i \in same THEN cur[f] ELSE node_context[i]]
          PROVE  node_context' \in Seq(1 .. Len(objs))
      <4>1. Len(node_context) \in Nat /\ DOMAIN node_context = 1 .. Len(node_context)
        BY <3>1
      <4>2. \A i \in 1 .. Len(node_context) : node_context[i] \in 1 .. Len(objs)
        BY <3>1
      <4>3. node_context' \in [1 .. Len(node_context) -> 1 .. Len(objs)]
        BY <2>1, <3>3, <4>1, <4>2
      <4> QED
        BY <4>1, <4>3
    <3> QED
      BY <1>2, <3>2, <3>3 DEF AppendNode
  <2>3. pc' \in [Futures -> Pcs] /\ \A g \in Futures : pc'[g] # "none" => pc[g] # "none"
    BY <1>2, <1>0 DEF AppendNode, Goto, Pcs
  <2> QED
    BY <1>2, <2>2, <2>3 DEF AppendNode, TypeInv, TypeOK
<1>3. CASE Run(f)
  <2>1. Obj(f) \in Objects
    BY <1>3, ObjType DEF Run
  <2>2. PICK out \in Outcomes[Obj(f).node] :
            objs' = [objs EXCEPT ![cur[f]].out =
                        IF out = "exception" /\ main.mode = "block" THEN "fail" ELSE out]
    BY <1>3 DEF Run
  <2> DEFINE s == IF out = "exception" /\ main.mode = "block" THEN "fail" ELSE out
             o == [Obj(f) EXCEPT !.out = s]
  <2>3. s \in Outs
    BY <2>1 DEF Objects, Outs
  <2>4. o \in Objects
    BY <2>1, <2>3 DEF Objects
  <2>5. objs' = [objs EXCEPT ![cur[f]] = o]
    BY <2>2 DEF Obj
  <2>6. "check" \in Pcs /\ todo' \in [Futures -> SUBSET Edges]
    BY <1>3 DEF Run, TypeInv, TypeOK, Pcs
  <2> QED
    BY <1>3, <2>4, <2>5, <2>6, TypeObject DEF Run
<1>4. CASE Check(f)
  <2>1. Obj(f) \in Objects
    BY <1>4, ObjType DEF Check
  <2> DEFINE s == IF Obj(f).out = "exception" THEN "fail" ELSE Obj(f).out
             o == [Obj(f) EXCEPT !.out = s]
  <2>2. o \in Objects
    BY <2>1 DEF Objects, Outs
  <2>3. "stop" \in Pcs /\ "end" \in Pcs /\ todo' \in [Futures -> SUBSET Edges]
    BY <1>4 DEF Check, TypeInv, TypeOK, Pcs
  <2>4. [objs EXCEPT ![cur[f]].out = IF @ = "exception" THEN "fail" ELSE @]
            = [objs EXCEPT ![cur[f]] = o]
    BY DEF Obj
  <2>5. objs = [objs EXCEPT ![cur[f]] = Obj(f)]
    BY <1>4, ObjType DEF Obj, TypeInv, TypeOK, Check
  <2>6. CASE objs' = [objs EXCEPT ![cur[f]].out = IF @ = "exception" THEN "fail" ELSE @]
                /\ Goto(f, "stop")
    BY <1>4, <2>2, <2>3, <2>4, <2>6, TypeObject DEF Check
  <2>7. CASE Goto(f, "end") /\ UNCHANGED objs
    <3>1. objs' = [objs EXCEPT ![cur[f]] = Obj(f)]
      BY <2>5, <2>7
    <3> QED
      BY <1>4, <2>1, <2>3, <2>7, <3>1, TypeObject DEF Check
  <2> QED
    BY <1>4, <2>6, <2>7 DEF Check
<1>5. CASE End(f)
  <2>1. Obj(f) \in Objects
    BY <1>5, ObjType DEF End
  <2> DEFINE o == [Obj(f) EXCEPT !.ended = TRUE]
  <2>2. o \in Objects /\ objs' = [objs EXCEPT ![cur[f]] = o]
    BY <1>5, <2>1 DEF End, Objects, Obj
  <2>3. todo' \in [Futures -> SUBSET Edges]
    BY <1>5 DEF End, TypeInv, TypeOK, Taken
  <2>4. PICK l \in {"done", "next"} : Goto(f, l)
    BY <1>5 DEF End
  <2>5. l \in Pcs
    BY DEF Pcs
  <2> QED
    BY <1>5, <2>2, <2>3, <2>4, <2>5, TypeObject DEF End
<1>6. CASE NextEdge(f)
  <2>1. PICK e \in todo[f] :
            /\ todo' = [todo EXCEPT ![f] = @ \ {e}]
            /\ \/ /\ e.to \in Or \/ DependentNodeBeenExecuted(e.to)
                  /\ objs' = Append(objs, Object(e.to, UpNodes(f, e.to)))
                  /\ chosen' = [chosen EXCEPT ![f] = @ \cup {Len(objs) + 1}]
               \/ UNCHANGED <<objs, chosen>>
    BY <1>6 DEF NextEdge
  <2>2. e \in Edges /\ e.to \in Nodes /\ todo' \in [Futures -> SUBSET Edges]
    BY <2>1 DEF TypeInv, TypeOK
  <2>3. CASE UNCHANGED <<objs, chosen>>
    BY <1>6, <2>2, <2>3 DEF NextEdge, TypeInv, TypeOK
  <2>4. CASE /\ e.to \in Or \/ DependentNodeBeenExecuted(e.to)
             /\ objs' = Append(objs, Object(e.to, UpNodes(f, e.to)))
             /\ chosen' = [chosen EXCEPT ![f] = @ \cup {Len(objs) + 1}]
    <3>1. Object(e.to, UpNodes(f, e.to)) \in Objects
      BY <1>6, <2>2, <2>4, UpNodesType DEF NextEdge, Object, Objects, Outs
    <3>2. /\ objs' \in Seq(Objects) /\ objs' # <<>> /\ Len(objs') = Len(objs) + 1
          /\ node_context' \in Seq(1 .. Len(objs'))
      BY <1>6, <2>4, <3>1, NewObject DEF NextEdge
    <3>3. chosen' \in [Futures -> SUBSET (1 .. Len(objs'))]
      BY <1>0, <2>4, <3>2 DEF TypeInv, TypeOK
    <3>4. cur' \in [Futures -> 0 .. Len(objs')]
      BY <1>0, <1>6, <3>2 DEF NextEdge, TypeInv, TypeOK
    <3>5. \A g \in Futures : pc'[g] # "none" => cur'[g] \in DOMAIN objs'
      BY <1>0, <1>6, <3>2 DEF NextEdge, TypeInv, TypeOK
    <3> QED
      BY <1>6, <2>2, <3>2, <3>3, <3>4, <3>5 DEF NextEdge, TypeInv, TypeOK
  <2> QED
    BY <2>1, <2>3, <2>4
<1>7. CASE NextNode(f)
  <2>1. /\ cur' \in [Futures -> 0 .. Len(objs)]
        /\ chosen' \in [Futures -> SUBSET (1 .. Len(objs))]
        /\ pc' \in [Futures -> Pcs]
    <3>1. /\ cur \in [Futures -> 0 .. Len(objs)]
          /\ chosen \in [Futures -> SUBSET (1 .. Len(objs))]
          /\ {"done", "append", "submit"} \subseteq Pcs
      BY DEF TypeInv, TypeOK, Pcs
    <3>2. PICK l \in {"done", "append", "submit"} : Goto(f, l)
      BY <1>7 DEF NextNode
    <3>3. pc' \in [Futures -> Pcs]
      BY <1>0, <3>1, <3>2 DEF Goto
    <3>4. CASE UNCHANGED cur
      BY <1>7, <3>1, <3>3, <3>4 DEF NextNode
    <3>5. ASSUME NEW o \in chosen[f], cur' = [cur EXCEPT ![f] = o],
                 chosen' = [chosen EXCEPT ![f] = {}]
          PROVE  /\ cur' \in [Futures -> 0 .. Len(objs)]
                 /\ chosen' \in [Futures -> SUBSET (1 .. Len(objs))]
      <4>1. o \in 0 .. Len(objs)
        BY <3>1, <1>0
      <4> QED
        BY <3>1, <3>5, <4>1
    <3> QED
      BY <1>7, <3>1, <3>3, <3>4, <3>5 DEF NextNode
  <2>2. \A g \in Futures : pc'[g] # "none" => cur'[g] \in DOMAIN objs
    BY <1>0, <1>7 DEF NextNode, Goto, TypeInv, TypeOK
  <2> QED
    BY <1>7, <2>1, <2>2 DEF NextNode, TypeInv, TypeOK
<1>8. CASE SubmitNode(f)
  <2>1. PICK o \in chosen[f] :
            /\ Submit(o)
            /\ chosen' = [chosen EXCEPT ![f] = @ \ {o}]
            /\ pc' = [pc EXCEPT ![submitted + 1] = "queued",
                                ![f] = IF chosen[f] = {o} THEN "register" ELSE "submit"]
    BY <1>8 DEF SubmitNode
  <2>2. /\ submitted + 1 \in Futures /\ submitted' \in 0 .. MaxFutures
        /\ o \in 1 .. Len(objs)
    BY <2>1 DEF Submit, TypeInv, TypeOK, Futures
  <2>3. /\ cur' \in [Futures -> 0 .. Len(objs)]
        /\ pc' \in [Futures -> Pcs]
    <3>1. o \in 0 .. Len(objs) /\ cur \in [Futures -> 0 .. Len(objs)]
      BY <1>0, <2>2 DEF TypeInv, TypeOK
    <3>2. cur' \in [Futures -> 0 .. Len(objs)]
      BY <2>1, <3>1 DEF Submit
    <3>3. pc' \in [Futures -> Pcs]
      BY <1>0, <2>1 DEF Pcs
    <3> QED
      BY <3>2, <3>3
  <2>4. /\ chosen' \in [Futures -> SUBSET (1 .. Len(objs))]
        /\ kids' \in [Futures -> SUBSET Futures]
    BY <1>8, <2>1, <2>2 DEF SubmitNode, TypeInv, TypeOK
  <2>5. \A g \in Futures : pc'[g] # "none" => cur'[g] \in DOMAIN objs
    BY <1>0, <1>8, <2>1, <2>2 DEF SubmitNode, Submit, TypeInv, TypeOK
  <2> QED
    BY <1>8, <2>2, <2>3, <2>4, <2>5 DEF SubmitNode, TypeInv, TypeOK
<1>9. CASE Register(f)
  <2>1. PICK k \in kids[f] :
            /\ future_list' = Append(future_list, k)
            /\ kids' = [kids EXCEPT ![f] = @ \ {k}]
            /\ Goto(f, IF kids[f] = {k} THEN "done" ELSE "register")
    BY <1>9 DEF Register
  <2>2. future_list' \in Seq(Futures) /\ kids' \in [Futures -> SUBSET Futures]
    BY <2>1 DEF TypeInv, TypeOK
  <2>3. pc' \in [Futures -> Pcs] /\ \A g \in Futures : pc'[g] # "none" => pc[g] # "none"
    BY <1>0, <1>9, <2>1 DEF Register, Goto, Pcs
  <2> QED
    BY <1>9, <2>2, <2>3 DEF Register, TypeInv, TypeOK
<1> QED
  BY <1>1, <1>2, <1>3, <1>4, <1>5, <1>6, <1>7, <1>8, <1>9 DEF Thread

LEMMA TypeStep == TypeInv /\ [Next]_vars => TypeInv'
<1> SUFFICES ASSUME TypeInv, [Next]_vars PROVE TypeInv'
  OBVIOUS
<1>1. CASE UNCHANGED vars
  BY <1>1 DEF vars, TypeInv, TypeOK
<1>2. CASE \E f \in Futures : Thread(f)
  BY <1>2, TypeThread
<1>3. CASE Main \/ Disconnect \/ Cancel \/ Forget
  BY <1>3, TypeMain
<1> QED
  BY <1>1, <1>2, <1>3 DEF Next, Rest

\* Every behaviour keeps the types: the places in objs, the program points, the edges and
\* the futures of an execution are what the code takes them for, whatever the graph.
THEOREM TypeCorrect == Spec => []TypeOK
<1>1. TypeInv => TypeOK
  BY DEF TypeInv
<1> QED
  BY <1>1, TypeInit, TypeStep, PTL DEF Spec

-----------------------------------------------------------------------------
(* The end of an execution is found.                                       *)

Listed == {future_list[i] : i \in DOMAIN future_list}

\* Futures are numbered as they are submitted, and each one is in the list, is about to
\* be put there by the reader, or by a thread that submitted it and still runs.
Accounting ==
    /\ \A f \in Futures : pc[f] # "none" <=> f <= submitted
    /\ main.pc = "launch" => submitted = 0
    /\ \A p \in Futures : \A k \in kids[p] : p < k /\ pc[p] \in {"submit", "register"}
    /\ main.pc # "finished" => \A f \in 1 .. submitted :
        \/ f \in Listed
        \/ f = 1 /\ main.pc = "enlist"
        \/ \E p \in Futures : f \in kids[p]

\* What the reader knows: the futures it waited for are the first ones of the list, and
\* they stay done.
Waited ==
    /\ main.pc \in {"wait", "waiting", "compare"} => main.len <= Len(future_list)
    /\ main.pc \in {"waiting", "compare"} =>
        \A i \in 1 .. main.len : future_list[i] \in main.snap
    /\ main.pc = "compare" => \A f \in main.snap : pc[f] = "done"

EndInv == TypeInv /\ Accounting /\ Waited /\ NothingRunsAfterTheEnd

LEMMA EndInit == Init => EndInv
<1> SUFFICES ASSUME Init PROVE EndInv
  OBVIOUS
<1>1. TypeInv
  BY TypeInit
<1>2. main.pc = "launch" /\ submitted = 0
  BY DEF Init
<1>3. Accounting
  BY <1>2 DEF Init, Accounting, Futures
<1> QED
  BY <1>1, <1>2, <1>3 DEF EndInv, Waited, NothingRunsAfterTheEnd

\* The heart of the matter.  If not all futures are done when the whole list is, take the
\* first one that is not: nobody who submitted it can still have to list it.
LEMMA AllDone ==
    ASSUME TypeInv, Accounting, Waited, main.pc = "compare", main.len = Len(future_list)
    PROVE  \A f \in Futures : pc[f] \in {"none", "done"}
<1> DEFINE left == {f \in Futures : pc[f] \notin {"none", "done"}}
<1>1. \A f \in Listed : pc[f] = "done"
  BY DEF Listed, Waited, TypeInv, TypeOK
<1>2. SUFFICES ASSUME left # {} PROVE FALSE
  OBVIOUS
<1>3. left \subseteq Nat
  BY DEF Futures
<1>4. PICK f \in left : \A g \in left : <<g, f>> \notin OpToRel(<, Nat)
  BY <1>2, <1>3, NatLessThanWellFounded, WFMin
<1>5. f \in 1 .. submitted
  BY DEF Accounting, Futures, TypeInv, TypeOK
<1>6. PICK p \in Futures : f \in kids[p]
  BY <1>1, <1>4, <1>5 DEF Accounting
<1>7. p < f /\ p \in left /\ p \in Nat /\ f \in Nat
  BY <1>3, <1>6 DEF Accounting
<1> QED
  BY <1>4, <1>7 DEF OpToRel

\* A step of a thread that submits nothing and lists nothing.
LEMMA EndQuietThread ==
    ASSUME EndInv, NEW f \in Futures, NEW l \in Pcs \ {"none"},
           pc[f] \notin {"none", "submit", "register", "done"}, Goto(f, l),
           UNCHANGED <<future_list, submitted, kids, main>>
    PROVE  Accounting' /\ Waited' /\ NothingRunsAfterTheEnd'
<1> USE DEF EndInv
<1>1. pc \in [Futures -> Pcs] /\ \A g \in Futures : g # f => pc'[g] = pc[g]
  BY DEF Goto, TypeInv, TypeOK
<1>2. pc'[f] = l
  BY <1>1 DEF Goto
<1>3. Accounting'
  <2>1. \A g \in Futures : pc'[g] # "none" <=> g <= submitted
    BY <1>1, <1>2 DEF Accounting
  <2>2. \A p \in Futures : \A k \in kids[p] : p < k /\ pc'[p] \in {"submit", "register"}
    BY <1>1 DEF Accounting
  <2> QED
    BY <2>1, <2>2 DEF Accounting, Listed
<1>4. Waited'
  BY <1>1 DEF Waited, TypeInv, TypeOK
<1>5. NothingRunsAfterTheEnd'
  BY <1>1 DEF NothingRunsAfterTheEnd
<1> QED
  BY <1>3, <1>4, <1>5

LEMMA EndThread ==
    ASSUME EndInv, NEW f \in Futures, Thread(f)
    PROVE  Accounting' /\ Waited' /\ NothingRunsAfterTheEnd'
<1> USE DEF EndInv
<1>0. /\ pc \in [Futures -> Pcs] /\ submitted \in 0 .. MaxFutures
      /\ kids \in [Futures -> SUBSET Futures]
  BY DEF TypeInv, TypeOK
<1>1. CASE Begin(f)
  BY <1>1, EndQuietThread DEF Begin, Pcs
<1>2. CASE AppendNode(f)
  BY <1>2, EndQuietThread DEF AppendNode, Pcs
<1>3. CASE Run(f)
  BY <1>3, EndQuietThread DEF Run, Pcs
<1>4. CASE Check(f)
  BY <1>4, EndQuietThread DEF Check, Pcs
<1>5. CASE End(f)
  BY <1>5, EndQuietThread DEF End, Pcs
<1>6. CASE NextEdge(f)
  <2>1. Goto(f, "next")
    BY <1>0, <1>6 DEF NextEdge, Goto
  <2> QED
    BY <1>6, <2>1, EndQuietThread DEF NextEdge, Pcs
<1>7. CASE NextNode(f)
  <2>1. PICK l \in {"done", "append", "submit"} : Goto(f, l)
    BY <1>7 DEF NextNode
  <2> QED
    BY <1>7, <2>1, EndQuietThread DEF NextNode, Pcs
<1>8. CASE SubmitNode(f)
  <2> DEFINE new == submitted + 1
  <2>1. /\ pc[f] = "submit" /\ submitted < MaxFutures /\ submitted' = new
        /\ kids' = [kids EXCEPT ![f] = @ \cup {new}]
        /\ UNCHANGED <<future_list, main>>
    BY <1>8 DEF SubmitNode, Submit
  <2>2. PICK l \in {"submit", "register"} :
            pc' = [pc EXCEPT ![new] = "queued", ![f] = l]
    BY <1>8 DEF SubmitNode
  <2>3. new \in Futures /\ f \in Nat /\ f <= submitted /\ f < new /\ pc[new] = "none"
    BY <1>0, <2>1 DEF Futures, Accounting
  <2>4. /\ pc'[new] = "queued" /\ pc'[f] = l
        /\ \A g \in Futures \ {f, new} : pc'[g] = pc[g]
    BY <1>0, <2>2, <2>3
  <2>5. main.pc # "launch" /\ main.pc \notin {"handle", "clean", "finished"}
    BY <2>1, <2>3 DEF Accounting, NothingRunsAfterTheEnd, Futures
  <2>6. \A g \in Futures : pc'[g] # "none" <=> g <= new
    BY <1>0, <2>3, <2>4 DEF Accounting, Futures
  <2>7. \A p \in Futures : \A k \in kids'[p] : p < k /\ pc'[p] \in {"submit", "register"}
    <3> SUFFICES ASSUME NEW p \in Futures, NEW k \in kids'[p]
                 PROVE  p < k /\ pc'[p] \in {"submit", "register"}
      OBVIOUS
    <3>1. CASE p = f
      BY <1>0, <2>1, <2>3, <2>4, <3>1 DEF Accounting
    <3>2. CASE p # f
      <4>1. k \in kids[p]
        BY <1>0, <2>1, <3>2
      <4>2. p < k /\ pc[p] \in {"submit", "register"}
        BY <4>1 DEF Accounting
      <4> QED
        BY <2>3, <2>4, <3>2, <4>2
    <3> QED
      BY <3>1, <3>2
  <2>8. \A g \in 1 .. new :
            \/ g \in Listed
            \/ g = 1 /\ main.pc = "enlist"
            \/ \E p \in Futures : g \in kids'[p]
    <3> SUFFICES ASSUME NEW g \in 1 .. new, g \notin Listed, ~ (g = 1 /\ main.pc = "enlist")
                 PROVE  \E p \in Futures : g \in kids'[p]
      OBVIOUS
    <3>1. CASE g = new
      BY <1>0, <2>1, <3>1
    <3>2. CASE g # new
      <4>1. g \in 1 .. submitted
        BY <1>0, <3>2
      <4>2. PICK p \in Futures : g \in kids[p]
        BY <2>5, <4>1 DEF Accounting
      <4> QED
        BY <1>0, <2>1, <4>2
    <3> QED
      BY <3>1, <3>2
  <2>9. Accounting'
    BY <2>1, <2>5, <2>6, <2>7, <2>8 DEF Accounting, Listed
  <2>10. Waited'
    <3>1. \A g \in Futures : pc[g] = "done" => pc'[g] = "done"
      BY <2>1, <2>3, <2>4
    <3>2. main.snap \subseteq Futures
      BY DEF TypeInv, TypeOK
    <3> QED
      BY <2>1, <3>1, <3>2 DEF Waited
  <2> QED
    BY <2>1, <2>5, <2>9, <2>10 DEF NothingRunsAfterTheEnd
<1>9. CASE Register(f)
  <2>1. PICK k \in kids[f] :
            /\ future_list' = Append(future_list, k)
            /\ kids' = [kids EXCEPT ![f] = @ \ {k}]
            /\ pc' = [pc EXCEPT ![f] = IF kids[f] = {k} THEN "done" ELSE "register"]
    BY <1>9 DEF Register, Goto
  <2>2. /\ pc[f] = "register"
        /\ UNCHANGED <<submitted, main>>
    BY <1>9 DEF Register
  <2>3. future_list \in Seq(Futures) /\ Len(future_list) \in Nat /\ k \in Futures
    BY <1>0, <2>1 DEF TypeInv, TypeOK
  <2>4. main.pc \notin {"handle", "clean", "finished"}
    BY <2>2 DEF NothingRunsAfterTheEnd
  <2>5. Listed' = Listed \cup {k} /\ Len(future_list') = Len(future_list) + 1
    <3>1. /\ Len(future_list') = Len(future_list) + 1
          /\ future_list'[Len(future_list) + 1] = k
          /\ \A i \in 1 .. Len(future_list) : future_list'[i] = future_list[i]
      BY <2>1, <2>3
    <3>2. /\ DOMAIN future_list = 1 .. Len(future_list)
          /\ DOMAIN future_list' = 1 .. Len(future_list) + 1
      BY <2>1, <2>3
    <3>3. Listed' \subseteq Listed \cup {k}
      BY <2>3, <3>1, <3>2 DEF Listed
    <3>4. Listed \cup {k} \subseteq Listed'
      BY <2>3, <3>1, <3>2 DEF Listed
    <3> QED
      BY <3>1, <3>3, <3>4
  <2>6. \A g \in Futures : pc'[g] # "none" <=> pc[g] # "none"
    BY <1>0, <2>1, <2>2
  <2>7. \A p \in Futures : \A x \in kids'[p] : p < x /\ pc'[p] \in {"submit", "register"}
    <3> SUFFICES ASSUME NEW p \in Futures, NEW x \in kids'[p]
                 PROVE  p < x /\ pc'[p] \in {"submit", "register"}
      OBVIOUS
    <3>1. x \in kids[p]
      BY <1>0, <2>1
    <3>2. CASE p = f
      <4>1. x # k
        BY <1>0, <2>1, <3>2
      <4>2. kids[f] # {k}
        BY <3>1, <3>2, <4>1
      <4> QED
        BY <1>0, <2>1, <3>1, <3>2, <4>2 DEF Accounting
    <3>3. CASE p # f
      BY <1>0, <2>1, <3>1, <3>3 DEF Accounting
    <3> QED
      BY <3>2, <3>3
  <2>8. \A g \in 1 .. submitted :
            \/ g \in Listed'
            \/ g = 1 /\ main.pc = "enlist"
            \/ \E p \in Futures : g \in kids'[p]
    <3> SUFFICES ASSUME NEW g \in 1 .. submitted, g \notin Listed',
                        ~ (g = 1 /\ main.pc = "enlist")
                 PROVE  \E p \in Futures : g \in kids'[p]
      OBVIOUS
    <3>1. g # k /\ g \notin Listed
      BY <2>5
    <3>2. PICK p \in Futures : g \in kids[p]
      BY <2>4, <3>1 DEF Accounting
    <3>3. g \in kids'[p]
      BY <1>0, <2>1, <3>1, <3>2
    <3> QED
      BY <3>3
  <2>9. Accounting'
    BY <2>2, <2>6, <2>7, <2>8 DEF Accounting
  <2>10. Waited'
    <3>1. \A g \in Futures : pc[g] = "done" => pc'[g] = "done"
      BY <1>0, <2>1, <2>2
    <3>2. main.snap \subseteq Futures /\ main.len \in Nat
      BY DEF TypeInv, TypeOK
    <3>3. \A i \in 1 .. Len(future_list) : future_list'[i] = future_list[i]
      BY <2>1, <2>3
    <3> QED
      BY <2>2, <2>3, <2>5, <3>1, <3>2, <3>3 DEF Waited
  <2> QED
    BY <2>2, <2>4, <2>9, <2>10 DEF NothingRunsAfterTheEnd
<1> QED
  BY <1>1, <1>2, <1>3, <1>4, <1>5, <1>6, <1>7, <1>8, <1>9 DEF Thread

\* A step of the reader, or a cancel.
LEMMA EndMain ==
    ASSUME EndInv, Main \/ Disconnect \/ Cancel \/ Forget
    PROVE  Accounting' /\ Waited' /\ NothingRunsAfterTheEnd'
<1> USE DEF EndInv
<1>0. /\ pc \in [Futures -> Pcs] /\ submitted \in 0 .. MaxFutures
      /\ future_list \in Seq(Futures) /\ Len(future_list) \in Nat
      /\ main.len \in Nat /\ main.snap \subseteq Futures
      /\ main \in [pc : MainPcs, mode : AllModes, loop : {"stream", "last", "closed"},
                   len : Nat, snap : SUBSET Futures]
  BY DEF TypeInv, TypeOK
<1>1. CASE Launch
  <2>1. /\ main.pc = "launch" /\ submitted = 0 /\ main'.pc = "enlist"
        /\ submitted' = 1 /\ pc' = [pc EXCEPT ![1] = "queued"] /\ 1 \in Futures
        /\ UNCHANGED <<future_list, kids>>
    BY <1>0, <1>1 DEF Launch, Submit, MainGoto, Accounting, Futures
  <2>2. \A g \in Futures : pc'[g] # "none" <=> g <= 1
    BY <1>0, <2>1 DEF Accounting, Futures
  <2>3. \A p \in Futures : kids[p] = {}
    <3>1. \A p \in Futures : pc[p] = "none"
      BY <2>1 DEF Accounting, Futures
    <3> QED
      BY <3>1 DEF Accounting, TypeInv, TypeOK
  <2>4. Accounting'
    BY <2>1, <2>2, <2>3 DEF Accounting
  <2> QED
    BY <2>1, <2>4 DEF Waited, NothingRunsAfterTheEnd
<1>2. CASE Enlist
  <2>1. /\ main.pc = "enlist" /\ main'.pc = "len"
        /\ future_list' = Append(future_list, 1) /\ 1 \in Futures
        /\ UNCHANGED <<submitted, pc, kids>>
    BY <1>0, <1>2 DEF Enlist, MainGoto, threads, Futures
  <2>2. Listed' = Listed \cup {1}
    BY <1>0, <2>1 DEF Listed
  <2>3. Accounting'
    BY <2>1, <2>2 DEF Accounting
  <2> QED
    BY <2>1, <2>3 DEF Waited, NothingRunsAfterTheEnd
<1>3. CASE IsRunLen
  <2>1. /\ main.pc = "len" /\ main'.pc = "wait" /\ main'.len = Len(future_list)
        /\ UNCHANGED <<future_list, submitted, pc, kids>>
    BY <1>0, <1>3 DEF IsRunLen, threads
  <2> QED
    BY <1>0, <2>1 DEF Accounting, Listed, Waited, NothingRunsAfterTheEnd
<1>4. CASE IsRunWait
  <2>1. /\ main.pc = "wait" /\ main'.pc = "waiting" /\ main'.len = main.len
        /\ main'.snap = Listed
        /\ UNCHANGED <<future_list, submitted, pc, kids>>
    BY <1>0, <1>4 DEF IsRunWait, threads, Listed
  <2>2. \A i \in 1 .. main.len : future_list[i] \in Listed
    BY <1>0, <2>1 DEF Waited, Listed
  <2>3. Accounting'
    BY <2>1 DEF Accounting, Listed
  <2> QED
    BY <1>0, <2>1, <2>2, <2>3 DEF Waited, NothingRunsAfterTheEnd
<1>5. CASE IsRunWaited
  <2>1. /\ main.pc = "waiting" /\ main'.pc \in {"compare", "len"}
        /\ main'.pc = "compare" => \A f \in main.snap : pc[f] = "done"
        /\ main'.len = main.len /\ main'.snap = main.snap
        /\ UNCHANGED <<future_list, submitted, pc, kids>>
    BY <1>0, <1>5 DEF IsRunWaited, MainGoto, threads
  <2>2. Accounting'
    BY <2>1 DEF Accounting, Listed
  <2> QED
    BY <1>0, <2>1, <2>2 DEF Waited, NothingRunsAfterTheEnd
<1>6. CASE IsRunCompare
  <2>1. /\ main.pc = "compare" /\ main'.pc \in {"handle", "len"}
        /\ main'.pc = "handle" => main.len = Len(future_list)
        /\ UNCHANGED <<future_list, submitted, pc, kids>>
    BY <1>0, <1>6 DEF IsRunCompare, threads
  <2>2. Accounting'
    BY <2>1 DEF Accounting, Listed
  <2>3. NothingRunsAfterTheEnd'
    BY <2>1, AllDone DEF NothingRunsAfterTheEnd
  <2> QED
    BY <2>1, <2>2, <2>3 DEF Waited
<1>7. CASE Handle \/ Cleanup
  <2>1. /\ main.pc \in {"handle", "clean"} /\ main'.pc \in {"clean", "finished"}
        /\ main'.pc = "clean" => UNCHANGED future_list
        /\ UNCHANGED <<submitted, pc, kids>>
    BY <1>0, <1>7 DEF Handle, Cleanup, MainGoto, threads
  <2>2. Accounting'
    BY <2>1 DEF Accounting, Listed
  <2> QED
    BY <2>1, <2>2 DEF Waited, NothingRunsAfterTheEnd
<1>8. CASE Disconnect
  <2>1. /\ main.pc = "len" /\ main'.pc = "len"
        /\ UNCHANGED <<future_list, submitted, pc, kids>>
    BY <1>0, <1>8 DEF Disconnect, threads
  <2> QED
    BY <2>1 DEF Accounting, Listed, Waited, NothingRunsAfterTheEnd
<1>9. CASE Cancel \/ Forget
  BY <1>9 DEF Cancel, Forget, threads, Accounting, Listed, Waited, NothingRunsAfterTheEnd
<1> QED
  BY <1>1, <1>2, <1>3, <1>4, <1>5, <1>6, <1>7, <1>8, <1>9 DEF Main

LEMMA EndStep == EndInv /\ [Next]_vars => EndInv'
<1> SUFFICES ASSUME EndInv, [Next]_vars PROVE EndInv'
  OBVIOUS
<1>1. TypeInv'
  BY TypeStep DEF EndInv
<1>2. CASE UNCHANGED vars
  BY <1>1, <1>2 DEF vars, EndInv, Accounting, Listed, Waited, NothingRunsAfterTheEnd
<1>3. CASE \E f \in Futures : Thread(f)
  BY <1>1, <1>3, EndThread DEF EndInv
<1>4. CASE Main \/ Disconnect \/ Cancel \/ Forget
  BY <1>1, <1>4, EndMain DEF EndInv
<1> QED
  BY <1>2, <1>3, <1>4 DEF Next, Rest

\* The reader stores the record and takes the workflow apart only when no thread of the
\* execution runs or waits to run, for every graph: counting the list, waiting for it and
\* counting it again finds the end although threads list their futures late.
THEOREM EndFound == Spec => []NothingRunsAfterTheEnd
<1>1. EndInv => NothingRunsAfterTheEnd
  BY DEF EndInv
<1> QED
  BY <1>1, EndInit, EndStep, PTL DEF Spec

-----------------------------------------------------------------------------
(* A join waits for all of its predecessors.                               *)

\* A thread of the executor has an object to run, or is running one.
Running(f) == pc[f] \in {"queued", "append", "run", "check", "end", "stop"}

\* An object is run by one thread, and it is chosen by one thread before it is run: it is
\* not touched any more once it has ended.
Owned ==
    /\ \A f \in Futures : Running(f) => ~ objs[cur[f]].ended
    /\ \A f, g \in Futures : Running(f) /\ Running(g) /\ f # g => cur[f] # cur[g]
    /\ \A f \in Futures : \A o \in chosen[f] :
        /\ ~ objs[o].ended
        /\ \A g \in Futures : Running(g) => cur[g] # o
        /\ \A g \in Futures : o \in chosen[g] => f = g

NotLaunched ==
    main.pc = "launch" =>
        /\ submitted = 0
        /\ ~ objs[1].ended
        /\ \A f \in Futures : pc[f] = "none" /\ chosen[f] = {}

JoinInv == TypeInv /\ Owned /\ NotLaunched /\ JoinAfterAll

\* An object that has ended keeps its outcome, so that a join stays justified.
EndedStays ==
    /\ Len(objs') >= Len(objs)
    /\ \A i \in 1 .. Len(objs) : objs'[i].node = objs[i].node
    /\ \A i \in 1 .. Len(objs) : objs[i].ended => objs'[i] = objs[i]

Justified(i) ==
    i > 1 /\ objs[i].node \notin Or =>
        \A e \in In(objs[i].node) : \E j \in DOMAIN objs :
            /\ objs[j].node = e.from
            /\ objs[j].ended
            /\ objs[j].out \in {e.anchor, "right", "pause", "fail"}

LEMMA JustifiedStays ==
    ASSUME TypeInv, TypeInv', EndedStays, NEW i \in 1 .. Len(objs), Justified(i)
    PROVE  Justified(i)'
<1>1. /\ DOMAIN objs = 1 .. Len(objs) /\ DOMAIN objs' = 1 .. Len(objs')
      /\ Len(objs) \in Nat /\ Len(objs') \in Nat
  BY DEF TypeInv, TypeOK
<1>2. SUFFICES ASSUME i > 1, objs'[i].node \notin Or, NEW e \in In(objs'[i].node)
               PROVE  \E j \in DOMAIN objs' :
                        /\ objs'[j].node = e.from
                        /\ objs'[j].ended
                        /\ objs'[j].out \in {e.anchor, "right", "pause", "fail"}
  BY DEF Justified, In
<1>3. objs'[i].node = objs[i].node
  BY DEF EndedStays
<1>4. PICK j \in DOMAIN objs :
        /\ objs[j].node = e.from
        /\ objs[j].ended
        /\ objs[j].out \in {e.anchor, "right", "pause", "fail"}
  BY <1>2, <1>3 DEF Justified
<1>5. j \in DOMAIN objs' /\ objs'[j] = objs[j]
  BY <1>1, <1>4 DEF EndedStays
<1> QED
  BY <1>4, <1>5

\* Without a new object.
LEMMA JoinStays ==
    ASSUME JoinInv, TypeInv', EndedStays, Len(objs') = Len(objs)
    PROVE  JoinAfterAll'
<1>1. DOMAIN objs = 1 .. Len(objs) /\ DOMAIN objs' = 1 .. Len(objs)
  BY DEF JoinInv, TypeInv, TypeOK
<1>2. \A i \in 1 .. Len(objs) : Justified(i)
  BY <1>1 DEF JoinInv, JoinAfterAll, Justified
<1>3. \A i \in 1 .. Len(objs) : Justified(i)'
  BY <1>2, JustifiedStays DEF JoinInv
<1> QED
  BY <1>1, <1>3 DEF JoinAfterAll, Justified

\* A thread changes the object it runs.
LEMMA JoinObject ==
    ASSUME JoinInv, TypeInv', NEW f \in Futures, Running(f), NEW o \in Objects,
           o.node = Obj(f).node, objs' = [objs EXCEPT ![cur[f]] = o]
    PROVE  JoinAfterAll'
<1>1. /\ objs \in Seq(Objects) /\ Len(objs) \in Nat /\ cur[f] \in 1 .. Len(objs)
      /\ ~ objs[cur[f]].ended
  BY ObjType DEF JoinInv, Owned, Running, TypeInv, TypeOK
<1>2. Len(objs') = Len(objs) /\ \A i \in 1 .. Len(objs) : i # cur[f] => objs'[i] = objs[i]
  BY <1>1
<1>3. objs'[cur[f]] = o
  BY <1>1
<1>4. EndedStays
  BY <1>1, <1>2, <1>3 DEF EndedStays, Obj
<1> QED
  BY <1>2, <1>4, JoinStays

\* The objects keep as they are.
LEMMA JoinUnchanged ==
    ASSUME JoinInv, TypeInv', UNCHANGED objs
    PROVE  JoinAfterAll'
<1>1. EndedStays /\ Len(objs') = Len(objs)
  BY DEF EndedStays, JoinInv, TypeInv, TypeOK
<1> QED
  BY <1>1, JoinStays

LEMMA JoinThread ==
    ASSUME JoinInv, TypeInv', NEW f \in Futures, Thread(f)
    PROVE  JoinAfterAll'
<1>1. CASE Begin(f) \/ AppendNode(f) \/ NextNode(f) \/ SubmitNode(f) \/ Register(f)
  BY <1>1, JoinUnchanged DEF Begin, AppendNode, NextNode, SubmitNode, Register
<1>2. CASE Run(f)
  <2>1. Obj(f) \in Objects /\ Running(f)
    BY <1>2, ObjType DEF Run, Running, JoinInv
  <2>2. PICK out \in Outcomes[Obj(f).node] :
            objs' = [objs EXCEPT ![cur[f]].out =
                        IF out = "exception" /\ main.mode = "block" THEN "fail" ELSE out]
    BY <1>2 DEF Run
  <2> DEFINE s == IF out = "exception" /\ main.mode = "block" THEN "fail" ELSE out
             o == [Obj(f) EXCEPT !.out = s]
  <2>3. s \in Outs
    BY <2>1 DEF Objects, Outs
  <2>4. o \in Objects /\ o.node = Obj(f).node
    BY <2>1, <2>3 DEF Objects
  <2>5. objs' = [objs EXCEPT ![cur[f]] = o]
    BY <2>2 DEF Obj
  <2> QED
    BY <2>1, <2>4, <2>5, JoinObject
<1>3. CASE Check(f)
  <2>1. Obj(f) \in Objects /\ Running(f)
    BY <1>3, ObjType DEF Check, Running, JoinInv
  <2> DEFINE s == IF Obj(f).out = "exception" THEN "fail" ELSE Obj(f).out
             o == [Obj(f) EXCEPT !.out = s]
  <2>2. o \in Objects /\ o.node = Obj(f).node
    BY <2>1 DEF Objects, Outs
  <2>3. [objs EXCEPT ![cur[f]].out = IF @ = "exception" THEN "fail" ELSE @]
            = [objs EXCEPT ![cur[f]] = o]
    BY DEF Obj
  <2>4. CASE objs' = [objs EXCEPT ![cur[f]].out = IF @ = "exception" THEN "fail" ELSE @]
    BY <2>1, <2>2, <2>3, <2>4, JoinObject
  <2> QED
    BY <1>3, <2>4, JoinUnchanged DEF Check
<1>4. CASE End(f)
  <2>1. Obj(f) \in Objects /\ Running(f)
    BY <1>4, ObjType DEF End, Running, JoinInv
  <2> DEFINE o == [Obj(f) EXCEPT !.ended = TRUE]
  <2>2. o \in Objects /\ o.node = Obj(f).node /\ objs' = [objs EXCEPT ![cur[f]] = o]
    BY <1>4, <2>1 DEF End, Objects, Obj
  <2> QED
    BY <2>1, <2>2, JoinObject
<1>5. CASE NextEdge(f)
  <2>1. CASE UNCHANGED objs
    BY <2>1, JoinUnchanged
  <2>2. ASSUME NEW e \in todo[f], e.to \in Or \/ DependentNodeBeenExecuted(e.to),
               objs' = Append(objs, Object(e.to, UpNodes(f, e.to)))
        PROVE  JoinAfterAll'
    <3> DEFINE new == Len(objs) + 1
    <3>1. /\ objs \in Seq(Objects) /\ Len(objs) \in Nat /\ DOMAIN objs = 1 .. Len(objs)
          /\ node_context \in Seq(1 .. Len(objs))
      BY DEF JoinInv, TypeInv, TypeOK
    <3>2. /\ Len(objs') = new /\ DOMAIN objs' = 1 .. new
          /\ \A i \in 1 .. Len(objs) : objs'[i] = objs[i]
          /\ objs'[new].node = e.to
      BY <2>2, <3>1 DEF Object
    <3>3. EndedStays
      BY <3>1, <3>2 DEF EndedStays
    <3>4. \A i \in 1 .. Len(objs) : Justified(i)'
      BY <3>1, <3>3, JustifiedStays DEF JoinInv, JoinAfterAll, Justified
    <3>5. ASSUME NEW k, k = new PROVE Justified(k)'
      <4>1. SUFFICES ASSUME e.to \notin Or, NEW x \in In(e.to)
                     PROVE  \E j \in DOMAIN objs' :
                                /\ objs'[j].node = x.from
                                /\ objs'[j].ended
                                /\ objs'[j].out \in {x.anchor, "right", "pause", "fail"}
        BY <3>2, <3>5 DEF Justified, In
      <4>2. PICK i \in DOMAIN node_context : Dependent(x, objs[node_context[i]])
        BY <2>2, <4>1 DEF DependentNodeBeenExecuted
      <4>3. node_context[i] \in 1 .. Len(objs)
        BY <3>1
      <4>4. node_context[i] \in DOMAIN objs' /\ objs'[node_context[i]] = objs[node_context[i]]
        BY <3>1, <3>2, <4>3
      <4>5. LET o == objs[node_context[i]]
            IN  o.node = x.from /\ o.ended /\ o.out \in {x.anchor, "right", "pause", "fail"}
        BY <4>2 DEF Dependent
      <4> QED
        BY <4>4, <4>5
    <3>6. \A i \in DOMAIN objs' : Justified(i)'
      BY <3>1, <3>2, <3>4, <3>5
    <3> QED
      BY <3>6 DEF JoinAfterAll, Justified
  <2> QED
    BY <1>5, <2>1, <2>2 DEF NextEdge
<1> QED
  BY <1>1, <1>2, <1>3, <1>4, <1>5 DEF Thread

\* A step after which the same objects, still not ended, are run or chosen by no other
\* thread than before.
LEMMA OwnedLess ==
    ASSUME TypeInv, Owned, TypeInv',
           \A g \in Futures : Running(g)' => Running(g) /\ cur'[g] = cur[g],
           \A g \in Futures : chosen'[g] \subseteq chosen[g],
           \A i \in 1 .. Len(objs) : objs'[i].ended = objs[i].ended
    PROVE  Owned'
<1>1. \A g \in Futures : Running(g) => cur[g] \in 1 .. Len(objs)
  BY ObjType DEF Running
<1>2. \A g \in Futures : chosen[g] \subseteq 1 .. Len(objs)
  BY DEF TypeInv, TypeOK
<1>3. \A g \in Futures : Running(g)' => ~ objs'[cur'[g]].ended
  BY <1>1 DEF Owned
<1>4. \A g, h \in Futures : Running(g)' /\ Running(h)' /\ g # h => cur'[g] # cur'[h]
  BY DEF Owned
<1>5. ASSUME NEW g \in Futures, NEW o \in chosen'[g]
      PROVE  /\ ~ objs'[o].ended
             /\ \A h \in Futures : Running(h)' => cur'[h] # o
             /\ \A h \in Futures : o \in chosen'[h] => g = h
  BY <1>2 DEF Owned
<1> QED
  BY <1>3, <1>4, <1>5 DEF Owned

LEMMA OwnedThread ==
    ASSUME JoinInv, TypeInv', NEW f \in Futures, Thread(f)
    PROVE  Owned'
<1> USE DEF JoinInv
<1>0. /\ pc \in [Futures -> Pcs] /\ cur \in [Futures -> 0 .. Len(objs)]
      /\ chosen \in [Futures -> SUBSET (1 .. Len(objs))]
      /\ objs \in Seq(Objects) /\ Len(objs) \in Nat /\ submitted \in 0 .. MaxFutures
  BY DEF TypeInv, TypeOK
<1>1. CASE Begin(f) \/ AppendNode(f) \/ Register(f)
  <2>1. \A g \in Futures : Running(g)' => Running(g)
    BY <1>0, <1>1 DEF Begin, AppendNode, Register, Goto, Running
  <2> QED
    BY <1>0, <1>1, <2>1, OwnedLess DEF Begin, AppendNode, Register
<1>2. CASE Run(f) \/ Check(f)
  <2>1. \A g \in Futures : Running(g)' => Running(g)
    BY <1>0, <1>2 DEF Run, Check, Goto, Running
  <2>2. \A i \in 1 .. Len(objs) : objs'[i].ended = objs[i].ended
    <3>1. ASSUME NEW o, objs' = [objs EXCEPT ![cur[f]].out = o]
          PROVE  \A i \in 1 .. Len(objs) : objs'[i].ended = objs[i].ended
      BY <1>0, <3>1 DEF Objects
    <3> QED
      BY <1>2, <3>1 DEF Run, Check
  <2> QED
    BY <1>0, <1>2, <2>1, <2>2, OwnedLess DEF Run, Check
<1>3. CASE End(f)
  <2>1. /\ Running(f) /\ ~ Running(f)' /\ cur' = cur /\ chosen' = chosen
        /\ objs' = [objs EXCEPT ![cur[f]].ended = TRUE]
        /\ \A g \in Futures : g # f => pc'[g] = pc[g]
    BY <1>0, <1>3 DEF End, Goto, Running
  <2>2. \A i \in 1 .. Len(objs) : i # cur[f] => objs'[i] = objs[i]
    BY <1>0, <2>1
  <2>3. \A g \in Futures : Running(g) => cur[g] \in 1 .. Len(objs)
    BY ObjType DEF Running
  <2>4. \A g \in Futures : Running(g)' => Running(g) /\ cur[g] # cur[f]
    BY <2>1 DEF Running, Owned
  <2>5. \A g \in Futures : \A o \in chosen[g] : o # cur[f] /\ o \in 1 .. Len(objs)
    BY <1>0, <2>1 DEF Owned
  <2>6. \A g \in Futures : Running(g)' => ~ objs'[cur'[g]].ended
    BY <2>1, <2>2, <2>3, <2>4 DEF Owned
  <2>7. ASSUME NEW g \in Futures, NEW o \in chosen'[g]
        PROVE  /\ ~ objs'[o].ended
               /\ \A h \in Futures : Running(h)' => cur'[h] # o
               /\ \A h \in Futures : o \in chosen'[h] => g = h
    BY <2>1, <2>2, <2>4, <2>5 DEF Owned
  <2> QED
    BY <2>1, <2>4, <2>6, <2>7 DEF Owned
<1>4. CASE NextEdge(f)
  <2>1. \A g \in Futures : (Running(g)' <=> Running(g)) /\ cur'[g] = cur[g]
    BY <1>4 DEF NextEdge, Running
  <2>2. CASE UNCHANGED <<objs, chosen>>
    BY <2>1, <2>2, OwnedLess
  <2>3. ASSUME NEW e, objs' = Append(objs, Object(e, UpNodes(f, e))),
               chosen' = [chosen EXCEPT ![f] = @ \cup {Len(objs) + 1}]
        PROVE  Owned'
    <3> DEFINE new == Len(objs) + 1
    <3>1. /\ \A i \in 1 .. Len(objs) : objs'[i] = objs[i]
          /\ ~ objs'[new].ended
      BY <1>0, <2>3 DEF Object
    <3>2. /\ \A g \in Futures : Running(g) => cur[g] \in 1 .. Len(objs) /\ cur[g] # new
          /\ \A g \in Futures : \A o \in chosen[g] : o \in 1 .. Len(objs) /\ o # new
      BY <1>0, ObjType DEF Running
    <3>3. \A g \in Futures : Running(g)' => ~ objs'[cur'[g]].ended
      BY <2>1, <3>1, <3>2 DEF Owned
    <3>4. \A g, h \in Futures : Running(g)' /\ Running(h)' /\ g # h => cur'[g] # cur'[h]
      BY <2>1 DEF Owned
    <3>5. ASSUME NEW g \in Futures, NEW o \in chosen'[g]
          PROVE  /\ ~ objs'[o].ended
                 /\ \A h \in Futures : Running(h)' => cur'[h] # o
                 /\ \A h \in Futures : o \in chosen'[h] => g = h
      <4>1. CASE o = new
        <5>1. \A h \in Futures : new \in chosen'[h] => h = f
          BY <1>0, <2>3, <3>2
        <5> QED
          BY <2>1, <3>1, <3>2, <4>1, <5>1
      <4>2. CASE o # new
        <5>1. \A h \in Futures : o \in chosen'[h] => o \in chosen[h]
          BY <1>0, <2>3, <4>2
        <5> QED
          BY <2>1, <3>1, <3>2, <5>1 DEF Owned
      <4> QED
        BY <4>1, <4>2
    <3> QED
      BY <3>3, <3>4, <3>5 DEF Owned
  <2> QED
    BY <1>4, <2>2, <2>3 DEF NextEdge
<1>5. CASE NextNode(f)
  <2>1. objs' = objs /\ pc[f] = "next" /\ ~ Running(f)
    BY <1>5 DEF NextNode, Running
  <2>2. ASSUME UNCHANGED <<cur, chosen>>, NEW l \in {"done", "submit"}, Goto(f, l)
        PROVE  Owned'
    <3>1. \A g \in Futures : Running(g)' => Running(g)
      BY <1>0, <2>2 DEF Goto, Running
    <3> QED
      BY <2>1, <2>2, <3>1, OwnedLess
  <2>3. ASSUME NEW o \in chosen[f], cur' = [cur EXCEPT ![f] = o],
               chosen' = [chosen EXCEPT ![f] = {}], Goto(f, "append")
        PROVE  Owned'
    <3>1. /\ \A g \in Futures \ {f} : (Running(g)' <=> Running(g)) /\ cur'[g] = cur[g]
          /\ cur'[f] = o
      BY <1>0, <2>3 DEF Goto, Running
    <3>2. \A g \in Futures : chosen'[g] \subseteq chosen[g] \ {o}
      BY <1>0, <2>3 DEF Owned
    <3>3. ~ objs[o].ended /\ \A g \in Futures : Running(g) => cur[g] # o
      BY <2>3 DEF Owned
    <3>4. \A g \in Futures : Running(g)' => ~ objs'[cur'[g]].ended
      BY <2>1, <3>1, <3>3 DEF Owned
    <3>5. \A g, h \in Futures : Running(g)' /\ Running(h)' /\ g # h => cur'[g] # cur'[h]
      BY <3>1, <3>3 DEF Owned
    <3>6. ASSUME NEW g \in Futures, NEW x \in chosen'[g]
          PROVE  /\ ~ objs'[x].ended
                 /\ \A h \in Futures : Running(h)' => cur'[h] # x
                 /\ \A h \in Futures : x \in chosen'[h] => g = h
      BY <2>1, <3>1, <3>2 DEF Owned
    <3> QED
      BY <3>4, <3>5, <3>6 DEF Owned
  <2> QED
    BY <1>5, <2>2, <2>3 DEF NextNode
<1>6. CASE SubmitNode(f)
  <2> DEFINE new == submitted + 1
  <2>1. PICK o \in chosen[f], l \in {"submit", "register"} :
            /\ cur' = [cur EXCEPT ![new] = o]
            /\ chosen' = [chosen EXCEPT ![f] = @ \ {o}]
            /\ pc' = [pc EXCEPT ![new] = "queued", ![f] = l]
    BY <1>6 DEF SubmitNode, Submit
  <2>2. objs' = objs /\ new \in Futures
    BY <1>0, <1>6 DEF SubmitNode, Submit, Futures
  <2>3. /\ \A g \in Futures \ {new} : (Running(g)' => Running(g)) /\ cur'[g] = cur[g]
        /\ cur'[new] = o
    BY <1>0, <2>1, <2>2 DEF Running
  <2>4. \A g \in Futures : chosen'[g] \subseteq chosen[g] \ {o}
    BY <1>0, <2>1 DEF Owned
  <2>5. ~ objs[o].ended /\ \A g \in Futures : Running(g) => cur[g] # o
    BY <2>1 DEF Owned
  <2>6. \A g \in Futures : Running(g)' => ~ objs'[cur'[g]].ended
    BY <2>2, <2>3, <2>5 DEF Owned
  <2>7. \A g, h \in Futures : Running(g)' /\ Running(h)' /\ g # h => cur'[g] # cur'[h]
    BY <2>3, <2>5 DEF Owned
  <2>8. ASSUME NEW g \in Futures, NEW x \in chosen'[g]
        PROVE  /\ ~ objs'[x].ended
               /\ \A h \in Futures : Running(h)' => cur'[h] # x
               /\ \A h \in Futures : x \in chosen'[h] => g = h
    BY <2>2, <2>3, <2>4 DEF Owned
  <2> QED
    BY <2>6, <2>7, <2>8 DEF Owned
<1> QED
  BY <1>1, <1>2, <1>3, <1>4, <1>5, <1>6 DEF Thread

LEMMA JoinMain ==
    ASSUME JoinInv, TypeInv', Main \/ Disconnect \/ Cancel \/ Forget
    PROVE  Owned' /\ NotLaunched' /\ JoinAfterAll'
<1> USE DEF JoinInv
<1>0. /\ pc \in [Futures -> Pcs] /\ cur \in [Futures -> 0 .. Len(objs)]
      /\ main \in [pc : MainPcs, mode : AllModes, loop : {"stream", "last", "closed"},
                   len : Nat, snap : SUBSET Futures]
  BY DEF TypeInv, TypeOK
<1>1. objs' = objs
  BY DEF Main, Launch, Enlist, IsRunLen, IsRunWait, IsRunWaited, IsRunCompare, Handle,
         Cleanup, Disconnect, Cancel, Forget
<1>2. JoinAfterAll'
  BY <1>1, JoinUnchanged
<1>3. CASE Launch
  <2>1. /\ main.pc = "launch" /\ main'.pc = "enlist" /\ submitted = 0 /\ 1 \in Futures
        /\ cur' = [cur EXCEPT ![1] = 1] /\ pc' = [pc EXCEPT ![1] = "queued"]
        /\ chosen' = chosen
    BY <1>0, <1>3 DEF Launch, Submit, MainGoto, NotLaunched, Futures
  <2>2. /\ ~ objs[1].ended
        /\ \A g \in Futures : pc[g] = "none" /\ chosen'[g] = {}
    BY <2>1 DEF NotLaunched
  <2>3. \A g \in Futures : Running(g)' => g = 1 /\ cur'[g] = 1
    BY <1>0, <2>1, <2>2 DEF Running
  <2>4. Owned'
    BY <1>1, <2>2, <2>3 DEF Owned
  <2> QED
    BY <1>2, <2>1, <2>4 DEF NotLaunched
<1>4. CASE ~ Launch
  <2>1. UNCHANGED <<pc, cur, chosen>> /\ (main'.pc = "launch" => UNCHANGED main)
        /\ UNCHANGED submitted
    BY <1>0, <1>4 DEF Main, Enlist, IsRunLen, IsRunWait, IsRunWaited, IsRunCompare, Handle,
         Cleanup, Disconnect, Cancel, Forget, MainGoto, threads
  <2>2. Owned'
    BY <1>1, <2>1, OwnedLess DEF Running
  <2> QED
    BY <1>1, <1>2, <2>1, <2>2 DEF NotLaunched
<1> QED
  BY <1>3, <1>4

LEMMA JoinInit == Init => JoinInv
<1> SUFFICES ASSUME Init PROVE JoinInv
  OBVIOUS
<1>1. Len(objs) = 1 /\ ~ objs[1].ended /\ DOMAIN objs = {1}
  BY DEF Init, Object
<1>2. Owned
  BY DEF Init, Owned, Running
<1>3. NotLaunched
  BY <1>1 DEF Init, NotLaunched
<1>4. JoinAfterAll
  BY <1>1 DEF JoinAfterAll
<1> QED
  BY <1>2, <1>3, <1>4, TypeInit DEF JoinInv

LEMMA JoinStep == JoinInv /\ [Next]_vars => JoinInv'
<1> SUFFICES ASSUME JoinInv, [Next]_vars PROVE JoinInv'
  OBVIOUS
<1>1. TypeInv'
  BY TypeStep DEF JoinInv
<1>2. CASE UNCHANGED vars
  <2>1. JoinAfterAll'
    BY <1>1, <1>2, JoinUnchanged DEF vars
  <2> QED
    BY <1>1, <1>2, <2>1 DEF vars, JoinInv, Owned, Running, NotLaunched
<1>3. ASSUME NEW f \in Futures, Thread(f) PROVE JoinInv'
  <2>1. main.pc # "launch"
    BY <1>3 DEF JoinInv, NotLaunched, Thread, Begin, AppendNode, Run, Check, End, NextEdge,
                NextNode, SubmitNode, Register
  <2>2. UNCHANGED main
    BY <1>3 DEF Thread, Begin, AppendNode, Run, Check, End, NextEdge, NextNode, SubmitNode,
                Register
  <2>3. NotLaunched'
    BY <2>1, <2>2 DEF NotLaunched
  <2> QED
    BY <1>1, <1>3, <2>3, OwnedThread, JoinThread DEF JoinInv
<1>4. CASE Main \/ Disconnect \/ Cancel \/ Forget
  BY <1>1, <1>4, JoinMain DEF JoinInv
<1> QED
  BY <1>2, <1>3, <1>4 DEF Next, Rest

\* However the threads interleave, a node with the condition AND is made only after an
\* instance of every predecessor has ended on the way to it: nobody takes back what
\* dependent_node_been_executed has seen, although it looks without a lock.
THEOREM JoinCorrect == Spec => []JoinAfterAll
<1>1. JoinInv => JoinAfterAll
  BY DEF JoinInv
<1> QED
  BY <1>1, JoinInit, JoinStep, PTL DEF Spec

-----------------------------------------------------------------------------
(* What the details show: of every node that has run an instance with the  *)
(* same runtime_node_id, and of what they show everything has run when no  *)
(* thread is left.                                                         *)

SameKey(i, j) == objs[i].node = objs[j].node /\ objs[i].up = objs[j].up

Covered(i) == \E j \in Shown : SameKey(i, j)

Working(i) == \E f \in Futures : pc[f] = "run" /\ cur[f] = i

DetailsShowAll ==
    /\ \A i \in 1 .. Len(objs) : HasRun(objs[i]) => Covered(i)
    /\ \A f \in Futures : pc[f] = "run" => Covered(cur[f])
    /\ \A i \in Shown : HasRun(objs[i]) \/ Working(i)

\* The instances keep their nodes, and what has run has run; a new one has not.
KeysStay ==
    /\ Len(objs') >= Len(objs)
    /\ \A i \in 1 .. Len(objs) :
        objs'[i].node = objs[i].node /\ objs'[i].up = objs[i].up

RunsStay ==
    /\ \A i \in 1 .. Len(objs) : HasRun(objs[i])' <=> HasRun(objs[i])
    /\ \A i \in 1 .. Len(objs') : i > Len(objs) => ~ HasRun(objs[i])'

LEMMA ShownPlaces ==
    ASSUME TypeInv
    PROVE  Shown \subseteq 1 .. Len(objs) /\ Len(objs) \in Nat /\ DOMAIN objs = 1 .. Len(objs)
BY DEF TypeInv, TypeOK, Shown

\* A step that leaves the details alone, and the threads that run a node.
LEMMA ShownQuiet ==
    ASSUME TypeInv, TypeInv', DetailsShowAll, KeysStay, RunsStay, UNCHANGED node_context,
           \A f \in Futures : pc'[f] = "run" <=> pc[f] = "run",
           \A f \in Futures : pc[f] = "run" => cur'[f] = cur[f]
    PROVE  DetailsShowAll'
<1>1. Shown' = Shown
  BY DEF Shown
<1>2. \A i \in 1 .. Len(objs) : Covered(i) => Covered(i)'
  BY <1>1, ShownPlaces DEF Covered, SameKey, KeysStay
<1>3. \A i \in 1 .. Len(objs') : HasRun(objs[i])' => i \in 1 .. Len(objs) /\ HasRun(objs[i])
  BY ShownPlaces DEF RunsStay, TypeInv, TypeOK
<1>4. \A i \in 1 .. Len(objs') : HasRun(objs[i])' => Covered(i)'
  BY <1>2, <1>3 DEF DetailsShowAll
<1>5. \A f \in Futures : pc'[f] = "run" => Covered(cur[f])'
  <2> TAKE f \in Futures
  <2> HAVE pc'[f] = "run"
  <2>1. pc[f] = "run" /\ cur'[f] = cur[f]
    OBVIOUS
  <2>2. cur[f] \in 1 .. Len(objs) /\ Covered(cur[f])
    BY <2>1, ObjType DEF DetailsShowAll
  <2> DEFINE c == cur[f]
  <2>3. PICK j \in Shown : objs[c].node = objs[j].node /\ objs[c].up = objs[j].up
    BY <2>2 DEF Covered, SameKey
  <2>4. j \in 1 .. Len(objs) /\ j \in Shown'
    BY <1>1, ShownPlaces
  <2>5. objs'[c].node = objs'[j].node /\ objs'[c].up = objs'[j].up
    BY <2>2, <2>3, <2>4 DEF KeysStay
  <2> QED
    BY <2>1, <2>4, <2>5 DEF Covered, SameKey
<1>6. \A i \in Shown' : HasRun(objs[i])' \/ Working(i)'
  BY <1>1, ShownPlaces DEF DetailsShowAll, RunsStay, Working
<1> QED
  BY <1>4, <1>5, <1>6 DEF DetailsShowAll

\* A node enters the details: it may push out another instance with its key.
LEMMA ShownAppend ==
    ASSUME TypeInv, TypeInv', DetailsShowAll, NEW f \in Futures, AppendNode(f)
    PROVE  DetailsShowAll'
<1> DEFINE c == cur[f]
           same == {k \in DOMAIN node_context : SameKey(node_context[k], c)}
<1>1. /\ UNCHANGED <<objs, cur>> /\ pc[f] = "append" /\ pc' = [pc EXCEPT ![f] = "run"]
      /\ pc \in [Futures -> Pcs] /\ c \in 1 .. Len(objs)
  BY ObjType DEF AppendNode, Goto, TypeInv, TypeOK
<1>2. node_context' = IF same = {} THEN Append(node_context, c)
                      ELSE [k \in DOMAIN node_context |->
                                IF k \in same THEN c ELSE node_context[k]]
  BY DEF AppendNode, SameKey, Obj
<1>3. node_context \in Seq(1 .. Len(objs))
  BY DEF TypeInv, TypeOK
<1>4. c \in Shown'
  <2>1. CASE same = {}
    <3>1. node_context' = Append(node_context, c)
      BY <1>2, <2>1
    <3>2. Len(node_context) + 1 \in DOMAIN node_context'
          /\ node_context'[Len(node_context) + 1] = c
      BY <1>1, <1>3, <3>1
    <3> QED
      BY <3>2 DEF Shown
  <2>2. CASE same # {}
    BY <1>2, <2>2 DEF Shown
  <2> QED
    BY <2>1, <2>2
<1>5. \A i \in Shown : i \in Shown' \/ SameKey(i, c)
  <2> TAKE i \in Shown
  <2>1. PICK k \in DOMAIN node_context : node_context[k] = i
    BY DEF Shown
  <2>2. CASE k \in same
    BY <2>1, <2>2
  <2>3. CASE k \notin same
    <3>1. k \in DOMAIN node_context' /\ node_context'[k] = i
      <4>1. CASE same = {}
        BY <1>1, <1>2, <1>3, <2>1, <4>1
      <4>2. CASE same # {}
        BY <1>2, <2>1, <2>3, <4>2
      <4> QED
        BY <4>1, <4>2
    <3> QED
      BY <3>1 DEF Shown
  <2> QED
    BY <2>2, <2>3
<1>6. \A i \in Shown' : i = c \/ i \in Shown
  <2> TAKE i \in Shown'
  <2>1. PICK k \in DOMAIN node_context' : node_context'[k] = i
    BY DEF Shown
  <2>2. CASE same = {}
    <3>1. node_context' = Append(node_context, c)
      BY <1>2, <2>2
    <3>2. k \in 1 .. Len(node_context) + 1
      BY <1>1, <1>3, <2>1, <3>1
    <3>3. i = IF k = Len(node_context) + 1 THEN c ELSE node_context[k]
      BY <1>1, <1>3, <2>1, <3>1, <3>2
    <3> QED
      BY <1>3, <3>2, <3>3 DEF Shown
  <2>3. CASE same # {}
    BY <1>2, <2>1, <2>3 DEF Shown
  <2> QED
    BY <2>2, <2>3
<1>7. Covered(c)'
  BY <1>1, <1>4 DEF Covered, SameKey
<1>8. \A i \in 1 .. Len(objs) : Covered(i) => Covered(i)'
  <2> TAKE i \in 1 .. Len(objs)
  <2> HAVE Covered(i)
  <2>1. PICK j \in Shown : SameKey(i, j)
    BY DEF Covered
  <2>2. j \in Shown' \/ SameKey(j, c)
    BY <1>5
  <2>3. \E k \in Shown' : SameKey(i, k)
    BY <1>4, <2>1, <2>2 DEF SameKey
  <2> QED
    BY <1>1, <2>3 DEF Covered, SameKey
<1>9. \A g \in Futures : pc'[g] = "run" => Covered(cur[g])'
  BY <1>1, <1>7, <1>8, ObjType DEF DetailsShowAll, Covered, SameKey
<1>10. \A i \in Shown' : HasRun(objs[i])' \/ Working(i)'
  BY <1>1, <1>6 DEF DetailsShowAll, Working, HasRun
<1> QED
  BY <1>1, <1>8, <1>9, <1>10 DEF DetailsShowAll, HasRun

\* A node has run.
LEMMA ShownRun ==
    ASSUME TypeInv, TypeInv', DetailsShowAll, NEW f \in Futures, Run(f)
    PROVE  DetailsShowAll'
<1> DEFINE c == cur[f]
<1>1. /\ pc[f] = "run" /\ pc' = [pc EXCEPT ![f] = "check"] /\ pc \in [Futures -> Pcs]
      /\ UNCHANGED <<node_context, cur>> /\ c \in 1 .. Len(objs)
  BY ObjType DEF Run, Goto, TypeInv, TypeOK
<1>2. PICK out \in Outs \ {"none"} : objs' = [objs EXCEPT ![c].out = out]
  <2>1. Obj(f).node \in Nodes
    BY <1>1, ObjType DEF Objects
  <2>2. Outcomes[Obj(f).node] \subseteq Outs \ {"none"}
    BY <2>1, Constants
  <2>3. "fail" \in Outs \ {"none"}
    BY DEF Outs
  <2> QED
    BY <2>2, <2>3 DEF Run
<1>3. /\ DOMAIN objs = 1 .. Len(objs) /\ Len(objs') = Len(objs) /\ Len(objs) \in Nat
      /\ objs \in Seq(Objects)
  BY <1>2, ShownPlaces DEF TypeInv, TypeOK
<1>4. /\ \A i \in 1 .. Len(objs) : objs'[i].node = objs[i].node /\ objs'[i].up = objs[i].up
      /\ \A i \in 1 .. Len(objs) : i # c => objs'[i] = objs[i]
      /\ HasRun(objs'[c])
  BY <1>1, <1>2, <1>3 DEF Objects, HasRun
<1>5. Shown' = Shown /\ Shown \subseteq 1 .. Len(objs)
  BY <1>1, ShownPlaces DEF Shown
<1>6. \A i \in 1 .. Len(objs) : Covered(i) => \E j \in Shown' : SameKey(i, j)'
  BY <1>4, <1>5 DEF Covered, SameKey
<1>7. \A i \in 1 .. Len(objs) : HasRun(objs'[i]) => Covered(i)
  BY <1>1, <1>4 DEF DetailsShowAll
<1>8. \A g \in Futures : pc'[g] = "run" => pc[g] = "run" /\ g # f
  BY <1>1
<1>9. \A i \in Shown : HasRun(objs'[i]) \/ \E g \in Futures : pc'[g] = "run" /\ cur[g] = i
  BY <1>1, <1>4, <1>5 DEF DetailsShowAll, Working
<1>10. \A i \in 1 .. Len(objs') : HasRun(objs[i])' => Covered(i)'
  <2> TAKE i \in 1 .. Len(objs')
  <2> HAVE HasRun(objs[i])'
  <2>1. i \in 1 .. Len(objs) /\ HasRun(objs'[i])
    BY <1>3 DEF HasRun
  <2>2. \E j \in Shown' : SameKey(i, j)'
    BY <1>6, <1>7, <2>1
  <2> QED
    BY <2>2 DEF Covered, SameKey
<1>11. \A g \in Futures : pc'[g] = "run" => Covered(cur[g])'
  BY <1>1, <1>6, <1>8, ObjType DEF DetailsShowAll, Covered, SameKey
<1>12. \A i \in Shown' : HasRun(objs[i])' \/ Working(i)'
  BY <1>1, <1>5, <1>9 DEF Working, HasRun
<1> QED
  BY <1>10, <1>11, <1>12 DEF DetailsShowAll

LEMMA ShownThread ==
    ASSUME EndInv, EndInv', DetailsShowAll, NEW f \in Futures, Thread(f)
    PROVE  DetailsShowAll'
<1>0. /\ TypeInv /\ TypeInv' /\ pc \in [Futures -> Pcs] /\ DOMAIN objs = 1 .. Len(objs)
      /\ objs \in Seq(Objects) /\ Len(objs) \in Nat /\ cur \in [Futures -> 0 .. Len(objs)]
  BY ShownPlaces DEF EndInv, TypeInv, TypeOK
<1>1. CASE AppendNode(f)
  BY <1>0, <1>1, ShownAppend
<1>2. CASE Run(f)
  BY <1>0, <1>2, ShownRun
<1>3. CASE Begin(f)
  <2>1. UNCHANGED <<objs, node_context, cur>> /\ pc' = [pc EXCEPT ![f] = "append"]
        /\ pc[f] = "queued"
    BY <1>3 DEF Begin, Goto
  <2>2. KeysStay /\ RunsStay
    BY <1>0, <2>1 DEF KeysStay, RunsStay, HasRun
  <2> QED
    BY <1>0, <2>1, <2>2, ShownQuiet
<1>4. CASE Check(f)
  <2> DEFINE c == cur[f]
  <2>1. /\ pc[f] = "check" /\ c \in 1 .. Len(objs) /\ UNCHANGED <<node_context, cur>>
    BY <1>0, <1>4, ObjType DEF Check
  <2>2. PICK l \in {"stop", "end"} : pc' = [pc EXCEPT ![f] = l]
    BY <1>4 DEF Check, Goto
  <2>3. objs' = objs \/ objs' = [objs EXCEPT ![c].out = IF @ = "exception" THEN "fail" ELSE @]
    BY <1>4 DEF Check
  <2>4. CASE objs' = objs
    <3>1. KeysStay /\ RunsStay
      BY <1>0, <2>4 DEF KeysStay, RunsStay, HasRun
    <3> QED
      BY <1>0, <2>1, <2>2, <3>1, ShownQuiet
  <2>5. CASE objs' = [objs EXCEPT ![c].out = IF @ = "exception" THEN "fail" ELSE @]
    <3> DEFINE out == IF objs[c].out = "exception" THEN "fail" ELSE objs[c].out
    <3>1. objs' = [objs EXCEPT ![c].out = out] /\ (out = "none" <=> objs[c].out = "none")
      BY <2>5
    <3> HIDE DEF out
    <3>2. KeysStay /\ RunsStay
      BY <1>0, <2>1, <3>1 DEF KeysStay, RunsStay, HasRun, Objects
    <3> QED
      BY <1>0, <2>1, <2>2, <3>2, ShownQuiet
  <2> QED
    BY <2>3, <2>4, <2>5
<1>5. CASE End(f)
  <2> DEFINE c == cur[f]
  <2>1. /\ pc[f] \in {"end", "stop"} /\ c \in 1 .. Len(objs) /\ UNCHANGED <<node_context, cur>>
    BY <1>0, <1>5, ObjType DEF End
  <2>2. PICK l \in {"done", "next"} : pc' = [pc EXCEPT ![f] = l]
    BY <1>5 DEF End, Goto
  <2>3. objs' = [objs EXCEPT ![c].ended = TRUE]
    BY <1>5 DEF End
  <2>4. KeysStay /\ RunsStay
    BY <1>0, <2>1, <2>3 DEF KeysStay, RunsStay, HasRun, Objects
  <2> QED
    BY <1>0, <2>1, <2>2, <2>4, ShownQuiet
<1>6. CASE NextEdge(f)
  <2>1. UNCHANGED <<node_context, cur, pc>>
    BY <1>6 DEF NextEdge
  <2>2. objs' = objs \/ \E o : objs' = Append(objs, o) /\ ~ HasRun(o)
    BY <1>6 DEF NextEdge, Object, HasRun
  <2>3. CASE objs' = objs
    <3>1. KeysStay /\ RunsStay
      BY <1>0, <2>3 DEF KeysStay, RunsStay, HasRun
    <3> QED
      BY <1>0, <2>1, <3>1, ShownQuiet
  <2>4. ASSUME NEW o, objs' = Append(objs, o), ~ HasRun(o)
        PROVE  DetailsShowAll'
    <3>1. /\ Len(objs') = Len(objs) + 1
          /\ \A i \in 1 .. Len(objs) : objs'[i] = objs[i]
          /\ objs'[Len(objs) + 1] = o
      BY <1>0, <2>4
    <3>2. KeysStay /\ RunsStay
      BY <1>0, <2>4, <3>1 DEF KeysStay, RunsStay, HasRun
    <3> QED
      BY <1>0, <2>1, <3>2, ShownQuiet
  <2> QED
    BY <2>2, <2>3, <2>4
<1>7. CASE NextNode(f)
  <2>1. UNCHANGED <<objs, node_context>> /\ pc[f] = "next"
        /\ \A g \in Futures : g # f => cur'[g] = cur[g]
    BY <1>0, <1>7 DEF NextNode
  <2>2. PICK l \in {"done", "append", "submit"} : pc' = [pc EXCEPT ![f] = l]
    BY <1>7 DEF NextNode, Goto
  <2>3. KeysStay /\ RunsStay
    BY <1>0, <2>1 DEF KeysStay, RunsStay, HasRun
  <2> QED
    BY <1>0, <2>1, <2>2, <2>3, ShownQuiet
<1>8. CASE SubmitNode(f)
  <2> DEFINE new == submitted + 1
  <2>1. /\ UNCHANGED <<objs, node_context>> /\ pc[f] = "submit" /\ submitted < MaxFutures
        /\ \A g \in Futures : g # new => cur'[g] = cur[g]
    BY <1>0, <1>8 DEF SubmitNode, Submit
  <2>2. PICK l \in {"submit", "register"} : pc' = [pc EXCEPT ![new] = "queued", ![f] = l]
    BY <1>8 DEF SubmitNode
  <2>3. submitted \in Nat /\ new \in Futures /\ pc[new] = "none"
    BY <2>1, Constants DEF EndInv, TypeInv, TypeOK, Accounting, Futures
  <2>4. KeysStay /\ RunsStay
    BY <1>0, <2>1 DEF KeysStay, RunsStay, HasRun
  <2> QED
    BY <1>0, <2>1, <2>2, <2>3, <2>4, ShownQuiet
<1>9. CASE Register(f)
  <2>1. UNCHANGED <<objs, node_context, cur>> /\ pc[f] = "register"
    BY <1>9 DEF Register
  <2>2. PICK l \in {"done", "register"} : pc' = [pc EXCEPT ![f] = l]
    BY <1>9 DEF Register, Goto
  <2>3. KeysStay /\ RunsStay
    BY <1>0, <2>1 DEF KeysStay, RunsStay, HasRun
  <2> QED
    BY <1>0, <2>1, <2>2, <2>3, ShownQuiet
<1> QED
  BY <1>1, <1>2, <1>3, <1>4, <1>5, <1>6, <1>7, <1>8, <1>9 DEF Thread

\* The reader, the user and the clock leave instances and details alone, but for the
\* launch, which begins with an instance that is there, and the cleanup.
LEMMA ShownMain ==
    ASSUME EndInv, EndInv', DetailsShowAll, UNCHANGED node_context,
           Main \/ Disconnect \/ Cancel \/ Forget \/ Rest \/ UNCHANGED vars
    PROVE  DetailsShowAll'
<1>0. /\ TypeInv /\ TypeInv' /\ pc \in [Futures -> Pcs] /\ Len(objs) \in Nat
  BY ShownPlaces DEF EndInv, TypeInv, TypeOK
<1>1. UNCHANGED objs
  BY DEF Main, Launch, Enlist, IsRunLen, IsRunWait, IsRunWaited, IsRunCompare, Handle, Cleanup,
         Disconnect, Cancel, Forget, Rest, vars
<1>2. KeysStay /\ RunsStay
  BY <1>0, <1>1 DEF KeysStay, RunsStay, HasRun
<1>3. /\ \A f \in Futures : pc'[f] = "run" <=> pc[f] = "run"
      /\ \A f \in Futures : pc[f] = "run" => cur'[f] = cur[f]
  <2>1. CASE Launch
    <3> DEFINE new == submitted + 1
    <3>1. /\ pc' = [pc EXCEPT ![new] = "queued"] /\ cur' = [cur EXCEPT ![new] = 1]
          /\ submitted < MaxFutures
      BY <2>1 DEF Launch, Submit
    <3>2. submitted \in Nat /\ new \in Futures /\ pc[new] = "none"
      BY <3>1, Constants DEF EndInv, TypeInv, TypeOK, Accounting, Futures
    <3>3. cur \in [Futures -> 0 .. Len(objs)]
      BY DEF EndInv, TypeInv, TypeOK
    <3> QED
      BY <1>0, <3>1, <3>2, <3>3
  <2>2. CASE UNCHANGED <<pc, cur>>
    BY <2>2
  <2> QED
    BY <2>1, <2>2 DEF Main, Enlist, IsRunLen, IsRunWait, IsRunWaited, IsRunCompare, Handle,
                      Cleanup, Disconnect, Cancel, Forget, Rest, vars, threads
<1> QED
  BY <1>0, <1>2, <1>3, ShownQuiet

\* Until the workflow is taken apart, its context has an instance of all that has run.
Kept == main.pc # "finished" => DetailsShowAll

LEMMA KeptStep == EndInv /\ EndInv' /\ Kept /\ [Next]_vars => Kept'
<1> SUFFICES ASSUME EndInv, EndInv', Kept, [Next]_vars, main'.pc # "finished"
             PROVE  DetailsShowAll'
  BY DEF Kept
<1>1. ASSUME NEW f \in Futures, Thread(f) PROVE DetailsShowAll'
  <2>1. UNCHANGED main
    BY <1>1 DEF Thread, Begin, AppendNode, Run, Check, End, NextEdge, NextNode, SubmitNode,
                Register
  <2> QED
    BY <1>1, <2>1, ShownThread DEF Kept
<1>2. CASE Main \/ Disconnect \/ Cancel \/ Forget \/ Rest \/ UNCHANGED vars
  <2>1. main \in [pc : MainPcs, mode : AllModes, loop : {"stream", "last", "closed"},
                  len : Nat, snap : SUBSET Futures]
    BY DEF EndInv, TypeInv, TypeOK
  <2>2. main.pc # "finished" /\ UNCHANGED node_context
    BY <1>2, <2>1 DEF Main, MainGoto, Launch, Enlist, IsRunLen, IsRunWait, IsRunWaited,
                      IsRunCompare, Handle, Cleanup, Disconnect, Cancel, Forget, Rest, vars
  <2> QED
    BY <1>2, <2>2, ShownMain DEF Kept
<1> QED
  BY <1>1, <1>2 DEF Next

LEMMA KeptInit == Init => Kept
<1> SUFFICES ASSUME Init PROVE DetailsShowAll
  BY DEF Kept
<1>1. Len(objs) = 1 /\ objs[1].out = "none" /\ Shown = {}
  BY DEF Init, Object, Shown
<1> QED
  BY <1>1 DEF Init, DetailsShowAll, HasRun

-----------------------------------------------------------------------------
(* No node is lost.  Whatever took an edge is followed by the node at its  *)
(* other end, or its thread has yet to look at the edge; a node with AND   *)
(* may also wait for a predecessor that has not taken its edge.  The last  *)
(* of the predecessors to end then finds the others, as nobody has         *)
(* replaced them in node_context.                                          *)

\* Only a thread that looks for next nodes has edges left, and instances to hand on.
\* Without a cancel only a failure ends a chain early.
OrderlyAt(f) ==
    /\ todo[f] # {} => pc[f] = "next"
    /\ chosen[f] # {} => pc[f] \in {"next", "submit"}
    /\ pc[f] = "stop" /\ flag = "none" => objs[cur[f]].out = "fail"

Orderly == \A f \in Futures : OrderlyAt(f)

\* An instance that has not run: the reader, or a thread, will run it.
Waits(i) ==
    \/ i = 1 /\ main.pc = "launch"
    \/ \E f \in Futures : i \in chosen[f]
    \/ \E f \in Futures : pc[f] \in {"queued", "append", "run"} /\ cur[f] = i

Runs == \A i \in 1 .. Len(objs) : HasRun(objs[i]) \/ Waits(i)

Ends ==
    \A i \in 1 .. Len(objs) : HasRun(objs[i]) =>
        \/ objs[i].ended
        \/ \E f \in Futures : pc[f] \in {"check", "end", "stop"} /\ cur[f] = i

\* A thread has yet to look at the edge from the instance.
Looks(i, e) == \E f \in Futures : cur[f] = i /\ e \in todo[f]

Behind(i, n) ==
    \E j \in 1 .. Len(objs) : objs[j].node = n /\ objs[j].up = objs[i].up \cup {objs[i].node}

OrServed ==
    flag = "none" =>
        \A i \in 1 .. Len(objs) : \A e \in Taken(objs[i].node, objs[i].out) :
            objs[i].ended /\ e.to \in Or => Looks(i, e) \/ Behind(i, e.to)

Took(e) == \E i \in 1 .. Len(objs) : TookEdge(e, objs[i]) /\ objs[i].ended

Made(n) == \E i \in 1 .. Len(objs) : objs[i].node = n

AndServed ==
    flag = "none" =>
        \A n \in Nodes \ Or :
            In(n) # {} /\ (\A e \in In(n) : Took(e) /\ ~ Twice(e.from)) =>
                Made(n) \/ \E f \in Futures, e \in In(n) : e \in todo[f]

LostInv == Orderly /\ Runs /\ Ends /\ OrServed /\ AndServed

\* When no thread is left, nothing waits, and what has run has ended.
LEMMA ServedIsEnough ==
    ASSUME TypeInv, NothingRunsAfterTheEnd, LostInv
    PROVE  NoLostNode
<1> SUFFICES ASSUME main.pc = "handle", flag = "none", NEW n \in Nodes \ {Start}
             PROVE  /\ /\ n \notin Or /\ In(n) # {}
                       /\ \A e \in In(n) :
                            ~ Twice(e.from) /\ \E i \in DOMAIN objs : TookEdge(e, objs[i])
                       => \E i \in DOMAIN objs : objs[i].node = n /\ HasRun(objs[i])
                    /\ n \in Or => \A e \in In(n), i \in DOMAIN objs :
                        TookEdge(e, objs[i]) =>
                            \E j \in DOMAIN objs :
                                /\ objs[j].node = n /\ HasRun(objs[j])
                                /\ objs[j].up = objs[i].up \cup {objs[i].node}
  BY DEF NoLostNode
<1> USE DEF LostInv
<1>1. DOMAIN objs = 1 .. Len(objs)
  BY ShownPlaces
<1>2. \A f \in Futures : pc[f] \in {"none", "done"} /\ todo[f] = {} /\ chosen[f] = {}
  BY DEF NothingRunsAfterTheEnd, Orderly, OrderlyAt
<1>3. \A i \in 1 .. Len(objs) : HasRun(objs[i])
  BY <1>2 DEF Runs, Waits
<1>4. \A i \in 1 .. Len(objs) : objs[i].ended
  BY <1>2, <1>3 DEF Ends
<1>5. ASSUME n \notin Or, In(n) # {},
             \A e \in In(n) : ~ Twice(e.from) /\ \E i \in DOMAIN objs : TookEdge(e, objs[i])
      PROVE  \E i \in DOMAIN objs : objs[i].node = n /\ HasRun(objs[i])
  <2>1. \A e \in In(n) : Took(e) /\ ~ Twice(e.from)
    BY <1>1, <1>4, <1>5 DEF Took
  <2>2. Made(n)
    BY <1>2, <1>5, <2>1 DEF AndServed
  <2> QED
    BY <1>1, <1>3, <2>2 DEF Made
<1>6. ASSUME n \in Or, NEW e \in In(n), NEW i \in DOMAIN objs, TookEdge(e, objs[i])
      PROVE  \E j \in DOMAIN objs :
                /\ objs[j].node = n /\ HasRun(objs[j])
                /\ objs[j].up = objs[i].up \cup {objs[i].node}
  <2>1. e \in Taken(objs[i].node, objs[i].out) /\ e.to = n
    BY <1>6 DEF In, Taken, TookEdge
  <2>2. Behind(i, n)
    BY <1>1, <1>2, <1>4, <1>6, <2>1 DEF OrServed, Looks
  <2> QED
    BY <1>1, <1>3, <2>2 DEF Behind
<1> QED
  BY <1>5, <1>6

\* What a thread does to the instances: it changes the one it runs, or adds one.
Touches(f) ==
    /\ Len(objs') >= Len(objs)
    /\ \A i \in 1 .. Len(objs) :
        /\ objs'[i].node = objs[i].node /\ objs'[i].up = objs[i].up
        /\ HasRun(objs[i]) => HasRun(objs'[i])
        /\ objs'[i] # objs[i] => i = cur[f] /\ pc[f] \in {"run", "check", "end", "stop"}
    /\ \A i \in 1 .. Len(objs') :
        i > Len(objs) => ~ HasRun(objs'[i]) /\ ~ objs'[i].ended

LEMMA TouchesSame ==
    ASSUME TypeInv, UNCHANGED objs
    PROVE  \A f \in Futures : Touches(f)
BY ShownPlaces DEF Touches

LEMMA TouchesOne ==
    ASSUME TypeInv, NEW f \in Futures, pc[f] \in {"run", "check", "end", "stop"},
           NEW o \in Objects, objs' = [objs EXCEPT ![cur[f]] = o],
           o.node = Obj(f).node, o.up = Obj(f).up, HasRun(Obj(f)) => HasRun(o)
    PROVE  Touches(f) /\ objs'[cur[f]] = o /\ Len(objs') = Len(objs)
<1>1. /\ objs \in Seq(Objects) /\ Len(objs) \in Nat /\ cur[f] \in 1 .. Len(objs)
  BY ObjType DEF TypeInv, TypeOK
<1>2. /\ Len(objs') = Len(objs) /\ objs'[cur[f]] = o
      /\ \A i \in 1 .. Len(objs) : i # cur[f] => objs'[i] = objs[i]
  BY <1>1
<1> QED
  BY <1>1, <1>2 DEF Touches, Obj

LEMMA TouchesNew ==
    ASSUME TypeInv, NEW f \in Futures, NEW n \in Nodes, NEW up \in SUBSET Nodes,
           objs' = Append(objs, Object(n, up))
    PROVE  /\ Touches(f) /\ Len(objs') = Len(objs) + 1
           /\ objs'[Len(objs) + 1] = Object(n, up)
           /\ \A i \in 1 .. Len(objs) : objs'[i] = objs[i]
<1>1. Object(n, up) \in Objects
  BY DEF Object, Objects, Outs
<1>2. /\ Len(objs') = Len(objs) + 1 /\ Len(objs) \in Nat
      /\ objs'[Len(objs) + 1] = Object(n, up)
      /\ \A i \in 1 .. Len(objs) : objs'[i] = objs[i]
  BY <1>1, NewObject
<1>3. ~ HasRun(Object(n, up)) /\ ~ Object(n, up).ended
  BY DEF Object, HasRun
<1>4. \A i \in 1 .. Len(objs') : i > Len(objs) => i = Len(objs) + 1
  BY <1>2
<1> QED
  BY <1>2, <1>3, <1>4 DEF Touches

\* The four steps that touch an instance.
LEMMA RunTouches ==
    ASSUME TypeInv, NEW f \in Futures, Run(f)
    PROVE  Touches(f) /\ Len(objs') = Len(objs) /\ HasRun(objs'[cur[f]])
<1>1. pc[f] = "run" /\ Obj(f) \in Objects
  BY ObjType DEF Run
<1>2. Obj(f).node \in Nodes
  BY <1>1 DEF Objects
<1>3. PICK out \in Outcomes[Obj(f).node] :
        objs' = [objs EXCEPT ![cur[f]].out =
                    IF out = "exception" /\ main.mode = "block" THEN "fail" ELSE out]
  BY DEF Run
<1> DEFINE s == IF out = "exception" /\ main.mode = "block" THEN "fail" ELSE out
           o == [Obj(f) EXCEPT !.out = s]
<1>4. Outcomes[Obj(f).node] \subseteq Outs \ {"none"}
  BY <1>2, Constants
<1>5. s \in Outs /\ s # "none"
  BY <1>3, <1>4 DEF Outs
<1> HIDE DEF s
<1>6. o \in Objects /\ o.node = Obj(f).node /\ o.up = Obj(f).up /\ HasRun(o)
  BY <1>1, <1>5 DEF Objects, HasRun
<1>7. objs' = [objs EXCEPT ![cur[f]] = o]
  BY <1>3 DEF Obj, s
<1> QED
  BY <1>1, <1>6, <1>7, TouchesOne

LEMMA CheckTouches ==
    ASSUME TypeInv, NEW f \in Futures, Check(f)
    PROVE  /\ Touches(f) /\ Len(objs') = Len(objs)
           /\ pc'[f] \in {"stop", "end"}
           /\ pc'[f] = "stop" /\ flag = "none" => objs'[cur[f]].out = "fail"
<1>1. /\ pc[f] = "check" /\ Obj(f) \in Objects /\ pc \in [Futures -> Pcs]
  BY ObjType DEF Check, TypeInv, TypeOK
<1> DEFINE s == IF Obj(f).out = "exception" THEN "fail" ELSE Obj(f).out
           o == [Obj(f) EXCEPT !.out = s]
<1>2. /\ o \in Objects /\ o.node = Obj(f).node /\ o.up = Obj(f).up
      /\ HasRun(Obj(f)) => HasRun(o)
      /\ Obj(f).out = "fail" => o.out = "fail"
  BY <1>1 DEF Objects, Outs, HasRun
<1>3. [objs EXCEPT ![cur[f]].out = IF @ = "exception" THEN "fail" ELSE @]
        = [objs EXCEPT ![cur[f]] = o]
  BY DEF Obj
<1>4. CASE /\ Obj(f).out = "fail" \/ (main.mode # "block" /\ flag = "set")
           /\ objs' = [objs EXCEPT ![cur[f]].out = IF @ = "exception" THEN "fail" ELSE @]
           /\ Goto(f, "stop")
  <2>1. objs' = [objs EXCEPT ![cur[f]] = o]
    BY <1>3, <1>4
  <2>2. Touches(f) /\ objs'[cur[f]] = o /\ Len(objs') = Len(objs)
    BY <1>1, <1>2, <2>1, TouchesOne
  <2> QED
    BY <1>1, <1>2, <1>4, <2>2 DEF Goto
<1>5. CASE Goto(f, "end") /\ UNCHANGED objs
  BY <1>1, <1>5, TouchesSame DEF Goto
<1> QED
  BY <1>4, <1>5 DEF Check

LEMMA EndTouches ==
    ASSUME TypeInv, NEW f \in Futures, End(f)
    PROVE  /\ Touches(f) /\ Len(objs') = Len(objs) /\ cur[f] \in 1 .. Len(objs)
           /\ objs'[cur[f]].ended /\ objs'[cur[f]].out = objs[cur[f]].out
<1>1. /\ pc[f] \in {"end", "stop"} /\ Obj(f) \in Objects /\ cur[f] \in 1 .. Len(objs)
  BY ObjType DEF End
<1> DEFINE o == [Obj(f) EXCEPT !.ended = TRUE]
<1>2. /\ o \in Objects /\ o.node = Obj(f).node /\ o.up = Obj(f).up
      /\ HasRun(Obj(f)) => HasRun(o)
      /\ o.ended /\ o.out = objs[cur[f]].out
  BY <1>1 DEF Objects, HasRun, Obj
<1>3. objs' = [objs EXCEPT ![cur[f]] = o]
  BY DEF End, Obj
<1> QED
  BY <1>1, <1>2, <1>3, TouchesOne

LEMMA ThreadTouches ==
    ASSUME TypeInv, NEW f \in Futures, Thread(f)
    PROVE  Touches(f)
<1>1. CASE Begin(f) \/ AppendNode(f) \/ NextNode(f) \/ SubmitNode(f) \/ Register(f)
  BY <1>1, TouchesSame DEF Begin, AppendNode, NextNode, SubmitNode, Register
<1>2. CASE NextEdge(f)
  <2>1. CASE UNCHANGED objs
    BY <2>1, TouchesSame
  <2>2. ASSUME NEW e \in todo[f], e.to \in Or \/ DependentNodeBeenExecuted(e.to),
               objs' = Append(objs, Object(e.to, UpNodes(f, e.to)))
        PROVE  Touches(f)
    <3>1. e \in Edges /\ e.to \in Nodes /\ pc[f] # "none"
      BY <1>2 DEF NextEdge, TypeInv, TypeOK
    <3>2. UpNodes(f, e.to) \in SUBSET Nodes
      BY <2>2, <3>1, UpNodesType
    <3> QED
      BY <2>2, <3>1, <3>2, TouchesNew
  <2> QED
    BY <1>2, <2>1, <2>2 DEF NextEdge
<1> QED
  BY <1>1, <1>2, RunTouches, CheckTouches, EndTouches DEF Thread

\* An instance that a thread runs is not the one another thread changes.
LEMMA OthersStay ==
    ASSUME JoinInv, NEW f \in Futures, Touches(f), NEW g \in Futures, g # f, Running(g)
    PROVE  objs'[cur[g]] = objs[cur[g]] /\ cur[g] \in 1 .. Len(objs)
<1>1. cur[g] \in 1 .. Len(objs)
  BY ObjType DEF JoinInv, Running
<1>2. Running(f) => cur[f] # cur[g]
  BY DEF JoinInv, Owned
<1> QED
  BY <1>1, <1>2 DEF Touches, Running

LEMMA TouchedStays ==
    ASSUME JoinInv, NEW f \in Futures, Touches(f)
    PROVE  EndedStays
<1>1. \A i \in 1 .. Len(objs) : objs'[i] # objs[i] => ~ objs[i].ended
  BY DEF Touches, JoinInv, Owned, Running
<1> QED
  BY <1>1 DEF Touches, EndedStays

-----------------------------------------------------------------------------
(* Threads keep themselves in order.                                       *)

LEMMA ThreadTypes ==
    ASSUME TypeInv
    PROVE  /\ pc \in [Futures -> Pcs] /\ cur \in [Futures -> 0 .. Len(objs)]
           /\ todo \in [Futures -> SUBSET Edges]
           /\ chosen \in [Futures -> SUBSET (1 .. Len(objs))]
           /\ objs \in Seq(Objects) /\ Len(objs) \in Nat /\ DOMAIN objs = 1 .. Len(objs)
BY ShownPlaces DEF TypeInv, TypeOK

\* The future that is submitted next.
LEMMA NewFuture ==
    ASSUME EndInv, submitted < MaxFutures
    PROVE  submitted + 1 \in Futures /\ pc[submitted + 1] = "none"
<1>1. submitted \in Nat
  BY DEF EndInv, TypeInv, TypeOK
<1>2. submitted + 1 \in Futures
  BY <1>1, Constants DEF Futures
<1> QED
  BY <1>1, <1>2 DEF EndInv, Accounting

\* Interrupting outcomes are no anchors.
LEMMA NoEdgeTaken ==
    ASSUME NEW n, NEW out \in {"form", "pause", "fail", "none"}
    PROVE  Taken(n, out) = {}
BY Constants DEF Taken

\* Without the outcomes of those who run.
LEMMA OrderlyOthers ==
    ASSUME JoinInv, Orderly, NEW f \in Futures, Touches(f), NEW g \in Futures, g # f,
           pc'[g] = pc[g], cur'[g] = cur[g], todo'[g] = todo[g], chosen'[g] = chosen[g],
           flag' = flag
    PROVE  OrderlyAt(g)'
<1>1. pc[g] = "stop" => objs'[cur[g]] = objs[cur[g]]
  BY OthersStay DEF Running
<1> QED
  BY <1>1 DEF Orderly, OrderlyAt

LEMMA OrderlyThread ==
    ASSUME EndInv, JoinInv, Orderly, NEW f \in Futures, Thread(f)
    PROVE  Orderly'
<1>0. /\ TypeInv /\ Touches(f) /\ flag' = flag
      /\ pc \in [Futures -> Pcs] /\ cur \in [Futures -> 0 .. Len(objs)]
      /\ todo \in [Futures -> SUBSET Edges]
      /\ chosen \in [Futures -> SUBSET (1 .. Len(objs))]
  BY ThreadTypes, ThreadTouches DEF EndInv, Thread, Begin, AppendNode, Run, Check, End, NextEdge,
     NextNode, SubmitNode, Register
<1>1. OrderlyAt(f)
  BY DEF Orderly
<1>2. CASE ~ SubmitNode(f)
  <2>1. ASSUME NEW g \in Futures, g # f
        PROVE  pc'[g] = pc[g] /\ cur'[g] = cur[g] /\ todo'[g] = todo[g] /\ chosen'[g] = chosen[g]
    BY <1>0, <1>2, <2>1 DEF Thread, Begin, AppendNode, Run, Check, End, NextEdge, NextNode,
       Register, Goto
  <2>2. \A g \in Futures : g # f => OrderlyAt(g)'
    BY <1>0, <2>1, OrderlyOthers
  <2>3. CASE Begin(f) \/ AppendNode(f) \/ Run(f) \/ Register(f)
    <3>1. /\ pc[f] \notin {"next", "submit"} /\ pc'[f] # "stop"
          /\ todo' = todo /\ chosen' = chosen
      BY <1>0, <2>3 DEF Begin, AppendNode, Run, Register, Goto
    <3>2. todo'[f] = {} /\ chosen'[f] = {}
      BY <1>1, <3>1 DEF OrderlyAt
    <3> QED
      BY <2>2, <3>1, <3>2 DEF Orderly, OrderlyAt
  <2>4. CASE Check(f)
    <3>1. /\ pc[f] = "check" /\ todo' = todo /\ chosen' = chosen /\ cur' = cur
      BY <2>4 DEF Check
    <3>2. todo'[f] = {} /\ chosen'[f] = {}
      BY <1>1, <3>1 DEF OrderlyAt
    <3>3. pc'[f] = "stop" /\ flag' = "none" => objs'[cur'[f]].out = "fail"
      BY <1>0, <2>4, <3>1, CheckTouches
    <3> QED
      BY <2>2, <3>2, <3>3 DEF Orderly, OrderlyAt
  <2>5. CASE End(f)
    <3>1. /\ pc[f] \in {"end", "stop"} /\ chosen' = chosen
          /\ pc'[f] = IF pc[f] = "stop" \/ Obj(f).out \in {"form", "pause"} THEN "done" ELSE "next"
          /\ todo'[f] = IF pc[f] = "stop" THEN {} ELSE Taken(Obj(f).node, Obj(f).out)
      BY <1>0, <2>5 DEF End, Goto
    <3>2. chosen'[f] = {}
      BY <1>1, <3>1 DEF OrderlyAt
    <3>3. Obj(f).out \in {"form", "pause"} => Taken(Obj(f).node, Obj(f).out) = {}
      BY NoEdgeTaken
    <3>4. todo'[f] # {} => pc'[f] = "next"
      BY <3>1, <3>3
    <3> QED
      BY <2>2, <3>1, <3>2, <3>4 DEF Orderly, OrderlyAt
  <2>6. CASE NextEdge(f)
    <3>1. pc[f] = "next" /\ pc' = pc
      BY <2>6 DEF NextEdge
    <3> QED
      BY <2>2, <3>1 DEF Orderly, OrderlyAt
  <2>7. CASE NextNode(f)
    <3>1. /\ todo'[f] = {} /\ pc'[f] # "stop"
          /\ chosen'[f] # {} => pc'[f] = "submit"
      BY <1>0, <2>7 DEF NextNode, Goto
    <3> QED
      BY <2>2, <3>1 DEF Orderly, OrderlyAt
  <2> QED
    BY <1>2, <2>3, <2>4, <2>5, <2>6, <2>7 DEF Thread
<1>3. CASE SubmitNode(f)
  <2>0. PICK new \in Futures : new = submitted + 1 /\ pc[new] = "none"
    BY <1>3, NewFuture DEF SubmitNode, Submit
  <2>1. new # f /\ pc[f] = "submit" /\ todo' = todo
    BY <1>3, <2>0 DEF SubmitNode
  <2>2. PICK o \in chosen[f], l \in {"register", "submit"} :
            /\ cur' = [cur EXCEPT ![new] = o]
            /\ chosen' = [chosen EXCEPT ![f] = @ \ {o}]
            /\ pc' = [pc EXCEPT ![new] = "queued", ![f] = l]
            /\ l = "register" => chosen[f] = {o}
    BY <1>3, <2>0 DEF SubmitNode, Submit
  <2>3. \A g \in Futures : g # f /\ g # new =>
            pc'[g] = pc[g] /\ cur'[g] = cur[g] /\ todo'[g] = todo[g] /\ chosen'[g] = chosen[g]
    BY <1>0, <2>1, <2>2
  <2>4. \A g \in Futures : g # f /\ g # new => OrderlyAt(g)'
    BY <1>0, <2>3, OrderlyOthers
  <2>5. todo[new] = {} /\ chosen[new] = {} /\ todo[f] = {}
    BY <2>0, <2>1 DEF Orderly, OrderlyAt
  <2>6. /\ pc'[new] = "queued" /\ chosen'[new] = {} /\ todo'[new] = {}
        /\ pc'[f] = l /\ chosen'[f] = chosen[f] \ {o} /\ todo'[f] = {}
    BY <1>0, <2>1, <2>2, <2>5
  <2>7. OrderlyAt(new)'
    BY <2>6 DEF OrderlyAt
  <2>8. OrderlyAt(f)'
    BY <2>2, <2>6 DEF OrderlyAt
  <2> QED
    BY <2>4, <2>7, <2>8 DEF Orderly
<1> QED
  BY <1>2, <1>3

\* Of what the reader, the user and the clock do, only the launch is about a thread.
LEMMA OrderlyMain ==
    ASSUME EndInv, JoinInv, Orderly,
           Main \/ Disconnect \/ Cancel \/ Forget \/ Rest \/ UNCHANGED vars
    PROVE  Orderly'
<1>0. /\ TypeInv
      /\ pc \in [Futures -> Pcs] /\ cur \in [Futures -> 0 .. Len(objs)]
      /\ todo \in [Futures -> SUBSET Edges]
      /\ chosen \in [Futures -> SUBSET (1 .. Len(objs))]
  BY ThreadTypes DEF EndInv
<1>1. /\ UNCHANGED <<objs, todo, chosen>>
      /\ flag' = "none" => flag = "none"
  BY DEF Main, Launch, Enlist, IsRunLen, IsRunWait, IsRunWaited, IsRunCompare, Handle, Cleanup,
         Disconnect, Cancel, Forget, Rest, vars, threads
<1>2. CASE Launch
  <2>1. /\ submitted + 1 \in Futures /\ pc[submitted + 1] = "none"
        /\ cur' = [cur EXCEPT ![submitted + 1] = 1]
        /\ pc' = [pc EXCEPT ![submitted + 1] = "queued"]
    BY <1>2, NewFuture DEF Launch, Submit
  <2>2. \A f \in Futures : f # submitted + 1 => pc'[f] = pc[f] /\ cur'[f] = cur[f]
    BY <1>0, <2>1
  <2>3. pc'[submitted + 1] = "queued"
    BY <1>0, <2>1
  <2> QED
    BY <1>1, <2>1, <2>2, <2>3 DEF Orderly, OrderlyAt
<1>3. CASE UNCHANGED <<pc, cur>>
  BY <1>1, <1>3 DEF Orderly, OrderlyAt
<1> QED
  BY <1>2, <1>3 DEF Main, Enlist, IsRunLen, IsRunWait, IsRunWaited, IsRunCompare, Handle,
         Cleanup, Disconnect, Cancel, Forget, Rest, vars, threads

-----------------------------------------------------------------------------
(* Every instance is run, and ends.                                        *)

\* Nothing new, and who waits goes on waiting or has run.
LEMMA RunsQuiet ==
    ASSUME TypeInv, Runs, NEW f \in Futures, Touches(f), Len(objs') = Len(objs),
           \A i \in 1 .. Len(objs) : Waits(i) => Waits(i)' \/ HasRun(objs'[i])
    PROVE  Runs'
<1>1. \A i \in 1 .. Len(objs) : HasRun(objs'[i]) \/ Waits(i)'
  BY DEF Runs, Touches
<1>2. \A i \in 1 .. Len(objs) : HasRun(objs[i])' <=> HasRun(objs'[i])
  BY DEF HasRun
<1> QED
  BY <1>1, <1>2 DEF Runs

LEMMA RunsThread ==
    ASSUME EndInv, JoinInv, Runs, NEW f \in Futures, Thread(f)
    PROVE  Runs'
<1>0. /\ TypeInv /\ Touches(f) /\ main' = main
      /\ pc \in [Futures -> Pcs] /\ cur \in [Futures -> 0 .. Len(objs)]
      /\ chosen \in [Futures -> SUBSET (1 .. Len(objs))] /\ Len(objs) \in Nat
  BY ThreadTypes, ThreadTouches DEF EndInv, Thread, Begin, AppendNode, Run, Check, End, NextEdge,
     NextNode, SubmitNode, Register
<1>1. CASE Begin(f) \/ AppendNode(f) \/ Register(f)
  <2>1. /\ objs' = objs /\ cur' = cur /\ chosen' = chosen
        /\ \A g \in Futures : g # f => pc'[g] = pc[g]
        /\ pc[f] \in {"queued", "append", "run"} => pc'[f] \in {"queued", "append", "run"}
    BY <1>0, <1>1 DEF Begin, AppendNode, Register, Goto
  <2>2. \A i \in 1 .. Len(objs) : Waits(i) => Waits(i)'
    BY <1>0, <2>1 DEF Waits
  <2> QED
    BY <1>0, <2>1, <2>2, RunsQuiet
<1>2. CASE Run(f) \/ Check(f) \/ End(f)
  <2>1. /\ cur' = cur /\ chosen' = chosen
        /\ \A g \in Futures : g # f => pc'[g] = pc[g]
        /\ pc[f] = "run" \/ pc[f] \notin {"queued", "append", "run"}
        /\ pc[f] = "run" => Run(f)
    BY <1>0, <1>2 DEF Run, Check, End, Goto
  <2>2. Len(objs') = Len(objs) /\ (Run(f) => HasRun(objs'[cur[f]]))
    BY <1>0, <1>2, RunTouches, CheckTouches, EndTouches
  <2>3. \A i \in 1 .. Len(objs) : Waits(i) => Waits(i)' \/ HasRun(objs'[i])
    BY <1>0, <2>1, <2>2 DEF Waits
  <2> QED
    BY <1>0, <2>2, <2>3, RunsQuiet
<1>3. CASE NextEdge(f)
  <2>1. pc' = pc /\ cur' = cur
    BY <1>3 DEF NextEdge
  <2>2. CASE UNCHANGED <<objs, chosen>>
    <3>1. \A i \in 1 .. Len(objs) : Waits(i) => Waits(i)'
      BY <1>0, <2>1, <2>2 DEF Waits
    <3> QED
      BY <1>0, <2>2, <3>1, RunsQuiet
  <2>3. ASSUME NEW n \in Nodes, NEW up \in SUBSET Nodes, objs' = Append(objs, Object(n, up)),
               chosen' = [chosen EXCEPT ![f] = @ \cup {Len(objs) + 1}]
        PROVE  Runs'
    <3>1. /\ Len(objs') = Len(objs) + 1
          /\ \A i \in 1 .. Len(objs) : objs'[i] = objs[i]
      BY <1>0, <2>3, TouchesNew
    <3>2. /\ \A g \in Futures : chosen[g] \subseteq chosen'[g]
          /\ Len(objs) + 1 \in chosen'[f]
      BY <1>0, <2>3
    <3>3. \A i \in 1 .. Len(objs) : Waits(i) => Waits(i)'
      BY <1>0, <2>1, <3>2 DEF Waits
    <3>4. \A i \in 1 .. Len(objs) : HasRun(objs[i])' \/ Waits(i)'
      BY <3>1, <3>3 DEF Runs, HasRun
    <3>5. ASSUME NEW k, k = Len(objs) + 1 PROVE Waits(k)'
      BY <3>2, <3>5 DEF Waits
    <3>6. \A i \in 1 .. Len(objs') : i \in 1 .. Len(objs) \/ i = Len(objs) + 1
      BY <1>0, <3>1
    <3> QED
      BY <3>4, <3>5, <3>6 DEF Runs
  <2>4. PICK e \in todo[f] :
            \/ /\ e.to \in Or \/ DependentNodeBeenExecuted(e.to)
               /\ objs' = Append(objs, Object(e.to, UpNodes(f, e.to)))
               /\ chosen' = [chosen EXCEPT ![f] = @ \cup {Len(objs) + 1}]
            \/ UNCHANGED <<objs, chosen>>
    BY <1>3 DEF NextEdge
  <2>5. e \in Edges /\ e.to \in Nodes /\ pc[f] # "none"
    BY <1>0, <1>3 DEF NextEdge, TypeInv, TypeOK
  <2>6. CASE /\ e.to \in Or \/ DependentNodeBeenExecuted(e.to)
             /\ objs' = Append(objs, Object(e.to, UpNodes(f, e.to)))
             /\ chosen' = [chosen EXCEPT ![f] = @ \cup {Len(objs) + 1}]
    <3>1. UpNodes(f, e.to) \in SUBSET Nodes
      BY <1>0, <2>5, <2>6, UpNodesType
    <3> QED
      BY <2>3, <2>5, <2>6, <3>1
  <2> QED
    BY <2>2, <2>4, <2>6
<1>4. CASE NextNode(f)
  <2>1. /\ objs' = objs /\ pc[f] = "next"
        /\ \A g \in Futures : g # f => pc'[g] = pc[g] /\ cur'[g] = cur[g] /\ chosen'[g] = chosen[g]
        /\ \A i \in chosen[f] :
            \/ i \in chosen'[f]
            \/ pc'[f] = "append" /\ cur'[f] = i
    BY <1>0, <1>4 DEF NextNode, Goto
  <2>2. \A i \in 1 .. Len(objs) : Waits(i) => Waits(i)'
    BY <1>0, <2>1 DEF Waits
  <2> QED
    BY <1>0, <2>1, <2>2, RunsQuiet
<1>5. CASE SubmitNode(f)
  <2>0. PICK new \in Futures : new = submitted + 1 /\ pc[new] = "none"
    BY <1>5, NewFuture DEF SubmitNode, Submit
  <2>1. objs' = objs /\ new # f /\ pc[f] = "submit"
    BY <1>5, <2>0 DEF SubmitNode
  <2>2. PICK o \in chosen[f], l \in {"register", "submit"} :
            /\ cur' = [cur EXCEPT ![new] = o]
            /\ chosen' = [chosen EXCEPT ![f] = @ \ {o}]
            /\ pc' = [pc EXCEPT ![new] = "queued", ![f] = l]
    BY <1>5, <2>0 DEF SubmitNode, Submit
  <2>3. /\ \A g \in Futures : g # f /\ g # new =>
                pc'[g] = pc[g] /\ cur'[g] = cur[g] /\ chosen'[g] = chosen[g]
        /\ pc'[new] = "queued" /\ cur'[new] = o /\ chosen'[new] = chosen[new]
        /\ \A i \in chosen[f] : i = o \/ i \in chosen'[f]
    BY <1>0, <2>0, <2>1, <2>2
  <2>4. ASSUME NEW i \in 1 .. Len(objs), Waits(i) PROVE Waits(i)'
    <3>1. CASE i = 1 /\ main.pc = "launch"
      BY <1>0, <3>1 DEF Waits
    <3>2. CASE i = o
      BY <2>3, <3>2 DEF Waits
    <3>3. ASSUME NEW g \in Futures, i \in chosen[g], i # o PROVE Waits(i)'
      BY <2>3, <3>3 DEF Waits
    <3>4. ASSUME NEW g \in Futures, pc[g] \in {"queued", "append", "run"}, cur[g] = i
          PROVE  Waits(i)'
      BY <2>0, <2>1, <2>3, <3>4 DEF Waits
    <3> QED
      BY <2>4, <3>1, <3>2, <3>3, <3>4 DEF Waits
  <2> QED
    BY <1>0, <2>1, <2>4, RunsQuiet
<1> QED
  BY <1>1, <1>2, <1>3, <1>4, <1>5 DEF Thread

LEMMA EndsThread ==
    ASSUME EndInv, JoinInv, TypeInv', Ends, NEW f \in Futures, Thread(f)
    PROVE  Ends'
<1>0. /\ TypeInv /\ Touches(f)
      /\ pc \in [Futures -> Pcs] /\ cur \in [Futures -> 0 .. Len(objs)] /\ Len(objs) \in Nat
  BY ThreadTypes, ThreadTouches DEF EndInv
<1> DEFINE Holds(i) == \E g \in Futures : pc[g] \in {"check", "end", "stop"} /\ cur[g] = i
<1>1. ASSUME \A i \in 1 .. Len(objs) : Holds(i) => Holds(i)' \/ objs'[i].ended,
             \A i \in 1 .. Len(objs) :
                HasRun(objs'[i]) => HasRun(objs[i]) \/ Holds(i)' \/ objs'[i].ended
      PROVE  Ends'
  <2>1. ASSUME NEW i \in 1 .. Len(objs'), HasRun(objs'[i])
        PROVE  objs'[i].ended \/ Holds(i)'
    <3>1. i \in 1 .. Len(objs)
      <4>0. Len(objs') \in Nat
        BY DEF TypeInv, TypeOK
      <4>1. i \in Nat /\ i >= 1
        BY <4>0
      <4>2. ~ (i > Len(objs))
        BY <1>0, <2>1 DEF Touches
      <4> QED
        BY <1>0, <4>1, <4>2
    <3>2. objs[i].ended => objs'[i].ended
      BY <1>0, <3>1, TouchedStays DEF EndedStays
    <3>3. HasRun(objs[i]) => objs[i].ended \/ Holds(i)
      BY <3>1 DEF Ends
    <3> QED
      BY <1>1, <2>1, <3>1, <3>2, <3>3
  <2>2. \A i \in 1 .. Len(objs') : HasRun(objs[i])' <=> HasRun(objs'[i])
    BY DEF HasRun
  <2> QED
    BY <2>1, <2>2 DEF Ends
<1>2. CASE ~ (Run(f) \/ Check(f) \/ End(f) \/ SubmitNode(f))
  <2>1. /\ \A i \in 1 .. Len(objs) : objs'[i] = objs[i]
        /\ pc[f] \notin {"check", "end", "stop"}
        /\ \A g \in Futures : g # f => pc'[g] = pc[g] /\ cur'[g] = cur[g]
    <3>1. pc[f] \notin {"run", "check", "end", "stop"}
      BY <1>2 DEF Thread, Begin, AppendNode, NextEdge, NextNode, Register
    <3>2. \A g \in Futures : g # f => pc'[g] = pc[g] /\ cur'[g] = cur[g]
      BY <1>0, <1>2 DEF Thread, Begin, AppendNode, NextEdge, NextNode, Register, Goto
    <3> QED
      BY <1>0, <3>1, <3>2 DEF Touches
  <2>2. \A i \in 1 .. Len(objs) : Holds(i) => Holds(i)'
    BY <2>1
  <2> QED
    BY <1>1, <2>1, <2>2
<1>3. CASE Run(f) \/ Check(f) \/ End(f)
  <2>1. /\ cur' = cur /\ \A g \in Futures : g # f => pc'[g] = pc[g]
        /\ pc[f] \in {"run", "check", "end", "stop"}
        /\ Run(f) \/ Check(f) => pc'[f] \in {"check", "end", "stop"}
    BY <1>0, <1>3 DEF Run, Check, End, Goto
  <2>2. End(f) => objs'[cur[f]].ended
    BY <1>0, EndTouches
  <2>3. \A i \in 1 .. Len(objs) : Holds(i) => Holds(i)' \/ objs'[i].ended
    BY <1>3, <2>1, <2>2
  <2>4. \A i \in 1 .. Len(objs) : i # cur[f] => objs'[i] = objs[i]
    BY <1>0 DEF Touches
  <2>5. \A i \in 1 .. Len(objs) :
            HasRun(objs'[i]) => HasRun(objs[i]) \/ Holds(i)' \/ objs'[i].ended
    BY <1>3, <2>1, <2>2, <2>4
  <2> QED
    BY <1>1, <2>3, <2>5
<1>4. CASE SubmitNode(f)
  <2>0. PICK new \in Futures : new = submitted + 1 /\ pc[new] = "none"
    BY <1>4, NewFuture DEF SubmitNode, Submit
  <2>1. objs' = objs /\ pc[f] = "submit"
    BY <1>4 DEF SubmitNode
  <2>2. PICK o \in chosen[f], l \in {"register", "submit"} :
            /\ cur' = [cur EXCEPT ![new] = o]
            /\ pc' = [pc EXCEPT ![new] = "queued", ![f] = l]
    BY <1>4, <2>0 DEF SubmitNode, Submit
  <2>3. \A g \in Futures : g # f /\ g # new => pc'[g] = pc[g] /\ cur'[g] = cur[g]
    BY <1>0, <2>2
  <2>4. \A i \in 1 .. Len(objs) : Holds(i) => Holds(i)'
    BY <2>0, <2>1, <2>3
  <2> QED
    BY <1>1, <2>1, <2>4
<1> QED
  BY <1>2, <1>3, <1>4

\* Launching the execution puts its first instance into the hands of a thread.
LEMMA RunsMain ==
    ASSUME EndInv, JoinInv, Runs, Ends,
           Main \/ Disconnect \/ Cancel \/ Forget \/ Rest \/ UNCHANGED vars
    PROVE  Runs' /\ Ends'
<1>0. /\ TypeInv /\ objs' = objs /\ chosen' = chosen
      /\ pc \in [Futures -> Pcs] /\ cur \in [Futures -> 0 .. Len(objs)]
      /\ main \in [pc : MainPcs, mode : AllModes, loop : {"stream", "last", "closed"},
                   len : Nat, snap : SUBSET Futures]
  <2>1. objs' = objs /\ chosen' = chosen
    BY DEF Main, Launch, Enlist, IsRunLen, IsRunWait, IsRunWaited, IsRunCompare, Handle, Cleanup,
           Disconnect, Cancel, Forget, Rest, vars, threads
  <2> QED
    BY <2>1 DEF EndInv, TypeInv, TypeOK
<1>1. ASSUME \A i \in 1 .. Len(objs) : Waits(i) => Waits(i)',
             \A g \in Futures : pc[g] \in {"check", "end", "stop"} =>
                pc'[g] = pc[g] /\ cur'[g] = cur[g]
      PROVE  Runs' /\ Ends'
  <2>1. \A i \in 1 .. Len(objs) : HasRun(objs[i])' <=> HasRun(objs[i])
    BY <1>0 DEF HasRun
  <2>2. Runs'
    <3>1. \A i \in 1 .. Len(objs) : HasRun(objs[i]) \/ Waits(i)
      BY DEF Runs
    <3>2. \A i \in 1 .. Len(objs) : HasRun(objs[i])' \/ Waits(i)'
      BY <1>1, <2>1, <3>1
    <3>3. 1 .. Len(objs') = 1 .. Len(objs)
      BY <1>0
    <3> QED
      BY <3>2, <3>3 DEF Runs
  <2>3. Ends'
    <3>1. ASSUME NEW i \in 1 .. Len(objs), HasRun(objs[i])
          PROVE  \/ objs'[i].ended
                 \/ \E g \in Futures : pc'[g] \in {"check", "end", "stop"} /\ cur'[g] = i
      BY <1>0, <1>1, <3>1 DEF Ends
    <3>2. 1 .. Len(objs') = 1 .. Len(objs)
      BY <1>0
    <3> QED
      BY <2>1, <3>1, <3>2 DEF Ends
  <2> QED
    BY <2>2, <2>3
<1>2. CASE Launch
  <2>0. PICK new \in Futures : new = submitted + 1 /\ pc[new] = "none"
    BY <1>2, NewFuture DEF Launch, Submit
  <2>1. cur' = [cur EXCEPT ![new] = 1] /\ pc' = [pc EXCEPT ![new] = "queued"]
    BY <1>2, <2>0 DEF Launch, Submit
  <2>2. /\ \A g \in Futures : g # new => pc'[g] = pc[g] /\ cur'[g] = cur[g]
        /\ pc'[new] = "queued" /\ cur'[new] = 1
    BY <1>0, <2>1
  <2>3. ASSUME NEW i \in 1 .. Len(objs), Waits(i) PROVE Waits(i)'
    <3>1. CASE i = 1
      BY <2>2, <3>1 DEF Waits
    <3>2. ASSUME NEW g \in Futures, i \in chosen[g] PROVE Waits(i)'
      BY <1>0, <3>2 DEF Waits
    <3>3. ASSUME NEW g \in Futures, pc[g] \in {"queued", "append", "run"}, cur[g] = i
          PROVE  Waits(i)'
      BY <2>0, <2>2, <3>3 DEF Waits
    <3> QED
      BY <2>3, <3>1, <3>2, <3>3 DEF Waits
  <2> QED
    BY <1>1, <2>0, <2>2, <2>3
<1>3. CASE UNCHANGED <<pc, cur>> /\ (main.pc = "launch" => main'.pc = "launch")
  <2>1. \A i \in 1 .. Len(objs) : Waits(i) => Waits(i)'
    BY <1>0, <1>3 DEF Waits
  <2> QED
    BY <1>1, <1>3, <2>1
<1> QED
  BY <1>0, <1>2, <1>3 DEF Main, Enlist, IsRunLen, IsRunWait, IsRunWaited, IsRunCompare, Handle,
         Cleanup, Disconnect, Cancel, Forget, Rest, vars, threads, MainGoto

-----------------------------------------------------------------------------
(* Every edge that was taken is looked at.                                 *)

LEMMA TwiceStays ==
    ASSUME TypeInv, TypeInv', NEW f \in Futures, Touches(f), NEW n, Twice(n)
    PROVE  Twice(n)'
<1>1. /\ Len(objs) \in Nat /\ DOMAIN objs = 1 .. Len(objs)
      /\ Len(objs') \in Nat /\ DOMAIN objs' = 1 .. Len(objs') /\ Len(objs') >= Len(objs)
  BY DEF TypeInv, TypeOK, Touches
<1>2. PICK i, j \in DOMAIN objs :
        i # j /\ objs[i].node = n /\ objs[j].node = n /\ objs[i].up = objs[j].up
  BY DEF Twice
<1>3. i \in DOMAIN objs' /\ j \in DOMAIN objs'
  BY <1>1, <1>2
<1>4. objs'[i].node = n /\ objs'[j].node = n /\ objs'[i].up = objs'[j].up
  BY <1>1, <1>2 DEF Touches
<1> QED
  BY <1>2, <1>3, <1>4 DEF Twice

LEMMA MadeStays ==
    ASSUME TypeInv, TypeInv', NEW f \in Futures, Touches(f), NEW n, Made(n)
    PROVE  Made(n)'
<1>1. Len(objs) \in Nat /\ Len(objs') \in Nat /\ Len(objs') >= Len(objs)
  BY DEF TypeInv, TypeOK, Touches
<1> QED
  BY <1>1 DEF Made, Touches

LEMMA BehindStays ==
    ASSUME TypeInv, TypeInv', NEW f \in Futures, Touches(f), NEW i \in 1 .. Len(objs), NEW n,
           Behind(i, n)
    PROVE  Behind(i, n)'
<1>1. Len(objs) \in Nat /\ Len(objs') \in Nat /\ Len(objs') >= Len(objs)
  BY DEF TypeInv, TypeOK, Touches
<1>2. PICK j \in 1 .. Len(objs) :
        objs[j].node = n /\ objs[j].up = objs[i].up \cup {objs[i].node}
  BY DEF Behind
<1>3. j \in 1 .. Len(objs') /\ objs'[j].node = n /\ objs'[j].up = objs'[i].up \cup {objs'[i].node}
  BY <1>1, <1>2 DEF Touches
<1> QED
  BY <1>3 DEF Behind

\* An instance that ends at the step is the one its thread runs.
LEMMA EndsHere ==
    ASSUME JoinInv, TypeInv', NEW f \in Futures, Touches(f), NEW i \in 1 .. Len(objs'),
           objs'[i].ended
    PROVE  /\ i \in 1 .. Len(objs)
           /\ ~ objs[i].ended => i = cur[f] /\ pc[f] \in {"run", "check", "end", "stop"}
           /\ objs[i].ended => objs'[i] = objs[i]
<1>1. Len(objs) \in Nat /\ Len(objs') \in Nat /\ EndedStays
  BY TouchedStays DEF JoinInv, TypeInv, TypeOK
<1>2. ~ (i > Len(objs))
  BY DEF Touches
<1>3. i \in 1 .. Len(objs)
  BY <1>1, <1>2
<1> QED
  BY <1>1, <1>3 DEF Touches, EndedStays

\* Nobody ends, and nobody looks at an edge.
LEMMA ServedQuiet ==
    ASSUME JoinInv, TypeInv', OrServed, AndServed, NEW f \in Futures, Touches(f),
           flag' = "none" => flag = "none",
           \A i \in 1 .. Len(objs) : objs'[i].ended => objs[i].ended,
           todo' = todo, \A g \in Futures : todo[g] # {} => cur'[g] = cur[g]
    PROVE  OrServed' /\ AndServed'
<1>1. ASSUME flag' = "none", NEW i \in 1 .. Len(objs'),
             NEW e \in Taken(objs'[i].node, objs'[i].out), objs'[i].ended, e.to \in Or
      PROVE  Looks(i, e)' \/ Behind(i, e.to)'
  <2>1. i \in 1 .. Len(objs) /\ objs[i].ended /\ objs'[i] = objs[i]
    BY <1>1, EndsHere
  <2>2. Looks(i, e) \/ Behind(i, e.to)
    BY <1>1, <2>1 DEF OrServed
  <2>3. Looks(i, e) => Looks(i, e)'
    BY DEF Looks
  <2>4. Behind(i, e.to) => Behind(i, e.to)'
    BY <2>1, BehindStays DEF JoinInv
  <2> QED
    BY <2>2, <2>3, <2>4
<1>2. OrServed'
  BY <1>1 DEF OrServed, Taken
<1>3. ASSUME flag' = "none", NEW n \in Nodes \ Or, In(n) # {},
             \A e \in In(n) : Took(e)' /\ ~ Twice(e.from)'
      PROVE  Made(n)' \/ \E g \in Futures, e \in In(n) : e \in todo'[g]
  <2>1. ASSUME NEW e \in In(n) PROVE Took(e) /\ ~ Twice(e.from)
    <3>1. PICK i \in 1 .. Len(objs') : TookEdge(e, objs'[i]) /\ objs'[i].ended
      BY <1>3, <2>1 DEF Took, TookEdge
    <3>2. i \in 1 .. Len(objs) /\ objs[i].ended /\ objs'[i] = objs[i]
      BY <3>1, EndsHere
    <3>3. Took(e)
      BY <3>1, <3>2 DEF Took
    <3> QED
      BY <1>3, <2>1, <3>3, TwiceStays DEF JoinInv
  <2>2. Made(n) \/ \E g \in Futures, e \in In(n) : e \in todo[g]
    BY <1>3, <2>1 DEF AndServed
  <2>3. Made(n) => Made(n)'
    BY MadeStays DEF JoinInv
  <2> QED
    BY <2>2, <2>3
<1>4. AndServed'
  BY <1>3 DEF AndServed, In
<1> QED
  BY <1>2, <1>4

\* A thread that has ended its instance is to look at the edges the instance took.
LEMMA ServedEnd ==
    ASSUME EndInv, JoinInv, TypeInv', Orderly, OrServed, AndServed, NEW f \in Futures, End(f)
    PROVE  OrServed' /\ AndServed'
<1>0. /\ TypeInv /\ Touches(f) /\ todo \in [Futures -> SUBSET Edges]
      /\ pc[f] \in {"end", "stop"} /\ cur' = cur /\ flag' = flag
      /\ cur[f] \in 1 .. Len(objs) /\ objs'[cur[f]].out = objs[cur[f]].out
  BY ThreadTypes, EndTouches DEF EndInv, End
<1>1. PICK c \in 1 .. Len(objs) : c = cur[f]
  BY <1>0
<1>2. /\ todo' = [todo EXCEPT ![f] =
                    IF pc[f] = "stop" THEN {} ELSE Taken(objs[c].node, objs[c].out)]
      /\ objs'[c].node = objs[c].node /\ objs'[c].out = objs[c].out
  BY <1>0, <1>1 DEF End, Obj, Touches
<1>3. ASSUME flag = "none", NEW e \in Taken(objs[c].node, objs[c].out)
      PROVE  e \in todo'[f]
  <2>1. pc[f] # "stop"
    BY <1>1, <1>3, NoEdgeTaken DEF Orderly, OrderlyAt
  <2>2. todo'[f] = Taken(objs[c].node, objs[c].out)
    BY <1>0, <1>2, <2>1
  <2> QED
    BY <1>3, <2>2
<1>4. todo[f] = {}
  BY <1>0 DEF Orderly, OrderlyAt
<1>5. \A g \in Futures : todo[g] \subseteq todo'[g]
  BY <1>0, <1>2, <1>4
<1>6. ASSUME flag' = "none", NEW i \in 1 .. Len(objs'),
             NEW e \in Taken(objs'[i].node, objs'[i].out), objs'[i].ended, e.to \in Or
      PROVE  Looks(i, e)' \/ Behind(i, e.to)'
  <2>1. CASE i = c
    BY <1>0, <1>1, <1>2, <1>3, <1>6, <2>1 DEF Looks
  <2>2. CASE i # c
    <3>1. i \in 1 .. Len(objs) /\ objs[i].ended /\ objs'[i] = objs[i]
      BY <1>0, <1>1, <1>6, <2>2, EndsHere
    <3>2. Looks(i, e) \/ Behind(i, e.to)
      BY <1>0, <1>6, <3>1 DEF OrServed
    <3>3. Looks(i, e) => Looks(i, e)'
      BY <1>0, <1>5 DEF Looks
    <3>4. Behind(i, e.to) => Behind(i, e.to)'
      BY <1>0, <3>1, BehindStays
    <3> QED
      BY <3>2, <3>3, <3>4
  <2> QED
    BY <2>1, <2>2
<1>7. OrServed'
  BY <1>6 DEF OrServed, Taken
<1>8. ASSUME flag' = "none", NEW n \in Nodes \ Or, In(n) # {},
             \A e \in In(n) : Took(e)' /\ ~ Twice(e.from)'
      PROVE  Made(n)' \/ \E g \in Futures, e \in In(n) : e \in todo'[g]
  <2>1. CASE \A e \in In(n) : Took(e)
    <3>1. \A e \in In(n) : ~ Twice(e.from)
      BY <1>0, <1>8, TwiceStays
    <3>2. Made(n) \/ \E g \in Futures, e \in In(n) : e \in todo[g]
      BY <1>0, <1>8, <2>1, <3>1 DEF AndServed
    <3>3. Made(n) => Made(n)'
      BY <1>0, MadeStays
    <3> QED
      BY <1>5, <3>2, <3>3
  <2>2. ASSUME NEW e \in In(n), ~ Took(e) PROVE e \in todo'[f]
    <3>1. PICK i \in 1 .. Len(objs') : TookEdge(e, objs'[i]) /\ objs'[i].ended
      BY <1>8, <2>2 DEF Took, TookEdge
    <3>2. i = c
      BY <1>0, <1>1, <2>2, <3>1, EndsHere DEF Took
    <3>3. e \in Taken(objs[c].node, objs[c].out)
      BY <1>2, <3>1, <3>2 DEF TookEdge, Taken, In
    <3> QED
      BY <1>0, <1>3, <1>8, <3>3
  <2> QED
    BY <2>1, <2>2
<1>9. AndServed'
  BY <1>8 DEF AndServed, In
<1> QED
  BY <1>7, <1>9

\* The last predecessor of a join finds the others: they have ended, and they are in the
\* context, where nobody has replaced them.
LEMMA JoinIsFound ==
    ASSUME TypeInv, DetailsShowAll, NEW n \in Nodes,
           \A e \in In(n) : Took(e) /\ ~ Twice(e.from)
    PROVE  DependentNodeBeenExecuted(n)
<1> SUFFICES ASSUME NEW e \in In(n)
             PROVE  \E k \in DOMAIN node_context : Dependent(e, objs[node_context[k]])
  BY DEF DependentNodeBeenExecuted
<1>1. PICK i \in 1 .. Len(objs) : objs[i].node = e.from /\ objs[i].out = e.anchor /\ objs[i].ended
  BY DEF Took, TookEdge
<1>2. e.anchor \notin {"form", "pause", "fail", "none"}
  BY Constants DEF In
<1>3. PICK j \in Shown : SameKey(i, j)
  BY <1>1, <1>2 DEF DetailsShowAll, HasRun, Covered
<1>4. j = i
  BY <1>1, <1>3, ShownPlaces DEF Twice, SameKey
<1>5. PICK k \in DOMAIN node_context : node_context[k] = i
  BY <1>3, <1>4 DEF Shown
<1> QED
  BY <1>1, <1>2, <1>5 DEF Dependent

\* The edge that a thread looks at is served at once: by an instance behind the one that
\* took it, or, at a join, by the last of the predecessors.
LEMMA ServedNextEdge ==
    ASSUME EndInv, JoinInv, TypeInv', Kept, OrServed, AndServed,
           NEW f \in Futures, NextEdge(f)
    PROVE  OrServed' /\ AndServed'
<1>0. /\ TypeInv /\ Touches(f) /\ todo \in [Futures -> SUBSET Edges]
      /\ Len(objs) \in Nat /\ DOMAIN objs = 1 .. Len(objs)
      /\ pc[f] = "next" /\ cur' = cur /\ flag' = flag
  BY ThreadTypes, ThreadTouches DEF EndInv, NextEdge, Thread
<1>1. DetailsShowAll
  BY <1>0 DEF Kept, EndInv, NothingRunsAfterTheEnd
<1>2. PICK x \in todo[f] :
        /\ todo' = [todo EXCEPT ![f] = @ \ {x}]
        /\ \/ /\ x.to \in Or \/ DependentNodeBeenExecuted(x.to)
              /\ objs' = Append(objs, Object(x.to, UpNodes(f, x.to)))
           \/ /\ ~ (x.to \in Or \/ DependentNodeBeenExecuted(x.to))
              /\ UNCHANGED objs
  BY DEF NextEdge
<1>3. x \in Edges /\ x.to \in Nodes
  BY <1>0, <1>2, Constants
<1>4. \A g \in Futures, e \in Edges : e \in todo[g] => e \in todo'[g] \/ (g = f /\ e = x)
  BY <1>0, <1>2
<1>5. ASSUME x.to \in Or \/ DependentNodeBeenExecuted(x.to)
      PROVE  /\ Len(objs) + 1 \in 1 .. Len(objs')
             /\ objs'[Len(objs) + 1] = Object(x.to, UpNodes(f, x.to))
             /\ \A i \in 1 .. Len(objs) : objs'[i] = objs[i]
  <2>1. objs' = Append(objs, Object(x.to, UpNodes(f, x.to)))
    BY <1>2, <1>5
  <2>2. UpNodes(f, x.to) \in SUBSET Nodes
    BY <1>0, <1>3, <1>5, UpNodesType
  <2>3. /\ Len(objs') = Len(objs) + 1
        /\ objs'[Len(objs) + 1] = Object(x.to, UpNodes(f, x.to))
        /\ \A i \in 1 .. Len(objs) : objs'[i] = objs[i]
    BY <1>0, <1>3, <2>1, <2>2, TouchesNew
  <2> QED
    BY <1>0, <2>3
<1>6. ASSUME NEW i \in 1 .. Len(objs), i = cur[f], x.to \in Or
      PROVE  Behind(i, x.to)'
  <2>1. UpNodes(f, x.to) = objs[i].up \cup {objs[i].node}
    BY <1>6 DEF UpNodes, Obj
  <2>2. PICK j \in 1 .. Len(objs') : objs'[j] = Object(x.to, objs[i].up \cup {objs[i].node})
    BY <1>5, <1>6, <2>1
  <2>3. /\ objs'[j].node = x.to
        /\ objs'[j].up = objs'[i].up \cup {objs'[i].node}
    BY <1>5, <1>6, <2>2 DEF Object
  <2> QED
    BY <2>3 DEF Behind
<1>7. x.to \in Or \/ DependentNodeBeenExecuted(x.to) => Made(x.to)'
  <2>1. SUFFICES ASSUME x.to \in Or \/ DependentNodeBeenExecuted(x.to) PROVE Made(x.to)'
    OBVIOUS
  <2>2. PICK j \in 1 .. Len(objs') : objs'[j] = Object(x.to, UpNodes(f, x.to))
    BY <1>5, <2>1
  <2>3. objs'[j].node = x.to
    BY <2>2 DEF Object
  <2> QED
    BY <2>3 DEF Made
<1>8. \A i \in 1 .. Len(objs') : objs'[i].ended =>
        i \in 1 .. Len(objs) /\ objs[i].ended /\ objs'[i] = objs[i]
  BY <1>0, EndsHere
<1>9. ASSUME flag' = "none", NEW i \in 1 .. Len(objs'),
             NEW e \in Taken(objs'[i].node, objs'[i].out), objs'[i].ended, e.to \in Or
      PROVE  Looks(i, e)' \/ Behind(i, e.to)'
  <2>1. i \in 1 .. Len(objs) /\ objs[i].ended /\ objs'[i] = objs[i]
    BY <1>8, <1>9
  <2>2. Looks(i, e) \/ Behind(i, e.to)
    BY <1>0, <1>9, <2>1 DEF OrServed
  <2>3. Looks(i, e) => Looks(i, e)' \/ Behind(i, e.to)'
    <3>1. SUFFICES ASSUME NEW g \in Futures, cur[g] = i, e \in todo[g]
                   PROVE  Looks(i, e)' \/ Behind(i, e.to)'
      BY DEF Looks
    <3>2. e \in Edges
      BY <1>9 DEF Taken
    <3>3. CASE g = f /\ e = x
      BY <1>6, <1>9, <2>1, <3>1, <3>3
    <3>4. CASE e \in todo'[g]
      BY <1>0, <3>1, <3>4 DEF Looks
    <3> QED
      BY <1>4, <3>1, <3>2, <3>3, <3>4
  <2>4. Behind(i, e.to) => Behind(i, e.to)'
    BY <1>0, <2>1, BehindStays
  <2> QED
    BY <2>2, <2>3, <2>4
<1>10. OrServed'
  BY <1>9 DEF OrServed, Taken
<1>11. ASSUME flag' = "none", NEW n \in Nodes \ Or, In(n) # {},
              \A e \in In(n) : Took(e)' /\ ~ Twice(e.from)'
       PROVE  Made(n)' \/ \E g \in Futures, e \in In(n) : e \in todo'[g]
  <2>1. ASSUME NEW e \in In(n) PROVE Took(e) /\ ~ Twice(e.from)
    <3>1. PICK i \in 1 .. Len(objs') : TookEdge(e, objs'[i]) /\ objs'[i].ended
      BY <1>11, <2>1 DEF Took, TookEdge
    <3>2. Took(e)
      BY <1>8, <3>1 DEF Took
    <3> QED
      BY <1>0, <1>11, <2>1, <3>2, TwiceStays
  <2>2. Made(n) \/ \E g \in Futures, e \in In(n) : e \in todo[g]
    BY <1>0, <1>11, <2>1 DEF AndServed
  <2>3. Made(n) => Made(n)'
    BY <1>0, MadeStays
  <2>4. x \in In(n) => Made(n)'
    <3>1. x \in In(n) => n = x.to
      BY DEF In
    <3>2. DependentNodeBeenExecuted(n)
      BY <1>0, <1>1, <2>1, JoinIsFound
    <3> QED
      BY <1>7, <3>1, <3>2
  <2>5. ASSUME NEW g \in Futures, NEW e \in In(n), e \in todo[g]
        PROVE  Made(n)' \/ e \in todo'[g]
    <3>1. e \in Edges
      BY <2>5 DEF In
    <3> QED
      BY <1>4, <2>4, <2>5, <3>1
  <2> QED
    BY <2>2, <2>3, <2>5
<1>12. AndServed'
  BY <1>11 DEF AndServed, In
<1> QED
  BY <1>10, <1>12

LEMMA ServedThread ==
    ASSUME EndInv, JoinInv, TypeInv', Kept, Orderly, OrServed, AndServed,
           NEW f \in Futures, Thread(f)
    PROVE  OrServed' /\ AndServed'
<1>0. /\ TypeInv /\ Touches(f) /\ flag' = flag
      /\ cur \in [Futures -> 0 .. Len(objs)] /\ todo \in [Futures -> SUBSET Edges]
  BY ThreadTypes, ThreadTouches DEF EndInv, Thread, Begin, AppendNode, Run, Check, End, NextEdge,
     NextNode, SubmitNode, Register
<1>1. ASSUME UNCHANGED todo, \A g \in Futures : todo[g] # {} => cur'[g] = cur[g],
             \A i \in 1 .. Len(objs) : objs'[i].ended => objs[i].ended
      PROVE  OrServed' /\ AndServed'
  BY <1>0, <1>1, ServedQuiet
<1>2. CASE Begin(f) \/ AppendNode(f) \/ Register(f)
  BY <1>1, <1>2 DEF Begin, AppendNode, Register
<1>3. CASE Run(f) \/ Check(f)
  <2>1. UNCHANGED <<todo, cur>>
    BY <1>3 DEF Run, Check
  <2>2. \A i \in 1 .. Len(objs) : objs'[i].ended = objs[i].ended
    <3>1. objs \in Seq(Objects) /\ cur[f] \in 1 .. Len(objs) /\ Obj(f) \in Objects
      BY <1>0, <1>3, ObjType DEF Run, Check, TypeInv, TypeOK
    <3>2. \/ UNCHANGED objs
          \/ \E s : objs' = [objs EXCEPT ![cur[f]] = [Obj(f) EXCEPT !.out = s]]
      BY <1>3 DEF Run, Check, Obj
    <3>3. ASSUME NEW s, objs' = [objs EXCEPT ![cur[f]] = [Obj(f) EXCEPT !.out = s]]
          PROVE  \A i \in 1 .. Len(objs) : objs'[i].ended = objs[i].ended
      <4>1. [Obj(f) EXCEPT !.out = s].ended = Obj(f).ended
        BY <3>1 DEF Objects
      <4>2. /\ objs'[cur[f]] = [Obj(f) EXCEPT !.out = s]
            /\ \A i \in 1 .. Len(objs) : i # cur[f] => objs'[i] = objs[i]
        BY <3>1, <3>3
      <4> QED
        BY <4>1, <4>2 DEF Obj
    <3> QED
      BY <3>2, <3>3
  <2> QED
    BY <1>1, <2>1, <2>2
<1>4. CASE End(f)
  BY <1>4, ServedEnd
<1>5. CASE NextEdge(f)
  BY <1>5, ServedNextEdge
<1>6. CASE NextNode(f)
  <2>1. \A g \in Futures : todo[g] # {} => cur'[g] = cur[g]
    BY <1>0, <1>6 DEF NextNode
  <2> QED
    BY <1>1, <1>6, <2>1 DEF NextNode
<1>7. CASE SubmitNode(f)
  <2>0. PICK new \in Futures : new = submitted + 1 /\ pc[new] = "none"
    BY <1>7, NewFuture DEF SubmitNode, Submit
  <2>1. todo[new] = {}
    BY <2>0 DEF Orderly, OrderlyAt
  <2>2. \A g \in Futures : g # new => cur'[g] = cur[g]
    BY <1>0, <1>7, <2>0 DEF SubmitNode, Submit
  <2> QED
    BY <1>1, <1>7, <2>1, <2>2 DEF SubmitNode
<1> QED
  BY <1>2, <1>3, <1>4, <1>5, <1>6, <1>7 DEF Thread

LEMMA ServedMain ==
    ASSUME EndInv, JoinInv, TypeInv', Orderly, OrServed, AndServed,
           Main \/ Disconnect \/ Cancel \/ Forget \/ Rest \/ UNCHANGED vars
    PROVE  OrServed' /\ AndServed'
<1>0. TypeInv /\ cur \in [Futures -> 0 .. Len(objs)] /\ 1 \in Futures
  BY ThreadTypes, Constants DEF EndInv, Futures
<1>1. UNCHANGED <<objs, todo>> /\ (flag' = "none" => flag = "none")
  BY DEF Main, Launch, Enlist, IsRunLen, IsRunWait, IsRunWaited, IsRunCompare, Handle, Cleanup,
         Disconnect, Cancel, Forget, Rest, vars, threads
<1>2. Touches(1)
  BY <1>0, <1>1, TouchesSame
<1>3. \A g \in Futures : todo[g] # {} => cur'[g] = cur[g]
  <2>1. CASE Launch
    <3>0. PICK new \in Futures : new = submitted + 1 /\ pc[new] = "none"
      BY <2>1, NewFuture DEF Launch, Submit
    <3>1. todo[new] = {}
      BY <3>0 DEF Orderly, OrderlyAt
    <3>2. \A g \in Futures : g # new => cur'[g] = cur[g]
      BY <1>0, <2>1, <3>0 DEF Launch, Submit
    <3> QED
      BY <3>1, <3>2
  <2>2. CASE UNCHANGED cur
    BY <2>2
  <2> QED
    BY <2>1, <2>2 DEF Main, Enlist, IsRunLen, IsRunWait, IsRunWaited, IsRunCompare, Handle,
       Cleanup, Disconnect, Cancel, Forget, Rest, vars, threads
<1> QED
  BY <1>0, <1>1, <1>2, <1>3, ServedQuiet

LEMMA LostInit == Init => LostInv
<1> SUFFICES ASSUME Init PROVE LostInv
  OBVIOUS
<1>1. /\ objs = <<Object(Start, {})>> /\ Len(objs) = 1 /\ main.pc = "launch"
      /\ \A f \in Futures : pc[f] = "none" /\ todo[f] = {} /\ chosen[f] = {}
  BY DEF Init
<1>2. ~ HasRun(objs[1]) /\ ~ objs[1].ended
  BY <1>1 DEF Object, HasRun
<1>3. \A i \in 1 .. Len(objs) : i = 1
  BY <1>1
<1>4. Orderly
  BY <1>1 DEF Orderly, OrderlyAt
<1>5. Runs /\ Ends /\ OrServed
  BY <1>1, <1>2, <1>3 DEF Runs, Waits, Ends, OrServed
<1>6. AndServed
  <2>1. \A e : ~ Took(e)
    BY <1>2, <1>3 DEF Took
  <2> QED
    BY <2>1 DEF AndServed
<1> QED
  BY <1>4, <1>5, <1>6 DEF LostInv

LEMMA LostStep ==
    ASSUME EndInv, EndInv', JoinInv, Kept, LostInv, [Next]_vars
    PROVE  LostInv'
<1>1. ASSUME NEW f \in Futures, Thread(f) PROVE LostInv'
  BY <1>1, OrderlyThread, RunsThread, EndsThread, ServedThread DEF LostInv, EndInv
<1>2. CASE Main \/ Disconnect \/ Cancel \/ Forget \/ Rest \/ UNCHANGED vars
  BY <1>2, OrderlyMain, RunsMain, ServedMain DEF LostInv, EndInv
<1> QED
  BY <1>1, <1>2 DEF Next

\* No wake-up is lost, on any graph and with any interleaving of the threads: two
\* predecessors that end together may both find the other one and both go on, but never
\* does each leave the node to the other.  Each edge to a node with OR is served on its own.
THEOREM NoNodeLost == Spec => []NoLostNode
<1>1. EndInv /\ LostInv => NoLostNode
  BY ServedIsEnough DEF EndInv
<1>2. EndInv /\ EndInv' /\ JoinInv /\ Kept /\ LostInv /\ [Next]_vars => LostInv'
  BY LostStep
<1> QED
  BY <1>1, <1>2, EndInit, EndStep, JoinInit, JoinStep, KeptInit, KeptStep, LostInit, PTL DEF Spec
=============================================================================
