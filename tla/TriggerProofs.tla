--------------------------- MODULE TriggerProofs ---------------------------
(***************************************************************************)
(* Theorems about Trigger, for every set of triggers, requests and         *)
(* workers.  What the scheduler runs depends on the requests only through  *)
(* the messages they send: the argument says nothing of the rows.          *)
(***************************************************************************)
EXTENDS Trigger, TLAPS

-----------------------------------------------------------------------------
(* The inductive invariant, one trigger at a time.                         *)

\* Places in the queue of the messages of a trigger.
Waiting(t) == {i \in 1..Len(queue) : queue[i].trigger = t}

\* The last of them is the last that was sent.
LastWaits(t) ==
    \A i \in Waiting(t) : (\A k \in Waiting(t) : k <= i) => queue[i].jobs = last[t]

\* What a worker that is alone on a trigger has done: removed all it has not still to
\* remove, added all it has not still to add.
Progress(t, w) ==
    /\ worker[w].pc = "remove" => jobs[t] \subseteq worker[w].found
    /\ worker[w].pc = "add" => jobs[t] \cup worker[w].found = worker[w].message.jobs

InHand(t) ==
    t \notin tangled =>
        /\ \A v, w \in At(t) : v = w
        /\ \A w \in At(t) : Progress(t, w)
        /\ Waiting(t) = {} => \A w \in At(t) : worker[w].message.jobs = last[t]
        /\ Waiting(t) = {} /\ At(t) = {} => jobs[t] = last[t]

Shape ==
    /\ \E S : queue \in Seq(S)
    /\ jobs = [t \in Triggers |-> jobs[t]] /\ last = [t \in Triggers |-> last[t]]
    /\ worker = [w \in Workers |-> worker[w]]

IInv == Shape /\ \A t \in Triggers : LastWaits(t) /\ InHand(t)

LEMMA InvariantIsEnough == IInv => JobsAreTheLastMessage
<1> SUFFICES ASSUME IInv, NEW t \in Triggers, Handled(t), t \notin tangled
             PROVE  jobs[t] = last[t]
  BY DEF JobsAreTheLastMessage
<1>1. At(t) = {} /\ Waiting(t) = {}
  BY DEF Handled, Waiting
<1> QED
  BY <1>1 DEF IInv, InHand

-----------------------------------------------------------------------------
(* The kinds of steps.                                                     *)

LEMMA IInit == Init => IInv
<1> SUFFICES ASSUME Init PROVE IInv
  OBVIOUS
<1>1. /\ queue = <<>> /\ last = jobs /\ worker = [w \in Workers |-> Idle]
      /\ \E f : jobs = [t \in Triggers |-> f[t]]
  <2>1. PICK D \in SUBSET Triggers, b \in Creations :
            /\ queue = <<>> /\ last = jobs /\ worker = [w \in Workers |-> Idle]
            /\ jobs = [t \in Triggers |-> JobsOf(trig[t], tasks[t])]
    BY DEF Init
  <2> DEFINE f == [t \in Triggers |-> JobsOf(trig[t], tasks[t])]
  <2>2. jobs = [t \in Triggers |-> f[t]]
    BY <2>1
  <2> HIDE DEF f
  <2> QED
    BY <2>1, <2>2
<1>2. queue \in Seq({}) /\ Len(queue) = 0
  BY <1>1
<1>3. Shape
  BY <1>1, <1>2 DEF Shape
<1>4. ASSUME NEW t \in Triggers PROVE Waiting(t) = {} /\ At(t) = {}
  BY <1>1, <1>2 DEF Waiting, At, Idle
<1> QED
  BY <1>1, <1>3, <1>4 DEF IInv, LastWaits, InHand

\* Nothing of the scheduler changes.
LEMMA QuietStep ==
    ASSUME IInv, UNCHANGED <<celery, last, tangled>>
    PROVE  IInv'
<1>1. UNCHANGED <<queue, jobs, worker, last, tangled>>
  BY DEF celery
<1>2. ASSUME NEW t \in Triggers
      PROVE  /\ Waiting(t)' = Waiting(t) /\ At(t)' = At(t)
             /\ \A w : Progress(t, w) => Progress(t, w)'
  BY <1>1 DEF Waiting, At, Progress
<1>3. Shape'
  BY <1>1 DEF IInv, Shape
<1>4. ASSUME NEW t \in Triggers PROVE LastWaits(t)' /\ InHand(t)'
  <2>1. LastWaits(t) /\ InHand(t)
    BY DEF IInv
  <2> QED
    BY <1>1, <1>2, <2>1 DEF LastWaits, InHand
<1> QED
  BY <1>3, <1>4 DEF IInv

\* A request sends a message.
LEMMA SendStep ==
    ASSUME IInv, NEW t, NEW js, Send(t, js), UNCHANGED <<jobs, worker, tangled>>
    PROVE  IInv'
<1> DEFINE m == [trigger |-> t, jobs |-> js]
           n == Len(queue) + 1
<1>0. PICK S : queue \in Seq(S)
  BY DEF IInv, Shape
<1>1. /\ queue' \in Seq(S \cup {m}) /\ Len(queue) \in Nat /\ Len(queue') = n
      /\ queue'[n] = m /\ \A i \in 1..Len(queue) : queue'[i] = queue[i]
  <2>1. queue \in Seq(S \cup {m}) /\ queue' = Append(queue, m)
    BY <1>0 DEF Send
  <2> HIDE DEF m
  <2> QED
    BY <2>1
<1>2. \A x \in Triggers : last'[x] = IF x = t THEN js ELSE last[x]
  BY DEF Send, IInv, Shape
<1>3. Shape'
  <2>1. last' = [x \in Triggers |-> last'[x]]
    BY DEF Send, IInv, Shape
  <2> QED
    BY <1>1, <2>1 DEF IInv, Shape
<1>4. ASSUME NEW x \in Triggers, x # t
      PROVE  /\ Waiting(x)' = Waiting(x) /\ last'[x] = last[x]
             /\ \A i \in Waiting(x) : queue'[i] = queue[i]
  <2>1. m.trigger # x
    BY <1>4
  <2>2. Waiting(x)' = Waiting(x)
    <3>1. ASSUME NEW i PROVE i \in Waiting(x)' <=> i \in Waiting(x)
      <4> HIDE DEF m
      <4> QED
        BY <1>1, <2>1 DEF Waiting
    <3> QED
      BY <3>1
  <2> QED
    BY <1>1, <1>2, <1>4, <2>2 DEF Waiting
<1>5. ASSUME t \in Triggers
      PROVE  n \in Waiting(t)' /\ \A i \in Waiting(t)' : n <= i => i = n
  <2>1. m.trigger = t
    OBVIOUS
  <2> HIDE DEF m
  <2> QED
    BY <1>1, <2>1 DEF Waiting
<1>6. ASSUME NEW x PROVE At(x)' = At(x) /\ \A w : Progress(x, w) => Progress(x, w)'
  BY DEF At, Progress
<1>7. ASSUME NEW x \in Triggers PROVE LastWaits(x)' /\ InHand(x)'
  <2>0. LastWaits(x) /\ InHand(x)
    BY DEF IInv
  <2>1. CASE x # t
    BY <1>4, <1>6, <2>0, <2>1 DEF LastWaits, InHand
  <2>2. CASE x = t
    <3>1. LastWaits(t)'
      <4>1. ASSUME NEW i \in Waiting(t)', \A k \in Waiting(t)' : k <= i
            PROVE  queue'[i].jobs = last'[t]
        <5>1. i = n
          BY <1>5, <2>2, <4>1
        <5>2. queue'[n].jobs = js
          BY <1>1
        <5> QED
          BY <1>2, <2>2, <5>1, <5>2
      <4> QED
        BY <4>1 DEF LastWaits
    <3>2. InHand(t)'
      BY <1>5, <1>6, <2>0, <2>2 DEF InHand
    <3> QED
      BY <2>2, <3>1, <3>2
  <2> QED
    BY <2>1, <2>2
<1> QED
  BY <1>3, <1>7 DEF IInv

\* A worker takes the first message.  Alone on the trigger, it sets it right.
LEMMA TakeStep ==
    ASSUME IInv, NEW w \in Workers, Take(w)
    PROVE  IInv'
<1> DEFINE m == Head(queue)
           h == m.trigger
<1>0. PICK S : queue \in Seq(S) /\ queue # <<>>
  BY DEF IInv, Shape, Take
<1>1. /\ queue' \in Seq(S) /\ Len(queue) \in Nat \ {0} /\ Len(queue') = Len(queue) - 1
      /\ queue[1] = m /\ \A i \in 1..Len(queue') : queue'[i] = queue[i + 1]
  BY <1>0 DEF Take
<1>2. /\ worker'[w] = [pc |-> "list", message |-> m, found |-> {}]
      /\ \A v \in Workers \ {w} : worker'[v] = worker[v]
      /\ worker[w].pc = "idle" /\ UNCHANGED <<jobs, last>>
      /\ tangled' = IF At(h) = {} THEN tangled \ {h} ELSE tangled \cup {h}
  BY DEF Take, IInv, Shape
<1>3. Shape'
  <2>1. worker' = [v \in Workers |-> worker'[v]]
    BY DEF Take, IInv, Shape
  <2> QED
    BY <1>1, <1>2, <2>1 DEF IInv, Shape
<1> HIDE DEF m
<1>4. ASSUME NEW x
      PROVE  /\ \A i \in Waiting(x)' : i + 1 \in Waiting(x)
             /\ \A i \in Waiting(x) : i = 1 \/ i - 1 \in Waiting(x)'
             /\ x # h => 1 \notin Waiting(x)
             /\ x = h => 1 \in Waiting(x)
  BY <1>1 DEF Waiting
<1>5. ASSUME NEW x PROVE At(x)' = IF x = h THEN At(x) \cup {w} ELSE At(x)
  BY <1>2 DEF At
<1>6. ASSUME NEW x \in Triggers PROVE LastWaits(x)'
  <2>1. ASSUME NEW i \in Waiting(x)', \A k \in Waiting(x)' : k <= i
        PROVE  queue'[i].jobs = last'[x]
    <3>1. i + 1 \in Waiting(x) /\ i \in 1..Len(queue') /\ i \in Nat
      BY <1>1, <1>4 DEF Waiting
    <3>2. ASSUME NEW k \in Waiting(x) PROVE k <= i + 1
      <4>1. k \in Nat
        BY <1>1 DEF Waiting
      <4>2. k = 1 \/ k - 1 <= i
        BY <1>4, <2>1
      <4> QED
        BY <3>1, <4>1, <4>2
    <3>3. queue[i + 1].jobs = last[x]
      BY <3>1, <3>2 DEF IInv, LastWaits
    <3> QED
      BY <1>1, <1>2, <3>1, <3>3
  <2> QED
    BY <2>1 DEF LastWaits
<1>7. ASSUME NEW x \in Triggers PROVE InHand(x)'
  <2>0. LastWaits(x) /\ InHand(x)
    BY DEF IInv
  <2>1. CASE x # h
    <3>1. At(x)' = At(x) /\ w \notin At(x) /\ (x \in tangled' <=> x \in tangled)
      BY <1>2, <1>5, <2>1 DEF At
    <3>2. Waiting(x)' = {} => Waiting(x) = {}
      BY <1>4, <2>1
    <3>3. \A v \in At(x) : worker'[v] = worker[v]
      BY <1>2, <3>1 DEF At
    <3>4. \A v \in At(x) : Progress(x, v) => Progress(x, v)'
      BY <1>2, <3>3 DEF Progress
    <3> QED
      BY <1>2, <2>0, <3>1, <3>2, <3>3, <3>4 DEF InHand
  <2>2. CASE x = h /\ At(h) # {}
    BY <1>2, <2>2 DEF InHand
  <2>3. CASE x = h /\ At(h) = {}
    <3>1. At(x)' = {w} /\ Progress(x, w)'
      BY <1>2, <1>5, <2>3 DEF Progress
    <3>2. ASSUME Waiting(x)' = {} PROVE m.jobs = last[x]
      <4>1. 1 \in Waiting(x) /\ \A k \in Waiting(x) : k <= 1
        BY <1>4, <2>3, <3>2
      <4> QED
        BY <1>1, <2>0, <4>1 DEF LastWaits
    <3>3. worker'[w].message.jobs = m.jobs
      BY <1>2
    <3> QED
      BY <1>2, <3>1, <3>2, <3>3 DEF InHand
  <2> QED
    BY <2>1, <2>2, <2>3
<1> QED
  BY <1>3, <1>6, <1>7 DEF IInv

\* A worker does part of its message, and goes on to the rest.
LEMMA GoesStep ==
    ASSUME IInv, NEW w \in Workers, NEW pc \in {"remove", "add"}, NEW left, NEW t, NEW m,
           worker[w].pc # "idle", m = worker[w].message, t = m.trigger,
           worker' = [worker EXCEPT ![w] = Goes(m, pc, left)],
           jobs' = [x \in Triggers |-> jobs'[x]],
           \A x \in Triggers \ {t} : jobs'[x] = jobs[x],
           t \in Triggers \ tangled =>
               /\ pc = "remove" => jobs'[t] \subseteq left
               /\ pc = "add" => jobs'[t] \cup left = m.jobs,
           UNCHANGED <<queue, last, tangled>>
    PROVE  IInv'
<1>1. /\ worker'[w] = Goes(m, pc, left)
      /\ \A v \in Workers \ {w} : worker'[v] = worker[v]
      /\ worker' = [v \in Workers |-> worker'[v]]
  BY DEF IInv, Shape
<1>2. Shape'
  BY <1>1 DEF IInv, Shape
<1>3. ASSUME NEW x PROVE Waiting(x)' = Waiting(x)
  BY DEF Waiting
<1>4. ASSUME NEW x \in Triggers PROVE LastWaits(x)'
  <2>1. LastWaits(x)
    BY DEF IInv
  <2> QED
    BY <1>3, <2>1 DEF LastWaits
<1>5. /\ Goes(m, pc, left).pc # "idle" => Goes(m, pc, left).message = m
      /\ left # {} => /\ Goes(m, pc, left).pc = pc /\ Goes(m, pc, left).found = left
      /\ left = {} /\ pc = "remove" /\ m.jobs # {} =>
            Goes(m, pc, left).pc = "add" /\ Goes(m, pc, left).found = m.jobs
      /\ left = {} /\ ~(pc = "remove" /\ m.jobs # {}) => Goes(m, pc, left).pc = "idle"
  BY DEF Goes, Idle
<1>6. ASSUME NEW x \in Triggers PROVE InHand(x)'
  <2>0. InHand(x)
    BY DEF IInv
  <2>1. CASE x # t
    <3>1. At(x)' = At(x) /\ w \notin At(x)
      BY <1>1, <1>5, <2>1 DEF At
    <3>2. \A v \in At(x) : worker'[v] = worker[v]
      BY <1>1, <3>1 DEF At
    <3>3. \A v \in At(x) : Progress(x, v) => Progress(x, v)'
      BY <2>1, <3>2 DEF Progress
    <3> QED
      BY <1>3, <2>0, <2>1, <3>1, <3>2, <3>3 DEF InHand
  <2>2. CASE x = t /\ t \notin tangled
    <3>1. w \in At(t) /\ (Waiting(t) = {} => m.jobs = last[t])
      BY <2>0, <2>2 DEF InHand, At
    <3>2. At(t) = {w}
      BY <2>0, <2>2, <3>1 DEF InHand
    <3>3. At(t)' \subseteq {w}
      BY <1>1, <3>2 DEF At
    <3>4. Progress(t, w)'
      BY <1>1, <1>5, <2>2 DEF Progress
    <3>5. ASSUME At(t)' = {} PROVE jobs'[t] = m.jobs
      <4>1. Goes(m, pc, left).pc = "idle"
        BY <1>1, <1>5, <3>5 DEF At
      <4>2. left = {} /\ (pc = "add" \/ m.jobs = {})
        BY <1>5, <4>1
      <4> QED
        BY <2>2, <4>2
    <3>6. At(t)' # {} => worker'[w].message = m
      BY <1>1, <1>5, <3>3 DEF At
    <3> QED
      BY <1>3, <2>2, <3>1, <3>3, <3>4, <3>5, <3>6 DEF InHand
  <2>3. CASE x = t /\ t \in tangled
    BY <2>3 DEF InHand
  <2> QED
    BY <2>1, <2>2, <2>3
<1> QED
  BY <1>2, <1>4, <1>6 DEF IInv

LEMMA WorkerKeeps ==
    ASSUME IInv, NEW w \in Workers, ListJobs(w) \/ RemoveJob(w) \/ AddJob(w)
    PROVE  IInv'
<1> DEFINE m == worker[w].message
<1>0. jobs = [x \in Triggers |-> jobs[x]]
  BY DEF IInv, Shape
<1>1. ASSUME worker[w].pc # "idle", m.trigger \in Triggers \ tangled PROVE Progress(m.trigger, w)
  BY <1>1 DEF IInv, InHand, At
<1>2. CASE ListJobs(w)
  <2>1. /\ worker[w].pc = "list" /\ UNCHANGED <<queue, jobs, last, tangled>>
        /\ worker' = [worker EXCEPT ![w] = Goes(m, "remove", jobs[m.trigger])]
    BY <1>2 DEF ListJobs
  <2> QED
    BY <1>0, <2>1, GoesStep
<1>3. CASE RemoveJob(w)
  <2>1. PICK j \in worker[w].found :
          /\ jobs' = [jobs EXCEPT ![m.trigger] = @ \ {j}]
          /\ worker' = [worker EXCEPT ![w] = Goes(m, "remove", @.found \ {j})]
    BY <1>3 DEF RemoveJob
  <2>2. /\ worker[w].pc = "remove" /\ UNCHANGED <<queue, last, tangled>>
        /\ worker' = [worker EXCEPT ![w] = Goes(m, "remove", worker[w].found \ {j})]
    BY <1>3, <2>1 DEF RemoveJob, IInv, Shape
  <2>3. /\ jobs' = [x \in Triggers |-> jobs'[x]]
        /\ \A x \in Triggers \ {m.trigger} : jobs'[x] = jobs[x]
        /\ m.trigger \in Triggers => jobs'[m.trigger] = jobs[m.trigger] \ {j}
    BY <1>0, <2>1
  <2>4. m.trigger \in Triggers \ tangled => jobs'[m.trigger] \subseteq worker[w].found \ {j}
    BY <1>1, <2>2, <2>3 DEF Progress
  <2> QED
    BY <2>2, <2>3, <2>4, GoesStep
<1>4. CASE AddJob(w)
  <2>1. PICK j \in worker[w].found :
          /\ jobs' = [jobs EXCEPT ![m.trigger] = @ \cup {j}]
          /\ worker' = [worker EXCEPT ![w] = Goes(m, "add", @.found \ {j})]
    BY <1>4 DEF AddJob
  <2>2. /\ worker[w].pc = "add" /\ UNCHANGED <<queue, last, tangled>>
        /\ worker' = [worker EXCEPT ![w] = Goes(m, "add", worker[w].found \ {j})]
    BY <1>4, <2>1 DEF AddJob, IInv, Shape
  <2>3. /\ jobs' = [x \in Triggers |-> jobs'[x]]
        /\ \A x \in Triggers \ {m.trigger} : jobs'[x] = jobs[x]
        /\ m.trigger \in Triggers => jobs'[m.trigger] = jobs[m.trigger] \cup {j}
    BY <1>0, <2>1
  <2>4. m.trigger \in Triggers \ tangled =>
            jobs'[m.trigger] \cup (worker[w].found \ {j}) = m.jobs
    BY <1>1, <2>1, <2>2, <2>3 DEF Progress
  <2> QED
    BY <2>2, <2>3, <2>4, GoesStep
<1> QED
  BY <1>2, <1>3, <1>4

LEMMA WorkerDiesKeeps ==
    ASSUME IInv, NEW w \in Workers, WorkerDies(w)
    PROVE  IInv'
<1> DEFINE t == worker[w].message.trigger
<1>1. /\ worker'[w].pc = "idle" /\ \A v \in Workers \ {w} : worker'[v] = worker[v]
      /\ worker' = [v \in Workers |-> worker'[v]]
      /\ UNCHANGED <<queue, jobs, last>> /\ tangled' = tangled \cup {t}
  BY DEF WorkerDies, IInv, Shape, Idle
<1>2. Shape'
  BY <1>1 DEF IInv, Shape
<1>3. ASSUME NEW x PROVE Waiting(x)' = Waiting(x)
  BY <1>1 DEF Waiting
<1>4. ASSUME NEW x \in Triggers PROVE LastWaits(x)' /\ InHand(x)'
  <2>0. LastWaits(x) /\ InHand(x)
    BY DEF IInv
  <2>1. LastWaits(x)'
    BY <1>1, <1>3, <2>0 DEF LastWaits
  <2>2. CASE x = t
    BY <1>1, <2>1, <2>2 DEF InHand
  <2>3. CASE x # t
    <3>1. At(x)' = At(x) /\ \A v \in At(x) : worker'[v] = worker[v]
      BY <1>1, <2>3 DEF At
    <3>2. \A v \in At(x) : Progress(x, v) => Progress(x, v)'
      BY <1>1, <3>1 DEF Progress
    <3> QED
      BY <1>1, <1>3, <2>0, <2>1, <3>1, <3>2 DEF InHand
  <2> QED
    BY <2>2, <2>3
<1> QED
  BY <1>2, <1>4 DEF IInv

\* Requests and runs reach the scheduler by one message, or not at all.
LEMMA RequestKeeps ==
    ASSUME IInv, NEW u \in Users, NewRequest(u) \/ UserStep(u)
    PROVE  IInv'
<1>1. ASSUME NEW t, NEW row, NEW ts, Deploy(t, row, ts), UNCHANGED <<jobs, worker, tangled>>
      PROVE  IInv'
  BY <1>1, SendStep, QuietStep DEF Deploy, celery
<1>2. ASSUME NEW t, Undeploy(t), UNCHANGED <<jobs, worker, tangled>>
      PROVE  IInv'
  BY <1>2, SendStep DEF Undeploy
<1>3. ASSUME UNCHANGED <<queue, last>>, UNCHANGED <<jobs, worker, tangled>>
      PROVE  IInv'
  BY <1>3, QuietStep DEF celery
<1>4. ASSUME NEW t \in Triggers, NEW b \in Creations, Insert(u, t, b) PROVE IInv'
  BY <1>1, <1>3, <1>4 DEF Insert
<1>5. ASSUME NEW t \in Triggers, NEW b \in Edits, Edit(u, t, b) PROVE IInv'
  BY <1>5, QuietStep DEF Edit
<1>6. ASSUME NEW t \in Triggers, NEW b \in BOOLEAN, Switch(u, t, b) PROVE IInv'
  BY <1>6, QuietStep DEF Switch
<1>7. ASSUME NEW t \in Triggers, NEW op, Delete(u, t, op) PROVE IInv'
  BY <1>2, <1>7 DEF Delete
<1>8. ASSUME NEW t \in Triggers, NEW s \in Sources, SourceDelete(u, t, s) PROVE IInv'
  BY <1>2, <1>8 DEF SourceDelete
<1>9. ASSUME NEW s \in Sources, AppDelete(u, s) PROVE IInv'
  BY <1>9, QuietStep DEF AppDelete
<1>10. CASE EditSend(u)
  BY <1>1, <1>2, <1>3, <1>10 DEF EditSend
<1>11. CASE Deliver(u)
  BY <1>1, <1>2, <1>3, <1>11 DEF Deliver
<1>12. CASE \/ EditSave(u) \/ SwitchSend(u) \/ ReadTasks(u) \/ Commit(u) \/ DeleteTasks(u)
            \/ DeleteRow(u) \/ AppSelect(u) \/ AppTasks(u) \/ AppRow(u)
  BY <1>12, QuietStep DEF EditSave, SwitchSend, ReadTasks, Commit, DeleteTasks, DeleteRow,
                          AppSelect, AppTasks, AppRow
<1> QED
  BY <1>4, <1>5, <1>6, <1>7, <1>8, <1>9, <1>10, <1>11, <1>12 DEF NewRequest, UserStep

LEMMA INext == IInv /\ [Next]_vars => IInv'
<1> SUFFICES ASSUME IInv, [Next]_vars PROVE IInv'
  OBVIOUS
<1>1. ASSUME NEW u \in Users, NewRequest(u) \/ UserStep(u) PROVE IInv'
  BY <1>1, RequestKeeps
<1>2. ASSUME NEW w \in Workers, WorkerStep(w) \/ WorkerDies(w) PROVE IInv'
  BY <1>2, TakeStep, WorkerKeeps, WorkerDiesKeeps DEF WorkerStep
<1>3. ASSUME NEW r \in Runs, RunStep(r) \/ RunDies(r) PROVE IInv'
  BY <1>3, QuietStep DEF RunStep, RunSource, RunRecord, RunEnd, RunDies
<1>4. ASSUME NEW r \in Runs, NEW t \in Triggers, NEW j \in Jobs, Fire(r, t, j) PROVE IInv'
  BY <1>4, QuietStep DEF Fire
<1>5. CASE Rest \/ UNCHANGED vars
  BY <1>5, QuietStep DEF Rest, vars, celery
<1> QED
  BY <1>1, <1>2, <1>3, <1>4, <1>5 DEF Next

\* Whatever requests send and however many workers carry it out: when the messages of a
\* trigger have been handled, the last one alone and to its end, the scheduler has the jobs
\* of the last message and no others.
THEOREM SchedulerFollowsTheLastMessage == Spec => []JobsAreTheLastMessage
BY IInit, INext, InvariantIsEnough, PTL DEF Spec

=============================================================================
