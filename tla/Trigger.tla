------------------------------ MODULE Trigger ------------------------------
(***************************************************************************)
(* Scheduled triggers: the web requests that create, edit, switch and      *)
(* delete them or delete the applications they run, the Celery messages by *)
(* which these requests deploy and undeploy, the Celery workers that carry *)
(* the messages out on the one store of APScheduler jobs, and the runs of  *)
(* the jobs with their task records.                                       *)
(*                                                                         *)
(* A message carries the jobs the deployers would add; none means          *)
(* undeploy.  A request is one database transaction, sending its message   *)
(* before it commits, except the deletions of one trigger and of one       *)
(* application, which are not in one.  Workers take messages in the order  *)
(* in which they were sent and work at the same time.                      *)
(*                                                                         *)
(* History variables: last is the message sent last for a trigger; tangled *)
(* and astray name what can have come between the jobs and that message,   *)
(* and between that message and the rows.                                  *)
(***************************************************************************)
EXTENDS Naturals, FiniteSets, Sequences

CONSTANTS
    Triggers,       \* trigger ids
    Sources,        \* applications that triggers run
    Schedules,      \* trigger_setting values of trigger_type SCHEDULED
    Event,          \* the setting of a trigger of trigger_type EVENT
    Creations,      \* bodies of a create request
    Edits,          \* bodies of an edit request, Keep for a field left out
    Keep,
    Users,          \* web requests that can be in progress at once
    Workers,        \* Celery workers
    Runs,           \* executions of jobs that can be under way at once
    Ops,            \* which requests and faults happen in this instance
    MaxRequests     \* bound: requests and faults per behaviour

Settings == Schedules \cup {Event}

\* A TriggerTask row of a trigger and a source: none, or its is_active.
TaskRow == {"gone", "on", "off"}

Jobs == Sources \X Schedules

ASSUME Constants ==
    /\ Triggers # {} /\ Sources # {}
    /\ Event \notin Schedules
    /\ Keep \notin Settings /\ \A S \in SUBSET Sources : Keep # S
    /\ Creations \subseteq [active : BOOLEAN, setting : Settings,
                            tasks : (SUBSET Sources) \ {{}}]
    /\ Edits \subseteq [active : {Keep} \cup BOOLEAN, setting : {Keep} \cup Settings,
                        tasks : {Keep} \cup ((SUBSET Sources) \ {{}})]
    /\ MaxRequests \in Nat

VARIABLES
    trig,       \* trigger -> its row
    tasks,      \* trigger -> its TriggerTask rows
    app,        \* source -> the application exists
    queue,      \* the Celery queue
    jobs,       \* trigger -> its jobs in the DjangoJobStore
    user,       \* user -> the request in progress
    worker,     \* worker -> the message in hand
    run,        \* run -> the execution of a job, with its TaskRecord
    last,       \* trigger -> the jobs of the message sent last
    tangled,    \* triggers whose last messages were not handled one by one
    astray,     \* triggers whose rows changed without a message that says so
    requests    \* requests and faults so far

rows == <<trig, tasks, app>>
celery == <<queue, jobs, worker>>
vars == <<trig, tasks, app, queue, jobs, user, worker, run, last, tangled, astray, requests>>

-----------------------------------------------------------------------------
(* Types.                                                                  *)

TrigRow == [state : {"new", "live", "gone"}, active : BOOLEAN, setting : Settings]

Messages == [trigger : Triggers, jobs : SUBSET Jobs]

UserPcs == {"idle", "save", "send", "commit", "select", "tasks", "row", "deploy", "deliver"}

\* Bodies are records with Keep in them, which no set of types tells from the rest.
UserType(u) ==
    /\ user[u].pc \in UserPcs
    /\ user[u].op \in {"none", "insert", "edit", "rename", "retask", "switch", "reswitch",
                       "delete", "batch_delete", "source_delete", "app_delete"}
    /\ user[u].trigs \subseteq Triggers
    /\ user[u].row \in TrigRow
    /\ user[u].tasks \in [Sources -> TaskRow]
    /\ user[u].locks \in BOOLEAN

TypeOK ==
    /\ trig \in [Triggers -> TrigRow]
    /\ tasks \in [Triggers -> [Sources -> TaskRow]]
    /\ app \in [Sources -> BOOLEAN]
    /\ queue \in Seq(Messages)
    /\ jobs \in [Triggers -> SUBSET Jobs]
    /\ \A u \in Users : UserType(u)
    /\ worker \in [Workers -> [pc : {"idle", "list", "remove", "add"}, message : Messages,
                               found : SUBSET Jobs]]
    /\ run \in [Runs -> [pc : {"none", "source", "record", "chat", "killed"},
                         trigger : Triggers, source : Sources, started : BOOLEAN]]
    /\ last \in [Triggers -> SUBSET Jobs]
    /\ tangled \subseteq Triggers /\ astray \subseteq Triggers
    /\ requests \in Nat

NoTasks == [s \in Sources |-> "gone"]

NoRow == [state |-> "new", active |-> FALSE, setting |-> Event]

\* trigs: the triggers the request is about; body: what it asks for; row and tasks: what
\* it has read or is about to commit; locks: it holds the row's lock.
NoRequest ==
    [pc |-> "idle", op |-> "none", trigs |-> {}, body |-> Keep, row |-> NoRow,
     tasks |-> NoTasks, locks |-> FALSE]

NoMessage == [trigger |-> CHOOSE t \in Triggers : TRUE, jobs |-> {}]

Idle == [pc |-> "idle", message |-> NoMessage, found |-> {}]

\* started: its TaskRecord is there and says STARTED.
NoRun ==
    [pc |-> "none", trigger |-> CHOOSE t \in Triggers : TRUE,
     source |-> CHOOSE s \in Sources : TRUE, started |-> FALSE]

-----------------------------------------------------------------------------
(* Deploying.                                                              *)

\* The jobs of a trigger: ScheduledTrigger.deploy and the deployers.
JobsOf(row, ts) ==
    IF row.state = "live" /\ row.active /\ row.setting # Event
    THEN {s \in Sources : ts[s] = "on"} \X {row.setting}
    ELSE {}

\* Mutant: a source that is gone has no status.
TaskRowsFound(S, present) ==
    [s \in Sources |-> IF s \notin S THEN "gone" ELSE IF s \in present THEN "on" ELSE "none"]

\* New tasks: batch_get_source_active_status, where a source that is gone counts as FALSE.
TaskRows(S, present) ==
    [s \in Sources |-> IF s \notin S THEN "gone" ELSE IF s \in present THEN "on" ELSE "off"]

Present == {s \in Sources : app[s]}

\* Mutant: a message that brings no jobs is not sent.
SendJobs(t, js) ==
    /\ queue' = IF js = {} THEN queue ELSE Append(queue, [trigger |-> t, jobs |-> js])
    /\ last' = [last EXCEPT ![t] = js]

Send(t, js) ==
    /\ queue' = Append(queue, [trigger |-> t, jobs |-> js])
    /\ last' = [last EXCEPT ![t] = js]

\* simple_tools.deploy: a trigger of type EVENT has a handler that does nothing.
Deploy(t, row, ts) ==
    \/ row.setting # Event /\ Send(t, JobsOf(row, ts))
    \/ row.setting = Event /\ UNCHANGED <<queue, last>>

Undeploy(t) == Send(t, {})

\* Some triggers have been created and deployed before; nothing is under way.
Init ==
    \E D \in SUBSET Triggers, b \in Creations :
        LET row == [state |-> "live", active |-> b.active, setting |-> b.setting] IN
        /\ trig = [t \in Triggers |-> IF t \in D THEN row ELSE NoRow]
        /\ tasks = [t \in Triggers |-> IF t \in D THEN TaskRows(b.tasks, Sources) ELSE NoTasks]
        /\ app = [s \in Sources |-> TRUE]
        /\ queue = <<>>
        /\ jobs = [t \in Triggers |-> JobsOf(trig[t], tasks[t])]
        /\ user = [u \in Users |-> NoRequest]
        /\ worker = [w \in Workers |-> Idle]
        /\ run = [r \in Runs |-> NoRun]
        /\ last = jobs
        /\ tangled = {} /\ astray = {}
        /\ requests = 0

-----------------------------------------------------------------------------
(* History.                                                                *)

InProgress(t) == {u \in Users : t \in user[u].trigs}

Redeploys(body) == body.active # Keep \/ body.setting # Keep

\* Requests that leave the rows of a trigger and its last message in step when they meet:
\* those that send what they write while they hold the lock of the row; those that change
\* neither is_active nor the schedule, if no task goes after one has read the tasks and
\* before it has sent them; those that leave nothing to deploy, with a rename.
Groups ==
    {{"edit", "switch"}, {"rename", "reswitch", "app_delete"},
     {"rename", "delete", "batch_delete"}}

Compatible(mine, theirs) == \E G \in Groups : {mine, theirs} \subseteq G

\* What a request on the triggers T does to astray: one that changes rows and sends
\* nothing, or sends what the rows do not say, or meets another, leads a trigger astray;
\* one that sends all anew and meets no other sets it right.
Astray(u, op, T, sends) ==
    LET others == [t \in T |-> InProgress(t) \ {u}]
        met == {t \in T : \E v \in others[t] : ~Compatible(op, user[v].op)} IN
    IF op \in {"retask", "source_delete"} THEN astray \cup T
    ELSE (astray \ {t \in T : sends /\ others[t] = {}}) \cup met

-----------------------------------------------------------------------------
(* Requests.                                                               *)

Arrive(u, op, kind) ==
    /\ op \in Ops /\ requests < MaxRequests
    /\ user[u].pc = "idle"
    /\ requests' = requests + 1
    /\ kind \in {"insert", "edit", "rename", "retask", "switch", "reswitch", "delete",
                 "batch_delete", "source_delete", "app_delete"}

Request(pcs, op, t) == [NoRequest EXCEPT !.pc = pcs, !.op = op, !.trigs = {t}]

RowLocked(t) == \E v \in InProgress(t) : user[v].locks

\* trigger_task is in the body.
BringsTasks(r) == r.op \in {"insert", "edit", "retask"} /\ r.body.tasks # Keep

\* Task rows that a transaction has deleted or replaced and not committed.  (The tasks of
\* a deleted application go without waiting: the new rows of an edit survive either way.)
TasksLocked(t) ==
    \E v \in InProgress(t) :
        user[v].op = "source_delete" \/ (user[v].locks /\ BringsTasks(user[v]))

Leave(u) == user' = [user EXCEPT ![u] = NoRequest]

\* TriggerSerializer.insert: row, tasks and message; nobody sees the row until Commit.
Insert(u, t, b) ==
    LET row == [state |-> "live", active |-> b.active, setting |-> b.setting] IN
    /\ trig[t].state = "new" /\ InProgress(t) = {}
    /\ Arrive(u, "insert", "insert")
    /\ \/ b.active /\ Deploy(t, row, TaskRows(b.tasks, Present))
       \/ ~b.active /\ UNCHANGED <<queue, last>>
    /\ user' = [user EXCEPT ![u] =
                    [Request("commit", "insert", t) EXCEPT
                        !.body = b, !.row = row, !.tasks = TaskRows(b.tasks, Present), !.locks = TRUE]]
    /\ UNCHANGED <<rows, jobs, worker, run, tangled, astray>>

\* TriggerOperateSerializer.edit reads the row without a lock.
EditKind(b) ==
    IF Redeploys(b) THEN "edit" ELSE IF b.tasks = Keep THEN "rename" ELSE "retask"

Refused(t, b) == b.tasks = Keep /\ tasks[t] = NoTasks

Edit(u, t, b) ==
    /\ trig[t].state = "live"
    /\ Arrive(u, "edit", EditKind(b))
    /\ user' = [user EXCEPT ![u] = [Request("save", EditKind(b), t) EXCEPT
                                        !.body = b, !.row = trig[t]]]
    /\ astray' = Astray(u, EditKind(b), {t}, Redeploys(b) /\ ~Refused(t, b))
    /\ UNCHANGED <<rows, celery, run, last, tangled>>

\* save() writes every column, inserts a row that has been deleted, and locks it.  An
\* edit without tasks of a trigger that has none is refused.
EditSave(u) ==
    LET b == user[u].body
        t == CHOOSE x \in user[u].trigs : TRUE IN
    /\ user[u].pc = "save" /\ ~RowLocked(t)
    /\ b.tasks # Keep => ~TasksLocked(t)
    /\ \/ /\ Refused(t, b)
          /\ Leave(u)
       \/ /\ ~Refused(t, b)
          /\ user' = [user EXCEPT ![u].pc = "send", ![u].locks = TRUE,
                        ![u].row =
                            [state |-> "live",
                             active |-> IF b.active = Keep THEN @.active ELSE b.active,
                             setting |-> IF b.setting = Keep THEN @.setting ELSE b.setting],
                        ![u].tasks = IF b.tasks = Keep THEN @ ELSE TaskRows(b.tasks, Present)]
    /\ UNCHANGED <<rows, celery, run, last, tangled, astray, requests>>

\* Mutant: an edit that makes a trigger inactive, or an EVENT one, does not undeploy it.
EditDeploysOnly(u) ==
    LET deploys == Redeploys(user[u].body) /\ user[u].row.active IN
    /\ user[u].pc = "send" /\ user[u].op \in {"edit", "rename", "retask"}
    /\ user' = [user EXCEPT ![u].pc = IF deploys THEN "deploy" ELSE "commit"]
    /\ UNCHANGED <<rows, celery, run, last, tangled, astray, requests>>

\* The deployment begins; undeploying is a message at once.
EditSend(u) ==
    LET deploys == user[u].row.active /\ user[u].row.setting # Event
        t == CHOOSE x \in user[u].trigs : TRUE IN
    /\ user[u].pc = "send" /\ user[u].op \in {"edit", "rename", "retask"}
    /\ IF Redeploys(user[u].body) /\ ~deploys THEN Undeploy(t) ELSE UNCHANGED <<queue, last>>
    /\ user' = [user EXCEPT ![u].pc = IF Redeploys(user[u].body) /\ deploys THEN "deploy"
                                      ELSE "commit"]
    /\ UNCHANGED <<rows, jobs, worker, run, tangled, astray, requests>>

\* The trigger that a request deploys.
Target(u) ==
    IF user[u].op = "app_delete" THEN user[u].body ELSE CHOOSE x \in user[u].trigs : TRUE

\* ScheduledTrigger.deploy: _get_active_trigger_tasks, ...
ReadTasks(u) ==
    /\ user[u].pc = "deploy"
    /\ user' = [user EXCEPT ![u].pc = "deliver",
                            ![u].tasks = IF BringsTasks(user[u]) THEN @ ELSE tasks[Target(u)]]
    /\ UNCHANGED <<rows, celery, run, last, tangled, astray, requests>>

\* ... then the message.  A switch that undeploys has read no tasks.
Deliver(u) ==
    LET t == Target(u)
        off == user[u].op \in {"switch", "reswitch"} /\ ~user[u].body IN
    /\ user[u].pc = "deliver"
    /\ \/ off /\ Undeploy(t)
       \/ ~off /\ Deploy(t, user[u].row, user[u].tasks)
    /\ user' = IF user[u].op = "app_delete"
               THEN [user EXCEPT ![u].pc = "row", ![u].trigs = @ \ {t}]
               ELSE [user EXCEPT ![u].pc = "commit"]
    /\ UNCHANGED <<rows, jobs, worker, run, tangled, astray, requests>>

\* Batch.batch_switch of one trigger: UPDATE ... WHERE is_active = not the new value.  Only
\* a row that matches is locked.
Switch(u, t, b) ==
    LET kind == IF trig[t].active # b THEN "switch" ELSE "reswitch" IN
    /\ trig[t].state = "live"
    /\ kind = "switch" => ~RowLocked(t)
    /\ Arrive(u, "switch", kind)
    /\ user' = [user EXCEPT ![u] = [Request("send", kind, t) EXCEPT
                    !.body = b, !.row = [trig[t] EXCEPT !.active = b],
                    !.locks = (kind = "switch")]]
    /\ astray' = Astray(u, kind, {t}, ~b \/ trig[t].setting # Event)
    /\ UNCHANGED <<rows, celery, run, last, tangled>>

\* The row is read again; one that has been deleted makes the request fail.
SwitchSend(u) ==
    LET t == CHOOSE x \in user[u].trigs : TRUE
        row == IF user[u].locks THEN user[u].row ELSE trig[t] IN
    /\ user[u].pc = "send" /\ user[u].op \in {"switch", "reswitch"}
    /\ \/ /\ row.state = "live"
          /\ user' = [user EXCEPT ![u].pc = IF user[u].body THEN "deploy" ELSE "deliver",
                                  ![u].row = row]
       \/ /\ row.state # "live"
          /\ Leave(u)
    /\ UNCHANGED <<rows, celery, run, last, tangled, astray, requests>>

\* Records go with their trigger; only those of runs under way matter here.
WithoutRecords(t) ==
    [r \in Runs |-> [run[r] EXCEPT !.started = @ /\ run[r].trigger # t]]

Commit(u) ==
    LET t == CHOOSE x \in user[u].trigs : TRUE
        row == user[u].row IN
    /\ user[u].pc = "commit"
    /\ trig' = [trig EXCEPT ![t] = IF user[u].locks THEN row ELSE @]
    /\ tasks' =
        [tasks EXCEPT ![t] =
            IF BringsTasks(user[u]) THEN user[u].tasks
            ELSE IF user[u].op = "source_delete"
            THEN [s \in Sources |-> IF user[u].locks \/ s = user[u].body THEN "gone" ELSE @[s]]
            ELSE @]
    /\ run' = IF user[u].locks /\ row.state = "gone" THEN WithoutRecords(t) ELSE run
    /\ Leave(u)
    /\ UNCHANGED <<app, celery, last, tangled, astray, requests>>

\* TriggerOperateSerializer.delete, in no transaction: undeploy, then records and tasks,
\* then the row.  batch_delete does the same in one.
Delete(u, t, op) ==
    /\ op \in {"delete", "batch_delete"}
    /\ trig[t].state = "live"
    /\ Arrive(u, op, op)
    /\ Undeploy(t)
    /\ user' = [user EXCEPT ![u] = Request(IF op = "delete" THEN "tasks" ELSE "row", op, t)]
    /\ astray' = Astray(u, op, {t}, TRUE)
    /\ UNCHANGED <<rows, jobs, worker, run, tangled>>

DeleteTasks(u) ==
    LET t == CHOOSE x \in user[u].trigs : TRUE IN
    /\ user[u].pc = "tasks" /\ user[u].op = "delete"
    /\ tasks' = [tasks EXCEPT ![t] = NoTasks]
    /\ run' = WithoutRecords(t)
    /\ user' = [user EXCEPT ![u].pc = "row"]
    /\ UNCHANGED <<trig, app, celery, last, tangled, astray, requests>>

DeleteRow(u) ==
    LET t == CHOOSE x \in user[u].trigs : TRUE IN
    /\ user[u].pc = "row" /\ user[u].op \in {"delete", "batch_delete"} /\ ~RowLocked(t)
    /\ trig' = [trig EXCEPT ![t].state = "gone"]
    /\ tasks' = [tasks EXCEPT ![t] = NoTasks]
    /\ run' = WithoutRecords(t)
    /\ Leave(u)
    /\ UNCHANGED <<app, celery, last, tangled, astray, requests>>

\* TaskSourceTriggerOperateSerializer.delete: one task goes, and the trigger with the last
\* one; the message undeploys the others too.
SourceDelete(u, t, s) ==
    LET final == \A r \in Sources \ {s} : tasks[t][r] = "gone" IN
    /\ trig[t].state = "live" /\ tasks[t][s] # "gone"
    /\ ~TasksLocked(t) /\ (final => ~RowLocked(t))
    /\ Arrive(u, "source_delete", "source_delete")
    /\ Undeploy(t)
    /\ user' = [user EXCEPT ![u] = [Request("commit", "source_delete", t) EXCEPT
                    !.body = s, !.row = [trig[t] EXCEPT !.state = "gone"], !.locks = final]]
    /\ astray' = Astray(u, "source_delete", {t}, FALSE)
    /\ UNCHANGED <<rows, jobs, worker, run, tangled>>

\* ApplicationOperateSerializer.delete, in no transaction: the application, then the ids of
\* the triggers that run it, then these tasks, then for each of the ids a deployment.
AppDelete(u, s) ==
    /\ app[s]
    /\ Arrive(u, "app_delete", "app_delete")
    /\ app' = [app EXCEPT ![s] = FALSE]
    /\ user' = [user EXCEPT ![u] = [NoRequest EXCEPT !.pc = "select", !.op = "app_delete",
                                                    !.body = s]]
    /\ UNCHANGED <<trig, tasks, celery, run, last, tangled, astray>>

AppSelect(u) ==
    LET T == {t \in Triggers : tasks[t][user[u].body] # "gone"} IN
    /\ user[u].pc = "select"
    /\ user' = [user EXCEPT ![u].pc = "tasks", ![u].trigs = T]
    /\ astray' = Astray(u, "app_delete", T, FALSE)
    /\ UNCHANGED <<rows, celery, run, last, tangled, requests>>

\* Triggers that lose a task unnoticed: it came after the ids were read, or somebody has
\* read the tasks and not sent them.
Unnoticed(u, s) ==
    {t \in Triggers :
        /\ tasks[t][s] # "gone"
        /\ \/ t \notin user[u].trigs
           \/ \E v \in InProgress(t) \ {u} : user[v].pc = "deliver" /\ Target(v) = t}

AppTasks(u) ==
    LET s == user[u].body IN
    /\ user[u].pc = "tasks" /\ user[u].op = "app_delete"
    /\ tasks' = [t \in Triggers |-> [tasks[t] EXCEPT ![s] = "gone"]]
    /\ user' = [user EXCEPT ![u].pc = "row"]
    /\ astray' = astray \cup Unnoticed(u, s)
    /\ UNCHANGED <<trig, app, celery, run, last, tangled, requests>>

AppRow(u) ==
    /\ user[u].pc = "row" /\ user[u].op = "app_delete"
    /\ \/ /\ user[u].trigs = {}
          /\ Leave(u)
       \/ \E t \in user[u].trigs :
            \/ /\ trig[t].state = "live" /\ trig[t].active
               /\ user' = [user EXCEPT ![u].pc = "deploy", ![u].body = t, ![u].row = trig[t]]
            \/ /\ ~(trig[t].state = "live" /\ trig[t].active)
               /\ user' = [user EXCEPT ![u].trigs = @ \ {t}]
    /\ UNCHANGED <<rows, celery, run, last, tangled, astray, requests>>

-----------------------------------------------------------------------------
(* Celery workers: deploy_scheduled_trigger and _remove_trigger_jobs.      *)

At(t) == {w \in Workers : worker[w].pc # "idle" /\ worker[w].message.trigger = t}

Take(w) ==
    LET t == Head(queue).trigger IN
    /\ worker[w].pc = "idle" /\ queue # <<>>
    /\ queue' = Tail(queue)
    /\ worker' = [worker EXCEPT ![w] = [pc |-> "list", message |-> Head(queue), found |-> {}]]
    /\ tangled' = IF At(t) = {} THEN tangled \ {t} ELSE tangled \cup {t}
    /\ UNCHANGED <<rows, jobs, user, run, last, astray, requests>>

\* What a worker does next, with left still to remove or to add: first the jobs it found
\* are removed, then those of the message are added, then it is idle.
Goes(m, pc, left) ==
    IF left # {} THEN [pc |-> pc, message |-> m, found |-> left]
    ELSE IF pc = "remove" /\ m.jobs # {} THEN [pc |-> "add", message |-> m, found |-> m.jobs]
    ELSE Idle

\* Mutant: deploying trusts replace_existing to replace the old jobs.
ListNothing(w) ==
    LET m == worker[w].message IN
    /\ worker[w].pc = "list"
    /\ worker' = [worker EXCEPT ![w] = Goes(m, "remove", {})]
    /\ UNCHANGED <<rows, queue, jobs, user, run, last, tangled, astray, requests>>

\* scheduler.get_jobs()
ListJobs(w) ==
    LET m == worker[w].message IN
    /\ worker[w].pc = "list"
    /\ worker' = [worker EXCEPT ![w] = Goes(m, "remove", jobs[m.trigger])]
    /\ UNCHANGED <<rows, queue, jobs, user, run, last, tangled, astray, requests>>

\* job.remove(), one after the other; a job that is gone is no error.
RemoveJob(w) ==
    LET m == worker[w].message IN
    /\ worker[w].pc = "remove"
    /\ \E j \in worker[w].found :
        /\ jobs' = [jobs EXCEPT ![m.trigger] = @ \ {j}]
        /\ worker' = [worker EXCEPT ![w] = Goes(m, "remove", @.found \ {j})]
    /\ UNCHANGED <<rows, queue, user, run, last, tangled, astray, requests>>

\* scheduler.add_job(..., replace_existing=True)
AddJob(w) ==
    LET m == worker[w].message IN
    /\ worker[w].pc = "add"
    /\ \E j \in worker[w].found :
        /\ jobs' = [jobs EXCEPT ![m.trigger] = @ \cup {j}]
        /\ worker' = [worker EXCEPT ![w] = Goes(m, "add", @.found \ {j})]
    /\ UNCHANGED <<rows, queue, user, run, last, tangled, astray, requests>>

\* A worker dies and the message, acknowledged when it was taken, with it.
WorkerDies(w) ==
    /\ "kill" \in Ops /\ requests < MaxRequests
    /\ worker[w].pc # "idle"
    /\ requests' = requests + 1
    /\ tangled' = tangled \cup {worker[w].message.trigger}
    /\ worker' = [worker EXCEPT ![w] = Idle]
    /\ UNCHANGED <<rows, queue, jobs, user, run, last, astray>>

-----------------------------------------------------------------------------
(* The jobs: ScheduledTrigger.execute and ApplicationTask.execute.         *)

Fire(r, t, j) ==
    /\ run[r].pc = "none" /\ j \in jobs[t]
    /\ run' = [run EXCEPT ![r] = [NoRun EXCEPT !.pc = "source", !.trigger = t, !.source = j[1]]]
    /\ UNCHANGED <<rows, celery, user, last, tangled, astray, requests>>

\* A task whose application is gone is removed, without a message.
RunSource(r) ==
    LET t == run[r].trigger
        s == run[r].source IN
    /\ run[r].pc = "source"
    /\ \/ /\ app[s]
          /\ run' = [run EXCEPT ![r] = [NoRun EXCEPT !.pc = "record", !.trigger = t]]
          /\ UNCHANGED <<tasks, astray>>
       \/ /\ ~app[s]
          /\ run' = [run EXCEPT ![r] = NoRun]
          /\ tasks' = [tasks EXCEPT ![t][s] = "gone"]
          /\ astray' = IF tasks[t][s] = "gone" THEN astray ELSE astray \cup {t}
    /\ UNCHANGED <<trig, app, celery, user, last, tangled, requests>>

\* The record refers to the row of the trigger: without it the run fails here.
RunRecord(r) ==
    /\ run[r].pc = "record"
    /\ \/ /\ trig[run[r].trigger].state = "live"
          /\ run' = [run EXCEPT ![r].pc = "chat", ![r].started = TRUE]
       \/ /\ trig[run[r].trigger].state # "live"
          /\ run' = [run EXCEPT ![r] = NoRun]
    /\ UNCHANGED <<rows, celery, user, last, tangled, astray, requests>>

\* Mutant: an exception in the conversation leaves the record as it is.
RunEndIfWell(r) ==
    /\ run[r].pc = "chat"
    /\ \E well \in BOOLEAN :
        run' = [run EXCEPT ![r] = [NoRun EXCEPT !.trigger = run[r].trigger,
                                               !.started = run[r].started /\ ~well]]
    /\ UNCHANGED <<rows, celery, user, last, tangled, astray, requests>>

\* SUCCESS or FAILURE, as the chat record says; FAILURE without one or after an exception.
\* An UPDATE of a record that is gone changes nothing.
RunEnd(r) ==
    /\ run[r].pc = "chat"
    /\ run' = [run EXCEPT ![r] = NoRun]
    /\ UNCHANGED <<rows, celery, user, last, tangled, astray, requests>>

RunDies(r) ==
    /\ "kill" \in Ops /\ requests < MaxRequests
    /\ run[r].pc \in {"source", "record", "chat"}
    /\ requests' = requests + 1
    /\ run' = [run EXCEPT ![r] = [NoRun EXCEPT !.pc = "killed",
                                              !.trigger = run[r].trigger, !.started = run[r].started]]
    /\ UNCHANGED <<rows, celery, user, last, tangled, astray>>

-----------------------------------------------------------------------------
NewRequest(u) ==
    \/ \E t \in Triggers :
        \/ \E b \in Creations : Insert(u, t, b)
        \/ \E b \in Edits : Edit(u, t, b)
        \/ \E b \in BOOLEAN : Switch(u, t, b)
        \/ Delete(u, t, "delete") \/ Delete(u, t, "batch_delete")
        \/ \E s \in Sources : SourceDelete(u, t, s)
    \/ \E s \in Sources : AppDelete(u, s)

UserStep(u) ==
    \/ EditSave(u) \/ EditSend(u) \/ SwitchSend(u) \/ ReadTasks(u) \/ Deliver(u) \/ Commit(u)
    \/ DeleteTasks(u) \/ DeleteRow(u) \/ AppSelect(u) \/ AppTasks(u) \/ AppRow(u)

WorkerStep(w) == Take(w) \/ ListJobs(w) \/ RemoveJob(w) \/ AddJob(w)

RunStep(r) == RunSource(r) \/ RunRecord(r) \/ RunEnd(r)

\* Nothing left to do in this instance.
Rest ==
    /\ \A u \in Users : user[u].pc = "idle"
    /\ queue = <<>> /\ \A w \in Workers : worker[w].pc = "idle"
    /\ UNCHANGED vars

Next ==
    \/ \E u \in Users : NewRequest(u) \/ UserStep(u)
    \/ \E w \in Workers : WorkerStep(w) \/ WorkerDies(w)
    \/ \E r \in Runs : RunStep(r) \/ RunDies(r)
    \/ \E r \in Runs, t \in Triggers, j \in Jobs : Fire(r, t, j)
    \/ Rest

Spec == Init /\ [][Next]_vars

\* A request is carried through, a worker works, a run ends; jobs need not fire.
Fairness ==
    /\ \A u \in Users : WF_vars(UserStep(u))
    /\ \A w \in Workers : WF_vars(WorkerStep(w))
    /\ \A r \in Runs : WF_vars(RunStep(r))

FairSpec == Spec /\ Fairness

-----------------------------------------------------------------------------
(* Properties.                                                             *)

Handled(t) == At(t) = {} /\ \A i \in 1..Len(queue) : queue[i].trigger # t

\* When the messages of a trigger have been handled, the last one without another beside
\* it and to the end, its jobs are those of the last message: nothing an earlier one added
\* survives and nothing of the last is missing.
JobsAreTheLastMessage ==
    \A t \in Triggers : Handled(t) /\ t \notin tangled => jobs[t] = last[t]

\* When no request on a trigger is in progress, the last message is what its rows say,
\* unless requests met that no lock keeps apart or that send nothing, or one of its tasks
\* went after a request had read them and before it sent them.
LastMessageIsTheRows ==
    \A t \in Triggers :
        InProgress(t) = {} /\ t \notin astray => last[t] = JobsOf(trig[t], tasks[t])

\* In the end the scheduler runs what the rows say: every message is handled.
Converges ==
    <>[](\A t \in Triggers :
            t \in tangled \/ t \in astray \/ jobs[t] = JobsOf(trig[t], tasks[t]))

\* A record of a run does not stay STARTED, unless its process died.
RecordsEnd ==
    \A r \in Runs : run[r].started ~> (~run[r].started \/ run[r].pc = "killed")
=============================================================================
