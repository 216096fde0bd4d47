------------------------- MODULE TriggerRowsProofs -------------------------
(***************************************************************************)
(* Trigger: the types, and that the message sent last for a trigger is     *)
(* what its rows say.                                                      *)
(*                                                                         *)
(* The second is not inductive: requests write and send at different       *)
(* points, and several may be on one trigger.  RowsInv says of a trigger   *)
(* that is not astray that its requests are of one group and at most one   *)
(* of them holds the lock of the row (Apart); that what each remembers of  *)
(* the row is still so (Known); that a trigger without a row has no tasks  *)
(* (Bare); and that the last message is what the rows say, or what the     *)
(* request that holds the lock will commit, or that some request will yet  *)
(* send what the rows say then (Said).                                     *)
(***************************************************************************)
EXTENDS Trigger, TLAPS

USE Constants

-----------------------------------------------------------------------------
(* The requests, each at its points.                                       *)

OpNames ==
    {"none", "insert", "edit", "rename", "retask", "switch", "reswitch", "delete",
     "batch_delete", "source_delete", "app_delete"}

Bodies == {Keep} \cup Creations \cup Edits \cup BOOLEAN \cup Sources \cup Triggers

RequestRecord ==
    [pc : UserPcs, op : OpNames, trigs : SUBSET Triggers, body : Bodies, row : TrigRow,
     tasks : [Sources -> TaskRow], locks : BOOLEAN]

OneTrigger(r) == \E t \in Triggers : r.trigs = {t}

EditShape(r) ==
    /\ r.op \in {"edit", "rename", "retask"} /\ r.pc \in {"save", "send", "deploy", "deliver", "commit"}
    /\ r.body \in Edits /\ r.op = EditKind(r.body)
    /\ (r.locks <=> r.pc # "save") /\ r.row.state = "live"
    /\ r.pc # "save" /\ r.body.tasks # Keep => r.tasks # NoTasks
    /\ r.pc \in {"deploy", "deliver"} => r.op = "edit" /\ r.row.active /\ r.row.setting # Event

InsertShape(r) ==
    /\ r.op = "insert" /\ r.pc = "commit"
    /\ r.body \in Creations /\ r.locks /\ r.row.state = "live" /\ r.tasks # NoTasks

SwitchShape(r) ==
    /\ r.op \in {"switch", "reswitch"} /\ r.pc \in {"send", "deploy", "deliver", "commit"}
    /\ r.body \in BOOLEAN /\ r.row.state = "live"
    /\ r.op = "switch" => r.row.active = r.body
    /\ (r.locks <=> r.op = "switch")

DeleteShape(r) ==
    r.op \in {"delete", "batch_delete"} /\ r.pc \in {"tasks", "row"} /\ ~r.locks

SourceDeleteShape(r) ==
    r.op = "source_delete" /\ r.pc = "commit" /\ r.body \in Sources /\ r.row.state = "gone"

AppDeleteShape(r) ==
    /\ r.op = "app_delete" /\ ~r.locks
    /\ r.pc \in {"select", "tasks", "row", "deploy", "deliver"}
    /\ r.pc = "select" => r.trigs = {}
    /\ r.pc \in {"select", "tasks"} => r.body \in Sources
    /\ r.pc \in {"deploy", "deliver"} => r.body \in r.trigs /\ r.row.state = "live"

RequestShape(r) ==
    \/ r = NoRequest
    \/ AppDeleteShape(r)
    \/ /\ OneTrigger(r)
       /\ \/ EditShape(r) \/ InsertShape(r) \/ SwitchShape(r) \/ DeleteShape(r)
          \/ SourceDeleteShape(r)

-----------------------------------------------------------------------------
(* Types, in parts.                                                        *)

RowsType ==
    /\ trig \in [Triggers -> TrigRow]
    /\ tasks \in [Triggers -> [Sources -> TaskRow]]
    /\ app \in [Sources -> BOOLEAN]

QueueType == queue \in Seq(Messages) /\ last \in [Triggers -> SUBSET Jobs]

WorkersType ==
    /\ jobs \in [Triggers -> SUBSET Jobs]
    /\ worker \in [Workers -> [pc : {"idle", "list", "remove", "add"}, message : Messages,
                               found : SUBSET Jobs]]
    /\ tangled \subseteq Triggers

RunsType ==
    run \in [Runs -> [pc : {"none", "source", "record", "chat", "killed"},
                      trigger : Triggers, source : Sources, started : BOOLEAN]]

UsersType ==
    /\ user \in [Users -> RequestRecord]
    /\ \A u \in Users : RequestShape(user[u])

CountType == astray \subseteq Triggers /\ requests \in Nat

TypeInv == RowsType /\ QueueType /\ WorkersType /\ RunsType /\ UsersType /\ CountType

LEMMA TypeInvIsEnough == TypeInv => TypeOK
<1> SUFFICES ASSUME TypeInv PROVE TypeOK
  OBVIOUS
<1>1. ASSUME NEW u \in Users PROVE UserType(u)
  BY DEF TypeInv, UsersType, RequestRecord, UserType, OpNames
<1> QED
  BY <1>1 DEF TypeInv, TypeOK, RowsType, QueueType, WorkersType, RunsType, CountType

LEMMA BlankTypes ==
    /\ NoRequest \in RequestRecord /\ RequestShape(NoRequest)
    /\ NoMessage \in Messages /\ NoTasks \in [Sources -> TaskRow] /\ NoRow \in TrigRow
    /\ Idle \in [pc : {"idle", "list", "remove", "add"}, message : Messages, found : SUBSET Jobs]
    /\ NoRun \in [pc : {"none", "source", "record", "chat", "killed"},
                  trigger : Triggers, source : Sources, started : BOOLEAN]
<1>1. NoTasks \in [Sources -> TaskRow] /\ NoRow \in TrigRow
  BY DEF NoTasks, NoRow, TaskRow, TrigRow, Settings
<1>2. (CHOOSE t \in Triggers : TRUE) \in Triggers /\ (CHOOSE s \in Sources : TRUE) \in Sources
  OBVIOUS
<1>3. NoRequest \in RequestRecord
  BY <1>1 DEF NoRequest, RequestRecord, UserPcs, OpNames, Bodies
<1> QED
  BY <1>1, <1>2, <1>3 DEF NoMessage, Messages, Idle, NoRun, RequestShape

LEMMA RequestIs ==
    ASSUME NEW l \in UserPcs, NEW op \in OpNames, NEW t \in Triggers
    PROVE  /\ Request(l, op, t) \in RequestRecord
           /\ Request(l, op, t).pc = l /\ Request(l, op, t).op = op
           /\ Request(l, op, t).trigs = {t} /\ ~Request(l, op, t).locks
<1>1. NoRequest \in RequestRecord /\ ~NoRequest.locks
  BY BlankTypes DEF NoRequest
<1> QED
  BY <1>1 DEF Request, RequestRecord

\* The bodies of requests.
LEMMA CreationType ==
    ASSUME NEW b \in Creations
    PROVE  /\ b.active \in BOOLEAN /\ b.setting \in Settings
           /\ b.tasks \in SUBSET Sources /\ b.tasks # Keep /\ \E s \in Sources : s \in b.tasks
<1>1. b \in [active : BOOLEAN, setting : Settings, tasks : (SUBSET Sources) \ {{}}]
  OBVIOUS
<1>2. b.tasks \in SUBSET Sources /\ b.tasks # {}
  BY <1>1
<1>3. \E s \in Sources : s \in b.tasks
  BY ONLY <1>2
<1>4. b.tasks # Keep
  BY <1>2
<1> QED
  BY <1>1, <1>2, <1>3, <1>4

LEMMA EditBodyType ==
    ASSUME NEW b \in Edits
    PROVE  /\ b.active = Keep \/ b.active \in BOOLEAN
           /\ b.setting = Keep \/ b.setting \in Settings
           /\ b.tasks # Keep => \E s \in Sources : s \in b.tasks
<1>1. b \in [active : {Keep} \cup BOOLEAN, setting : {Keep} \cup Settings,
             tasks : {Keep} \cup ((SUBSET Sources) \ {{}})]
  OBVIOUS
<1>2. b.tasks = Keep \/ (b.tasks \in SUBSET Sources /\ b.tasks # {})
  BY <1>1
<1>3. b.tasks # Keep => \E s \in Sources : s \in b.tasks
  BY ONLY <1>2
<1> QED
  BY <1>1, <1>3

LEMMA SomeTasks ==
    ASSUME NEW S, NEW s \in Sources, s \in S, NEW present
    PROVE  TaskRows(S, present) # NoTasks
BY DEF TaskRows, NoTasks

LEMMA JobsType ==
    ASSUME NEW row \in TrigRow, NEW ts
    PROVE  JobsOf(row, ts) \subseteq Jobs
BY DEF JobsOf, Jobs, TrigRow, Settings

LEMMA TaskRowsType ==
    ASSUME NEW S, NEW present
    PROVE  TaskRows(S, present) \in [Sources -> TaskRow]
BY DEF TaskRows, TaskRow

LEMMA SendType ==
    ASSUME QueueType, NEW t \in Triggers, NEW js \in SUBSET Jobs, Send(t, js)
    PROVE  QueueType'
<1>1. [trigger |-> t, jobs |-> js] \in Messages
  BY DEF Messages
<1> QED
  BY <1>1 DEF Send, QueueType

LEMMA DeployType ==
    ASSUME QueueType, NEW t \in Triggers, NEW row \in TrigRow, NEW ts, Deploy(t, row, ts)
    PROVE  QueueType'
BY JobsType, SendType DEF Deploy, QueueType

LEMMA UserMove ==
    ASSUME UsersType, NEW u \in Users, NEW r \in RequestRecord, RequestShape(r),
           user' = [user EXCEPT ![u] = r]
    PROVE  UsersType'
BY DEF UsersType

LEMMA LeaveType ==
    ASSUME UsersType, NEW u \in Users, Leave(u)
    PROVE  UsersType'
BY BlankTypes, UserMove DEF Leave

LEMMA AstrayType ==
    ASSUME CountType, NEW u, NEW op, NEW T \in SUBSET Triggers, NEW sends
    PROVE  Astray(u, op, T, sends) \subseteq Triggers
BY DEF Astray, CountType

LEMMA WithoutRecordsType ==
    ASSUME RunsType, NEW t
    PROVE  WithoutRecords(t) \in [Runs -> [pc : {"none", "source", "record", "chat", "killed"},
                                  trigger : Triggers, source : Sources, started : BOOLEAN]]
BY DEF RunsType, WithoutRecords

\* What the record of a request in progress is, for each of its points.
LEMMA UserFacts ==
    ASSUME UsersType, NEW u \in Users
    PROVE  /\ user[u] \in RequestRecord /\ RequestShape(user[u])
           /\ user[u].row \in TrigRow /\ user[u].tasks \in [Sources -> TaskRow]
           /\ user[u].trigs \subseteq Triggers
           /\ user[u].pc \in {"save", "send", "commit"} => OneTrigger(user[u])
           /\ user[u].pc \in {"deploy", "deliver"} /\ user[u].op # "app_delete"
                => OneTrigger(user[u])
           /\ user[u].op \in {"delete", "batch_delete"} => OneTrigger(user[u])
           /\ OneTrigger(user[u]) => \E t \in Triggers :
                user[u].trigs = {t} /\ t = (CHOOSE x \in user[u].trigs : TRUE)
<1>1. user[u] \in RequestRecord /\ RequestShape(user[u])
  BY DEF UsersType
<1>2. /\ user[u].pc \in {"save", "send", "commit"} => OneTrigger(user[u])
      /\ user[u].pc \in {"deploy", "deliver"} /\ user[u].op # "app_delete"
            => OneTrigger(user[u])
      /\ user[u].op \in {"delete", "batch_delete"} => OneTrigger(user[u])
  BY <1>1 DEF RequestShape, AppDeleteShape, NoRequest
<1>3. OneTrigger(user[u]) => \E t \in Triggers :
                user[u].trigs = {t} /\ t = (CHOOSE x \in user[u].trigs : TRUE)
  BY DEF OneTrigger
<1> QED
  BY <1>1, <1>2, <1>3 DEF RequestRecord

-----------------------------------------------------------------------------
(* Every action keeps the types.                                           *)

LEMMA TypeInit == Init => TypeInv
<1> SUFFICES ASSUME Init PROVE TypeInv
  OBVIOUS
<1>1. PICK D \in SUBSET Triggers, b \in Creations :
        LET row == [state |-> "live", active |-> b.active, setting |-> b.setting] IN
        /\ trig = [t \in Triggers |-> IF t \in D THEN row ELSE NoRow]
        /\ tasks = [t \in Triggers |-> IF t \in D THEN TaskRows(b.tasks, Sources) ELSE NoTasks]
        /\ app = [s \in Sources |-> TRUE]
        /\ queue = <<>>
        /\ jobs = [t \in Triggers |-> JobsOf(trig[t], tasks[t])]
        /\ user = [u \in Users |-> NoRequest]
        /\ worker = [w \in Workers |-> Idle]
        /\ run = [r \in Runs |-> NoRun]
        /\ last = jobs
        /\ tangled = {} /\ astray = {}
        /\ requests = 0
  BY DEF Init
<1>2. [state |-> "live", active |-> b.active, setting |-> b.setting] \in TrigRow
  BY DEF TrigRow
<1>3. RowsType
  BY <1>1, <1>2, BlankTypes, TaskRowsType DEF RowsType
<1>4. jobs \in [Triggers -> SUBSET Jobs]
  <2>1. ASSUME NEW t \in Triggers PROVE JobsOf(trig[t], tasks[t]) \in SUBSET Jobs
    BY <1>3, JobsType DEF RowsType
  <2> QED
    BY <1>1, <2>1
<1>5. QueueType
  BY <1>1, <1>4 DEF QueueType
<1>6. WorkersType
  BY <1>1, <1>4, BlankTypes DEF WorkersType
<1>7. RunsType
  BY <1>1, BlankTypes DEF RunsType
<1>8. UsersType
  BY <1>1, BlankTypes DEF UsersType
<1>9. CountType
  BY <1>1 DEF CountType
<1> QED
  BY <1>3, <1>5, <1>6, <1>7, <1>8, <1>9 DEF TypeInv

LEMMA InsertType ==
    ASSUME TypeInv, NEW u \in Users, NEW t \in Triggers, NEW b \in Creations, Insert(u, t, b)
    PROVE  TypeInv'
<1> DEFINE row == [state |-> "live", active |-> b.active, setting |-> b.setting]
           new == TaskRows(b.tasks, Present)
           r == [Request("commit", "insert", t) EXCEPT
                        !.body = b, !.row = row, !.tasks = new, !.locks = TRUE]
<1>1. row \in TrigRow /\ row.state = "live" /\ new \in [Sources -> TaskRow]
  BY TaskRowsType DEF TrigRow
<1>2. new # NoTasks
  BY CreationType, SomeTasks
<1>3. /\ Request("commit", "insert", t) \in RequestRecord
      /\ Request("commit", "insert", t).pc = "commit"
      /\ Request("commit", "insert", t).op = "insert"
      /\ Request("commit", "insert", t).trigs = {t}
  BY RequestIs DEF UserPcs, OpNames
<1>4. user' = [user EXCEPT ![u] = r]
  BY DEF Insert
<1> HIDE DEF row, new
<1>5. r \in RequestRecord /\ RequestShape(r)
  <2>1. r \in RequestRecord
    BY <1>1, <1>3 DEF RequestRecord, Bodies
  <2>2. /\ r.pc = "commit" /\ r.op = "insert" /\ r.trigs = {t} /\ r.body = b /\ r.row = row
        /\ r.tasks = new /\ r.locks
    BY <1>3 DEF RequestRecord
  <2> HIDE DEF r
  <2> QED
    BY <1>1, <1>2, <2>1, <2>2 DEF RequestShape, InsertShape, OneTrigger
<1> HIDE DEF r
<1>6. UsersType'
  BY <1>4, <1>5, UserMove DEF TypeInv
<1>7. QueueType'
  BY <1>1, DeployType DEF Insert, TypeInv, QueueType, row
<1> QED
  BY <1>6, <1>7
  DEF Insert, Arrive, rows, TypeInv, RowsType, WorkersType, RunsType, CountType

LEMMA EditType ==
    ASSUME TypeInv, NEW u \in Users, NEW t \in Triggers, NEW b \in Edits, Edit(u, t, b)
    PROVE  TypeInv'
<1> DEFINE r == [Request("save", EditKind(b), t) EXCEPT !.body = b, !.row = trig[t]]
<1>1. trig[t] \in TrigRow /\ trig[t].state = "live"
  BY DEF Edit, TypeInv, RowsType
<1>2. EditKind(b) \in {"edit", "rename", "retask"}
  BY DEF EditKind
<1>3. LET q == Request("save", EditKind(b), t) IN
      /\ q \in RequestRecord /\ q.pc = "save" /\ q.op = EditKind(b) /\ q.trigs = {t} /\ ~q.locks
  BY <1>2, RequestIs DEF UserPcs, OpNames
<1>4. user' = [user EXCEPT ![u] = r]
  BY DEF Edit
<1>5. /\ r \in RequestRecord
      /\ r.pc = "save" /\ r.op = EditKind(b) /\ r.trigs = {t} /\ ~r.locks
      /\ r.body = b /\ r.row = trig[t]
  BY <1>1, <1>3 DEF RequestRecord, Bodies
<1> HIDE DEF r
<1>6. RequestShape(r)
  BY <1>1, <1>2, <1>5 DEF RequestShape, EditShape, OneTrigger
<1>7. UsersType'
  BY <1>4, <1>5, <1>6, UserMove DEF TypeInv
<1>8. CountType'
  BY AstrayType DEF Edit, Arrive, TypeInv, CountType
<1> QED
  BY <1>7, <1>8 DEF Edit, rows, celery, TypeInv, RowsType, QueueType, WorkersType, RunsType

LEMMA EditSaveType ==
    ASSUME TypeInv, NEW u \in Users, EditSave(u)
    PROVE  TypeInv'
<1> DEFINE b == user[u].body
           row == [state |-> "live",
                   active |-> IF b.active = Keep THEN user[u].row.active ELSE b.active,
                   setting |-> IF b.setting = Keep THEN user[u].row.setting ELSE b.setting]
           new == IF b.tasks = Keep THEN user[u].tasks ELSE TaskRows(b.tasks, Present)
           r == [user[u] EXCEPT !.pc = "send", !.locks = TRUE, !.row = row, !.tasks = new]
<1>1. /\ user[u] \in RequestRecord /\ RequestShape(user[u]) /\ user[u].pc = "save"
      /\ user[u].row \in TrigRow /\ user[u].tasks \in [Sources -> TaskRow]
  BY UserFacts DEF EditSave, TypeInv
<1>2. OneTrigger(user[u]) /\ EditShape(user[u])
  BY <1>1 DEF RequestShape, NoRequest, AppDeleteShape, InsertShape, SwitchShape, DeleteShape,
              SourceDeleteShape
<1>3. b \in Edits /\ row \in TrigRow /\ row.state = "live" /\ new \in [Sources -> TaskRow]
  BY <1>1, <1>2, EditBodyType, TaskRowsType DEF EditShape, TrigRow
<1>4. b.tasks # Keep => new # NoTasks
  BY <1>3, EditBodyType, SomeTasks
<1>5. Leave(u) \/ user' = [user EXCEPT ![u] = r]
  BY DEF EditSave, TypeInv, UsersType
<1> HIDE DEF row, new
<1>6. r \in RequestRecord
  BY <1>1, <1>3 DEF RequestRecord, UserPcs
<1>7. /\ r.pc = "send" /\ r.op = user[u].op /\ r.body = b /\ r.trigs = user[u].trigs
      /\ r.locks /\ r.row = row /\ r.tasks = new
  BY <1>1 DEF RequestRecord
<1> HIDE DEF r
<1>8. RequestShape(r)
  BY <1>2, <1>3, <1>4, <1>7 DEF RequestShape, EditShape, OneTrigger
<1>9. UsersType'
  BY <1>5, <1>6, <1>8, UserMove, LeaveType DEF TypeInv
<1> QED
  BY <1>9
  DEF EditSave, rows, celery, TypeInv, RowsType, QueueType, WorkersType, RunsType, CountType

\* A request moves to another point with all else as it was.
LEMMA PcMove ==
    ASSUME UsersType, NEW u \in Users, NEW l \in UserPcs,
           RequestShape([user[u] EXCEPT !.pc = l]), user' = [user EXCEPT ![u].pc = l]
    PROVE  UsersType'
<1>1. [user[u] EXCEPT !.pc = l] \in RequestRecord
  BY DEF UsersType, RequestRecord
<1>2. user' = [user EXCEPT ![u] = [user[u] EXCEPT !.pc = l]]
  BY DEF UsersType
<1> QED
  BY <1>1, <1>2, UserMove

LEMMA EditSendType ==
    ASSUME TypeInv, NEW u \in Users, EditSend(u)
    PROVE  TypeInv'
<1> DEFINE deploys == user[u].row.active /\ user[u].row.setting # Event
           l == IF Redeploys(user[u].body) /\ deploys THEN "deploy" ELSE "commit"
           r == [user[u] EXCEPT !.pc = l]
<1>1. /\ user[u] \in RequestRecord /\ RequestShape(user[u]) /\ user[u].pc = "send"
      /\ user[u].op \in {"edit", "rename", "retask"} /\ user[u].row \in TrigRow
  BY UserFacts DEF EditSend, TypeInv
<1>2. OneTrigger(user[u]) /\ EditShape(user[u])
  BY <1>1 DEF RequestShape, NoRequest, AppDeleteShape, InsertShape, SwitchShape, DeleteShape,
              SourceDeleteShape
<1>3. /\ r.pc = l /\ r.op = user[u].op /\ r.body = user[u].body
      /\ r.trigs = user[u].trigs /\ r.locks = user[u].locks /\ r.row = user[u].row
      /\ r.tasks = user[u].tasks
  BY <1>1 DEF RequestRecord
<1>4. l \in {"deploy", "commit"} /\ (l = "deploy" => user[u].op = "edit" /\ deploys)
  BY <1>2 DEF EditShape, EditKind
<1>5. RequestShape(r)
  <2> HIDE DEF r, l
  <2> QED
    BY <1>1, <1>2, <1>3, <1>4 DEF RequestShape, EditShape, OneTrigger
<1>6. UsersType'
  <2>1. user' = [user EXCEPT ![u].pc = l]
    BY DEF EditSend
  <2> HIDE DEF l
  <2> QED
    BY <1>4, <1>5, <2>1, PcMove DEF TypeInv, UserPcs
<1>7. PICK t \in Triggers : t = (CHOOSE x \in user[u].trigs : TRUE)
  BY <1>2, UserFacts DEF TypeInv
<1>8. QueueType'
  <2>1. CASE Undeploy(t)
    BY <2>1, SendType DEF Undeploy, TypeInv
  <2> QED
    BY <1>7, <2>1 DEF EditSend, TypeInv, QueueType
<1> QED
  BY <1>6, <1>8 DEF EditSend, rows, TypeInv, RowsType, WorkersType, RunsType, CountType

LEMMA SwitchType ==
    ASSUME TypeInv, NEW u \in Users, NEW t \in Triggers, NEW b \in BOOLEAN, Switch(u, t, b)
    PROVE  TypeInv'
<1> DEFINE kind == IF trig[t].active # b THEN "switch" ELSE "reswitch"
           row == [trig[t] EXCEPT !.active = b]
           r == [Request("send", kind, t) EXCEPT
                    !.body = b, !.row = row, !.locks = (kind = "switch")]
<1>1. trig[t] \in TrigRow /\ trig[t].state = "live"
  BY DEF Switch, TypeInv, RowsType
<1>2. row \in TrigRow /\ row.active = b /\ row.state = "live"
  BY <1>1 DEF TrigRow
<1>3. kind \in {"switch", "reswitch"}
  OBVIOUS
<1>4. user' = [user EXCEPT ![u] = r]
  BY DEF Switch
<1> HIDE DEF row, kind
<1>5. LET q == Request("send", kind, t) IN
      q \in RequestRecord /\ q.pc = "send" /\ q.op = kind /\ q.trigs = {t}
  BY <1>3, RequestIs DEF UserPcs, OpNames
<1>6. /\ r \in RequestRecord
      /\ r.pc = "send" /\ r.op = kind /\ r.trigs = {t} /\ (r.locks <=> kind = "switch")
      /\ r.body = b /\ r.row = row
  BY <1>2, <1>5 DEF RequestRecord, Bodies
<1> HIDE DEF r
<1>7. RequestShape(r)
  BY <1>2, <1>3, <1>6 DEF RequestShape, SwitchShape, OneTrigger
<1>8. UsersType'
  BY <1>4, <1>6, <1>7, UserMove DEF TypeInv
<1>9. CountType'
  BY AstrayType DEF Switch, Arrive, TypeInv, CountType
<1> QED
  BY <1>8, <1>9 DEF Switch, rows, celery, TypeInv, RowsType, QueueType, WorkersType, RunsType

LEMMA SwitchSendType ==
    ASSUME TypeInv, NEW u \in Users, SwitchSend(u)
    PROVE  TypeInv'
<1> DEFINE row == IF user[u].locks THEN user[u].row ELSE trig[CHOOSE x \in user[u].trigs : TRUE]
           l == IF user[u].body THEN "deploy" ELSE "deliver"
           r == [user[u] EXCEPT !.pc = l, !.row = row]
<1>1. /\ user[u] \in RequestRecord /\ RequestShape(user[u]) /\ user[u].pc = "send"
      /\ user[u].op \in {"switch", "reswitch"} /\ user[u].row \in TrigRow
  BY UserFacts DEF SwitchSend, TypeInv
<1>2. OneTrigger(user[u]) /\ SwitchShape(user[u])
  BY <1>1 DEF RequestShape, NoRequest, AppDeleteShape, InsertShape, EditShape, DeleteShape,
              SourceDeleteShape
<1>3. PICK t \in Triggers : t = (CHOOSE x \in user[u].trigs : TRUE)
  BY <1>2, UserFacts DEF TypeInv
<1>4. row \in TrigRow /\ l \in {"deploy", "deliver"} /\ (user[u].locks => row = user[u].row)
  BY <1>1, <1>3 DEF TypeInv, RowsType
<1>5. Leave(u) \/ (row.state = "live" /\ user' = [user EXCEPT ![u] = r])
  BY DEF SwitchSend, TypeInv, UsersType
<1> HIDE DEF row, l
<1>6. r \in RequestRecord
  BY <1>1, <1>4 DEF RequestRecord, UserPcs
<1>7. /\ r.pc = l /\ r.op = user[u].op /\ r.body = user[u].body /\ r.trigs = user[u].trigs
      /\ r.locks = user[u].locks /\ r.row = row
  BY <1>1 DEF RequestRecord
<1> HIDE DEF r
<1>8. row.state = "live" => RequestShape(r)
  BY <1>1, <1>2, <1>4, <1>7 DEF RequestShape, SwitchShape, OneTrigger
<1>9. UsersType'
  BY <1>5, <1>6, <1>8, UserMove, LeaveType DEF TypeInv
<1> QED
  BY <1>9
  DEF SwitchSend, rows, celery, TypeInv, RowsType, QueueType, WorkersType, RunsType, CountType

\* What an app_delete has become when it is at its triggers.
LEMMA AppMove ==
    ASSUME UsersType, NEW u \in Users, user[u].op = "app_delete",
           NEW l \in {"row", "deploy"}, NEW T \in SUBSET Triggers, NEW body \in Bodies,
           NEW row \in TrigRow, l = "deploy" => body \in T /\ row.state = "live",
           user' = [user EXCEPT ![u].pc = l, ![u].trigs = T, ![u].body = body, ![u].row = row]
    PROVE  UsersType'
<1> DEFINE r == [user[u] EXCEPT !.pc = l, !.trigs = T, !.body = body, !.row = row]
<1>1. user[u] \in RequestRecord /\ RequestShape(user[u]) /\ user' = [user EXCEPT ![u] = r]
  BY DEF UsersType
<1>2. AppDeleteShape(user[u])
  BY <1>1 DEF RequestShape, NoRequest, InsertShape, EditShape, SwitchShape, DeleteShape,
              SourceDeleteShape
<1>3. r \in RequestRecord
  BY <1>1 DEF RequestRecord, UserPcs
<1>4. /\ r.pc = l /\ r.op = "app_delete" /\ r.trigs = T /\ r.body = body /\ r.row = row
      /\ r.locks = user[u].locks
  BY <1>1 DEF RequestRecord
<1> HIDE DEF r
<1>5. RequestShape(r)
  BY <1>2, <1>4 DEF RequestShape, AppDeleteShape
<1> QED
  BY <1>1, <1>3, <1>5, UserMove

\* The shape of a request that deploys, and the trigger it deploys.
LEMMA AtDeploy ==
    ASSUME UsersType, NEW u \in Users, user[u].pc \in {"deploy", "deliver"}
    PROVE  /\ user[u] \in RequestRecord
           /\ \/ OneTrigger(user[u]) /\ EditShape(user[u]) /\ user[u].op = "edit"
              \/ OneTrigger(user[u]) /\ SwitchShape(user[u])
              \/ AppDeleteShape(user[u])
           /\ Target(u) \in Triggers /\ Target(u) \in user[u].trigs
           /\ user[u].op # "app_delete" => user[u].trigs = {Target(u)}
<1>1. user[u] \in RequestRecord /\ RequestShape(user[u])
  BY UserFacts
<1>2. \/ OneTrigger(user[u]) /\ EditShape(user[u]) /\ user[u].op = "edit"
      \/ OneTrigger(user[u]) /\ SwitchShape(user[u])
      \/ AppDeleteShape(user[u])
  BY <1>1 DEF RequestShape, NoRequest, InsertShape, DeleteShape, SourceDeleteShape, EditShape
<1>3. /\ Target(u) \in Triggers /\ Target(u) \in user[u].trigs
      /\ user[u].op # "app_delete" => user[u].trigs = {Target(u)}
  <2>1. CASE AppDeleteShape(user[u])
    BY <1>1, <2>1 DEF AppDeleteShape, Target, RequestRecord
  <2>2. CASE OneTrigger(user[u]) /\ user[u].op # "app_delete"
    BY <2>2, UserFacts DEF Target
  <2> QED
    BY <1>2, <2>1, <2>2 DEF EditShape, SwitchShape
<1> QED
  BY <1>1, <1>2, <1>3

LEMMA ReadTasksType ==
    ASSUME TypeInv, NEW u \in Users, ReadTasks(u)
    PROVE  TypeInv'
<1> DEFINE ts == IF BringsTasks(user[u]) THEN user[u].tasks ELSE tasks[Target(u)]
           r == [user[u] EXCEPT !.pc = "deliver", !.tasks = ts]
<1>1. user[u].pc = "deploy" /\ UsersType
  BY DEF ReadTasks, TypeInv
<1>2. /\ user[u] \in RequestRecord /\ Target(u) \in Triggers
      /\ \/ OneTrigger(user[u]) /\ EditShape(user[u])
         \/ OneTrigger(user[u]) /\ SwitchShape(user[u])
         \/ AppDeleteShape(user[u])
  BY <1>1, AtDeploy
<1>3. ts \in [Sources -> TaskRow]
  BY <1>2 DEF RequestRecord, TypeInv, RowsType
<1>4. user[u].op \in {"edit", "rename", "retask"} /\ user[u].body.tasks # Keep => ts = user[u].tasks
  <2>1. CASE user[u].op \in {"edit", "retask"}
    BY <2>1 DEF BringsTasks
  <2>2. CASE user[u].op = "rename"
    BY <1>1, <1>2, <2>2 DEF EditShape, SwitchShape, AppDeleteShape
  <2> QED
    BY <2>1, <2>2
<1>5. user' = [user EXCEPT ![u] = r]
  BY <1>1 DEF ReadTasks, UsersType
<1> HIDE DEF ts
<1>6. r \in RequestRecord
  BY <1>2, <1>3 DEF RequestRecord, UserPcs
<1>7. /\ r.pc = "deliver" /\ r.op = user[u].op /\ r.body = user[u].body
      /\ r.trigs = user[u].trigs /\ r.locks = user[u].locks /\ r.row = user[u].row
      /\ r.tasks = ts
  BY <1>2 DEF RequestRecord
<1> HIDE DEF r
<1>8. RequestShape(r)
  <2>1. CASE OneTrigger(user[u]) /\ EditShape(user[u])
    BY <1>1, <1>4, <1>7, <2>1 DEF RequestShape, EditShape, OneTrigger
  <2>2. CASE OneTrigger(user[u]) /\ SwitchShape(user[u])
    BY <1>7, <2>2 DEF RequestShape, SwitchShape, OneTrigger
  <2>3. CASE AppDeleteShape(user[u])
    BY <1>1, <1>7, <2>3 DEF RequestShape, AppDeleteShape
  <2> QED
    BY <1>2, <2>1, <2>2, <2>3
<1>9. UsersType'
  BY <1>1, <1>5, <1>6, <1>8, UserMove
<1> QED
  BY <1>9
  DEF ReadTasks, rows, celery, TypeInv, RowsType, QueueType, WorkersType, RunsType, CountType

LEMMA DeliverType ==
    ASSUME TypeInv, NEW u \in Users, Deliver(u)
    PROVE  TypeInv'
<1>1. user[u].pc = "deliver" /\ UsersType
  BY DEF Deliver, TypeInv
<1>2. PICK t : t = Target(u)
  OBVIOUS
<1>3. /\ user[u] \in RequestRecord /\ t \in Triggers
      /\ \/ OneTrigger(user[u]) /\ EditShape(user[u])
         \/ OneTrigger(user[u]) /\ SwitchShape(user[u])
         \/ AppDeleteShape(user[u])
  BY <1>1, <1>2, AtDeploy
<1>4. QueueType'
  <2>1. CASE Undeploy(t)
    BY <1>3, <2>1, SendType DEF Undeploy, TypeInv
  <2>2. CASE Deploy(t, user[u].row, user[u].tasks)
    BY <1>3, <2>2, DeployType DEF TypeInv, RequestRecord
  <2> QED
    BY <1>2, <2>1, <2>2 DEF Deliver
<1>5. UsersType'
  <2>1. CASE user[u].op = "app_delete"
    <3>1. user' = [user EXCEPT ![u].pc = "row", ![u].trigs = user[u].trigs \ {t},
                               ![u].body = user[u].body, ![u].row = user[u].row]
      BY <1>1, <1>2, <1>3, <2>1 DEF Deliver, UsersType, RequestRecord
    <3>2. /\ user[u].body \in Bodies /\ user[u].trigs \ {t} \in SUBSET Triggers
          /\ user[u].row \in TrigRow
      BY <1>3 DEF RequestRecord
    <3> QED
      BY <1>1, <2>1, <3>1, <3>2, AppMove
  <2>2. CASE user[u].op # "app_delete"
    <3> DEFINE r == [user[u] EXCEPT !.pc = "commit"]
    <3>1. /\ r.pc = "commit" /\ r.op = user[u].op /\ r.body = user[u].body
          /\ r.trigs = user[u].trigs /\ r.locks = user[u].locks /\ r.row = user[u].row
          /\ r.tasks = user[u].tasks
      BY <1>3 DEF RequestRecord
    <3>2. RequestShape(r)
      <4> HIDE DEF r
      <4>1. CASE OneTrigger(user[u]) /\ EditShape(user[u])
        BY <1>1, <3>1, <4>1 DEF RequestShape, EditShape, OneTrigger
      <4>2. CASE OneTrigger(user[u]) /\ SwitchShape(user[u])
        BY <3>1, <4>2 DEF RequestShape, SwitchShape, OneTrigger
      <4> QED
        BY <1>3, <2>2, <4>1, <4>2 DEF AppDeleteShape
    <3> QED
      BY <1>1, <2>2, <3>2, PcMove DEF Deliver, UserPcs
  <2> QED
    BY <2>1, <2>2
<1> QED
  BY <1>4, <1>5 DEF Deliver, rows, TypeInv, RowsType, WorkersType, RunsType, CountType

LEMMA CommitType ==
    ASSUME TypeInv, NEW u \in Users, Commit(u)
    PROVE  TypeInv'
<1>1. /\ user[u] \in RequestRecord /\ user[u].row \in TrigRow
      /\ user[u].tasks \in [Sources -> TaskRow]
  BY UserFacts DEF TypeInv
<1>2. PICK t : t = (CHOOSE x \in user[u].trigs : TRUE)
  OBVIOUS
<1>3. trig' \in [Triggers -> TrigRow]
  BY <1>1 DEF Commit, TypeInv, RowsType
<1>4. tasks' \in [Triggers -> [Sources -> TaskRow]]
  <2> DEFINE new == IF BringsTasks(user[u]) THEN user[u].tasks
                    ELSE IF user[u].op = "source_delete"
                    THEN [s \in Sources |-> IF user[u].locks \/ s = user[u].body
                                            THEN "gone" ELSE tasks[t][s]]
                    ELSE tasks[t]
  <2>1. tasks' = [tasks EXCEPT ![t] = new]
    BY <1>2 DEF Commit
  <2>2. t \in Triggers => new \in [Sources -> TaskRow]
    BY <1>1 DEF TaskRow, TypeInv, RowsType
  <2> HIDE DEF new
  <2> QED
    BY <2>1, <2>2 DEF TypeInv, RowsType
<1>5. RunsType'
  BY WithoutRecordsType DEF Commit, TypeInv, RunsType
<1>6. UsersType'
  BY LeaveType DEF Commit, TypeInv
<1> QED
  BY <1>3, <1>4, <1>5, <1>6
  DEF Commit, celery, TypeInv, RowsType, QueueType, WorkersType, CountType

LEMMA DeleteType ==
    ASSUME TypeInv, NEW u \in Users, NEW t \in Triggers, NEW op, Delete(u, t, op)
    PROVE  TypeInv'
<1> DEFINE l == IF op = "delete" THEN "tasks" ELSE "row"
           r == Request(l, op, t)
<1>1. op \in {"delete", "batch_delete"} /\ l \in {"tasks", "row"} /\ user' = [user EXCEPT ![u] = r]
  BY DEF Delete
<1>2. r \in RequestRecord /\ r.pc = l /\ r.op = op /\ r.trigs = {t} /\ ~r.locks
  BY <1>1, RequestIs DEF UserPcs, OpNames
<1> HIDE DEF r, l
<1>3. RequestShape(r)
  BY <1>1, <1>2 DEF RequestShape, DeleteShape, OneTrigger
<1>4. UsersType'
  BY <1>1, <1>2, <1>3, UserMove DEF TypeInv
<1>5. QueueType'
  BY SendType DEF Delete, Undeploy, TypeInv
<1>6. CountType'
  <2>1. Astray(u, op, {t}, TRUE) \subseteq Triggers
    BY AstrayType DEF TypeInv
  <2>2. astray' = Astray(u, op, {t}, TRUE)
    BY DEF Delete
  <2>3. astray' \subseteq Triggers
    BY <2>1, <2>2, Zenon
  <2>4. requests' = requests + 1
    BY DEF Delete, Arrive
  <2> QED
    BY <2>3, <2>4 DEF TypeInv, CountType
<1> QED
  BY <1>4, <1>5, <1>6 DEF Delete, rows, TypeInv, RowsType, WorkersType, RunsType

LEMMA DeleteTasksType ==
    ASSUME TypeInv, NEW u \in Users, DeleteTasks(u)
    PROVE  TypeInv'
<1> DEFINE r == [user[u] EXCEPT !.pc = "row"]
<1>1. /\ user[u] \in RequestRecord /\ RequestShape(user[u])
      /\ user[u].pc = "tasks" /\ user[u].op = "delete"
  BY UserFacts DEF DeleteTasks, TypeInv
<1>2. OneTrigger(user[u]) /\ DeleteShape(user[u])
  BY <1>1 DEF RequestShape, NoRequest, AppDeleteShape, InsertShape, EditShape, SwitchShape,
              SourceDeleteShape
<1>3. /\ r.pc = "row" /\ r.op = user[u].op /\ r.trigs = user[u].trigs
      /\ r.locks = user[u].locks
  BY <1>1 DEF RequestRecord
<1>4. RequestShape(r)
  <2> HIDE DEF r
  <2> QED
    BY <1>1, <1>2, <1>3 DEF RequestShape, DeleteShape, OneTrigger
<1>5. UsersType'
  BY <1>4, PcMove DEF DeleteTasks, TypeInv, UserPcs
<1>6. RowsType'
  BY BlankTypes DEF DeleteTasks, TypeInv, RowsType
<1>7. RunsType'
  BY WithoutRecordsType DEF DeleteTasks, TypeInv, RunsType
<1> QED
  BY <1>5, <1>6, <1>7
  DEF DeleteTasks, celery, TypeInv, QueueType, WorkersType, CountType

LEMMA DeleteRowType ==
    ASSUME TypeInv, NEW u \in Users, DeleteRow(u)
    PROVE  TypeInv'
<1>0. /\ user[u] \in RequestRecord /\ RequestShape(user[u])
      /\ user[u].op \in {"delete", "batch_delete"}
  BY UserFacts DEF DeleteRow, TypeInv
<1>1. PICK t \in Triggers : t = (CHOOSE x \in user[u].trigs : TRUE)
  BY <1>0, UserFacts DEF TypeInv
<1>2. RowsType'
  <2>1. [trig[t] EXCEPT !.state = "gone"] \in TrigRow
    BY DEF TypeInv, RowsType, TrigRow
  <2>2. trig' = [trig EXCEPT ![t] = [trig[t] EXCEPT !.state = "gone"]]
    BY <1>1 DEF DeleteRow, TypeInv, RowsType
  <2> QED
    BY <1>1, <2>1, <2>2, BlankTypes DEF DeleteRow, TypeInv, RowsType
<1>3. RunsType'
  BY WithoutRecordsType DEF DeleteRow, TypeInv, RunsType
<1>4. UsersType'
  BY LeaveType DEF DeleteRow, TypeInv
<1> QED
  BY <1>2, <1>3, <1>4 DEF DeleteRow, celery, TypeInv, QueueType, WorkersType, CountType

LEMMA SourceDeleteType ==
    ASSUME TypeInv, NEW u \in Users, NEW t \in Triggers, NEW s \in Sources,
           SourceDelete(u, t, s)
    PROVE  TypeInv'
<1> DEFINE final == \A x \in Sources \ {s} : tasks[t][x] = "gone"
           row == [trig[t] EXCEPT !.state = "gone"]
           q == Request("commit", "source_delete", t)
           r == [q EXCEPT !.body = s, !.row = row, !.locks = final]
<1>1. row \in TrigRow /\ row.state = "gone"
  BY DEF TypeInv, RowsType, TrigRow
<1>2. q \in RequestRecord /\ q.pc = "commit" /\ q.op = "source_delete" /\ q.trigs = {t}
  BY RequestIs DEF UserPcs, OpNames
<1>3. user' = [user EXCEPT ![u] = r] /\ final \in BOOLEAN
  BY DEF SourceDelete
<1> HIDE DEF row, final, q
<1>4. /\ r \in RequestRecord
      /\ r.pc = "commit" /\ r.op = "source_delete" /\ r.trigs = {t} /\ r.body = s /\ r.row = row
  BY <1>1, <1>2, <1>3 DEF RequestRecord, Bodies
<1> HIDE DEF r
<1>5. RequestShape(r)
  BY <1>1, <1>4 DEF RequestShape, SourceDeleteShape, OneTrigger
<1>6. UsersType'
  BY <1>3, <1>4, <1>5, UserMove DEF TypeInv
<1>7. QueueType'
  BY SendType DEF SourceDelete, Undeploy, TypeInv
<1>8. CountType'
  <2>1. Astray(u, "source_delete", {t}, FALSE) \subseteq Triggers
    BY AstrayType DEF TypeInv
  <2>2. astray' = Astray(u, "source_delete", {t}, FALSE)
    BY DEF SourceDelete
  <2>3. astray' \subseteq Triggers
    BY <2>1, <2>2, Zenon
  <2>4. requests' = requests + 1
    BY DEF SourceDelete, Arrive
  <2> QED
    BY <2>3, <2>4 DEF TypeInv, CountType
<1> QED
  BY <1>6, <1>7, <1>8 DEF SourceDelete, rows, TypeInv, RowsType, WorkersType, RunsType

LEMMA AppDeleteType ==
    ASSUME TypeInv, NEW u \in Users, NEW s \in Sources, AppDelete(u, s)
    PROVE  TypeInv'
<1> DEFINE r == [NoRequest EXCEPT !.pc = "select", !.op = "app_delete", !.body = s]
<1>1. NoRequest \in RequestRecord /\ NoRequest.trigs = {} /\ ~NoRequest.locks
  BY BlankTypes DEF NoRequest
<1>2. /\ r \in RequestRecord
      /\ r.pc = "select" /\ r.op = "app_delete" /\ r.body = s /\ r.trigs = {} /\ ~r.locks
  BY <1>1 DEF RequestRecord, UserPcs, OpNames, Bodies
<1>3. user' = [user EXCEPT ![u] = r]
  BY DEF AppDelete
<1> HIDE DEF r
<1>4. RequestShape(r)
  BY <1>2 DEF RequestShape, AppDeleteShape
<1>5. UsersType'
  BY <1>2, <1>3, <1>4, UserMove DEF TypeInv
<1> QED
  BY <1>5
  DEF AppDelete, Arrive, celery, TypeInv, RowsType, QueueType, WorkersType, RunsType, CountType

LEMMA AppSelectType ==
    ASSUME TypeInv, NEW u \in Users, AppSelect(u)
    PROVE  TypeInv'
<1> DEFINE T == {t \in Triggers : tasks[t][user[u].body] # "gone"}
           r == [user[u] EXCEPT !.pc = "tasks", !.trigs = T]
<1>1. user[u] \in RequestRecord /\ RequestShape(user[u]) /\ user[u].pc = "select"
  BY UserFacts DEF AppSelect, TypeInv
<1>2. AppDeleteShape(user[u])
  BY <1>1 DEF RequestShape, NoRequest, InsertShape, EditShape, SwitchShape, DeleteShape,
              SourceDeleteShape
<1>3. user' = [user EXCEPT ![u] = r]
  BY DEF AppSelect, TypeInv, UsersType
<1>4. r \in RequestRecord
  BY <1>1 DEF RequestRecord, UserPcs
<1>5. /\ r.pc = "tasks" /\ r.op = user[u].op /\ r.trigs = T /\ r.body = user[u].body
      /\ r.locks = user[u].locks
  BY <1>1 DEF RequestRecord
<1> HIDE DEF r
<1>6. RequestShape(r)
  BY <1>1, <1>2, <1>5 DEF RequestShape, AppDeleteShape
<1>7. UsersType'
  BY <1>3, <1>4, <1>6, UserMove DEF TypeInv
<1>8. CountType'
  BY AstrayType DEF AppSelect, TypeInv, CountType
<1> QED
  BY <1>7, <1>8 DEF AppSelect, rows, celery, TypeInv, RowsType, QueueType, WorkersType, RunsType

LEMMA AppTasksType ==
    ASSUME TypeInv, NEW u \in Users, AppTasks(u)
    PROVE  TypeInv'
<1> DEFINE s == user[u].body
<1>1. user[u] \in RequestRecord /\ user[u].op = "app_delete"
  BY UserFacts DEF AppTasks, TypeInv
<1>2. RowsType'
  <2>1. ASSUME NEW t \in Triggers PROVE [tasks[t] EXCEPT ![s] = "gone"] \in [Sources -> TaskRow]
    BY DEF TypeInv, RowsType, TaskRow
  <2> QED
    BY <2>1 DEF AppTasks, TypeInv, RowsType
<1>3. user' = [user EXCEPT ![u].pc = "row", ![u].trigs = user[u].trigs, ![u].body = s,
                           ![u].row = user[u].row]
  BY <1>1 DEF AppTasks, TypeInv, UsersType, RequestRecord
<1>4. s \in Bodies /\ user[u].row \in TrigRow /\ user[u].trigs \in SUBSET Triggers
  BY <1>1 DEF RequestRecord
<1>5. UsersType'
  BY <1>1, <1>3, <1>4, AppMove DEF TypeInv
<1>6. CountType'
  BY DEF AppTasks, Unnoticed, TypeInv, CountType
<1> QED
  BY <1>2, <1>5, <1>6 DEF AppTasks, celery, TypeInv, QueueType, WorkersType, RunsType

LEMMA AppRowType ==
    ASSUME TypeInv, NEW u \in Users, AppRow(u)
    PROVE  TypeInv'
<1>1. user[u] \in RequestRecord /\ user[u].op = "app_delete" /\ user[u].pc = "row"
  BY UserFacts DEF AppRow, TypeInv
<1>2. ASSUME NEW t \in user[u].trigs, trig[t].state = "live",
             user' = [user EXCEPT ![u].pc = "deploy", ![u].body = t, ![u].row = trig[t]]
      PROVE  UsersType'
  <2>1. t \in Triggers /\ t \in Bodies /\ trig[t] \in TrigRow
    BY <1>1 DEF RequestRecord, Bodies, TypeInv, RowsType
  <2>2. user' = [user EXCEPT ![u].pc = "deploy", ![u].trigs = user[u].trigs, ![u].body = t,
                             ![u].row = trig[t]]
    BY <1>1, <1>2 DEF TypeInv, UsersType, RequestRecord
  <2>3. user[u].trigs \in SUBSET Triggers
    BY <1>1 DEF RequestRecord
  <2>4. UsersType /\ trig[t].state = "live"
    BY <1>2 DEF TypeInv
  <2> QED
    BY <1>1, <2>1, <2>2, <2>3, <2>4, AppMove
<1>3. ASSUME NEW t \in user[u].trigs, user' = [user EXCEPT ![u].trigs = @ \ {t}]
      PROVE  UsersType'
  <2>1. user' = [user EXCEPT ![u].pc = "row", ![u].trigs = user[u].trigs \ {t},
                             ![u].body = user[u].body, ![u].row = user[u].row]
    BY <1>1, <1>3 DEF TypeInv, UsersType, RequestRecord
  <2>2. user[u].body \in Bodies /\ user[u].row \in TrigRow /\ user[u].trigs \ {t} \subseteq Triggers
    BY <1>1 DEF RequestRecord
  <2> QED
    BY <1>1, <2>1, <2>2, AppMove DEF TypeInv
<1>4. UsersType'
  BY <1>2, <1>3, LeaveType DEF AppRow, TypeInv
<1> QED
  BY <1>4
  DEF AppRow, rows, celery, TypeInv, RowsType, QueueType, WorkersType, RunsType, CountType

LEMMA GoesType ==
    ASSUME NEW m \in Messages, NEW l \in {"list", "remove", "add"}, NEW left \in SUBSET Jobs
    PROVE  Goes(m, l, left) \in [pc : {"idle", "list", "remove", "add"}, message : Messages,
                                 found : SUBSET Jobs]
BY BlankTypes DEF Goes, Messages

LEMMA WorkerStepType ==
    ASSUME TypeInv, NEW w \in Workers, WorkerStep(w) \/ WorkerDies(w)
    PROVE  TypeInv'
<1> DEFINE m == worker[w].message
<1>1. m \in Messages /\ worker[w].found \subseteq Jobs /\ m.trigger \in Triggers
  BY DEF TypeInv, WorkersType, Messages
<1>2. CASE Take(w)
  <2>1. Head(queue) \in Messages /\ Tail(queue) \in Seq(Messages)
    BY <1>2 DEF Take, TypeInv, QueueType
  <2>2. Head(queue).trigger \in Triggers
    BY <2>1 DEF Messages
  <2>3. QueueType'
    BY <1>2, <2>1 DEF Take, TypeInv, QueueType
  <2>4. WorkersType'
    <3>1. [pc |-> "list", message |-> Head(queue), found |-> {}] \in
            [pc : {"idle", "list", "remove", "add"}, message : Messages, found : SUBSET Jobs]
      BY <2>1
    <3> QED
      BY <1>2, <2>2, <3>1 DEF Take, TypeInv, WorkersType
  <2> QED
    BY <1>2, <2>3, <2>4 DEF Take, rows, TypeInv, RowsType, RunsType, UsersType, CountType
<1>3. CASE ListJobs(w)
  <2>1. Goes(m, "remove", jobs[m.trigger]) \in
            [pc : {"idle", "list", "remove", "add"}, message : Messages, found : SUBSET Jobs]
    BY <1>1, GoesType DEF TypeInv, WorkersType
  <2>2. WorkersType'
    BY <1>3, <2>1 DEF ListJobs, TypeInv, WorkersType
  <2> QED
    BY <1>3, <2>2
    DEF ListJobs, rows, TypeInv, RowsType, QueueType, RunsType, UsersType, CountType
<1>4. CASE RemoveJob(w)
  <2>1. PICK j \in worker[w].found :
          /\ jobs' = [jobs EXCEPT ![m.trigger] = jobs[m.trigger] \ {j}]
          /\ worker' = [worker EXCEPT ![w] = Goes(m, "remove", worker[w].found \ {j})]
    BY <1>1, <1>4 DEF RemoveJob, TypeInv, WorkersType
  <2>2. Goes(m, "remove", worker[w].found \ {j}) \in
            [pc : {"idle", "list", "remove", "add"}, message : Messages, found : SUBSET Jobs]
    BY <1>1, GoesType
  <2>3. WorkersType'
    BY <1>1, <1>4, <2>1, <2>2 DEF RemoveJob, TypeInv, WorkersType
  <2> QED
    BY <1>4, <2>3
    DEF RemoveJob, rows, TypeInv, RowsType, QueueType, RunsType, UsersType, CountType
<1>5. CASE AddJob(w)
  <2>1. PICK j \in worker[w].found :
          /\ jobs' = [jobs EXCEPT ![m.trigger] = jobs[m.trigger] \cup {j}]
          /\ worker' = [worker EXCEPT ![w] = Goes(m, "add", worker[w].found \ {j})]
    BY <1>1, <1>5 DEF AddJob, TypeInv, WorkersType
  <2>2. Goes(m, "add", worker[w].found \ {j}) \in
            [pc : {"idle", "list", "remove", "add"}, message : Messages, found : SUBSET Jobs]
    BY <1>1, GoesType
  <2>3. WorkersType'
    BY <1>1, <1>5, <2>1, <2>2 DEF AddJob, TypeInv, WorkersType
  <2> QED
    BY <1>5, <2>3
    DEF AddJob, rows, TypeInv, RowsType, QueueType, RunsType, UsersType, CountType
<1>6. CASE WorkerDies(w)
  <2>1. WorkersType'
    BY <1>1, <1>6, BlankTypes DEF WorkerDies, TypeInv, WorkersType
  <2> QED
    BY <1>6, <2>1
    DEF WorkerDies, rows, TypeInv, RowsType, QueueType, RunsType, UsersType, CountType
<1> QED
  BY <1>2, <1>3, <1>4, <1>5, <1>6 DEF WorkerStep

RunRecords ==
    [pc : {"none", "source", "record", "chat", "killed"}, trigger : Triggers,
     source : Sources, started : BOOLEAN]

LEMMA RunStepType ==
    ASSUME TypeInv, NEW r \in Runs, RunStep(r) \/ RunDies(r)
    PROVE  TypeInv'
<1>1. run[r] \in RunRecords /\ NoRun \in RunRecords /\ run \in [Runs -> RunRecords]
  BY BlankTypes DEF TypeInv, RunsType, RunRecords
<1>2. RunsType'
  <2>1. ASSUME NEW n \in RunRecords, run' = [run EXCEPT ![r] = n] PROVE RunsType'
    BY <1>1, <2>1 DEF RunsType, RunRecords
  <2>2. CASE RunSource(r)
    <3>1. [NoRun EXCEPT !.pc = "record", !.trigger = run[r].trigger] \in RunRecords
      BY <1>1 DEF RunRecords
    <3> QED
      BY <1>1, <2>1, <2>2, <3>1 DEF RunSource
  <2>3. CASE RunRecord(r)
    <3>1. [run[r] EXCEPT !.pc = "chat", !.started = TRUE] \in RunRecords
      BY <1>1 DEF RunRecords
    <3>2. \/ run' = [run EXCEPT ![r] = [run[r] EXCEPT !.pc = "chat", !.started = TRUE]]
          \/ run' = [run EXCEPT ![r] = NoRun]
      BY <1>1, <2>3 DEF RunRecord
    <3> QED
      BY <1>1, <2>1, <3>1, <3>2
  <2>4. CASE RunEnd(r)
    BY <1>1, <2>1, <2>4 DEF RunEnd
  <2>5. CASE RunDies(r)
    <3>1. [NoRun EXCEPT !.pc = "killed", !.trigger = run[r].trigger, !.started = run[r].started]
            \in RunRecords
      BY <1>1 DEF RunRecords
    <3> QED
      BY <2>1, <2>5, <3>1 DEF RunDies
  <2> QED
    BY <2>2, <2>3, <2>4, <2>5 DEF RunStep
<1>3. RowsType'
  <2>1. CASE RunSource(r)
    <3> DEFINE t == run[r].trigger
               s == run[r].source
    <3>1. [tasks[t] EXCEPT ![s] = "gone"] \in [Sources -> TaskRow] /\ t \in Triggers
      BY <1>1 DEF RunRecords, TaskRow, TypeInv, RowsType
    <3>2. tasks' = tasks \/ tasks' = [tasks EXCEPT ![t] = [tasks[t] EXCEPT ![s] = "gone"]]
      BY <2>1, <3>1 DEF RunSource, TypeInv, RowsType
    <3> QED
      BY <2>1, <3>1, <3>2 DEF RunSource, TypeInv, RowsType
  <2> QED
    BY <2>1 DEF RunStep, RunRecord, RunEnd, RunDies, rows, TypeInv, RowsType
<1>4. CountType'
  BY <1>1
  DEF RunStep, RunSource, RunRecord, RunEnd, RunDies, TypeInv, CountType, RunRecords
<1> QED
  BY <1>2, <1>3, <1>4
  DEF RunStep, RunSource, RunRecord, RunEnd, RunDies, celery, TypeInv, QueueType, WorkersType,
      UsersType

LEMMA FireType ==
    ASSUME TypeInv, NEW r \in Runs, NEW t \in Triggers, NEW j \in Jobs, Fire(r, t, j)
    PROVE  TypeInv'
<1>1. j[1] \in Sources /\ NoRun \in RunRecords
  BY BlankTypes DEF Jobs, RunRecords
<1>2. [NoRun EXCEPT !.pc = "source", !.trigger = t, !.source = j[1]] \in RunRecords
  BY <1>1 DEF RunRecords
<1>3. RunsType'
  BY <1>2 DEF Fire, TypeInv, RunsType, RunRecords
<1> QED
  BY <1>3 DEF Fire, rows, celery, TypeInv, RowsType, QueueType, WorkersType, UsersType, CountType

LEMMA TypeStep == TypeInv /\ [Next]_vars => TypeInv'
<1> SUFFICES ASSUME TypeInv, [Next]_vars PROVE TypeInv'
  OBVIOUS
<1>1. ASSUME NEW u \in Users, NewRequest(u) PROVE TypeInv'
  BY <1>1, InsertType, EditType, SwitchType, DeleteType, SourceDeleteType, AppDeleteType
  DEF NewRequest
<1>2. ASSUME NEW u \in Users, UserStep(u) PROVE TypeInv'
  BY <1>2, EditSaveType, EditSendType, SwitchSendType, ReadTasksType, DeliverType, CommitType,
     DeleteTasksType, DeleteRowType, AppSelectType, AppTasksType, AppRowType DEF UserStep
<1>3. CASE Rest \/ UNCHANGED vars
  BY <1>3 DEF Rest, vars, TypeInv, RowsType, QueueType, WorkersType, RunsType, UsersType, CountType
<1> QED
  BY <1>1, <1>2, <1>3, WorkerStepType, RunStepType, FireType DEF Next

\* Requests, messages, jobs and runs have their types in every state.
THEOREM TypeCorrect == Spec => []TypeOK
BY TypeInit, TypeStep, TypeInvIsEnough, PTL DEF Spec

-----------------------------------------------------------------------------
(* The rows and the last message, one trigger at a time.                   *)

\* The request will still send what the rows say then, or leave nothing to deploy.
Mends(r, t) ==
    \/ /\ r.op = "edit"
       /\ r.pc \in {"send", "deploy", "deliver"} \/ (r.pc = "save" /\ ~Refused(t, r.body))
    \/ /\ r.op \in {"switch", "reswitch"} /\ r.pc \in {"send", "deploy", "deliver"}
       /\ ~r.body \/ r.row.setting # Event
    \/ r.op = "app_delete" /\ trig[t].state = "live" /\ trig[t].active /\ trig[t].setting # Event
    \/ r.op \in {"delete", "batch_delete"}

\* It has sent, and will commit other rows than there are.
Writes(r) == r.op \in {"insert", "edit", "switch"} /\ r.pc = "commit"

Written(r, t) == JobsOf(r.row, IF BringsTasks(r) THEN r.tasks ELSE tasks[t])

Said(t) ==
    \/ \E u \in InProgress(t) : Mends(user[u], t)
    \/ \E u \in InProgress(t) : Writes(user[u]) /\ last[t] = Written(user[u], t)
    \/ (\A u \in InProgress(t) : ~Writes(user[u])) /\ last[t] = JobsOf(trig[t], tasks[t])

\* Requests that meet are of one group, and one of them holds the lock.
Apart(t) ==
    \A u, v \in InProgress(t) :
        u # v => Compatible(user[u].op, user[v].op) /\ ~(user[u].locks /\ user[v].locks)

\* It has read the tasks of the trigger, and will send them.
HasRead(r, t) ==
    /\ r.pc = "deliver"
    /\ \/ r.op = "edit" /\ ~BringsTasks(r)
       \/ r.op \in {"switch", "reswitch"} /\ r.body
       \/ r.op = "app_delete" /\ r.body = t

\* What a request remembers of the rows is still so.
Knows(r, t) ==
    /\ r.op \notin {"retask", "source_delete"}
    /\ r.op = "insert" => trig[t].state = "new"
    /\ r.op = "switch" => r.row = [trig[t] EXCEPT !.active = r.body]
    /\ r.op = "reswitch" => r.row = trig[t] /\ r.row.active = r.body
    /\ r.op = "rename" => r.row = [trig[t] EXCEPT !.state = "live"]
    /\ r.op = "app_delete" /\ r.pc \in {"deploy", "deliver"} /\ r.body = t => r.row = trig[t]
    /\ HasRead(r, t) => r.tasks = tasks[t]
    /\ r.op \in {"delete", "batch_delete"} => last[t] = {}

Known(t) == \A u \in InProgress(t) : Knows(user[u], t)

Bare(t) == trig[t].state # "live" => tasks[t] = NoTasks

InStep(t) == t \notin astray => Apart(t) /\ Known(t) /\ Said(t) /\ Bare(t)

NewIsQuiet(t) ==
    trig[t].state = "new" =>
        /\ t \notin astray /\ tasks[t] = NoTasks
        /\ \A u \in InProgress(t) : user[u].op = "insert"

RowsInv == \A t \in Triggers : InStep(t) /\ NewIsQuiet(t)

LEMMA RowsInvIsEnough == RowsInv => LastMessageIsTheRows
<1> SUFFICES ASSUME RowsInv, NEW t \in Triggers, InProgress(t) = {}, t \notin astray
             PROVE  last[t] = JobsOf(trig[t], tasks[t])
  BY DEF LastMessageIsTheRows
<1> QED
  BY DEF RowsInv, InStep, Said

LEMMA RowsInit == Init => RowsInv
<1> SUFFICES ASSUME Init, NEW t \in Triggers PROVE InStep(t) /\ NewIsQuiet(t)
  BY DEF RowsInv
<1>1. PICK D \in SUBSET Triggers, b \in Creations :
        LET row == [state |-> "live", active |-> b.active, setting |-> b.setting] IN
        /\ trig = [x \in Triggers |-> IF x \in D THEN row ELSE NoRow]
        /\ tasks = [x \in Triggers |-> IF x \in D THEN TaskRows(b.tasks, Sources) ELSE NoTasks]
        /\ jobs = [x \in Triggers |-> JobsOf(trig[x], tasks[x])]
        /\ user = [u \in Users |-> NoRequest] /\ last = jobs /\ astray = {}
  BY DEF Init
<1>2. InProgress(t) = {}
  BY <1>1 DEF InProgress, NoRequest
<1>3. last[t] = JobsOf(trig[t], tasks[t]) /\ t \notin astray
  BY <1>1
<1>4. trig[t].state # "live" => tasks[t] = NoTasks
  BY <1>1 DEF NoRow
<1> QED
  BY <1>2, <1>3, <1>4 DEF InStep, Apart, Known, Said, Bare, NewIsQuiet

-----------------------------------------------------------------------------
(* The groups.                                                             *)

LEMMA CompatibleIs ==
    ASSUME NEW a, NEW b
    PROVE  /\ Compatible(a, b) <=> Compatible(b, a)
           /\ Compatible(a, b) <=>
                \/ {a, b} \subseteq {"edit", "switch"}
                \/ {a, b} \subseteq {"rename", "reswitch", "app_delete"}
                \/ {a, b} \subseteq {"rename", "delete", "batch_delete"}
BY DEF Compatible, Groups

\* Which triggers a request leads astray, and which it sets right.
LEMMA AstrayIs ==
    ASSUME NEW u, NEW op, NEW T, NEW sends, NEW t
    PROVE  /\ t \notin T => (t \in Astray(u, op, T, sends) <=> t \in astray)
           /\ t \in T /\ t \notin Astray(u, op, T, sends) =>
                /\ op \notin {"retask", "source_delete"}
                /\ \A v \in InProgress(t) \ {u} : Compatible(op, user[v].op)
                /\ t \notin astray \/ (sends /\ InProgress(t) \ {u} = {})
<1> DEFINE others == [x \in T |-> InProgress(x) \ {u}]
           met == {x \in T : \E v \in others[x] : ~Compatible(op, user[v].op)}
<1>1. CASE op \in {"retask", "source_delete"}
  BY <1>1 DEF Astray
<1>2. CASE op \notin {"retask", "source_delete"}
  <2>1. Astray(u, op, T, sends) = (astray \ {x \in T : sends /\ others[x] = {}}) \cup met
    BY <1>2 DEF Astray
  <2>2. t \in T => others[t] = InProgress(t) \ {u}
    OBVIOUS
  <2> HIDE DEF others
  <2> QED
    BY <1>2, <2>1, <2>2
<1> QED
  BY <1>1, <1>2

-----------------------------------------------------------------------------
(* What a step of one request changes.                                     *)

\* The request u becomes r.
Becomes(u, r) ==
    /\ user'[u] = r /\ \A v \in Users \ {u} : user'[v] = user[v]

Others(u, t) == InProgress(t) \ {u}

LEMMA Moves ==
    ASSUME UsersType, NEW u \in Users, NEW r, user' = [user EXCEPT ![u] = r]
    PROVE  Becomes(u, r)
BY DEF UsersType, Becomes

LEMMA ProgressMoves ==
    ASSUME NEW u \in Users, NEW r, Becomes(u, r), NEW t
    PROVE  /\ InProgress(t)' = Others(u, t) \cup (IF t \in r.trigs THEN {u} ELSE {})
           /\ \A v \in Others(u, t) : v \in Users \ {u} /\ user'[v] = user[v]
BY DEF Becomes, InProgress, Others

\* Nothing happens to the trigger.
Same(t) ==
    /\ trig'[t] = trig[t] /\ tasks'[t] = tasks[t] /\ last'[t] = last[t]

\* Nothing happens to the trigger and to the requests on it.
LEMMA Still ==
    ASSUME NEW t, InStep(t), NewIsQuiet(t), Same(t), t \in astray' <=> t \in astray,
           InProgress(t)' = InProgress(t), \A v \in InProgress(t) : user'[v] = user[v]
    PROVE  InStep(t)' /\ NewIsQuiet(t)'
<1>2. \A v \in InProgress(t) :
        /\ Mends(user[v], t)' <=> Mends(user[v], t)
        /\ Written(user[v], t)' = Written(user[v], t)
        /\ Writes(user[v])' <=> Writes(user[v])
        /\ Knows(user[v], t)' <=> Knows(user[v], t)
  <2> SUFFICES ASSUME NEW v \in InProgress(t)
               PROVE  /\ Mends(user[v], t)' <=> Mends(user[v], t)
                      /\ Written(user[v], t)' = Written(user[v], t)
                      /\ Writes(user[v])' <=> Writes(user[v])
                      /\ Knows(user[v], t)' <=> Knows(user[v], t)
    OBVIOUS
  <2>1. Mends(user[v], t)' <=> Mends(user[v], t)
    BY DEF Same, Mends, Refused
  <2>2. Written(user[v], t)' = Written(user[v], t)
    BY DEF Same, Written, BringsTasks
  <2>3. Writes(user[v])' <=> Writes(user[v])
    BY DEF Writes
  <2>4. Knows(user[v], t)' <=> Knows(user[v], t)
    BY DEF Same, Knows
  <2> QED
    BY <2>1, <2>2, <2>3, <2>4
<1>3. JobsOf(trig[t], tasks[t])' = JobsOf(trig[t], tasks[t])
  BY DEF Same, JobsOf
<1>4. Said(t) => Said(t)'
  BY <1>2, <1>3 DEF Said, Same
<1>5. Known(t) => Known(t)'
  BY <1>2 DEF Known
<1>6. Apart(t) => Apart(t)'
  BY DEF Apart
<1>7. (Bare(t) => Bare(t)') /\ NewIsQuiet(t)'
  BY DEF Same, Bare, NewIsQuiet
<1> QED
  BY <1>4, <1>5, <1>6, <1>7 DEF InStep

LEMMA Elsewhere ==
    ASSUME NEW u \in Users, NEW r, Becomes(u, r), NEW t, InStep(t), NewIsQuiet(t), Same(t),
           t \notin user[u].trigs, t \notin r.trigs, t \in astray' <=> t \in astray
    PROVE  InStep(t)' /\ NewIsQuiet(t)'
<1>1. InProgress(t)' = InProgress(t) /\ \A v \in InProgress(t) : user'[v] = user[v]
  BY ProgressMoves DEF Others, InProgress
<1> QED
  BY <1>1, Still

LEMMA OneTriggerStep ==
    ASSUME RowsInv, NEW u \in Users, NEW r, Becomes(u, r), NEW t \in Triggers,
           user[u].trigs \subseteq {t}, r.trigs \subseteq {t},
           \A x \in Triggers \ {t} : Same(x) /\ (x \in astray' <=> x \in astray),
           InStep(t)', NewIsQuiet(t)'
    PROVE  RowsInv'
<1>1. ASSUME NEW x \in Triggers, x # t PROVE InStep(x)' /\ NewIsQuiet(x)'
  BY <1>1, Elsewhere DEF RowsInv
<1> QED
  BY <1>1 DEF RowsInv

LEMMA FromIdle ==
    ASSUME UsersType, NEW u \in Users, user[u].pc = "idle"
    PROVE  user[u].trigs = {} /\ \A t : u \notin InProgress(t) /\ Others(u, t) = InProgress(t)
<1>1. user[u] = NoRequest
  BY UserFacts
  DEF RequestShape, AppDeleteShape, EditShape, InsertShape, SwitchShape, DeleteShape,
      SourceDeleteShape
<1>2. user[u].trigs = {}
  BY <1>1 DEF NoRequest
<1> QED
  BY <1>2 DEF InProgress, Others

\* A request comes to a trigger, and sends nothing, or that nothing is to be deployed.
LEMMA ArrivalStep ==
    ASSUME UsersType, NEW u \in Users, NEW r, Becomes(u, r), NEW t \in Triggers,
           InStep(t), NewIsQuiet(t),
           t \notin user[u].trigs, t \in r.trigs, trig[t].state # "new",
           t \notin astray' => trig[t].state = "live",
           trig'[t] = trig[t], tasks'[t] = tasks[t],
           r.locks => ~RowLocked(t), ~Writes(r), Knows(r, t)',
           last'[t] = last[t] \/ (Mends(r, t) /\ last'[t] = {}),
           t \notin astray' =>
                /\ \A v \in InProgress(t) \ {u} : Compatible(r.op, user[v].op)
                /\ t \notin astray \/ (Mends(r, t) /\ InProgress(t) \ {u} = {})
    PROVE  InStep(t)' /\ NewIsQuiet(t)'
<1> SUFFICES ASSUME t \notin astray' PROVE Apart(t)' /\ Known(t)' /\ Said(t)' /\ Bare(t)'
  BY DEF InStep, NewIsQuiet
<1>1. /\ InProgress(t)' = InProgress(t) \cup {u} /\ u \notin InProgress(t) /\ user'[u] = r
      /\ \A v \in InProgress(t) : v # u /\ user'[v] = user[v]
  BY ProgressMoves DEF Becomes, Others, InProgress
<1>2. ASSUME NEW v \in InProgress(t)
      PROVE  /\ t \notin astray
             /\ Compatible(r.op, user[v].op) /\ Compatible(user[v].op, r.op)
             /\ ~(r.locks /\ user[v].locks)
  BY <1>1, CompatibleIs DEF RowLocked
<1>3. Apart(t)'
  <2>1. ASSUME NEW v \in InProgress(t), NEW w \in InProgress(t), v # w
        PROVE  Compatible(user[v].op, user[w].op) /\ ~(user[v].locks /\ user[w].locks)
    BY <1>2, <2>1 DEF InStep, Apart
  <2> QED
    BY <1>1, <1>2, <2>1 DEF Apart, Compatible
<1>4. Mends(r, t)' <=> Mends(r, t)
  BY DEF Mends, Refused
<1>5. ASSUME NEW v \in InProgress(t)
      PROVE  /\ Mends(user[v], t)' <=> Mends(user[v], t)
             /\ Written(user[v], t)' = Written(user[v], t)
             /\ Writes(user[v])' <=> Writes(user[v])
             /\ Knows(user[v], t)'
  <2>1. Mends(user[v], t)' <=> Mends(user[v], t)
    BY <1>1 DEF Mends, Refused
  <2>2. Written(user[v], t)' = Written(user[v], t)
    BY <1>1 DEF Written, BringsTasks
  <2>3. Writes(user[v])' <=> Writes(user[v])
    BY <1>1 DEF Writes
  <2>4. Knows(user[v], t)'
    <3>1. Knows(user[v], t)
      BY <1>2 DEF InStep, Known
    <3>2. user[v].op \in {"delete", "batch_delete"} => last[t] = {} /\ last'[t] = {}
      BY <3>1 DEF Knows
    <3> QED
      BY <1>1, <3>1, <3>2 DEF Knows
  <2> QED
    BY <2>1, <2>2, <2>3, <2>4
<1>6. Known(t)'
  BY <1>1, <1>5 DEF Known, Knows
<1>7. Said(t)'
  <2>1. CASE Mends(r, t)
    <3>1. Mends(user[u], t)'
      BY <1>1, <2>1 DEF Mends, Refused
    <3> QED
      BY <1>1, <3>1 DEF Said
  <2>2. CASE ~Mends(r, t)
    <3>1. Said(t) /\ last'[t] = last[t]
      BY <2>2 DEF InStep
    <3>2. ~Writes(user[u])'
      BY <1>1 DEF Writes
    <3>3. JobsOf(trig[t], tasks[t])' = JobsOf(trig[t], tasks[t])
      BY DEF JobsOf
    <3> QED
      BY <1>1, <1>5, <3>1, <3>2, <3>3 DEF Said
  <2> QED
    BY <2>1, <2>2
<1>8. Bare(t)'
  BY DEF Bare
<1> QED
  BY <1>3, <1>6, <1>7, <1>8

LEMMA EditKeeps ==
    ASSUME TypeInv, RowsInv, NEW u \in Users, NEW t \in Triggers, NEW b \in Edits, Edit(u, t, b)
    PROVE  RowsInv'
<1> DEFINE q == Request("save", EditKind(b), t)
           sends == Redeploys(b) /\ ~Refused(t, b)
<1>0. PICK r : r = [q EXCEPT !.body = b, !.row = trig[t]]
  OBVIOUS
<1>1. /\ UsersType /\ InStep(t) /\ NewIsQuiet(t) /\ trig[t] \in TrigRow
      /\ EditKind(b) \in {"edit", "rename", "retask"}
  BY DEF TypeInv, RowsInv, RowsType, EditKind
<1>2. /\ trig[t].state = "live" /\ user[u].pc = "idle" /\ user' = [user EXCEPT ![u] = r]
      /\ astray' = Astray(u, EditKind(b), {t}, sends) /\ UNCHANGED <<trig, tasks, last>>
  BY <1>0 DEF Edit, Arrive, rows
<1>3. /\ q \in RequestRecord /\ q.pc = "save" /\ q.op = EditKind(b) /\ q.trigs = {t} /\ ~q.locks
  BY <1>1, RequestIs DEF UserPcs, OpNames
<1> HIDE DEF q
<1>4. /\ r.pc = "save" /\ r.op = EditKind(b) /\ r.trigs = {t} /\ ~r.locks
      /\ r.body = b /\ r.row = trig[t]
  BY <1>0, <1>3 DEF RequestRecord
<1>5. Becomes(u, r)
  BY <1>1, <1>2, Moves
<1>6. sends => Mends(r, t)
  BY <1>4 DEF Mends, EditKind
<1>7. /\ \A x \in Triggers \ {t} : x \in astray' <=> x \in astray
      /\ t \notin astray' =>
            /\ EditKind(b) # "retask"
            /\ \A v \in InProgress(t) \ {u} : Compatible(r.op, user[v].op)
            /\ t \notin astray \/ (Mends(r, t) /\ InProgress(t) \ {u} = {})
  <2> HIDE DEF sends
  <2> QED
    BY <1>2, <1>4, <1>6, AstrayIs
<1>8. ASSUME t \notin astray' PROVE Knows(r, t)'
  BY <1>1, <1>2, <1>4, <1>7, <1>8 DEF Knows, HasRead, TrigRow
<1>9. ~Writes(r)
  BY <1>4 DEF Writes
<1>10. InStep(t)' /\ NewIsQuiet(t)'
  <2>1. CASE t \notin astray'
    BY <1>1, <1>2, <1>4, <1>5, <1>7, <1>8, <1>9, <2>1, FromIdle, ArrivalStep
  <2>2. CASE t \in astray'
    BY <1>2, <2>2 DEF InStep, NewIsQuiet
  <2> QED
    BY <2>1, <2>2
<1>11. user[u].trigs = {}
  BY <1>1, <1>2, FromIdle
<1> QED
  BY <1>2, <1>4, <1>5, <1>7, <1>10, <1>11, OneTriggerStep DEF Same

LEMMA SwitchKeeps ==
    ASSUME TypeInv, RowsInv, NEW u \in Users, NEW t \in Triggers, NEW b \in BOOLEAN,
           Switch(u, t, b)
    PROVE  RowsInv'
<1> DEFINE kind == IF trig[t].active # b THEN "switch" ELSE "reswitch"
           q == Request("send", kind, t)
           row == [trig[t] EXCEPT !.active = b]
           sends == ~b \/ trig[t].setting # Event
<1>0. PICK r : r = [q EXCEPT !.body = b, !.row = row, !.locks = (kind = "switch")]
  OBVIOUS
<1>1. /\ UsersType /\ InStep(t) /\ NewIsQuiet(t) /\ trig[t] \in TrigRow
      /\ kind \in {"switch", "reswitch"}
  BY DEF TypeInv, RowsInv, RowsType
<1>2. /\ trig[t].state = "live" /\ user[u].pc = "idle" /\ user' = [user EXCEPT ![u] = r]
      /\ astray' = Astray(u, kind, {t}, sends) /\ UNCHANGED <<trig, tasks, last>>
      /\ kind = "switch" => ~RowLocked(t)
  BY <1>0 DEF Switch, Arrive, rows
<1>3. /\ q \in RequestRecord /\ q.pc = "send" /\ q.op = kind /\ q.trigs = {t}
  <2> HIDE DEF kind
  <2> QED
    BY <1>1, RequestIs DEF UserPcs, OpNames
<1>4. row.setting = trig[t].setting /\ row.active = b /\ (kind = "reswitch" => row = trig[t])
  BY <1>1 DEF TrigRow
<1> HIDE DEF q
<1>5. /\ r.pc = "send" /\ r.op = kind /\ r.trigs = {t} /\ (r.locks <=> kind = "switch")
      /\ r.body = b /\ r.row = row
  <2> HIDE DEF kind, row
  <2> QED
    BY <1>0, <1>3 DEF RequestRecord
<1>6. Becomes(u, r)
  BY <1>1, <1>2, Moves
<1>7. sends => Mends(r, t)
  <2> HIDE DEF kind, row
  <2> QED
    BY <1>1, <1>4, <1>5 DEF Mends
<1>8. /\ \A x \in Triggers \ {t} : x \in astray' <=> x \in astray
      /\ t \notin astray' =>
            /\ \A v \in InProgress(t) \ {u} : Compatible(r.op, user[v].op)
            /\ t \notin astray \/ (Mends(r, t) /\ InProgress(t) \ {u} = {})
  <2> HIDE DEF sends, kind
  <2> QED
    BY <1>2, <1>5, <1>7, AstrayIs
<1>9. Knows(r, t)'
  <2>1. Knows(r, t)' <=> Knows(r, t)
    BY <1>2 DEF Knows
  <2>2. r.op = "switch" => r.row = [trig[t] EXCEPT !.active = r.body]
    BY <1>5
  <2> HIDE DEF kind, row
  <2> QED
    BY <1>1, <1>4, <1>5, <2>1, <2>2 DEF Knows, HasRead
<1> HIDE DEF kind, row
<1>10. ~Writes(r)
  BY <1>5 DEF Writes
<1>11. InStep(t)' /\ NewIsQuiet(t)'
  BY <1>1, <1>2, <1>5, <1>6, <1>8, <1>9, <1>10, FromIdle, ArrivalStep
<1>12. user[u].trigs = {}
  BY <1>1, <1>2, FromIdle
<1> QED
  BY <1>2, <1>5, <1>6, <1>8, <1>11, <1>12, OneTriggerStep DEF Same

LEMMA SendIs ==
    ASSUME QueueType, NEW t \in Triggers, NEW js, Send(t, js)
    PROVE  last'[t] = js /\ \A x \in Triggers \ {t} : last'[x] = last[x]
BY DEF Send, QueueType

LEMMA DeleteKeeps ==
    ASSUME TypeInv, RowsInv, NEW u \in Users, NEW t \in Triggers, NEW op, Delete(u, t, op)
    PROVE  RowsInv'
<1> DEFINE l == IF op = "delete" THEN "tasks" ELSE "row"
<1>0. PICK r : r = Request(l, op, t)
  OBVIOUS
<1>1. /\ UsersType /\ InStep(t) /\ NewIsQuiet(t) /\ op \in {"delete", "batch_delete"}
      /\ l \in {"tasks", "row"}
  BY DEF TypeInv, RowsInv, Delete
<1>2. /\ trig[t].state = "live" /\ user[u].pc = "idle" /\ user' = [user EXCEPT ![u] = r]
      /\ astray' = Astray(u, op, {t}, TRUE) /\ UNCHANGED <<trig, tasks>>
  BY <1>0 DEF Delete, Arrive, rows
<1>3. last'[t] = {} /\ \A x \in Triggers \ {t} : last'[x] = last[x]
  BY SendIs DEF Delete, Undeploy, TypeInv
<1>4. r.pc = l /\ r.op = op /\ r.trigs = {t} /\ ~r.locks
  BY <1>0, <1>1, RequestIs DEF UserPcs, OpNames
<1> HIDE DEF l
<1>5. Becomes(u, r)
  BY <1>1, <1>2, Moves
<1>6. Mends(r, t) /\ ~Writes(r)
  BY <1>1, <1>4 DEF Mends, Writes
<1>7. /\ \A x \in Triggers \ {t} : x \in astray' <=> x \in astray
      /\ t \notin astray' =>
            /\ \A v \in InProgress(t) \ {u} : Compatible(r.op, user[v].op)
            /\ t \notin astray \/ (Mends(r, t) /\ InProgress(t) \ {u} = {})
  <2>1. PICK sends : sends = TRUE
    OBVIOUS
  <2>2. astray' = Astray(u, op, {t}, sends)
    BY <1>2, <2>1
  <2> QED
    BY <1>4, <1>6, <2>2, AstrayIs
<1>8. Knows(r, t)'
  BY <1>1, <1>3, <1>4 DEF Knows, HasRead
<1>9. InStep(t)' /\ NewIsQuiet(t)'
  BY <1>1, <1>2, <1>3, <1>4, <1>5, <1>6, <1>7, <1>8, FromIdle, ArrivalStep
<1>10. user[u].trigs = {}
  BY <1>1, <1>2, FromIdle
<1> QED
  BY <1>2, <1>3, <1>4, <1>5, <1>7, <1>9, <1>10, OneTriggerStep DEF Same

-----------------------------------------------------------------------------
(* A request at work on a trigger.                                         *)

\* The other requests are what they were, as long as the rows are.
LEMMA OthersAre ==
    ASSUME NEW u \in Users, NEW r, Becomes(u, r), NEW t, trig'[t] = trig[t],
           tasks'[t] = tasks[t], NEW v \in Others(u, t)
    PROVE  /\ v \in InProgress(t) /\ v # u /\ v \in InProgress(t)' /\ user'[v] = user[v]
           /\ Mends(user[v], t)' <=> Mends(user[v], t)
           /\ Written(user[v], t)' = Written(user[v], t)
           /\ Writes(user[v])' <=> Writes(user[v])
           /\ Knows(user[v], t) /\ (last'[t] = last[t] \/ user[v].op \notin {"delete", "batch_delete"})
                => Knows(user[v], t)'
<1>1. v \in InProgress(t) /\ v # u /\ v \in InProgress(t)' /\ user'[v] = user[v]
  BY ProgressMoves DEF Others
<1>2. Mends(user[v], t)' <=> Mends(user[v], t)
  BY <1>1 DEF Mends, Refused
<1>3. Written(user[v], t)' = Written(user[v], t)
  BY <1>1 DEF Written, BringsTasks
<1>4. Writes(user[v])' <=> Writes(user[v])
  BY <1>1 DEF Writes
<1>5. Knows(user[v], t) /\ (last'[t] = last[t] \/ user[v].op \notin {"delete", "batch_delete"})
        => Knows(user[v], t)'
  BY <1>1 DEF Knows
<1> QED
  BY <1>1, <1>2, <1>3, <1>4, <1>5

LEMMA ApartStays ==
    ASSUME NEW u \in Users, NEW r, Becomes(u, r), NEW t, Apart(t), t \in user[u].trigs,
           t \in r.trigs => r.op = user[u].op /\ (r.locks => user[u].locks \/ ~RowLocked(t))
    PROVE  Apart(t)'
<1>1. /\ InProgress(t)' \subseteq InProgress(t) /\ u \in InProgress(t)
      /\ u \in InProgress(t)' => t \in r.trigs
      /\ user'[u] = r /\ \A v \in InProgress(t) \ {u} : user'[v] = user[v]
  BY DEF Becomes, InProgress
<1>2. ASSUME NEW v \in InProgress(t)', NEW w \in InProgress(t)', v # w
      PROVE  Compatible(user'[v].op, user'[w].op) /\ ~(user'[v].locks /\ user'[w].locks)
  <2>1. Compatible(user[v].op, user[w].op) /\ ~(user[v].locks /\ user[w].locks)
    BY <1>1, <1>2 DEF Apart
  <2>2. user'[v].op = user[v].op /\ user'[w].op = user[w].op
    BY <1>1
  <2>3. ~(user'[v].locks /\ user'[w].locks)
    BY <1>1, <1>2, <2>1 DEF RowLocked
  <2> QED
    BY <2>1, <2>2, <2>3
<1> QED
  BY <1>2 DEF Apart, Compatible

LEMMA QuietStays ==
    ASSUME NEW u \in Users, NEW r, Becomes(u, r), NEW t, NewIsQuiet(t), t \in user[u].trigs,
           t \in r.trigs => r.op = user[u].op, trig'[t] = trig[t], tasks'[t] = tasks[t],
           t \in astray' <=> t \in astray
    PROVE  NewIsQuiet(t)'
BY DEF Becomes, InProgress, NewIsQuiet

\* A request goes on without sending, and neither mends less nor writes.
LEMMA Stays ==
    ASSUME NEW u \in Users, NEW r, Becomes(u, r), NEW t, InStep(t), NewIsQuiet(t), Same(t),
           t \in user[u].trigs, t \in r.trigs, t \in astray' <=> t \in astray,
           r.op = user[u].op, r.locks => user[u].locks \/ ~RowLocked(t),
           t \notin astray => Knows(r, t), Mends(user[u], t) => Mends(r, t),
           ~Writes(user[u]), ~Writes(r)
    PROVE  InStep(t)' /\ NewIsQuiet(t)'
<1>1. NewIsQuiet(t)'
  BY QuietStays DEF Same
<1> SUFFICES ASSUME t \notin astray' PROVE Apart(t)' /\ Known(t)' /\ Said(t)' /\ Bare(t)'
  BY <1>1 DEF InStep
<1>2. Apart(t) /\ Known(t) /\ Said(t) /\ Bare(t)
  BY DEF InStep
<1>3. u \in InProgress(t) /\ InProgress(t)' = InProgress(t) /\ user'[u] = r
  BY DEF Becomes, InProgress
<1>4. ASSUME NEW v \in InProgress(t), v # u
      PROVE  /\ Mends(user[v], t)' <=> Mends(user[v], t)
             /\ Written(user[v], t)' = Written(user[v], t)
             /\ Writes(user[v])' <=> Writes(user[v])
             /\ Knows(user[v], t)'
  BY <1>2, <1>4, OthersAre DEF Same, Others, Known
<1>5. /\ Mends(user[u], t) => Mends(user[u], t)'
      /\ ~Writes(user[u])' /\ Knows(user[u], t)'
  <2>1. Mends(r, t) => Mends(user[u], t)'
    BY <1>3 DEF Mends, Refused, Same
  <2>2. ~Writes(user[u])'
    BY <1>3 DEF Writes
  <2>3. Knows(user[u], t)'
    BY <1>3 DEF Knows, Same
  <2> QED
    BY <2>1, <2>2, <2>3
<1>6. JobsOf(trig[t], tasks[t])' = JobsOf(trig[t], tasks[t])
  BY DEF Same, JobsOf
<1>7. Said(t)'
  BY <1>2, <1>3, <1>4, <1>5, <1>6 DEF Said, Same
<1>8. Known(t)'
  BY <1>3, <1>4, <1>5 DEF Known
<1>9. Apart(t)' /\ Bare(t)'
  BY <1>2, ApartStays DEF Bare, Same
<1> QED
  BY <1>7, <1>8, <1>9

\* A request that neither mends nor writes is done with the trigger.
LEMMA Leaves ==
    ASSUME NEW u \in Users, NEW r, Becomes(u, r), NEW t, InStep(t), NewIsQuiet(t), Same(t),
           t \in user[u].trigs, t \notin r.trigs, t \in astray' <=> t \in astray,
           t \notin astray => ~Mends(user[u], t) /\ ~Writes(user[u])
    PROVE  InStep(t)' /\ NewIsQuiet(t)'
<1>1. NewIsQuiet(t)'
  BY QuietStays DEF Same
<1> SUFFICES ASSUME t \notin astray' PROVE Apart(t)' /\ Known(t)' /\ Said(t)' /\ Bare(t)'
  BY <1>1 DEF InStep
<1>2. Apart(t) /\ Known(t) /\ Said(t) /\ Bare(t)
  BY DEF InStep
<1>3. u \in InProgress(t) /\ InProgress(t)' = InProgress(t) \ {u}
  BY DEF Becomes, InProgress
<1>4. ASSUME NEW v \in InProgress(t), v # u
      PROVE  /\ Mends(user[v], t)' <=> Mends(user[v], t)
             /\ Written(user[v], t)' = Written(user[v], t)
             /\ Writes(user[v])' <=> Writes(user[v])
             /\ Knows(user[v], t)'
  BY <1>2, <1>4, OthersAre DEF Same, Others, Known
<1>6. JobsOf(trig[t], tasks[t])' = JobsOf(trig[t], tasks[t])
  BY DEF Same, JobsOf
<1>7. Said(t)'
  BY <1>2, <1>3, <1>4, <1>6 DEF Said, Same
<1>8. Known(t)'
  BY <1>3, <1>4 DEF Known
<1>9. Apart(t)' /\ Bare(t)'
  BY <1>2, ApartStays DEF Bare, Same
<1> QED
  BY <1>7, <1>8, <1>9

\* A request sends what it is about to commit, or what the rows say.
LEMMA Sends ==
    ASSUME NEW u \in Users, NEW r, Becomes(u, r), NEW t, InStep(t), NewIsQuiet(t),
           trig'[t] = trig[t], tasks'[t] = tasks[t], t \in astray' <=> t \in astray,
           t \in user[u].trigs, user[u].op \in {"edit", "switch", "reswitch", "app_delete"},
           t \in r.trigs => r.op = user[u].op /\ (r.locks => user[u].locks),
           t \notin astray /\ t \in r.trigs => Knows(r, t),
           t \notin astray =>
              \/ t \in r.trigs /\ Writes(r) /\ last'[t] = Written(r, t)
              \/ /\ user[u].op \in {"reswitch", "app_delete"}
                 /\ last'[t] = JobsOf(trig[t], tasks[t])
    PROVE  InStep(t)' /\ NewIsQuiet(t)'
<1>1. NewIsQuiet(t)'
  BY QuietStays
<1> SUFFICES ASSUME t \notin astray' PROVE Apart(t)' /\ Known(t)' /\ Said(t)' /\ Bare(t)'
  BY <1>1 DEF InStep
<1>2. Apart(t) /\ Known(t) /\ Bare(t)
  BY DEF InStep
<1>3. /\ u \in InProgress(t) /\ user'[u] = r
      /\ InProgress(t)' \ {u} = Others(u, t) /\ (u \in InProgress(t)' <=> t \in r.trigs)
  BY DEF Becomes, InProgress, Others
<1>4. ASSUME NEW v \in Others(u, t)
      PROVE  /\ user[v].op \notin {"delete", "batch_delete", "insert"}
             /\ user[u].op \in {"reswitch", "app_delete"} => ~Writes(user[v])
  <2>1. Compatible(user[u].op, user[v].op)
    BY <1>2, <1>3, <1>4 DEF Apart, Others
  <2> QED
    BY <2>1, CompatibleIs DEF Writes
<1>5. Known(t)'
  <2>1. ASSUME NEW v \in Others(u, t) PROVE Knows(user[v], t)'
    BY <1>2, <1>4, <2>1, OthersAre DEF Known, Others
  <2>2. t \in r.trigs => Knows(user[u], t)'
    <3>1. user[u].op \notin {"delete", "batch_delete"}
      OBVIOUS
    <3> QED
      BY <1>3, <3>1 DEF Knows
  <2> QED
    BY <1>3, <2>1, <2>2 DEF Known
<1>6. Said(t)'
  <2>1. CASE t \in r.trigs /\ Writes(r) /\ last'[t] = Written(r, t)
    <3>1. Written(user[u], t)' = Written(r, t)
      BY <1>3 DEF Written, BringsTasks
    <3>2. Writes(user[u])'
      BY <1>3, <2>1 DEF Writes
    <3> QED
      BY <1>3, <2>1, <3>1, <3>2 DEF Said
  <2>2. CASE user[u].op \in {"reswitch", "app_delete"} /\ last'[t] = JobsOf(trig[t], tasks[t])
    <3>1. last'[t] = JobsOf(trig[t], tasks[t])'
      BY <2>2 DEF JobsOf
    <3>2. \A v \in Others(u, t) : ~Writes(user[v])'
      BY <1>4, <2>2, OthersAre
    <3>3. t \in r.trigs => ~Writes(user[u])'
      BY <1>3, <2>2 DEF Writes
    <3> QED
      BY <1>3, <3>1, <3>2, <3>3 DEF Said
  <2> QED
    BY <2>1, <2>2
<1>7. Apart(t)' /\ Bare(t)'
  BY <1>2, ApartStays DEF Bare
<1> QED
  BY <1>5, <1>6, <1>7

LEMMA InsertKeeps ==
    ASSUME TypeInv, RowsInv, NEW u \in Users, NEW t \in Triggers, NEW b \in Creations,
           Insert(u, t, b)
    PROVE  RowsInv'
<1> DEFINE row == [state |-> "live", active |-> b.active, setting |-> b.setting]
           new == TaskRows(b.tasks, Present)
           q == Request("commit", "insert", t)
<1>0. PICK r : r = [q EXCEPT !.body = b, !.row = row, !.tasks = new, !.locks = TRUE]
  OBVIOUS
<1>1. UsersType /\ InStep(t) /\ NewIsQuiet(t) /\ QueueType
  BY DEF TypeInv, RowsInv
<1>2. /\ trig[t].state = "new" /\ InProgress(t) = {} /\ user[u].pc = "idle"
      /\ user' = [user EXCEPT ![u] = r] /\ UNCHANGED <<trig, tasks, astray>>
      /\ \/ b.active /\ Deploy(t, row, new)
         \/ ~b.active /\ last' = last
  BY <1>0 DEF Insert, Arrive, rows
<1>3. q \in RequestRecord /\ q.pc = "commit" /\ q.op = "insert" /\ q.trigs = {t}
  BY RequestIs DEF UserPcs, OpNames
<1> HIDE DEF q
<1>4. /\ r.pc = "commit" /\ r.op = "insert" /\ r.trigs = {t} /\ r.body = b /\ r.row = row
      /\ r.tasks = new
  <2> HIDE DEF row, new
  <2> QED
    BY <1>0, <1>3 DEF RequestRecord
<1>5. Becomes(u, r)
  BY <1>1, <1>2, Moves
<1>6. t \notin astray /\ last[t] = {} /\ Bare(t)
  <2>1. t \notin astray
    BY <1>1, <1>2 DEF NewIsQuiet
  <2>2. Said(t) /\ Bare(t)
    BY <1>1, <2>1 DEF InStep
  <2>3. last[t] = JobsOf(trig[t], tasks[t])
    BY <1>2, <2>2 DEF Said
  <2> QED
    BY <1>2, <2>1, <2>2, <2>3 DEF JobsOf
<1>7. last'[t] = JobsOf(row, new) /\ \A x \in Triggers \ {t} : last'[x] = last[x]
  <2>1. row.state = "live" /\ row.active = b.active
    OBVIOUS
  <2>2. CASE b.active /\ row.setting # Event /\ Send(t, JobsOf(row, new))
    <3> HIDE DEF row, new
    <3> QED
      BY <1>1, <2>2, SendIs
  <2>3. CASE (~b.active \/ row.setting = Event) /\ last' = last
    <3>1. JobsOf(row, new) = {}
      BY <2>1, <2>3 DEF JobsOf
    <3> QED
      BY <1>6, <2>3, <3>1
  <2> QED
    BY <1>2, <2>2, <2>3 DEF Deploy
<1>8. BringsTasks(r)
  BY <1>4, CreationType DEF BringsTasks
<1> HIDE DEF row, new
<1>9. Written(r, t)' = JobsOf(row, new)
  BY <1>4, <1>8 DEF Written, BringsTasks
<1>10. InProgress(t)' = {u} /\ user'[u] = r
  BY <1>2, <1>4, <1>5, ProgressMoves, FromIdle, <1>1 DEF Becomes
<1>11. InStep(t)' /\ NewIsQuiet(t)'
  <2>1. Apart(t)'
    BY <1>10 DEF Apart
  <2>2. Known(t)'
    BY <1>2, <1>4, <1>10 DEF Known, Knows, HasRead
  <2>3. Written(user[u], t)' = JobsOf(row, new) /\ Writes(user[u])'
    <3>1. Written(user[u], t)' = Written(r, t)'
      BY <1>10 DEF Written, BringsTasks
    <3> QED
      BY <1>4, <1>9, <1>10, <3>1 DEF Writes
  <2>4. Said(t)'
    BY <1>7, <1>10, <2>3 DEF Said
  <2>5. Bare(t)' /\ NewIsQuiet(t)'
    BY <1>1, <1>2, <1>4, <1>6, <1>10 DEF Bare, NewIsQuiet
  <2> QED
    BY <2>1, <2>2, <2>4, <2>5 DEF InStep
<1>12. user[u].trigs = {}
  BY <1>1, <1>2, FromIdle
<1> QED
  BY <1>2, <1>4, <1>5, <1>7, <1>11, <1>12, OneTriggerStep DEF Same

LEMMA SourceDeleteKeeps ==
    ASSUME TypeInv, RowsInv, NEW u \in Users, NEW t \in Triggers, NEW s \in Sources,
           SourceDelete(u, t, s)
    PROVE  RowsInv'
<1> DEFINE final == \A x \in Sources \ {s} : tasks[t][x] = "gone"
           row == [trig[t] EXCEPT !.state = "gone"]
           q == Request("commit", "source_delete", t)
<1>0. PICK r : r = [q EXCEPT !.body = s, !.row = row, !.locks = final]
  OBVIOUS
<1>1. /\ trig[t].state = "live" /\ user[u].pc = "idle" /\ user' = [user EXCEPT ![u] = r]
      /\ astray' = Astray(u, "source_delete", {t}, FALSE) /\ UNCHANGED <<trig, tasks>>
  BY <1>0 DEF SourceDelete, Arrive, rows
<1>2. \A x \in Triggers \ {t} : last'[x] = last[x]
  BY SendIs DEF SourceDelete, Undeploy, TypeInv
<1>3. q \in RequestRecord /\ q.trigs = {t}
  BY RequestIs DEF UserPcs, OpNames
<1> HIDE DEF q, row, final
<1>4. r.trigs = {t}
  BY <1>0, <1>3 DEF RequestRecord
<1>5. Becomes(u, r) /\ user[u].trigs = {}
  BY <1>1, Moves, FromIdle DEF TypeInv
<1>6. t \in astray' /\ \A x \in Triggers \ {t} : x \in astray' <=> x \in astray
  <2>1. PICK sends : sends = FALSE
    OBVIOUS
  <2>2. astray' = Astray(u, "source_delete", {t}, sends)
    BY <1>1, <2>1
  <2> QED
    BY <2>2, AstrayIs
<1>7. InStep(t)' /\ NewIsQuiet(t)'
  BY <1>1, <1>6 DEF InStep, NewIsQuiet
<1> QED
  BY <1>1, <1>2, <1>4, <1>5, <1>6, <1>7, OneTriggerStep DEF Same

LEMMA AppDeleteKeeps ==
    ASSUME TypeInv, RowsInv, NEW u \in Users, NEW s \in Sources, AppDelete(u, s)
    PROVE  RowsInv'
<1>0. PICK r : r = [NoRequest EXCEPT !.pc = "select", !.op = "app_delete", !.body = s]
  OBVIOUS
<1>1. /\ user[u].pc = "idle" /\ user' = [user EXCEPT ![u] = r]
      /\ UNCHANGED <<trig, tasks, last, astray>>
  BY <1>0 DEF AppDelete, Arrive, celery
<1>2. r.trigs = {}
  BY <1>0 DEF NoRequest
<1>3. Becomes(u, r) /\ user[u].trigs = {}
  BY <1>1, Moves, FromIdle DEF TypeInv
<1> QED
  BY <1>1, <1>2, <1>3, Elsewhere DEF RowsInv, Same

\* A request whose triggers are {t}, with the shape its operation gives it.
LEMMA AtOne ==
    ASSUME UsersType, NEW u \in Users,
           \/ user[u].pc \in {"save", "send", "commit"}
           \/ user[u].pc \in {"deploy", "deliver"} /\ user[u].op # "app_delete"
           \/ user[u].op \in {"delete", "batch_delete"}
    PROVE  /\ user[u] \in RequestRecord /\ OneTrigger(user[u])
           /\ \E t \in Triggers : user[u].trigs = {t} /\ t = (CHOOSE x \in user[u].trigs : TRUE)
           /\ user[u].op \in {"edit", "rename", "retask"} => EditShape(user[u])
           /\ user[u].op = "insert" => InsertShape(user[u])
           /\ user[u].op \in {"switch", "reswitch"} => SwitchShape(user[u])
           /\ user[u].op \in {"delete", "batch_delete"} => DeleteShape(user[u])
           /\ user[u].op = "source_delete" => SourceDeleteShape(user[u])
           /\ user[u].op \in {"edit", "rename", "retask", "insert", "switch", "reswitch", "delete",
                              "batch_delete", "source_delete"}
<1>1. user[u] \in RequestRecord /\ RequestShape(user[u]) /\ OneTrigger(user[u])
  BY UserFacts
<1>2. \E t \in Triggers : user[u].trigs = {t} /\ t = (CHOOSE x \in user[u].trigs : TRUE)
  BY <1>1, UserFacts
<1>3. EditShape(user[u]) \/ InsertShape(user[u]) \/ SwitchShape(user[u])
        \/ DeleteShape(user[u]) \/ SourceDeleteShape(user[u])
  BY <1>1 DEF RequestShape, AppDeleteShape, NoRequest
<1> QED
  BY <1>1, <1>2, <1>3
  DEF EditShape, InsertShape, SwitchShape, DeleteShape, SourceDeleteShape

LEMMA EditSaveKeeps ==
    ASSUME TypeInv, RowsInv, NEW u \in Users, EditSave(u)
    PROVE  RowsInv'
<1> DEFINE b == user[u].body
           row == [state |-> "live",
                   active |-> IF b.active = Keep THEN user[u].row.active ELSE b.active,
                   setting |-> IF b.setting = Keep THEN user[u].row.setting ELSE b.setting]
           new == IF b.tasks = Keep THEN user[u].tasks ELSE TaskRows(b.tasks, Present)
<1>0. PICK n : n = [user[u] EXCEPT !.pc = "send", !.locks = TRUE, !.row = row, !.tasks = new]
  OBVIOUS
<1>1. UsersType /\ user[u].pc = "save" /\ UNCHANGED <<trig, tasks, last, astray>>
  BY DEF EditSave, TypeInv, rows
<1>2. PICK t \in Triggers : user[u].trigs = {t} /\ t = (CHOOSE x \in user[u].trigs : TRUE)
  BY <1>1, AtOne
<1>3. InStep(t) /\ NewIsQuiet(t) /\ trig[t] \in TrigRow
  BY DEF RowsInv, TypeInv, RowsType
<1>4. user[u] \in RequestRecord /\ EditShape(user[u])
  BY <1>1, AtOne DEF InsertShape, SwitchShape, DeleteShape, SourceDeleteShape
<1>5. ~RowLocked(t)
  BY <1>2 DEF EditSave
<1>6. ~Writes(user[u])
  BY <1>1 DEF Writes
<1>7. CASE Refused(t, b) /\ Leave(u)
  <2>1. Becomes(u, NoRequest) /\ NoRequest.trigs = {}
    BY <1>1, <1>7, Moves DEF Leave, NoRequest
  <2>2. ~Mends(user[u], t)
    BY <1>1, <1>4, <1>7 DEF Mends, EditShape
  <2>3. InStep(t)' /\ NewIsQuiet(t)'
    BY <1>1, <1>2, <1>3, <1>6, <2>1, <2>2, Leaves DEF Same
  <2> QED
    BY <1>1, <1>2, <2>1, <2>3, OneTriggerStep DEF Same
<1>8. CASE user' = [user EXCEPT ![u] = n]
  <2>1. /\ n.pc = "send" /\ n.op = user[u].op /\ n.body = b /\ n.trigs = {t} /\ n.locks
        /\ n.row = row
    <3> HIDE DEF row, new
    <3> QED
      BY <1>0, <1>2, <1>4 DEF RequestRecord
  <2>2. Becomes(u, n)
    BY <1>1, <1>8, Moves
  <2>3. ~Writes(n)
    BY <2>1 DEF Writes
  <2>4. Mends(user[u], t) => Mends(n, t)
    BY <1>4, <2>1 DEF Mends, EditShape
  <2>5. ASSUME t \notin astray PROVE Knows(n, t)
    <3>1. Knows(user[u], t)
      BY <1>2, <1>3, <2>5 DEF InStep, Known, InProgress
    <3>2. CASE user[u].op = "rename"
      <4>1. b.active = Keep /\ b.setting = Keep
        BY <1>4, <3>2 DEF EditShape, EditKind, Redeploys
      <4>2. user[u].row = [trig[t] EXCEPT !.state = "live"]
        BY <3>1, <3>2 DEF Knows
      <4>3. row = [trig[t] EXCEPT !.state = "live"]
        BY <1>3, <4>1, <4>2 DEF TrigRow
      <4> QED
        BY <2>1, <3>2, <4>3 DEF Knows, HasRead
    <3>3. CASE user[u].op = "edit"
      BY <2>1, <3>3 DEF Knows, HasRead
    <3> QED
      BY <1>4, <3>1, <3>2, <3>3 DEF EditShape, Knows
  <2>6. InStep(t)' /\ NewIsQuiet(t)'
    BY <1>1, <1>2, <1>3, <1>5, <1>6, <2>1, <2>2, <2>3, <2>4, <2>5, Stays DEF Same
  <2> QED
    BY <1>1, <1>2, <2>1, <2>2, <2>6, OneTriggerStep DEF Same
<1>9. (Refused(t, b) /\ Leave(u)) \/ user' = [user EXCEPT ![u] = n]
  BY <1>0, <1>1, <1>2 DEF EditSave, UsersType
<1> QED
  BY <1>7, <1>8, <1>9

LEMMA EditSendKeeps ==
    ASSUME TypeInv, RowsInv, NEW u \in Users, EditSend(u)
    PROVE  RowsInv'
<1> DEFINE b == user[u].body
           row == user[u].row
           deploys == row.active /\ row.setting # Event
           l == IF Redeploys(b) /\ deploys THEN "deploy" ELSE "commit"
<1>0. PICK r : r = [user[u] EXCEPT !.pc = l]
  OBVIOUS
<1>1. /\ UsersType /\ QueueType /\ user[u].pc = "send" /\ user[u].op \in {"edit", "rename", "retask"}
      /\ UNCHANGED <<trig, tasks, astray>>
  BY DEF EditSend, TypeInv, rows
<1>2. PICK t \in Triggers : user[u].trigs = {t} /\ t = (CHOOSE x \in user[u].trigs : TRUE)
  BY <1>1, AtOne
<1>3. InStep(t) /\ NewIsQuiet(t)
  BY DEF RowsInv
<1>4. user[u] \in RequestRecord /\ EditShape(user[u]) /\ b \in Edits
  BY <1>1, AtOne DEF EditShape
<1>5. user' = [user EXCEPT ![u] = r]
  BY <1>0, <1>1 DEF EditSend, UsersType
<1>6. /\ r.pc = l /\ r.op = user[u].op /\ r.body = b /\ r.trigs = {t} /\ r.row = row
      /\ r.locks = user[u].locks /\ r.tasks = user[u].tasks
  <2> HIDE DEF l
  <2> QED
    BY <1>0, <1>2, <1>4 DEF RequestRecord
<1>7. Becomes(u, r)
  BY <1>1, <1>5, Moves
<1>8. t \notin astray => Knows(user[u], t) /\ Knows(r, t)
  <2>1. t \notin astray => Knows(user[u], t)
    BY <1>2, <1>3 DEF InStep, Known, InProgress
  <2> QED
    BY <1>1, <1>6, <2>1 DEF Knows, HasRead
<1>9. Redeploys(b) <=> user[u].op = "edit"
  BY <1>4 DEF EditShape, EditKind
<1>10. CASE user[u].op = "edit" /\ ~deploys
  <2>1. Send(t, {}) /\ l = "commit"
    BY <1>2, <1>9, <1>10 DEF EditSend, Undeploy
  <2>2. Written(r, t) = {}
    BY <1>6, <1>10 DEF Written, JobsOf
  <2>3. last'[t] = Written(r, t) /\ \A x \in Triggers \ {t} : last'[x] = last[x]
    BY <1>1, <2>1, <2>2, SendIs
  <2>4. Writes(r)
    BY <1>6, <1>10, <2>1 DEF Writes
  <2> HIDE DEF l, deploys
  <2>5. InStep(t)' /\ NewIsQuiet(t)'
    BY <1>1, <1>2, <1>3, <1>6, <1>7, <1>8, <1>10, <2>3, <2>4, Sends
  <2> QED
    BY <1>1, <1>2, <1>6, <1>7, <2>3, <2>5, OneTriggerStep DEF Same
<1>11. CASE ~(user[u].op = "edit" /\ ~deploys)
  <2>1. last' = last
    BY <1>9, <1>11 DEF EditSend
  <2>2. Mends(user[u], t) => Mends(r, t)
    BY <1>1, <1>6, <1>9, <1>11 DEF Mends
  <2>3. ~Writes(user[u]) /\ ~Writes(r)
    BY <1>1, <1>6, <1>9, <1>11 DEF Writes
  <2> HIDE DEF l, deploys
  <2>4. InStep(t)' /\ NewIsQuiet(t)'
    BY <1>1, <1>2, <1>3, <1>6, <1>7, <1>8, <2>1, <2>2, <2>3, Stays DEF Same
  <2> QED
    BY <1>1, <1>2, <1>6, <1>7, <2>1, <2>4, OneTriggerStep DEF Same
<1> QED
  BY <1>10, <1>11

\* While a request holds the lock no other has rows to commit.
LEMMA OneWriter ==
    ASSUME UsersType, NEW t, Apart(t), NEW u \in InProgress(t), user[u].locks,
           NEW v \in InProgress(t), v # u
    PROVE  ~user[v].locks /\ ~Writes(user[v])
<1>1. ~user[v].locks /\ v \in Users
  BY DEF Apart, InProgress
<1>2. ASSUME Writes(user[v]) PROVE user[v].locks
  <2>1. user[v].pc = "commit" /\ user[v].op \in {"insert", "edit", "switch"}
    BY <1>2 DEF Writes
  <2> QED
    BY <1>1, <2>1, AtOne DEF InsertShape, EditShape, SwitchShape
<1> QED
  BY <1>1, <1>2

\* A switch that sends nothing, the trigger being of type EVENT.
LEMMA SwitchForEvent ==
    ASSUME UsersType, NEW u \in Users, NEW r, Becomes(u, r), NEW t \in Triggers, InStep(t), Same(t),
           trig[t] \in TrigRow, user[u].trigs = {t}, r.trigs = {t}, t \notin astray,
           user[u].op = "switch", r.op = "switch", user[u].locks, r.locks, r.pc = "commit",
           ~Mends(user[u], t), ~Writes(user[u]), Knows(r, t), r.row.setting = Event
    PROVE  InStep(t)'
<1>1. Apart(t) /\ Known(t) /\ Said(t) /\ Bare(t)
  BY DEF InStep
<1>2. Apart(t)' /\ Bare(t)'
  BY <1>1, ApartStays DEF Bare, Same
<1>3. InProgress(t)' = InProgress(t) /\ user'[u] = r /\ u \in InProgress(t)
  BY DEF Becomes, InProgress
<1>4. ASSUME NEW v \in InProgress(t), v # u
      PROVE  /\ Knows(user[v], t)' /\ ~Writes(user[v])
             /\ Mends(user[v], t) => Mends(user[v], t)'
  <2>1. v \in Others(u, t)
    BY <1>4 DEF Others
  <2>2. Knows(user[v], t)' /\ (Mends(user[v], t) => Mends(user[v], t)')
    BY <1>1, <2>1, OthersAre DEF Known, Same
  <2> QED
    BY <1>1, <1>3, <1>4, <2>2, OneWriter
<1>5. Knows(user[u], t)'
  BY <1>3 DEF Knows, Same
<1>6. Known(t)'
  BY <1>3, <1>4, <1>5 DEF Known
<1>7. Written(user[u], t)' = {} /\ Writes(user[u])'
  BY <1>3 DEF Written, Writes, JobsOf
<1>8. JobsOf(trig[t], tasks[t]) = {}
  <2>1. trig[t].setting = Event
    BY DEF Knows, TrigRow
  <2> QED
    BY <2>1 DEF JobsOf
<1>9. Said(t)'
  <2>1. CASE \E v \in InProgress(t) : Mends(user[v], t)
    BY <1>3, <1>4, <2>1 DEF Said
  <2>2. CASE last[t] = JobsOf(trig[t], tasks[t])
    BY <1>3, <1>7, <1>8, <2>2 DEF Said, Same
  <2>3. ~(\E v \in InProgress(t) : Writes(user[v]))
    BY <1>4
  <2> QED
    BY <1>1, <2>1, <2>2, <2>3 DEF Said
<1> QED
  BY <1>2, <1>6, <1>9 DEF InStep

LEMMA SwitchSendKeeps ==
    ASSUME TypeInv, RowsInv, NEW u \in Users, SwitchSend(u)
    PROVE  RowsInv'
<1> DEFINE l == IF user[u].body THEN "deploy" ELSE "deliver"
<1>1. /\ UsersType /\ user[u].pc = "send" /\ user[u].op \in {"switch", "reswitch"}
      /\ UNCHANGED <<trig, tasks, last, astray>>
  BY DEF SwitchSend, TypeInv, rows, celery
<1>2. PICK t \in Triggers : user[u].trigs = {t} /\ t = (CHOOSE x \in user[u].trigs : TRUE)
  BY <1>1, AtOne
<1>3. PICK row : row = IF user[u].locks THEN user[u].row ELSE trig[t]
  OBVIOUS
<1>4. InStep(t) /\ NewIsQuiet(t) /\ u \in InProgress(t) /\ Same(t)
  BY <1>1, <1>2 DEF RowsInv, InProgress, Same
<1>5. user[u] \in RequestRecord /\ SwitchShape(user[u])
  BY <1>1, AtOne
<1>0. PICK r : r = [user[u] EXCEPT !.pc = l, !.row = row]
  OBVIOUS
<1>6. /\ r.pc = l /\ r.op = user[u].op /\ r.body = user[u].body /\ r.trigs = {t}
      /\ r.row = row /\ r.locks = user[u].locks
  <2> HIDE DEF l
  <2> QED
    BY <1>0, <1>2, <1>5 DEF RequestRecord
<1>7. t \notin astray => Knows(user[u], t) /\ row = user[u].row
  <2>1. t \notin astray => Knows(user[u], t)
    BY <1>4 DEF InStep, Known
  <2>2. Knows(user[u], t) => row = user[u].row
    BY <1>1, <1>3, <1>5 DEF Knows, SwitchShape
  <2> QED
    BY <2>1, <2>2
<1>8. t \notin astray => Knows(r, t)
  BY <1>1, <1>6, <1>7 DEF Knows, HasRead
<1>9. ~Writes(user[u]) /\ ~Writes(r)
  BY <1>1, <1>6 DEF Writes
<1>10. CASE user' = [user EXCEPT ![u] = NoRequest] /\ row.state # "live"
  <2>1. Becomes(u, NoRequest) /\ NoRequest.trigs = {}
    BY <1>1, <1>10, Moves DEF NoRequest
  <2>2. t \in astray
    BY <1>5, <1>7, <1>10 DEF SwitchShape
  <2>3. InStep(t)' /\ NewIsQuiet(t)'
    BY <1>1, <1>2, <1>4, <2>1, <2>2, Leaves
  <2> QED
    BY <1>1, <1>2, <2>1, <2>3, OneTriggerStep DEF Same
<1>11. CASE user' = [user EXCEPT ![u] = r]
  <2>1. Becomes(u, r)
    BY <1>1, <1>11, Moves
  <2>2. InStep(t)' /\ NewIsQuiet(t)'
    <3>1. CASE t \notin astray
      <4>1. Mends(user[u], t) => Mends(r, t)
        BY <1>1, <1>6, <1>7, <3>1 DEF Mends
      <4> QED
        BY <1>1, <1>2, <1>4, <1>6, <1>8, <1>9, <2>1, <4>1, Stays
    <3>2. CASE t \in astray
      BY <1>1, <1>2, <1>4, <1>6, <2>1, <3>2, QuietStays DEF InStep, Same
    <3> QED
      BY <3>1, <3>2
  <2> HIDE DEF l
  <2> QED
    BY <1>1, <1>2, <1>6, <2>1, <2>2, OneTriggerStep DEF Same
<1>12. \/ user' = [user EXCEPT ![u] = NoRequest] /\ row.state # "live"
       \/ user' = [user EXCEPT ![u] = r]
  BY <1>0, <1>1, <1>2, <1>3 DEF SwitchSend, Leave, UsersType
<1> QED
  BY <1>10, <1>11, <1>12

\* An insertion, an edit or a switch commits what it has sent, or what another will send.
LEMMA WriterCommits ==
    ASSUME TypeInv, NEW u \in Users, Becomes(u, NoRequest), NEW t \in Triggers, InStep(t),
           user[u].trigs = {t}, user[u].locks, Writes(user[u]),
           t \notin astray, last'[t] = last[t], trig'[t] = user[u].row,
           tasks'[t] = IF BringsTasks(user[u]) THEN user[u].tasks ELSE tasks[t]
    PROVE  Apart(t)' /\ Known(t)' /\ Said(t)' /\ Bare(t)'
<1>1. /\ Apart(t) /\ Known(t) /\ Said(t) /\ Bare(t) /\ UsersType
      /\ user[u].op \in {"insert", "edit", "switch"} /\ user[u].pc = "commit"
  BY DEF InStep, TypeInv, Writes
<1>2. InProgress(t)' = InProgress(t) \ {u} /\ u \in InProgress(t)
  BY DEF Becomes, InProgress, NoRequest
<1>3. user[u].row.state = "live" /\ (BringsTasks(user[u]) => user[u].tasks # NoTasks)
  BY <1>1, AtOne DEF InsertShape, EditShape, SwitchShape, BringsTasks
<1>4. ASSUME NEW v \in InProgress(t), v # u
      PROVE  /\ user[v].op = "edit" /\ user[v].pc = "save" /\ user'[v] = user[v]
             /\ Mends(user[v], t) => Mends(user[v], t)'
  <2>1. Compatible(user[u].op, user[v].op) /\ ~user[v].locks /\ v \in Users
    BY <1>1, <1>2, <1>4 DEF Apart, InProgress
  <2>2. user[v].op \in {"edit", "switch"}
    BY <1>1, <2>1, CompatibleIs
  <2>3. user[v].op = "edit" /\ user[v].pc = "save"
    <3>1. user[v] \in RequestRecord /\ RequestShape(user[v])
      BY <1>1, <2>1, UserFacts
    <3> QED
      BY <2>1, <2>2, <3>1
      DEF RequestShape, NoRequest, AppDeleteShape, EditShape, InsertShape, SwitchShape,
          DeleteShape, SourceDeleteShape
  <2>4. user'[v] = user[v]
    BY <1>4, <2>1 DEF Becomes
  <2>5. ~Refused(t, user[v].body) => ~Refused(t, user[v].body)'
    BY <1>3, <2>4 DEF Refused
  <2>6. Mends(user[v], t) => Mends(user[v], t)'
    BY <2>3, <2>4, <2>5 DEF Mends
  <2> QED
    BY <2>3, <2>4, <2>6
<1>5. Apart(t)'
  BY <1>1, ApartStays DEF NoRequest
<1>6. Known(t)'
  BY <1>2, <1>4 DEF Known, Knows, HasRead
<1>7. Bare(t)'
  BY <1>3 DEF Bare
<1>8. Said(t)'
  <2>1. CASE \E v \in InProgress(t) : Mends(user[v], t)
    <3>1. ~Mends(user[u], t)
      BY <1>1 DEF Mends
    <3> QED
      BY <1>2, <1>4, <2>1, <3>1 DEF Said
  <2>2. CASE last[t] = Written(user[u], t)
    <3>1. last'[t] = JobsOf(trig[t], tasks[t])'
      BY <2>2 DEF Written, JobsOf
    <3>2. \A v \in InProgress(t)' : ~Writes(user[v])'
      BY <1>2, <1>4 DEF Writes
    <3> QED
      BY <3>1, <3>2 DEF Said
  <2>3. \A v \in InProgress(t) : v # u => ~Writes(user[v])
    BY <1>4 DEF Writes
  <2> QED
    BY <1>1, <1>2, <2>1, <2>2, <2>3 DEF Said
<1> QED
  BY <1>5, <1>6, <1>7, <1>8

LEMMA Live ==
    ASSUME NEW row \in TrigRow, NEW n, n = [row EXCEPT !.state = "live"]
    PROVE  /\ n \in TrigRow /\ n.state = "live"
           /\ n.active = row.active /\ n.setting = row.setting
           /\ row.state = "live" => n = row
           /\ [n EXCEPT !.state = "live"] = n
<1>1. n \in TrigRow /\ n.state = "live" /\ n.active = row.active /\ n.setting = row.setting
  BY DEF TrigRow
<1>2. row.state = "live" => n = row
  BY <1>1 DEF TrigRow
<1>3. [n EXCEPT !.state = "live"] = n
  BY <1>1 DEF TrigRow
<1> QED
  BY <1>1, <1>2, <1>3

\* A rename commits what the row was, or the row that has been deleted.
LEMMA RenameCommits ==
    ASSUME TypeInv, NEW u \in Users, Becomes(u, NoRequest), NEW t \in Triggers, InStep(t),
           user[u].trigs = {t}, user[u].op = "rename", user[u].pc = "commit",
           t \notin astray, last'[t] = last[t], trig'[t] = user[u].row, tasks'[t] = tasks[t]
    PROVE  Apart(t)' /\ Known(t)' /\ Said(t)' /\ Bare(t)'
<1>1. Apart(t) /\ Known(t) /\ Said(t) /\ Bare(t) /\ UsersType /\ trig[t] \in TrigRow
  BY DEF InStep, TypeInv, RowsType
<1>2. InProgress(t)' = InProgress(t) \ {u} /\ u \in InProgress(t)
  BY DEF Becomes, InProgress, NoRequest
<1>3. trig'[t] = [trig[t] EXCEPT !.state = "live"]
  BY <1>1, <1>2 DEF Known, Knows
<1>4. /\ trig'[t].state = "live" /\ trig'[t].active = trig[t].active
      /\ trig'[t].setting = trig[t].setting
      /\ trig[t].state = "live" => trig'[t] = trig[t]
      /\ [trig'[t] EXCEPT !.state = "live"] = [trig[t] EXCEPT !.state = "live"]
  BY <1>1, <1>3, Live
<1>5. JobsOf(trig[t], tasks[t])' = JobsOf(trig[t], tasks[t])
  <2>1. CASE trig[t].state = "live"
    BY <1>4, <2>1 DEF JobsOf
  <2>2. CASE trig[t].state # "live"
    <3>1. tasks[t] = NoTasks
      BY <1>1, <2>2 DEF Bare
    <3>2. {s \in Sources : NoTasks[s] = "on"} = {}
      BY DEF NoTasks
    <3> QED
      BY <2>2, <3>1, <3>2 DEF JobsOf
  <2> QED
    BY <2>1, <2>2
<1>6. ASSUME NEW v \in InProgress(t), v # u
      PROVE  /\ user'[v] = user[v] /\ ~Writes(user[v]) /\ Knows(user[v], t)'
             /\ Mends(user[v], t) => Mends(user[v], t)'
  <2>1. Compatible(user[u].op, user[v].op) /\ Knows(user[v], t) /\ v \in Users
    BY <1>1, <1>2, <1>6 DEF Apart, Known, InProgress
  <2>2. user[v].op \in {"rename", "reswitch", "app_delete", "delete", "batch_delete"}
    BY <2>1, CompatibleIs
  <2>3. user'[v] = user[v]
    BY <1>6, <2>1 DEF Becomes
  <2>4. user[v] \in RequestRecord /\ RequestShape(user[v])
    BY <1>1, <2>1, UserFacts
  <2>5. /\ user[v].op = "reswitch" => user[v].row.state = "live"
        /\ user[v].op = "app_delete" /\ user[v].pc \in {"deploy", "deliver"}
                => user[v].row.state = "live"
    BY <2>4 DEF RequestShape, NoRequest, AppDeleteShape, EditShape, InsertShape, SwitchShape,
                DeleteShape, SourceDeleteShape
  <2>6. Knows(user[v], t)'
    <3>1. user[v].op = "reswitch" => user[v].row = trig'[t] /\ user[v].row.active = user[v].body
      BY <1>4, <2>1, <2>5 DEF Knows
    <3>2. user[v].op = "app_delete" /\ user[v].pc \in {"deploy", "deliver"} /\ user[v].body = t
            => user[v].row = trig'[t]
      BY <1>4, <2>1, <2>5 DEF Knows
    <3>3. user[v].op = "rename" => user[v].row = [trig'[t] EXCEPT !.state = "live"]
      BY <1>4, <2>1 DEF Knows
    <3>4. user[v].op \in {"delete", "batch_delete"} => last'[t] = {}
      BY <2>1 DEF Knows
    <3>5. HasRead(user[v], t) => user[v].tasks = tasks'[t]
      BY <2>1 DEF Knows
    <3>6. HasRead(user[v], t)' <=> HasRead(user[v], t)
      BY <2>3 DEF HasRead, BringsTasks
    <3> QED
      BY <2>2, <2>3, <3>1, <3>2, <3>3, <3>4, <3>5, <3>6 DEF Knows
  <2>7. Mends(user[v], t) => Mends(user[v], t)'
    BY <1>4, <2>2, <2>3 DEF Mends
  <2>8. ~Writes(user[v])
    BY <2>2 DEF Writes
  <2> QED
    BY <2>3, <2>6, <2>7, <2>8
<1>7. Apart(t)'
  BY <1>1, ApartStays DEF NoRequest
<1>8. Known(t)' /\ Bare(t)'
  BY <1>2, <1>4, <1>6 DEF Known, Bare
<1>9. Said(t)'
  <2>1. ~Mends(user[u], t) /\ ~Writes(user[u])
    BY DEF Mends, Writes
  <2>2. \A v \in InProgress(t)' : ~Writes(user[v])'
    BY <1>2, <1>6 DEF Writes
  <2>3. (\E v \in InProgress(t) : Mends(user[v], t)) \/ last[t] = JobsOf(trig[t], tasks[t])
    BY <1>1, <1>6, <2>1 DEF Said
  <2> QED
    BY <1>2, <1>5, <1>6, <2>1, <2>2, <2>3 DEF Said
<1> QED
  BY <1>7, <1>8, <1>9

LEMMA CommitKeeps ==
    ASSUME TypeInv, RowsInv, NEW u \in Users, Commit(u)
    PROVE  RowsInv'
<1>1. UsersType /\ user[u].pc = "commit" /\ UNCHANGED <<last, astray>>
  BY DEF Commit, TypeInv
<1>2. PICK t \in Triggers : user[u].trigs = {t} /\ t = (CHOOSE x \in user[u].trigs : TRUE)
  BY <1>1, AtOne
<1>3. InStep(t) /\ NewIsQuiet(t) /\ u \in InProgress(t)
  BY <1>2 DEF RowsInv, InProgress
<1>4. Becomes(u, NoRequest) /\ NoRequest.trigs = {}
  BY <1>1, Moves DEF Commit, Leave, NoRequest
<1>5. /\ \A x \in Triggers \ {t} : trig'[x] = trig[x] /\ tasks'[x] = tasks[x]
      /\ trig'[t] = IF user[u].locks THEN user[u].row ELSE trig[t]
      /\ user[u].op # "source_delete" =>
            tasks'[t] = IF BringsTasks(user[u]) THEN user[u].tasks ELSE tasks[t]
  BY <1>2 DEF Commit, TypeInv, RowsType
<1>6. /\ user[u].op = "insert" => user[u].locks
      /\ user[u].op \in {"edit", "rename", "switch"} => user[u].locks
      /\ user[u].op = "reswitch" => ~user[u].locks
      /\ user[u].locks => user[u].row.state # "new"
      /\ user[u].op \in {"insert", "edit", "rename", "retask", "switch", "reswitch", "source_delete"}
      /\ user[u].op = "rename" => ~BringsTasks(user[u])
  BY <1>1, AtOne
  DEF InsertShape, EditShape, SwitchShape, SourceDeleteShape, DeleteShape, BringsTasks
<1>7. NewIsQuiet(t)'
  <2>1. trig'[t].state # "new"
    BY <1>3, <1>5, <1>6 DEF NewIsQuiet
  <2> QED
    BY <2>1 DEF NewIsQuiet
<1>8. ASSUME t \notin astray PROVE InStep(t)'
  <2>1. Knows(user[u], t)
    BY <1>3, <1>8 DEF InStep, Known
  <2>2. CASE user[u].op \in {"insert", "edit", "switch"}
    <3>1. Writes(user[u])
      BY <1>1, <2>2 DEF Writes
    <3> QED
      BY <1>1, <1>2, <1>3, <1>4, <1>5, <1>6, <1>8, <2>2, <3>1, WriterCommits DEF InStep
  <2>3. CASE user[u].op = "rename"
    BY <1>1, <1>2, <1>3, <1>4, <1>5, <1>6, <1>8, <2>3, RenameCommits DEF InStep
  <2>4. CASE user[u].op = "reswitch"
    <3>1. ~Writes(user[u]) /\ ~Mends(user[u], t) /\ ~BringsTasks(user[u])
      BY <1>1, <2>4 DEF Writes, Mends, BringsTasks
    <3> QED
      BY <1>1, <1>2, <1>3, <1>4, <1>5, <1>6, <2>4, <3>1, Leaves DEF Same
  <2> QED
    BY <1>6, <2>1, <2>2, <2>3, <2>4 DEF Knows
<1>9. InStep(t)'
  BY <1>1, <1>8 DEF InStep
<1> QED
  BY <1>1, <1>2, <1>4, <1>5, <1>7, <1>9, OneTriggerStep DEF Same

LEMMA DeleteTasksKeeps ==
    ASSUME TypeInv, RowsInv, NEW u \in Users, DeleteTasks(u)
    PROVE  RowsInv'
<1>0. PICK r : r = [user[u] EXCEPT !.pc = "row"]
  OBVIOUS
<1>1. /\ UsersType /\ user[u].pc = "tasks" /\ user[u].op = "delete"
      /\ UNCHANGED <<trig, last, astray>>
  BY DEF DeleteTasks, TypeInv
<1>2. PICK t \in Triggers : user[u].trigs = {t} /\ t = (CHOOSE x \in user[u].trigs : TRUE)
  BY <1>1, AtOne
<1>3. InStep(t) /\ NewIsQuiet(t) /\ u \in InProgress(t)
  BY <1>2 DEF RowsInv, InProgress
<1>4. r.pc = "row" /\ r.op = "delete" /\ r.trigs = {t} /\ r.locks = user[u].locks
  BY <1>0, <1>1, <1>2, AtOne DEF RequestRecord
<1>5. Becomes(u, r)
  BY <1>0, <1>1, Moves DEF DeleteTasks, UsersType
<1>6. tasks'[t] = NoTasks /\ \A x \in Triggers \ {t} : tasks'[x] = tasks[x]
  BY <1>2 DEF DeleteTasks, TypeInv, RowsType
<1>7. trig[t].state # "new"
  BY <1>1, <1>3 DEF NewIsQuiet
<1>8. ASSUME t \notin astray PROVE InStep(t)'
  <2>1. Apart(t) /\ Known(t)
    BY <1>3, <1>8 DEF InStep
  <2>2. InProgress(t)' = InProgress(t) /\ user'[u] = r
    BY <1>2, <1>4, <1>5 DEF Becomes, InProgress
  <2>3. Apart(t)'
    BY <1>1, <1>2, <1>4, <1>5, <2>1, ApartStays
  <2>4. Known(t)'
    <3>1. Knows(user[u], t)'
      BY <1>1, <1>3, <1>4, <2>1, <2>2 DEF Known, Knows, HasRead
    <3>2. ASSUME NEW v \in InProgress(t), v # u PROVE Knows(user[v], t)'
      <4>1. user'[v] = user[v] /\ Knows(user[v], t)
        BY <1>5, <2>1, <3>2 DEF Becomes, Known, InProgress
      <4>2. user[v].op \in {"rename", "delete", "batch_delete"}
        <5>1. Compatible(user[u].op, user[v].op)
          BY <1>3, <2>1, <3>2 DEF Apart
        <5> QED
          BY <1>1, <5>1, CompatibleIs
      <4> QED
        BY <1>1, <4>1, <4>2 DEF Knows, HasRead
    <3> QED
      BY <2>2, <3>1, <3>2 DEF Known
  <2>5. Said(t)'
    <3>1. Mends(user[u], t)'
      BY <1>4, <2>2 DEF Mends
    <3> QED
      BY <1>3, <2>2, <3>1 DEF Said
  <2>6. Bare(t)'
    BY <1>6 DEF Bare
  <2> QED
    BY <2>3, <2>4, <2>5, <2>6 DEF InStep
<1>9. InStep(t)' /\ NewIsQuiet(t)'
  BY <1>1, <1>7, <1>8 DEF InStep, NewIsQuiet
<1> QED
  BY <1>1, <1>2, <1>4, <1>5, <1>6, <1>9, OneTriggerStep DEF Same

LEMMA DeleteRowKeeps ==
    ASSUME TypeInv, RowsInv, NEW u \in Users, DeleteRow(u)
    PROVE  RowsInv'
<1>1. /\ UsersType /\ user[u].pc = "row" /\ user[u].op \in {"delete", "batch_delete"}
      /\ UNCHANGED <<last, astray>>
  BY DEF DeleteRow, TypeInv
<1>2. PICK t \in Triggers : user[u].trigs = {t} /\ t = (CHOOSE x \in user[u].trigs : TRUE)
  BY <1>1, AtOne
<1>3. InStep(t) /\ NewIsQuiet(t) /\ u \in InProgress(t) /\ trig[t] \in TrigRow
  BY <1>2 DEF RowsInv, InProgress, TypeInv, RowsType
<1>4. Becomes(u, NoRequest) /\ NoRequest.trigs = {}
  BY <1>1, Moves DEF DeleteRow, Leave, NoRequest
<1>5. /\ trig'[t] = [trig[t] EXCEPT !.state = "gone"] /\ tasks'[t] = NoTasks
      /\ \A x \in Triggers \ {t} : trig'[x] = trig[x] /\ tasks'[x] = tasks[x]
  BY <1>2 DEF DeleteRow, TypeInv, RowsType
<1>6. /\ trig'[t].state = "gone"
      /\ [trig'[t] EXCEPT !.state = "live"] = [trig[t] EXCEPT !.state = "live"]
  BY <1>3, <1>5 DEF TrigRow
<1>7. ASSUME t \notin astray PROVE InStep(t)'
  <2>1. Apart(t) /\ Known(t)
    BY <1>3, <1>7 DEF InStep
  <2>2. InProgress(t)' = InProgress(t) \ {u}
    BY <1>2, <1>4 DEF Becomes, InProgress
  <2>3. last'[t] = {}
    BY <1>1, <1>3, <2>1 DEF Known, Knows
  <2>4. ASSUME NEW v \in InProgress(t), v # u
        PROVE  user'[v] = user[v] /\ ~Writes(user[v]) /\ Knows(user[v], t)'
    <3>1. Compatible(user[u].op, user[v].op) /\ Knows(user[v], t)
      BY <1>3, <2>1, <2>4 DEF Apart, Known
    <3>2. user[v].op \in {"rename", "delete", "batch_delete"}
      BY <1>1, <3>1, CompatibleIs
    <3>3. user'[v] = user[v]
      BY <1>4, <2>4 DEF Becomes, InProgress
    <3>4. user[v].op = "rename" => user[v].row = [trig'[t] EXCEPT !.state = "live"]
      BY <1>6, <3>1 DEF Knows
    <3>5. Knows(user[v], t)'
      BY <2>3, <3>2, <3>3, <3>4 DEF Knows, HasRead
    <3> QED
      BY <3>2, <3>3, <3>5 DEF Writes
  <2>5. Apart(t)'
    BY <1>2, <1>4, <2>1, ApartStays
  <2>6. Known(t)' /\ Bare(t)'
    BY <1>5, <2>2, <2>4 DEF Known, Bare
  <2>7. Said(t)'
    <3>1. \A v \in InProgress(t)' : ~Writes(user[v])'
      BY <2>2, <2>4 DEF Writes
    <3>2. JobsOf(trig[t], tasks[t])' = {}
      BY <1>6 DEF JobsOf
    <3> QED
      BY <2>3, <3>1, <3>2 DEF Said
  <2> QED
    BY <2>5, <2>6, <2>7 DEF InStep
<1>8. InStep(t)' /\ NewIsQuiet(t)'
  BY <1>1, <1>6, <1>7 DEF InStep, NewIsQuiet
<1> QED
  BY <1>1, <1>2, <1>4, <1>5, <1>8, OneTriggerStep DEF Same

LEMMA AtApp ==
    ASSUME UsersType, NEW u \in Users, user[u].op = "app_delete"
    PROVE  /\ user[u] \in RequestRecord /\ AppDeleteShape(user[u]) /\ user[u].trigs \subseteq Triggers
           /\ ~Writes(user[u])
<1>1. user[u] \in RequestRecord /\ RequestShape(user[u])
  BY UserFacts
<1>2. AppDeleteShape(user[u])
  BY <1>1 DEF RequestShape, NoRequest, EditShape, InsertShape, SwitchShape, DeleteShape,
              SourceDeleteShape
<1> QED
  BY <1>1, <1>2 DEF RequestRecord, Writes

LEMMA AppSelectKeeps ==
    ASSUME TypeInv, RowsInv, NEW u \in Users, AppSelect(u)
    PROVE  RowsInv'
<1> DEFINE s == user[u].body
           T == {t \in Triggers : tasks[t][s] # "gone"}
<1>0. PICK r : r = [user[u] EXCEPT !.pc = "tasks", !.trigs = T]
  OBVIOUS
<1>1. /\ UsersType /\ user[u].pc = "select" /\ user[u] \in RequestRecord
      /\ user' = [user EXCEPT ![u] = r] /\ UNCHANGED <<trig, tasks, last>>
  BY <1>0, UserFacts DEF AppSelect, TypeInv, rows, celery, UsersType
<1>2. AppDeleteShape(user[u])
  BY <1>1, UserFacts
  DEF RequestShape, NoRequest, EditShape, InsertShape, SwitchShape, DeleteShape, SourceDeleteShape
<1>3. user[u].trigs = {} /\ s \in Sources /\ ~user[u].locks /\ user[u].op = "app_delete"
  BY <1>1, <1>2 DEF AppDeleteShape
<1>4. r.pc = "tasks" /\ r.op = "app_delete" /\ r.trigs = T /\ ~r.locks
  BY <1>0, <1>1, <1>3 DEF RequestRecord
<1>5. Becomes(u, r)
  BY <1>1, Moves
<1>6. PICK sends : sends = FALSE
  OBVIOUS
<1>7. astray' = Astray(u, "app_delete", T, sends)
  BY <1>6 DEF AppSelect
<1>8. ASSUME NEW t \in T PROVE InStep(t)' /\ NewIsQuiet(t)'
  <2>1. t \in Triggers /\ InStep(t) /\ NewIsQuiet(t)
    BY DEF RowsInv
  <2>2. trig[t].state # "new" /\ (t \notin astray => trig[t].state = "live")
    BY <1>3, <1>8, <2>1 DEF NoTasks, NewIsQuiet, InStep, Bare
  <2>3. t \notin astray' => t \notin astray
                /\ \A v \in InProgress(t) \ {u} : Compatible("app_delete", user[v].op)
    <3> HIDE DEF T
    <3> QED
      BY <1>6, <1>7, <1>8, AstrayIs
  <2>4. ~Writes(r) /\ Knows(r, t)'
    BY <1>4 DEF Writes, Knows, HasRead
  <2>5. t \in r.trigs /\ t \notin user[u].trigs
    BY <1>3, <1>4, <1>8
  <2> HIDE DEF T
  <2> QED
    BY <1>1, <1>4, <1>5, <2>1, <2>2, <2>3, <2>4, <2>5, ArrivalStep
<1>9. ASSUME NEW t \in Triggers \ T PROVE InStep(t)' /\ NewIsQuiet(t)'
  <2>1. Same(t)
    BY <1>1 DEF Same
  <2>2. t \in astray' <=> t \in astray
    <3>1. t \notin T
      BY <1>9
    <3> HIDE DEF T
    <3> QED
      BY <1>7, <3>1, AstrayIs
  <2>3. InStep(t) /\ NewIsQuiet(t) /\ t \notin user[u].trigs /\ t \notin r.trigs
    BY <1>3, <1>4, <1>9 DEF RowsInv
  <2> QED
    BY <1>5, <2>1, <2>2, <2>3, Elsewhere
<1> QED
  BY <1>8, <1>9 DEF RowsInv

\* An application's deletion goes on with the triggers it is about.
LEMMA AppGoesOn ==
    ASSUME UsersType, NEW u \in Users, NEW r, Becomes(u, r), NEW t, InStep(t), NewIsQuiet(t), Same(t),
           user[u].op = "app_delete", r.op = "app_delete", ~r.locks, r.trigs \subseteq user[u].trigs,
           t \in user[u].trigs => t \in r.trigs, t \in astray' <=> t \in astray,
           r.pc \in {"deploy", "deliver"} /\ r.body = t => r.row = trig[t],
           r.pc = "deliver" /\ r.body = t => r.tasks = tasks[t]
    PROVE  InStep(t)' /\ NewIsQuiet(t)'
<1>1. ~Writes(user[u]) /\ ~Writes(r)
  BY DEF Writes
<1>2. CASE t \in user[u].trigs
  <2>1. Mends(user[u], t) => Mends(r, t)
    BY DEF Mends
  <2>2. Knows(r, t)
    BY DEF Knows, HasRead
  <2> QED
    BY <1>1, <1>2, <2>1, <2>2, Stays
<1>3. CASE t \notin user[u].trigs
  BY <1>3, Elsewhere
<1> QED
  BY <1>2, <1>3

\* The trigger loses a task, and an application's deletion will deploy those that are left.
LEMMA TaskGoes ==
    ASSUME TypeInv, RowsInv, NEW u \in Users, NEW r, Becomes(u, r), NEW t \in Triggers,
           t \in user[u].trigs, user[u].op = "app_delete", UNCHANGED <<trig, last>>,
           r.trigs = user[u].trigs, r.op = "app_delete", r.pc = "row", ~r.locks,
           tasks[t] # NoTasks, t \notin astray, t \notin astray',
           \A v \in Others(u, t) : ~(user[v].pc = "deliver" /\ Target(v) = t)
    PROVE  InStep(t)'
<1>1. Apart(t) /\ Known(t) /\ Said(t) /\ trig[t].state = "live" /\ UsersType
  BY DEF RowsInv, InStep, Bare, TypeInv
<1>2. /\ InProgress(t)' = InProgress(t) /\ u \in InProgress(t) /\ user'[u] = r
      /\ \A v \in Others(u, t) : user'[v] = user[v]
  BY DEF Becomes, InProgress, Others
<1>3. ASSUME NEW v \in Others(u, t)
      PROVE  user[v].op \in {"rename", "reswitch", "app_delete"} /\ v \in Users /\ v \in InProgress(t)
  <2>1. Compatible(user[u].op, user[v].op)
    BY <1>1, <1>2, <1>3 DEF Apart, Others
  <2> QED
    BY <1>3, <2>1, CompatibleIs DEF Others, InProgress
<1>4. Apart(t)'
  BY <1>1, ApartStays
<1>5. Known(t)'
  <2>1. ASSUME NEW v \in Others(u, t) PROVE Knows(user[v], t)'
    <3>1. Knows(user[v], t)
      BY <1>1, <1>3, <2>1 DEF Known
    <3>2. ~HasRead(user[v], t)
      <4>1. ASSUME user[v].pc = "deliver" PROVE Target(v) # t
        BY <2>1, <4>1
      <4>2. CASE user[v].op = "app_delete"
        BY <4>1, <4>2 DEF HasRead, Target
      <4>3. CASE user[v].op # "app_delete" /\ user[v].pc = "deliver"
        <5>1. user[v].trigs = {Target(v)}
          BY <1>1, <1>3, <2>1, <4>3, AtDeploy
        <5> QED
          BY <1>3, <2>1, <4>1, <4>3, <5>1 DEF InProgress
      <4> QED
        BY <4>2, <4>3 DEF HasRead
    <3>3. ~HasRead(user'[v], t)
      BY <1>2, <2>1, <3>2
    <3> QED
      BY <1>2, <1>3, <2>1, <3>1, <3>3 DEF Knows, HasRead
  <2>2. Knows(user[u], t)'
    BY <1>2 DEF Knows, HasRead
  <2> QED
    BY <1>2, <2>1, <2>2 DEF Known, Others
<1>6. Said(t)'
  <2>1. CASE trig[t].active /\ trig[t].setting # Event
    <3>1. Mends(user[u], t)'
      BY <1>1, <1>2, <2>1 DEF Mends
    <3> QED
      BY <1>2, <3>1 DEF Said
  <2>2. CASE ~(trig[t].active /\ trig[t].setting # Event)
    <3>1. JobsOf(trig[t], tasks[t]) = {} /\ JobsOf(trig[t], tasks[t])' = {}
      BY <2>2 DEF JobsOf
    <3>2. \A v \in InProgress(t) : ~Writes(user[v]) /\ ~Writes(user[v])'
      BY <1>2, <1>3 DEF Writes, Others
    <3>3. CASE \E v \in InProgress(t) : Mends(user[v], t)
      <4>1. PICK v \in InProgress(t) : Mends(user[v], t)
        BY <3>3
      <4>2. v # u
        BY <2>2, <4>1 DEF Mends
      <4>3. user'[v] = user[v] /\ user[v].op \in {"rename", "reswitch", "app_delete"}
        BY <1>2, <1>3, <4>2 DEF Others
      <4>4. Mends(user[v], t)'
        BY <4>1, <4>3 DEF Mends
      <4> QED
        BY <1>2, <4>1, <4>4 DEF Said
    <3>4. CASE last[t] = JobsOf(trig[t], tasks[t])
      BY <1>2, <3>1, <3>2, <3>4 DEF Said
    <3> QED
      BY <1>1, <3>2, <3>3, <3>4 DEF Said
  <2> QED
    BY <2>1, <2>2
<1>7. Bare(t)'
  BY <1>1 DEF Bare
<1> QED
  BY <1>4, <1>5, <1>6, <1>7 DEF InStep

LEMMA AppTasksKeeps ==
    ASSUME TypeInv, RowsInv, NEW u \in Users, AppTasks(u)
    PROVE  RowsInv'
<1>0. PICK s, r : s = user[u].body /\ r = [user[u] EXCEPT !.pc = "row"]
  OBVIOUS
<1>1. /\ UsersType /\ user[u].pc = "tasks" /\ user[u].op = "app_delete"
      /\ user' = [user EXCEPT ![u] = r] /\ UNCHANGED <<trig, last>>
      /\ astray' = astray \cup Unnoticed(u, s)
      /\ tasks' = [t \in Triggers |-> [tasks[t] EXCEPT ![s] = "gone"]]
  BY <1>0 DEF AppTasks, TypeInv, celery, UsersType
<1>2. /\ user[u] \in RequestRecord /\ s \in Sources /\ ~user[u].locks
  BY <1>0, <1>1, AtApp DEF AppDeleteShape
<1>3. r.pc = "row" /\ r.op = "app_delete" /\ r.trigs = user[u].trigs /\ ~r.locks
  BY <1>0, <1>1, <1>2 DEF RequestRecord
<1>4. Becomes(u, r)
  BY <1>1, Moves
<1>5. ASSUME NEW t \in Triggers, tasks[t][s] = "gone" PROVE InStep(t)' /\ NewIsQuiet(t)'
  <2>1. tasks[t] \in [Sources -> TaskRow]
    BY DEF TypeInv, RowsType
  <2>2. [tasks[t] EXCEPT ![s] = "gone"] = tasks[t]
    BY <1>5, <2>1
  <2>3. Same(t)
    BY <1>1, <2>2 DEF Same
  <2>4. t \in astray' <=> t \in astray
    BY <1>1, <1>5 DEF Unnoticed
  <2> QED
    BY <1>1, <1>3, <1>4, <2>3, <2>4, AppGoesOn DEF RowsInv
<1>6. ASSUME NEW t \in Triggers, tasks[t][s] # "gone" PROVE InStep(t)' /\ NewIsQuiet(t)'
  <2>1. tasks[t] # NoTasks
    BY <1>2, <1>6 DEF NoTasks
  <2>2. NewIsQuiet(t)'
    BY <1>1, <2>1 DEF RowsInv, NewIsQuiet
  <2>3. ASSUME t \notin astray' PROVE InStep(t)'
    <3>1. t \notin astray /\ t \notin Unnoticed(u, s)
      BY <1>1, <2>3
    <3>2. /\ t \in user[u].trigs
          /\ \A v \in Others(u, t) : ~(user[v].pc = "deliver" /\ Target(v) = t)
      BY <1>6, <3>1 DEF Unnoticed, Others
    <3> QED
      BY <1>1, <1>3, <1>4, <2>1, <2>3, <3>1, <3>2, TaskGoes
  <2> QED
    BY <2>2, <2>3 DEF InStep
<1> QED
  BY <1>5, <1>6 DEF RowsInv

LEMMA AppRowKeeps ==
    ASSUME TypeInv, RowsInv, NEW u \in Users, AppRow(u)
    PROVE  RowsInv'
<1>1. /\ UsersType /\ user[u].op = "app_delete" /\ user[u].pc = "row"
      /\ UNCHANGED <<trig, tasks, last, astray>>
  BY DEF AppRow, TypeInv, rows
<1>2. user[u] \in RequestRecord /\ ~user[u].locks /\ user[u].trigs \subseteq Triggers
  BY <1>1, AtApp DEF AppDeleteShape
<1>3. \A t \in Triggers : InStep(t) /\ NewIsQuiet(t) /\ Same(t)
  BY <1>1 DEF RowsInv, Same
<1>4. CASE user[u].trigs = {} /\ Leave(u)
  <2>1. Becomes(u, NoRequest) /\ NoRequest.trigs = {}
    BY <1>1, <1>4, Moves DEF Leave, NoRequest
  <2> QED
    BY <1>1, <1>3, <1>4, <2>1, Elsewhere DEF RowsInv
<1>5. ASSUME NEW t \in user[u].trigs,
             user' = [user EXCEPT ![u].pc = "deploy", ![u].body = t, ![u].row = trig[t]]
      PROVE  RowsInv'
  <2>1. PICK r : r = [user[u] EXCEPT !.pc = "deploy", !.body = t, !.row = trig[t]]
    OBVIOUS
  <2>2. /\ r.pc = "deploy" /\ r.body = t /\ r.row = trig[t] /\ r.op = "app_delete" /\ ~r.locks
        /\ r.trigs = user[u].trigs
    BY <1>1, <1>2, <2>1 DEF RequestRecord
  <2>3. Becomes(u, r)
    BY <1>1, <1>5, <2>1, Moves DEF UsersType
  <2> QED
    BY <1>1, <1>3, <2>2, <2>3, AppGoesOn DEF RowsInv
<1>6. ASSUME NEW t \in user[u].trigs, ~(trig[t].state = "live" /\ trig[t].active),
             user' = [user EXCEPT ![u].trigs = @ \ {t}]
      PROVE  RowsInv'
  <2>1. PICK r : r = [user[u] EXCEPT !.trigs = user[u].trigs \ {t}]
    OBVIOUS
  <2>2. /\ r.pc = "row" /\ r.op = "app_delete" /\ ~r.locks /\ r.trigs = user[u].trigs \ {t}
    BY <1>1, <1>2, <2>1 DEF RequestRecord
  <2>3. Becomes(u, r)
    BY <1>1, <1>6, <2>1, Moves DEF UsersType
  <2>4. InStep(t)' /\ NewIsQuiet(t)'
    <3>1. ~Mends(user[u], t) /\ ~Writes(user[u])
      BY <1>1, <1>6 DEF Mends, Writes
    <3> QED
      BY <1>1, <1>2, <1>3, <2>2, <2>3, <3>1, Leaves
  <2>5. ASSUME NEW x \in Triggers, x # t PROVE InStep(x)' /\ NewIsQuiet(x)'
    BY <1>1, <1>3, <2>2, <2>3, <2>5, AppGoesOn
  <2> QED
    BY <2>4, <2>5 DEF RowsInv
<1> QED
  BY <1>4, <1>5, <1>6 DEF AppRow

LEMMA ReadTasksKeeps ==
    ASSUME TypeInv, RowsInv, NEW u \in Users, ReadTasks(u)
    PROVE  RowsInv'
<1>0. PICK t, ts : t = Target(u) /\ ts = IF BringsTasks(user[u]) THEN user[u].tasks ELSE tasks[t]
  OBVIOUS
<1>1. /\ UsersType /\ user[u].pc = "deploy" /\ UNCHANGED <<trig, tasks, last, astray>>
  BY DEF ReadTasks, TypeInv, rows, celery
<1>2. PICK r : r = [user[u] EXCEPT !.pc = "deliver", !.tasks = ts]
  OBVIOUS
<1>3. /\ user[u] \in RequestRecord /\ t \in Triggers /\ t \in user[u].trigs
      /\ user[u].op # "app_delete" => user[u].trigs = {t}
      /\ user[u].op \in {"edit", "switch", "reswitch", "app_delete"}
      /\ user[u].op = "app_delete" => user[u].body = t /\ ~user[u].locks
  BY <1>0, <1>1, AtDeploy DEF EditShape, SwitchShape, AppDeleteShape, Target
<1>4. /\ r.pc = "deliver" /\ r.op = user[u].op /\ r.body = user[u].body /\ r.row = user[u].row
      /\ r.trigs = user[u].trigs /\ r.locks = user[u].locks /\ r.tasks = ts
  BY <1>2, <1>3 DEF RequestRecord
<1>5. Becomes(u, r)
  BY <1>0, <1>1, <1>2, Moves DEF ReadTasks, UsersType
<1>6. \A x \in Triggers : InStep(x) /\ NewIsQuiet(x) /\ Same(x)
  BY <1>1 DEF RowsInv, Same
<1>7. BringsTasks(r) <=> BringsTasks(user[u])
  BY <1>4 DEF BringsTasks
<1>8. ~Writes(user[u]) /\ ~Writes(r) /\ (Mends(user[u], t) => Mends(r, t))
  <2>1. ~Writes(user[u]) /\ ~Writes(r)
    BY <1>1, <1>4 DEF Writes
  <2>2. Mends(user[u], t) => Mends(r, t)
    BY <1>1, <1>3, <1>4 DEF Mends
  <2> QED
    BY <2>1, <2>2
<1>9. t \notin astray => Knows(r, t)
  <2>1. t \notin astray => Knows(user[u], t)
    BY <1>3, <1>6 DEF InStep, Known, InProgress
  <2>2. HasRead(r, t) => r.tasks = tasks[t]
    <3>1. HasRead(r, t) => ~BringsTasks(r)
      BY <1>4 DEF HasRead, BringsTasks
    <3> QED
      BY <1>0, <1>4, <1>7, <3>1
  <2>3. r.op = "app_delete" => (t \notin astray => r.row = trig[t])
    BY <1>1, <1>3, <1>4, <2>1 DEF Knows
  <2> QED
    BY <1>1, <1>3, <1>4, <2>1, <2>2, <2>3 DEF Knows
<1>10. InStep(t)' /\ NewIsQuiet(t)'
  BY <1>1, <1>3, <1>4, <1>5, <1>6, <1>8, <1>9, Stays
<1>11. ASSUME NEW x \in Triggers, x # t PROVE InStep(x)' /\ NewIsQuiet(x)'
  <2>1. CASE user[u].op = "app_delete"
    BY <1>1, <1>3, <1>4, <1>5, <1>6, <1>11, <2>1, AppGoesOn
  <2>2. CASE user[u].op # "app_delete"
    BY <1>1, <1>3, <1>4, <1>5, <1>6, <1>11, <2>2, Elsewhere
  <2> QED
    BY <2>1, <2>2
<1> QED
  BY <1>10, <1>11 DEF RowsInv

\* The request sends what it has read: what the rows say or what it will commit.
LEMMA DeliverAtOne ==
    ASSUME TypeInv, RowsInv, NEW u \in Users, NEW r, Becomes(u, r), NEW t \in Triggers,
           user[u].pc = "deliver", user[u].op # "app_delete", t = Target(u),
           r = [user[u] EXCEPT !.pc = "commit"], UNCHANGED <<trig, tasks, astray>>,
           NEW off \in BOOLEAN, off <=> user[u].op \in {"switch", "reswitch"} /\ ~user[u].body,
           \/ off /\ Undeploy(t)
           \/ ~off /\ Deploy(t, user[u].row, user[u].tasks)
    PROVE  /\ InStep(t)' /\ NewIsQuiet(t)'
           /\ \A x \in Triggers \ {t} : last'[x] = last[x]
<1>1. UsersType /\ QueueType /\ InStep(t) /\ NewIsQuiet(t)
  BY DEF TypeInv, RowsInv
<1>2. /\ user[u] \in RequestRecord /\ user[u].trigs = {t} /\ u \in InProgress(t)
      /\ user[u].op \in {"edit", "switch", "reswitch"}
      /\ user[u].op = "edit" => EditShape(user[u]) /\ user[u].row.setting # Event
      /\ user[u].op \in {"switch", "reswitch"} => SwitchShape(user[u])
  BY <1>1, AtDeploy DEF EditShape, SwitchShape, AppDeleteShape, InProgress
<1>3. PICK row, ts : row = user[u].row /\ ts = user[u].tasks
  OBVIOUS
<1>4. /\ r.pc = "commit" /\ r.op = user[u].op /\ r.body = user[u].body /\ r.trigs = {t}
      /\ r.row = row /\ r.locks = user[u].locks /\ r.tasks = ts
  BY <1>2, <1>3 DEF RequestRecord
<1>5. t \notin astray => Knows(user[u], t) /\ Knows(r, t)
  <2>1. t \notin astray => Knows(user[u], t)
    BY <1>1, <1>2 DEF InStep, Known
  <2> QED
    BY <1>2, <1>3, <1>4, <2>1 DEF Knows, HasRead
<1>6. ~Writes(user[u]) /\ (user[u].op # "reswitch" => Writes(r)) /\ (user[u].op = "reswitch" => ~Writes(r))
  BY <1>2, <1>4 DEF Writes
<1>7. BringsTasks(r) <=> BringsTasks(user[u])
  BY <1>4 DEF BringsTasks
<1>8. t \notin astray => Written(r, t) = IF off THEN {} ELSE JobsOf(row, ts)
  <2> SUFFICES ASSUME t \notin astray PROVE Written(r, t) = IF off THEN {} ELSE JobsOf(row, ts)
    OBVIOUS
  <2>1. CASE off
    <3>1. ~row.active
      BY <1>2, <1>3, <1>5, <2>1 DEF SwitchShape, Knows
    <3> QED
      BY <1>4, <2>1, <3>1 DEF Written, JobsOf
  <2>2. CASE ~off
    <3>1. BringsTasks(r) \/ HasRead(user[u], t)
      BY <1>2, <1>7, <2>2 DEF HasRead
    <3>2. HasRead(user[u], t) => ts = tasks[t]
      BY <1>3, <1>5 DEF Knows
    <3> QED
      BY <1>4, <2>2, <3>1, <3>2 DEF Written
  <2> QED
    BY <2>1, <2>2
<1>9. CASE ~off /\ row.setting = Event /\ last' = last
  <2>1. user[u].op \in {"switch", "reswitch"} /\ SwitchShape(user[u]) /\ user[u].body
    BY <1>2, <1>3, <1>9
  <2>2. ~Mends(user[u], t)
    BY <1>3, <1>9, <2>1 DEF Mends
  <2>3. NewIsQuiet(t)'
    BY <1>1, <1>2, <1>4, QuietStays
  <2>4. ASSUME t \notin astray PROVE InStep(t)'
    <3>1. CASE user[u].op = "reswitch"
      BY <1>1, <1>2, <1>4, <1>5, <1>6, <1>9, <2>2, <2>4, <3>1, Stays DEF Same
    <3>2. CASE user[u].op = "switch"
      <4>1. trig[t] \in TrigRow /\ user[u].locks /\ r.locks /\ r.row.setting = Event
        BY <1>3, <1>4, <1>9, <2>1, <3>2 DEF TypeInv, RowsType, SwitchShape
      <4> QED
        BY <1>1, <1>2, <1>4, <1>5, <1>6, <1>9, <2>2, <2>4, <3>2, <4>1, SwitchForEvent DEF Same
    <3> QED
      BY <2>1, <3>1, <3>2
  <2>5. InStep(t)'
    BY <2>4 DEF InStep
  <2> QED
    BY <1>9, <2>3, <2>5
<1>10. CASE Send(t, IF off THEN {} ELSE JobsOf(row, ts))
  <2>1. /\ last'[t] = IF off THEN {} ELSE JobsOf(row, ts)
        /\ \A x \in Triggers \ {t} : last'[x] = last[x]
    BY <1>1, <1>10, SendIs
  <2>2. t \notin astray => last'[t] = Written(r, t)
    BY <1>8, <2>1
  <2>3. t \notin astray /\ user[u].op = "reswitch" => last'[t] = JobsOf(trig[t], tasks[t])
    <3>1. t \notin astray /\ user[u].op = "reswitch" => r.row = trig[t] /\ ~BringsTasks(r)
      BY <1>4, <1>5 DEF Knows, BringsTasks
    <3> QED
      BY <2>2, <3>1 DEF Written
  <2>4. t \notin astray =>
              \/ t \in r.trigs /\ Writes(r) /\ last'[t] = Written(r, t)
              \/ /\ user[u].op \in {"reswitch", "app_delete"}
                 /\ last'[t] = JobsOf(trig[t], tasks[t])
    BY <1>2, <1>4, <1>6, <2>2, <2>3
  <2>5. InStep(t)' /\ NewIsQuiet(t)'
    BY <1>1, <1>2, <1>4, <1>5, <2>4, Sends
  <2> QED
    BY <2>1, <2>5
<1>11. \/ ~off /\ row.setting = Event /\ last' = last
       \/ Send(t, IF off THEN {} ELSE JobsOf(row, ts))
  BY <1>3 DEF Deploy, Undeploy
<1> QED
  BY <1>9, <1>10, <1>11

LEMMA DeliverKeeps ==
    ASSUME TypeInv, RowsInv, NEW u \in Users, Deliver(u)
    PROVE  RowsInv'
<1>0. PICK t : t = Target(u)
  OBVIOUS
<1>1. /\ UsersType /\ QueueType /\ user[u].pc = "deliver"
      /\ UNCHANGED <<trig, tasks, astray>>
  BY DEF Deliver, TypeInv, rows
<1>2. user[u] \in RequestRecord /\ t \in Triggers /\ t \in user[u].trigs
  BY <1>0, <1>1, AtDeploy
<1>3. CASE user[u].op # "app_delete"
  <2>1. PICK r : r = [user[u] EXCEPT !.pc = "commit"]
    OBVIOUS
  <2>2. Becomes(u, r)
    BY <1>1, <1>3, <2>1, Moves DEF Deliver, UsersType
  <2>3. PICK off \in BOOLEAN : off <=> user[u].op \in {"switch", "reswitch"} /\ ~user[u].body
    OBVIOUS
  <2>4. \/ off /\ Undeploy(t)
        \/ ~off /\ Deploy(t, user[u].row, user[u].tasks)
    BY <1>0, <2>3 DEF Deliver
  <2>5. /\ InStep(t)' /\ NewIsQuiet(t)'
        /\ \A x \in Triggers \ {t} : last'[x] = last[x]
    BY <1>0, <1>1, <1>2, <1>3, <2>1, <2>2, <2>3, <2>4, DeliverAtOne
  <2>6. user[u].trigs = {t} /\ r.trigs = {t}
    BY <1>0, <1>1, <1>2, <1>3, <2>1, AtDeploy DEF RequestRecord
  <2> QED
    BY <1>1, <1>2, <2>2, <2>5, <2>6, OneTriggerStep DEF Same
<1>4. CASE user[u].op = "app_delete"
  <2>1. AppDeleteShape(user[u]) /\ t = user[u].body /\ ~user[u].locks
    BY <1>0, <1>1, <1>4, AtApp DEF Target, AppDeleteShape
  <2>2. PICK r : r = [user[u] EXCEPT !.pc = "row", !.trigs = user[u].trigs \ {t}]
    OBVIOUS
  <2>3. r.pc = "row" /\ r.op = "app_delete" /\ ~r.locks /\ r.trigs = user[u].trigs \ {t}
    BY <1>2, <1>4, <2>1, <2>2 DEF RequestRecord
  <2>4. Becomes(u, r)
    BY <1>0, <1>1, <1>4, <2>2, Moves DEF Deliver, UsersType
  <2>5. InStep(t) /\ NewIsQuiet(t)
    BY <1>2 DEF RowsInv
  <2>6. t \notin astray => user[u].row = trig[t] /\ user[u].tasks = tasks[t]
    BY <1>1, <1>2, <1>4, <2>1, <2>5 DEF InStep, Known, Knows, HasRead, InProgress
  <2>7. Deploy(t, user[u].row, user[u].tasks)
    BY <1>0, <1>4 DEF Deliver
  <2>8. \A x \in Triggers \ {t} : last'[x] = last[x]
    BY <1>1, <1>2, <2>7, SendIs DEF Deploy
  <2>9. InStep(t)' /\ NewIsQuiet(t)'
    <3>1. CASE Send(t, JobsOf(user[u].row, user[u].tasks))
      <4>1. last'[t] = JobsOf(user[u].row, user[u].tasks)
        BY <1>1, <1>2, <3>1, SendIs
      <4> QED
        BY <1>1, <1>2, <1>4, <2>3, <2>4, <2>5, <2>6, <4>1, Sends
    <3>2. CASE user[u].row.setting = Event /\ last' = last
      <4>1. t \notin astray => ~Mends(user[u], t) /\ ~Writes(user[u])
        BY <1>4, <2>6, <3>2 DEF Mends, Writes
      <4> QED
        BY <1>1, <1>2, <2>3, <2>4, <2>5, <3>2, <4>1, Leaves DEF Same
    <3> QED
      BY <2>7, <3>1, <3>2 DEF Deploy
  <2>10. ASSUME NEW x \in Triggers, x # t PROVE InStep(x)' /\ NewIsQuiet(x)'
    BY <1>1, <1>4, <2>3, <2>4, <2>8, <2>10, AppGoesOn DEF RowsInv, Same
  <2> QED
    BY <2>9, <2>10 DEF RowsInv
<1> QED
  BY <1>3, <1>4

\* A run that removes a task says nothing of it: the trigger is astray from then on.
LEMMA RunSourceKeeps ==
    ASSUME TypeInv, RowsInv, NEW r \in Runs, RunSource(r)
    PROVE  RowsInv'
<1>0. PICK t : t = run[r].trigger
  OBVIOUS
<1>1. UNCHANGED <<trig, last, user>>
  BY DEF RunSource, celery
<1>2. PICK s : s = run[r].source
  OBVIOUS
<1>3. t \in Triggers /\ s \in Sources /\ tasks[t] \in [Sources -> TaskRow]
  BY <1>0, <1>2 DEF TypeInv, RunsType, RowsType
<1>4. \/ UNCHANGED <<tasks, astray>>
      \/ /\ tasks' = [tasks EXCEPT ![t] = [tasks[t] EXCEPT ![s] = "gone"]]
         /\ astray' = IF tasks[t][s] = "gone" THEN astray ELSE astray \cup {t}
  BY <1>0, <1>2, <1>3 DEF RunSource, TypeInv, RowsType
<1>5. ASSUME NEW x \in Triggers, Same(x), x \in astray' <=> x \in astray
      PROVE  InStep(x)' /\ NewIsQuiet(x)'
  BY <1>1, <1>5, Still DEF RowsInv, InProgress
<1>6. CASE UNCHANGED <<tasks, astray>>
  BY <1>1, <1>5, <1>6 DEF RowsInv, Same
<1>7. CASE /\ tasks' = [tasks EXCEPT ![t] = [tasks[t] EXCEPT ![s] = "gone"]]
           /\ astray' = IF tasks[t][s] = "gone" THEN astray ELSE astray \cup {t}
  <2>1. \A x \in Triggers \ {t} : Same(x) /\ (x \in astray' <=> x \in astray)
    BY <1>1, <1>7 DEF Same, TypeInv, RowsType
  <2>2. CASE tasks[t][s] = "gone"
    <3>1. tasks'[t] = tasks[t]
      BY <1>3, <1>7, <2>2 DEF TypeInv, RowsType
    <3> QED
      BY <1>1, <1>3, <1>5, <1>7, <2>1, <2>2, <3>1 DEF RowsInv, Same
  <2>3. CASE tasks[t][s] # "gone"
    <3>1. trig[t].state # "new"
      BY <1>3, <2>3 DEF RowsInv, NewIsQuiet, NoTasks
    <3>2. InStep(t)' /\ NewIsQuiet(t)'
      BY <1>1, <1>7, <2>3, <3>1 DEF InStep, NewIsQuiet
    <3> QED
      BY <1>5, <2>1, <3>2 DEF RowsInv
  <2> QED
    BY <2>2, <2>3
<1> QED
  BY <1>4, <1>6, <1>7

LEMMA RowsStep == TypeInv /\ RowsInv /\ [Next]_vars => RowsInv'
<1> SUFFICES ASSUME TypeInv, RowsInv, [Next]_vars PROVE RowsInv'
  OBVIOUS
<1>1. ASSUME NEW u \in Users, NewRequest(u) PROVE RowsInv'
  BY <1>1, InsertKeeps, EditKeeps, SwitchKeeps, DeleteKeeps, SourceDeleteKeeps, AppDeleteKeeps
  DEF NewRequest
<1>2. ASSUME NEW u \in Users, UserStep(u) PROVE RowsInv'
  BY <1>2, EditSaveKeeps, EditSendKeeps, SwitchSendKeeps, ReadTasksKeeps, DeliverKeeps, CommitKeeps,
     DeleteTasksKeeps, DeleteRowKeeps, AppSelectKeeps, AppTasksKeeps, AppRowKeeps DEF UserStep
<1>3. ASSUME UNCHANGED <<trig, tasks, user, last, astray>> PROVE RowsInv'
  <2>1. \A x \in Triggers : Same(x) /\ InProgress(x)' = InProgress(x)
    BY <1>3 DEF Same, InProgress
  <2>2. ASSUME NEW x \in Triggers PROVE InStep(x)' /\ NewIsQuiet(x)'
    BY <1>3, <2>1, Still DEF RowsInv
  <2> QED
    BY <2>2 DEF RowsInv
<1>4. ASSUME NEW w \in Workers, WorkerStep(w) \/ WorkerDies(w) PROVE RowsInv'
  BY <1>3, <1>4 DEF WorkerStep, WorkerDies, Take, ListJobs, RemoveJob, AddJob, rows
<1>5. ASSUME NEW r \in Runs, RunStep(r) \/ RunDies(r) PROVE RowsInv'
  BY <1>3, <1>5, RunSourceKeeps DEF RunStep, RunRecord, RunEnd, RunDies, rows, celery
<1>6. ASSUME NEW r \in Runs, NEW t \in Triggers, NEW j \in Jobs, Fire(r, t, j) PROVE RowsInv'
  BY <1>3, <1>6 DEF Fire, rows, celery
<1>7. CASE Rest \/ UNCHANGED vars
  BY <1>3, <1>7 DEF Rest, vars
<1> QED
  BY <1>1, <1>2, <1>4, <1>5, <1>6, <1>7 DEF Next

\* When no request on a trigger is in progress, the message sent last is what its rows say,
\* unless requests met that no lock keeps apart or that send nothing, or one of its tasks
\* went after a request had read them and before it sent them.
THEOREM LastMessageFollowsTheRows == Spec => []LastMessageIsTheRows
<1>1. Init => TypeInv /\ RowsInv
  BY TypeInit, RowsInit
<1>2. TypeInv /\ RowsInv /\ [Next]_vars => (TypeInv /\ RowsInv)'
  BY TypeStep, RowsStep
<1> QED
  BY <1>1, <1>2, RowsInvIsEnough, PTL DEF Spec
=============================================================================
