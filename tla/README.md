# TLA+ models of Nebula KB

Nebula KB (a fork of MaxKB) is a Django 5 application: a knowledge base whose documents are cut
into paragraphs and vectorised into PostgreSQL/pgvector, applications that answer chats from it by
running workflows, tools, and triggers that start all of this on a schedule. Web processes and
Celery workers share PostgreSQL and Redis and nothing else; inside a process, thread pools run the
nodes of a workflow. This directory holds the TLA+ modules that model its concurrent core, the TLC
configurations that check them on small instances, and proofs that TLAPS checks for every instance.

Run from this directory:

    tlasany EmbeddingTask.tla
    tlc -workers 2 -config embed_cancel.cfg MCEmbeddingTask.tla
    tlapm EmbeddingTaskProofs.tla

`PROJECT.json` lists the components, the runs, the mutants (plausible bugs of the code, each of
which a run's property must catch), the source lines behind every definition, the findings, the
hazards and the theorems.

## 1. Inventory

Paths are below `src/apps/` unless they begin otherwise. "Hard" is what makes a component worth a
model; the hazards in `PROJECT.json` give each one its line.

| Component | State it keeps | Operations | Hard |
|---|---|---|---|
| Document vectorisation (`common/event/listener_manage.py`, `knowledge/task/embedding.py`, `common/utils/page_utils.py`) | embedding status and `status_meta.aggs` of documents and paragraphs, rows of the vector store, the Celery queue, the `celery_once` key, the Redis lock | `embedding_by_document`, `embedding_by_paragraph`, knowledge-wide and list variants, enabling and disabling | every statement commits on its own; cancels, edits, deletes and other workers come in between; crashes leave keys behind |
| Document and paragraph requests (`knowledge/serializers/document.py`, `paragraph.py`) | the same rows | refresh, cancel, edit, delete, create, and batches of them | run concurrently with the workers; `save()` writes back a row read earlier; statuses are written before the task is queued |
| Redis lock (`common/utils/lock.py`) | one key with a token and a time to live | `try_lock`, `un_lock` | a holder may outlive its key |
| Start of a web process (`common/event/__init__.py`) | - | declares busy documents and model downloads failed | the workers may be alive |
| Vector store and retrieval cache (`knowledge/vector/`) | vectors; results cached for 300 s under a key that names the knowledge bases asked | save, delete, query, invalidate; the search step sweeps vectors of deleted paragraphs | a result computed before an invalidation is stored after it; the invalidation precedes the commit; knowledge bases are looked up before the write |
| Workflow engine (`application/flow/workflow_manage.py`, `loop_workflow_manage.py`, `knowledge_workflow_manage.py`, `tool_workflow_manage.py`, `common.py`, `i_step_node.py`) | node instances, `node_context`, `future_list`, chunks | run a chain, choose next nodes, join and branch, read the stream, store the record, clean up | threads, a reader and a leaving client share lists without a lock |
| Workflow nodes (`application/flow/step_node/`) | their own context | one `execute` each; the loop node runs a child workflow on the same pool | nested waiting on one pool of threads |
| Knowledge workflow actions (`knowledge/serializers/knowledge_workflow.py`) | `KnowledgeAction.state`, a cancel flag in the cache | run, cancel | flag and state are written separately, by three parties; the flag runs out; a crash leaves STARTED |
| Knowledge bases (`knowledge/serializers/knowledge.py`) | knowledge rows | knowledge-wide re-index, CRUD | overlaps with tasks of single documents |
| Problem generation (`knowledge/task/generate.py`) | status of GENERATE_PROBLEM, problems | generate per paragraph | same life cycle as vectorisation |
| Web document synchronisation (`knowledge/task/sync.py`) | documents | fetch and replace | network I/O |
| Chat (`chat/serializers/chat.py`, `chat_record.py`, `application/serializers/common.py`, `application/chat_pipeline/`) | `ChatInfo` in the cache, chat records and their votes, a daily counter | ask, reopen, answer, append a record, vote, count; clean-up and reset at night | read-modify-write of one cache entry, of a record and of a counter, by requests that overlap |
| Triggers (`trigger/serializers/`, `trigger/handler/`) | trigger and task rows, APScheduler jobs, task records | create, edit, switch, delete; deploy and undeploy in Celery; run | rows, messages and jobs change in three places with no lock over them |
| Model cache (`common/config/embedding_config.py`, `common/cache/mem_cache.py`) | model objects in a process | get, delete, time out | a model deleted while it is rebuilt |
| Model downloads (`models_provider/serializers/model_serializer.py`) | `Model.status` | start, pause, resume | an ending thread against a pause |
| Tool harness, scheduled jobs, Celery operations, users and permissions, applications/tools/folders/files, parsing | rows | CRUD, sequential checks, pure I/O | nothing a model checker reaches better than a test |

How they interact: a request (refresh, the end of an upload) writes statuses and queues a Celery
task through `celery_once`; the task takes the Redis lock of its document, walks through the
paragraphs, looks before each one whether it has been interrupted, and writes the final statuses.
Requests never talk to a running task except through the rows. A workflow is started by a chat
request, a trigger or a knowledge workflow; its threads come from one executor of 200 and talk to
their reader through `future_list` and the chunks of their nodes.

What makes each correct:

- vectorisation: no status looks busy when nobody works; a SUCCESS can be found by its present
  text; one worker at a time on a document; every busy status ends;
- lock: between `try_lock` and `un_lock` the key is the holder's or has run out;
- workflow: an AND node runs after all of its predecessors and is never lost; the record is stored
  and the workflow taken apart only after the last thread; the reader always gets there;
- knowledge actions: when a run is over its row says what the post handler found, SUCCESS only if
  documents were written, REVOKED if the cancel was in time;
- retrieval: what is disabled, deleted or moved is not shown; vectors agree with their paragraphs;
  a stale cached result has one of a few known causes;
- triggers: the jobs are those of the last message, the last message says what the rows say, and
  a run's record ends;
- chat: the cached conversation is the tail of the stored one; a record says what the client was
  told; a vote stays; the daily limit is passed only by turns under way.

## 2. Modules

### EmbeddingTask (with MCEmbeddingTask, EmbeddingTaskProofs)

Celery workers and web requests are processes with a program point `pc[q]` and locals `loc[q]`.
One action is one database statement or Redis command, because nothing but the lock orders the
statements of two processes; what the code computes between two statements from one read is part of
the action of the read.

| Code | Actions |
|---|---|
| `embedding_by_document` (listener_manage.py) and its `finally` clause | `Take`, `TryLock`, `Check`, `Start`, `Count`, `NextPage`, `NextParagraph`, `PostRead`, `PostDoc`, `PostParas`, `PostAggregate`, `UnLock`, `Release` |
| its `except` clause (lines 296-298); what nobody handles | `TaskError`; `TaskRaises` |
| `embedding_by_paragraph` and `batch_save`, in a worker or in a request | `ParagraphStart`, `ReadText`, `DeleteVectors`, `Embed`, `Recheck`, `Insert`, `ParagraphDone`, `ParagraphError`, `ParagraphFailed` |
| `refresh` | `RefreshStart`, `RefreshParagraphs`, `RefreshAggregate`, `RefreshDelay` |
| `cancel` | `CancelParagraphs`, `CancelDocument` |
| edit of a document, of a paragraph | `EditDocumentRead/Save`, `EditParagraphRead/Save` and the paragraph steps |
| create, delete of a paragraph; delete of a document | `CreateParagraph`, `DeleteParagraphRow/Vectors`, `DeleteDocument` |
| `run()` of a starting web process | `EventInit` |
| no code: processes and Redis | `Crash`, `LockExpires`, `OnceExpires` |

`doc`, `para` and `aggs` are the columns, with "GONE" for a missing row; `vec[p]` the rows of the
vector store, each with its writer and the version of the text it was made of; `lock[d]` the token
in the Redis key; `once[d]` the `celery_once` key. `overdue` and `raised` are history variables: the
workers whose key ran out while they were between `try_lock` and `un_lock`, and the documents whose
task raised an exception since a refresh last reset the statuses of its paragraphs.

Exceptions of a task go three ways. Inside the `try` of `embedding_by_paragraph` the paragraph becomes
FAILURE (`ParagraphError`, at any of its statements: after the insert it leaves the vectors behind).
Anywhere else in the task, a statement that fails or the soft time limit of Celery
(`lzkb/settings/lib.py:90`) is logged and swallowed, and the `finally` clause writes the final status as
if the pages had been visited (`TaskError`): SUCCESS, although paragraphs are left PENDING or STARTED. In
`try_lock` and in the `finally` clause nobody handles it and the key stays (`TaskRaises`).

Abstractions: only the statuses of `TaskType.EMBEDDING`; the text of a paragraph is its version
number; `CreateParagraph` and `DeleteDocument` are one step because the code wraps them in one
transaction; a process has one embedding model that answers or fails. The vectors of a paragraph are
embedded and inserted at once, where `batch_save` goes through them in chunks and looks for an
interruption before each: a paragraph that is cut off between two chunks, or fails at the second one,
has some of its vectors in the code, and none or all in the model. The failure of a statement of a web
request, outside `embedding_by_paragraph`, is left out.

### Lease (with LeaseProofs)

What a lock with a time to live promises, without Redis: it is granted when free, may run out under
its holder, and a late release takes nothing from the successor. `EmbeddingTask!L` instantiates it
with the mapping holder <- `lock`, inside <- the document of a worker whose program point lies
between `try_lock` and `un_lock`, late <- `overdue`. A worker that a deleted document makes raise,
or that is killed, `Abandon`s the lease; leaving silently after a refused `try_lock` is a stutter.

### WorkflowManage (with MCWorkflowManage, WorkflowManageProofs)

One execution of a workflow on one executor. `main` is the reader and its mode says which one:
`await_result` of a streamed chat or of the body of a loop, the loop of `run_block`, or
`_run` of a knowledge workflow.

| Code | Actions |
|---|---|
| the executor, `run_chain_manage`, `append_node` | `Begin`, `AppendNode` |
| `run_chain`, `hand_node_result` and its `finally` clause | `Run`, `Check`, `End` |
| `get_next_node_list`, `dependent_node_been_executed`, `get_up_node_id_list` | `NextEdge` |
| the rest of `run_chain_manage` | `NextNode`, `SubmitNode`, `Register` |
| `run_chain_async` | `Launch`, `Enlist` |
| `is_run` | `IsRunLen`, `IsRunWait`, `IsRunWaited`, `IsRunCompare` |
| `await_result`, its `finally` clause, `_cleanup`, the post handlers | `Handle`, `Cleanup`, `Disconnect` |
| cancel of a knowledge workflow; the cache forgets its flag after 300 s | `Cancel`, `Forget` |

`objs` holds every node instance that was made, `node_context` the indices of those that
`append_node` kept: an instance replaces one with its `runtime_node_id`. What a node computes is
an outcome taken from the constant `Outcomes`. The chunks of text are left out (planned), an
execution begins with an empty context (no resumed form), and `NextEdge` looks at all predecessors
of one next node in one step, though the code walks `node_context` once for each predecessor. An
instance that has ended never un-ends; a longer look differs only if an instance of an earlier
predecessor is replaced by a second run of its node (`finding_join`) in the middle of it.

### KnowledgeAction (with MCKnowledgeAction, KnowledgeActionProofs)

The row `KnowledgeAction` composed with the execution that it describes: every step of
WorkflowManage is joined with what it does to the row, and two parties are added.

| Code | Actions |
|---|---|
| `_run` | `LaunchAction`, `ReaderAction` |
| `hand_node_result` and its `finally` clause (knowledge_workflow_manage.py) | `CheckAction`, `EndAction`, `OtherAction` |
| `KnowledgeWorkflowPostHandler.handler`, `get_workflow_state` | `Judge`, `HandleAction` |
| `Operate.cancel` | `CancelFlag`, `CancelState` |

`raised` are the threads about to write FAILURE, `revoked` the instances whose status became 201,
`verdict` what the handler has computed and not yet written, `late` the history of a cancel that came
after that. A run of another mode goes on without touching the row. The nodes inside a loop node are
not among the details here: the failure of a loop is an outcome of the loop node itself.

### Retrieval (with MCRetrieval, RetrievalProofs)

Questions against requests on paragraphs. `para` and `vec` are the rows of the two tables, `cache`
has one slot for each list of knowledge bases (one question text is asked; the list is part of the
key).

| Code | Actions |
|---|---|
| `PGVector.query` and its cache | `Ask`, `Compute`, `Store`, `Expire` |
| `list_paragraph` of the search step | `List`, `Sweep`, `Answer` |
| `update_by_paragraph_ids`, `delete_by_paragraph_ids`, `invalidate_retrieval_cache` | `Lookup`, `Write`, `ScanKey`, `Drop`, `InvalidateFails` |
| edit, enable, disable, delete of a paragraph | `Edit`, `Save`, `Delete` and the calls above |
| batch deletion, migration (one transaction each) | `BatchDelete`, `Migrate`, `Commit` |
| re-embedding by a worker | `Embed`, `ReadText`, `Recheck`, `Insert` |

Two history variables carry the argument. `blame` of a cached result collects, per paragraph, what
can have made it stale: "late" (the store changed between the search and the caching), "early" (it
was cached between an invalidation and the commit it belongs to), "failed" (Redis refused), "moved"
(the rows were in other knowledge bases at the lookup), "inserted" (new vectors invalidate nothing).
`Commit` blames "early" on every result that is cached when it comes, so of the two requests that
invalidate inside a transaction, batch deletion and migration, `StaleIsExplained` says only that what
is stale after them was cached before their commit.
`crossed` names the paragraphs on which requests met that nothing keeps apart.

### Trigger (with MCTrigger, TriggerProofs, TriggerRowsProofs)

Rows of triggers and their tasks, the Celery queue, the jobs in the one DjangoJobStore, the runs.

| Code | Actions |
|---|---|
| `insert`, `edit`, `batch_switch`, `delete`, `batch_delete` | `Insert`, `Edit`, `EditSave`, `EditSend`, `Switch`, `SwitchSend`, `Delete`, `DeleteTasks`, `DeleteRow`, `Commit` |
| the deletion of a source's trigger, of an application | `SourceDelete`, `AppDelete`, `AppSelect`, `AppTasks`, `AppRow` |
| `ScheduledTrigger.deploy`: the read of the tasks, the message | `ReadTasks`, `Deliver` |
| `deploy_scheduled_trigger`, `undeploy...`, `_remove_trigger_jobs` | `Take`, `ListJobs`, `RemoveJob`, `AddJob` |
| `ScheduledTrigger.execute`, `ApplicationTask.execute` | `Fire`, `RunSource`, `RunRecord`, `RunEnd` |
| no code: processes that end | `WorkerDies`, `RunDies` |

A message is the set of jobs that the deployer would add, the empty set to undeploy. A deployment
reads the tasks (scheduled_trigger.py:260) and sends them with a later statement (line 266), in edits
and switches as in deletions of applications, and only the row locks of the request that deploys
keep others away between the two. A creation is the exception: nobody else sees its rows. A task of a trigger is known by its source; an edit that brings tasks
replaces all rows of the trigger, in one step. `last` is the last message of a trigger; `tangled`
(two workers at once, or a killed one) and `astray` (requests that met outside any lock, or that send
nothing, or a task that went after a deployment had read it and before it was sent) name what can
have come between. `RunEnd` is the one end of a run: the code writes SUCCESS or FAILURE as the chat
record says, FAILURE without one or after an exception, and the model tells only that each of these
ways ends the record. Jobs fire any number of times; several schedulers on one
store are one here, as they share the jobs.

### Chat (with MCChat, ChatProofs)

One conversation and one client. A turn reads its list of records at the start and writes the
record, the cache and the counter at the end, in the order of its kind of application.

| Code | Actions |
|---|---|
| `chat`, `re_open_chat`, `get_chat_info`, `is_valid_intraday_access_num`, `chat_simple`/`chat_work_flow` | `Ask`, `Reopen`, `Recache`, `Check`, `Run` |
| `append_chat_record`, `set_cache` of `ChatInfo` | `SaveChat`, `SaveRecord`, `SetCache` |
| `event_content`, the workflow's post handler | `ChunkFirst`, `Appends`, `End`, `Fail`, `Disconnect` |
| the `except` clause of `IBaseChatPipelineStep.run` | `Raise`, `Ends` |
| `add_access_num` | `CountRead`, `CountWrite` |
| `VoteSerializer.vote` | `Vote`, `VoteSave`, `VoteCommit` |
| the cleaner, the reset of the counters, the timeout of the cache | `Clean`, `Reset`, `Expire` |

An answer is the number of its turn, or that there was an exception: in the stream, which then tells
the client (`Fail`), or in a step of a simple application before there is a stream (`Raise`). The
second is saved as the answer too, is not counted, is told in no stream and is raised again; if the
details of a step cannot be collected, nothing is saved. A copy of a record has an id that is a UUID or
a string, and `Put` compares as `append_chat_record` does (common.py:309), so the two are never equal:
in a simple application, which takes the id to go on with from the request as a string, a record that
was answered under a UUID and is answered again is put at the end of the list and stays in its old
place as well. A workflow goes on with the copy it finds and has no such pairs. Answers are streamed:
the block answers of `execute_block` (`stream = false`), which make a new record each time and count
before they answer, are left out. A vote holds a Redis lock that
it gives back before its transaction commits, so two votes are kept apart by the row lock alone.
`given` and `voted` are what the client was told; `forked`, `overwritten`, `outvoted`, `uncounted` name
the races that part the stored state from it. `moved` says that an old record is not where it was: one
that a turn goes on with has been put at the end of a list that had dropped it, or had it under a UUID,
or a `save()` has inserted a record that the cleaner deleted meanwhile. `create_time` is `auto_now_add`, so the row is then the newest of its chat,
while the remembered list, and the order the client saw, have it as the oldest.

## 3. Runs

| Run | Instance | Shows |
|---|---|---|
| `embed_cancel` | 1 document, 2 paragraphs, 2 workers, 2 requests at once | with uploads, re-indexing of a document at rest, cancels, deletions, failing models, exceptions in tasks and expiring Redis keys in any order: `SettledDocument`, `SettledParagraph`, and under fairness `BusyEnds` |
| `embed_reindex` | the same, a third paragraph still to be created | re-indexing at any time, creations, deletions, renaming, killed workers and restarts, without cancels and edits: `OneCopy`, `SuccessIsSearchable` |
| `embed_faults` | 1 request at once, a second paragraph still to be created | every request and fault: `TypeOK`, `LockInv`, `OneWorkerPerDocument`, `ImplementsLease` |
| `workflow_join` | start -> a, b -> AND node, which writes documents; 2 threads; streamed and knowledge, with the row of the run | a and the AND node may fail, b may interrupt, the client may leave, the user may cancel at any time and again: `NothingRunsAfterTheEnd`, `JoinAfterAll`, `NoLostNode`, `ActionTypeOK`, `StateStands`, `SuccessIsEarned`, `CancelIsHeard` |
| `workflow_branch` | a condition, an exception branch, an OR node, an AND node, a form; 1 thread; not streamed, in a loop, and knowledge | `TypeOK`, `NoLostNode`, and under fairness `Terminates` |
| `retrieval` | 1 paragraph, 2 knowledge bases, the questions {k1} and {k1, k2}, 1 asker, 2 writers, 2 requests or failures of Redis | `TypeOK`, `StaleIsExplained`, `StoreMirrorsParagraphs`, `SettledIsNotShown`, and under fairness `DirtIsSwept` |
| `trigger` | 1 trigger, 2 applications, 2 schedules, 2 requests at once, 2 workers, 1 run | `TypeOK`, `JobsAreTheLastMessage`, `LastMessageIsTheRows`, and under fairness `Converges`, `RecordsEnd` |
| `chat` | 2 turns and 2 votes at once, 3 requests and 1 fault; the cache keeps 2 records, a reopened conversation 1; limit 1 | `TypeOK`, `MemoryIsTheTail`, `LatestIsRemembered`, `RecordsSayWhatWasTold`, `VotesStay`, `LimitHolds` |
| `finding_*` | the smallest instance with the requests concerned | one violated property each, see section 6 |

Bounds, and why they are enough. `MaxRequests = 4` (5 in `embed_cancel`) admits an upload, a re-index,
a cancel and one fault, in any order and overlapping; every hazard of the vectorisation needs two actors besides the
worker at most. Two paragraphs with `PageSize = 1` make two pages, so that the pages move under the
loop when statuses change; a larger page only merges visits. `MaxVersion = 2` is one edit. Two
workers are what the lock is about. Documents share nothing but the workers and the queue, so one
document is enough for the properties, all of which speak of one document. In WorkflowManage
`MaxFutures` is above what the graph can submit (a future stuck at the bound would violate
`Terminates`); `PoolSize` 2 lets the predecessors of the join run together, `PoolSize` 1 makes
submitted futures wait behind the thread that submitted them. In the diamond of `workflow_join` the
AND node can run twice and fail once, which is the case `SuccessIsEarned` is about; the liveness of
the reader is checked on the other graph, where it costs less. In Retrieval one paragraph is enough
because no property relates two, two knowledge bases are what a migration needs, the two lists are
one that a migration leaves and one that it does not, and two requests are all that can cross on a
paragraph at once. In Trigger the two applications let a deployment be half done and the two
schedules tell old jobs from new ones; messages of two triggers do not meet. In Chat a cache of two
records and a reopening with one make both limits bite within three turns, and two turns are enough
for every lost update; `Limit = 1` makes the counter refuse. The run also passes with `MaxFaults = 2`,
which takes longer.

Requests that an instance leaves out are left out for a reason: `embed_cancel` has no edit, no
creation, no re-index of a document that is being worked on and no restart of a web process, because
each breaks its properties (section 6, and the hazard at `common/event/__init__.py:37`); crashes are
left out for the same reason, since nobody repairs the statuses of a killed worker until a web process
starts, and so are exceptions in `try_lock` and in the `finally` clause, which leave the document just
so. An exception elsewhere in a task is in: `SettledDocument` and `BusyEnds` hold through it, and
`SettledParagraph` excuses the documents it happened to, until the next refresh. `embed_reindex` has no cancel (`finding_cancel`), no edit, which embeds inside its request and
outside the lock, and no lock that runs out under its holder. What both leave out is exactly what the
theorems about these properties exclude (section 4). `embed_faults` has them all, because the lock
must withstand them all.

Fairness. `FairSpec` of EmbeddingTask is weak fairness of each worker's task and of the rest of each
request that has begun: operating systems schedule them, none of their steps waits for another one
(`try_lock` does not block), and the embedding model answers or raises within its timeouts. Nobody
is obliged to send a request. In WorkflowManage the reader and each thread are weakly fair; no node
is assumed to succeed, no client to stay and no user to cancel. In Retrieval a request and a question
that have begun are carried through and cached keys run out (Redis does that by itself); in Trigger
requests, Celery workers that live and runs are carried through, jobs need not fire. None of these
waits for another one for ever: a row lock is held by a transaction that is itself carried through.
KnowledgeAction and Chat have safety only and no fairness: that the row of a run is settled in the
end is `Terminates` of the engine together with `StateStands`. A system with nothing to do may
rest for ever (`Rest`), so that TLC's deadlock check keeps its meaning for every other state.

## 4. Proofs

`EmbeddingTaskProofs` proves for all documents, paragraphs, workers, requests, pages and bounds, the
first four from the assumption `Constants` alone:

- `TypeCorrect`: `Spec => []TypeOK`. Its last part, `AtType`, ties program points to locals (a
  worker in the section has a document); everything else rests on it.
- `LockCorrect`: `Spec => []LockInv`. `LockInv` is inductive together with `TypeOK`: a worker inside
  holds the key of its document exactly when it is not overdue, and only workers inside are overdue.
- `OneWorker`: `Spec => []OneWorkerPerDocument`. The property alone is not inductive (nothing in it
  says who holds the key); it follows from `LockInv`, since two workers inside one document that
  are both on time would both be the value of `lock[d]`.
- `LeaseRefinement`: `Spec => ImplementsLease`. Initial states map to initial states; `TryLock`
  maps to `Acquire`, `UnLock` to `Release`, `PostRead` of a deleted document and `Crash` to
  `Abandon`, `LockExpires` to `RunOut`, all other steps stutter. `LockInv` is what makes the
  comparison of tokens in `UnLock` agree with "late" in the abstract lock.

The other four are about statuses and vectors. The code keeps them only while some kinds of requests
and faults do not happen; each theorem names those it excludes, all others may happen at any time
and in any number. TLC shows for each excluded kind a behaviour that breaks the property.

- `OneCopyOfEach`: `Spec => []OneCopy` if `NothingIsEdited` and `NoLockRunsOut`. An edit embeds its
  paragraph inside the request, and a worker that has outlived its key shares the document with the
  next one: both let two processes delete and insert on one paragraph. `WorkersOnly` says that only
  workers embed, and paragraphs of their own document, so that two of them are never on one paragraph
  (`Apart`, from `LockInv`); `Copies` says at which points a paragraph has no rows.
- `SuccessIsFound`: `Spec => []SuccessIsSearchable`, if moreover `NothingIsCancelled`
  (`finding_cancel`). `Searchable` adds which text a worker has read, and what it still has to insert
  before it writes SUCCESS (`Embeds`); a paragraph deleted under it stays deleted.
- `AtRestAfterAll`: `Spec => []SettledDocument` if `OneAtATime`: no re-index of a document that is
  being worked on (`finding_refused`), no renaming (`finding_rename`), no killed worker, no exception in
  `try_lock` or in the `finally` clause. The property
  is far from inductive. `Carried` says that a busy document has a carrier, and only one (`Carriers`): a
  refresh, an entry of the queue, or a worker that has not written its last status. Nothing locks that:
  it holds because the key of `celery_once` may run out early but is never set without a carrier, so a
  refresh of a document at rest is never refused, and because a Redis lock is left behind only by the
  deletion of its document (`KeysHeld`), so the only carrier is never turned away by `try_lock`.
- `NoParagraphForgotten`: `Spec => []SettledParagraph` if `OneAtATime`, `OnlyTasksDeclare` (no edit,
  creation or restart: they declare statuses without a look at the paragraphs that wait, and an edit
  can bring a paragraph back into the query of a running task) and `ListsNameUnfinished` (both choices
  of the UI's dialog name PENDING and STARTED, `EmbeddingContentDialog.vue:26-29`). The property excuses
  the documents in `raised`; that a refresh takes its document out again is sound because its list
  resets all that a raised task may have left. `Covered` says for each point of a task where the
  paragraphs are that still wait: on the page in hand, or ahead of the pages that are left (`Ahead`), or
  the document is gone or cancelled. The pages are counted once and their queries shrink; since
  `page_desc` goes from the last page to the first, only paragraphs *behind* the ones that wait leave
  the query or are deleted ones, and their rank does not grow (`AheadStays`). From the first page to
  the last this fails, which is the mutant of the run.

`LeaseProofs` proves `LeasePromise`: `LeaseSpec => []LeaseExclusive`, for any resources and clients that
do not contain `None`. With `LeaseRefinement` the promise holds for whatever refines the lease.

`WorkflowManageProofs` proves, for every graph, outcome of its nodes, mode, pool and number of futures,
again from `Constants` alone (which asks of the graph that no edge bears the name of an outcome
that takes none):

- `TypeCorrect`: `Spec => []TypeOK`. The only delicate part is `UpNodes`: the code takes the first
  instance of a predecessor with `[0]`, and that it exists follows from the look at all predecessors
  before (`UpNodesType`, by a minimal element).
- `EndFound`: `Spec => []NothingRunsAfterTheEnd`. The reader never sees the futures a thread has
  submitted and not yet listed. The invariant `Accounting` says where each future is: in the list, in
  the hands of the reader before it enlists the first one, or in the hands of an *earlier* future that
  still runs. `Waited` says what the reader knows: its snapshot covers the first `main.len` entries of
  the list, and they are done. If the list has not grown since, all of it is done; the first future
  that is not done would have to be in the hands of an earlier one that is not done either (`AllDone`).
- `JoinCorrect`: `Spec => []JoinAfterAll`. The invariant `Owned` says that an instance is chosen or run
  by one thread, and not touched any more after it has ended: a look without a lock can miss an
  instance, but what it has seen stays true.
- `NoNodeLost`: `Spec => []NoLostNode`. The property speaks of the end of an execution; `LostInv` follows
  every edge until then. An instance that has not run is in somebody's hands (`Runs`), one that has run
  has ended or is about to (`Ends`), a thread has edges to look at only between the two (`Orderly`), and
  an edge that was taken is still to be looked at or served (`OrServed`, `AndServed`). The step that
  matters is the last look of the last predecessor: the others have ended, so they are shown in the
  details (`DetailsShowAll`, as long as the workflow is not taken apart), and since nobody replaced them
  it is themselves that are found (`JoinIsFound`). "Nobody replaced them" is a condition of the
  property, not of the proof: a node that a join runs twice (`finding_join`) is replaced in the context
  while it runs again, and if that run fails while the last other predecessor of a second join behind
  it looks, the second join is never made although every edge to it was taken.

`KnowledgeActionProofs` proves about the composition, again for every graph:

- `RunsTheEngine`: `ActionSpec => Spec`, so that `EndFound` and the rest hold of it.
- `RowSettles` and `CancelAnswered`: `StateStands` and `CancelIsHeard`. The invariant `RowInv` adds
  that a knowledge workflow is never cleaned up and that a verdict other than REVOKED is older than
  the flag (`Heard`). Its only delicate step is the thread that writes FAILURE: it must not exist any
  more, which is `EndFound`; the cancel is harmless because it asks for the state it replaces.
- `SuccessEarned`: `SuccessIsEarned`. It needs an invariant of the engine, `DetailsShowAll` (proved in
  `WorkflowManageProofs`): for each
  instance that has run the details show one with the same runtime_node_id, and what they show has
  run or is run by a thread. At the verdict no thread is left, so a failure that is not shown was
  replaced by an instance that has run and, being shown, has not failed.
- `ActionTypeCorrect`: `ActionTypeOK`.

`RetrievalProofs` proves for any paragraphs, knowledge bases, lists and requests:

- `TypeCorrect`: `Spec => []TypeOK`.
- `StaleHasACause`: `Spec => []StaleIsExplained`. `IInv` joins the types with `AllExplained` (the
  property, for every list and paragraph, with the invalidations that are still to come) and
  `LateIsBlamed`: a result that has been computed and not cached carries "late" for what has changed
  since. Each statement that changes rows either has its invalidation before it or adds its blame.
- `RowsMirrorTheParagraphs`: `Spec => []StoreMirrorsParagraphs`. `MirrorInv` says of a paragraph that is
  not crossed that those at work on it are compatible (`Apart`), what each of them may rely on
  (`Knows`), and which of them will yet put right what does not agree (`Match`).
- `SettledParagraphsAreNotShown`: `Spec => []SettledIsNotShown`, from `IInv`, `MirrorInv` and `Promises`:
  while a question waits for its search, a settled paragraph is at rest and cannot serve it.

The proofs about triggers are in two modules, both for any triggers, sources, schedules and requests.

- `SchedulerFollowsTheLastMessage` (TriggerProofs): `Spec => []JobsAreTheLastMessage`. The invariant says,
  for one trigger at a time: the last of its messages in the queue is `last` (`LastWaits`), and a
  worker that is alone on it has removed all that it does not still have to remove and added all
  that it does not still have to add (`Progress`). It says nothing of requests and rows, on which the
  jobs depend through the messages only.
- `TypeCorrect` (TriggerRowsProofs): `Spec => []TypeOK`.
- `LastMessageFollowsTheRows` (TriggerRowsProofs): `Spec => []LastMessageIsTheRows`. It adds what a request
  at each of its points knows of the rows of its trigger and has still to send; a request that holds
  the row lock knows it until its commit, all others make the trigger `astray` when they meet, and a
  request that has read the tasks knows them until it sends them, unless a task goes (`Unnoticed`).

These rest on what `Constants` says of triggers and sources: there are some of each, and the value
that stands for "the edit brings no tasks" is not a set of sources.

`ChatProofs` proves, for any number of records, turns and votes and any sizes of the cache, from
`Constants` (which asks that the turns at once be finitely many):

- `TypeCorrect`: `Spec => []TypeOK`. That the list of a turn stays within its bound, and that the reopened
  conversation is a sequence of records, needs `Births`: no two records are created at one time, so
  each has a `Place` of its own and each place a record (by the minimal element of a finite set).
- `TheLimitIsPassedByFew`: `Spec => []LimitHolds`. The inductive `LInv` counts: turns that have
  been answered and not counted (`Waiting`), turns that have passed the check (`Past`), and that one
  turn at a time is between reading and writing the counter (`Alone`), all unless `uncounted`.
- `RecordsSayWhatTheClientWasTold`: `Spec => []RecordsSayWhatWasTold`. `RInv` says that one turn
  at a time is on a record, at which of its points the row has the new text already, and that a voter's
  copy has the text of the row. A text that was raised before the stream may stand in place of the
  answer that was told, and no other text may.
- `AcknowledgedVotesStay`: `Spec => []VotesStay`. `VInv` follows the vote through every copy of a record that
  is not outvoted: in the row, in the cache, in the list of a turn, and in the turn that will save it.
- `TheMemoryIsTheTail`: `Spec => []MemoryIsTheTail`. `MInv` says it of the cached list *and* of the list
  in the hands of the one turn that remembers (`MTurn`), since each replaces the other. A list is `Good`
  if it is in the order of the rows, leaves out none that is newer than one it has, agrees with their
  texts, and is either complete or long enough; a record of it can be gone only if it is its first.
  Such a list stays good when the cleaner takes the oldest row (`GoodCleaned`), when the newest row is
  added to both (`GoodGrows`), when its first copies are cut off (`GoodTrimmed`), and when a copy is
  replaced whose row will say the same (`GoodPut`); `re_open_chat` makes one (`GoodReopened`). A turn
  that has not saved its new record has it behind a good list (`Unsaved`), so a failure may answer it
  again. The texts need `RInv`, and that no row is ahead of its request (`MRows`) needs `VInv`.

Only model-checked: liveness (`BusyEnds`, `Terminates`, `DirtIsSwept`, `Converges`, `RecordsEnd`), because
TLAPS has no fairness or ENABLED, and `LatestIsRemembered`, which has no proof yet. Every other
invariant and action property of the passing runs is stated by a theorem.

## 5. Not modelled

See "components" and the notes of "hazards" in `PROJECT.json`. Of the modelled components these parts
are left out: the chunks that nodes stream, resumed forms, and loops that wait on the pool their
children need (engine); the details column, and what a crash of the process leaves in the row, which
nothing repairs (knowledge actions); tasks of a whole knowledge base and of lists of paragraphs, and
problem generation (vectorisation); whole documents and knowledge bases in the store, which are the
same calls with another WHERE (retrieval); event triggers, tool tasks, and several schedulers firing
one job twice (triggers); debug conversations, the counters of a chat, share links, and the lease of
the lock of a vote (chat). Model downloads and the model cache are not modelled.

Parsing, permissions and CRUD in single transactions have no interleaving to check; model providers,
the vendored RAG engine under `src/engines/` (two thirds of the source, a product of its own
beside the code modelled here) and the user interface are outside.

## 6. Findings

- `finding_cancel`: `embedding_by_paragraph` deletes the vectors (listener_manage.py:141), `batch_save`
  returns without saving when the paragraph was cancelled, and line 152 then writes SUCCESS over
  REVOKE: a paragraph in SUCCESS that no search can find, where the model's comment
  (knowledge/models/knowledge.py:44-51) has SUCCESS for success and REVOKED for a cancelled one.
- `finding_rename`: editing a document while it is vectorised saves the whole row, status included
  (document.py:678); when the task ends in between, the old PENDING or STARTED comes back for ever.
  `src/docs/quality/reliability-acceptance.md:67` asks for "无永久 running" (nothing running for ever).
- `finding_refused`: `refresh` writes PENDING before `delay` refuses the task (document.py:749-765) and
  does not undo it; if the running task has written its last status already, PENDING stays.
- `finding_join`: two predecessors of an AND node that end together both find all ended
  (workflow_manage.py:661) and both start the node, where the UI text says "After the connected node
  is executed, execute the current node" (ui/src/locales/lang/en-US/workflow.ts:74). Behind two such
  joins in a row a node can even be lost, see `NoNodeLost` in section 4.

## 7. Plan

In this order; each module gets its MC module, runs, mutants and hazards.

1. Done: Lease, EmbeddingTask, WorkflowManage, KnowledgeAction, Retrieval, Trigger, Chat, their runs and
   the theorems above.
2. NodeChunk: the chunk list between a node and the reader (`pop` against `add_chunk` and `end`),
   so that no chunk is lost; composed with the end of a node in WorkflowManage.
3. WorkflowPool: loop nodes that wait on the pool for children that need the pool; the condition on
   the number of nested executions under which nobody waits for ever.
4. Extensions of EmbeddingTask: knowledge-wide tasks, batches; problem generation as the same life
   cycle. ModelDownload: pause, resume and the ending thread.
5. Proofs: `LatestIsRemembered`, by the argument of `TheMemoryIsTheTail` (one turn remembers at a time,
   and its list and the cache have the text of every row but the one it is on); then what 2 to 4 add.
   Every other safety property of what is modelled now is proved.
