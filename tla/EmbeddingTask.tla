--------------------------- MODULE EmbeddingTask ---------------------------
(***************************************************************************)
(* The vectorisation of documents: Celery workers that embed the           *)
(* paragraphs of a document (ListenerManagement.embedding_by_document),    *)
(* the web requests that start, cancel, edit and delete while they run,    *)
(* the celery_once key that keeps one task of a document in the queue, and *)
(* the Redis lock that keeps one worker on a document.                     *)
(*                                                                         *)
(* Statuses are those of TaskType.EMBEDDING.  Every database statement is  *)
(* one step: nothing but the lock orders the statements of two processes.  *)
(* A process is at a program point pc[q]; what it remembers between two    *)
(* statements is in loc[q].                                                *)
(***************************************************************************)
EXTENDS Naturals, FiniteSets, Sequences

CONSTANTS
    Docs,           \* document ids
    Paras,          \* paragraph ids, numbers because pages are ordered by id
    DocOf,          \* paragraph -> its document
    Extra,          \* paragraphs that do not exist at first
    Workers,        \* Celery worker processes
    Users,          \* web requests that can be in progress at once
    StateLists,     \* the state_list values the UI can send with a refresh
    PageSize,       \* paragraphs per page (5 in the code)
    Env,            \* which requests and faults happen in this instance
    MaxRequests,    \* bound: requests and faults per behaviour
    MaxVersion,     \* bound: versions of a paragraph's content
    None

State == {"PENDING", "STARTED", "SUCCESS", "FAILURE", "REVOKE", "REVOKED", "IGNORED"}

\* A status column, or the absence of the row.
Row == State \cup {"GONE"}

Procs == Workers \cup Users

ASSUME Constants ==
    /\ Paras \subseteq Nat /\ IsFiniteSet(Paras)
    /\ DocOf \in [Paras -> Docs]
    /\ Extra \subseteq Paras
    /\ Workers \cap Users = {}
    /\ StateLists \subseteq SUBSET State
    /\ PageSize \in Nat \ {0}
    /\ MaxRequests \in Nat
    /\ MaxVersion \in Nat \ {0}
    /\ None \notin Docs \cup Paras \cup Workers \cup Users

VARIABLES
    doc,        \* document -> its embedding status
    aggs,       \* document -> status_meta.aggs counts a paragraph in FAILURE
    para,       \* paragraph -> its embedding status
    content,    \* paragraph -> version of its text, 0 before it is created
    vec,        \* paragraph -> its rows in the vector store, <<writer, version>>
    queue,      \* the Celery queue
    once,       \* document -> the celery_once key is set
    lock,       \* document -> the worker whose token is in the Redis key
    overdue,    \* workers whose Redis key ran out while they were in the section
    raised,     \* documents whose task raised since their statuses were last reset
    pc,         \* process -> program point
    loc,        \* process -> local variables
    requests    \* requests and faults so far

db == <<doc, aggs, para, content, vec>>
keys == <<queue, once, lock, overdue, raised>>
vars == <<doc, aggs, para, content, vec, queue, once, lock, overdue, raised, pc, loc, requests>>

-----------------------------------------------------------------------------
(* Types.                                                                  *)

Tasks == [doc : Docs, states : SUBSET State]

ParagraphPcs == {"pstart", "read", "wipe", "embed", "recheck", "insert", "pdone", "pfail"}

\* Between a successful try_lock and un_lock.
SectionPcs ==
    {"check", "start", "count", "page", "next", "post_read", "post_doc", "post_paras",
     "agg", "unlock"} \cup ParagraphPcs

WorkerPcs == {"idle", "lock", "release"} \cup SectionPcs

UserPcs ==
    {"idle", "r_paras", "r_agg", "r_delay", "c_doc", "n_save", "e_save", "d_vec"}
        \cup ParagraphPcs

Locals ==
    [doc : Docs \cup {None}, states : SUBSET State, pages : Nat, todo : SUBSET Paras,
     cur : Paras \cup {None}, text : Nat, kept : Row, agg : BOOLEAN]

Blank ==
    [doc |-> None, states |-> {}, pages |-> 0, todo |-> {}, cur |-> None, text |-> 0,
     kept |-> "GONE", agg |-> FALSE]

DatabaseType ==
    /\ doc \in [Docs -> Row]
    /\ aggs \in [Docs -> BOOLEAN]
    /\ para \in [Paras -> Row]
    /\ content \in [Paras -> Nat]
    /\ vec \in [Paras -> SUBSET (Procs \X Nat)]

KeysType ==
    /\ queue \in Seq(Tasks)
    /\ once \in [Docs -> BOOLEAN]
    /\ lock \in [Docs -> Workers \cup {None}]
    /\ overdue \in SUBSET Workers
    /\ raised \in SUBSET Docs

\* A busy worker has a document; a process inside embedding_by_paragraph a paragraph.
AtType(q, l, r) ==
    /\ q \in Workers => l \in WorkerPcs
    /\ q \in Users => l \in UserPcs
    /\ l # "idle" /\ l \in WorkerPcs \ ParagraphPcs => r.doc \in Docs
    /\ l \in {"r_paras", "r_agg", "r_delay", "c_doc", "n_save"} => r.doc \in Docs
    /\ l \in ParagraphPcs => r.cur \in Paras /\ (q \in Workers => r.doc \in Docs)
    /\ l \in {"e_save", "d_vec"} => r.cur \in Paras

ProcsType ==
    /\ pc \in [Procs -> WorkerPcs \cup UserPcs]
    /\ loc \in [Procs -> Locals]
    /\ \A q \in Procs : AtType(q, pc[q], loc[q])

TypeOK == DatabaseType /\ KeysType /\ ProcsType /\ requests \in Nat

\* Documents have been saved by an upload; nobody has asked for their vectors yet.
Init ==
    /\ doc = [d \in Docs |-> "IGNORED"]
    /\ aggs = [d \in Docs |-> FALSE]
    /\ para = [p \in Paras |-> IF p \in Extra THEN "GONE" ELSE "IGNORED"]
    /\ content = [p \in Paras |-> IF p \in Extra THEN 0 ELSE 1]
    /\ vec = [p \in Paras |-> {}]
    /\ queue = <<>>
    /\ once = [d \in Docs |-> FALSE]
    /\ lock = [d \in Docs |-> None]
    /\ overdue = {}
    /\ raised = {}
    /\ pc = [q \in Procs |-> "idle"]
    /\ loc = [q \in Procs |-> Blank]
    /\ requests = 0

-----------------------------------------------------------------------------
(* Statements.  An UPDATE of a missing row changes nothing.                *)

SetDoc(d, s) == [doc EXCEPT ![d] = IF @ = "GONE" THEN @ ELSE s]

SetPara(p, s) == [para EXCEPT ![p] = IF @ = "GONE" THEN @ ELSE s]

SetParas(P, s) == [p \in Paras |-> IF p \in P THEN s ELSE para[p]]

\* The paragraphs of a document whose status is in a state list.
Matching(d, S) == {p \in Paras : DocOf[p] = d /\ para[p] \in S}

\* update_document_status_meta.sql
Aggregate(d) == [aggs EXCEPT ![d] = Matching(d, {"FAILURE"}) # {}]

\* is_the_task_interrupted of a document task, and of a paragraph.
DocInterrupted(d) == doc[d] \in {"GONE", "REVOKE"}
ParaInterrupted(p) == para[p] \in {"GONE", "REVOKE"}

\* The page at an offset of a query ordered by id.
Page(S, i) ==
    {p \in S : Cardinality({x \in S : x < p}) \in i * PageSize .. (i + 1) * PageSize - 1}

PageCount(n) == (n + PageSize - 1) \div PageSize

First(S) == CHOOSE p \in S : \A x \in S : p <= x

Goto(q, l) == pc' = [pc EXCEPT ![q] = l]

\* A process ends what it was doing and forgets its locals.
End(q) ==
    /\ pc' = [pc EXCEPT ![q] = "idle"]
    /\ loc' = [loc EXCEPT ![q] = Blank]

\* A request or a fault that the instance admits, within the bound.
Admit(kind) ==
    /\ kind \in Env
    /\ requests < MaxRequests
    /\ requests' = requests + 1

-----------------------------------------------------------------------------
(* The Celery task embedding_by_document of worker w.                      *)

\* The broker hands the oldest task to an idle worker, which loads the model.
Take(w) ==
    /\ pc[w] = "idle"
    /\ queue # <<>>
    /\ queue' = Tail(queue)
    /\ loc' = [loc EXCEPT ![w] =
                [Blank EXCEPT !.doc = Head(queue).doc, !.states = Head(queue).states]]
    /\ \/ /\ Goto(w, "lock")
          /\ UNCHANGED <<doc, requests>>
       \/ /\ Admit("model_error")
          /\ doc' = SetDoc(Head(queue).doc, "FAILURE")
          /\ Goto(w, "release")
    /\ UNCHANGED <<aggs, para, content, vec, once, lock, overdue, raised>>

\* Mutant: SET without NX.
TryLockWithoutNX(w) ==
    /\ pc[w] = "lock"
    /\ lock' = [lock EXCEPT ![loc[w].doc] = w]
    /\ Goto(w, "check")
    /\ UNCHANGED <<db, queue, once, overdue, raised, loc, requests>>

\* try_lock: SET key token NX EX; a worker that does not get it returns silently.
TryLock(w) ==
    LET d == loc[w].doc
    IN /\ pc[w] = "lock"
       /\ \/ /\ lock[d] = None
             /\ lock' = [lock EXCEPT ![d] = w]
             /\ Goto(w, "check")
          \/ /\ lock[d] # None
             /\ Goto(w, "release")
             /\ UNCHANGED lock
       /\ UNCHANGED <<db, queue, once, overdue, raised, loc, requests>>

Check(w) ==
    /\ pc[w] = "check"
    /\ Goto(w, IF DocInterrupted(loc[w].doc) THEN "post_read" ELSE "start")
    /\ UNCHANGED <<db, keys, loc, requests>>

Start(w) ==
    /\ pc[w] = "start"
    /\ doc' = SetDoc(loc[w].doc, "STARTED")
    /\ Goto(w, "count")
    /\ UNCHANGED <<aggs, para, content, vec, keys, loc, requests>>

\* page_desc counts once; the pages are queried again when they are reached.
Count(w) ==
    /\ pc[w] = "count"
    /\ loc' = [loc EXCEPT ![w].pages =
                PageCount(Cardinality(Matching(loc[w].doc, loc[w].states)))]
    /\ Goto(w, "page")
    /\ UNCHANGED <<db, keys, requests>>

\* Mutant: page instead of page_desc.
NextPageAscending(w) ==
    LET d == loc[w].doc
        all == PageCount(Cardinality({p \in Paras : DocOf[p] = d}))
    IN /\ pc[w] = "page"
       /\ \/ /\ loc[w].pages = 0 \/ DocInterrupted(d)
             /\ Goto(w, "post_read")
             /\ UNCHANGED loc
          \/ /\ loc[w].pages # 0 /\ ~ DocInterrupted(d)
             /\ Goto(w, "next")
             /\ loc' = [loc EXCEPT
                    ![w].pages = @ - 1,
                    ![w].todo = Page(Matching(d, loc[w].states), all - loc[w].pages)]
       /\ UNCHANGED <<db, keys, requests>>

\* Pages are visited from the last to the first.
NextPage(w) ==
    LET d == loc[w].doc
    IN /\ pc[w] = "page"
       /\ \/ /\ loc[w].pages = 0 \/ DocInterrupted(d)
             /\ Goto(w, "post_read")
             /\ UNCHANGED loc
          \/ /\ loc[w].pages # 0 /\ ~ DocInterrupted(d)
             /\ Goto(w, "next")
             /\ loc' = [loc EXCEPT
                    ![w].pages = @ - 1,
                    ![w].todo = Page(Matching(d, loc[w].states), loc[w].pages - 1)]
       /\ UNCHANGED <<db, keys, requests>>

\* embedding_paragraph_apply: one paragraph after the other, then the aggregation.
NextParagraph(w) ==
    LET d == loc[w].doc
        done == loc[w].todo = {} \/ DocInterrupted(d)
    IN /\ pc[w] = "next"
       /\ \/ /\ done
             /\ aggs' = Aggregate(d)
             /\ Goto(w, "page")
             /\ loc' = [loc EXCEPT ![w].todo = {}]
          \/ /\ ~ done
             /\ Goto(w, "pstart")
             /\ loc' = [loc EXCEPT
                    ![w].cur = First(loc[w].todo),
                    ![w].todo = @ \ {First(loc[w].todo)}]
             /\ UNCHANGED aggs
       /\ UNCHANGED <<doc, para, content, vec, keys, requests>>

\* An exception outside the try of embedding_by_paragraph, or the soft time limit: it is
\* logged, and the finally clause runs as if the pages had been visited.
TaskError(w) ==
    /\ pc[w] \in {"check", "start", "count", "page", "next", "pstart", "pfail"}
    /\ Admit("task_error")
    /\ raised' = raised \cup {loc[w].doc}
    /\ loc' = [loc EXCEPT ![w] =
                [Blank EXCEPT !.doc = loc[w].doc, !.states = loc[w].states]]
    /\ Goto(w, "post_read")
    /\ UNCHANGED <<db, queue, once, lock, overdue>>

\* An exception in try_lock or in the finally clause: nobody handles it, and un_lock is
\* not reached.
TaskRaises(w) ==
    /\ pc[w] \in {"lock", "post_read", "post_doc", "post_paras", "agg", "unlock"}
    /\ Admit("task_raises")
    /\ overdue' = overdue \ {w}
    /\ Goto(w, "release")
    /\ UNCHANGED <<db, queue, once, lock, raised, loc>>

\* post_update_document_status, in the finally clause: a deleted document makes it
\* raise, and neither the aggregation nor un_lock is reached.
PostRead(w) ==
    LET d == loc[w].doc
    IN /\ pc[w] = "post_read"
       /\ \/ /\ doc[d] = "GONE"
             /\ Goto(w, "release")
             /\ overdue' = overdue \ {w}
             /\ UNCHANGED loc
          \/ /\ doc[d] # "GONE"
             /\ Goto(w, "post_doc")
             /\ loc' = [loc EXCEPT ![w].kept =
                         IF aggs[d] THEN "FAILURE"
                         ELSE IF doc[d] = "REVOKE" THEN "REVOKED" ELSE "SUCCESS"]
             /\ UNCHANGED overdue
       /\ UNCHANGED <<db, queue, once, lock, raised, requests>>

\* Mutant: a cancelled document is not moved on to REVOKED.
PostDocUnlessRevoked(w) ==
    /\ pc[w] = "post_doc"
    /\ doc' = IF loc[w].kept = "REVOKED" THEN doc ELSE SetDoc(loc[w].doc, loc[w].kept)
    /\ Goto(w, "post_paras")
    /\ UNCHANGED <<aggs, para, content, vec, keys, loc, requests>>

PostDoc(w) ==
    /\ pc[w] = "post_doc"
    /\ doc' = SetDoc(loc[w].doc, loc[w].kept)
    /\ Goto(w, "post_paras")
    /\ UNCHANGED <<aggs, para, content, vec, keys, loc, requests>>

PostParas(w) ==
    /\ pc[w] = "post_paras"
    /\ para' = SetParas(Matching(loc[w].doc, {"REVOKE"}), "REVOKED")
    /\ Goto(w, "agg")
    /\ UNCHANGED <<doc, aggs, content, vec, keys, loc, requests>>

PostAggregate(w) ==
    /\ pc[w] = "agg"
    /\ aggs' = Aggregate(loc[w].doc)
    /\ Goto(w, "unlock")
    /\ UNCHANGED <<doc, para, content, vec, keys, loc, requests>>

\* Mutant: un_lock deletes the key without comparing the token.
UnLockAnyToken(w) ==
    /\ pc[w] = "unlock"
    /\ lock' = [lock EXCEPT ![loc[w].doc] = None]
    /\ overdue' = overdue \ {w}
    /\ Goto(w, "release")
    /\ UNCHANGED <<db, queue, once, raised, loc, requests>>

\* un_lock: the key is deleted only if it still holds this worker's token.
UnLock(w) ==
    LET d == loc[w].doc
    IN /\ pc[w] = "unlock"
       /\ lock' = [lock EXCEPT ![d] = IF @ = w THEN None ELSE @]
       /\ overdue' = overdue \ {w}
       /\ Goto(w, "release")
       /\ UNCHANGED <<db, queue, once, raised, loc, requests>>

\* celery_once clears the key of the task when the task has ended, whoever set it.
Release(w) ==
    /\ pc[w] = "release"
    /\ once' = [once EXCEPT ![loc[w].doc] = FALSE]
    /\ End(w)
    /\ UNCHANGED <<db, queue, lock, overdue, raised, requests>>

-----------------------------------------------------------------------------
(* embedding_by_paragraph, run by a worker or inside a web request q.      *)

\* Mutant: the worker forgets its document with its paragraph.
ReturnWithNothing(q) ==
    IF q \in Workers
    THEN Goto(q, "next") /\ loc' = [loc EXCEPT ![q] = Blank]
    ELSE End(q)

\* Where a process goes on after the paragraph.
ReturnFrom(q) ==
    IF q \in Workers
    THEN /\ Goto(q, "next")
         /\ loc' = [loc EXCEPT ![q].cur = None, ![q].text = 0]
    ELSE End(q)

ParagraphStart(q) ==
    /\ pc[q] = "pstart"
    /\ para' = SetPara(loc[q].cur, "STARTED")
    /\ Goto(q, "read")
    /\ UNCHANGED <<doc, aggs, content, vec, keys, loc, requests>>

\* list_embedding_text.sql: the text to embed, no row when the paragraph is gone.
ReadText(q) ==
    LET p == loc[q].cur
    IN /\ pc[q] = "read"
       /\ loc' = [loc EXCEPT ![q].text = IF para[p] = "GONE" THEN 0 ELSE content[p]]
       /\ Goto(q, "wipe")
       /\ UNCHANGED <<db, keys, requests>>

\* Mutant: the vectors of the whole document are deleted.
DeleteVectorsOfDocument(q) ==
    /\ pc[q] = "wipe"
    /\ vec' = [p \in Paras |-> IF DocOf[p] = DocOf[loc[q].cur] THEN {} ELSE vec[p]]
    /\ Goto(q, "embed")
    /\ UNCHANGED <<doc, aggs, para, content, keys, loc, requests>>

DeleteVectors(q) ==
    /\ pc[q] = "wipe"
    /\ vec' = [vec EXCEPT ![loc[q].cur] = {}]
    /\ Goto(q, "embed")
    /\ UNCHANGED <<doc, aggs, para, content, keys, loc, requests>>

\* batch_save looks for an interruption, _batch_save calls the embedding model.
Embed(q) ==
    /\ pc[q] = "embed"
    /\ Goto(q, IF loc[q].text = 0 \/ ParaInterrupted(loc[q].cur) THEN "pdone" ELSE "recheck")
    /\ UNCHANGED <<db, keys, loc, requests>>

\* _batch_save looks again after the model has answered.
Recheck(q) ==
    /\ pc[q] = "recheck"
    /\ Goto(q, IF ParaInterrupted(loc[q].cur) THEN "pdone" ELSE "insert")
    /\ UNCHANGED <<db, keys, loc, requests>>

Insert(q) ==
    /\ pc[q] = "insert"
    /\ vec' = [vec EXCEPT ![loc[q].cur] = @ \cup {<<q, loc[q].text>>}]
    /\ Goto(q, "pdone")
    /\ UNCHANGED <<doc, aggs, para, content, keys, loc, requests>>

\* SUCCESS is written whether the vectors were saved or the task was interrupted.
ParagraphDone(q) ==
    /\ pc[q] = "pdone"
    /\ para' = SetPara(loc[q].cur, "SUCCESS")
    /\ ReturnFrom(q)
    /\ UNCHANGED <<doc, aggs, content, vec, keys, requests>>

\* The try clause: a statement fails, the model does not answer, or time is up.
ParagraphError(q) ==
    /\ pc[q] \in {"read", "wipe", "embed", "recheck", "insert", "pdone"}
    /\ Admit("embed_error")
    /\ Goto(q, "pfail")
    /\ UNCHANGED <<db, keys, loc>>

ParagraphFailed(q) ==
    /\ pc[q] = "pfail"
    /\ para' = SetPara(loc[q].cur, "FAILURE")
    /\ ReturnFrom(q)
    /\ UNCHANGED <<doc, aggs, content, vec, keys, requests>>

ParagraphStep(q) ==
    \/ ParagraphStart(q) \/ ReadText(q) \/ DeleteVectors(q) \/ Embed(q)
    \/ Recheck(q) \/ Insert(q) \/ ParagraphDone(q) \/ ParagraphError(q) \/ ParagraphFailed(q)

-----------------------------------------------------------------------------
(* Web requests.  The first statement of a request starts it.              *)

Begin(u, kind) == pc[u] = "idle" /\ Admit(kind)

\* The tasks and requests that still have something to write to a document.
Attended(d) ==
    \/ \E i \in DOMAIN queue : queue[i].doc = d
    \/ \E q \in Procs : pc[q] # "idle" /\ loc[q].doc = d

\* The end of an upload, the re-index of a document at rest, or of one being worked on.
RefreshKind(d) ==
    IF doc[d] = "IGNORED" THEN "upload" ELSE IF Attended(d) THEN "refresh" ELSE "reindex"

\* refresh: the end of an upload and the UI's re-index dialog.  Four statements,
\* outside any transaction; the last one queues the task.
RefreshStart(u, d, S) ==
    /\ doc[d] # "GONE"
    /\ Begin(u, RefreshKind(d))
    /\ doc' = SetDoc(d, "PENDING")
    /\ loc' = [loc EXCEPT ![u].doc = d, ![u].states = S]
    /\ Goto(u, "r_paras")
    /\ UNCHANGED <<aggs, para, content, vec, keys>>

RefreshParagraphs(u) ==
    /\ pc[u] = "r_paras"
    /\ para' = SetParas(Matching(loc[u].doc, loc[u].states), "PENDING")
    /\ raised' = raised \ {loc[u].doc}
    /\ Goto(u, "r_agg")
    /\ UNCHANGED <<doc, aggs, content, vec, queue, once, lock, overdue, loc, requests>>

RefreshAggregate(u) ==
    /\ pc[u] = "r_agg"
    /\ aggs' = Aggregate(loc[u].doc)
    /\ Goto(u, "r_delay")
    /\ UNCHANGED <<doc, para, content, vec, keys, loc, requests>>

\* delay raises AlreadyQueued while the key of the document is set: the request
\* answers 500 and leaves the statuses it has written.
RefreshDelay(u) ==
    LET d == loc[u].doc
    IN /\ pc[u] = "r_delay"
       /\ \/ /\ once[d]
             /\ UNCHANGED <<once, queue>>
          \/ /\ ~ once[d]
             /\ once' = [once EXCEPT ![d] = TRUE]
             /\ queue' = Append(queue, [doc |-> d, states |-> loc[u].states])
       /\ End(u)
       /\ UNCHANGED <<db, lock, overdue, raised, requests>>

\* cancel: the paragraphs first, then the document, each only if PENDING or STARTED.
CancelParagraphs(u, d) ==
    /\ doc[d] # "GONE"
    /\ Begin(u, "cancel")
    /\ para' = SetParas(Matching(d, {"PENDING", "STARTED"}), "REVOKE")
    /\ loc' = [loc EXCEPT ![u].doc = d]
    /\ Goto(u, "c_doc")
    /\ UNCHANGED <<doc, aggs, content, vec, keys>>

\* Mutant: a document is cancelled whatever its status.
CancelDocumentAlways(u) ==
    /\ pc[u] = "c_doc"
    /\ doc' = SetDoc(loc[u].doc, "REVOKE")
    /\ End(u)
    /\ UNCHANGED <<aggs, para, content, vec, keys, requests>>

CancelDocument(u) ==
    LET d == loc[u].doc
    IN /\ pc[u] = "c_doc"
       /\ doc' = IF doc[d] \in {"PENDING", "STARTED"} THEN SetDoc(d, "REVOKE") ELSE doc
       /\ End(u)
       /\ UNCHANGED <<aggs, para, content, vec, keys, requests>>

\* Document edit: reads the row, and saves all of it, its status included.  save()
\* inserts the row again when it has been deleted in between.
EditDocumentRead(u, d) ==
    /\ doc[d] # "GONE"
    /\ Begin(u, "rename")
    /\ loc' = [loc EXCEPT ![u].doc = d, ![u].kept = doc[d], ![u].agg = aggs[d]]
    /\ Goto(u, "n_save")
    /\ UNCHANGED <<db, keys>>

EditDocumentSave(u) ==
    /\ pc[u] = "n_save"
    /\ doc' = [doc EXCEPT ![loc[u].doc] = loc[u].kept]
    /\ aggs' = [aggs EXCEPT ![loc[u].doc] = loc[u].agg]
    /\ End(u)
    /\ UNCHANGED <<para, content, vec, keys, requests>>

\* Paragraph edit: the same, then the paragraph is embedded inside the request.
EditParagraphRead(u, p) ==
    /\ para[p] # "GONE"
    /\ content[p] < MaxVersion
    /\ Begin(u, "edit")
    /\ loc' = [loc EXCEPT ![u].cur = p, ![u].kept = para[p]]
    /\ Goto(u, "e_save")
    /\ UNCHANGED <<db, keys>>

EditParagraphSave(u) ==
    LET p == loc[u].cur
    IN /\ pc[u] = "e_save"
       /\ para' = [para EXCEPT ![p] = loc[u].kept]
       /\ content' = [content EXCEPT ![p] = @ + 1]
       /\ Goto(u, "pstart")
       /\ UNCHANGED <<doc, aggs, vec, keys, loc, requests>>

\* Paragraph create: one transaction that embeds the paragraph before it commits and
\* declares the document a SUCCESS.
CreateParagraph(u, p) ==
    LET d == DocOf[p]
    IN /\ content[p] = 0
       /\ doc[d] # "GONE"
       /\ Begin(u, "create")
       /\ content' = [content EXCEPT ![p] = 1]
       /\ \/ /\ para' = [para EXCEPT ![p] = "SUCCESS"]
             /\ vec' = [vec EXCEPT ![p] = {<<u, 1>>}]
          \/ /\ "embed_error" \in Env
             /\ para' = [para EXCEPT ![p] = "FAILURE"]
             /\ UNCHANGED vec
       /\ doc' = SetDoc(d, "SUCCESS")
       /\ aggs' = [aggs EXCEPT ![d] = Matching(d, {"FAILURE"}) # {} \/ para'[p] = "FAILURE"]
       /\ UNCHANGED <<keys, pc, loc>>

\* Paragraph delete: the row, then its vectors, outside any transaction.
DeleteParagraphRow(u, p) ==
    /\ para[p] # "GONE"
    /\ Begin(u, "delete_paragraph")
    /\ para' = [para EXCEPT ![p] = "GONE"]
    /\ loc' = [loc EXCEPT ![u].cur = p]
    /\ Goto(u, "d_vec")
    /\ UNCHANGED <<doc, aggs, content, vec, keys>>

DeleteParagraphVectors(u) ==
    /\ pc[u] = "d_vec"
    /\ vec' = [vec EXCEPT ![loc[u].cur] = {}]
    /\ End(u)
    /\ UNCHANGED <<doc, aggs, para, content, keys, requests>>

\* Document delete: one transaction.
DeleteDocument(u, d) ==
    /\ doc[d] # "GONE"
    /\ Begin(u, "delete_document")
    /\ doc' = [doc EXCEPT ![d] = "GONE"]
    /\ para' = [p \in Paras |-> IF DocOf[p] = d THEN "GONE" ELSE para[p]]
    /\ vec' = [p \in Paras |-> IF DocOf[p] = d THEN {} ELSE vec[p]]
    /\ UNCHANGED <<aggs, content, keys, pc, loc>>

-----------------------------------------------------------------------------
(* Faults, and the clocks of Redis.                                        *)

\* A worker process is killed: Celery has acknowledged the task, Redis keeps both keys.
Crash(w) ==
    /\ pc[w] # "idle"
    /\ Admit("crash")
    /\ End(w)
    /\ overdue' = overdue \ {w}
    /\ UNCHANGED <<db, queue, once, lock, raised>>

\* The time to live of the lock of a document is over.
LockExpires(d) ==
    /\ lock[d] # None
    /\ Admit("lock_expiry")
    /\ lock' = [lock EXCEPT ![d] = None]
    /\ overdue' = overdue \cup
         {w \in Workers : lock[d] = w /\ pc[w] \in SectionPcs /\ loc[w].doc = d}
    /\ UNCHANGED <<db, queue, once, raised, pc, loc>>

\* The time to live of the celery_once key of a document is over.
OnceExpires(d) ==
    /\ once[d]
    /\ Admit("once_expiry")
    /\ once' = [once EXCEPT ![d] = FALSE]
    /\ UNCHANGED <<db, queue, lock, overdue, raised, pc, loc>>

\* common/event run(), when a web process starts: every document that looks busy fails.
EventInit ==
    /\ Admit("restart")
    /\ doc' = [d \in Docs |->
                IF doc[d] \in {"PENDING", "STARTED", "REVOKE"} THEN "FAILURE" ELSE doc[d]]
    /\ UNCHANGED <<aggs, para, content, vec, keys, pc, loc>>

-----------------------------------------------------------------------------

TaskStep(w) ==
    \/ Take(w) \/ TryLock(w) \/ Check(w) \/ Start(w) \/ Count(w) \/ NextPage(w)
    \/ NextParagraph(w) \/ PostRead(w) \/ PostDoc(w) \/ PostParas(w) \/ PostAggregate(w)
    \/ UnLock(w) \/ Release(w) \/ ParagraphStep(w) \/ TaskError(w) \/ TaskRaises(w)

RequestStart(u) ==
    \/ \E d \in Docs :
        \/ \E S \in StateLists : RefreshStart(u, d, S)
        \/ CancelParagraphs(u, d)
        \/ EditDocumentRead(u, d)
        \/ DeleteDocument(u, d)
    \/ \E p \in Paras :
        \/ EditParagraphRead(u, p)
        \/ CreateParagraph(u, p)
        \/ DeleteParagraphRow(u, p)

RequestStep(u) ==
    \/ RefreshParagraphs(u) \/ RefreshAggregate(u) \/ RefreshDelay(u) \/ CancelDocument(u)
    \/ EditDocumentSave(u) \/ EditParagraphSave(u) \/ DeleteParagraphVectors(u)
    \/ ParagraphStep(u)

Fault ==
    \/ \E w \in Workers : Crash(w)
    \/ \E d \in Docs : LockExpires(d) \/ OnceExpires(d)
    \/ EventInit

\* Nothing is running and nothing is queued: the system may rest.
Resting == queue = <<>> /\ \A q \in Procs : pc[q] = "idle"

Rest == Resting /\ UNCHANGED vars

Next ==
    \/ \E w \in Workers : TaskStep(w)
    \/ \E u \in Users : RequestStart(u) \/ RequestStep(u)
    \/ Fault
    \/ Rest

Spec == Init /\ [][Next]_vars

\* Workers keep working and a request that has begun runs to its end.  Nobody is
\* obliged to make a request.
Fairness ==
    /\ \A w \in Workers : WF_vars(TaskStep(w))
    /\ \A u \in Users : WF_vars(RequestStep(u))

FairSpec == Spec /\ Fairness

-----------------------------------------------------------------------------
(* Properties.                                                             *)

AttendedParagraph(p) ==
    Attended(DocOf[p]) \/ \E q \in Procs : pc[q] # "idle" /\ loc[q].cur = p

\* The document a worker is working on between try_lock and un_lock.
Inside == [w \in Workers |-> IF pc[w] \in SectionPcs THEN loc[w].doc ELSE None]

\* Between try_lock and un_lock a worker holds the key of its document until that key
\* runs out, whatever the others did to it in between: a worker whose key ran out finds
\* another token in it, and un_lock compares tokens before it deletes.
LockInv ==
    /\ \A w \in Workers :
        Inside[w] # None => (lock[Inside[w]] = w <=> w \notin overdue)
    /\ \A w \in overdue : Inside[w] # None

\* Of two workers inside embedding_by_document of one document, at least one has
\* outlived the 3600 seconds of its key.
OneWorkerPerDocument ==
    \A w1, w2 \in Workers :
        /\ w1 # w2
        /\ Inside[w1] # None
        /\ Inside[w1] = Inside[w2]
        => w1 \in overdue \/ w2 \in overdue

\* A document that nobody works on any more does not look busy.
SettledDocument ==
    \A d \in Docs : ~ Attended(d) => doc[d] \notin {"PENDING", "STARTED", "REVOKE"}

\* A paragraph that nobody works on any more is not running, and it is waiting or being
\* cancelled only under a document that failed or was cancelled, never under a SUCCESS;
\* unless the task of its document raised after the statuses were last reset.
SettledParagraph ==
    \A p \in Paras :
        ~ AttendedParagraph(p) /\ DocOf[p] \notin raised =>
            /\ para[p] # "STARTED"
            /\ para[p] \in {"PENDING", "REVOKE"} => doc[DocOf[p]] \in {"FAILURE", "REVOKED"}

\* The vector store never holds two copies of a paragraph.
OneCopy == \A p \in Paras : Cardinality(vec[p]) <= 1

\* A paragraph shown as SUCCESS can be found by its present text and no other one.
SuccessIsSearchable ==
    \A p \in Paras :
        ~ AttendedParagraph(p) /\ para[p] = "SUCCESS" =>
            vec[p] # {} /\ \A v \in vec[p] : v[2] = content[p]

\* The vectors of a deleted paragraph are gone once the work on it has ended.
NoOrphanVectors ==
    \A p \in Paras : ~ AttendedParagraph(p) /\ para[p] = "GONE" => vec[p] = {}

\* Every document that looks busy stops doing so.
BusyEnds ==
    \A d \in Docs :
        doc[d] \in {"PENDING", "STARTED", "REVOKE"}
            ~> doc[d] \notin {"PENDING", "STARTED", "REVOKE"}

-----------------------------------------------------------------------------
(* Refinement: the Redis lock of a document is a lease of the worker.      *)

L == INSTANCE Lease WITH
        Resources <- Docs, Clients <- Workers, None <- None,
        holder <- lock, inside <- Inside, late <- overdue

ImplementsLease == L!LeaseSpec
=============================================================================
