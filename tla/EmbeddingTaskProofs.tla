------------------------ MODULE EmbeddingTaskProofs ------------------------
(***************************************************************************)
(* Theorems about EmbeddingTask, for every set of documents, paragraphs,   *)
(* workers and requests.                                                   *)
(***************************************************************************)
EXTENDS EmbeddingTask, FiniteSetTheorems, WellFoundedInduction, TLAPS

USE Constants

-----------------------------------------------------------------------------
(* Types.                                                                  *)

LEMMA BlankType == Blank \in Locals
BY DEF Blank, Locals, Row

\* An UPDATE keeps the type of a status column.
LEMMA UpdateType ==
    ASSUME DatabaseType
    PROVE  /\ \A d \in Docs, s \in Row : SetDoc(d, s) \in [Docs -> Row]
           /\ \A p \in Paras, s \in Row : SetPara(p, s) \in [Paras -> Row]
           /\ \A P, s : s \in Row => SetParas(P, s) \in [Paras -> Row]
           /\ \A d : Aggregate(d) \in [Docs -> BOOLEAN]
           /\ \A d, S : Matching(d, S) \in SUBSET Paras
BY DEF DatabaseType, SetDoc, SetPara, SetParas, Aggregate, Matching

\* A process moves to a program point whose demands its locals meet.
LEMMA MoveType ==
    ASSUME ProcsType, NEW q \in Procs, NEW l \in WorkerPcs \cup UserPcs, NEW r \in Locals,
           AtType(q, l, r),
           pc' = [pc EXCEPT ![q] = l], loc' = [loc EXCEPT ![q] = r]
    PROVE  ProcsType'
<1>1. pc' \in [Procs -> WorkerPcs \cup UserPcs] /\ loc' \in [Procs -> Locals]
  BY DEF ProcsType
<1>2. ASSUME NEW x \in Procs PROVE AtType(x, pc'[x], loc'[x])
  BY DEF ProcsType
<1> QED
  BY <1>1, <1>2 DEF ProcsType, AtType

\* A process moves and keeps its locals.
LEMMA GotoType ==
    ASSUME ProcsType, NEW q \in Procs, NEW l \in WorkerPcs \cup UserPcs,
           AtType(q, l, loc[q]), Goto(q, l), UNCHANGED loc
    PROVE  ProcsType'
<1>1. loc[q] \in Locals /\ loc' = [loc EXCEPT ![q] = loc[q]]
  BY DEF ProcsType
<1> QED
  BY <1>1, MoveType DEF Goto

\* A process ends.
LEMMA EndType ==
    ASSUME ProcsType, NEW q \in Procs, End(q)
    PROVE  ProcsType'
<1>1. AtType(q, "idle", Blank)
  BY DEF AtType, WorkerPcs, UserPcs, ParagraphPcs
<1>2. "idle" \in WorkerPcs \cup UserPcs
  BY DEF WorkerPcs
<1> QED
  BY <1>1, <1>2, BlankType, MoveType DEF End

\* The task at the head of the queue.
LEMMA HeadTask ==
    ASSUME KeysType, queue # <<>>
    PROVE  Head(queue) \in Tasks /\ Tail(queue) \in Seq(Tasks)
BY DEF KeysType

\* A query returns finitely many paragraphs.
LEMMA MatchingFinite ==
    ASSUME NEW d, NEW S
    PROVE  IsFiniteSet(Matching(d, S))
BY FS_Subset DEF Matching

\* The number of pages of a query.
LEMMA PagesType ==
    ASSUME TypeOK, NEW d, NEW S
    PROVE  PageCount(Cardinality(Matching(d, S))) \in Nat
<1>1. Cardinality(Matching(d, S)) \in Nat
  BY MatchingFinite, FS_CardinalityType
<1>2. Cardinality(Matching(d, S)) + PageSize - 1 \in Nat
  BY <1>1
<1> QED
  BY <1>2 DEF PageCount

\* The paragraph with the smallest id.
LEMMA FirstType ==
    ASSUME NEW S \in SUBSET Paras, S # {}
    PROVE  First(S) \in S
<1>1. PICK p \in S : \A x \in S : <<x, p>> \notin OpToRel(<, Nat)
  BY NatLessThanWellFounded, WFMin
<1>2. ASSUME NEW x \in S PROVE p <= x
  <2>1. x \in Nat /\ p \in Nat /\ <<x, p>> \in Nat \X Nat
    OBVIOUS
  <2>2. ~ (x < p)
    BY <1>1, <2>1 DEF OpToRel
  <2> QED
    BY <2>1, <2>2
<1> QED
  BY <1>2 DEF First

LEMMA TypeInit == Init => TypeOK
<1> SUFFICES ASSUME Init PROVE TypeOK
  OBVIOUS
<1>1. DatabaseType
  BY DEF Init, DatabaseType, Row, State
<1>2. KeysType
  BY DEF Init, KeysType
<1>3. ProcsType
  BY BlankType DEF Init, ProcsType, AtType, WorkerPcs, UserPcs, ParagraphPcs
<1> QED
  BY <1>1, <1>2, <1>3 DEF Init, TypeOK

\* The database keeps its type: every value written is a status, a version or a row of
\* the vector store written by a process.
LEMMA DatabaseTask ==
    ASSUME TypeOK, NEW w \in Workers, TaskStep(w), ~ ParagraphStep(w)
    PROVE  DatabaseType'
<1> USE DEF TypeOK
<1>1. CASE Take(w)
  <2>1. Head(queue) \in Tasks
    BY <1>1, HeadTask DEF Take
  <2>2. Head(queue).doc \in Docs /\ "FAILURE" \in Row
    BY <2>1 DEF Tasks, Row, State
  <2>3. SetDoc(Head(queue).doc, "FAILURE") \in [Docs -> Row]
    BY <2>2, UpdateType
  <2> QED
    BY <1>1, <2>3 DEF Take, DatabaseType
<1>2. CASE Start(w)
  <2>1. loc[w].doc \in Docs
    BY <1>2 DEF Start, ProcsType, AtType, Procs, WorkerPcs, SectionPcs, ParagraphPcs
  <2>2. "STARTED" \in Row
    BY DEF Row, State
  <2> QED
    BY <1>2, <2>1, <2>2, UpdateType DEF Start, DatabaseType
<1>3. CASE NextParagraph(w)
  BY <1>3, UpdateType DEF NextParagraph, DatabaseType
<1>4. CASE PostDoc(w)
  <2>1. loc[w].doc \in Docs
    BY <1>4 DEF PostDoc, ProcsType, AtType, Procs, WorkerPcs, SectionPcs, ParagraphPcs
  <2>2. loc[w].kept \in Row
    BY DEF ProcsType, Procs, Locals
  <2> QED
    BY <1>4, <2>1, <2>2, UpdateType DEF PostDoc, DatabaseType
<1>5. CASE PostParas(w)
  <2>1. "REVOKED" \in Row
    BY DEF Row, State
  <2> QED
    BY <1>5, <2>1, UpdateType DEF PostParas, DatabaseType
<1>6. CASE PostAggregate(w)
  BY <1>6, UpdateType DEF PostAggregate, DatabaseType
<1>7. CASE UNCHANGED db
  BY <1>7 DEF db, DatabaseType
<1> QED
  BY <1>1, <1>2, <1>3, <1>4, <1>5, <1>6, <1>7
  DEF TaskStep, TryLock, Check, Count, NextPage, PostRead, TaskError, TaskRaises, UnLock,
    Release

LEMMA DatabaseParagraph ==
    ASSUME TypeOK, NEW q \in Procs, ParagraphStep(q)
    PROVE  DatabaseType'
<1> USE DEF TypeOK
<1>1. loc[q].cur \in Paras /\ loc[q].text \in Nat
  BY DEF ParagraphStep, ParagraphStart, ReadText, DeleteVectors, Embed, Recheck, Insert,
    ParagraphDone, ParagraphError, ParagraphFailed, ProcsType, AtType, ParagraphPcs, Locals
<1>2. {"STARTED", "SUCCESS", "FAILURE"} \subseteq Row
  BY DEF Row, State
<1>3. CASE ParagraphStart(q) \/ ParagraphDone(q) \/ ParagraphFailed(q)
  <2>1. PICK s \in {"STARTED", "SUCCESS", "FAILURE"} : para' = SetPara(loc[q].cur, s)
    BY <1>3 DEF ParagraphStart, ParagraphDone, ParagraphError, ParagraphFailed
  <2>2. para' \in [Paras -> Row]
    BY <1>1, <1>2, <2>1, UpdateType
  <2>3. UNCHANGED <<doc, aggs, content, vec>>
    BY <1>3 DEF ParagraphStart, ParagraphDone, ParagraphError, ParagraphFailed
  <2> QED
    BY <2>2, <2>3 DEF DatabaseType
<1>4. CASE DeleteVectors(q)
  BY <1>1, <1>4 DEF DeleteVectors, DatabaseType
<1>5. CASE Insert(q)
  <2>1. <<q, loc[q].text>> \in Procs \X Nat
    BY <1>1
  <2>2. vec[loc[q].cur] \cup {<<q, loc[q].text>>} \in SUBSET (Procs \X Nat)
    BY <1>1, <2>1 DEF DatabaseType
  <2> QED
    BY <1>1, <1>5, <2>2 DEF Insert, DatabaseType
<1>6. CASE UNCHANGED db
  BY <1>6 DEF db, DatabaseType
<1> QED
  BY <1>3, <1>4, <1>5, <1>6 DEF ParagraphStep, ReadText, Embed, Recheck, ParagraphError

LEMMA DatabaseRequest ==
    ASSUME TypeOK, NEW u \in Users, RequestStart(u) \/ RequestStep(u), ~ ParagraphStep(u)
    PROVE  DatabaseType'
<1> USE DEF TypeOK
<1>1. u \in Procs /\ State \subseteq Row /\ "GONE" \in Row
  BY DEF Procs, Row
<1>2. {"PENDING", "REVOKE", "SUCCESS", "FAILURE"} \subseteq Row
  BY DEF Row, State
<1>3. loc[u].kept \in Row /\ loc[u].agg \in BOOLEAN
  BY <1>1 DEF ProcsType, Locals
<1>4. ASSUME NEW d \in Docs, NEW S \in StateLists, RefreshStart(u, d, S)
      PROVE  DatabaseType'
  BY <1>2, <1>4, UpdateType DEF RefreshStart, DatabaseType
<1>5. ASSUME NEW d \in Docs, CancelParagraphs(u, d)
      PROVE  DatabaseType'
  BY <1>2, <1>5, UpdateType DEF CancelParagraphs, DatabaseType
<1>6. ASSUME NEW d \in Docs, DeleteDocument(u, d)
      PROVE  DatabaseType'
  BY <1>1, <1>6 DEF DeleteDocument, DatabaseType
<1>7. ASSUME NEW p \in Paras, CreateParagraph(u, p)
      PROVE  DatabaseType'
  <2>1. DocOf[p] \in Docs
    OBVIOUS
  <2>2. doc' \in [Docs -> Row]
    BY <1>2, <1>7, <2>1, UpdateType DEF CreateParagraph
  <2>3. aggs' \in [Docs -> BOOLEAN]
    BY <1>7 DEF CreateParagraph, DatabaseType
  <2>4. para' \in [Paras -> Row] /\ content' \in [Paras -> Nat]
    BY <1>2, <1>7 DEF CreateParagraph, DatabaseType
  <2>5. vec' \in [Paras -> SUBSET (Procs \X Nat)]
    BY <1>1, <1>7 DEF CreateParagraph, DatabaseType
  <2> QED
    BY <2>2, <2>3, <2>4, <2>5 DEF DatabaseType
<1>8. ASSUME NEW p \in Paras, DeleteParagraphRow(u, p)
      PROVE  DatabaseType'
  BY <1>1, <1>8 DEF DeleteParagraphRow, DatabaseType
<1>9. CASE RefreshParagraphs(u)
  BY <1>2, <1>9, UpdateType DEF RefreshParagraphs, DatabaseType
<1>10. CASE RefreshAggregate(u)
  BY <1>10, UpdateType DEF RefreshAggregate, DatabaseType
<1>11. CASE CancelDocument(u)
  <2>1. loc[u].doc \in Docs
    BY <1>1, <1>11 DEF CancelDocument, ProcsType, AtType
  <2> QED
    BY <1>2, <1>11, <2>1, UpdateType DEF CancelDocument, DatabaseType
<1>12. CASE EditDocumentSave(u)
  BY <1>3, <1>12 DEF EditDocumentSave, DatabaseType
<1>13. CASE EditParagraphSave(u)
  <2>1. loc[u].cur \in Paras
    BY <1>1, <1>13 DEF EditParagraphSave, ProcsType, AtType
  <2>2. para' \in [Paras -> Row]
    BY <1>3, <1>13 DEF EditParagraphSave, DatabaseType
  <2>3. content[loc[u].cur] \in Nat
    BY <2>1 DEF DatabaseType
  <2>4. content[loc[u].cur] + 1 \in Nat
    BY <2>3
  <2>5. content' = [content EXCEPT ![loc[u].cur] = content[loc[u].cur] + 1]
    BY <1>13 DEF EditParagraphSave
  <2>6. content' \in [Paras -> Nat]
    BY <2>4, <2>5 DEF DatabaseType
  <2> QED
    BY <1>13, <2>2, <2>6 DEF EditParagraphSave, DatabaseType
<1>14. CASE DeleteParagraphVectors(u)
  BY <1>14 DEF DeleteParagraphVectors, DatabaseType
<1>15. CASE UNCHANGED db
  BY <1>15 DEF db, DatabaseType
<1> QED
  BY <1>4, <1>5, <1>6, <1>7, <1>8, <1>9, <1>10, <1>11, <1>12, <1>13, <1>14, <1>15
  DEF RequestStart, RequestStep, RefreshDelay, EditDocumentRead, EditParagraphRead

LEMMA DatabaseFault ==
    ASSUME TypeOK, Fault
    PROVE  DatabaseType'
<1> USE DEF TypeOK
<1>1. CASE EventInit
  BY <1>1 DEF EventInit, DatabaseType, Row, State
<1>2. CASE UNCHANGED db
  BY <1>2 DEF db, DatabaseType
<1> QED
  BY <1>1, <1>2 DEF Fault, Crash, LockExpires, OnceExpires

\* Keys hold workers, and the queue tasks.
LEMMA KeysTask ==
    ASSUME TypeOK, NEW w \in Workers, TaskStep(w), ~ ParagraphStep(w)
    PROVE  KeysType'
<1> USE DEF TypeOK
<1>1. CASE Take(w)
  BY <1>1, HeadTask DEF Take, KeysType
<1>2. CASE TryLock(w)
  BY <1>2 DEF TryLock, KeysType
<1>3. CASE PostRead(w)
  BY <1>3 DEF PostRead, KeysType
<1>4. CASE UnLock(w)
  BY <1>4 DEF UnLock, KeysType
<1>5. CASE Release(w)
  BY <1>5 DEF Release, KeysType
<1>6. CASE UNCHANGED keys
  BY <1>6 DEF keys, KeysType
<1>7. CASE TaskError(w)
  <2>1. loc[w].doc \in Docs
    BY <1>7 DEF TaskError, ProcsType, AtType, Procs, WorkerPcs, SectionPcs, ParagraphPcs
  <2> QED
    BY <1>7, <2>1 DEF TaskError, KeysType
<1>8. CASE TaskRaises(w)
  BY <1>8 DEF TaskRaises, KeysType
<1> QED
  BY <1>1, <1>2, <1>3, <1>4, <1>5, <1>6, <1>7, <1>8
  DEF TaskStep, Check, Start, Count, NextPage, NextParagraph, PostDoc, PostParas,
    PostAggregate

LEMMA KeysRequest ==
    ASSUME TypeOK, NEW u \in Users, RequestStart(u) \/ RequestStep(u), ~ ParagraphStep(u)
    PROVE  KeysType'
<1> USE DEF TypeOK
<1>1. CASE RefreshDelay(u)
  <2>1. loc[u].doc \in Docs /\ loc[u].states \in SUBSET State
    BY <1>1 DEF RefreshDelay, ProcsType, AtType, Procs, Locals
  <2>2. [doc |-> loc[u].doc, states |-> loc[u].states] \in Tasks
    BY <2>1 DEF Tasks
  <2>3. CASE UNCHANGED <<once, queue>>
    BY <1>1, <2>3 DEF RefreshDelay, KeysType
  <2>4. CASE queue' = Append(queue, [doc |-> loc[u].doc, states |-> loc[u].states])
    <3>1. queue' \in Seq(Tasks)
      BY <2>2, <2>4 DEF KeysType
    <3> QED
      BY <1>1, <2>1, <3>1 DEF RefreshDelay, KeysType
  <2> QED
    BY <1>1, <2>3, <2>4 DEF RefreshDelay
<1>2. CASE UNCHANGED keys
  BY <1>2 DEF keys, KeysType
<1>3. CASE RefreshParagraphs(u)
  BY <1>3 DEF RefreshParagraphs, KeysType
<1> QED
  BY <1>1, <1>2, <1>3
  DEF RequestStart, RequestStep, RefreshStart, RefreshParagraphs, RefreshAggregate,
    CancelParagraphs, CancelDocument, EditDocumentRead, EditDocumentSave,
    EditParagraphRead, EditParagraphSave, CreateParagraph, DeleteParagraphRow,
    DeleteParagraphVectors, DeleteDocument

LEMMA KeysFault ==
    ASSUME TypeOK, Fault
    PROVE  KeysType'
<1> USE DEF TypeOK
<1>1. ASSUME NEW w \in Workers, Crash(w)
      PROVE  KeysType'
  BY <1>1 DEF Crash, KeysType
<1>2. ASSUME NEW d \in Docs, LockExpires(d)
      PROVE  KeysType'
  BY <1>2 DEF LockExpires, KeysType
<1>3. ASSUME NEW d \in Docs, OnceExpires(d)
      PROVE  KeysType'
  BY <1>3 DEF OnceExpires, KeysType
<1>4. CASE EventInit
  BY <1>4 DEF EventInit, keys, KeysType
<1> QED
  BY <1>1, <1>2, <1>3, <1>4 DEF Fault

\* A busy worker moves on with the document it has.
LEMMA TaskMove ==
    ASSUME ProcsType, NEW w \in Workers, pc[w] # "idle",
           NEW l \in WorkerPcs, NEW r \in Locals, r.doc = loc[w].doc,
           l \in ParagraphPcs => r.cur \in Paras,
           pc' = [pc EXCEPT ![w] = l], loc' = [loc EXCEPT ![w] = r]
    PROVE  ProcsType'
<1>1. w \in Procs /\ w \notin Users
  BY DEF Procs
<1>2. loc[w].doc \in Docs
  BY <1>1 DEF ProcsType, AtType
<1>3. AtType(w, l, r)
  BY <1>1, <1>2 DEF AtType, WorkerPcs, SectionPcs, ParagraphPcs
<1> QED
  BY <1>1, <1>3, MoveType

LEMMA TaskGoto ==
    ASSUME ProcsType, NEW w \in Workers, pc[w] # "idle",
           NEW l \in WorkerPcs, l \notin ParagraphPcs, Goto(w, l), UNCHANGED loc
    PROVE  ProcsType'
<1>1. loc[w] \in Locals /\ loc' = [loc EXCEPT ![w] = loc[w]]
  BY DEF ProcsType, Procs
<1> QED
  BY <1>1, TaskMove DEF Goto

\* What a task does outside embedding_by_paragraph.
LEMMA ProcsTask ==
    ASSUME TypeOK, NEW w \in Workers, TaskStep(w), ~ ParagraphStep(w)
    PROVE  ProcsType'
<1> USE DEF TypeOK
<1>1. w \in Procs /\ loc[w] \in Locals
  BY DEF Procs, ProcsType
<1>2. {"lock", "release", "check", "start", "count", "page", "next", "post_read",
       "post_doc", "post_paras", "agg", "unlock"} \subseteq WorkerPcs \ ParagraphPcs
  BY DEF WorkerPcs, SectionPcs, ParagraphPcs
<1>3. CASE Take(w)
  <2> DEFINE r == [Blank EXCEPT !.doc = Head(queue).doc, !.states = Head(queue).states]
  <2>1. Head(queue) \in Tasks
    BY <1>3, HeadTask DEF Take
  <2>2. r \in Locals /\ r.doc \in Docs
    BY <2>1 DEF Tasks, Blank, Locals, Row
  <2>3. PICK l \in {"lock", "release"} : pc' = [pc EXCEPT ![w] = l]
    BY <1>3 DEF Take, Goto
  <2>4. loc' = [loc EXCEPT ![w] = r]
    BY <1>3 DEF Take
  <2>5. AtType(w, l, r)
    BY <1>1, <1>2, <2>2, <2>3 DEF AtType, Procs
  <2> QED
    BY <1>1, <1>2, <2>2, <2>3, <2>4, <2>5, MoveType
<1>4. CASE TryLock(w)
  BY <1>2, <1>4, TaskGoto DEF TryLock
<1>5. CASE Check(w)
  BY <1>2, <1>5, TaskGoto DEF Check
<1>6. CASE Start(w)
  BY <1>2, <1>6, TaskGoto DEF Start
<1>7. CASE Count(w)
  <2> DEFINE n == PageCount(Cardinality(Matching(loc[w].doc, loc[w].states)))
             r == [loc[w] EXCEPT !.pages = n]
  <2>1. n \in Nat
    BY PagesType
  <2>2. pc[w] # "idle" /\ Goto(w, "page") /\ loc' = [loc EXCEPT ![w] = r]
    BY <1>7 DEF Count
  <2> HIDE DEF n
  <2>3. r \in Locals /\ r.doc = loc[w].doc
    BY <1>1, <2>1 DEF Locals
  <2> QED
    BY <1>2, <2>2, <2>3, TaskMove DEF Goto
<1>8. CASE NextPage(w)
  <2>1. CASE UNCHANGED loc
    BY <1>2, <1>8, <2>1, TaskGoto DEF NextPage, Goto
  <2>2. CASE loc[w].pages # 0 /\ ~ UNCHANGED loc
    <3> DEFINE t == Page(Matching(loc[w].doc, loc[w].states), loc[w].pages - 1)
               r == [loc[w] EXCEPT !.pages = loc[w].pages - 1, !.todo = t]
    <3>1. pc[w] # "idle" /\ Goto(w, "next") /\ loc' = [loc EXCEPT ![w] = r]
      BY <1>8, <2>2 DEF NextPage
    <3>2. t \in SUBSET Paras
      BY DEF Page, Matching
    <3> HIDE DEF t
    <3>3. loc[w].pages \in Nat
      BY <1>1 DEF Locals
    <3>4. loc[w].pages - 1 \in Nat
      BY <2>2, <3>3
    <3>5. r \in Locals /\ r.doc = loc[w].doc
      BY <1>1, <3>2, <3>4 DEF Locals
    <3> QED
      BY <1>2, <3>1, <3>5, TaskMove DEF Goto
  <2> QED
    BY <1>8, <2>1, <2>2 DEF NextPage
<1>9. CASE NextParagraph(w)
  <2>1. CASE Goto(w, "page") /\ loc' = [loc EXCEPT ![w].todo = {}]
    <3> DEFINE r == [loc[w] EXCEPT !.todo = {}]
    <3>1. r \in Locals /\ r.doc = loc[w].doc
      BY <1>1 DEF Locals
    <3> QED
      BY <1>2, <1>9, <2>1, <3>1, TaskMove DEF NextParagraph, Goto
  <2>2. CASE /\ loc[w].todo # {}
             /\ Goto(w, "pstart")
             /\ loc' = [loc EXCEPT ![w].cur = First(loc[w].todo),
                                   ![w].todo = @ \ {First(loc[w].todo)}]
    <3> DEFINE p == First(loc[w].todo)
               r == [loc[w] EXCEPT !.cur = p, !.todo = loc[w].todo \ {p}]
    <3>1. loc[w].todo \in SUBSET Paras
      BY <1>1 DEF Locals
    <3>2. p \in Paras
      BY <2>2, <3>1, FirstType
    <3>3. loc' = [loc EXCEPT ![w] = r]
      BY <2>2
    <3> HIDE DEF p
    <3>4. r \in Locals /\ r.doc = loc[w].doc /\ r.cur \in Paras
      BY <1>1, <3>1, <3>2 DEF Locals
    <3>5. "pstart" \in WorkerPcs
      BY DEF WorkerPcs, SectionPcs, ParagraphPcs
    <3> QED
      BY <1>9, <2>2, <3>3, <3>4, <3>5, TaskMove DEF NextParagraph, Goto
  <2> QED
    BY <1>9, <2>1, <2>2 DEF NextParagraph
<1>10. CASE PostRead(w)
  <2>1. CASE UNCHANGED loc
    BY <1>2, <1>10, <2>1, TaskGoto DEF PostRead
  <2>2. CASE doc[loc[w].doc] # "GONE"
    <3> DEFINE k == IF aggs[loc[w].doc] THEN "FAILURE"
                    ELSE IF doc[loc[w].doc] = "REVOKE" THEN "REVOKED" ELSE "SUCCESS"
               r == [loc[w] EXCEPT !.kept = k]
    <3>1. k \in Row
      BY DEF Row, State
    <3>2. pc[w] # "idle" /\ Goto(w, "post_doc") /\ loc' = [loc EXCEPT ![w] = r]
      BY <1>10, <2>2 DEF PostRead
    <3> HIDE DEF k
    <3>3. r \in Locals /\ r.doc = loc[w].doc
      BY <1>1, <3>1 DEF Locals
    <3> QED
      BY <1>2, <3>2, <3>3, TaskMove DEF Goto
  <2> QED
    BY <1>10, <2>1, <2>2 DEF PostRead
<1>11. CASE PostDoc(w)
  BY <1>2, <1>11, TaskGoto DEF PostDoc
<1>12. CASE PostParas(w)
  BY <1>2, <1>12, TaskGoto DEF PostParas
<1>13. CASE PostAggregate(w)
  BY <1>2, <1>13, TaskGoto DEF PostAggregate
<1>14. CASE UnLock(w)
  BY <1>2, <1>14, TaskGoto DEF UnLock
<1>15. CASE Release(w)
  BY <1>1, <1>15, EndType DEF Release
<1>16. CASE TaskError(w)
  <2>1. pc[w] # "idle" /\ loc[w].doc \in Docs
    BY <1>1, <1>16 DEF TaskError, ProcsType, AtType, WorkerPcs, SectionPcs, ParagraphPcs
  <2>2. PICK r \in Locals :
            r = [Blank EXCEPT !.doc = loc[w].doc, !.states = loc[w].states]
    BY <1>1, <2>1 DEF Blank, Locals, Row
  <2>3. r.doc = loc[w].doc /\ loc' = [loc EXCEPT ![w] = r] /\ Goto(w, "post_read")
    BY <1>16, <2>2 DEF TaskError, Blank
  <2> QED
    BY <1>2, <2>1, <2>3, TaskMove DEF Goto
<1>17. CASE TaskRaises(w)
  BY <1>2, <1>17, TaskGoto DEF TaskRaises
<1> QED
  BY <1>3, <1>4, <1>5, <1>6, <1>7, <1>8, <1>9, <1>10, <1>11, <1>12, <1>13, <1>14, <1>15,
     <1>16, <1>17
  DEF TaskStep

\* embedding_by_paragraph keeps its paragraph until it returns.
LEMMA ProcsParagraph ==
    ASSUME TypeOK, NEW q \in Procs, ParagraphStep(q)
    PROVE  ProcsType'
<1> USE DEF TypeOK
<1>1. /\ loc[q] \in Locals
      /\ loc[q].cur \in Paras
      /\ q \in Workers => loc[q].doc \in Docs
      /\ q \in Users => q \notin Workers
  BY DEF ParagraphStep, ParagraphStart, ReadText, DeleteVectors, Embed, Recheck, Insert,
    ParagraphDone, ParagraphError, ParagraphFailed, ProcsType, AtType, ParagraphPcs
<1>2. ASSUME NEW l \in ParagraphPcs, NEW r \in Locals,
             r.cur = loc[q].cur, r.doc = loc[q].doc
      PROVE  AtType(q, l, r) /\ l \in WorkerPcs
  BY <1>1, <1>2 DEF AtType, WorkerPcs, UserPcs, SectionPcs, ParagraphPcs
<1>3. CASE ReadText(q)
  <2> DEFINE t == IF para[loc[q].cur] = "GONE" THEN 0 ELSE content[loc[q].cur]
             r == [loc[q] EXCEPT !.text = t]
  <2>1. t \in Nat
    BY <1>1 DEF DatabaseType
  <2>2. loc' = [loc EXCEPT ![q] = r] /\ Goto(q, "wipe")
    BY <1>3 DEF ReadText
  <2> HIDE DEF t
  <2>3. r \in Locals /\ r.cur = loc[q].cur /\ r.doc = loc[q].doc
    BY <1>1, <2>1 DEF Locals
  <2>4. "wipe" \in ParagraphPcs
    BY DEF ParagraphPcs
  <2> QED
    BY <1>2, <2>2, <2>3, <2>4, MoveType DEF Goto
<1>4. CASE UNCHANGED loc /\ \E l \in ParagraphPcs : Goto(q, l)
  BY <1>1, <1>2, <1>4, GotoType
<1>5. CASE ReturnFrom(q)
  <2>1. CASE q \in Workers
    <3> DEFINE r == [loc[q] EXCEPT !.cur = None, !.text = 0]
    <3>1. loc' = [loc EXCEPT ![q] = r] /\ Goto(q, "next")
      BY <1>5, <2>1 DEF ReturnFrom
    <3>2. r \in Locals /\ r.doc \in Docs
      BY <1>1, <2>1 DEF Locals
    <3>3. AtType(q, "next", r) /\ "next" \in WorkerPcs
      BY <2>1, <3>2 DEF AtType, WorkerPcs, SectionPcs, ParagraphPcs, Procs
    <3> QED
      BY <3>1, <3>2, <3>3, MoveType DEF Goto
  <2>2. CASE q \notin Workers
    BY <1>5, <2>2, EndType DEF ReturnFrom
  <2> QED
    BY <2>1, <2>2
<1> QED
  BY <1>3, <1>4, <1>5
  DEF ParagraphStep, ParagraphStart, DeleteVectors, Embed, Recheck, Insert,
    ParagraphDone, ParagraphError, ParagraphFailed, ParagraphPcs

\* A request moves to a program point of its own.
LEMMA RequestMove ==
    ASSUME ProcsType, NEW u \in Users, NEW l \in UserPcs, NEW r \in Locals,
           l \in {"r_paras", "r_agg", "r_delay", "c_doc", "n_save"} => r.doc \in Docs,
           l \in ParagraphPcs \cup {"e_save", "d_vec"} => r.cur \in Paras,
           pc' = [pc EXCEPT ![u] = l], loc' = [loc EXCEPT ![u] = r]
    PROVE  ProcsType'
<1>1. u \in Procs /\ u \notin Workers
  BY DEF Procs
<1>2. l \notin WorkerPcs \ ParagraphPcs \/ l = "idle"
  BY DEF UserPcs, WorkerPcs, SectionPcs, ParagraphPcs
<1>3. AtType(u, l, r)
  BY <1>1, <1>2 DEF AtType
<1> QED
  BY <1>1, <1>3, MoveType

\* What a request does outside embedding_by_paragraph.
LEMMA ProcsRequest ==
    ASSUME TypeOK, NEW u \in Users, RequestStart(u) \/ RequestStep(u), ~ ParagraphStep(u)
    PROVE  ProcsType'
<1> USE DEF TypeOK
<1>1. u \in Procs /\ loc[u] \in Locals
  BY DEF Procs, ProcsType
<1>2. /\ {"r_paras", "r_agg", "r_delay", "c_doc", "n_save", "e_save", "d_vec", "pstart"}
            \subseteq UserPcs
      /\ "pstart" \in ParagraphPcs
  BY DEF UserPcs, ParagraphPcs
<1>3. ASSUME NEW d \in Docs, NEW S \in StateLists, RefreshStart(u, d, S)
      PROVE  ProcsType'
  <2> DEFINE r == [loc[u] EXCEPT !.doc = d, !.states = S]
  <2>1. r \in Locals /\ r.doc \in Docs
    BY <1>1 DEF Locals
  <2>2. loc' = [loc EXCEPT ![u] = r]
    BY <1>3 DEF RefreshStart
  <2> HIDE DEF r
  <2> QED
    BY <1>2, <1>3, <2>1, <2>2, RequestMove DEF RefreshStart, Goto, ParagraphPcs
<1>4. ASSUME NEW d \in Docs, CancelParagraphs(u, d)
      PROVE  ProcsType'
  <2> DEFINE r == [loc[u] EXCEPT !.doc = d]
  <2>1. r \in Locals /\ r.doc \in Docs
    BY <1>1 DEF Locals
  <2> QED
    BY <1>2, <1>4, <2>1, RequestMove DEF CancelParagraphs, Goto, ParagraphPcs
<1>5. ASSUME NEW d \in Docs, EditDocumentRead(u, d)
      PROVE  ProcsType'
  <2> DEFINE r == [loc[u] EXCEPT !.doc = d, !.kept = doc[d], !.agg = aggs[d]]
  <2>1. r \in Locals /\ r.doc \in Docs
    BY <1>1 DEF Locals, DatabaseType
  <2>2. loc' = [loc EXCEPT ![u] = r]
    BY <1>5 DEF EditDocumentRead
  <2> HIDE DEF r
  <2> QED
    BY <1>2, <1>5, <2>1, <2>2, RequestMove DEF EditDocumentRead, Goto, ParagraphPcs
<1>6. ASSUME NEW p \in Paras, EditParagraphRead(u, p)
      PROVE  ProcsType'
  <2> DEFINE r == [loc[u] EXCEPT !.cur = p, !.kept = para[p]]
  <2>1. r \in Locals /\ r.cur \in Paras
    BY <1>1 DEF Locals, DatabaseType
  <2>2. loc' = [loc EXCEPT ![u] = r]
    BY <1>6 DEF EditParagraphRead
  <2> HIDE DEF r
  <2> QED
    BY <1>2, <1>6, <2>1, <2>2, RequestMove DEF EditParagraphRead, Goto
<1>7. ASSUME NEW p \in Paras, DeleteParagraphRow(u, p)
      PROVE  ProcsType'
  <2> DEFINE r == [loc[u] EXCEPT !.cur = p]
  <2>1. r \in Locals /\ r.cur \in Paras
    BY <1>1 DEF Locals
  <2> QED
    BY <1>2, <1>7, <2>1, RequestMove DEF DeleteParagraphRow, Goto
<1>8. CASE RefreshParagraphs(u) \/ RefreshAggregate(u)
  <2>1. loc[u].doc \in Docs /\ loc' = [loc EXCEPT ![u] = loc[u]]
    BY <1>1, <1>8 DEF RefreshParagraphs, RefreshAggregate, ProcsType, AtType
  <2>2. PICK l \in {"r_agg", "r_delay"} : Goto(u, l)
    BY <1>8 DEF RefreshParagraphs, RefreshAggregate
  <2> QED
    BY <1>1, <1>2, <2>1, <2>2, RequestMove DEF Goto, ParagraphPcs
<1>9. CASE EditParagraphSave(u)
  <2>1. loc[u].cur \in Paras /\ loc' = [loc EXCEPT ![u] = loc[u]]
    BY <1>1, <1>9 DEF EditParagraphSave, ProcsType, AtType
  <2> QED
    BY <1>1, <1>2, <1>9, <2>1, RequestMove DEF EditParagraphSave, Goto
<1>10. CASE End(u)
  BY <1>1, <1>10, EndType
<1>11. CASE UNCHANGED <<pc, loc>>
  BY <1>11 DEF ProcsType, AtType
<1> QED
  BY <1>3, <1>4, <1>5, <1>6, <1>7, <1>8, <1>9, <1>10, <1>11
  DEF RequestStart, RequestStep, RefreshDelay, CancelDocument, EditDocumentSave,
    CreateParagraph, DeleteParagraphVectors, DeleteDocument

LEMMA ProcsFault ==
    ASSUME TypeOK, Fault
    PROVE  ProcsType'
<1> USE DEF TypeOK
<1>1. ASSUME NEW w \in Workers, Crash(w)
      PROVE  ProcsType'
  BY <1>1, EndType DEF Crash, Procs
<1>2. CASE UNCHANGED <<pc, loc>>
  BY <1>2 DEF ProcsType, AtType
<1> QED
  BY <1>1, <1>2 DEF Fault, LockExpires, OnceExpires, EventInit

\* requests only counts.
LEMMA RequestsType ==
    ASSUME TypeOK, Next
    PROVE  requests' \in Nat
<1> DEFINE Counts == requests' = requests \/ requests' = requests + 1
<1>1. ASSUME NEW q \in Procs, ParagraphStep(q) PROVE Counts
  BY <1>1 DEF ParagraphStep, ParagraphStart, ReadText, DeleteVectors, Embed, Recheck,
    Insert, ParagraphDone, ParagraphError, ParagraphFailed, Admit
<1>2. ASSUME NEW w \in Workers, TaskStep(w) PROVE Counts
  BY <1>1, <1>2 DEF TaskStep, Procs, Take, TryLock, Check, Start, Count, NextPage,
    NextParagraph, PostRead, PostDoc, PostParas, PostAggregate, TaskError, TaskRaises, UnLock,
    Release, Admit
<1>3. ASSUME NEW u \in Users, RequestStart(u) PROVE Counts
  BY <1>3 DEF RequestStart, RefreshStart, CancelParagraphs, EditDocumentRead,
    EditParagraphRead, CreateParagraph, DeleteParagraphRow, DeleteDocument, Begin, Admit
<1>4. ASSUME NEW u \in Users, RequestStep(u) PROVE Counts
  BY <1>1, <1>4 DEF RequestStep, Procs, RefreshParagraphs, RefreshAggregate, RefreshDelay,
    CancelDocument, EditDocumentSave, EditParagraphSave, DeleteParagraphVectors
<1>5. ASSUME Fault \/ Rest PROVE Counts
  BY <1>5 DEF Fault, Crash, LockExpires, OnceExpires, EventInit, Admit, Rest, vars
<1>6. Counts
  BY <1>2, <1>3, <1>4, <1>5 DEF Next
<1> QED
  BY <1>6 DEF TypeOK

LEMMA KeysParagraph ==
    ASSUME TypeOK, NEW q \in Procs, ParagraphStep(q)
    PROVE  KeysType'
<1>1. UNCHANGED keys
  BY DEF ParagraphStep, ParagraphStart, ReadText, DeleteVectors, Embed, Recheck, Insert,
    ParagraphDone, ParagraphError, ParagraphFailed
<1> QED
  BY <1>1 DEF keys, TypeOK, KeysType

LEMMA TypeNext ==
    ASSUME TypeOK, [Next]_vars
    PROVE  TypeOK'
<1> USE DEF TypeOK
<1>1. CASE UNCHANGED vars
  BY <1>1 DEF vars, DatabaseType, KeysType, ProcsType, AtType
<1>2. ASSUME NEW w \in Workers, TaskStep(w)
      PROVE  DatabaseType' /\ KeysType' /\ ProcsType'
  BY <1>2, DatabaseTask, KeysTask, ProcsTask, DatabaseParagraph, KeysParagraph,
    ProcsParagraph DEF Procs
<1>3. ASSUME NEW u \in Users, RequestStart(u) \/ RequestStep(u)
      PROVE  DatabaseType' /\ KeysType' /\ ProcsType'
  BY <1>3, DatabaseRequest, KeysRequest, ProcsRequest, DatabaseParagraph, KeysParagraph,
    ProcsParagraph DEF Procs
<1>4. ASSUME Fault
      PROVE  DatabaseType' /\ KeysType' /\ ProcsType'
  BY <1>4, DatabaseFault, KeysFault, ProcsFault
<1>5. CASE Next
  <2>1. requests' \in Nat
    BY <1>5, RequestsType
  <2> QED
    BY <1>1, <1>2, <1>3, <1>4, <1>5, <2>1 DEF Next, Rest
<1> QED
  BY <1>1, <1>5

\* Every variable keeps its type, whatever the requests, faults and interleavings: in
\* particular a worker that is busy has a document, and a process inside
\* embedding_by_paragraph has a paragraph.
THEOREM TypeCorrect == Spec => []TypeOK
BY TypeInit, TypeNext, PTL DEF Spec

-----------------------------------------------------------------------------
(* The lock.  Seen through lock, Inside and overdue, every step of the     *)
(* system is a step of Lease or a stutter; Lease steps preserve LockInv.   *)

LEMMA InsideType ==
    ASSUME TypeOK
    PROVE  /\ Inside \in [Workers -> Docs \cup {None}]
           /\ \A w \in Workers : pc[w] \in SectionPcs =>
                loc[w].doc \in Docs /\ Inside[w] = loc[w].doc /\ Inside[w] # None
           /\ \A w \in Workers : pc[w] \notin SectionPcs => Inside[w] = None
<1>1. ASSUME NEW w \in Workers, pc[w] \in SectionPcs PROVE loc[w].doc \in Docs
  BY <1>1 DEF TypeOK, ProcsType, AtType, Procs, WorkerPcs, SectionPcs, ParagraphPcs
<1> QED
  BY <1>1 DEF Inside

\* A worker that stays in the section with its document, or out of it, moves nobody.
LEMMA InsideStays ==
    ASSUME TypeOK, NEW q \in Procs,
           \A x \in Procs \ {q} : pc'[x] = pc[x] /\ loc'[x] = loc[x],
           q \in Workers =>
                \/ pc[q] \in SectionPcs /\ pc'[q] \in SectionPcs /\ loc'[q].doc = loc[q].doc
                \/ pc[q] \notin SectionPcs /\ pc'[q] \notin SectionPcs
    PROVE  UNCHANGED Inside
<1>1. ASSUME NEW w \in Workers
      PROVE  (IF pc[w] \in SectionPcs THEN loc[w].doc ELSE None)'
               = IF pc[w] \in SectionPcs THEN loc[w].doc ELSE None
  BY DEF Procs
<1> QED
  BY <1>1 DEF Inside

\* Lease steps preserve what LockInv says of the lease.
LEMMA LeaseLockInv ==
    ASSUME TypeOK, TypeOK', LockInv, [L!LeaseNext]_(L!leaseVars)
    PROVE  LockInv'
<1> USE DEF LockInv
<1>1. /\ Inside \in [Workers -> Docs \cup {None}]
      /\ lock \in [Docs -> Workers \cup {None}] /\ overdue \in SUBSET Workers
      /\ None \notin Workers /\ None \notin Docs
  BY InsideType DEF TypeOK, KeysType
<1>2. ASSUME NEW w \in Workers, NEW d \in Docs, L!Acquire(w, d)
      PROVE  LockInv'
  BY <1>1, <1>2 DEF L!Acquire
<1>3. ASSUME NEW w \in Workers, NEW d \in Docs, L!Release(w, d)
      PROVE  LockInv'
  BY <1>1, <1>3 DEF L!Release
<1>4. ASSUME NEW w \in Workers, L!Abandon(w)
      PROVE  LockInv'
  BY <1>1, <1>4 DEF L!Abandon
<1>5. ASSUME NEW d \in Docs, L!RunOut(d)
      PROVE  LockInv'
  BY <1>1, <1>5 DEF L!RunOut
<1>6. CASE UNCHANGED L!leaseVars
  BY <1>6 DEF L!leaseVars
<1> QED
  BY <1>2, <1>3, <1>4, <1>5, <1>6 DEF L!LeaseNext

\* A step of one process that leaves the keys alone and the process where it is.
LEMMA QuietStep ==
    ASSUME TypeOK, NEW q \in Procs, NEW l, NEW r,
           pc' = [pc EXCEPT ![q] = l], loc' = [loc EXCEPT ![q] = r],
           q \in Workers =>
                \/ pc[q] \in SectionPcs /\ l \in SectionPcs /\ r.doc = loc[q].doc
                \/ pc[q] \notin SectionPcs /\ l \notin SectionPcs,
           UNCHANGED <<lock, overdue>>
    PROVE  UNCHANGED L!leaseVars
<1>1. /\ pc'[q] = l /\ loc'[q] = r
      /\ \A x \in Procs \ {q} : pc'[x] = pc[x] /\ loc'[x] = loc[x]
  BY DEF TypeOK, ProcsType
<1>2. UNCHANGED Inside
  BY <1>1, InsideStays
<1> QED
  BY <1>2 DEF L!leaseVars

\* The same when the process keeps its locals.
LEMMA QuietGoto ==
    ASSUME TypeOK, NEW q \in Procs, NEW l, Goto(q, l), UNCHANGED <<loc, lock, overdue>>,
           q \in Workers => (pc[q] \in SectionPcs <=> l \in SectionPcs)
    PROVE  UNCHANGED L!leaseVars
<1>1. loc' = [loc EXCEPT ![q] = loc[q]]
  BY DEF TypeOK, ProcsType
<1> QED
  BY <1>1, QuietStep DEF Goto

\* The locals of a process keep their document under an update of the other fields.
LEMMA LocalsDoc ==
    ASSUME NEW r \in Locals, NEW x, NEW y
    PROVE  /\ [r EXCEPT !.pages = x].doc = r.doc
           /\ [r EXCEPT !.pages = x, !.todo = y].doc = r.doc
           /\ [r EXCEPT !.todo = x].doc = r.doc
           /\ [r EXCEPT !.cur = x, !.todo = y].doc = r.doc
           /\ [r EXCEPT !.cur = x, !.text = y].doc = r.doc
           /\ [r EXCEPT !.kept = x].doc = r.doc
           /\ [r EXCEPT !.text = x].doc = r.doc
BY DEF Locals

\* embedding_by_paragraph does not touch the lock.
LEMMA LeaseParagraph ==
    ASSUME TypeOK, NEW q \in Procs, ParagraphStep(q)
    PROVE  UNCHANGED L!leaseVars
<1>1. loc[q] \in Locals /\ UNCHANGED <<lock, overdue>> /\ pc[q] \in ParagraphPcs
  BY DEF TypeOK, ProcsType, ParagraphStep, ParagraphStart, ReadText, DeleteVectors, Embed,
    Recheck, Insert, ParagraphDone, ParagraphError, ParagraphFailed, keys, ParagraphPcs
<1>2. ParagraphPcs \subseteq SectionPcs /\ "next" \in SectionPcs
  BY DEF SectionPcs
<1>3. CASE ReadText(q)
  <2> DEFINE r == [loc[q] EXCEPT
                    !.text = IF para[loc[q].cur] = "GONE" THEN 0 ELSE content[loc[q].cur]]
  <2>1. pc' = [pc EXCEPT ![q] = "wipe"] /\ loc' = [loc EXCEPT ![q] = r]
    BY <1>3 DEF ReadText, Goto
  <2>2. r.doc = loc[q].doc
    BY <1>1, LocalsDoc
  <2> QED
    BY <1>1, <1>2, <2>1, <2>2, QuietStep DEF ParagraphPcs
<1>4. CASE UNCHANGED loc /\ \E l \in ParagraphPcs : Goto(q, l)
  BY <1>1, <1>2, <1>4, QuietGoto
<1>5. CASE ReturnFrom(q)
  <2>1. CASE q \in Workers
    <3> DEFINE r == [loc[q] EXCEPT !.cur = None, !.text = 0]
    <3>1. pc' = [pc EXCEPT ![q] = "next"] /\ loc' = [loc EXCEPT ![q] = r]
      BY <1>5, <2>1 DEF ReturnFrom, Goto
    <3>2. r.doc = loc[q].doc
      BY <1>1, LocalsDoc
    <3> QED
      BY <1>1, <1>2, <3>1, <3>2, QuietStep
  <2>2. CASE q \notin Workers
    BY <1>1, <1>5, <2>2, QuietStep DEF ReturnFrom, End
  <2> QED
    BY <2>1, <2>2
<1> QED
  BY <1>3, <1>4, <1>5
  DEF ParagraphStep, ParagraphStart, DeleteVectors, Embed, Recheck, Insert,
    ParagraphDone, ParagraphError, ParagraphFailed, ParagraphPcs

\* A request is not a worker.
LEMMA LeaseRequest ==
    ASSUME TypeOK, NEW u \in Users, RequestStart(u) \/ RequestStep(u)
    PROVE  UNCHANGED L!leaseVars
<1>1. u \in Procs /\ u \notin Workers
  BY DEF Procs
<1>2. CASE ParagraphStep(u)
  BY <1>1, <1>2, LeaseParagraph
<1>3. CASE ~ ParagraphStep(u)
  <2>1. /\ UNCHANGED <<lock, overdue>>
        /\ \A x \in Procs \ {u} : pc'[x] = pc[x] /\ loc'[x] = loc[x]
    BY <1>3 DEF TypeOK, ProcsType, keys, RequestStart, RequestStep, RefreshStart,
      RefreshParagraphs, RefreshAggregate, RefreshDelay, CancelParagraphs, CancelDocument,
      EditDocumentRead, EditDocumentSave, EditParagraphRead, EditParagraphSave,
      CreateParagraph, DeleteParagraphRow, DeleteParagraphVectors, DeleteDocument, Goto, End
  <2>2. UNCHANGED Inside
    BY <1>1, <2>1, InsideStays
  <2> QED
    BY <2>1, <2>2 DEF L!leaseVars
<1> QED
  BY <1>2, <1>3

\* What Inside becomes when one worker enters or leaves the section.
LEMMA InsideMoves ==
    ASSUME TypeOK, NEW w \in Workers, NEW l, NEW r,
           pc' = [pc EXCEPT ![w] = l], loc' = [loc EXCEPT ![w] = r]
    PROVE  Inside' = [Inside EXCEPT ![w] = IF l \in SectionPcs THEN r.doc ELSE None]
<1>1. w \in Procs /\ pc'[w] = l /\ loc'[w] = r
  BY DEF TypeOK, ProcsType, Procs
<1>2. ASSUME NEW x \in Workers \ {w} PROVE pc'[x] = pc[x] /\ loc'[x] = loc[x]
  BY DEF TypeOK, ProcsType, Procs
<1>3. ASSUME NEW x \in Workers
      PROVE  (IF pc[x] \in SectionPcs THEN loc[x].doc ELSE None)'
               = IF x = w THEN IF l \in SectionPcs THEN r.doc ELSE None ELSE Inside[x]
  BY <1>1, <1>2 DEF Inside
<1> QED
  BY <1>3 DEF Inside

\* A task acquires at try_lock, releases at un_lock, and abandons the lock when
\* the finally clause raises.
LEMMA LeaseTask ==
    ASSUME TypeOK, LockInv, NEW w \in Workers, TaskStep(w)
    PROVE  [L!LeaseNext]_(L!leaseVars)
<1>1. w \in Procs /\ loc[w] \in Locals
  BY DEF TypeOK, ProcsType, Procs
<1>2. /\ {"check", "start", "count", "page", "next", "post_read", "post_doc", "post_paras",
          "agg", "unlock", "pstart"} \subseteq SectionPcs
      /\ {"idle", "lock", "release"} \cap SectionPcs = {}
  BY DEF SectionPcs, ParagraphPcs
<1>3. CASE Take(w)
  BY <1>1, <1>2, <1>3, QuietStep DEF Take, Goto
<1>4. CASE TryLock(w)
  <2>1. CASE Goto(w, "release") /\ UNCHANGED lock
    BY <1>1, <1>2, <1>4, <2>1, QuietGoto DEF TryLock
  <2>2. CASE /\ lock[loc[w].doc] = None
             /\ lock' = [lock EXCEPT ![loc[w].doc] = w]
             /\ Goto(w, "check")
    <3>1. loc[w].doc \in Docs
      BY <1>1, <1>4 DEF TryLock, TypeOK, ProcsType, AtType, WorkerPcs, ParagraphPcs
    <3>2. Inside[w] = None
      BY <1>2, <1>4, InsideType DEF TryLock
    <3>3. loc' = [loc EXCEPT ![w] = loc[w]]
      BY <1>4 DEF TryLock, TypeOK, ProcsType
    <3>4. Inside' = [Inside EXCEPT ![w] = loc[w].doc]
      BY <1>2, <2>2, <3>3, InsideMoves DEF Goto
    <3>5. L!Acquire(w, loc[w].doc)
      BY <1>4, <2>2, <3>2, <3>4 DEF TryLock, L!Acquire
    <3> QED
      BY <3>1, <3>5 DEF L!LeaseNext
  <2> QED
    BY <1>4, <2>1, <2>2 DEF TryLock
<1>5. CASE Check(w) \/ Start(w) \/ PostDoc(w) \/ PostParas(w) \/ PostAggregate(w)
  BY <1>1, <1>2, <1>5, QuietGoto
  DEF Check, Start, PostDoc, PostParas, PostAggregate, keys
<1>6. CASE Count(w)
  <2>1. loc' = [loc EXCEPT ![w] = [loc[w] EXCEPT
                    !.pages = PageCount(Cardinality(Matching(loc[w].doc, loc[w].states)))]]
    BY <1>6 DEF Count
  <2> QED
    BY <1>1, <1>2, <1>6, <2>1, LocalsDoc, QuietStep DEF Count, Goto, keys
<1>7. CASE NextPage(w)
  <2>1. CASE UNCHANGED loc
    BY <1>1, <1>2, <1>7, <2>1, QuietGoto DEF NextPage, keys
  <2>2. CASE ~ UNCHANGED loc
    <3> DEFINE r == [loc[w] EXCEPT
                        !.pages = loc[w].pages - 1,
                        !.todo = Page(Matching(loc[w].doc, loc[w].states),
                                      loc[w].pages - 1)]
    <3>1. /\ loc' = [loc EXCEPT ![w] = r] /\ pc' = [pc EXCEPT ![w] = "next"]
          /\ pc[w] = "page" /\ UNCHANGED <<lock, overdue>>
      BY <1>7, <2>2 DEF NextPage, Goto, keys
    <3>2. r.doc = loc[w].doc
      BY <1>1, LocalsDoc
    <3> HIDE DEF r
    <3> QED
      BY <1>1, <1>2, <3>1, <3>2, QuietStep
  <2> QED
    BY <2>1, <2>2
<1>8. CASE NextParagraph(w)
  <2>1. CASE loc' = [loc EXCEPT ![w].todo = {}] /\ Goto(w, "page")
    <3> DEFINE r == [loc[w] EXCEPT !.todo = {}]
    <3>1. /\ loc' = [loc EXCEPT ![w] = r] /\ pc' = [pc EXCEPT ![w] = "page"]
          /\ pc[w] = "next" /\ UNCHANGED <<lock, overdue>>
      BY <1>8, <2>1 DEF NextParagraph, Goto, keys
    <3>2. r.doc = loc[w].doc
      BY <1>1, LocalsDoc
    <3> HIDE DEF r
    <3> QED
      BY <1>1, <1>2, <3>1, <3>2, QuietStep
  <2>2. CASE /\ loc' = [loc EXCEPT ![w].cur = First(loc[w].todo),
                                   ![w].todo = @ \ {First(loc[w].todo)}]
             /\ Goto(w, "pstart")
    <3> DEFINE r == [loc[w] EXCEPT
                        !.cur = First(loc[w].todo),
                        !.todo = loc[w].todo \ {First(loc[w].todo)}]
    <3>1. /\ loc' = [loc EXCEPT ![w] = r] /\ pc' = [pc EXCEPT ![w] = "pstart"]
          /\ pc[w] = "next" /\ UNCHANGED <<lock, overdue>>
      BY <1>8, <2>2 DEF NextParagraph, Goto, keys
    <3>2. r.doc = loc[w].doc
      BY <1>1, LocalsDoc
    <3> HIDE DEF r
    <3> QED
      BY <1>1, <1>2, <3>1, <3>2, QuietStep
  <2> QED
    BY <1>8, <2>1, <2>2 DEF NextParagraph
<1>9. CASE PostRead(w)
  <2>1. CASE UNCHANGED overdue /\ Goto(w, "post_doc")
    <3>1. PICK k : loc' = [loc EXCEPT ![w] = [loc[w] EXCEPT !.kept = k]]
      BY <1>2, <1>9, <2>1 DEF PostRead, Goto, TypeOK, ProcsType
    <3> QED
      BY <1>1, <1>2, <1>9, <2>1, <3>1, LocalsDoc, QuietStep DEF PostRead, Goto
  <2>2. CASE Goto(w, "release") /\ overdue' = overdue \ {w} /\ UNCHANGED loc
    <3>1. loc' = [loc EXCEPT ![w] = loc[w]]
      BY <2>2 DEF TypeOK, ProcsType
    <3>2. Inside' = [Inside EXCEPT ![w] = None]
      BY <1>2, <2>2, <3>1, InsideMoves DEF Goto
    <3>3. Inside[w] # None
      BY <1>2, <1>9, InsideType DEF PostRead
    <3>4. L!Abandon(w)
      BY <1>9, <2>2, <3>2, <3>3 DEF PostRead, L!Abandon
    <3> QED
      BY <3>4 DEF L!LeaseNext
  <2> QED
    BY <1>9, <2>1, <2>2 DEF PostRead
<1>10. CASE UnLock(w)
  <2> DEFINE d == loc[w].doc
  <2>1. d \in Docs /\ Inside[w] = d
    BY <1>2, <1>10, InsideType DEF UnLock
  <2>2. loc' = [loc EXCEPT ![w] = loc[w]]
    BY <1>10 DEF UnLock, TypeOK, ProcsType
  <2>3. Inside' = [Inside EXCEPT ![w] = None]
    BY <1>2, <1>10, <2>2, InsideMoves DEF UnLock, Goto
  <2>4. lock[d] = w <=> w \notin overdue
    BY <1>2, <1>10, <2>1, InsideType DEF UnLock, LockInv
  <2>5. lock' = IF w \in overdue THEN lock ELSE [lock EXCEPT ![d] = None]
    BY <1>10, <2>1, <2>4 DEF UnLock, TypeOK, KeysType
  <2>6. L!Release(w, d)
    BY <1>10, <2>1, <2>3, <2>5 DEF UnLock, L!Release
  <2> QED
    BY <2>1, <2>6 DEF L!LeaseNext
<1>11. CASE Release(w)
  BY <1>1, <1>2, <1>11, QuietStep DEF Release, End
<1>12. CASE ParagraphStep(w)
  BY <1>1, <1>12, LeaseParagraph
<1>13. CASE TaskError(w)
  <2>1. PICK r : r = [Blank EXCEPT !.doc = loc[w].doc, !.states = loc[w].states]
    OBVIOUS
  <2>2. /\ r.doc = loc[w].doc /\ loc' = [loc EXCEPT ![w] = r]
        /\ pc' = [pc EXCEPT ![w] = "post_read"] /\ UNCHANGED <<lock, overdue>>
    BY <1>13, <2>1 DEF TaskError, Goto, Blank
  <2>3. pc[w] \in SectionPcs
    BY <1>13 DEF TaskError, SectionPcs, ParagraphPcs
  <2> QED
    BY <1>1, <1>2, <2>2, <2>3, QuietStep
<1>14. CASE TaskRaises(w)
  <2>1. loc' = [loc EXCEPT ![w] = loc[w]] /\ pc' = [pc EXCEPT ![w] = "release"]
    BY <1>14 DEF TaskRaises, Goto, TypeOK, ProcsType
  <2>2. Inside' = [Inside EXCEPT ![w] = None]
    BY <1>2, <2>1, InsideMoves
  <2>3. CASE Inside[w] # None
    <3>1. L!Abandon(w)
      BY <1>14, <2>2, <2>3 DEF TaskRaises, L!Abandon
    <3> QED
      BY <3>1 DEF L!LeaseNext
  <2>4. CASE Inside[w] = None
    <3>1. UNCHANGED Inside
      BY <2>2, <2>4, InsideType
    <3>2. w \notin overdue
      BY <2>4 DEF LockInv
    <3> QED
      BY <1>14, <3>1, <3>2 DEF TaskRaises, L!leaseVars
  <2> QED
    BY <2>3, <2>4
<1> QED
  BY <1>3, <1>4, <1>5, <1>6, <1>7, <1>8, <1>9, <1>10, <1>11, <1>12, <1>13, <1>14 DEF TaskStep

LEMMA LeaseFault ==
    ASSUME TypeOK, LockInv, Fault
    PROVE  [L!LeaseNext]_(L!leaseVars)
<1>1. ASSUME NEW w \in Workers, Crash(w)
      PROVE  [L!LeaseNext]_(L!leaseVars)
  <2>1. Inside' = [Inside EXCEPT ![w] = None]
    <3>1. "idle" \notin SectionPcs
      BY DEF SectionPcs, ParagraphPcs
    <3> QED
      BY <1>1, <3>1, InsideMoves DEF Crash, End
  <2>2. CASE Inside[w] # None
    <3>1. L!Abandon(w)
      BY <1>1, <2>1, <2>2 DEF Crash, L!Abandon
    <3> QED
      BY <3>1 DEF L!LeaseNext
  <2>3. CASE Inside[w] = None
    <3>1. UNCHANGED Inside
      BY <2>1, <2>3, InsideType
    <3>2. w \notin overdue
      BY <2>3 DEF LockInv
    <3> QED
      BY <1>1, <3>1, <3>2 DEF Crash, L!leaseVars
  <2> QED
    BY <2>2, <2>3
<1>2. ASSUME NEW d \in Docs, LockExpires(d)
      PROVE  [L!LeaseNext]_(L!leaseVars)
  <2>1. UNCHANGED Inside
    BY <1>2 DEF LockExpires, Inside
  <2>2. \A w \in Workers : (pc[w] \in SectionPcs /\ loc[w].doc = d) <=> Inside[w] = d
    BY InsideType
  <2>3. L!RunOut(d)
    BY <1>2, <2>1, <2>2 DEF LockExpires, L!RunOut
  <2> QED
    BY <2>3 DEF L!LeaseNext
<1>3. CASE UNCHANGED <<pc, loc, lock, overdue>>
  BY <1>3 DEF Inside, L!leaseVars
<1> QED
  BY <1>1, <1>2, <1>3 DEF Fault, OnceExpires, EventInit, keys

\* Every step is a step of the lease or a stutter.
LEMMA LeaseStep ==
    ASSUME TypeOK, LockInv, [Next]_vars
    PROVE  [L!LeaseNext]_(L!leaseVars)
<1>1. CASE Rest \/ UNCHANGED vars
  BY <1>1 DEF Rest, vars, Inside, L!leaseVars
<1> QED
  BY <1>1, LeaseTask, LeaseRequest, LeaseFault DEF Next

LEMMA LockInit == Init => LockInv /\ L!LeaseInit
<1> SUFFICES ASSUME Init PROVE LockInv /\ L!LeaseInit
  OBVIOUS
<1>1. Inside = [w \in Workers |-> None]
  BY DEF Init, Inside, Procs, SectionPcs, ParagraphPcs
<1> QED
  BY <1>1 DEF Init, LockInv, L!LeaseInit

LEMMA LockNext ==
    ASSUME TypeOK, LockInv, [Next]_vars
    PROVE  LockInv'
BY TypeNext, LeaseStep, LeaseLockInv

\* Whatever expires, crashes or is deleted meanwhile: a worker between try_lock and
\* un_lock owns the Redis key of its document exactly until that key runs out.
THEOREM LockCorrect == Spec => []LockInv
BY TypeInit, TypeNext, LockInit, LockNext, PTL DEF Spec

\* Two workers are inside embedding_by_document of one document only if one of them has
\* outlived its key.
THEOREM OneWorker == Spec => []OneWorkerPerDocument
<1>1. LockInv => OneWorkerPerDocument
  BY DEF LockInv, OneWorkerPerDocument
<1> QED
  BY <1>1, LockCorrect, PTL

\* The Redis lock, as the tasks use it, is a lease: the refinement that the run
\* embed_faults checks on a small instance.
THEOREM LeaseRefinement == Spec => ImplementsLease
<1>1. Init => L!LeaseInit
  BY LockInit
<1>2. TypeOK /\ LockInv /\ [Next]_vars => [L!LeaseNext]_(L!leaseVars)
  BY LeaseStep
<1> QED
  BY <1>1, <1>2, TypeCorrect, LockCorrect, PTL DEF Spec, ImplementsLease, L!LeaseSpec

-----------------------------------------------------------------------------
(* What a step of a process does, as far as the proofs below need it: it   *)
(* moves to a point l with the locals r.                                   *)

Moves(q, l, r) == pc' = [pc EXCEPT ![q] = l] /\ loc' = [loc EXCEPT ![q] = r]

LEMMA MovesOne ==
    ASSUME TypeOK, NEW q \in Procs, NEW l, NEW r, Moves(q, l, r)
    PROVE  /\ pc'[q] = l /\ loc'[q] = r
           /\ \A x \in Procs \ {q} : pc'[x] = pc[x] /\ loc'[x] = loc[x]
BY DEF TypeOK, ProcsType, Moves

\* A statement that sets statuses neither makes nor removes a row.
LEMMA UpdateKeepsRows ==
    ASSUME TypeOK, NEW s \in State
    PROVE  /\ \A x, p \in Paras : SetPara(x, s)[p] = "GONE" <=> para[p] = "GONE"
           /\ \A d \in Docs : \A S \in SUBSET State : \A p \in Paras :
                SetParas(Matching(d, S), s)[p] = "GONE" <=> para[p] = "GONE"
<1>1. s # "GONE" /\ "GONE" \notin State /\ para \in [Paras -> Row]
  BY DEF State, TypeOK, DatabaseType
<1>2. ASSUME NEW d \in Docs, NEW S \in SUBSET State, NEW p \in Paras
      PROVE  SetParas(Matching(d, S), s)[p] = "GONE" <=> para[p] = "GONE"
  BY <1>1 DEF SetParas, Matching
<1>3. ASSUME NEW x \in Paras, NEW p \in Paras
      PROVE  SetPara(x, s)[p] = "GONE" <=> para[p] = "GONE"
  BY <1>1 DEF SetPara
<1> QED
  BY <1>2, <1>3

\* The paragraphs a task has before it come from its document, at the query of a page.
TaskMoves(w, l, r) ==
    /\ Moves(w, l, r)
    /\ \/ Take(w)
       \/ Release(w)
       \/ r.doc = loc[w].doc /\ r.states = loc[w].states /\ pc[w] # "idle" /\ l # "idle"
    /\ \/ r.todo = {}
       \/ /\ r.doc = loc[w].doc
          /\ \/ r.todo \subseteq loc[w].todo
             \/ r.todo \subseteq Matching(r.doc, State)
    /\ l \in ParagraphPcs => l = "pstart" /\ r.doc = loc[w].doc /\ r.cur \in loc[w].todo

LEMMA TaskView ==
    ASSUME TypeOK, NEW w \in Workers, TaskStep(w), ~ ParagraphStep(w)
    PROVE  /\ \E l, r : TaskMoves(w, l, r)
           /\ UNCHANGED <<content, vec>> /\ overdue' \subseteq overdue
           /\ \/ UNCHANGED para
              \/ \E d \in Docs : para' = SetParas(Matching(d, {"REVOKE"}), "REVOKED")
<1>1. w \in Procs /\ loc[w] \in Locals /\ loc[w].states \subseteq State
  BY DEF Procs, TypeOK, ProcsType, Locals
<1>2. {"idle", "lock", "release", "check", "start", "count", "page", "next", "post_read",
       "post_doc", "post_paras", "agg", "unlock"} \cap ParagraphPcs = {}
  BY DEF ParagraphPcs
<1>3. UNCHANGED <<content, vec>> /\ overdue' \subseteq overdue
  BY DEF TaskStep, Take, TryLock, Check, Start, Count, NextPage, NextParagraph, PostRead,
    PostDoc, PostParas, PostAggregate, TaskError, TaskRaises, UnLock, Release, db, keys
<1>4. ASSUME NEW l, l \notin ParagraphPcs, l # "idle", pc[w] # "idle", Goto(w, l), UNCHANGED loc
      PROVE  TaskMoves(w, l, loc[w])
  BY <1>1, <1>4 DEF TaskMoves, Moves, Goto, TypeOK, ProcsType
<1>5. \/ UNCHANGED para
      \/ \E d \in Docs : para' = SetParas(Matching(d, {"REVOKE"}), "REVOKED")
  <2>1. CASE PostParas(w)
    <3>1. loc[w].doc \in Docs
      BY <1>1, <1>2, <2>1 DEF PostParas, TypeOK, ProcsType, AtType, WorkerPcs, SectionPcs
    <3> QED
      BY <2>1, <3>1 DEF PostParas
  <2>2. CASE ~ PostParas(w)
    BY <2>2 DEF TaskStep, Take, TryLock, Check, Start, Count, NextPage, NextParagraph, PostRead,
      PostDoc, PostAggregate, TaskError, TaskRaises, UnLock, Release, db, keys
  <2> QED
    BY <2>1, <2>2
<1>6. \E l, r : TaskMoves(w, l, r)
  <2>1. CASE Take(w)
    <3> DEFINE r == [Blank EXCEPT !.doc = Head(queue).doc, !.states = Head(queue).states]
    <3>1. PICK l \in {"lock", "release"} : Goto(w, l)
      BY <2>1 DEF Take
    <3>2. r.todo = {} /\ loc' = [loc EXCEPT ![w] = r]
      BY <2>1 DEF Take, Blank
    <3>3. TaskMoves(w, l, r)
      BY <1>2, <2>1, <3>1, <3>2 DEF TaskMoves, Moves, Goto
    <3> QED
      BY <3>3
  <2>2. CASE /\ UNCHANGED loc /\ pc[w] # "idle"
             /\ \E l : l \notin ParagraphPcs /\ l # "idle" /\ Goto(w, l)
    BY <1>4, <2>2
  <2>3. CASE Count(w)
    <3> DEFINE n == PageCount(Cardinality(Matching(loc[w].doc, loc[w].states)))
    <3> HIDE DEF n
    <3>1. loc' = [loc EXCEPT ![w].pages = n] /\ Goto(w, "page") /\ pc[w] # "idle"
      BY <2>3 DEF Count, n
    <3> DEFINE r == [loc[w] EXCEPT !.pages = n]
    <3>2. loc' = [loc EXCEPT ![w] = r]
      BY <3>1
    <3>3. r.doc = loc[w].doc /\ r.states = loc[w].states /\ r.todo = loc[w].todo
      BY <1>1 DEF Locals
    <3> HIDE DEF r
    <3>4. TaskMoves(w, "page", r)
      BY <1>2, <3>1, <3>2, <3>3 DEF TaskMoves, Moves, Goto
    <3> QED
      BY <3>4
  <2>4. CASE NextPage(w) /\ ~ UNCHANGED loc
    <3> DEFINE t == Page(Matching(loc[w].doc, loc[w].states), loc[w].pages - 1)
    <3>1. t \subseteq Matching(loc[w].doc, State)
      BY <1>1 DEF Page, Matching
    <3> HIDE DEF t
    <3> DEFINE r == [loc[w] EXCEPT !.pages = loc[w].pages - 1, !.todo = t]
    <3>2. loc' = [loc EXCEPT ![w] = r] /\ Goto(w, "next") /\ pc[w] # "idle"
      BY <2>4 DEF NextPage, t
    <3>3. r.doc = loc[w].doc /\ r.states = loc[w].states /\ r.todo = t
      BY <1>1 DEF Locals
    <3> HIDE DEF r
    <3>4. TaskMoves(w, "next", r)
      BY <1>2, <3>1, <3>2, <3>3 DEF TaskMoves, Moves, Goto
    <3> QED
      BY <3>4
  <2>5. CASE /\ loc' = [loc EXCEPT ![w].todo = {}] /\ Goto(w, "page") /\ pc[w] # "idle"
    <3> DEFINE r == [loc[w] EXCEPT !.todo = {}]
    <3>1. /\ r.todo = {} /\ r.doc = loc[w].doc /\ r.states = loc[w].states
          /\ loc' = [loc EXCEPT ![w] = r]
      BY <1>1, <2>5 DEF Locals
    <3> HIDE DEF r
    <3>2. TaskMoves(w, "page", r)
      BY <1>2, <2>5, <3>1 DEF TaskMoves, Moves, Goto
    <3> QED
      BY <3>2
  <2>6. CASE /\ loc[w].todo # {} /\ Goto(w, "pstart") /\ pc[w] # "idle"
             /\ loc' = [loc EXCEPT ![w].cur = First(loc[w].todo),
                                   ![w].todo = @ \ {First(loc[w].todo)}]
    <3>1. PICK p \in loc[w].todo : p = First(loc[w].todo)
      BY <1>1, <2>6, FirstType DEF Locals
    <3> DEFINE r == [loc[w] EXCEPT !.cur = p, !.todo = loc[w].todo \ {p}]
    <3>2. loc' = [loc EXCEPT ![w] = r]
      BY <2>6, <3>1
    <3>3. /\ r.doc = loc[w].doc /\ r.states = loc[w].states
          /\ r.todo \subseteq loc[w].todo /\ r.cur = p
      BY <1>1 DEF Locals
    <3> HIDE DEF r
    <3>4. TaskMoves(w, "pstart", r)
      BY <2>6, <3>1, <3>2, <3>3 DEF TaskMoves, Moves, Goto
    <3> QED
      BY <3>4
  <2>7. CASE PostRead(w) /\ Goto(w, "post_doc") /\ pc[w] # "idle"
    <3>1. PICK k : loc' = [loc EXCEPT ![w].kept = k]
      BY <1>1, <2>7 DEF PostRead, Goto, TypeOK, ProcsType
    <3> DEFINE r == [loc[w] EXCEPT !.kept = k]
    <3>2. loc' = [loc EXCEPT ![w] = r]
      BY <3>1
    <3>3. r.doc = loc[w].doc /\ r.states = loc[w].states /\ r.todo = loc[w].todo
      BY <1>1 DEF Locals
    <3> HIDE DEF r
    <3>4. TaskMoves(w, "post_doc", r)
      BY <1>2, <2>7, <3>2, <3>3 DEF TaskMoves, Moves, Goto
    <3> QED
      BY <3>4
  <2>8. CASE Release(w)
    <3>1. TaskMoves(w, "idle", Blank)
      BY <1>2, <2>8 DEF Release, End, TaskMoves, Moves, Blank
    <3> QED
      BY <3>1
  <2>9. CASE TaskError(w)
    <3>1. PICK r : r = [Blank EXCEPT !.doc = loc[w].doc, !.states = loc[w].states]
      OBVIOUS
    <3>2. /\ r.doc = loc[w].doc /\ r.states = loc[w].states /\ r.todo = {}
          /\ loc' = [loc EXCEPT ![w] = r] /\ pc[w] # "idle"
      BY <2>9, <3>1 DEF TaskError, Blank
    <3>3. TaskMoves(w, "post_read", r)
      BY <1>2, <2>9, <3>2 DEF TaskError, TaskMoves, Moves, Goto
    <3> QED
      BY <3>3
  <2> QED
    BY <1>2, <2>1, <2>2, <2>3, <2>4, <2>5, <2>6, <2>7, <2>8, <2>9
    DEF TaskStep, TryLock, Check, Start, NextPage, NextParagraph, PostRead, PostDoc, PostParas,
      PostAggregate, TaskRaises, UnLock
<1> QED
  BY <1>3, <1>5, <1>6

\* embedding_by_paragraph, in a worker, keeps its document and the paragraphs to come.
ParagraphMoves(w, l, r) ==
    /\ Moves(w, l, r)
    /\ pc[w] \in ParagraphPcs /\ l # "idle"
    /\ r.doc = loc[w].doc /\ r.states = loc[w].states
    /\ r.pages = loc[w].pages /\ r.todo = loc[w].todo
    /\ l \in ParagraphPcs => r.cur = loc[w].cur

LEMMA ParagraphView ==
    ASSUME TypeOK, NEW w \in Workers, ParagraphStep(w)
    PROVE  /\ \E l, r : ParagraphMoves(w, l, r)
           /\ UNCHANGED <<content, overdue>>
           /\ \A p \in Paras : para'[p] = "GONE" <=> para[p] = "GONE"
<1>1. /\ w \in Procs /\ loc[w] \in Locals /\ loc[w].cur \in Paras /\ pc[w] \in ParagraphPcs
  BY DEF ParagraphStep, ParagraphStart, ReadText, DeleteVectors, Embed, Recheck, Insert,
    ParagraphDone, ParagraphError, ParagraphFailed, TypeOK, ProcsType, AtType, ParagraphPcs,
    Procs
<1>2. UNCHANGED <<content, overdue>>
  BY DEF ParagraphStep, ParagraphStart, ReadText, DeleteVectors, Embed, Recheck, Insert,
    ParagraphDone, ParagraphError, ParagraphFailed, db, keys
<1>3. \A p \in Paras : para'[p] = "GONE" <=> para[p] = "GONE"
  <2>1. {"STARTED", "SUCCESS", "FAILURE"} \subseteq State
    BY DEF State
  <2>2. UNCHANGED para \/ \E s \in {"STARTED", "SUCCESS", "FAILURE"} : para' = SetPara(loc[w].cur, s)
    BY DEF ParagraphStep, ParagraphStart, ReadText, DeleteVectors, Embed, Recheck, Insert,
      ParagraphDone, ParagraphError, ParagraphFailed, db
  <2>3. ASSUME NEW s \in {"STARTED", "SUCCESS", "FAILURE"}, para' = SetPara(loc[w].cur, s)
        PROVE  \A p \in Paras : para'[p] = "GONE" <=> para[p] = "GONE"
    <3>1. \A p \in Paras : SetPara(loc[w].cur, s)[p] = "GONE" <=> para[p] = "GONE"
      BY <1>1, <2>1, UpdateKeepsRows
    <3> QED
      BY <2>3, <3>1
  <2> QED
    BY <2>2, <2>3
<1>4. \E l, r : ParagraphMoves(w, l, r)
  <2>1. CASE UNCHANGED loc /\ \E l : l # "idle" /\ Goto(w, l)
    <3>1. PICK l : l # "idle" /\ Goto(w, l)
      BY <2>1
    <3>2. ParagraphMoves(w, l, loc[w])
      BY <1>1, <2>1, <3>1 DEF ParagraphMoves, Moves, Goto, TypeOK, ProcsType
    <3> QED
      BY <3>2
  <2>2. CASE ReadText(w)
    <3>1. PICK t : loc' = [loc EXCEPT ![w].text = t] /\ Goto(w, "wipe")
      BY <2>2 DEF ReadText
    <3> DEFINE r == [loc[w] EXCEPT !.text = t]
    <3>2. /\ loc' = [loc EXCEPT ![w] = r]
          /\ r.doc = loc[w].doc /\ r.states = loc[w].states
          /\ r.pages = loc[w].pages /\ r.todo = loc[w].todo /\ r.cur = loc[w].cur
      BY <1>1, <3>1 DEF Locals
    <3> HIDE DEF r
    <3>3. ParagraphMoves(w, "wipe", r)
      BY <1>1, <3>1, <3>2 DEF ParagraphMoves, Moves, Goto
    <3> QED
      BY <3>3
  <2>3. CASE ReturnFrom(w)
    <3> DEFINE r == [loc[w] EXCEPT !.cur = None, !.text = 0]
    <3>1. loc' = [loc EXCEPT ![w] = r] /\ Goto(w, "next")
      BY <2>3 DEF ReturnFrom
    <3>2. /\ r.doc = loc[w].doc /\ r.states = loc[w].states
          /\ r.pages = loc[w].pages /\ r.todo = loc[w].todo
      BY <1>1 DEF Locals
    <3> HIDE DEF r
    <3>3. "next" \notin ParagraphPcs
      BY DEF ParagraphPcs
    <3>4. ParagraphMoves(w, "next", r)
      BY <1>1, <3>1, <3>2, <3>3 DEF ParagraphMoves, Moves, Goto
    <3> QED
      BY <3>4
  <2> QED
    BY <2>1, <2>2, <2>3
    DEF ParagraphStep, ParagraphStart, DeleteVectors, Embed, Recheck, Insert, ParagraphDone,
      ParagraphError, ParagraphFailed
<1> QED
  BY <1>2, <1>3, <1>4

-----------------------------------------------------------------------------
(* One copy of each paragraph, as long as nothing but the lock decides who *)
(* embeds: no paragraph is edited (an edit embeds it inside its request)   *)
(* and no lock runs out under its holder.                                  *)

NothingIsEdited == "edit" \notin Env

NoLockRunsOut == "lock_expiry" \notin Env

Punctual == overdue = {}

\* What a worker has before it are paragraphs of its document, and they have a text.
Lawful(l, r) ==
    /\ \A p \in r.todo : DocOf[p] = r.doc /\ content[p] # 0
    /\ l \in ParagraphPcs => DocOf[r.cur] = r.doc /\ content[r.cur] # 0

WorkersOnly ==
    /\ \A u \in Users : pc[u] \notin ParagraphPcs \cup {"e_save"}
    /\ \A p \in Paras : para[p] # "GONE" => content[p] # 0
    /\ \A w \in Workers : Lawful(pc[w], loc[w])

LEMMA WorkersOnlyInit == Init => WorkersOnly
<1> SUFFICES ASSUME Init PROVE WorkersOnly
  OBVIOUS
<1>1. \A q \in Procs : pc[q] = "idle" /\ loc[q].todo = {}
  BY DEF Init, Blank
<1>2. "idle" \notin ParagraphPcs \cup {"e_save"}
  BY DEF ParagraphPcs
<1> QED
  BY <1>1, <1>2 DEF Init, WorkersOnly, Lawful, Procs

\* Two workers are never on one paragraph: they would be inside one document.
LEMMA Apart ==
    ASSUME TypeOK, LockInv, WorkersOnly, Punctual,
           NEW w1 \in Workers, NEW w2 \in Workers, w1 # w2,
           pc[w1] \in ParagraphPcs, pc[w2] \in ParagraphPcs
    PROVE  loc[w1].cur # loc[w2].cur
<1>1. pc[w1] \in SectionPcs /\ pc[w2] \in SectionPcs
  BY DEF SectionPcs
<1>2. /\ Inside[w1] = loc[w1].doc /\ Inside[w2] = loc[w2].doc
      /\ Inside[w1] # None /\ Inside[w2] # None
  BY <1>1, InsideType
<1>3. loc[w1].doc # loc[w2].doc
  BY <1>2 DEF LockInv, Punctual
<1> QED
  BY <1>3 DEF WorkersOnly, Lawful

\* A step of one process, seen from the others.
LEMMA WorkersOnlyMove ==
    ASSUME TypeOK, TypeOK', WorkersOnly,
           NEW q \in Procs, NEW l, NEW r, Moves(q, l, r),
           \A p \in Paras : content[p] # 0 => content'[p] # 0,
           \A p \in Paras : para'[p] # "GONE" => para[p] # "GONE" \/ content'[p] # 0,
           q \in Users => l \notin ParagraphPcs \cup {"e_save"},
           q \in Workers => Lawful(l, r)
    PROVE  WorkersOnly'
<1>1. /\ pc'[q] = l /\ loc'[q] = r
      /\ \A x \in Procs \ {q} : pc'[x] = pc[x] /\ loc'[x] = loc[x]
  BY MovesOne
<1>2. Workers \subseteq Procs /\ Users \subseteq Procs
  BY DEF Procs
<1>3. ASSUME NEW w \in Workers PROVE Lawful(pc[w], loc[w])'
  <2>1. Lawful(pc'[w], loc'[w])
    BY <1>1, <1>2 DEF WorkersOnly
  <2>2. /\ \A p \in loc'[w].todo : p \in Paras
        /\ pc'[w] \in ParagraphPcs => loc'[w].cur \in Paras
    BY <1>2 DEF TypeOK, ProcsType, Locals, AtType
  <2> QED
    BY <2>1, <2>2 DEF Lawful
<1>4. \A p \in Paras : para'[p] # "GONE" => content'[p] # 0
  BY DEF WorkersOnly
<1>5. \A u \in Users : pc'[u] \notin ParagraphPcs \cup {"e_save"}
  BY <1>1, <1>2 DEF WorkersOnly
<1> QED
  BY <1>3, <1>4, <1>5 DEF WorkersOnly

LEMMA WorkersOnlyTask ==
    ASSUME TypeOK, TypeOK', WorkersOnly, NEW w \in Workers, TaskStep(w)
    PROVE  WorkersOnly'
<1>1. w \in Procs /\ w \notin Users /\ Lawful(pc[w], loc[w])
  BY DEF Procs, WorkersOnly
<1>2. CASE ParagraphStep(w)
  <2>1. PICK l, r : ParagraphMoves(w, l, r)
    BY <1>2, ParagraphView
  <2>2. Lawful(l, r)
    BY <1>1, <2>1 DEF Lawful, ParagraphMoves
  <2> QED
    BY <1>1, <1>2, <2>1, <2>2, ParagraphView, WorkersOnlyMove DEF ParagraphMoves
<1>3. CASE ~ ParagraphStep(w)
  <2>1. PICK l, r : TaskMoves(w, l, r)
    BY <1>3, TaskView
  <2>2. \A p \in Matching(r.doc, State) : DocOf[p] = r.doc /\ content[p] # 0
    BY DEF Matching, WorkersOnly, State
  <2>3. \A p \in r.todo : DocOf[p] = r.doc /\ content[p] # 0
    BY <1>1, <2>1, <2>2 DEF TaskMoves, Lawful
  <2>4. l \in ParagraphPcs => DocOf[r.cur] = r.doc /\ content[r.cur] # 0
    BY <1>1, <2>1 DEF TaskMoves, Lawful
  <2>5. \A p \in Paras : para'[p] # "GONE" => para[p] # "GONE"
    <3>1. "REVOKED" \in State /\ {"REVOKE"} \in SUBSET State
      BY DEF State
    <3> QED
      BY <1>3, <3>1, TaskView, UpdateKeepsRows
  <2>6. UNCHANGED content
    BY <1>3, TaskView
  <2>7. Lawful(l, r)
    BY <2>3, <2>4 DEF Lawful
  <2> QED
    BY <1>1, <2>1, <2>5, <2>6, <2>7, WorkersOnlyMove DEF TaskMoves
<1> QED
  BY <1>2, <1>3

\* What a request does that edits no paragraph: only an embedding and an edit come to
\* ParagraphPcs, and only a paragraph that has never been is created.
RequestMoves(u, l, r) ==
    /\ Moves(u, l, r)
    /\ l \notin ParagraphPcs \cup {"e_save"}

LEMMA RequestView ==
    ASSUME TypeOK, WorkersOnly, NothingIsEdited, NEW u \in Users,
           RequestStart(u) \/ RequestStep(u)
    PROVE  /\ \E l, r : RequestMoves(u, l, r)
           /\ UNCHANGED overdue
           /\ \A p \in Paras : content[p] # 0 => content'[p] = content[p]
           /\ \A p \in Paras : para'[p] # "GONE" => para[p] # "GONE" \/ content'[p] # 0
<1>1. u \in Procs /\ pc[u] \notin ParagraphPcs \cup {"e_save"} /\ loc[u] \in Locals
  BY DEF Procs, WorkersOnly, TypeOK, ProcsType
<1>2. ~ ParagraphStep(u) /\ ~ EditParagraphSave(u)
  BY <1>1 DEF ParagraphStep, ParagraphStart, ReadText, DeleteVectors, Embed, Recheck, Insert,
    ParagraphDone, ParagraphError, ParagraphFailed, EditParagraphSave, ParagraphPcs
<1>3. \A p \in Paras : ~ EditParagraphRead(u, p)
  BY DEF EditParagraphRead, Begin, Admit, NothingIsEdited
<1>4. {"idle", "r_paras", "r_agg", "r_delay", "c_doc", "n_save", "d_vec"}
        \cap (ParagraphPcs \cup {"e_save"}) = {}
  BY DEF ParagraphPcs
<1>5. UNCHANGED overdue
  BY <1>2, <1>3 DEF RequestStart, RequestStep, RefreshStart, RefreshParagraphs,
    RefreshAggregate, RefreshDelay, CancelParagraphs, CancelDocument, EditDocumentRead,
    EditDocumentSave, CreateParagraph, DeleteParagraphRow, DeleteParagraphVectors,
    DeleteDocument, keys
<1>6. \E l, r : RequestMoves(u, l, r)
  <2>1. ASSUME NEW l, NEW r, l \notin ParagraphPcs \cup {"e_save"}, Moves(u, l, r)
        PROVE  \E x, y : RequestMoves(u, x, y)
    BY <2>1 DEF RequestMoves
  <2>2. CASE \E l \in {"r_agg", "r_delay"} : Goto(u, l) /\ UNCHANGED loc
    <3>1. PICK l \in {"r_agg", "r_delay"} : Goto(u, l) /\ UNCHANGED loc
      BY <2>2
    <3>2. Moves(u, l, loc[u])
      BY <3>1 DEF Moves, Goto, TypeOK, ProcsType
    <3> QED
      BY <1>4, <2>1, <3>2
  <2>3. CASE End(u)
    <3>1. Moves(u, "idle", Blank)
      BY <2>3 DEF End, Moves
    <3> QED
      BY <1>4, <2>1, <3>1
  <2>4. CASE UNCHANGED <<pc, loc>> /\ pc[u] = "idle"
    <3>1. Moves(u, "idle", loc[u])
      BY <1>1, <2>4 DEF Moves, TypeOK, ProcsType
    <3> QED
      BY <1>4, <2>1, <3>1
  <2>5. CASE \E l \in {"r_paras", "c_doc", "n_save", "d_vec"} : \E r : Moves(u, l, r)
    BY <1>4, <2>1, <2>5
  <2>6. ASSUME NEW d \in Docs, NEW S \in StateLists, RefreshStart(u, d, S)
        PROVE  \E l \in {"r_paras", "c_doc", "n_save", "d_vec"} : \E r : Moves(u, l, r)
    <3>1. Moves(u, "r_paras", [loc[u] EXCEPT !.doc = d, !.states = S])
      BY <2>6 DEF RefreshStart, Moves, Goto
    <3> QED
      BY <3>1
  <2>7. ASSUME NEW d \in Docs, CancelParagraphs(u, d)
        PROVE  \E l \in {"r_paras", "c_doc", "n_save", "d_vec"} : \E r : Moves(u, l, r)
    <3>1. Moves(u, "c_doc", [loc[u] EXCEPT !.doc = d])
      BY <2>7 DEF CancelParagraphs, Moves, Goto
    <3> QED
      BY <3>1
  <2>8. ASSUME NEW d \in Docs, EditDocumentRead(u, d)
        PROVE  \E l \in {"r_paras", "c_doc", "n_save", "d_vec"} : \E r : Moves(u, l, r)
    <3>1. Moves(u, "n_save", [loc[u] EXCEPT !.doc = d, !.kept = doc[d], !.agg = aggs[d]])
      BY <2>8 DEF EditDocumentRead, Moves, Goto
    <3> QED
      BY <3>1
  <2>9. ASSUME NEW p \in Paras, DeleteParagraphRow(u, p)
        PROVE  \E l \in {"r_paras", "c_doc", "n_save", "d_vec"} : \E r : Moves(u, l, r)
    <3>1. Moves(u, "d_vec", [loc[u] EXCEPT !.cur = p])
      BY <2>9 DEF DeleteParagraphRow, Moves, Goto
    <3> QED
      BY <3>1
  <2> QED
    BY <1>2, <1>3, <2>2, <2>3, <2>4, <2>5, <2>6, <2>7, <2>8, <2>9
    DEF RequestStart, RequestStep, RefreshParagraphs, RefreshAggregate, RefreshDelay,
      CancelDocument, EditDocumentSave, CreateParagraph, DeleteParagraphVectors,
      DeleteDocument, Begin
<1>7. /\ \A p \in Paras : content[p] # 0 => content'[p] = content[p]
      /\ \A p \in Paras : para'[p] # "GONE" => para[p] # "GONE" \/ content'[p] # 0
  <2>1. ASSUME NEW x \in Paras, CreateParagraph(u, x)
        PROVE  /\ \A p \in Paras : content[p] # 0 => content'[p] = content[p]
               /\ \A p \in Paras : para'[p] # "GONE" => para[p] # "GONE" \/ content'[p] # 0
    <3>1. /\ content[x] = 0 /\ content' = [content EXCEPT ![x] = 1]
          /\ \E s : para' = [para EXCEPT ![x] = s]
      BY <2>1 DEF CreateParagraph
    <3>2. content \in [Paras -> Nat] /\ para \in [Paras -> Row]
      BY DEF TypeOK, DatabaseType
    <3> QED
      BY <3>1, <3>2
  <2>2. CASE RefreshParagraphs(u)
    <3>1. /\ loc[u].doc \in Docs /\ loc[u].states \in SUBSET State
          /\ para' = SetParas(Matching(loc[u].doc, loc[u].states), "PENDING") /\ content' = content
      BY <1>1, <2>2 DEF RefreshParagraphs, TypeOK, ProcsType, AtType, Locals
    <3>2. "PENDING" \in State
      BY DEF State
    <3>3. \A p \in Paras : para'[p] = "GONE" <=> para[p] = "GONE"
      BY <3>1, <3>2, UpdateKeepsRows
    <3> QED
      BY <3>1, <3>3
  <2>3. ASSUME NEW d \in Docs, CancelParagraphs(u, d)
        PROVE  /\ \A p \in Paras : content[p] # 0 => content'[p] = content[p]
               /\ \A p \in Paras : para'[p] # "GONE" => para[p] # "GONE" \/ content'[p] # 0
    <3>1. /\ para' = SetParas(Matching(d, {"PENDING", "STARTED"}), "REVOKE")
          /\ content' = content
      BY <2>3 DEF CancelParagraphs
    <3>2. "REVOKE" \in State /\ {"PENDING", "STARTED"} \in SUBSET State
      BY DEF State
    <3>3. \A p \in Paras : para'[p] = "GONE" <=> para[p] = "GONE"
      BY <3>1, <3>2, UpdateKeepsRows
    <3> QED
      BY <3>1, <3>3
  <2>4. ASSUME NEW d \in Docs, DeleteDocument(u, d)
        PROVE  /\ \A p \in Paras : content[p] # 0 => content'[p] = content[p]
               /\ \A p \in Paras : para'[p] # "GONE" => para[p] # "GONE" \/ content'[p] # 0
    BY <2>4 DEF DeleteDocument
  <2>5. ASSUME NEW x \in Paras, DeleteParagraphRow(u, x)
        PROVE  /\ \A p \in Paras : content[p] # 0 => content'[p] = content[p]
               /\ \A p \in Paras : para'[p] # "GONE" => para[p] # "GONE" \/ content'[p] # 0
    <3>1. para' = [para EXCEPT ![x] = "GONE"] /\ content' = content /\ para \in [Paras -> Row]
      BY <2>5 DEF DeleteParagraphRow, TypeOK, DatabaseType
    <3> QED
      BY <3>1
  <2>6. CASE UNCHANGED <<para, content>>
    BY <2>6
  <2> QED
    BY <1>2, <1>3, <2>1, <2>2, <2>3, <2>4, <2>5, <2>6
    DEF RequestStart, RequestStep, RefreshStart, RefreshAggregate, RefreshDelay,
      CancelDocument, EditDocumentRead, EditDocumentSave, DeleteParagraphVectors, db
<1> QED
  BY <1>5, <1>6, <1>7

LEMMA FaultView ==
    ASSUME Fault
    PROVE  /\ UNCHANGED <<para, content, vec>>
           /\ \/ UNCHANGED <<pc, loc>>
              \/ \E w \in Workers : Moves(w, "idle", Blank)
BY DEF Fault, Crash, LockExpires, OnceExpires, EventInit, End, Moves, db, keys

\* Only a key that runs out makes a worker late.
LEMMA NobodyIsLate ==
    ASSUME NoLockRunsOut, TypeOK, WorkersOnly, NothingIsEdited, Punctual, [Next]_vars
    PROVE  Punctual'
<1>1. CASE Rest \/ UNCHANGED vars
  BY <1>1 DEF Rest, vars, Punctual
<1>2. ASSUME NEW w \in Workers, TaskStep(w) PROVE Punctual'
  BY <1>2, TaskView, ParagraphView DEF Punctual
<1>3. ASSUME NEW u \in Users, RequestStart(u) \/ RequestStep(u) PROVE Punctual'
  BY <1>3, RequestView DEF Punctual
<1>4. CASE Fault
  BY <1>4 DEF Punctual, Fault, Crash, LockExpires, OnceExpires, EventInit, Admit, NoLockRunsOut,
    keys
<1> QED
  BY <1>1, <1>2, <1>3, <1>4 DEF Next

LEMMA WorkersOnlyNext ==
    ASSUME NothingIsEdited, TypeOK, WorkersOnly, [Next]_vars
    PROVE  WorkersOnly'
<1>1. TypeOK'
  BY TypeNext
<1>2. CASE Rest \/ UNCHANGED vars
  BY <1>2 DEF Rest, vars, WorkersOnly, Lawful
<1>3. ASSUME NEW w \in Workers, TaskStep(w) PROVE WorkersOnly'
  BY <1>1, <1>3, WorkersOnlyTask
<1>4. ASSUME NEW u \in Users, RequestStart(u) \/ RequestStep(u) PROVE WorkersOnly'
  <2>1. PICK l, r : RequestMoves(u, l, r)
    BY <1>4, RequestView
  <2>2. u \in Procs /\ u \notin Workers
    BY DEF Procs
  <2> QED
    BY <1>1, <1>4, <2>1, <2>2, RequestView, WorkersOnlyMove DEF RequestMoves
<1>5. CASE Fault
  <2>1. UNCHANGED <<para, content>>
    BY <1>5, FaultView
  <2>2. CASE UNCHANGED <<pc, loc>>
    BY <2>1, <2>2 DEF WorkersOnly, Lawful
  <2>3. ASSUME NEW w \in Workers, Moves(w, "idle", Blank) PROVE WorkersOnly'
    <3>1. Lawful("idle", Blank)
      BY DEF Lawful, Blank, ParagraphPcs
    <3>2. w \in Procs /\ w \notin Users
      BY DEF Procs
    <3> QED
      BY <1>1, <2>1, <2>3, <3>1, <3>2, WorkersOnlyMove
  <2> QED
    BY <1>5, <2>2, <2>3, FaultView
<1> QED
  BY <1>2, <1>3, <1>4, <1>5 DEF Next

\* Whoever is about to insert has deleted the vectors before, and nobody has inserted since.
Copies ==
    /\ \A p \in Paras : vec[p] = {} \/ \E v : vec[p] = {v}
    /\ \A w \in Workers : pc[w] \in {"embed", "recheck", "insert"} => vec[loc[w].cur] = {}

\* A request deletes vectors, or makes those of a paragraph that has never been.
LEMMA RequestVectors ==
    ASSUME TypeOK, WorkersOnly, NEW u \in Users, RequestStart(u) \/ RequestStep(u)
    PROVE  \A p \in Paras :
            \/ vec'[p] \subseteq vec[p]
            \/ content[p] = 0 /\ \E v : vec'[p] = {v}
<1>1. vec \in [Paras -> SUBSET (Procs \X Nat)]
  BY DEF TypeOK, DatabaseType
<1>2. ~ ParagraphStep(u)
  BY DEF WorkersOnly, ParagraphStep, ParagraphStart, ReadText, DeleteVectors, Embed, Recheck,
    Insert, ParagraphDone, ParagraphError, ParagraphFailed, ParagraphPcs
<1>3. CASE UNCHANGED vec
  BY <1>3
<1>4. ASSUME NEW x \in Paras, CreateParagraph(u, x)
      PROVE  \A p \in Paras :
                \/ vec'[p] \subseteq vec[p]
                \/ content[p] = 0 /\ \E v : vec'[p] = {v}
  <2>1. content[x] = 0 /\ (UNCHANGED vec \/ vec' = [vec EXCEPT ![x] = {<<u, 1>>}])
    BY <1>4 DEF CreateParagraph
  <2> QED
    BY <1>1, <2>1
<1>5. ASSUME NEW d \in Docs, DeleteDocument(u, d)
      PROVE  \A p \in Paras : vec'[p] \subseteq vec[p]
  <2>1. vec' = [p \in Paras |-> IF DocOf[p] = d THEN {} ELSE vec[p]]
    BY <1>5 DEF DeleteDocument
  <2> QED
    BY <2>1
<1>6. CASE DeleteParagraphVectors(u)
  <2>1. vec' = [vec EXCEPT ![loc[u].cur] = {}]
    BY <1>6 DEF DeleteParagraphVectors
  <2> QED
    BY <1>1, <2>1
<1> QED
  BY <1>2, <1>3, <1>4, <1>5, <1>6
  DEF RequestStart, RequestStep, RefreshStart, RefreshParagraphs, RefreshAggregate,
    RefreshDelay, CancelParagraphs, CancelDocument, EditDocumentRead, EditDocumentSave,
    EditParagraphRead, EditParagraphSave, DeleteParagraphRow, db

LEMMA CopiesParagraph ==
    ASSUME TypeOK, LockInv, WorkersOnly, Punctual, Copies,
           NEW w \in Workers, ParagraphStep(w)
    PROVE  Copies'
<1>1. PICK l, r : ParagraphMoves(w, l, r)
  BY ParagraphView
<1>2. PICK c \in Paras : c = loc[w].cur
  BY <1>1 DEF ParagraphMoves, TypeOK, ProcsType, AtType, Procs
<1>3. /\ vec \in [Paras -> SUBSET (Procs \X Nat)] /\ w \in Procs /\ Workers \subseteq Procs
      /\ pc'[w] = l /\ loc'[w] = r /\ (l \in ParagraphPcs => r.cur = c)
      /\ \A x \in Workers \ {w} : pc'[x] = pc[x] /\ loc'[x] = loc[x]
  BY <1>1, <1>2, MovesOne DEF ParagraphMoves, TypeOK, DatabaseType, Procs
<1>4. {"embed", "recheck", "insert"} \subseteq ParagraphPcs
  BY DEF ParagraphPcs
<1>5. \A x \in Workers \ {w} : pc[x] \in {"embed", "recheck", "insert"} => loc[x].cur # c
  BY <1>1, <1>2, <1>4, Apart DEF ParagraphMoves
<1>6. ASSUME \A p \in Paras \ {c} : vec'[p] = vec[p],
             vec'[c] = {} \/ \E v : vec'[c] = {v},
             l \in {"embed", "recheck", "insert"} => vec'[c] = {}
      PROVE  Copies'
  <2>1. \A p \in Paras : vec'[p] = {} \/ \E v : vec'[p] = {v}
    BY <1>6 DEF Copies
  <2>2. ASSUME NEW x \in Workers \ {w}, pc[x] \in {"embed", "recheck", "insert"}
        PROVE  vec'[loc[x].cur] = {}
    <3>1. loc[x].cur \in Paras
      BY <1>3, <1>4, <2>2 DEF TypeOK, ProcsType, AtType
    <3> QED
      BY <1>5, <1>6, <2>2, <3>1 DEF Copies
  <2>3. \A x \in Workers : pc'[x] \in {"embed", "recheck", "insert"} => vec'[loc'[x].cur] = {}
    BY <1>3, <1>4, <1>6, <2>2
  <2> QED
    BY <2>1, <2>3 DEF Copies
<1>7. CASE DeleteVectors(w)
  <2>1. vec' = [vec EXCEPT ![c] = {}]
    BY <1>2, <1>7 DEF DeleteVectors
  <2> QED
    BY <1>3, <1>6, <2>1
<1>8. CASE Insert(w)
  <2>1. vec' = [vec EXCEPT ![c] = @ \cup {<<w, loc[w].text>>}] /\ pc[w] = "insert" /\ l = "pdone"
    BY <1>2, <1>3, <1>8 DEF Insert, Goto, TypeOK, ProcsType
  <2>2. vec[c] = {}
    BY <1>2, <2>1 DEF Copies
  <2> QED
    BY <1>3, <1>6, <2>1, <2>2
<1>9. CASE UNCHANGED vec /\ (l \in {"embed", "recheck", "insert"} =>
                                pc[w] \in {"embed", "recheck", "insert"})
  BY <1>2, <1>6, <1>9 DEF Copies
<1>10. ASSUME ~ DeleteVectors(w), ~ Insert(w)
       PROVE  UNCHANGED vec /\ (l \in {"embed", "recheck", "insert"} =>
                                    pc[w] \in {"embed", "recheck", "insert"})
  BY <1>3, <1>10 DEF ParagraphStep, ParagraphStart, ReadText, Embed, Recheck, ParagraphDone,
    ParagraphError, ParagraphFailed, ReturnFrom, End, Goto, TypeOK, ProcsType, db
<1> QED
  BY <1>7, <1>8, <1>9, <1>10

LEMMA CopiesNext ==
    ASSUME NothingIsEdited, TypeOK, LockInv, WorkersOnly, Punctual, Copies, [Next]_vars
    PROVE  Copies'
<1>1. CASE Rest \/ UNCHANGED vars
  BY <1>1 DEF Rest, vars, Copies
<1>2. {"embed", "recheck", "insert"} \subseteq ParagraphPcs /\ Workers \subseteq Procs
  BY DEF ParagraphPcs, Procs
<1>3. ASSUME NEW w \in Workers, ParagraphStep(w) PROVE Copies'
  BY <1>3, CopiesParagraph
<1>4. ASSUME UNCHANGED vec, NEW q \in Procs, NEW l, NEW r, Moves(q, l, r),
             l \notin {"embed", "recheck", "insert"}
      PROVE  Copies'
  <2>1. /\ pc'[q] = l /\ loc'[q] = r
        /\ \A x \in Procs \ {q} : pc'[x] = pc[x] /\ loc'[x] = loc[x]
    BY <1>4, MovesOne
  <2> QED
    BY <1>2, <1>4, <2>1 DEF Copies
<1>5. ASSUME NEW w \in Workers, TaskStep(w), ~ ParagraphStep(w) PROVE Copies'
  <2>1. PICK l, r : TaskMoves(w, l, r)
    BY <1>5, TaskView
  <2>2. l \notin {"embed", "recheck", "insert"}
    BY <1>2, <2>1 DEF TaskMoves
  <2> QED
    BY <1>2, <1>4, <1>5, <2>1, <2>2, TaskView DEF TaskMoves
<1>6. ASSUME NEW u \in Users, RequestStart(u) \/ RequestStep(u) PROVE Copies'
  <2>1. PICK l, r : RequestMoves(u, l, r)
    BY <1>6, RequestView
  <2>2. /\ u \in Procs /\ u \notin Workers
        /\ \A x \in Workers : pc'[x] = pc[x] /\ loc'[x] = loc[x]
    BY <1>2, <2>1, MovesOne DEF RequestMoves, Procs
  <2>3. \A p \in Paras :
            \/ vec'[p] \subseteq vec[p]
            \/ content[p] = 0 /\ \E v : vec'[p] = {v}
    BY <1>6, RequestVectors
  <2>4. \A p \in Paras : vec'[p] = {} \/ \E v : vec'[p] = {v}
    BY <2>3 DEF Copies
  <2>5. ASSUME NEW x \in Workers, pc[x] \in {"embed", "recheck", "insert"}
        PROVE  vec'[loc[x].cur] = {}
    <3>1. loc[x].cur \in Paras /\ content[loc[x].cur] # 0 /\ vec[loc[x].cur] = {}
      BY <1>2, <2>5 DEF TypeOK, ProcsType, AtType, WorkersOnly, Lawful, Copies
    <3> QED
      BY <2>3, <3>1
  <2> QED
    BY <2>2, <2>4, <2>5 DEF Copies
<1>7. CASE Fault
  <2>1. CASE UNCHANGED <<pc, loc, vec>>
    BY <2>1 DEF Copies
  <2>2. ASSUME NEW w \in Workers, Moves(w, "idle", Blank), UNCHANGED vec PROVE Copies'
    BY <1>2, <1>4, <2>2
  <2> QED
    BY <1>7, <2>1, <2>2, FaultView
<1> QED
  BY <1>1, <1>3, <1>5, <1>6, <1>7 DEF Next

LEMMA CopiesInit == Init => Copies
<1> SUFFICES ASSUME Init PROVE Copies
  OBVIOUS
<1>1. \A w \in Workers : pc[w] = "idle"
  BY DEF Init, Procs
<1> QED
  BY <1>1 DEF Init, Copies

\* The vector store holds at most one copy of each paragraph, whatever is queued again,
\* cancelled, created, renamed, deleted, killed or restarted, as long as no paragraph is
\* edited and no lock runs out: embedding_by_paragraph deletes before it inserts, and the
\* lock of the document keeps a second worker from coming in between.
THEOREM OneCopyOfEach ==
    ASSUME NothingIsEdited, NoLockRunsOut
    PROVE  Spec => []OneCopy
<1>1. Copies => OneCopy
  <2>1. ASSUME NEW S, S = {} \/ \E v : S = {v} PROVE Cardinality(S) <= 1
    <3>1. CASE S = {}
      BY <3>1, FS_EmptySet
    <3>2. CASE \E v : S = {v}
      BY <3>2, FS_Singleton
    <3> QED
      BY <2>1, <3>1, <3>2
  <2> QED
    BY <2>1 DEF Copies, OneCopy
<1>2. Init => WorkersOnly /\ Punctual
  BY WorkersOnlyInit DEF Init, Punctual
<1>3. TypeOK /\ WorkersOnly /\ Punctual /\ [Next]_vars => WorkersOnly' /\ Punctual'
  BY WorkersOnlyNext, NobodyIsLate
<1>4. TypeOK /\ LockInv /\ WorkersOnly /\ Punctual /\ Copies /\ [Next]_vars => Copies'
  BY CopiesNext
<1> QED
  BY <1>1, <1>2, <1>3, <1>4, TypeCorrect, LockCorrect, CopiesInit, PTL DEF Spec

-----------------------------------------------------------------------------
(* A SUCCESS can be found, if moreover nothing is cancelled (a cancelled   *)
(* paragraph becomes a SUCCESS without vectors).                           *)

NothingIsCancelled == "cancel" \notin Env

Found(p) == vec[p] # {} /\ \A v \in vec[p] : v[2] = content[p]

\* Where a worker is with its paragraph: what it has read is the text, and what it has
\* inserted can be found, unless the paragraph has been deleted.
Embeds(w) ==
    /\ pc[w] \in ParagraphPcs \ {"pstart"} => para[loc[w].cur] # "SUCCESS"
    /\ pc[w] \in {"wipe", "embed", "recheck", "insert"} =>
        para[loc[w].cur] = "GONE" \/ loc[w].text = content[loc[w].cur]
    /\ pc[w] = "pdone" => para[loc[w].cur] = "GONE" \/ Found(loc[w].cur)

Searchable ==
    /\ \A p \in Paras : para[p] # "REVOKE"
    /\ \A p \in Paras : para[p] = "SUCCESS" => Found(p)
    /\ \A w \in Workers : Embeds(w)
    /\ \A u \in Users : pc[u] = "d_vec" =>
        para[loc[u].cur] = "GONE" /\ content[loc[u].cur] # 0

\* A step that neither embeds the paragraph nor creates it, and one that creates it.
Keeps(p) ==
    /\ content'[p] = content[p]
    /\ para'[p] \in {para[p], "PENDING", "GONE"}
    /\ para[p] = "GONE" => para'[p] = "GONE"
    /\ vec'[p] = vec[p] \/ para'[p] = "GONE"

Creates(p) ==
    /\ content[p] = 0
    /\ para'[p] # "REVOKE"
    /\ para'[p] = "SUCCESS" => vec'[p] # {} /\ \A v \in vec'[p] : v[2] = content'[p]

\* What others do leaves a worker, and the SUCCESS of a paragraph, as they are.
LEMMA EmbedsStays ==
    ASSUME NEW w, Embeds(w), pc'[w] = pc[w], loc'[w] = loc[w],
           pc[w] \in ParagraphPcs => Keeps(loc[w].cur)
    PROVE  Embeds(w)'
<1>1. CASE pc[w] \notin ParagraphPcs
  <2>1. pc'[w] \notin {"wipe", "embed", "recheck", "insert", "pdone"}
    BY <1>1 DEF ParagraphPcs
  <2> QED
    BY <1>1, <2>1 DEF Embeds
<1>2. CASE pc[w] \in ParagraphPcs
  <2> DEFINE c == loc[w].cur
  <2>1. Keeps(c)
    BY <1>2
  <2>2. pc[w] \in ParagraphPcs \ {"pstart"} => para'[c] # "SUCCESS"
    BY <2>1 DEF Embeds, Keeps
  <2>3. pc[w] \in {"wipe", "embed", "recheck", "insert"} =>
            para'[c] = "GONE" \/ loc[w].text = content'[c]
    BY <2>1 DEF Embeds, Keeps
  <2>4. pc[w] = "pdone" =>
            para'[c] = "GONE" \/ (vec'[c] # {} /\ \A v \in vec'[c] : v[2] = content'[c])
    BY <2>1 DEF Embeds, Keeps, Found
  <2> QED
    BY <2>2, <2>3, <2>4 DEF Embeds, Found
<1> QED
  BY <1>1, <1>2

LEMMA SearchableMove ==
    ASSUME TypeOK, WorkersOnly, Searchable,
           \A p \in Paras : Keeps(p) \/ Creates(p),
           NEW q \in Procs, NEW l, NEW r, Moves(q, l, r),
           q \in Workers => l \notin ParagraphPcs \ {"pstart"},
           q \in Users /\ l = "d_vec" => para'[r.cur] = "GONE" /\ content'[r.cur] # 0
    PROVE  Searchable'
<1>1. /\ pc'[q] = l /\ loc'[q] = r
      /\ \A x \in Procs \ {q} : pc'[x] = pc[x] /\ loc'[x] = loc[x]
      /\ Workers \subseteq Procs /\ Users \subseteq Procs
  BY MovesOne DEF Procs
<1>2. \A p \in Paras : para'[p] # "REVOKE"
  BY DEF Searchable, Keeps, Creates
<1>3. ASSUME NEW p \in Paras, para'[p] = "SUCCESS"
      PROVE  vec'[p] # {} /\ \A v \in vec'[p] : v[2] = content'[p]
  BY <1>3 DEF Searchable, Found, Keeps, Creates
<1>4. ASSUME NEW w \in Workers PROVE Embeds(w)'
  <2>1. CASE w = q
    <3>1. /\ pc'[w] \notin ParagraphPcs \ {"pstart"}
          /\ pc'[w] \notin {"wipe", "embed", "recheck", "insert", "pdone"}
      BY <1>1, <2>1 DEF ParagraphPcs
    <3> QED
      BY <3>1 DEF Embeds
  <2>2. CASE w # q
    <3>1. pc[w] \in ParagraphPcs => Keeps(loc[w].cur)
      <4>1. pc[w] \in ParagraphPcs => loc[w].cur \in Paras /\ content[loc[w].cur] # 0
        BY <1>1 DEF TypeOK, ProcsType, AtType, WorkersOnly, Lawful
      <4> QED
        BY <4>1 DEF Creates
    <3> QED
      BY <1>1, <2>2, <3>1, EmbedsStays DEF Searchable
  <2> QED
    BY <2>1, <2>2
<1>5. ASSUME NEW u \in Users, pc'[u] = "d_vec"
      PROVE  para'[loc'[u].cur] = "GONE" /\ content'[loc'[u].cur] # 0
  <2>1. CASE u = q
    BY <1>1, <1>5, <2>1
  <2>2. CASE u # q
    <3>1. pc[u] = "d_vec" /\ loc'[u].cur = loc[u].cur /\ loc[u].cur \in Paras
      BY <1>1, <1>5, <2>2 DEF TypeOK, ProcsType, AtType
    <3>2. para[loc[u].cur] = "GONE" /\ content[loc[u].cur] # 0
      BY <3>1 DEF Searchable
    <3>3. Keeps(loc[u].cur)
      BY <3>1, <3>2 DEF Creates
    <3> QED
      BY <3>1, <3>2, <3>3 DEF Keeps
  <2> QED
    BY <2>1, <2>2
<1> QED
  BY <1>2, <1>3, <1>4, <1>5 DEF Searchable, Found

LEMMA SearchableRequest ==
    ASSUME NothingIsEdited, NothingIsCancelled, TypeOK, WorkersOnly, Searchable,
           NEW u \in Users, RequestStart(u) \/ RequestStep(u)
    PROVE  Searchable'
<1>1. /\ u \in Procs /\ u \notin Workers /\ loc[u] \in Locals
      /\ para \in [Paras -> Row] /\ vec \in [Paras -> SUBSET (Procs \X Nat)]
      /\ content \in [Paras -> Nat]
  BY DEF Procs, TypeOK, ProcsType, DatabaseType
<1>2. ~ ParagraphStep(u) /\ ~ EditParagraphSave(u)
  BY DEF WorkersOnly, ParagraphStep, ParagraphStart, ReadText, DeleteVectors, Embed, Recheck,
    Insert, ParagraphDone, ParagraphError, ParagraphFailed, EditParagraphSave, ParagraphPcs
<1>3. /\ \A p \in Paras : ~ EditParagraphRead(u, p)
      /\ \A d \in Docs : ~ CancelParagraphs(u, d)
  BY DEF EditParagraphRead, CancelParagraphs, Begin, Admit, NothingIsEdited,
    NothingIsCancelled
<1>4. PICK l, r : RequestMoves(u, l, r)
  BY RequestView
<1>5. Moves(u, l, r) /\ pc'[u] = l /\ loc'[u] = r
  BY <1>1, <1>4, MovesOne DEF RequestMoves
<1>6. CASE UNCHANGED <<para, content, vec>> /\ l # "d_vec"
  <2>1. \A p \in Paras : Keeps(p)
    BY <1>6 DEF Keeps
  <2> QED
    BY <1>1, <1>5, <1>6, <2>1, SearchableMove
<1>7. CASE RefreshParagraphs(u)
  <2>1. /\ para' = SetParas(Matching(loc[u].doc, loc[u].states), "PENDING")
        /\ UNCHANGED <<content, vec>> /\ l # "d_vec" /\ loc[u].states \subseteq State
    BY <1>1, <1>5, <1>7 DEF RefreshParagraphs, Goto, TypeOK, ProcsType, Locals
  <2>2. \A p \in Paras : Keeps(p)
    BY <2>1 DEF Keeps, SetParas, Matching, State
  <2> QED
    BY <1>1, <1>5, <2>1, <2>2, SearchableMove
<1>8. ASSUME NEW x \in Paras, CreateParagraph(u, x) PROVE Searchable'
  <2>1. /\ content[x] = 0 /\ content' = [content EXCEPT ![x] = 1]
        /\ \/ /\ para' = [para EXCEPT ![x] = "SUCCESS"]
              /\ vec' = [vec EXCEPT ![x] = {<<u, 1>>}]
           \/ para' = [para EXCEPT ![x] = "FAILURE"] /\ UNCHANGED vec
        /\ pc[u] = "idle" /\ UNCHANGED pc
    BY <1>8 DEF CreateParagraph, Begin
  <2>2. Creates(x)
    <3>1. content'[x] = 1
      BY <1>1, <2>1
    <3>2. CASE para'[x] = "SUCCESS" /\ vec'[x] = {<<u, 1>>}
      BY <2>1, <3>1, <3>2 DEF Creates
    <3>3. CASE para'[x] = "FAILURE"
      BY <2>1, <3>3 DEF Creates
    <3> QED
      BY <1>1, <2>1, <3>2, <3>3
  <2>3. \A p \in Paras \ {x} : Keeps(p)
    BY <1>1, <2>1 DEF Keeps
  <2> QED
    BY <1>1, <1>5, <2>1, <2>2, <2>3, SearchableMove
<1>9. ASSUME NEW d \in Docs, DeleteDocument(u, d) PROVE Searchable'
  <2>1. /\ para' = [p \in Paras |-> IF DocOf[p] = d THEN "GONE" ELSE para[p]]
        /\ vec' = [p \in Paras |-> IF DocOf[p] = d THEN {} ELSE vec[p]]
        /\ UNCHANGED <<content, pc>> /\ pc[u] = "idle"
    BY <1>9 DEF DeleteDocument, Begin
  <2>2. \A p \in Paras : Keeps(p)
    BY <2>1 DEF Keeps
  <2> QED
    BY <1>1, <1>5, <2>1, <2>2, SearchableMove
<1>10. ASSUME NEW x \in Paras, DeleteParagraphRow(u, x) PROVE Searchable'
  <2>1. /\ para' = [para EXCEPT ![x] = "GONE"] /\ UNCHANGED <<content, vec>>
        /\ para[x] # "GONE" /\ loc' = [loc EXCEPT ![u].cur = x]
    BY <1>10 DEF DeleteParagraphRow
  <2>2. \A p \in Paras : Keeps(p)
    BY <1>1, <2>1 DEF Keeps
  <2>3. r.cur = x
    BY <1>1, <1>5, <2>1 DEF TypeOK, ProcsType, Locals
  <2>4. para'[r.cur] = "GONE" /\ content'[r.cur] # 0
    BY <1>1, <2>1, <2>3 DEF WorkersOnly
  <2>5. \A p \in Paras : Keeps(p) \/ Creates(p)
    BY <2>2
  <2> QED
    BY <1>1, <1>5, <2>4, <2>5, SearchableMove
<1>11. CASE DeleteParagraphVectors(u)
  <2>1. /\ vec' = [vec EXCEPT ![loc[u].cur] = {}] /\ UNCHANGED <<para, content>>
        /\ l # "d_vec" /\ para[loc[u].cur] = "GONE"
    BY <1>1, <1>5, <1>11 DEF DeleteParagraphVectors, End, TypeOK, ProcsType, Searchable
  <2>2. \A p \in Paras : Keeps(p)
    BY <1>1, <2>1 DEF Keeps
  <2> QED
    BY <1>1, <1>5, <2>1, <2>2, SearchableMove
<1>12. ASSUME ~ RefreshParagraphs(u), ~ DeleteParagraphVectors(u),
              \A p \in Paras : ~ CreateParagraph(u, p) /\ ~ DeleteParagraphRow(u, p),
              \A d \in Docs : ~ DeleteDocument(u, d)
       PROVE  UNCHANGED <<para, content, vec>> /\ l # "d_vec"
  BY <1>1, <1>2, <1>3, <1>5, <1>12
  DEF RequestStart, RequestStep, RefreshStart, RefreshAggregate, RefreshDelay, CancelDocument,
    EditDocumentRead, EditDocumentSave, Begin, Goto, End, db, TypeOK, ProcsType
<1> QED
  BY <1>6, <1>7, <1>8, <1>9, <1>10, <1>11, <1>12

\* The paragraph that a worker embeds, from the deletion of its vectors to its SUCCESS.
LEMMA SearchableParagraph ==
    ASSUME TypeOK, LockInv, WorkersOnly, Punctual, Copies, Searchable,
           NEW w \in Workers, ParagraphStep(w)
    PROVE  Searchable'
<1>1. PICK l, r : ParagraphMoves(w, l, r)
  BY ParagraphView
<1>2. PICK c \in Paras : c = loc[w].cur
  BY <1>1 DEF ParagraphMoves, TypeOK, ProcsType, AtType, Procs
<1>3. /\ w \in Procs /\ w \notin Users /\ loc[w] \in Locals
      /\ para \in [Paras -> Row] /\ vec \in [Paras -> SUBSET (Procs \X Nat)]
      /\ content \in [Paras -> Nat] /\ content' = content /\ content[c] # 0
      /\ pc'[w] = l /\ loc'[w] = r /\ (l \in ParagraphPcs => r.cur = c)
      /\ \A x \in Procs \ {w} : pc'[x] = pc[x] /\ loc'[x] = loc[x]
  BY <1>1, <1>2, ParagraphView, MovesOne
  DEF ParagraphMoves, TypeOK, ProcsType, DatabaseType, Procs, WorkersOnly, Lawful
<1>4. \A x \in Workers \ {w} : pc[x] \in ParagraphPcs => loc[x].cur # c
  BY <1>1, <1>2, Apart DEF ParagraphMoves
<1>5. /\ para[c] # "REVOKE" /\ (para[c] = "SUCCESS" => Found(c)) /\ Embeds(w)
      /\ pc[w] \in {"embed", "recheck", "insert"} => vec[c] = {}
  BY <1>2 DEF Searchable, Copies
<1>6. \A p \in Paras \ {c} : para'[p] = para[p] /\ vec'[p] = vec[p]
  BY <1>2, <1>3 DEF ParagraphStep, ParagraphStart, ReadText, DeleteVectors, Embed, Recheck,
    Insert, ParagraphDone, ParagraphError, ParagraphFailed, SetPara, db
<1>7. para[c] = "GONE" <=> para'[c] = "GONE"
  BY ParagraphView
<1>8. ASSUME para'[c] # "REVOKE",
             para'[c] = "SUCCESS" => vec'[c] # {} /\ \A v \in vec'[c] : v[2] = content[c],
             l \in ParagraphPcs \ {"pstart"} => para'[c] # "SUCCESS",
             l \in {"wipe", "embed", "recheck", "insert"} =>
                para'[c] = "GONE" \/ r.text = content[c],
             l = "pdone" =>
                para'[c] = "GONE" \/ (vec'[c] # {} /\ \A v \in vec'[c] : v[2] = content[c])
      PROVE  Searchable'
  <2>1. \A p \in Paras : para'[p] # "REVOKE"
    BY <1>6, <1>8 DEF Searchable
  <2>2. ASSUME NEW p \in Paras, para'[p] = "SUCCESS"
        PROVE  vec'[p] # {} /\ \A v \in vec'[p] : v[2] = content'[p]
    BY <1>3, <1>6, <1>8, <2>2 DEF Searchable, Found
  <2>3. Embeds(w)'
    <3>1. {"wipe", "embed", "recheck", "insert", "pdone"} \subseteq ParagraphPcs
      BY DEF ParagraphPcs
    <3> QED
      BY <1>3, <1>8, <3>1 DEF Embeds, Found
  <2>4. ASSUME NEW x \in Workers \ {w} PROVE Embeds(x)'
    <3>1. x \in Procs /\ (pc[x] \in ParagraphPcs => loc[x].cur \in Paras \ {c})
      BY <1>4 DEF TypeOK, ProcsType, AtType, Procs
    <3>2. pc[x] \in ParagraphPcs => Keeps(loc[x].cur)
      BY <1>3, <1>6, <3>1 DEF Keeps
    <3> QED
      BY <1>3, <3>1, <3>2, EmbedsStays DEF Searchable
  <2>5. ASSUME NEW u \in Users, pc'[u] = "d_vec"
        PROVE  para'[loc'[u].cur] = "GONE" /\ content'[loc'[u].cur] # 0
    <3>1. u \in Procs \ {w} /\ pc[u] = "d_vec" /\ loc'[u] = loc[u] /\ loc[u].cur \in Paras
      BY <1>3, <2>5 DEF TypeOK, ProcsType, AtType, Procs
    <3>2. para[loc[u].cur] = "GONE" /\ content[loc[u].cur] # 0
      BY <3>1 DEF Searchable
    <3>3. para'[loc[u].cur] = "GONE"
      BY <1>6, <1>7, <3>1, <3>2
    <3> QED
      BY <1>3, <3>1, <3>2, <3>3
  <2> QED
    BY <2>1, <2>2, <2>3, <2>4, <2>5 DEF Searchable, Found
<1>9. CASE ParagraphStart(w)
  <2>1. para'[c] \in {"STARTED", "GONE"} /\ l = "read"
    BY <1>2, <1>3, <1>9 DEF ParagraphStart, SetPara, Goto, TypeOK, ProcsType
  <2> QED
    BY <1>8, <2>1
<1>10. CASE ReadText(w)
  <2>1. /\ UNCHANGED <<para, vec>> /\ pc[w] = "read" /\ l = "wipe"
        /\ r.text = IF para[c] = "GONE" THEN 0 ELSE content[c]
    BY <1>2, <1>3, <1>10 DEF ReadText, Goto, TypeOK, ProcsType, Locals, db
  <2>2. para[c] # "SUCCESS"
    BY <1>2, <1>5, <2>1 DEF Embeds, ParagraphPcs
  <2> QED
    BY <1>5, <1>8, <2>1, <2>2
<1>11. CASE DeleteVectors(w)
  <2>1. UNCHANGED para /\ pc[w] = "wipe" /\ l = "embed" /\ r = loc[w]
    BY <1>3, <1>11 DEF DeleteVectors, Goto, TypeOK, ProcsType
  <2>2. para[c] # "SUCCESS" /\ (para[c] = "GONE" \/ r.text = content[c])
    BY <1>2, <1>5, <2>1 DEF Embeds, ParagraphPcs
  <2> QED
    BY <1>5, <1>8, <2>1, <2>2
<1>12. CASE Embed(w) \/ Recheck(w)
  <2>1. /\ UNCHANGED <<para, vec>> /\ pc[w] \in {"embed", "recheck"} /\ r = loc[w]
        /\ l \in {"recheck", "insert", "pfail", "pdone"}
        /\ l = "pdone" => loc[w].text = 0 \/ para[c] \in {"GONE", "REVOKE"}
    BY <1>2, <1>3, <1>12 DEF Embed, Recheck, ParaInterrupted, Goto, TypeOK, ProcsType, db
  <2>2. para[c] # "SUCCESS" /\ (para[c] = "GONE" \/ loc[w].text = content[c])
    BY <1>2, <1>5, <2>1 DEF Embeds, ParagraphPcs
  <2>3. l = "pdone" => para[c] = "GONE"
    BY <1>3, <1>5, <2>1, <2>2
  <2> QED
    BY <1>5, <1>8, <2>1, <2>2, <2>3
<1>13. CASE Insert(w)
  <2>1. /\ UNCHANGED para /\ pc[w] = "insert" /\ l = "pdone"
        /\ vec'[c] = vec[c] \cup {<<w, loc[w].text>>}
    BY <1>2, <1>3, <1>13 DEF Insert, Goto, TypeOK, ProcsType
  <2>2. vec'[c] = {<<w, loc[w].text>>}
    BY <1>5, <2>1
  <2>3. para[c] # "SUCCESS" /\ (para[c] = "GONE" \/ loc[w].text = content[c])
    BY <1>2, <1>5, <2>1 DEF Embeds, ParagraphPcs
  <2>4. para[c] = "GONE" \/ (vec'[c] # {} /\ \A v \in vec'[c] : v[2] = content[c])
    BY <2>2, <2>3
  <2> QED
    BY <1>5, <1>8, <2>1, <2>3, <2>4
<1>14. CASE ParagraphDone(w) \/ ParagraphFailed(w)
  <2>1. /\ UNCHANGED vec /\ pc[w] \in {"pdone", "pfail"} /\ l = "next"
        /\ para'[c] \in {"GONE", "FAILURE", "SUCCESS"}
        /\ para'[c] = "SUCCESS" => pc[w] = "pdone" /\ para[c] # "GONE"
    BY <1>2, <1>3, <1>14 DEF ParagraphDone, ParagraphFailed, ReturnFrom, SetPara, Goto, TypeOK,
      ProcsType
  <2>2. para'[c] = "SUCCESS" => Found(c)
    BY <1>2, <1>5, <2>1 DEF Embeds
  <2>3. "next" \notin ParagraphPcs
    BY DEF ParagraphPcs
  <2> QED
    BY <1>8, <2>1, <2>2, <2>3 DEF Found
<1>15. CASE ParagraphError(w)
  <2>1. /\ UNCHANGED <<para, vec>> /\ l = "pfail"
        /\ pc[w] \in {"read", "wipe", "embed", "recheck", "insert", "pdone"}
    BY <1>3, <1>15 DEF ParagraphError, Goto, TypeOK, ProcsType, db
  <2>2. para[c] # "SUCCESS"
    BY <1>2, <1>5, <2>1 DEF Embeds, ParagraphPcs
  <2> QED
    BY <1>5, <1>8, <2>1, <2>2
<1> QED
  BY <1>9, <1>10, <1>11, <1>12, <1>13, <1>14, <1>15 DEF ParagraphStep

LEMMA SearchableNext ==
    ASSUME NothingIsEdited, NothingIsCancelled, TypeOK, LockInv, WorkersOnly, Punctual,
           Copies, Searchable, [Next]_vars
    PROVE  Searchable'
<1>1. CASE Rest \/ UNCHANGED vars
  BY <1>1 DEF Rest, vars, Searchable, Embeds, Found
<1>2. ASSUME UNCHANGED <<para, content, vec>>, NEW w \in Workers, NEW l, NEW r, Moves(w, l, r),
             l \notin ParagraphPcs \ {"pstart"}
      PROVE  Searchable'
  <2>1. \A p \in Paras : Keeps(p)
    BY <1>2 DEF Keeps
  <2>2. w \in Procs /\ w \notin Users
    BY DEF Procs
  <2> QED
    BY <1>2, <2>1, <2>2, SearchableMove
<1>3. ASSUME NEW w \in Workers, TaskStep(w), ~ ParagraphStep(w) PROVE Searchable'
  <2>1. PICK l, r : TaskMoves(w, l, r)
    BY <1>3, TaskView
  <2>2. UNCHANGED para
    <3>1. ASSUME NEW d \in Docs, para' = SetParas(Matching(d, {"REVOKE"}), "REVOKED")
          PROVE  UNCHANGED para
      <4>1. Matching(d, {"REVOKE"}) = {} /\ para \in [Paras -> Row]
        BY DEF Matching, Searchable, TypeOK, DatabaseType
      <4> QED
        BY <3>1, <4>1 DEF SetParas
    <3> QED
      BY <1>3, <3>1, TaskView
  <2> QED
    BY <1>2, <1>3, <2>1, <2>2, TaskView DEF TaskMoves
<1>4. CASE Fault
  <2>1. CASE UNCHANGED <<pc, loc, para, content, vec>>
    BY <2>1 DEF Searchable, Embeds, Found
  <2>2. "idle" \notin ParagraphPcs
    BY DEF ParagraphPcs
  <2> QED
    BY <1>2, <1>4, <2>1, <2>2, FaultView
<1> QED
  BY <1>1, <1>3, <1>4, SearchableParagraph, SearchableRequest DEF Next

LEMMA SearchableInit == Init => Searchable
<1> SUFFICES ASSUME Init PROVE Searchable
  OBVIOUS
<1>1. \A q \in Procs : pc[q] = "idle"
  BY DEF Init
<1>2. "idle" \notin ParagraphPcs
  BY DEF ParagraphPcs
<1> QED
  BY <1>1, <1>2 DEF Init, Searchable, Embeds, Procs

\* Whatever is queued again, created, renamed, deleted, killed or restarted: a paragraph in
\* SUCCESS is found by its present text, as long as nothing is cancelled, no paragraph is
\* edited and no lock runs out.
THEOREM SuccessIsFound ==
    ASSUME NothingIsEdited, NoLockRunsOut, NothingIsCancelled
    PROVE  Spec => []SuccessIsSearchable
<1>1. Searchable => SuccessIsSearchable
  BY DEF Searchable, SuccessIsSearchable, Found
<1>2. Init => WorkersOnly /\ Punctual
  BY WorkersOnlyInit DEF Init, Punctual
<1>3. TypeOK /\ WorkersOnly /\ Punctual /\ [Next]_vars => WorkersOnly' /\ Punctual'
  BY WorkersOnlyNext, NobodyIsLate
<1>4. TypeOK /\ LockInv /\ WorkersOnly /\ Punctual /\ Copies /\ [Next]_vars => Copies'
  BY CopiesNext
<1>5. /\ TypeOK /\ LockInv /\ WorkersOnly /\ Punctual /\ Copies /\ Searchable /\ [Next]_vars
        => Searchable'
  BY SearchableNext
<1> QED
  BY <1>1, <1>2, <1>3, <1>4, <1>5, TypeCorrect, LockCorrect, CopiesInit,
     SearchableInit, PTL DEF Spec

-----------------------------------------------------------------------------
(* A document at rest is not busy.  Four things break that, and only       *)
(* these: a re-index while a task of the document is queued or running, an *)
(* edit of the document that writes back a status it has read before, a    *)
(* worker that is killed, and an exception in try_lock or in the finally   *)
(* clause.  Without them a busy document is carried by one request, one    *)
(* entry of the queue or one worker.                                       *)

OneAtATime == Env \cap {"refresh", "rename", "crash", "task_raises"} = {}

Busy == {"PENDING", "STARTED", "REVOKE"}

\* A refresh holds its document until it has queued the task, a worker from the time it has
\* taken the task; late is a worker that will not touch the status any more.
Refreshing == {"r_paras", "r_agg", "r_delay"}
Late == {"post_paras", "agg", "unlock", "release"}

Holds(q, d) == loc[q].doc = d /\ (pc[q] \in Refreshing \/ (q \in Workers /\ pc[q] # "idle"))

Queued(d) == \E i \in DOMAIN queue : queue[i].doc = d

\* One carrier at a time, and none before the first refresh; the key of celery_once is set
\* only while the task is queued or running.
Carriers ==
    /\ \A i, j \in DOMAIN queue : queue[i].doc = queue[j].doc => i = j
    /\ \A q \in Procs : \A d \in Docs : Holds(q, d) => ~ Queued(d)
    /\ \A p, q \in Procs : \A d \in Docs : Holds(p, d) /\ Holds(q, d) => p = q
    /\ \A d \in Docs : doc[d] = "IGNORED" => ~ Queued(d) /\ \A q \in Procs : ~ Holds(q, d)
    /\ \A d \in Docs : once[d] => Queued(d) \/ \E w \in Workers : Holds(w, d)

\* The Redis key of a document is left behind only when the document is deleted.
KeysHeld == \A d \in Docs : lock[d] # None /\ doc[d] # "GONE" => Inside[lock[d]] = d

\* What a worker is about to write is no busy status, and no request saves an old one.
Verdicts ==
    /\ \A w \in Workers :
        pc[w] = "post_doc" => loc[w].kept \in {"FAILURE", "REVOKED", "SUCCESS"}
    /\ \A u \in Users : pc[u] # "n_save"

Carrier(d) == Queued(d) \/ \E q \in Procs : Holds(q, d) /\ pc[q] \notin Late

BusyIsCarried == \A d \in Docs : doc[d] \in Busy => Carrier(d)

Carried == Carriers /\ KeysHeld /\ Verdicts /\ BusyIsCarried

LEMMA CarriedInit == Init => Carried
<1> SUFFICES ASSUME Init PROVE Carried
  OBVIOUS
<1>1. /\ \A q \in Procs : pc[q] = "idle"
      /\ queue = <<>>
      /\ \A d \in Docs : doc[d] = "IGNORED" /\ once[d] = FALSE /\ lock[d] = None
  BY DEF Init
<1>2. \A q \in Procs : \A d : ~ Holds(q, d)
  BY <1>1 DEF Holds, Refreshing
<1>3. DOMAIN queue = {}
  BY <1>1
<1>4. Carriers
  BY <1>1, <1>2, <1>3 DEF Carriers, Queued
<1>5. KeysHeld /\ BusyIsCarried
  BY <1>1 DEF KeysHeld, BusyIsCarried, Busy
<1>6. Verdicts
  BY <1>1 DEF Verdicts, Procs
<1> QED
  BY <1>4, <1>5, <1>6 DEF Carried

\* A deleted document stays deleted, and no statement makes a document IGNORED again.
DocMoves ==
    \A d \in Docs :
        /\ doc[d] = "GONE" => doc'[d] = "GONE"
        /\ doc'[d] = "IGNORED" => doc[d] = "IGNORED"

LEMMA SetDocMoves ==
    ASSUME TypeOK, NEW d \in Docs, NEW s \in State \ {"IGNORED"}, doc' = SetDoc(d, s)
    PROVE  DocMoves
<1>1. doc \in [Docs -> Row]
  BY DEF TypeOK, DatabaseType
<1> QED
  BY <1>1 DEF SetDoc, DocMoves, State

LEMMA TaskDoc ==
    ASSUME TypeOK, Verdicts, NEW w \in Workers, TaskStep(w)
    PROVE  /\ DocMoves
           /\ \A d \in Docs : doc'[d] \in Busy /\ doc[d] \notin Busy =>
                pc[w] = "start" /\ Holds(w, d)
<1>1. w \in Procs /\ loc[w] \in Locals /\ {"STARTED", "FAILURE", "REVOKED", "SUCCESS"} \subseteq State
  BY DEF Procs, TypeOK, ProcsType, State
<1>2. pc[w] \in {"start", "post_doc"} => loc[w].doc \in Docs
  BY <1>1 DEF TypeOK, ProcsType, AtType, WorkerPcs, SectionPcs, ParagraphPcs
<1>3. doc \in [Docs -> Row]
  BY DEF TypeOK, DatabaseType
<1>4. ASSUME NEW x \in Docs, NEW s \in {"FAILURE", "REVOKED", "SUCCESS"}, doc' = SetDoc(x, s)
      PROVE  DocMoves /\ \A d \in Docs : doc'[d] \in Busy => doc[d] \in Busy
  <2>1. DocMoves
    BY <1>1, <1>4, SetDocMoves
  <2>2. s \notin Busy /\ "GONE" \notin Busy
    BY DEF Busy
  <2> QED
    BY <1>3, <1>4, <2>1, <2>2 DEF SetDoc
<1>5. CASE Take(w) /\ ~ UNCHANGED doc
  <2>1. Head(queue) \in Tasks
    BY <1>5, HeadTask DEF Take, TypeOK
  <2>2. Head(queue).doc \in Docs /\ doc' = SetDoc(Head(queue).doc, "FAILURE")
    BY <1>5, <2>1 DEF Take, Tasks
  <2> QED
    BY <1>4, <2>2
<1>6. CASE Start(w)
  <2>1. doc' = SetDoc(loc[w].doc, "STARTED") /\ pc[w] = "start"
    BY <1>6 DEF Start
  <2>2. DocMoves
    BY <1>1, <1>2, <2>1, SetDocMoves
  <2>3. Holds(w, loc[w].doc)
    BY <2>1 DEF Holds
  <2> QED
    BY <1>2, <1>3, <2>1, <2>2, <2>3 DEF SetDoc, Busy
<1>7. CASE PostDoc(w)
  <2>1. doc' = SetDoc(loc[w].doc, loc[w].kept) /\ pc[w] = "post_doc"
    BY <1>7 DEF PostDoc
  <2> QED
    BY <1>2, <1>4, <2>1 DEF Verdicts
<1>8. CASE UNCHANGED doc
  BY <1>8 DEF DocMoves
<1> QED
  BY <1>5, <1>6, <1>7, <1>8 DEF TaskStep, TryLock, Check, Count, NextPage, NextParagraph,
    PostRead, PostParas, PostAggregate, TaskError, TaskRaises, UnLock, Release, ParagraphStep,
    ParagraphStart, ReadText, DeleteVectors, Embed, Recheck, Insert, ParagraphDone,
    ParagraphError, ParagraphFailed, db

LEMMA RequestDoc ==
    ASSUME OneAtATime, TypeOK, Verdicts, NEW u \in Users, RequestStart(u) \/ RequestStep(u)
    PROVE  /\ DocMoves
           /\ \A d \in Docs : doc'[d] \in Busy /\ doc[d] \notin Busy =>
                \E x \in Docs, S \in StateLists : RefreshStart(u, x, S) /\ d = x
<1>1. doc \in [Docs -> Row] /\ DocOf \in [Paras -> Docs]
  BY Constants DEF TypeOK, DatabaseType
<1>2. /\ {"PENDING", "REVOKE", "SUCCESS"} \subseteq State \ {"IGNORED"}
      /\ "SUCCESS" \notin Busy /\ "GONE" \notin Busy
      /\ "PENDING" \in Busy /\ "STARTED" \in Busy /\ "REVOKE" \in Busy
  BY DEF State, Busy
<1>3. ASSUME NEW d \in Docs, NEW S \in StateLists, RefreshStart(u, d, S)
      PROVE  /\ DocMoves
             /\ \A x \in Docs : doc'[x] \in Busy /\ doc[x] \notin Busy => x = d
  <2>1. doc' = SetDoc(d, "PENDING")
    BY <1>3 DEF RefreshStart
  <2>2. DocMoves
    BY <1>2, <2>1, SetDocMoves
  <2> QED
    BY <1>1, <2>1, <2>2 DEF SetDoc
<1>4. CASE CancelDocument(u)
  <2> DEFINE d == loc[u].doc
  <2>1. CASE doc[d] \in {"PENDING", "STARTED"} /\ d \in Docs
    <3>1. doc' = SetDoc(d, "REVOKE")
      BY <1>4, <2>1 DEF CancelDocument
    <3>2. DocMoves
      BY <1>2, <2>1, <3>1, SetDocMoves
    <3> QED
      BY <1>1, <1>2, <2>1, <3>1, <3>2 DEF SetDoc
  <2>2. CASE doc[d] \notin {"PENDING", "STARTED"}
    <3>1. doc' = doc
      BY <1>4, <2>2 DEF CancelDocument
    <3> QED
      BY <3>1 DEF DocMoves
  <2>3. d \in Docs
    BY <1>4 DEF CancelDocument, TypeOK, ProcsType, AtType, Procs
  <2> QED
    BY <2>1, <2>2, <2>3
<1>5. ASSUME NEW p \in Paras, CreateParagraph(u, p)
      PROVE  DocMoves /\ \A x \in Docs : doc'[x] \in Busy => doc[x] \in Busy
  <2>1. doc' = SetDoc(DocOf[p], "SUCCESS") /\ DocOf[p] \in Docs
    BY <1>1, <1>5 DEF CreateParagraph
  <2>2. DocMoves
    BY <1>2, <2>1, SetDocMoves
  <2> QED
    BY <1>1, <1>2, <2>1, <2>2 DEF SetDoc
<1>6. ASSUME NEW d \in Docs, DeleteDocument(u, d)
      PROVE  DocMoves /\ \A x \in Docs : doc'[x] \in Busy => doc[x] \in Busy
  BY <1>1, <1>2, <1>6 DEF DeleteDocument, DocMoves
<1>7. ~ EditDocumentSave(u)
  BY DEF EditDocumentSave, Verdicts
<1>8. CASE UNCHANGED doc
  BY <1>8 DEF DocMoves
<1> QED
  BY <1>3, <1>4, <1>5, <1>6, <1>7, <1>8
  DEF RequestStart, RequestStep, RefreshParagraphs, RefreshAggregate, RefreshDelay,
    CancelParagraphs, EditDocumentRead, EditParagraphRead, EditParagraphSave,
    DeleteParagraphRow, DeleteParagraphVectors, ParagraphStep, ParagraphStart, ReadText,
    DeleteVectors, Embed, Recheck, Insert, ParagraphDone, ParagraphError, ParagraphFailed, db

LEMMA FaultDoc ==
    ASSUME TypeOK, Fault
    PROVE  DocMoves /\ \A d \in Docs : doc'[d] \in Busy => doc[d] \in Busy
BY DEF TypeOK, DatabaseType, Fault, Crash, LockExpires, OnceExpires, EventInit, DocMoves, Busy,
  db

LEMMA QueueType ==
    ASSUME TypeOK
    PROVE  \A i \in DOMAIN queue : queue[i].doc \in Docs
<1>1. \A i \in DOMAIN queue : queue[i] \in Tasks
  BY DEF TypeOK, KeysType
<1> QED
  BY <1>1 DEF Tasks

\* A step that changes neither the holders nor the queue keeps the carriers.
SameHolders ==
    \A q \in Procs : \A d \in Docs :
        Holds(q, d)' <=> Holds(q, d)

LEMMA QuietCarriers ==
    ASSUME TypeOK, TypeOK', Carriers, DocMoves, SameHolders, UNCHANGED queue,
           \A d \in Docs : once'[d] => once[d]
    PROVE  Carriers'
<1>1. \A d : Queued(d)' <=> Queued(d)
  BY DEF Queued
<1>3. Workers \subseteq Procs
  BY DEF Procs
<1>4. \A i, j \in DOMAIN queue' : queue'[i].doc = queue'[j].doc => i = j
  BY DEF Carriers
<1>5. \A q \in Procs : \A d \in Docs : Holds(q, d)' => ~ Queued(d)'
  BY <1>1 DEF Carriers, SameHolders
<1>6. \A p, q \in Procs : \A d \in Docs : Holds(p, d)' /\ Holds(q, d)' => p = q
  BY DEF Carriers, SameHolders
<1>7. \A d \in Docs : doc'[d] = "IGNORED" => ~ Queued(d)' /\ \A q \in Procs : ~ Holds(q, d)'
  BY <1>1 DEF Carriers, SameHolders, DocMoves
<1>8. \A d \in Docs : once'[d] => Queued(d)' \/ \E w \in Workers : Holds(w, d)'
  BY <1>1, <1>3 DEF Carriers, SameHolders
<1> QED
  BY <1>4, <1>5, <1>6, <1>7, <1>8 DEF Carriers

\* A task holds its document from the step after Take until Release.
LEMMA TaskHolds ==
    ASSUME TypeOK, NEW w \in Workers, TaskStep(w), ~ Take(w), ~ Release(w)
    PROVE  SameHolders /\ UNCHANGED <<queue, once>>
<1>1. w \in Procs
  BY DEF Procs
<1>2. UNCHANGED <<queue, once>>
  BY DEF TaskStep, TryLock, Check, Start, Count, NextPage, NextParagraph, PostRead, PostDoc,
    PostParas, PostAggregate, TaskError, TaskRaises, UnLock, ParagraphStep, ParagraphStart,
    ReadText, DeleteVectors, Embed, Recheck, Insert, ParagraphDone, ParagraphError,
    ParagraphFailed, keys
<1>3. \E l, r : Moves(w, l, r) /\ r.doc = loc[w].doc /\ pc[w] # "idle" /\ l # "idle"
  <2>1. CASE ParagraphStep(w)
    <3>1. PICK l, r : ParagraphMoves(w, l, r)
      BY <2>1, ParagraphView
    <3>2. "idle" \notin ParagraphPcs
      BY DEF ParagraphPcs
    <3> QED
      BY <3>1, <3>2 DEF ParagraphMoves
  <2>2. CASE ~ ParagraphStep(w)
    <3>1. PICK l, r : TaskMoves(w, l, r)
      BY <2>2, TaskView
    <3> QED
      BY <3>1 DEF TaskMoves
  <2> QED
    BY <2>1, <2>2
<1>4. PICK l, r : Moves(w, l, r) /\ r.doc = loc[w].doc /\ pc[w] # "idle" /\ l # "idle"
  BY <1>3
<1>5. /\ pc'[w] = l /\ loc'[w] = r
      /\ \A x \in Procs \ {w} : pc'[x] = pc[x] /\ loc'[x] = loc[x]
  BY <1>1, <1>4, MovesOne
<1>6. ASSUME NEW q \in Procs, NEW d \in Docs PROVE Holds(q, d)' <=> Holds(q, d)
  BY <1>4, <1>5 DEF Holds
<1> QED
  BY <1>2, <1>6 DEF SameHolders

\* What the other requests do, and the steps of a refresh in between, moves no document.
LEMMA RequestHolds ==
    ASSUME OneAtATime, TypeOK, Verdicts, NEW u \in Users, RequestStart(u) \/ RequestStep(u),
           ~ RefreshDelay(u), \A d \in Docs : \A S \in StateLists : ~ RefreshStart(u, d, S)
    PROVE  /\ SameHolders /\ UNCHANGED <<queue, once>>
           /\ \A x \in Users : pc'[x] # "n_save"
           /\ \A x \in Procs \ {u} : pc'[x] = pc[x] /\ loc'[x] = loc[x]
           /\ pc'[u] \in Refreshing => pc[u] \in Refreshing /\ loc'[u] = loc[u]
<1>1. u \in Procs /\ u \notin Workers /\ Users \subseteq Procs
  BY DEF Procs
<1>2. ~ EditDocumentSave(u) /\ \A d \in Docs : ~ EditDocumentRead(u, d)
  BY DEF EditDocumentSave, Verdicts, EditDocumentRead, Begin, Admit, OneAtATime
<1>3. UNCHANGED <<queue, once>>
  BY <1>2 DEF RequestStart, RequestStep, RefreshParagraphs, RefreshAggregate, CancelParagraphs,
    CancelDocument, EditParagraphRead, EditParagraphSave, CreateParagraph, DeleteParagraphRow,
    DeleteParagraphVectors, DeleteDocument, ParagraphStep, ParagraphStart, ReadText,
    DeleteVectors, Embed, Recheck, Insert, ParagraphDone, ParagraphError, ParagraphFailed, keys
<1>4. \A x \in Procs \ {u} : pc'[x] = pc[x] /\ loc'[x] = loc[x]
  BY <1>1, <1>2 DEF TypeOK, ProcsType, RequestStart, RequestStep, RefreshParagraphs,
    RefreshAggregate, CancelParagraphs, CancelDocument, EditParagraphRead, EditParagraphSave,
    CreateParagraph, DeleteParagraphRow, DeleteParagraphVectors, DeleteDocument,
    ParagraphStep, ParagraphStart, ReadText, DeleteVectors, Embed, Recheck, Insert,
    ParagraphDone, ParagraphError, ParagraphFailed, ReturnFrom, Goto, End
<1>5. \/ /\ pc[u] \in Refreshing /\ pc'[u] \in Refreshing /\ loc'[u] = loc[u]
      \/ /\ pc[u] \notin Refreshing
         /\ pc'[u] \in ParagraphPcs \cup {"idle", "c_doc", "e_save", "d_vec"}
  <2>1. CASE RefreshParagraphs(u) \/ RefreshAggregate(u)
    BY <1>1, <2>1 DEF RefreshParagraphs, RefreshAggregate, Refreshing, Goto, TypeOK, ProcsType
  <2>2. CASE ParagraphStep(u)
    BY <1>1, <2>2 DEF ParagraphStep, ParagraphStart, ReadText, DeleteVectors, Embed, Recheck,
      Insert, ParagraphDone, ParagraphError, ParagraphFailed, ReturnFrom, Goto, End, Refreshing,
      ParagraphPcs, TypeOK, ProcsType
  <2>3. CASE \/ CancelDocument(u) \/ EditParagraphSave(u) \/ DeleteParagraphVectors(u)
             \/ RequestStart(u)
    BY <1>1, <1>2, <2>3 DEF RequestStart, CancelParagraphs, CancelDocument, EditParagraphRead,
      EditParagraphSave, CreateParagraph, DeleteParagraphRow, DeleteParagraphVectors,
      DeleteDocument, Begin, Goto, End, Refreshing, ParagraphPcs, TypeOK, ProcsType
  <2> QED
    BY <1>2, <2>1, <2>2, <2>3 DEF RequestStep
<1>6. /\ pc'[u] \in Refreshing <=> pc[u] \in Refreshing
      /\ pc'[u] \in Refreshing => loc'[u] = loc[u]
      /\ pc'[u] # "n_save"
  BY <1>5 DEF Refreshing, ParagraphPcs
<1>7. ASSUME NEW q \in Procs, NEW d \in Docs PROVE Holds(q, d)' <=> Holds(q, d)
  <2>1. CASE q = u
    BY <1>1, <1>6, <2>1 DEF Holds
  <2>2. CASE q # u
    BY <1>4, <2>2 DEF Holds
  <2> QED
    BY <2>1, <2>2
<1> QED
  BY <1>1, <1>3, <1>4, <1>6, <1>7 DEF SameHolders, Verdicts

\* A worker takes over from the queue.
LEMMA TakeCarriers ==
    ASSUME TypeOK, Carriers, DocMoves, NEW w \in Workers, Take(w)
    PROVE  /\ Carriers'
           /\ \A d \in Docs : Queued(d) => Queued(d)' \/ (Holds(w, d)' /\ d = Head(queue).doc)
           /\ \A q \in Procs, d \in Docs : Holds(q, d) => Holds(q, d)' /\ q # w
<1>0. PICK h : h = Head(queue).doc
  OBVIOUS
<1> DEFINE n == Len(queue)
<1>1. /\ n \in Nat \ {0} /\ DOMAIN queue = 1 .. n /\ h = queue[1].doc
      /\ DOMAIN queue' = 1 .. n - 1 /\ \A i \in 1 .. n - 1 : queue'[i] = queue[i + 1]
  <2>1. queue \in Seq(Tasks) /\ queue # <<>> /\ queue' = Tail(queue)
    BY DEF Take, TypeOK, KeysType
  <2> QED
    BY <1>0, <2>1
<1> HIDE DEF n
<1>2. w \in Procs /\ pc[w] = "idle" /\ Workers \subseteq Procs /\ UNCHANGED once
  BY DEF Procs, Take
<1>3. PICK l \in {"lock", "release"} : Goto(w, l)
  BY DEF Take
<1>4. pc'[w] = l /\ loc'[w].doc = h /\ \A x \in Procs \ {w} : pc'[x] = pc[x] /\ loc'[x] = loc[x]
  BY <1>0, <1>2, <1>3 DEF Take, Goto, TypeOK, ProcsType, Blank
<1>5. /\ \A d : ~ Holds(w, d)
      /\ \A d : Holds(w, d)' <=> d = h
      /\ \A q \in Procs \ {w} : \A d : Holds(q, d)' <=> Holds(q, d)
  <2>1. "idle" \notin Refreshing /\ l # "idle"
    BY <1>3 DEF Refreshing
  <2> QED
    BY <1>2, <1>4, <2>1 DEF Holds
<1>6. \A d : Queued(d)' => Queued(d)
  BY <1>1 DEF Queued
<1>7. \A d : Queued(d) => Queued(d)' \/ d = h
  <2>1. ASSUME NEW d, NEW i \in 1 .. n, queue[i].doc = d PROVE Queued(d)' \/ d = h
    <3>1. CASE i = 1
      BY <1>1, <2>1, <3>1
    <3>2. CASE i # 1
      <4>1. i - 1 \in 1 .. n - 1 /\ queue'[i - 1] = queue[i]
        BY <1>1, <3>2
      <4> QED
        BY <1>1, <2>1, <4>1 DEF Queued
    <3> QED
      BY <3>1, <3>2
  <2> QED
    BY <1>1, <2>1 DEF Queued
<1>8. h \in Docs /\ Queued(h) /\ \A q \in Procs : ~ Holds(q, h)
  BY <1>1, QueueType DEF Queued, Carriers
<1>9. \A i, j \in DOMAIN queue' : queue'[i].doc = queue'[j].doc => i = j
  <2>1. ASSUME NEW i \in 1 .. n - 1, NEW j \in 1 .. n - 1, queue'[i].doc = queue'[j].doc
        PROVE  i = j
    <3>1. i + 1 \in DOMAIN queue /\ j + 1 \in DOMAIN queue
      BY <1>1
    <3>2. queue[i + 1].doc = queue[j + 1].doc
      BY <1>1, <2>1
    <3>3. i + 1 = j + 1
      BY <3>1, <3>2 DEF Carriers
    <3> QED
      BY <3>3
  <2> QED
    BY <1>1, <2>1
<1>10. \A q \in Procs : \A d \in Docs : Holds(q, d)' => ~ Queued(d)'
  <2>1. ~ Queued(h)'
    <3>1. ASSUME NEW i \in 1 .. n - 1 PROVE queue'[i].doc # h
      <4>1. i + 1 \in DOMAIN queue /\ 1 \in DOMAIN queue /\ i + 1 # 1
        BY <1>1
      <4>2. queue[i + 1].doc # queue[1].doc
        BY <4>1 DEF Carriers
      <4> QED
        BY <1>1, <4>2
    <3> QED
      BY <1>1, <3>1 DEF Queued
  <2> QED
    BY <1>5, <1>6, <2>1 DEF Carriers
<1>11. \A p, q \in Procs : \A d \in Docs : Holds(p, d)' /\ Holds(q, d)' => p = q
  BY <1>5, <1>8 DEF Carriers
<1>12. \A d \in Docs : doc'[d] = "IGNORED" => ~ Queued(d)' /\ \A q \in Procs : ~ Holds(q, d)'
  BY <1>5, <1>6, <1>8 DEF Carriers, DocMoves
<1>13. \A d \in Docs : once'[d] => Queued(d)' \/ \E x \in Workers : Holds(x, d)'
  BY <1>2, <1>5, <1>7 DEF Carriers
<1>14. Carriers'
  BY <1>9, <1>10, <1>11, <1>12, <1>13 DEF Carriers
<1>15. \A d \in Docs : Queued(d) => Queued(d)' \/ (Holds(w, d)' /\ d = h)
  BY <1>5, <1>7
<1>16. \A q \in Procs, d \in Docs : Holds(q, d) => Holds(q, d)' /\ q # w
  BY <1>5
<1> QED
  BY <1>0, <1>14, <1>15, <1>16

\* celery_once forgets the task that a worker has ended.
LEMMA ReleaseCarriers ==
    ASSUME TypeOK, Carriers, DocMoves, NEW w \in Workers, Release(w)
    PROVE  /\ Carriers' /\ UNCHANGED queue
           /\ \A q \in Procs : \A d \in Docs : Holds(q, d) => q = w \/ Holds(q, d)'
<1>1. w \in Procs /\ Workers \subseteq Procs /\ pc[w] = "release"
  BY DEF Procs, Release
<1>2. loc[w].doc \in Docs
  BY <1>1 DEF TypeOK, ProcsType, AtType, WorkerPcs, SectionPcs, ParagraphPcs
<1>3. PICK h \in Docs : h = loc[w].doc
  BY <1>2
<1>4. /\ UNCHANGED queue /\ once' = [once EXCEPT ![h] = FALSE] /\ once \in [Docs -> BOOLEAN]
      /\ pc'[w] = "idle" /\ \A x \in Procs \ {w} : pc'[x] = pc[x] /\ loc'[x] = loc[x]
  BY <1>1, <1>3 DEF Release, End, TypeOK, KeysType, ProcsType
<1>5. /\ \A d : Holds(w, d) <=> d = h
      /\ \A d : ~ Holds(w, d)'
      /\ \A q \in Procs \ {w} : \A d : Holds(q, d)' <=> Holds(q, d)
  BY <1>1, <1>3, <1>4 DEF Holds, Refreshing
<1>6. \A d : Queued(d)' <=> Queued(d)
  BY <1>4 DEF Queued
<1>7. \A i, j \in DOMAIN queue' : queue'[i].doc = queue'[j].doc => i = j
  BY <1>4 DEF Carriers
<1>8. /\ \A q \in Procs : \A d \in Docs : Holds(q, d)' => ~ Queued(d)'
      /\ \A p, q \in Procs : \A d \in Docs : Holds(p, d)' /\ Holds(q, d)' => p = q
      /\ \A d \in Docs : doc'[d] = "IGNORED" => ~ Queued(d)' /\ \A q \in Procs : ~ Holds(q, d)'
  BY <1>1, <1>5, <1>6 DEF Carriers, DocMoves
<1>9. \A d \in Docs : once'[d] => Queued(d)' \/ \E x \in Workers : Holds(x, d)'
  BY <1>1, <1>4, <1>5, <1>6 DEF Carriers
<1> QED
  BY <1>4, <1>5, <1>7, <1>8, <1>9 DEF Carriers

\* A refresh of a document at rest begins.
LEMMA RefreshStartCarriers ==
    ASSUME OneAtATime, TypeOK, Carriers, DocMoves, NEW u \in Users, NEW h \in Docs,
           NEW S \in StateLists, RefreshStart(u, h, S)
    PROVE  /\ Carriers' /\ UNCHANGED queue
           /\ Holds(u, h)' /\ pc'[u] = "r_paras"
           /\ \A q \in Procs : \A d \in Docs : Holds(q, d) => q # u /\ Holds(q, d)'
<1>1. u \in Procs /\ u \notin Workers /\ Workers \subseteq Procs
  BY DEF Procs
<1>2. /\ UNCHANGED <<queue, once>> /\ pc[u] = "idle" /\ pc'[u] = "r_paras"
      /\ \A x \in Procs \ {u} : pc'[x] = pc[x] /\ loc'[x] = loc[x]
  BY <1>1 DEF RefreshStart, Begin, Goto, keys, TypeOK, ProcsType
<1>3. loc'[u].doc = h
  BY <1>1 DEF RefreshStart, TypeOK, ProcsType, Locals
<1>4. /\ \A d : ~ Holds(u, d)
      /\ \A d : Holds(u, d)' <=> d = h
      /\ \A q \in Procs \ {u} : \A d : Holds(q, d)' <=> Holds(q, d)
  BY <1>1, <1>2, <1>3 DEF Holds, Refreshing
<1>5. \A d : Queued(d)' <=> Queued(d)
  BY <1>2 DEF Queued
<1>6. ~ Queued(h) /\ \A q \in Procs : ~ Holds(q, h)
  <2>1. CASE doc[h] = "IGNORED"
    BY <2>1 DEF Carriers
  <2>2. CASE doc[h] # "IGNORED"
    <3>1. ~ Attended(h)
      BY <2>2 DEF RefreshStart, Begin, Admit, RefreshKind, OneAtATime
    <3> QED
      BY <3>1 DEF Attended, Queued, Holds, Refreshing
  <2> QED
    BY <2>1, <2>2
<1>7. doc'[h] # "IGNORED"
  BY DEF RefreshStart, SetDoc, TypeOK, DatabaseType
<1>8. \A i, j \in DOMAIN queue' : queue'[i].doc = queue'[j].doc => i = j
  BY <1>2 DEF Carriers
<1>9. /\ \A q \in Procs : \A d \in Docs : Holds(q, d)' => ~ Queued(d)'
      /\ \A p, q \in Procs : \A d \in Docs : Holds(p, d)' /\ Holds(q, d)' => p = q
      /\ \A d \in Docs : doc'[d] = "IGNORED" => ~ Queued(d)' /\ \A q \in Procs : ~ Holds(q, d)'
  BY <1>1, <1>4, <1>5, <1>6, <1>7 DEF Carriers, DocMoves
<1>10. \A d \in Docs : once'[d] => Queued(d)' \/ \E x \in Workers : Holds(x, d)'
  BY <1>1, <1>2, <1>4, <1>5 DEF Carriers
<1>11. \A q \in Procs : \A d \in Docs : Holds(q, d) => q # u /\ Holds(q, d)'
  BY <1>4
<1> QED
  BY <1>2, <1>4, <1>8, <1>9, <1>10, <1>11 DEF Carriers

\* The key of celery_once is free when a refresh comes to delay: it would be set for a task
\* that is queued or running, and the refresh has found none.
LEMMA RefreshDelayCarriers ==
    ASSUME TypeOK, Carriers, DocMoves, NEW u \in Users, RefreshDelay(u)
    PROVE  /\ Carriers'
           /\ \A d \in Docs : Queued(d) \/ Holds(u, d) => Queued(d)'
           /\ \A q \in Procs : \A d \in Docs : Holds(q, d) => q = u \/ Holds(q, d)'
<1>1. u \in Procs /\ u \notin Workers /\ Workers \subseteq Procs /\ pc[u] = "r_delay"
  BY DEF Procs, RefreshDelay
<1>2. loc[u].doc \in Docs
  BY <1>1 DEF TypeOK, ProcsType, AtType
<1>3. PICK h \in Docs : h = loc[u].doc
  BY <1>2
<1>4. /\ pc'[u] = "idle" /\ \A x \in Procs \ {u} : pc'[x] = pc[x] /\ loc'[x] = loc[x]
  BY <1>1 DEF RefreshDelay, End, TypeOK, ProcsType
<1>5. /\ \A d : Holds(u, d) <=> d = h
      /\ \A d : ~ Holds(u, d)'
      /\ \A q \in Procs \ {u} : \A d : Holds(q, d)' <=> Holds(q, d)
  BY <1>1, <1>3, <1>4 DEF Holds, Refreshing
<1>6. ~ once[h] /\ ~ Queued(h)
  BY <1>1, <1>5 DEF Carriers
<1>7. PICK t \in Tasks : queue' = Append(queue, t) /\ t.doc = h
  <2> DEFINE t == [doc |-> h, states |-> loc[u].states]
  <2>1. loc[u].states \in SUBSET State
    BY <1>1 DEF TypeOK, ProcsType, Locals
  <2>2. t \in Tasks /\ t.doc = h
    BY <2>1 DEF Tasks
  <2>3. queue' = Append(queue, t)
    BY <1>3, <1>6 DEF RefreshDelay
  <2> QED
    BY <2>2, <2>3
<1>8. once' = [once EXCEPT ![h] = TRUE] /\ once \in [Docs -> BOOLEAN]
  BY <1>3, <1>6 DEF RefreshDelay, TypeOK, KeysType
<1> DEFINE n == Len(queue)
<1>9. /\ n \in Nat /\ DOMAIN queue = 1 .. n /\ DOMAIN queue' = 1 .. n + 1
      /\ \A i \in 1 .. n : queue'[i] = queue[i]
      /\ queue'[n + 1].doc = h
  <2>1. queue \in Seq(Tasks)
    BY DEF TypeOK, KeysType
  <2> QED
    BY <1>7, <2>1
<1> HIDE DEF n
<1>10. \A d : Queued(d)' <=> Queued(d) \/ d = h
  <2>1. \A i \in 1 .. n + 1 : i \in 1 .. n \/ i = n + 1
    BY <1>9
  <2>2. 1 .. n \subseteq 1 .. n + 1 /\ n + 1 \in 1 .. n + 1
    BY <1>9
  <2>3. ASSUME NEW d PROVE Queued(d)' <=> Queued(d) \/ d = h
    BY <1>9, <2>1, <2>2 DEF Queued
  <2> QED
    BY <2>3
<1>11. \A i, j \in DOMAIN queue' : queue'[i].doc = queue'[j].doc => i = j
  <2>1. \A i \in 1 .. n : queue[i].doc # h
    BY <1>6, <1>9 DEF Queued
  <2>2. ASSUME NEW i \in 1 .. n + 1, NEW j \in 1 .. n + 1, queue'[i].doc = queue'[j].doc
        PROVE  i = j
    <3>1. CASE i \in 1 .. n /\ j \in 1 .. n
      BY <1>9, <2>2, <3>1 DEF Carriers
    <3>2. CASE i = n + 1 \/ j = n + 1
      BY <1>9, <2>1, <2>2, <3>2
    <3> QED
      BY <1>9, <3>1, <3>2
  <2> QED
    BY <1>9, <2>2
<1>12. /\ \A q \in Procs : \A d \in Docs : Holds(q, d)' => ~ Queued(d)'
       /\ \A p, q \in Procs : \A d \in Docs : Holds(p, d)' /\ Holds(q, d)' => p = q
       /\ \A d \in Docs : doc'[d] = "IGNORED" => ~ Queued(d)' /\ \A q \in Procs : ~ Holds(q, d)'
  BY <1>1, <1>5, <1>10 DEF Carriers, DocMoves
<1>13. \A d \in Docs : once'[d] => Queued(d)' \/ \E x \in Workers : Holds(x, d)'
  BY <1>1, <1>5, <1>8, <1>10 DEF Carriers
<1>14. /\ \A d \in Docs : Queued(d) \/ Holds(u, d) => Queued(d)'
       /\ \A q \in Procs : \A d \in Docs : Holds(q, d) => q = u \/ Holds(q, d)'
  BY <1>5, <1>10
<1> QED
  BY <1>11, <1>12, <1>13, <1>14 DEF Carriers

\* A step of a task leaves the other processes where they are.
LEMMA TaskAlone ==
    ASSUME TypeOK, NEW w \in Workers, TaskStep(w)
    PROVE  \A x \in Procs \ {w} : pc'[x] = pc[x] /\ loc'[x] = loc[x]
<1>1. w \in Procs
  BY DEF Procs
<1>2. \E l, r : Moves(w, l, r)
  BY TaskView, ParagraphView DEF TaskMoves, ParagraphMoves
<1> QED
  BY <1>1, <1>2, MovesOne

\* A task leaves the section at un_lock, or because its document is gone.
LEMMA TaskLeaves ==
    ASSUME TypeOK, NEW w \in Workers, TaskStep(w), pc[w] \in SectionPcs, pc'[w] \notin SectionPcs
    PROVE  UnLock(w) \/ TaskRaises(w) \/ doc[loc[w].doc] = "GONE"
<1>1. w \in Procs /\ pc \in [Procs -> WorkerPcs \cup UserPcs]
  BY DEF Procs, TypeOK, ProcsType
<1>2. CASE Take(w) \/ TryLock(w) \/ Release(w)
  BY <1>2 DEF Take, TryLock, Release, SectionPcs, ParagraphPcs
<1>3. CASE ParagraphStep(w)
  <2>1. pc'[w] \in ParagraphPcs \cup {"next"}
    BY <1>1, <1>3 DEF ParagraphStep, ParagraphStart, ReadText, DeleteVectors, Embed, Recheck,
      Insert, ParagraphDone, ParagraphError, ParagraphFailed, ReturnFrom, Goto, ParagraphPcs
  <2> QED
    BY <2>1 DEF SectionPcs
<1>4. CASE \/ Check(w) \/ Start(w) \/ Count(w) \/ NextPage(w) \/ NextParagraph(w) \/ PostDoc(w)
           \/ PostParas(w) \/ PostAggregate(w)
  BY <1>1, <1>4 DEF Check, Start, Count, NextPage, NextParagraph, PostDoc, PostParas,
    PostAggregate, Goto, SectionPcs, ParagraphPcs
<1>5. CASE PostRead(w) \/ TaskError(w)
  BY <1>1, <1>5 DEF PostRead, TaskError, Goto, SectionPcs
<1> QED
  BY <1>2, <1>3, <1>4, <1>5 DEF TaskStep

\* Neither try_lock nor the finally clause raises in this part.
LEMMA NobodyRaises ==
    ASSUME OneAtATime, NEW w
    PROVE  ~ TaskRaises(w)
BY DEF OneAtATime, TaskRaises, Admit

LEMMA KeysHeldNext ==
    ASSUME OneAtATime, TypeOK, LockInv, KeysHeld, DocMoves, [Next]_vars
    PROVE  KeysHeld'
<1>1. /\ Inside \in [Workers -> Docs \cup {None}]
      /\ lock \in [Docs -> Workers \cup {None}]
      /\ None \notin Workers /\ None \notin Docs
  BY InsideType, Constants DEF TypeOK, KeysType
<1>2. TypeOK' /\ [L!LeaseNext]_(L!leaseVars)
  BY TypeNext, LeaseStep
<1>3. ASSUME NEW w \in Workers, NEW d \in Docs, L!Acquire(w, d) PROVE KeysHeld'
  BY <1>1, <1>3 DEF L!Acquire, KeysHeld, DocMoves
<1>4. ASSUME NEW w \in Workers, NEW d \in Docs, L!Release(w, d) PROVE KeysHeld'
  <2>1. w \in overdue <=> lock[d] # w
    BY <1>1, <1>4 DEF L!Release, LockInv
  <2> QED
    BY <1>1, <1>4, <2>1 DEF L!Release, KeysHeld, DocMoves
<1>5. ASSUME NEW d \in Docs, L!RunOut(d) PROVE KeysHeld'
  BY <1>1, <1>5 DEF L!RunOut, KeysHeld, DocMoves
<1>6. CASE UNCHANGED L!leaseVars
  BY <1>6 DEF L!leaseVars, KeysHeld, DocMoves
<1>7. ASSUME NEW w \in Workers, L!Abandon(w) PROVE KeysHeld'
  <2>1. /\ Inside[w] # None /\ Inside'[w] = None /\ UNCHANGED lock
        /\ \A x \in Workers \ {w} : Inside'[x] = Inside[x]
    BY <1>1, <1>7 DEF L!Abandon
  <2>2. /\ pc[w] \in SectionPcs /\ Inside[w] = loc[w].doc /\ Inside[w] \in Docs
        /\ pc'[w] \notin SectionPcs
    <3>1. pc'[w] \in SectionPcs => Inside'[w] # None
      <4>1. pc'[w] \in SectionPcs => loc'[w].doc \in Docs
        BY <1>2 DEF TypeOK, ProcsType, AtType, Procs, WorkerPcs, SectionPcs, ParagraphPcs
      <4> QED
        BY <1>1, <4>1 DEF Inside
    <3> QED
      BY <2>1, <3>1, InsideType
  <2>3. TaskStep(w)
    <3>1. CASE Rest \/ UNCHANGED vars
      BY <2>2, <3>1 DEF Rest, vars
    <3>2. CASE Fault
      <4>1. \A x \in Workers : ~ Crash(x)
        BY DEF Crash, Admit, OneAtATime
      <4> QED
        BY <2>2, <3>2, <4>1 DEF Fault, LockExpires, OnceExpires, EventInit
    <3>3. ASSUME NEW u \in Users, RequestStart(u) \/ RequestStep(u) PROVE FALSE
      BY <2>1, <3>3, LeaseRequest DEF L!leaseVars
    <3>4. ASSUME NEW x \in Workers \ {w}, TaskStep(x) PROVE FALSE
      <4>1. pc'[w] = pc[w]
        BY <3>4, TaskAlone DEF Procs
      <4> QED
        BY <2>2, <4>1
    <3> QED
      BY <3>1, <3>2, <3>3, <3>4 DEF Next
  <2>4. doc[Inside[w]] = "GONE" \/ lock[Inside[w]] # w
    <3>1. CASE UnLock(w)
      <4>1. lock'[Inside[w]] # w
        BY <1>1, <2>2, <3>1 DEF UnLock
      <4> QED
        BY <2>1, <4>1
    <3> QED
      BY <2>2, <2>3, <3>1, TaskLeaves, NobodyRaises
  <2> QED
    BY <1>1, <2>1, <2>2, <2>4 DEF KeysHeld, DocMoves
<1> QED
  BY <1>2, <1>3, <1>4, <1>5, <1>6, <1>7 DEF L!LeaseNext

LEMMA VerdictsTask ==
    ASSUME TypeOK, Verdicts, NEW w \in Workers, TaskStep(w)
    PROVE  Verdicts'
<1>1. w \in Procs /\ w \notin Users /\ Users \subseteq Procs /\ Workers \subseteq Procs
  BY DEF Procs
<1>2. \A x \in Procs \ {w} : pc'[x] = pc[x] /\ loc'[x] = loc[x]
  BY TaskAlone
<1>3. pc'[w] = "post_doc" => loc'[w].kept \in {"FAILURE", "REVOKED", "SUCCESS"}
  <2>1. CASE PostRead(w) /\ pc'[w] = "post_doc"
    <3>1. loc' = [loc EXCEPT ![w].kept = IF aggs[loc[w].doc] THEN "FAILURE"
                    ELSE IF doc[loc[w].doc] = "REVOKE" THEN "REVOKED" ELSE "SUCCESS"]
      BY <1>1, <2>1 DEF PostRead, Goto, TypeOK, ProcsType
    <3>2. loc'[w].kept = IF aggs[loc[w].doc] THEN "FAILURE"
                    ELSE IF doc[loc[w].doc] = "REVOKE" THEN "REVOKED" ELSE "SUCCESS"
      BY <1>1, <3>1 DEF TypeOK, ProcsType, Locals
    <3> QED
      BY <3>2
  <2>2. CASE ~ PostRead(w)
    BY <1>1, <2>2 DEF TaskStep, Take, TryLock, Check, Start, Count, NextPage, NextParagraph,
      PostDoc, PostParas, PostAggregate, TaskError, TaskRaises, UnLock, Release, ParagraphStep,
      ParagraphStart, ReadText, DeleteVectors, Embed, Recheck, Insert, ParagraphDone,
      ParagraphError, ParagraphFailed, ReturnFrom, Goto, End, TypeOK, ProcsType
  <2> QED
    BY <2>1, <2>2
<1> QED
  BY <1>1, <1>2, <1>3 DEF Verdicts

\* try_lock is refused to the only carrier of a document only after its deletion.
LEMMA RefusedIsGone ==
    ASSUME TypeOK, Carriers, KeysHeld, NEW w \in Workers, TryLock(w), pc'[w] # "check",
           NEW d \in Docs, loc[w].doc = d
    PROVE  pc'[w] = "release" /\ UNCHANGED <<doc, para, loc>> /\ doc[d] = "GONE"
<1>1. w \in Procs /\ Workers \subseteq Procs /\ pc \in [Procs -> WorkerPcs \cup UserPcs]
  BY DEF Procs, TypeOK, ProcsType
<1>2. lock[d] # None /\ pc[w] = "lock" /\ pc'[w] = "release" /\ UNCHANGED <<doc, para, loc>>
  BY <1>1 DEF TryLock, Goto, db
<1>3. ASSUME doc[d] # "GONE" PROVE FALSE
  <2>1. lock[d] \in Workers /\ None \notin Docs
    BY <1>2, Constants DEF TypeOK, KeysType
  <2>2. PICK x \in Workers : x = lock[d]
    BY <2>1
  <2>3. Inside[x] = d
    BY <1>2, <1>3, <2>2 DEF KeysHeld
  <2>4. pc[x] \in SectionPcs /\ loc[x].doc = d
    BY <2>1, <2>3, InsideType
  <2>5. "idle" \notin SectionPcs /\ "lock" \notin SectionPcs
    BY DEF SectionPcs, ParagraphPcs
  <2>6. Holds(x, d) /\ Holds(w, d)
    BY <1>2, <2>4, <2>5 DEF Holds
  <2>7. x = w
    BY <1>1, <2>6 DEF Carriers
  <2> QED
    BY <1>2, <2>4, <2>5, <2>7
<1> QED
  BY <1>2, <1>3

\* A task comes to a point where it has the status no more in hand only when it has written
\* its verdict, or finds the document gone: try_lock is not refused to the only carrier.
LEMMA TaskLate ==
    ASSUME TypeOK, Carriers, KeysHeld, Verdicts, NEW w \in Workers, TaskStep(w),
           ~ Take(w), ~ Release(w), ~ TaskRaises(w), pc[w] \notin Late, pc'[w] \in Late,
           NEW d \in Docs, loc[w].doc = d
    PROVE  doc'[d] \notin Busy
<1>1. w \in Procs /\ Workers \subseteq Procs /\ pc \in [Procs -> WorkerPcs \cup UserPcs]
  BY DEF Procs, TypeOK, ProcsType
<1>2. doc \in [Docs -> Row] /\ "GONE" \notin Busy
  BY DEF TypeOK, DatabaseType, Busy
<1>3. CASE TryLock(w)
  <2>1. pc'[w] # "check"
    BY DEF Late
  <2>2. UNCHANGED doc /\ doc[d] = "GONE"
    BY <1>3, <2>1, RefusedIsGone
  <2> QED
    BY <1>2, <2>2
<1>4. CASE PostRead(w)
  BY <1>1, <1>2, <1>4 DEF PostRead, Goto, Late, db
<1>5. CASE PostDoc(w)
  <2>1. doc' = SetDoc(d, loc[w].kept) /\ loc[w].kept \in {"FAILURE", "REVOKED", "SUCCESS"}
    BY <1>5 DEF PostDoc, Verdicts
  <2> QED
    BY <1>2, <2>1 DEF SetDoc, Busy
<1>6. CASE PostParas(w) \/ PostAggregate(w) \/ UnLock(w)
  BY <1>6 DEF PostParas, PostAggregate, UnLock, Late
<1>7. CASE Check(w) \/ Start(w) \/ Count(w) \/ NextPage(w) \/ NextParagraph(w)
  BY <1>1, <1>7 DEF Check, Start, Count, NextPage, NextParagraph, Goto, Late
<1>8. CASE ParagraphStep(w)
  BY <1>1, <1>8 DEF ParagraphStep, ParagraphStart, ReadText, DeleteVectors, Embed, Recheck,
    Insert, ParagraphDone, ParagraphError, ParagraphFailed, ReturnFrom, Goto, Late
<1>9. CASE TaskError(w)
  BY <1>1, <1>9 DEF TaskError, Goto, Late
<1> QED
  BY <1>3, <1>4, <1>5, <1>6, <1>7, <1>8, <1>9 DEF TaskStep

LEMMA BusyTask ==
    ASSUME OneAtATime, TypeOK, Carried, NEW w \in Workers, TaskStep(w)
    PROVE  Carriers' /\ BusyIsCarried'
<1>1. /\ w \in Procs /\ DocMoves
      /\ \A d \in Docs : doc'[d] \in Busy /\ doc[d] \notin Busy => pc[w] = "start" /\ Holds(w, d)
      /\ \A x \in Procs \ {w} : pc'[x] = pc[x] /\ loc'[x] = loc[x]
  BY TaskDoc, TaskAlone DEF Procs, Carried
<1>2. CASE Take(w)
  <2>1. ASSUME NEW d \in Docs, doc'[d] \in Busy PROVE Carrier(d)'
    <3>1. Carrier(d)
      BY <1>1, <1>2, <2>1 DEF Take, Carried, BusyIsCarried, Carrier
    <3>2. ASSUME NEW q \in Procs, Holds(q, d), pc[q] \notin Late PROVE Carrier(d)'
      <4>1. Holds(q, d)' /\ q # w
        BY <1>1, <1>2, <3>2, TakeCarriers DEF Carried
      <4> QED
        BY <1>1, <3>2, <4>1 DEF Carrier
    <3>3. CASE Holds(w, d)' /\ d = Head(queue).doc
      <4>1. pc'[w] # "release"
        <5>1. ASSUME pc'[w] = "release" PROVE doc' = SetDoc(d, "FAILURE")
          BY <1>1, <1>2, <3>3, <5>1 DEF Take, Goto, TypeOK, ProcsType
        <5>2. doc' = SetDoc(d, "FAILURE") => doc'[d] \notin Busy
          BY DEF SetDoc, Busy, TypeOK, DatabaseType
        <5> QED
          BY <2>1, <5>1, <5>2
      <4>2. pc'[w] \in {"lock", "release"}
        BY <1>1, <1>2 DEF Take, Goto, TypeOK, ProcsType
      <4>3. pc'[w] \notin Late
        BY <4>1, <4>2 DEF Late
      <4> QED
        BY <1>1, <3>3, <4>3 DEF Carrier
    <3>4. Queued(d) => Queued(d)' \/ (Holds(w, d)' /\ d = Head(queue).doc)
      BY <1>1, <1>2, TakeCarriers DEF Carried
    <3> QED
      BY <3>1, <3>2, <3>3, <3>4 DEF Carrier
  <2> QED
    BY <1>1, <1>2, <2>1, TakeCarriers DEF Carried, BusyIsCarried, Carrier
<1>3. CASE Release(w)
  <2>1. ASSUME NEW d \in Docs, doc'[d] \in Busy PROVE Carrier(d)'
    <3>1. Carrier(d) /\ pc[w] \in Late
      BY <1>1, <1>3, <2>1 DEF Release, Carried, BusyIsCarried, Carrier, Late
    <3>2. CASE Queued(d)
      BY <1>1, <1>3, <3>2, ReleaseCarriers DEF Carried, Carrier, Queued
    <3>3. ASSUME NEW q \in Procs, Holds(q, d), pc[q] \notin Late PROVE Carrier(d)'
      <4>1. Holds(q, d)' /\ q # w
        BY <1>1, <1>3, <3>1, <3>3, ReleaseCarriers DEF Carried
      <4> QED
        BY <1>1, <3>3, <4>1 DEF Carrier
    <3> QED
      BY <3>1, <3>2, <3>3 DEF Carrier
  <2> QED
    BY <1>1, <1>3, <2>1, ReleaseCarriers DEF Carried, BusyIsCarried, Carrier
<1>4. CASE ~ Take(w) /\ ~ Release(w)
  <2>1. SameHolders /\ UNCHANGED <<queue, once>>
    BY <1>4, TaskHolds
  <2>2. Carriers'
    <3>1. TypeOK'
      BY TypeNext DEF Next
    <3> QED
      BY <1>1, <2>1, <3>1, QuietCarriers DEF Carried
  <2>3. ASSUME NEW d \in Docs, doc'[d] \in Busy PROVE Carrier(d)'
    <3>1. CASE Queued(d)
      BY <2>1, <3>1 DEF Carrier, Queued
    <3>2. ASSUME NEW q \in Procs, Holds(q, d), pc[q] \notin Late PROVE Carrier(d)'
      <4>1. Holds(q, d)'
        BY <2>1, <3>2 DEF SameHolders
      <4>2. pc'[q] \notin Late
        <5>1. CASE q = w
          <6>1. loc[w].doc = d
            BY <3>2, <5>1 DEF Holds
          <6> QED
            BY <1>4, <2>3, <3>2, <5>1, <6>1, TaskLate, NobodyRaises DEF Carried
        <5>2. CASE q # w
          BY <1>1, <3>2, <5>2
        <5> QED
          BY <5>1, <5>2
      <4> QED
        BY <4>1, <4>2 DEF Carrier
    <3>3. CASE pc[w] = "start" /\ Holds(w, d)
      BY <1>1, <3>2, <3>3 DEF Late
    <3> QED
      BY <1>1, <2>3, <3>1, <3>2, <3>3 DEF Carried, BusyIsCarried, Carrier
  <2> QED
    BY <2>2, <2>3 DEF BusyIsCarried, Carrier
<1> QED
  BY <1>2, <1>3, <1>4

LEMMA BusyRequest ==
    ASSUME OneAtATime, TypeOK, Carried, NEW u \in Users, RequestStart(u) \/ RequestStep(u)
    PROVE  Carriers' /\ BusyIsCarried' /\ Verdicts'
<1>1. u \in Procs /\ u \notin Workers /\ Workers \subseteq Procs /\ Users \subseteq Procs
  BY DEF Procs
<1>2. DocMoves
  BY RequestDoc DEF Carried
<1>3. Late \cap Refreshing = {}
  BY DEF Late, Refreshing
<1>4. ASSUME NEW h \in Docs, NEW S \in StateLists, RefreshStart(u, h, S)
      PROVE  Carriers' /\ BusyIsCarried' /\ Verdicts'
  <2>1. \A x \in Procs \ {u} : pc'[x] = pc[x] /\ loc'[x] = loc[x]
    BY <1>1, <1>4 DEF RefreshStart, Goto, TypeOK, ProcsType
  <2>2. Carriers' /\ UNCHANGED queue /\ pc'[u] = "r_paras"
    BY <1>2, <1>4, RefreshStartCarriers DEF Carried
  <2>3. ASSUME NEW d \in Docs, doc'[d] \in Busy PROVE Carrier(d)'
    <3>1. CASE Queued(d)
      BY <2>2, <3>1 DEF Carrier, Queued
    <3>2. ASSUME NEW q \in Procs, Holds(q, d), pc[q] \notin Late PROVE Carrier(d)'
      <4>1. Holds(q, d)' /\ q # u
        BY <1>2, <1>4, <3>2, RefreshStartCarriers DEF Carried
      <4> QED
        BY <2>1, <3>2, <4>1 DEF Carrier
    <3>3. ASSUME NEW T \in StateLists, RefreshStart(u, d, T) PROVE Carrier(d)'
      <4>1. Holds(u, d)' /\ pc'[u] = "r_paras"
        BY <1>2, <3>3, RefreshStartCarriers DEF Carried
      <4> QED
        BY <1>1, <4>1 DEF Carrier, Late
    <3>4. doc[d] \in Busy \/ \E T \in StateLists : RefreshStart(u, d, T)
      BY <2>3, RequestDoc DEF Carried
    <3> QED
      BY <3>1, <3>2, <3>3, <3>4 DEF Carried, BusyIsCarried, Carrier
  <2>4. Verdicts'
    BY <1>1, <2>1, <2>2 DEF Carried, Verdicts
  <2> QED
    BY <2>2, <2>3, <2>4 DEF BusyIsCarried, Carrier
<1>5. CASE RefreshDelay(u)
  <2>1. /\ UNCHANGED doc /\ pc'[u] = "idle"
        /\ \A x \in Procs \ {u} : pc'[x] = pc[x] /\ loc'[x] = loc[x]
    BY <1>1, <1>5 DEF RefreshDelay, End, db, TypeOK, ProcsType
  <2>2. /\ Carriers'
        /\ \A d \in Docs : Queued(d) \/ Holds(u, d) => Queued(d)'
        /\ \A q \in Procs : \A d \in Docs : Holds(q, d) => q = u \/ Holds(q, d)'
    BY <1>2, <1>5, RefreshDelayCarriers DEF Carried
  <2>3. ASSUME NEW d \in Docs, doc'[d] \in Busy PROVE Carrier(d)'
    <3>1. Carrier(d)
      BY <2>1, <2>3 DEF Carried, BusyIsCarried, Carrier
    <3>2. ASSUME NEW q \in Procs, Holds(q, d), pc[q] \notin Late PROVE Carrier(d)'
      BY <2>1, <2>2, <3>2 DEF Carrier
    <3> QED
      BY <2>2, <3>1, <3>2 DEF Carrier
  <2>4. Verdicts'
    BY <1>1, <2>1 DEF Carried, Verdicts
  <2> QED
    BY <2>2, <2>3, <2>4 DEF BusyIsCarried, Carrier
<1>6. CASE ~ RefreshDelay(u) /\ \A d \in Docs : \A S \in StateLists : ~ RefreshStart(u, d, S)
  <2>1. /\ SameHolders /\ UNCHANGED <<queue, once>>
        /\ \A x \in Users : pc'[x] # "n_save"
        /\ \A x \in Procs \ {u} : pc'[x] = pc[x] /\ loc'[x] = loc[x]
    BY <1>6, RequestHolds DEF Carried
  <2>2. Carriers'
    <3>1. TypeOK'
      BY TypeNext DEF Next
    <3> QED
      BY <1>2, <2>1, <3>1, QuietCarriers DEF Carried
  <2>3. ASSUME NEW d \in Docs, doc'[d] \in Busy PROVE Carrier(d)'
    <3>1. Carrier(d)
      BY <1>6, <2>3, RequestDoc DEF Carried, BusyIsCarried, Carrier
    <3>2. CASE Queued(d)
      BY <2>1, <3>2 DEF Carrier, Queued
    <3>3. ASSUME NEW q \in Procs, Holds(q, d), pc[q] \notin Late PROVE Carrier(d)'
      <4>1. Holds(q, d)'
        BY <2>1, <3>3 DEF SameHolders
      <4>2. pc'[q] \notin Late
        <5>1. CASE q = u
          BY <1>1, <1>3, <4>1, <5>1 DEF Holds
        <5>2. CASE q # u
          BY <2>1, <3>3, <5>2
        <5> QED
          BY <5>1, <5>2
      <4> QED
        BY <4>1, <4>2 DEF Carrier
    <3> QED
      BY <3>1, <3>2, <3>3 DEF Carrier
  <2>4. Verdicts'
    BY <1>1, <2>1 DEF Carried, Verdicts
  <2> QED
    BY <2>2, <2>3, <2>4 DEF BusyIsCarried, Carrier
<1> QED
  BY <1>4, <1>5, <1>6

LEMMA CarriedNext ==
    ASSUME OneAtATime, TypeOK, LockInv, Carried, [Next]_vars
    PROVE  Carried'
<1>1. ASSUME DocMoves, Carriers', BusyIsCarried', Verdicts' PROVE Carried'
  <2>1. KeysHeld'
    BY <1>1, KeysHeldNext DEF Carried
  <2> QED
    BY <1>1, <2>1 DEF Carried
<1>2. CASE Rest \/ UNCHANGED vars
  <2>1. UNCHANGED vars
    BY <1>2 DEF Rest
  <2>2. DocMoves
    BY <2>1 DEF vars, DocMoves
  <2>3. Carriers' /\ BusyIsCarried' /\ Verdicts'
    BY <2>1 DEF vars, Carried, Carriers, BusyIsCarried, Verdicts, Carrier, Queued, Holds
  <2> QED
    BY <1>1, <2>2, <2>3
<1>3. ASSUME NEW w \in Workers, TaskStep(w) PROVE Carried'
  BY <1>1, <1>3, TaskDoc, BusyTask, VerdictsTask DEF Carried
<1>4. ASSUME NEW u \in Users, RequestStart(u) \/ RequestStep(u) PROVE Carried'
  BY <1>1, <1>4, RequestDoc, BusyRequest DEF Carried
<1>5. CASE Fault
  <2>1. DocMoves /\ \A d \in Docs : doc'[d] \in Busy => doc[d] \in Busy
    BY <1>5, FaultDoc
  <2>2. UNCHANGED <<queue, pc, loc>> /\ \A d \in Docs : once'[d] => once[d]
    <3>1. \A w \in Workers : ~ Crash(w)
      BY DEF Crash, Admit, OneAtATime
    <3> QED
      BY <1>5, <3>1 DEF Fault, LockExpires, OnceExpires, EventInit, keys, TypeOK, KeysType
  <2>3. SameHolders
    BY <2>2 DEF SameHolders, Holds
  <2>4. Carriers'
    BY <2>1, <2>2, <2>3, TypeNext, QuietCarriers DEF Carried
  <2>5. BusyIsCarried' /\ Verdicts'
    BY <2>1, <2>2 DEF Carried, BusyIsCarried, Verdicts, Carrier, Queued, Holds
  <2> QED
    BY <1>1, <2>1, <2>4, <2>5
<1> QED
  BY <1>2, <1>3, <1>4, <1>5 DEF Next

\* Cancels, deletions, edits of paragraphs, expiring keys, restarts, failing models: a document
\* that is queued nowhere and that nobody works on does not look busy, as long as it is not
\* re-indexed while it is worked on, not renamed, and no worker is killed.
THEOREM AtRestAfterAll ==
    ASSUME OneAtATime
    PROVE  Spec => []SettledDocument
<1>1. Carried => SettledDocument
  <2>1. ASSUME NEW d, NEW q \in Procs, Holds(q, d) PROVE pc[q] # "idle" /\ loc[q].doc = d
    BY <2>1 DEF Holds, Refreshing
  <2> QED
    BY <2>1 DEF Carried, BusyIsCarried, SettledDocument, Attended, Carrier, Queued, Busy
<1>2. TypeOK /\ LockInv /\ Carried /\ [Next]_vars => Carried'
  BY CarriedNext
<1> QED
  BY <1>1, <1>2, TypeCorrect, LockCorrect, CarriedInit, PTL DEF Spec

-----------------------------------------------------------------------------
(* No paragraph at rest is running, and none waits or is being cancelled   *)
(* under a document in SUCCESS.  What that takes, beside one carrier at a  *)
(* time: statuses are set by tasks, by the requests that queue them and by *)
(* cancels.  An edit writes back a status it has read before, a creation   *)
(* and a starting web process declare a status without a look at the       *)
(* paragraphs that wait.  The pages of a task are counted once and queried *)
(* one by one while their paragraphs leave the query; that the last page   *)
(* comes first is what keeps the others in place.  A task that raises      *)
(* leaves its document in raised until a refresh resets the statuses.      *)

OnlyTasksDeclare == Env \cap {"edit", "create", "restart"} = {}

\* Both choices of the UI's re-index dialog name PENDING, which refresh sets at once, and
\* STARTED, which a task that raised leaves behind.
ListsNameUnfinished == \A S \in StateLists : {"PENDING", "STARTED"} \subseteq S

Closed == {"FAILURE", "REVOKED", "GONE"}

Interruption == {"REVOKE", "GONE"}

Pending(d) == Matching(d, {"PENDING"})

Settled(d) == doc[d] \in Closed \/ Matching(d, {"PENDING", "REVOKE"}) = {}

\* The place of a paragraph in the query of a task, and whether one of n pages has it.
Rank(p, S) == Cardinality({x \in Matching(DocOf[p], S) : x < p})

Ahead(p, S, n) == Rank(p, S) < n * PageSize

\* A worker still reaches what waits in its document, or has been told to stop; what it says
\* of the document in the end is then true of the paragraphs.
Covered(l, r) ==
    /\ l = "page" =>
        doc[r.doc] \in Interruption \/ \A p \in Pending(r.doc) : Ahead(p, r.states, r.pages)
    /\ l \in {"next"} \cup ParagraphPcs =>
        \/ doc[r.doc] \in Interruption
        \/ \A p \in Pending(r.doc) :
            \/ p \in r.todo
            \/ l = "pstart" /\ p = r.cur
            \/ /\ Ahead(p, r.states, r.pages)
               /\ \A x \in r.todo : p < x
               /\ l \in ParagraphPcs => p < r.cur
    /\ l = "post_read" => doc[r.doc] \in Interruption \/ Pending(r.doc) = {}
    /\ l = "post_doc" => r.kept \in Closed \/ Pending(r.doc) = {}
    /\ l = "post_paras" => doc[r.doc] \in Closed \/ Pending(r.doc) = {}
    /\ l \in {"agg", "unlock", "release"} => Settled(r.doc)

\* Every list of statuses on its way to a task names PENDING.
Lists ==
    /\ \A i \in DOMAIN queue : "PENDING" \in queue[i].states
    /\ \A w \in Workers : pc[w] # "idle" => "PENDING" \in loc[w].states
    /\ \A u \in Users : pc[u] \in Refreshing => {"PENDING", "STARTED"} \subseteq loc[u].states

EveryParagraph ==
    /\ \A p \in Paras : doc[DocOf[p]] = "GONE" => para[p] = "GONE"
    /\ \A p \in Paras : para[p] = "STARTED" =>
        \/ DocOf[p] \in raised
        \/ \E w \in Workers : pc[w] \in ParagraphPcs /\ loc[w].cur = p
    /\ \A w \in Workers : loc[w].doc \in raised \/ Covered(pc[w], loc[w])
    /\ \A d \in Docs :
        Queued(d) \/ (\E q \in Procs : Holds(q, d)) \/ d \in raised \/ Settled(d)

\* The query of a page only ever loses paragraphs before the ones that wait.
LEMMA AheadStays ==
    ASSUME NEW p \in Paras, NEW S \in SUBSET State, NEW n \in Nat, Ahead(p, S, n),
           \A x \in Paras : DocOf[x] = DocOf[p] /\ x < p => para'[x] \in {para[x], "GONE"}
    PROVE  Ahead(p, S, n)'
<1> DEFINE B == {x \in Matching(DocOf[p], S) : x < p}
           A == {x \in Paras : DocOf[x] = DocOf[p] /\ para'[x] \in S /\ x < p}
<1>1. A \subseteq B
  BY DEF Matching, State
<1>2. IsFiniteSet(B)
  BY FS_Subset, Constants DEF Matching
<1>3. Cardinality(A) <= Cardinality(B) /\ Cardinality(A) \in Nat /\ Cardinality(B) \in Nat
  BY <1>1, <1>2, FS_Subset, FS_CardinalityType
<1>4. A = {x \in Matching(DocOf[p], S)' : x < p}
  BY DEF Matching
<1>5. Rank(p, S)' = Cardinality(A) /\ Rank(p, S) = Cardinality(B)
  BY <1>4 DEF Rank
<1> HIDE DEF A, B
<1>6. n * PageSize \in Nat
  BY Constants
<1> QED
  BY <1>3, <1>5, <1>6 DEF Ahead

\* Rounding up leaves no paragraph without a page.
LEMMA PagesSuffice ==
    ASSUME NEW n \in Nat, NEW k \in Nat \ {0}
    PROVE  /\ (n + k - 1) \div k \in Nat
           /\ n <= ((n + k - 1) \div k) * k
<1> DEFINE m == n + k - 1
<1>1. m \in Nat
  BY SMT
<1>2. m = (m \div k) * k + (m % k) /\ m % k \in 0 .. k - 1
  BY <1>1, SMT
<1>3. m \div k \in Nat
  BY <1>1, SMT
<1> HIDE DEF m
<1>4. n <= (m \div k) * k
  BY <1>1, <1>2, <1>3, SMT DEF m
<1> QED
  BY <1>3, <1>4 DEF m

\* When the pages are counted, there are enough of them.
LEMMA AheadOfAll ==
    ASSUME NEW p \in Paras, NEW S \in SUBSET State, para[p] \in S
    PROVE  Ahead(p, S, PageCount(Cardinality(Matching(DocOf[p], S))))
<1> DEFINE M == Matching(DocOf[p], S)
           B == {x \in M : x < p}
           n == Cardinality(M)
<1>1. IsFiniteSet(M) /\ p \in M /\ p \notin B /\ B \subseteq M /\ p \in Nat
  BY FS_Subset, Constants DEF Matching
<1>2. Cardinality(B) < n /\ Cardinality(B) \in Nat /\ n \in Nat
  BY <1>1, FS_Subset, FS_CardinalityType
<1>3. PageSize \in Nat \ {0}
  BY Constants
<1>4. Rank(p, S) = Cardinality(B)
  BY DEF Rank
<1> HIDE DEF M, B, n
<1>5. PageCount(n) \in Nat /\ n <= PageCount(n) * PageSize
  BY <1>2, <1>3, PagesSuffice DEF PageCount
<1>6. Cardinality(B) < PageCount(n) * PageSize
  BY <1>2, <1>3, <1>5, SMT
<1> QED
  BY <1>4, <1>6 DEF Ahead, n, M

\* A paragraph that waits is on the next page, or before all of its paragraphs.
LEMMA PageOrAhead ==
    ASSUME NEW p \in Paras, NEW S \in SUBSET State, para[p] \in S,
           NEW n \in Nat \ {0}, Ahead(p, S, n), p \notin Page(Matching(DocOf[p], S), n - 1)
    PROVE  /\ Ahead(p, S, n - 1)
           /\ \A x \in Page(Matching(DocOf[p], S), n - 1) : p < x
<1> DEFINE M == Matching(DocOf[p], S)
           Low(x) == {y \in M : y < x}
<1>1. IsFiniteSet(M) /\ p \in M /\ M \subseteq Nat
  BY FS_Subset, Constants DEF Matching
<1>2. \A x : IsFiniteSet(Low(x)) /\ Cardinality(Low(x)) \in Nat
  BY <1>1, FS_Subset, FS_CardinalityType
<1>3. PageSize \in Nat \ {0}
  BY Constants
<1>4. Rank(p, S) = Cardinality(Low(p))
  BY DEF Rank
<1>5. /\ Cardinality(Low(p)) < n * PageSize
      /\ Cardinality(Low(p)) \notin (n - 1) * PageSize .. ((n - 1) + 1) * PageSize - 1
  BY <1>1, <1>4 DEF Ahead, Page
<1>6. Cardinality(Low(p)) < (n - 1) * PageSize
  <2> DEFINE c == Cardinality(Low(p))
  <2>1. c \in Nat
    BY <1>2
  <2> HIDE DEF c
  <2>2. c < n * PageSize /\ c \notin (n - 1) * PageSize .. ((n - 1) + 1) * PageSize - 1
    BY <1>5 DEF c
  <2>3. c < (n - 1) * PageSize
    BY <1>3, <2>1, <2>2, SMT
  <2> QED
    BY <2>3 DEF c
<1>7. ASSUME NEW x \in Page(M, n - 1) PROVE p < x
  <2>1. /\ x \in M
        /\ Cardinality(Low(x)) \in (n - 1) * PageSize .. ((n - 1) + 1) * PageSize - 1
    BY <1>7 DEF Page
  <2>2. Cardinality(Low(p)) < Cardinality(Low(x))
    <3> DEFINE c == Cardinality(Low(p))
               e == Cardinality(Low(x))
    <3>1. c \in Nat /\ e \in Nat /\ c < (n - 1) * PageSize
      BY <1>2, <1>6
    <3>2. e \in (n - 1) * PageSize .. ((n - 1) + 1) * PageSize - 1
      BY <2>1
    <3> HIDE DEF c, e
    <3>3. c < e
      BY <1>3, <3>1, <3>2, SMT
    <3> QED
      BY <3>3 DEF c, e
  <2>3. ASSUME ~ (p < x) PROVE FALSE
    <3>1. Low(x) \subseteq Low(p)
      BY <1>1, <2>1, <2>3
    <3> DEFINE c == Cardinality(Low(p))
               e == Cardinality(Low(x))
    <3>2. e <= c /\ c \in Nat /\ e \in Nat /\ c < e
      BY <1>2, <2>2, <3>1, FS_Subset
    <3> HIDE DEF c, e
    <3> QED
      BY <3>2
  <2> QED
    BY <2>3
<1> QED
  BY <1>4, <1>6, <1>7 DEF Ahead

LEMMA EveryParagraphInit == Init => Lists /\ EveryParagraph
<1> SUFFICES ASSUME Init PROVE Lists /\ EveryParagraph
  OBVIOUS
<1>1. /\ \A q \in Procs : pc[q] = "idle"
      /\ \A p \in Paras : para[p] \in {"GONE", "IGNORED"}
      /\ \A d \in Docs : doc[d] = "IGNORED"
      /\ DOMAIN queue = {}
  BY DEF Init
<1>2. Lists
  BY <1>1 DEF Lists, Procs, Refreshing
<1>3. \A d \in Docs : Settled(d)
  BY <1>1 DEF Settled, Matching
<1>4. \A w \in Workers : Covered(pc[w], loc[w])
  <2>1. "idle" \notin {"next"} \cup ParagraphPcs
    BY DEF ParagraphPcs
  <2> QED
    BY <1>1, <2>1 DEF Covered, Procs
<1>5. \A p \in Paras : doc[DocOf[p]] # "GONE" /\ para[p] # "STARTED"
  BY <1>1, Constants
<1> QED
  BY <1>2, <1>3, <1>4, <1>5 DEF EveryParagraph

\* The list of statuses goes from the dialog into the queue and from there to the worker.
LEMMA ListsNext ==
    ASSUME OneAtATime, ListsNameUnfinished, TypeOK, Verdicts, Lists, [Next]_vars
    PROVE  Lists'
<1>1. Users \subseteq Procs /\ Workers \subseteq Procs /\ Users \cap Workers = {}
  BY Constants DEF Procs
<1>2. queue \in Seq(Tasks) /\ \A q \in Procs : loc[q] \in Locals
  BY DEF TypeOK, KeysType, ProcsType
<1>3. CASE Rest \/ UNCHANGED vars
  BY <1>3 DEF Rest, vars, Lists
<1>4. ASSUME NEW w \in Workers, TaskStep(w) PROVE Lists'
  <2>1. \A x \in Procs \ {w} : pc'[x] = pc[x] /\ loc'[x] = loc[x]
    BY <1>4, TaskAlone
  <2>2. ASSUME \A i \in DOMAIN queue' : "PENDING" \in queue'[i].states,
               pc'[w] # "idle" => "PENDING" \in loc'[w].states
        PROVE  Lists'
    BY <1>1, <2>1, <2>2 DEF Lists
  <2>3. CASE Take(w)
    <3>1. queue # <<>> /\ queue' = Tail(queue)
      BY <2>3 DEF Take
    <3>2. \A i \in DOMAIN queue' : i + 1 \in DOMAIN queue /\ queue'[i] = queue[i + 1]
      BY <1>2, <3>1
    <3>3. 1 \in DOMAIN queue /\ Head(queue) = queue[1]
      BY <1>2, <3>1
    <3>4. loc'[w].states = Head(queue).states
      BY <1>1, <2>3 DEF Take, TypeOK, ProcsType, Blank
    <3>5. \A i \in DOMAIN queue' : "PENDING" \in queue'[i].states
      BY <3>2 DEF Lists
    <3> QED
      BY <2>2, <3>3, <3>4, <3>5 DEF Lists
  <2>4. CASE Release(w)
    <3>1. pc'[w] = "idle" /\ UNCHANGED queue
      BY <1>1, <2>4 DEF Release, End, TypeOK, ProcsType
    <3> QED
      BY <2>2, <3>1 DEF Lists
  <2>5. CASE ~ Take(w) /\ ~ Release(w)
    <3>1. UNCHANGED queue
      BY <1>4, <2>5, TaskHolds
    <3>2. \E l, r : Moves(w, l, r) /\ r.states = loc[w].states /\ pc[w] # "idle"
      <4>1. CASE ParagraphStep(w)
        <5>1. PICK l, r : ParagraphMoves(w, l, r)
          BY <4>1, ParagraphView
        <5>2. "idle" \notin ParagraphPcs
          BY DEF ParagraphPcs
        <5> QED
          BY <5>1, <5>2 DEF ParagraphMoves
      <4>2. CASE ~ ParagraphStep(w)
        <5>1. PICK l, r : TaskMoves(w, l, r)
          BY <1>4, <4>2, TaskView
        <5> QED
          BY <2>5, <5>1 DEF TaskMoves
      <4> QED
        BY <4>1, <4>2
    <3>3. loc'[w].states = loc[w].states /\ pc[w] # "idle"
      BY <1>1, <3>2, MovesOne
    <3> QED
      BY <2>2, <3>1, <3>3 DEF Lists
  <2> QED
    BY <2>3, <2>4, <2>5
<1>5. ASSUME NEW u \in Users, RequestStart(u) \/ RequestStep(u) PROVE Lists'
  <2>1. ASSUME \A x \in Procs \ {u} : pc'[x] = pc[x] /\ loc'[x] = loc[x],
               \A i \in DOMAIN queue' : "PENDING" \in queue'[i].states,
               pc'[u] \in Refreshing => {"PENDING", "STARTED"} \subseteq loc'[u].states
        PROVE  Lists'
    BY <1>1, <2>1 DEF Lists
  <2>2. ASSUME NEW d \in Docs, NEW S \in StateLists, RefreshStart(u, d, S) PROVE Lists'
    <3>1. UNCHANGED queue /\ \A x \in Procs \ {u} : pc'[x] = pc[x] /\ loc'[x] = loc[x]
      BY <1>1, <2>2 DEF RefreshStart, Goto, keys, TypeOK, ProcsType
    <3>2. loc'[u].states = S
      BY <1>1, <1>2, <2>2 DEF RefreshStart, TypeOK, ProcsType, Locals
    <3> QED
      BY <2>1, <3>1, <3>2 DEF Lists, ListsNameUnfinished
  <2>3. CASE RefreshDelay(u)
    <3>1. /\ pc'[u] = "idle" /\ "PENDING" \in loc[u].states
          /\ \A x \in Procs \ {u} : pc'[x] = pc[x] /\ loc'[x] = loc[x]
      BY <1>1, <2>3 DEF RefreshDelay, End, TypeOK, ProcsType, Lists, Refreshing
    <3>2. CASE UNCHANGED queue
      BY <2>1, <3>1, <3>2 DEF Lists, Refreshing
    <3>3. CASE queue' = Append(queue, [doc |-> loc[u].doc, states |-> loc[u].states])
      <4> DEFINE t == [doc |-> loc[u].doc, states |-> loc[u].states]
      <4>1. t.states = loc[u].states
        OBVIOUS
      <4> HIDE DEF t
      <4>2. \A i \in DOMAIN queue' : queue'[i] = t \/ (i \in DOMAIN queue /\ queue'[i] = queue[i])
        BY <1>2, <3>3 DEF t
      <4>3. \A i \in DOMAIN queue' : "PENDING" \in queue'[i].states
        BY <3>1, <4>1, <4>2 DEF Lists
      <4> QED
        BY <2>1, <3>1, <4>3 DEF Refreshing
    <3> QED
      BY <2>3, <3>2, <3>3 DEF RefreshDelay
  <2>4. CASE ~ RefreshDelay(u) /\ \A d \in Docs : \A S \in StateLists : ~ RefreshStart(u, d, S)
    BY <1>5, <2>1, <2>4, RequestHolds DEF Lists
  <2> QED
    BY <2>2, <2>3, <2>4
<1>6. CASE Fault
  <2>1. UNCHANGED queue
    BY <1>6 DEF Fault, Crash, LockExpires, OnceExpires, EventInit, keys
  <2>2. CASE UNCHANGED <<pc, loc>>
    BY <2>1, <2>2 DEF Lists
  <2>3. ASSUME NEW w \in Workers, Moves(w, "idle", Blank) PROVE Lists'
    <3>1. pc'[w] = "idle" /\ \A x \in Procs \ {w} : pc'[x] = pc[x] /\ loc'[x] = loc[x]
      BY <1>1, <2>3, MovesOne
    <3> QED
      BY <1>1, <2>1, <3>1 DEF Lists
  <2> QED
    BY <1>6, <2>2, <2>3, FaultView
<1> QED
  BY <1>3, <1>4, <1>5, <1>6 DEF Next

\* What others may do to the document of a worker: nothing begins to wait in it, a cancel
\* takes all that waits at once, and what is decided of the document stays decided.
Fades(d) ==
    /\ d \in raised => d \in raised'
    /\ doc[d] \in Interruption => doc'[d] \in Interruption
    /\ doc[d] \in Closed => doc'[d] \in Closed
    /\ \/ \A p \in Paras : DocOf[p] = d => para'[p] \in {para[p], "GONE"}
       \/ \A p \in Paras : DocOf[p] = d =>
            /\ para'[p] # "PENDING"
            /\ para'[p] = "REVOKE" => para[p] \in {"PENDING", "STARTED", "REVOKE"}

NoneRuns(d) == \A p \in Paras : DocOf[p] = d => para[p] # "STARTED"

LEMMA SettledStays ==
    ASSUME NEW d, Settled(d), Fades(d), NoneRuns(d)
    PROVE  Settled(d)'
BY DEF Settled, Fades, NoneRuns, Matching

LEMMA CoveredStays ==
    ASSUME NEW l, NEW r \in Locals, Covered(l, r), Fades(r.doc),
           l \notin ParagraphPcs => NoneRuns(r.doc)
    PROVE  Covered(l, r)'
<1> DEFINE d == r.doc
<1>1. r.states \in SUBSET State /\ r.pages \in Nat
  BY DEF Locals
<1>2. \A p \in Pending(d)' : p \in Pending(d) /\ para'[p] = "PENDING" /\ DocOf[p] = d /\ p \in Paras
  BY DEF Pending, Matching, Fades
<1>3. ASSUME NEW p \in Pending(d)', Ahead(p, r.states, r.pages)
      PROVE  Ahead(p, r.states, r.pages)'
  <2>1. \A x \in Paras : DocOf[x] = d => para'[x] \in {para[x], "GONE"}
    BY <1>2 DEF Fades
  <2> QED
    BY <1>1, <1>2, <1>3, <2>1, AheadStays
<1>4. doc[d] \in Interruption => doc'[d] \in Interruption
  BY DEF Fades
<1>5. doc[d] \in Closed => doc'[d] \in Closed
  BY DEF Fades
<1>6. l \in {"agg", "unlock", "release"} => Settled(d)'
  BY SettledStays DEF Covered, ParagraphPcs
<1>7. l = "page" => doc'[d] \in Interruption \/ \A p \in Pending(d)' : Ahead(p, r.states, r.pages)'
  BY <1>2, <1>3, <1>4 DEF Covered
<1>8. l \in {"next"} \cup ParagraphPcs =>
        \/ doc'[d] \in Interruption
        \/ \A p \in Pending(d)' :
            \/ p \in r.todo
            \/ l = "pstart" /\ p = r.cur
            \/ /\ Ahead(p, r.states, r.pages)'
               /\ \A x \in r.todo : p < x
               /\ l \in ParagraphPcs => p < r.cur
  BY <1>2, <1>3, <1>4 DEF Covered
<1>9. /\ l = "post_read" => doc'[d] \in Interruption \/ Pending(d)' = {}
      /\ l = "post_doc" => r.kept \in Closed \/ Pending(d)' = {}
      /\ l = "post_paras" => doc'[d] \in Closed \/ Pending(d)' = {}
  BY <1>2, <1>4, <1>5 DEF Covered
<1> QED
  BY <1>6, <1>7, <1>8, <1>9 DEF Covered

\* Only a worker on a paragraph makes it run, and it works on its own document.
LEMMA QuietDocument ==
    ASSUME TypeOK, WorkersOnly, EveryParagraph, NEW d \in Docs, d \notin raised,
           \A w \in Workers : Holds(w, d) => pc[w] \notin ParagraphPcs
    PROVE  NoneRuns(d)
<1> SUFFICES ASSUME NEW p \in Paras, DocOf[p] = d, para[p] = "STARTED" PROVE FALSE
  BY DEF NoneRuns
<1>1. PICK w \in Workers : pc[w] \in ParagraphPcs /\ loc[w].cur = p
  BY DEF EveryParagraph
<1>2. loc[w].doc = d
  BY <1>1 DEF WorkersOnly, Lawful
<1>3. "idle" \notin ParagraphPcs
  BY DEF ParagraphPcs
<1> QED
  BY <1>1, <1>2, <1>3 DEF Holds

\* What a step of embedding_by_paragraph does to the paragraph of a worker.
LEMMA ParagraphStatus ==
    ASSUME TypeOK, NEW w \in Workers, ParagraphStep(w), NEW c, c = loc[w].cur
    PROVE  /\ c \in Paras /\ UNCHANGED doc
           /\ \A p \in Paras \ {c} : para'[p] = para[p]
           /\ \/ pc[w] = "pstart" /\ pc'[w] = "read" /\ para'[c] \in {"STARTED", "GONE"}
              \/ pc[w] # "pstart" /\ pc'[w] \in ParagraphPcs \ {"pstart"} /\ para'[c] = para[c]
              \/ pc[w] # "pstart" /\ pc'[w] = "next" /\ para'[c] \in {"SUCCESS", "FAILURE", "GONE"}
<1>1. w \in Procs /\ loc[w].cur \in Paras /\ para \in [Paras -> Row]
  BY DEF ParagraphStep, ParagraphStart, ReadText, DeleteVectors, Embed, Recheck, Insert,
    ParagraphDone, ParagraphError, ParagraphFailed, TypeOK, ProcsType, AtType, DatabaseType,
    ParagraphPcs, Procs
<1>2. UNCHANGED doc
  BY DEF ParagraphStep, ParagraphStart, ReadText, DeleteVectors, Embed, Recheck, Insert,
    ParagraphDone, ParagraphError, ParagraphFailed, db
<1>3. pc \in [Procs -> WorkerPcs \cup UserPcs]
  BY DEF TypeOK, ProcsType
<1>4. CASE ParagraphStart(w)
  <2>1. para' = SetPara(c, "STARTED") /\ pc[w] = "pstart" /\ pc'[w] = "read"
    BY <1>1, <1>3, <1>4 DEF ParagraphStart, Goto
  <2> QED
    BY <1>1, <1>2, <2>1 DEF SetPara
<1>5. CASE \/ ReadText(w) \/ DeleteVectors(w) \/ Embed(w) \/ Recheck(w) \/ Insert(w)
           \/ ParagraphError(w)
  <2>1. UNCHANGED para
    BY <1>5 DEF ReadText, DeleteVectors, Embed, Recheck, Insert, ParagraphError, db
  <2>2. pc[w] # "pstart" /\ pc'[w] \in ParagraphPcs \ {"pstart"}
    BY <1>1, <1>3, <1>5 DEF ReadText, DeleteVectors, Embed, Recheck, Insert, ParagraphError,
      Goto, ParagraphPcs
  <2> QED
    BY <1>1, <1>2, <2>1, <2>2
<1>6. CASE ParagraphDone(w) \/ ParagraphFailed(w)
  <2>1. pc[w] # "pstart" /\ pc'[w] = "next"
    BY <1>1, <1>3, <1>6 DEF ParagraphDone, ParagraphError, ParagraphFailed, ReturnFrom, Goto
  <2>2. para' = SetPara(c, "SUCCESS") \/ para' = SetPara(c, "FAILURE")
    BY <1>6 DEF ParagraphDone, ParagraphError, ParagraphFailed
  <2> QED
    BY <1>1, <1>2, <2>1, <2>2 DEF SetPara
<1> QED
  BY <1>4, <1>5, <1>6 DEF ParagraphStep

\* A task leaves the other documents alone, and neither makes nor deletes a row.
LEMMA TaskElsewhere ==
    ASSUME TypeOK, WorkersOnly, Verdicts, NEW w \in Workers, TaskStep(w)
    PROVE  /\ \A d \in Docs : doc'[d] = "GONE" <=> doc[d] = "GONE"
           /\ \A p \in Paras : para'[p] = "GONE" <=> para[p] = "GONE"
           /\ \A d \in Docs : (IF Take(w) THEN Head(queue).doc ELSE loc[w].doc) # d =>
                /\ doc'[d] = doc[d]
                /\ \A p \in Paras : DocOf[p] = d => para'[p] = para[p]
<1>1. /\ w \in Procs /\ loc[w] \in Locals /\ para \in [Paras -> Row] /\ doc \in [Docs -> Row]
  BY DEF Procs, TypeOK, ProcsType, DatabaseType
<1>2. CASE ParagraphStep(w)
  <2>1. PICK c : c = loc[w].cur
    OBVIOUS
  <2>2. /\ c \in Paras /\ UNCHANGED doc /\ \A p \in Paras \ {c} : para'[p] = para[p]
    BY <1>2, <2>1, ParagraphStatus
  <2>3. pc[w] \in ParagraphPcs /\ ~ Take(w)
    BY <1>2 DEF ParagraphStep, ParagraphStart, ReadText, DeleteVectors, Embed, Recheck, Insert,
      ParagraphDone, ParagraphError, ParagraphFailed, Take, ParagraphPcs
  <2>4. DocOf[c] = loc[w].doc
    BY <2>1, <2>3 DEF WorkersOnly, Lawful
  <2> QED
    BY <1>2, <2>2, <2>3, <2>4, ParagraphView
<1>3. CASE PostParas(w)
  <2>1. para' = SetParas(Matching(loc[w].doc, {"REVOKE"}), "REVOKED") /\ UNCHANGED doc /\ ~ Take(w)
    BY <1>3 DEF PostParas, Take
  <2>2. /\ \A p \in Paras : para'[p] = "GONE" <=> para[p] = "GONE"
        /\ \A p \in Paras : DocOf[p] # loc[w].doc => para'[p] = para[p]
    BY <2>1 DEF SetParas, Matching
  <2> QED
    BY <2>1, <2>2
<1>4. CASE ~ ParagraphStep(w) /\ ~ PostParas(w)
  <2>1. UNCHANGED para
    BY <1>4 DEF TaskStep, Take, TryLock, Check, Start, Count, NextPage, NextParagraph, PostRead,
      PostDoc, PostAggregate, TaskError, TaskRaises, UnLock, Release, db
  <2>2. ASSUME NEW x, NEW s \in State, doc' = SetDoc(x, s)
        PROVE  /\ \A d \in Docs : doc'[d] = "GONE" <=> doc[d] = "GONE"
               /\ \A d \in Docs : x # d => doc'[d] = doc[d]
    BY <1>1, <2>2 DEF SetDoc, State
  <2>3. {"FAILURE", "STARTED", "REVOKED", "SUCCESS"} \subseteq State
    BY DEF State
  <2>4. CASE UNCHANGED doc
    BY <2>1, <2>4
  <2>5. CASE Take(w)
    <3>1. UNCHANGED doc \/ doc' = SetDoc(Head(queue).doc, "FAILURE")
      BY <2>5 DEF Take
    <3> QED
      BY <2>1, <2>2, <2>3, <2>4, <2>5, <3>1
  <2>6. CASE Start(w)
    <3>1. doc' = SetDoc(loc[w].doc, "STARTED") /\ ~ Take(w)
      BY <2>6 DEF Start, Take
    <3> QED
      BY <2>1, <2>2, <2>3, <3>1
  <2>7. CASE PostDoc(w)
    <3>1. doc' = SetDoc(loc[w].doc, loc[w].kept) /\ loc[w].kept \in State /\ ~ Take(w)
      BY <2>3, <2>7 DEF PostDoc, Take, Verdicts
    <3> QED
      BY <2>1, <2>2, <3>1
  <2> QED
    BY <1>4, <2>4, <2>5, <2>6, <2>7 DEF TaskStep, TryLock, Check, Count, NextPage,
      NextParagraph, PostRead, PostAggregate, TaskError, TaskRaises, UnLock, Release, db
<1> QED
  BY <1>2, <1>3, <1>4

LEMMA ParagraphCovers ==
    ASSUME TypeOK, TypeOK', NEW w \in Workers, ParagraphStep(w), Covered(pc[w], loc[w])
    PROVE  Covered(pc[w], loc[w])'
<1>1. PICK l, r : ParagraphMoves(w, l, r)
  BY ParagraphView
<1>2. w \in Procs /\ pc'[w] = l /\ loc'[w] = r /\ r \in Locals
  <2>1. w \in Procs
    BY DEF Procs
  <2> QED
    BY <1>1, <2>1, MovesOne DEF ParagraphMoves, TypeOK, ProcsType
<1>3. PICK c : c = loc[w].cur
  OBVIOUS
<1>4. /\ c \in Paras /\ UNCHANGED doc
      /\ \A p \in Paras \ {c} : para'[p] = para[p]
      /\ \/ pc[w] = "pstart" /\ l = "read" /\ para'[c] \in {"STARTED", "GONE"}
         \/ pc[w] # "pstart" /\ l \in ParagraphPcs \ {"pstart"} /\ para'[c] = para[c]
         \/ pc[w] # "pstart" /\ l = "next" /\ para'[c] \in {"SUCCESS", "FAILURE", "GONE"}
  BY <1>2, <1>3, ParagraphStatus
<1>5. /\ r.doc = loc[w].doc /\ r.states = loc[w].states /\ r.pages = loc[w].pages
      /\ r.todo = loc[w].todo /\ pc[w] \in ParagraphPcs
      /\ l \in ParagraphPcs => r.cur = c
  BY <1>1, <1>3 DEF ParagraphMoves
<1>6. /\ l \in {"next"} \cup ParagraphPcs
      /\ {"page", "post_read", "post_doc", "post_paras", "agg", "unlock", "release"}
            \cap ({"next"} \cup ParagraphPcs) = {}
  BY <1>4 DEF ParagraphPcs
<1>7. \/ doc[r.doc] \in Interruption
      \/ \A p \in Pending(r.doc) :
            \/ p \in r.todo
            \/ pc[w] = "pstart" /\ p = c
            \/ Ahead(p, r.states, r.pages) /\ (\A x \in r.todo : p < x) /\ p < c
  BY <1>3, <1>5 DEF Covered
<1>8. ASSUME NEW p \in Pending(r.doc)', doc[r.doc] \notin Interruption
      PROVE  \/ p \in r.todo
             \/ /\ Ahead(p, r.states, r.pages)'
                /\ \A x \in r.todo : p < x
                /\ l \in ParagraphPcs => p < r.cur
  <2>1. p \in Paras /\ DocOf[p] = r.doc /\ para'[p] = "PENDING"
    BY DEF Pending, Matching
  <2>2. para[p] = "PENDING" /\ (p = c => pc[w] # "pstart")
    BY <1>4, <2>1
  <2>3. p \in Pending(r.doc)
    BY <2>1, <2>2 DEF Pending, Matching
  <2>4. CASE p \in r.todo
    BY <2>4
  <2>5. CASE Ahead(p, r.states, r.pages) /\ (\A x \in r.todo : p < x) /\ p < c
    <3>1. \A x \in Paras : x < p => x # c
      BY <1>4, <2>1, <2>5, Constants
    <3>2. r.states \in SUBSET State /\ r.pages \in Nat
      BY <1>2 DEF Locals
    <3>3. Ahead(p, r.states, r.pages)'
      BY <1>4, <2>1, <2>5, <3>1, <3>2, AheadStays
    <3> QED
      BY <1>5, <2>5, <3>3
  <2> QED
    BY <1>7, <1>8, <2>2, <2>3, <2>4, <2>5
<1>9. Covered(l, r)'
  BY <1>4, <1>6, <1>8 DEF Covered
<1> QED
  BY <1>2, <1>9

\* The queries of a task, from the count of the pages to the last paragraph of a page.
LEMMA PageCovers ==
    ASSUME TypeOK, TypeOK', Lists, NEW w \in Workers, Covered(pc[w], loc[w]),
           Count(w) \/ NextPage(w) \/ NextParagraph(w)
    PROVE  Covered(pc[w], loc[w])'
<1>1. PICK l, r, o : l = pc'[w] /\ r = loc'[w] /\ o = loc[w]
  OBVIOUS
<1>2. /\ w \in Procs /\ pc \in [Procs -> WorkerPcs \cup UserPcs] /\ loc \in [Procs -> Locals]
      /\ r \in Locals /\ o \in Locals
  BY <1>1 DEF Procs, TypeOK, ProcsType
<1>3. UNCHANGED <<doc, para>>
  BY DEF Count, NextPage, NextParagraph, db
<1>4. pc[w] # "idle" /\ Covered(pc[w], o) /\ "PENDING" \in o.states /\ o.states \in SUBSET State
  BY <1>1, <1>2 DEF Count, NextPage, NextParagraph, Lists, Locals
<1>5. o.pages \in Nat /\ o.todo \in SUBSET Paras
  BY <1>2 DEF Locals
<1>6. {"page", "next"} \cap ParagraphPcs = {} /\ "pstart" \in ParagraphPcs
      /\ "post_read" \notin {"next"} \cup ParagraphPcs
  BY DEF ParagraphPcs
<1>7. \A p \in Pending(o.doc) : p \in Paras /\ DocOf[p] = o.doc /\ para[p] \in o.states
  BY <1>4 DEF Pending, Matching
<1>8. \A p : Ahead(p, o.states, o.pages)' <=> Ahead(p, o.states, o.pages)
  BY <1>3 DEF Ahead, Rank, Matching
<1>9. Pending(o.doc)' = Pending(o.doc)
  BY <1>3 DEF Pending, Matching
<1>10. CASE Count(w)
  <2> DEFINE n == PageCount(Cardinality(Matching(o.doc, o.states)))
  <2>1. l = "page" /\ r.doc = o.doc /\ r.states = o.states /\ r.pages = n
    BY <1>1, <1>2, <1>10 DEF Count, Goto, Locals
  <2>2. \A p \in Pending(o.doc) : Ahead(p, o.states, n)
    BY <1>4, <1>7, AheadOfAll
  <2> HIDE DEF n
  <2>3. PICK m : m = n
    OBVIOUS
  <2>4. \A p \in Pending(o.doc) : Ahead(p, o.states, m)
    BY <2>2, <2>3
  <2>5. \A p \in Pending(o.doc)' : Ahead(p, o.states, m)'
    BY <1>3, <1>9, <2>4 DEF Ahead, Rank, Matching
  <2>6. Covered(l, r)'
    BY <1>6, <2>1, <2>3, <2>5 DEF Covered
  <2> QED
    BY <1>1, <2>6
<1>11. CASE NextPage(w) /\ (o.pages = 0 \/ DocInterrupted(o.doc))
  <2>1. l = "post_read" /\ r = o /\ pc[w] = "page"
    BY <1>1, <1>2, <1>11 DEF NextPage, Goto
  <2>2. doc[o.doc] \in Interruption \/ Pending(o.doc) = {}
    <3>1. CASE DocInterrupted(o.doc)
      BY <3>1 DEF DocInterrupted, Interruption
    <3>2. CASE o.pages = 0
      <4>1. \A p \in Pending(o.doc) : ~ Ahead(p, o.states, o.pages)
        <5>1. ASSUME NEW p \in Pending(o.doc) PROVE Rank(p, o.states) \in Nat
          BY FS_Subset, FS_CardinalityType, Constants DEF Rank, Matching
        <5>2. \A p \in Pending(o.doc) : ~ (Rank(p, o.states) < 0 * PageSize)
          BY <5>1, Constants
        <5> QED
          BY <3>2, <5>2 DEF Ahead
      <4> QED
        BY <1>4, <2>1, <4>1 DEF Covered
    <3> QED
      BY <1>11, <3>1, <3>2
  <2>3. Covered(l, r)'
    BY <1>3, <1>6, <1>9, <2>1, <2>2 DEF Covered
  <2> QED
    BY <1>1, <2>3
<1>12. CASE NextPage(w) /\ o.pages # 0 /\ ~ DocInterrupted(o.doc)
  <2> DEFINE P == Page(Matching(o.doc, o.states), o.pages - 1)
  <2>1. /\ l = "next" /\ pc[w] = "page" /\ r.doc = o.doc /\ r.states = o.states
        /\ r.pages = o.pages - 1 /\ r.todo = P
    BY <1>1, <1>2, <1>12 DEF NextPage, Goto, Locals
  <2>2. ASSUME NEW p \in Pending(o.doc), p \notin P, doc[o.doc] \notin Interruption
        PROVE  Ahead(p, o.states, o.pages - 1) /\ \A x \in P : p < x
    <3>1. Ahead(p, o.states, o.pages)
      BY <1>4, <2>1, <2>2 DEF Covered
    <3> QED
      BY <1>4, <1>5, <1>7, <1>12, <2>2, <3>1, PageOrAhead
  <2> HIDE DEF P
  <2>3. PICK m, t : m = o.pages - 1 /\ t = P
    OBVIOUS
  <2>4. \A p : Ahead(p, o.states, m)' <=> Ahead(p, o.states, m)
    BY <1>3 DEF Ahead, Rank, Matching
  <2>5. Covered(l, r)'
    BY <1>3, <1>6, <1>9, <2>1, <2>2, <2>3, <2>4 DEF Covered
  <2> QED
    BY <1>1, <2>5
<1>13. CASE NextParagraph(w) /\ (o.todo = {} \/ DocInterrupted(o.doc))
  <2>1. /\ l = "page" /\ pc[w] = "next" /\ r.doc = o.doc /\ r.states = o.states
        /\ r.pages = o.pages
    BY <1>1, <1>2, <1>13 DEF NextParagraph, Goto, Locals
  <2>2. doc[o.doc] \in Interruption \/ \A p \in Pending(o.doc) : Ahead(p, o.states, o.pages)
    BY <1>4, <1>6, <1>13, <2>1 DEF Covered, DocInterrupted, Interruption
  <2>3. Covered(l, r)'
    BY <1>3, <1>6, <1>8, <1>9, <2>1, <2>2 DEF Covered
  <2> QED
    BY <1>1, <2>3
<1>14. CASE NextParagraph(w) /\ o.todo # {} /\ ~ DocInterrupted(o.doc)
  <2>1. PICK c : c = First(o.todo)
    OBVIOUS
  <2>2. /\ l = "pstart" /\ pc[w] = "next" /\ r.doc = o.doc /\ r.states = o.states
        /\ r.pages = o.pages /\ r.todo = o.todo \ {c} /\ r.cur = c
    BY <1>1, <1>2, <1>14, <2>1 DEF NextParagraph, Goto, Locals
  <2>3. c \in o.todo
    BY <1>5, <1>14, <2>1, FirstType
  <2>4. \/ doc[o.doc] \in Interruption
        \/ \A p \in Pending(o.doc) :
            p \in o.todo \/ (Ahead(p, o.states, o.pages) /\ \A x \in o.todo : p < x)
    BY <1>4, <1>6, <2>2 DEF Covered
  <2>5. Covered(l, r)'
    BY <1>3, <1>6, <1>8, <1>9, <2>2, <2>3, <2>4 DEF Covered
  <2> QED
    BY <1>1, <2>5
<1> QED
  BY <1>1, <1>10, <1>11, <1>12, <1>13, <1>14

\* What a task finds and says of its document outside the pages.
LEMMA VerdictCovers ==
    ASSUME TypeOK, TypeOK', Carried, NEW w \in Workers, Covered(pc[w], loc[w]),
           \/ Take(w) \/ TryLock(w) \/ Check(w) \/ Start(w) \/ PostRead(w) \/ PostDoc(w)
           \/ PostParas(w) \/ PostAggregate(w) \/ UnLock(w) \/ Release(w)
    PROVE  Covered(pc[w], loc[w])'
<1>1. PICK l, r, o : l = pc'[w] /\ r = loc'[w] /\ o = loc[w]
  OBVIOUS
<1>2. /\ w \in Procs /\ pc \in [Procs -> WorkerPcs \cup UserPcs] /\ loc \in [Procs -> Locals]
      /\ doc \in [Docs -> Row] /\ para \in [Paras -> Row] /\ r \in Locals /\ o \in Locals
  BY <1>1 DEF Procs, TypeOK, ProcsType, DatabaseType
<1>3. Covered(pc[w], o)
  BY <1>1
<1>4. pc[w] # "idle" /\ pc[w] \notin ParagraphPcs => o.doc \in Docs
  BY <1>1, <1>2 DEF TypeOK, ProcsType, AtType
<1>5. {"idle", "lock", "check", "start", "count", "page", "post_read", "post_doc", "post_paras",
       "agg", "unlock", "release"} \cap ({"next"} \cup ParagraphPcs) = {}
  BY DEF ParagraphPcs
<1>6. CASE Take(w)
  <2>1. l \in {"lock", "release"} /\ r.doc = Head(queue).doc
    BY <1>1, <1>2, <1>6 DEF Take, Goto, Blank
  <2>2. CASE l = "release"
    <3>1. doc' = SetDoc(r.doc, "FAILURE")
      BY <1>1, <1>2, <1>6, <2>1, <2>2 DEF Take, Goto
    <3>2. r.doc \in Docs
      BY <1>1, <1>2, <2>2, TypeNext DEF TypeOK, ProcsType, AtType, WorkerPcs, ParagraphPcs
    <3>3. doc'[r.doc] \in Closed
      BY <1>2, <3>1, <3>2 DEF SetDoc, Closed
    <3>4. Covered(l, r)'
      BY <1>5, <2>2, <3>3 DEF Covered, Settled
    <3> QED
      BY <1>1, <3>4
  <2>3. CASE l = "lock"
    <3>1. Covered(l, r)'
      BY <1>5, <2>3 DEF Covered
    <3> QED
      BY <1>1, <3>1
  <2> QED
    BY <2>1, <2>2, <2>3
<1>7. CASE TryLock(w)
  <2>1. CASE l = "check"
    <3>1. Covered(l, r)'
      BY <1>5, <2>1 DEF Covered
    <3> QED
      BY <1>1, <3>1
  <2>2. CASE l # "check"
    <3>1. pc[w] = "lock" /\ o.doc \in Docs
      BY <1>4, <1>5, <1>7 DEF TryLock
    <3>2. l = "release" /\ UNCHANGED <<doc, loc>> /\ doc[o.doc] = "GONE"
      BY <1>1, <1>7, <2>2, <3>1, RefusedIsGone DEF Carried
    <3>3. r = o /\ doc'[r.doc] \in Closed
      BY <1>1, <3>2 DEF Closed
    <3>4. Covered(l, r)'
      BY <1>5, <3>2, <3>3 DEF Covered, Settled
    <3> QED
      BY <1>1, <3>4
  <2> QED
    BY <2>1, <2>2
<1>8. CASE Check(w)
  <2>1. /\ r = o /\ UNCHANGED doc
        /\ l = IF DocInterrupted(o.doc) THEN "post_read" ELSE "start"
    BY <1>1, <1>2, <1>8 DEF Check, Goto, db
  <2>2. Covered(l, r)'
    BY <1>5, <2>1 DEF Covered, DocInterrupted, Interruption
  <2> QED
    BY <1>1, <2>2
<1>9. CASE Start(w) \/ Release(w)
  <2>1. l \in {"count", "idle"}
    BY <1>1, <1>2, <1>9 DEF Start, Release, Goto, End
  <2>2. Covered(l, r)'
    BY <1>5, <2>1 DEF Covered
  <2> QED
    BY <1>1, <2>2
<1>10. CASE PostRead(w)
  <2>1. pc[w] = "post_read" /\ UNCHANGED <<doc, para>> /\ r.doc = o.doc
    BY <1>1, <1>2, <1>10 DEF PostRead, db, Locals
  <2>2. \/ l = "release" /\ doc[o.doc] = "GONE"
        \/ /\ l = "post_doc" /\ doc[o.doc] # "GONE"
           /\ r.kept = IF aggs[o.doc] THEN "FAILURE"
                       ELSE IF doc[o.doc] = "REVOKE" THEN "REVOKED" ELSE "SUCCESS"
    BY <1>1, <1>2, <1>10 DEF PostRead, Goto, Locals
  <2>3. doc[o.doc] \in Interruption \/ Pending(o.doc) = {}
    BY <1>3, <2>1 DEF Covered
  <2>4. Pending(o.doc)' = Pending(o.doc)
    BY <2>1 DEF Pending, Matching
  <2>5. CASE l = "release" /\ doc[o.doc] = "GONE"
    <3>1. Settled(r.doc)'
      BY <2>1, <2>5 DEF Settled, Closed
    <3>2. Covered(l, r)'
      BY <1>5, <2>5, <3>1 DEF Covered
    <3> QED
      BY <1>1, <3>2
  <2>6. CASE l = "post_doc" /\ doc[o.doc] # "GONE"
    <3>1. r.kept \in Closed \/ Pending(o.doc) = {}
      BY <2>2, <2>3, <2>6 DEF Interruption, Closed
    <3>2. Covered(l, r)'
      BY <1>5, <2>1, <2>4, <2>6, <3>1 DEF Covered
    <3> QED
      BY <1>1, <3>2
  <2> QED
    BY <2>2, <2>5, <2>6
<1>11. CASE PostDoc(w)
  <2>1. /\ pc[w] = "post_doc" /\ l = "post_paras" /\ r = o /\ UNCHANGED para
        /\ doc' = SetDoc(o.doc, o.kept)
    BY <1>1, <1>2, <1>11 DEF PostDoc, Goto
  <2>2. o.kept \in Closed \/ Pending(o.doc) = {}
    BY <1>3, <2>1 DEF Covered
  <2>3. o.kept \in Closed => doc'[o.doc] \in Closed
    BY <1>2, <1>4, <1>5, <2>1 DEF SetDoc, Closed
  <2>4. Pending(o.doc)' = Pending(o.doc)
    BY <2>1 DEF Pending, Matching
  <2>5. Covered(l, r)'
    BY <1>5, <2>1, <2>2, <2>3, <2>4 DEF Covered
  <2> QED
    BY <1>1, <2>5
<1>12. CASE PostParas(w)
  <2>1. /\ pc[w] = "post_paras" /\ l = "agg" /\ r = o /\ UNCHANGED doc
        /\ para' = SetParas(Matching(o.doc, {"REVOKE"}), "REVOKED")
    BY <1>1, <1>2, <1>12 DEF PostParas, Goto
  <2>2. doc[o.doc] \in Closed \/ Pending(o.doc) = {}
    BY <1>3, <2>1 DEF Covered
  <2>3. ASSUME Pending(o.doc) = {} PROVE Matching(o.doc, {"PENDING", "REVOKE"})' = {}
    BY <2>1, <2>3 DEF Pending, Matching, SetParas
  <2>4. Settled(o.doc)'
    BY <2>1, <2>2, <2>3 DEF Settled
  <2>5. Covered(l, r)'
    BY <1>5, <2>1, <2>4 DEF Covered
  <2> QED
    BY <1>1, <2>5
<1>13. CASE PostAggregate(w) \/ UnLock(w)
  <2>1. /\ pc[w] \in {"agg", "unlock"} /\ l \in {"unlock", "release"} /\ r = o
        /\ UNCHANGED <<doc, para>>
    BY <1>1, <1>2, <1>13 DEF PostAggregate, UnLock, Goto, db
  <2>2. Settled(o.doc)'
    BY <1>3, <2>1 DEF Covered, Settled, Matching
  <2>3. Covered(l, r)'
    BY <1>5, <2>1, <2>2 DEF Covered
  <2> QED
    BY <1>1, <2>3
<1> QED
  BY <1>6, <1>7, <1>8, <1>9, <1>10, <1>11, <1>12, <1>13

LEMMA EveryParagraphTask ==
    ASSUME OneAtATime, TypeOK, TypeOK', WorkersOnly, Carried, Lists, EveryParagraph,
           NEW w \in Workers, TaskStep(w)
    PROVE  EveryParagraph'
<1>1. w \in Procs /\ Workers \subseteq Procs /\ DocOf \in [Paras -> Docs]
  BY Constants DEF Procs
<1>2. \A x \in Procs \ {w} : pc'[x] = pc[x] /\ loc'[x] = loc[x]
  BY TaskAlone
<1>3. PICK h : h = IF Take(w) THEN Head(queue).doc ELSE loc[w].doc
  OBVIOUS
<1>4. /\ \A d \in Docs : doc'[d] = "GONE" <=> doc[d] = "GONE"
      /\ \A p \in Paras : para'[p] = "GONE" <=> para[p] = "GONE"
      /\ \A d \in Docs : h # d =>
            /\ doc'[d] = doc[d]
            /\ \A p \in Paras : DocOf[p] = d => para'[p] = para[p]
  BY <1>3, TaskElsewhere DEF Carried
<1>5. DocMoves
  BY TaskDoc DEF Carried
<1>0. raised \subseteq raised' /\ (TaskError(w) => raised' = raised \cup {h})
  BY <1>3 DEF TaskStep, Take, TryLock, Check, Start, Count, NextPage, NextParagraph, PostRead,
    PostDoc, PostParas, PostAggregate, TaskError, TaskRaises, UnLock, Release, ParagraphStep,
    ParagraphStart, ReadText, DeleteVectors, Embed, Recheck, Insert, ParagraphDone,
    ParagraphError, ParagraphFailed, keys
<1>6. \A d \in Docs : h # d => Fades(d) /\ (Settled(d)' <=> Settled(d))
  BY <1>4, <1>0 DEF Fades, Settled, Matching
<1>7. \A p \in Paras : doc'[DocOf[p]] = "GONE" => para'[p] = "GONE"
  BY <1>1, <1>4 DEF EveryParagraph
<1>8. ASSUME NEW p \in Paras, para'[p] = "STARTED"
      PROVE  \/ DocOf[p] \in raised'
             \/ \E x \in Workers : pc'[x] \in ParagraphPcs /\ loc'[x].cur = p
  <2>1. ASSUME NEW x \in Workers, x # w, pc[x] \in ParagraphPcs, loc[x].cur = p
        PROVE  pc'[x] \in ParagraphPcs /\ loc'[x].cur = p
    BY <1>1, <1>2, <2>1
  <2>2. CASE ParagraphStep(w)
    <3>1. PICK l, r : ParagraphMoves(w, l, r)
      BY <2>2, ParagraphView
    <3>2. pc'[w] = l /\ loc'[w] = r /\ pc[w] \in ParagraphPcs
      BY <1>1, <3>1, MovesOne DEF ParagraphMoves
    <3>3. PICK c : c = loc[w].cur
      OBVIOUS
    <3>4. /\ p # c => para[p] = "STARTED"
          /\ p = c => l \in ParagraphPcs
      BY <1>8, <2>2, <3>2, <3>3, ParagraphStatus DEF ParagraphPcs
    <3>5. p = c => pc'[w] \in ParagraphPcs /\ loc'[w].cur = p
      BY <3>1, <3>2, <3>3, <3>4 DEF ParagraphMoves
    <3>6. p # c => \/ DocOf[p] \in raised
                   \/ \E x \in Workers \ {w} : pc[x] \in ParagraphPcs /\ loc[x].cur = p
      BY <3>3, <3>4 DEF EveryParagraph
    <3> QED
      BY <1>0, <2>1, <3>5, <3>6
  <2>3. CASE ~ ParagraphStep(w)
    <3>1. para[p] = "STARTED"
      <4>1. UNCHANGED para \/ \E d \in Docs : para' = SetParas(Matching(d, {"REVOKE"}), "REVOKED")
        BY <2>3, TaskView
      <4> QED
        BY <1>8, <4>1 DEF SetParas
    <3>2. pc[w] \notin ParagraphPcs \/ TaskError(w)
      BY <2>3 DEF TaskStep, Take, TryLock, Check, Start, Count, NextPage, NextParagraph,
        PostRead, PostDoc, PostParas, PostAggregate, TaskRaises, UnLock, Release, ParagraphPcs
    <3>3. CASE pc[w] \in ParagraphPcs /\ loc[w].cur = p
      <4>1. TaskError(w) /\ ~ Take(w)
        BY <3>2, <3>3 DEF Take, ParagraphPcs
      <4>2. DocOf[p] = loc[w].doc
        BY <3>3 DEF WorkersOnly, Lawful
      <4> QED
        BY <1>3, <1>0, <4>1, <4>2
    <3>4. CASE ~ (pc[w] \in ParagraphPcs /\ loc[w].cur = p)
      BY <1>0, <2>1, <3>1, <3>4 DEF EveryParagraph
    <3> QED
      BY <3>3, <3>4
  <2> QED
    BY <2>2, <2>3
<1>9. ASSUME NEW x \in Workers, loc'[x].doc \notin raised' PROVE Covered(pc[x], loc[x])'
  <2>1. CASE x = w
    <3>1. ~ TaskError(w)
      <4>1. ASSUME TaskError(w) PROVE loc'[w].doc = h /\ h \in raised'
        BY <1>1, <1>3, <1>0, <4>1 DEF TaskError, Take, Blank, TypeOK, ProcsType
      <4> QED
        BY <1>9, <2>1, <4>1
    <3>2. CASE Release(w)
      <4>1. pc'[w] = "idle"
        BY <1>1, <3>2 DEF Release, End, TypeOK, ProcsType
      <4>2. PICK r : r = loc'[w]
        OBVIOUS
      <4>3. Covered("idle", r)'
        BY DEF Covered, ParagraphPcs
      <4> QED
        BY <2>1, <4>1, <4>2, <4>3
    <3>3. ASSUME ~ Release(w) PROVE Covered(pc[w], loc[w])
      <4>1. CASE pc[w] = "idle"
        BY <4>1 DEF Covered, ParagraphPcs
      <4>2. CASE pc[w] # "idle"
        <5>1. ~ Take(w)
          BY <4>2 DEF Take
        <5>2. \E l, r : Moves(w, l, r) /\ r.doc = loc[w].doc
          <6>1. CASE ParagraphStep(w)
            BY <6>1, ParagraphView DEF ParagraphMoves
          <6>2. CASE ~ ParagraphStep(w)
            BY <3>3, <5>1, <6>2, TaskView DEF TaskMoves
          <6> QED
            BY <6>1, <6>2
        <5>3. loc'[w].doc = loc[w].doc
          BY <1>1, <5>2, MovesOne
        <5> QED
          BY <1>9, <1>0, <2>1, <5>3 DEF EveryParagraph
      <4> QED
        BY <4>1, <4>2
    <3> QED
      BY <2>1, <3>1, <3>2, <3>3, ParagraphCovers, PageCovers, VerdictCovers, NobodyRaises
      DEF TaskStep
  <2>2. CASE x # w
    <3>1. PICK l, r : l = pc[x] /\ r = loc[x]
      OBVIOUS
    <3>2. /\ pc'[x] = l /\ loc'[x] = r /\ r \in Locals /\ x \in Procs
          /\ r.doc \notin raised
      BY <1>1, <1>2, <1>9, <1>0, <2>2, <3>1 DEF TypeOK, ProcsType
    <3>3. CASE l \notin {"page", "next", "post_read", "post_doc", "post_paras", "agg",
                         "unlock", "release"} \cup ParagraphPcs
      <4>1. Covered(l, r)'
        BY <3>3 DEF Covered
      <4> QED
        BY <3>2, <4>1
    <3>4. CASE l # "idle"
      <4>1. r.doc \in Docs
        BY <3>1, <3>2, <3>4 DEF TypeOK, ProcsType, AtType
      <4>2. Holds(x, r.doc)
        BY <3>1, <3>4 DEF Holds
      <4>3. r.doc # h
        <5>1. CASE Take(w)
          <6>1. Queued(h)
            <7>1. queue \in Seq(Tasks) /\ queue # <<>>
              BY <5>1 DEF Take, TypeOK, KeysType
            <7>2. 1 \in DOMAIN queue /\ queue[1].doc = h
              BY <1>3, <5>1, <7>1
            <7> QED
              BY <7>2 DEF Queued
          <6> QED
            BY <1>1, <3>2, <4>1, <4>2, <6>1 DEF Carried, Carriers
        <5>2. CASE ~ Take(w)
          <6>1. pc[w] # "idle"
            BY <5>2 DEF TaskStep, TryLock, Check, Start, Count, NextPage, NextParagraph,
              PostRead, PostDoc, PostParas, PostAggregate, TaskError, TaskRaises, UnLock,
              Release, ParagraphStep, ParagraphStart, ReadText, DeleteVectors, Embed, Recheck,
              Insert, ParagraphDone, ParagraphError, ParagraphFailed
          <6>2. Holds(w, h)
            BY <1>3, <5>2, <6>1 DEF Holds
          <6> QED
            BY <1>1, <2>2, <3>2, <4>1, <4>2, <6>2 DEF Carried, Carriers
        <5> QED
          BY <5>1, <5>2
      <4>4. l \notin ParagraphPcs => NoneRuns(r.doc)
        <5>1. ASSUME NEW y \in Workers, Holds(y, r.doc) PROVE y = x
          BY <1>1, <3>2, <4>1, <4>2, <5>1 DEF Carried, Carriers
        <5> QED
          BY <3>1, <3>2, <4>1, <5>1, QuietDocument
      <4>5. Covered(l, r)
        BY <3>1, <3>2 DEF EveryParagraph
      <4>6. Covered(l, r)'
        BY <1>6, <3>2, <4>1, <4>3, <4>4, <4>5, CoveredStays
      <4> QED
        BY <3>2, <4>6
    <3>5. "idle" \notin ParagraphPcs
      BY DEF ParagraphPcs
    <3> QED
      BY <3>3, <3>4, <3>5
  <2> QED
    BY <2>1, <2>2
<1>10. ASSUME NEW d \in Docs
       PROVE  Queued(d)' \/ (\E q \in Procs : Holds(q, d)') \/ d \in raised' \/ Settled(d)'
  <2>1. Queued(d) \/ (\E q \in Procs : Holds(q, d)) \/ d \in raised \/ Settled(d)
    BY DEF EveryParagraph
  <2>2. CASE Take(w)
    <3>1. \A q \in Procs : Holds(q, d) => Holds(q, d)'
      BY <1>5, <2>2, TakeCarriers DEF Carried
    <3>2. Queued(d) => Queued(d)' \/ Holds(w, d)'
      BY <1>5, <2>2, TakeCarriers DEF Carried
    <3>3. h = d => Queued(d)
      <4>1. queue \in Seq(Tasks) /\ queue # <<>>
        BY <2>2 DEF Take, TypeOK, KeysType
      <4>2. 1 \in DOMAIN queue /\ queue[1].doc = h
        BY <1>3, <2>2, <4>1
      <4> QED
        BY <4>2 DEF Queued
    <3> QED
      BY <1>1, <1>6, <1>0, <2>1, <3>1, <3>2, <3>3
  <2>3. CASE Release(w)
    <3>1. UNCHANGED queue /\ \A q \in Procs : Holds(q, d) => q = w \/ Holds(q, d)'
      BY <1>5, <2>3, ReleaseCarriers DEF Carried
    <3>2. Settled(d)' <=> Settled(d)
      BY <2>3 DEF Release, db, Settled, Matching
    <3>3. Holds(w, d) => d \in raised \/ Settled(d)
      <4>1. pc[w] = "release" /\ w \notin Users
        BY <2>3, Constants DEF Release
      <4>2. loc[w].doc \in raised \/ Settled(loc[w].doc)
        BY <4>1 DEF EveryParagraph, Covered
      <4> QED
        BY <4>2 DEF Holds
    <3>4. Queued(d)' <=> Queued(d)
      BY <3>1 DEF Queued
    <3> QED
      BY <1>0, <2>1, <3>1, <3>2, <3>3, <3>4
  <2>4. CASE ~ Take(w) /\ ~ Release(w)
    <3>1. SameHolders /\ UNCHANGED queue
      BY <2>4, TaskHolds
    <3>2. Queued(d)' <=> Queued(d)
      BY <3>1 DEF Queued
    <3>3. h = d => Holds(w, d)
      BY <1>3, <2>4 DEF Holds, TaskStep, TryLock, Check, Start, Count, NextPage, NextParagraph,
        PostRead, PostDoc, PostParas, PostAggregate, TaskError, TaskRaises, UnLock,
        ParagraphStep, ParagraphStart, ReadText, DeleteVectors, Embed, Recheck, Insert,
        ParagraphDone, ParagraphError, ParagraphFailed
    <3> QED
      BY <1>1, <1>6, <1>0, <2>1, <3>1, <3>2, <3>3 DEF SameHolders
  <2> QED
    BY <2>2, <2>3, <2>4
<1> QED
  BY <1>7, <1>8, <1>9, <1>10 DEF EveryParagraph

\* Requests leave a document to those who carry it, but for cancels and deletions.
LEMMA RequestFades ==
    ASSUME OneAtATime, OnlyTasksDeclare, TypeOK, WorkersOnly, Verdicts, Lists, EveryParagraph,
           NEW u \in Users, RequestStart(u) \/ RequestStep(u)
    PROVE  /\ \A p \in Paras : doc'[DocOf[p]] = "GONE" => para'[p] = "GONE"
           /\ \A p \in Paras : para'[p] = "STARTED" => para[p] = "STARTED"
           /\ \A p \in Paras : para'[p] = "STARTED" /\ DocOf[p] \in raised =>
                DocOf[p] \in raised'
           /\ \A d \in Docs :
                Holds(u, d) \/ (\E S \in StateLists : RefreshStart(u, d, S)) \/ Fades(d)
<1>1. /\ u \in Procs /\ doc \in [Docs -> Row] /\ para \in [Paras -> Row]
      /\ DocOf \in [Paras -> Docs] /\ loc[u] \in Locals
      /\ \A p \in Paras : doc[DocOf[p]] = "GONE" => para[p] = "GONE"
  BY Constants DEF Procs, TypeOK, DatabaseType, ProcsType, EveryParagraph
<1> DEFINE Goal ==
        /\ \A p \in Paras : doc'[DocOf[p]] = "GONE" => para'[p] = "GONE"
        /\ \A p \in Paras : para'[p] = "STARTED" => para[p] = "STARTED"
        /\ \A p \in Paras : para'[p] = "STARTED" /\ DocOf[p] \in raised =>
             DocOf[p] \in raised'
        /\ \A d \in Docs :
             Holds(u, d) \/ (\E S \in StateLists : RefreshStart(u, d, S)) \/ Fades(d)
<1>0. ~ RefreshParagraphs(u) => UNCHANGED raised
  BY DEF RequestStart, RequestStep, RefreshStart, RefreshAggregate, RefreshDelay,
    CancelParagraphs, CancelDocument, EditDocumentRead, EditDocumentSave, EditParagraphRead,
    EditParagraphSave, CreateParagraph, DeleteParagraphRow, DeleteParagraphVectors,
    DeleteDocument, ParagraphStep, ParagraphStart, ReadText, DeleteVectors, Embed, Recheck,
    Insert, ParagraphDone, ParagraphError, ParagraphFailed, keys
<1>2. ASSUME NEW d \in Docs, doc'[d] = doc[d], d \in raised => d \in raised',
             \A p \in Paras : DocOf[p] = d => para'[p] = para[p]
      PROVE  Fades(d)
  BY <1>2 DEF Fades
<1>3. CASE UNCHANGED <<doc, para>> /\ ~ RefreshParagraphs(u)
  <2>1. Goal
    BY <1>0, <1>1, <1>2, <1>3
  <2> QED
    BY <2>1
<1>4. ASSUME NEW h \in Docs, NEW S \in StateLists, RefreshStart(u, h, S) PROVE Goal
  <2>1. doc' = SetDoc(h, "PENDING") /\ UNCHANGED <<para, raised>>
    BY <1>4 DEF RefreshStart, keys
  <2>2. \A d \in Docs : /\ doc'[d] = "GONE" => doc[d] = "GONE"
                        /\ d # h => doc'[d] = doc[d]
    BY <1>1, <2>1 DEF SetDoc
  <2> QED
    BY <1>1, <1>2, <1>4, <2>1, <2>2
<1>5. CASE RefreshParagraphs(u)
  <2>1. PICK h : h = loc[u].doc
    OBVIOUS
  <2>2. /\ UNCHANGED doc /\ pc[u] = "r_paras" /\ loc[u].states \subseteq State
        /\ para' = SetParas(Matching(h, loc[u].states), "PENDING")
        /\ "STARTED" \in loc[u].states /\ raised' = raised \ {h}
    BY <1>1, <1>5, <2>1 DEF RefreshParagraphs, Locals, Lists, Refreshing
  <2>3. \A p \in Paras : /\ para'[p] \in {para[p], "PENDING"}
                         /\ para[p] = "GONE" => para'[p] = "GONE"
                         /\ DocOf[p] # h => para'[p] = para[p]
                         /\ DocOf[p] = h => para'[p] # "STARTED"
    BY <2>2 DEF SetParas, Matching, State
  <2>4. Holds(u, h)
    BY <2>1, <2>2 DEF Holds, Refreshing
  <2>5. \A d \in Docs : d # h => Fades(d)
    BY <1>2, <2>2, <2>3
  <2>6. Goal
    BY <1>1, <2>2, <2>3, <2>4, <2>5
  <2> QED
    BY <2>6
<1>6. ASSUME NEW h \in Docs, CancelParagraphs(u, h) PROVE Goal
  <2>1. /\ UNCHANGED <<doc, raised>>
        /\ para' = SetParas(Matching(h, {"PENDING", "STARTED"}), "REVOKE")
    BY <1>6 DEF CancelParagraphs, keys
  <2>2. \A p \in Paras :
            IF DocOf[p] = h /\ para[p] \in {"PENDING", "STARTED"}
            THEN para'[p] = "REVOKE" ELSE para'[p] = para[p]
    BY <2>1 DEF SetParas, Matching
  <2>3. Fades(h)
    BY <2>1, <2>2 DEF Fades
  <2>4. \A d \in Docs : Fades(d)
    BY <1>2, <2>1, <2>2, <2>3
  <2> QED
    BY <1>1, <2>1, <2>2, <2>4
<1>7. CASE CancelDocument(u)
  <2>1. PICK h : h = loc[u].doc
    OBVIOUS
  <2>2. /\ UNCHANGED <<para, raised>>
        /\ doc' = IF doc[h] \in {"PENDING", "STARTED"} THEN SetDoc(h, "REVOKE") ELSE doc
    BY <1>7, <2>1 DEF CancelDocument, keys
  <2>3. \A d \in Docs : doc'[d] = doc[d] \/ (doc[d] \in {"PENDING", "STARTED"} /\ doc'[d] = "REVOKE")
    BY <1>1, <2>2 DEF SetDoc
  <2>4. \A d \in Docs : Fades(d)
    BY <2>2, <2>3 DEF Fades, Interruption, Closed
  <2>5. Goal
    BY <1>1, <2>2, <2>3, <2>4
  <2> QED
    BY <2>5
<1>8. ASSUME NEW x \in Paras, DeleteParagraphRow(u, x) PROVE Goal
  <2>1. /\ UNCHANGED <<doc, raised>>
        /\ \A p \in Paras : para'[p] = IF p = x THEN "GONE" ELSE para[p]
    BY <1>1, <1>8 DEF DeleteParagraphRow, keys
  <2>2. \A d \in Docs : Fades(d)
    BY <2>1 DEF Fades
  <2> QED
    BY <1>1, <2>1, <2>2
<1>9. ASSUME NEW h \in Docs, DeleteDocument(u, h) PROVE Goal
  <2>1. /\ \A d \in Docs : doc'[d] = IF d = h THEN "GONE" ELSE doc[d]
        /\ \A p \in Paras : para'[p] = IF DocOf[p] = h THEN "GONE" ELSE para[p]
        /\ UNCHANGED raised
    BY <1>1, <1>9 DEF DeleteDocument, keys
  <2>2. \A d \in Docs : Fades(d)
    BY <2>1 DEF Fades, Interruption, Closed
  <2> QED
    BY <1>1, <2>1, <2>2
<1>10. /\ \A p \in Paras : ~ CreateParagraph(u, p) /\ ~ EditParagraphRead(u, p)
       /\ ~ EditDocumentSave(u) /\ ~ EditParagraphSave(u) /\ ~ ParagraphStep(u)
  BY DEF CreateParagraph, EditParagraphRead, Begin, Admit, OnlyTasksDeclare, EditDocumentSave,
    EditParagraphSave, Verdicts, WorkersOnly, ParagraphStep, ParagraphStart, ReadText,
    DeleteVectors, Embed, Recheck, Insert, ParagraphDone, ParagraphError, ParagraphFailed,
    ParagraphPcs
<1> QED
  BY <1>3, <1>4, <1>5, <1>6, <1>7, <1>8, <1>9, <1>10
  DEF RequestStart, RequestStep, RefreshAggregate, RefreshDelay, EditDocumentRead,
    DeleteParagraphVectors, db

LEMMA EveryParagraphRequest ==
    ASSUME OneAtATime, OnlyTasksDeclare, TypeOK, WorkersOnly, Carried, Lists, EveryParagraph,
           NEW u \in Users, RequestStart(u) \/ RequestStep(u)
    PROVE  EveryParagraph'
<1>1. u \in Procs /\ u \notin Workers /\ Workers \subseteq Procs
  BY Constants DEF Procs
<1>2. DocMoves
  BY RequestDoc DEF Carried
<1>3. /\ \A p \in Paras : doc'[DocOf[p]] = "GONE" => para'[p] = "GONE"
      /\ \A p \in Paras : para'[p] = "STARTED" => para[p] = "STARTED"
      /\ \A p \in Paras : para'[p] = "STARTED" /\ DocOf[p] \in raised => DocOf[p] \in raised'
      /\ \A d \in Docs :
           Holds(u, d) \/ (\E S \in StateLists : RefreshStart(u, d, S)) \/ Fades(d)
  BY RequestFades DEF Carried
<1>4. \A x \in Procs \ {u} : pc'[x] = pc[x] /\ loc'[x] = loc[x]
  <2>1. CASE \E d \in Docs, S \in StateLists : RefreshStart(u, d, S)
    BY <2>1 DEF RefreshStart, Goto, TypeOK, ProcsType
  <2>2. CASE RefreshDelay(u)
    BY <2>2 DEF RefreshDelay, End, TypeOK, ProcsType
  <2> QED
    BY <2>1, <2>2, RequestHolds DEF Carried
<1>5. \A p \in Paras : para'[p] = "STARTED" =>
        \/ DocOf[p] \in raised'
        \/ \E w \in Workers : pc'[w] \in ParagraphPcs /\ loc'[w].cur = p
  BY <1>1, <1>3, <1>4 DEF EveryParagraph
<1>6. ASSUME NEW d \in Docs, NEW S \in StateLists, RefreshStart(u, d, S)
      PROVE  \A q \in Procs : ~ Holds(q, d)
  <2>1. CASE doc[d] = "IGNORED"
    BY <2>1 DEF Carried, Carriers
  <2>2. CASE doc[d] # "IGNORED"
    <3>1. ~ Attended(d)
      BY <1>6, <2>2 DEF RefreshStart, Begin, Admit, RefreshKind, OneAtATime
    <3> QED
      BY <3>1 DEF Attended, Holds, Refreshing
  <2> QED
    BY <2>1, <2>2
<1>7. ASSUME NEW x \in Workers, loc'[x].doc \notin raised' PROVE Covered(pc[x], loc[x])'
  <2>1. PICK l, r : l = pc[x] /\ r = loc[x]
    OBVIOUS
  <2>2. pc'[x] = l /\ loc'[x] = r /\ r \in Locals /\ x \in Procs /\ x # u
    BY <1>1, <1>4, <2>1 DEF TypeOK, ProcsType
  <2>3. CASE l = "idle"
    <3>1. "idle" \notin ParagraphPcs
      BY DEF ParagraphPcs
    <3>2. Covered(l, r)'
      BY <2>3, <3>1 DEF Covered
    <3> QED
      BY <2>2, <3>2
  <2>4. CASE l # "idle"
    <3>1. r.doc \in Docs
      BY <2>1, <2>2, <2>4 DEF TypeOK, ProcsType, AtType
    <3>2. Holds(x, r.doc)
      BY <2>1, <2>4 DEF Holds
    <3>3. ~ Holds(u, r.doc)
      BY <1>1, <2>2, <3>1, <3>2 DEF Carried, Carriers
    <3>4. Fades(r.doc)
      BY <1>3, <1>6, <2>2, <3>1, <3>2, <3>3
    <3>8. r.doc \notin raised
      BY <1>7, <2>2, <3>4 DEF Fades
    <3>5. l \notin ParagraphPcs => NoneRuns(r.doc)
      <4>1. ASSUME NEW y \in Workers, Holds(y, r.doc) PROVE y = x
        BY <1>1, <2>2, <3>1, <3>2, <4>1 DEF Carried, Carriers
      <4> QED
        BY <2>1, <3>1, <3>8, <4>1, QuietDocument
    <3>6. Covered(l, r)
      BY <2>1, <3>8 DEF EveryParagraph
    <3>7. Covered(l, r)'
      BY <2>2, <3>4, <3>5, <3>6, CoveredStays
    <3> QED
      BY <2>2, <3>7
  <2> QED
    BY <2>3, <2>4
<1>8. ASSUME NEW d \in Docs
      PROVE  Queued(d)' \/ (\E q \in Procs : Holds(q, d)') \/ d \in raised' \/ Settled(d)'
  <2>1. ASSUME d \in raised \/ Settled(d), \A q \in Procs : ~ Holds(q, d),
               \A S \in StateLists : ~ RefreshStart(u, d, S)
        PROVE  d \in raised' \/ Settled(d)'
    <3>1. d \notin raised => NoneRuns(d)
      BY <1>1, <2>1, QuietDocument
    <3>2. Fades(d)
      BY <1>1, <1>3, <2>1
    <3>3. d \in raised => d \in raised'
      BY <3>2 DEF Fades
    <3> QED
      BY <2>1, <3>1, <3>2, <3>3, SettledStays
  <2>2. Queued(d) \/ (\E q \in Procs : Holds(q, d)) \/ d \in raised \/ Settled(d)
    BY DEF EveryParagraph
  <2>3. ASSUME NEW h \in Docs, NEW S \in StateLists, RefreshStart(u, h, S)
        PROVE  Queued(d)' \/ (\E q \in Procs : Holds(q, d)') \/ d \in raised' \/ Settled(d)'
    <3>1. UNCHANGED queue /\ Holds(u, h)' /\ \A q \in Procs : Holds(q, d) => Holds(q, d)'
      BY <1>2, <2>3, RefreshStartCarriers DEF Carried
    <3>2. Queued(d)' <=> Queued(d)
      BY <3>1 DEF Queued
    <3>3. (\E T \in StateLists : RefreshStart(u, d, T)) => Holds(u, d)'
      BY <1>2, RefreshStartCarriers DEF Carried
    <3> QED
      BY <1>1, <2>1, <2>2, <3>1, <3>2, <3>3
  <2>4. CASE RefreshDelay(u)
    <3>1. /\ Queued(d) \/ Holds(u, d) => Queued(d)'
          /\ \A q \in Procs : Holds(q, d) => q = u \/ Holds(q, d)'
      BY <1>2, <2>4, RefreshDelayCarriers DEF Carried
    <3>2. \A S \in StateLists : ~ RefreshStart(u, d, S)
      BY <2>4 DEF RefreshDelay, RefreshStart, Begin
    <3> QED
      BY <2>1, <2>2, <3>1, <3>2
  <2>5. CASE ~ RefreshDelay(u) /\ \A h \in Docs : \A S \in StateLists : ~ RefreshStart(u, h, S)
    <3>1. SameHolders /\ UNCHANGED queue
      BY <2>5, RequestHolds DEF Carried
    <3>2. Queued(d)' <=> Queued(d)
      BY <3>1 DEF Queued
    <3> QED
      BY <2>1, <2>2, <2>5, <3>1, <3>2 DEF SameHolders
  <2> QED
    BY <2>3, <2>4, <2>5
<1> QED
  BY <1>3, <1>5, <1>7, <1>8 DEF EveryParagraph

LEMMA EveryParagraphNext ==
    ASSUME OneAtATime, OnlyTasksDeclare, ListsNameUnfinished, TypeOK, WorkersOnly, Carried,
           Lists, EveryParagraph, [Next]_vars
    PROVE  EveryParagraph'
<1>1. CASE UNCHANGED <<doc, para, queue, raised, pc, loc>>
  <2>1. \A l, r : Covered(l, r)' <=> Covered(l, r)
    BY <1>1 DEF Covered, Settled, Pending, Matching, Ahead, Rank
  <2>2. \A d \in Docs : /\ Queued(d)' <=> Queued(d)
                        /\ Settled(d)' <=> Settled(d)
                        /\ \A q \in Procs : Holds(q, d)' <=> Holds(q, d)
    BY <1>1 DEF Queued, Settled, Matching, Holds
  <2> QED
    BY <1>1, <2>1, <2>2 DEF EveryParagraph
<1>2. CASE Rest \/ UNCHANGED vars
  BY <1>1, <1>2 DEF Rest, vars
<1>3. ASSUME NEW w \in Workers, TaskStep(w) PROVE EveryParagraph'
  BY <1>3, TypeNext, EveryParagraphTask
<1>4. ASSUME NEW u \in Users, RequestStart(u) \/ RequestStep(u) PROVE EveryParagraph'
  BY <1>4, EveryParagraphRequest
<1>5. CASE Fault
  BY <1>1, <1>5 DEF Fault, Crash, LockExpires, OnceExpires, EventInit, Admit, OneAtATime,
    OnlyTasksDeclare, db, keys
<1> QED
  BY <1>2, <1>3, <1>4, <1>5 DEF Next

\* Cancels, deletions, expiring keys, failing models, and a task that counts its pages once
\* while paragraphs come and go from the query: when the work on a document has ended, none
\* of its paragraphs is running, and none is left waiting or being cancelled unless the
\* document says FAILURE or REVOKED.  A task that raises may leave such paragraphs under a
\* SUCCESS; the next refresh of the document, whose list names them, makes it good.
THEOREM NoParagraphForgotten ==
    ASSUME OneAtATime, OnlyTasksDeclare, ListsNameUnfinished
    PROVE  Spec => []SettledParagraph
<1>1. ASSUME TypeOK, WorkersOnly, EveryParagraph PROVE SettledParagraph
  <2>1. ASSUME NEW p \in Paras, ~ AttendedParagraph(p), DocOf[p] \notin raised
        PROVE  /\ para[p] # "STARTED"
               /\ para[p] \in {"PENDING", "REVOKE"} => doc[DocOf[p]] \in {"FAILURE", "REVOKED"}
    <3>1. PICK d \in Docs : d = DocOf[p]
      BY Constants
    <3>2. ~ Queued(d) /\ (\A q \in Procs : pc[q] # "idle" => loc[q].doc # d /\ loc[q].cur # p)
      BY <2>1, <3>1 DEF AttendedParagraph, Attended, Queued
    <3>3. \A q \in Procs : ~ Holds(q, d)
      BY <3>2 DEF Holds, Refreshing
    <3>4. Settled(d)
      BY <1>1, <2>1, <3>1, <3>2, <3>3 DEF EveryParagraph
    <3>5. "idle" \notin ParagraphPcs /\ Workers \subseteq Procs
      BY DEF ParagraphPcs, Procs
    <3>6. para[p] # "STARTED"
      BY <1>1, <2>1, <3>1, <3>2, <3>5 DEF EveryParagraph
    <3>7. ASSUME para[p] \in {"PENDING", "REVOKE"} PROVE doc[d] \in {"FAILURE", "REVOKED"}
      <4>1. doc[d] # "GONE"
        BY <1>1, <3>1, <3>7 DEF EveryParagraph
      <4>2. p \in Matching(d, {"PENDING", "REVOKE"})
        BY <3>1, <3>7 DEF Matching
      <4> QED
        BY <3>4, <4>1, <4>2 DEF Settled, Closed
    <3> QED
      BY <3>1, <3>6, <3>7
  <2> QED
    BY <2>1 DEF SettledParagraph
<1>2. NothingIsEdited
  BY DEF OnlyTasksDeclare, NothingIsEdited
<1>3. Init => WorkersOnly /\ Carried /\ Lists /\ EveryParagraph
  BY WorkersOnlyInit, CarriedInit, EveryParagraphInit
<1>4. /\ TypeOK /\ LockInv /\ WorkersOnly /\ Carried /\ Lists /\ EveryParagraph /\ [Next]_vars
        => WorkersOnly' /\ Carried' /\ Lists' /\ EveryParagraph'
  BY <1>2, WorkersOnlyNext, CarriedNext, ListsNext, EveryParagraphNext DEF Carried
<1>5. TypeOK /\ WorkersOnly /\ EveryParagraph => SettledParagraph
  BY <1>1
<1> QED
  BY <1>3, <1>4, <1>5, TypeCorrect, LockCorrect, PTL DEF Spec
=============================================================================
