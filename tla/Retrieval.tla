----------------------------- MODULE Retrieval -----------------------------
(***************************************************************************)
(* The vector store and the cache of retrieval results: questions that are *)
(* answered from PGVector.query and its Redis cache, and the requests that *)
(* disable, enable, edit, delete, migrate and re-embed paragraphs, each of *)
(* which must leave the store and the cache in step with the paragraphs.   *)
(*                                                                         *)
(* One question text is asked, of different lists of knowledge bases: the  *)
(* cache has one slot per list (the list is part of the key).  A request   *)
(* on a paragraph is a chain of autocommitted statements, or one database  *)
(* transaction whose rows the others see from Commit on; Redis is outside  *)
(* the transaction.                                                        *)
(*                                                                         *)
(* History variables: the blame of a cached result names, per paragraph,   *)
(* what can have made it stale; crossed names the paragraphs on which two  *)
(* requests met that the code does not keep apart.                         *)
(***************************************************************************)
EXTENDS Naturals, FiniteSets

CONSTANTS
    Paras,          \* paragraph ids
    Kbs,            \* knowledge base ids
    Home,           \* paragraph -> its knowledge base at first
    Lists,          \* knowledge_id_list of the questions asked
    Askers,         \* questions that can be in progress at once
    Writers,        \* requests that can be in progress at once
    Ops,            \* which requests and faults happen in this instance
    MaxRequests,    \* bound: requests and faults per behaviour
    None

Procs == Askers \cup Writers

EditOps == {"disable", "enable", "edit"}
TransactionOps == {"batch_delete", "migrate"}
WriterOps == EditOps \cup TransactionOps \cup {"delete", "embed"}

Causes == {"late", "early", "failed", "moved", "inserted"}

ASSUME Constants ==
    /\ Kbs # {} /\ Home \in [Paras -> Kbs]
    /\ Lists \subseteq SUBSET Kbs
    /\ Askers \cap Writers = {}
    /\ Ops \subseteq WriterOps \cup {"redis_error"}
    /\ MaxRequests \in Nat
    /\ None \notin Paras \cup Kbs \cup Procs

VARIABLES
    para,       \* paragraph -> its row: exists, knowledge base, is_active
    vec,        \* paragraph -> its rows in the embedding table
    cache,      \* list -> the cached result, or none stored
    pc,         \* process -> program point
    call,       \* process -> its call on a paragraph and its vectors
    ask,        \* asker -> its question
    crossed,    \* paragraphs on which unserialised requests met
    requests    \* requests and faults so far

vars == <<para, vec, cache, pc, call, ask, crossed, requests>>

-----------------------------------------------------------------------------
(* Types.                                                                  *)

ParaRow == [live : BOOLEAN, kb : Kbs, active : BOOLEAN]

\* An embedding row; by tells the rows of different insertions apart.
VecRow == [kb : Kbs, active : BOOLEAN, by : Procs \cup {None}]

Blames == SUBSET (Paras \X Causes)

Entry == [stored : BOOLEAN, hits : SUBSET Paras, blame : Blames]

Empty == [stored |-> FALSE, hits |-> {}, blame |-> {}]

StorePcs == {"lookup", "write", "scan"}

WriterPcs == {"idle", "save", "text", "recheck", "insert", "commit"} \cup StorePcs

AskerPcs == {"idle", "compute", "store", "list", "sweep"} \cup StorePcs

Call ==
    [op : WriterOps \cup {"sweep", "none"}, para : Paras \cup {None}, read : ParaRow,
     to : Kbs \cup {None}, kbs : SUBSET Kbs, scan : SUBSET Lists, found : SUBSET Lists,
     old : SUBSET VecRow]

Question ==
    [list : SUBSET Kbs, hits : SUBSET Paras, blame : Blames, shown : SUBSET Paras,
     missing : SUBSET Paras, settled : SUBSET Paras]

AtType(q, l, c) ==
    /\ q \in Writers => l \in WriterPcs
    /\ q \in Askers => l \in AskerPcs
    /\ l \in StorePcs \cup (WriterPcs \ {"idle"}) => c.para \in Paras
    /\ q \in Writers /\ l # "idle" => c.op \in WriterOps
    /\ q \in Askers => c.op \in {"sweep", "none"}
    /\ l \in StorePcs => c.op # "none"
    /\ c.op = "migrate" => c.to \in Kbs

TypeOK ==
    /\ para \in [Paras -> ParaRow]
    /\ vec \in [Paras -> SUBSET VecRow]
    /\ cache \in [Lists -> Entry]
    /\ pc \in [Procs -> WriterPcs \cup AskerPcs]
    /\ call \in [Procs -> Call]
    /\ ask \in [Askers -> Question]
    /\ \A a \in Askers : pc[a] \in {"compute", "store"} => ask[a].list \in Lists
    /\ \A q \in Procs : AtType(q, pc[q], call[q])
    /\ crossed \subseteq Paras
    /\ requests \in Nat

NoCall ==
    [op |-> "none", para |-> None, to |-> None, kbs |-> {}, scan |-> {}, found |-> {},
     old |-> {}, read |-> [live |-> FALSE, kb |-> CHOOSE b \in Kbs : TRUE, active |-> FALSE]]

NoQuestion ==
    [list |-> {}, hits |-> {}, blame |-> {}, shown |-> {}, missing |-> {}, settled |-> {}]

-----------------------------------------------------------------------------
(* The store.                                                              *)

\* Mutant: the search forgets its filter on is_active.
FoundInactive(rows, k) == \E r \in rows : r.kb \in k

\* A search of these knowledge bases finds one of the rows (embedding_search.sql).
Found(rows, k) == \E r \in rows : r.kb \in k /\ r.active

Visible(k) == {p \in Paras : Found(vec[p], k)}

\* The knowledge bases of a paragraph's vectors.
KnowledgeIds(p) == {r.kb : r \in vec[p]}

\* Mutant: enabling writes what disabling writes.
RowsDisabled(c) ==
    IF c.op \in {"disable", "enable"} THEN {[r EXCEPT !.active = FALSE] : r \in vec[c.para]}
    ELSE {}

\* The rows left by the UPDATE or DELETE of an operation.
Rows(c) ==
    IF c.op \in {"disable", "enable"}
    THEN {[r EXCEPT !.active = (c.op = "enable")] : r \in vec[c.para]}
    ELSE {}

\* A transaction that holds the row of a paragraph, and one that holds its vectors.
Locked(p) ==
    \E w \in Writers :
        pc[w] # "idle" /\ call[w].op \in TransactionOps /\ call[w].para = p

VectorsLocked(p) ==
    \E w \in Writers :
        /\ pc[w] \in {"scan", "commit"}
        /\ call[w].op \in TransactionOps /\ call[w].para = p

-----------------------------------------------------------------------------
(* History.                                                                *)

WithoutBlame(blame, p) == {b \in blame : b[1] # p}

\* The rows of p change.  A result that is right about p bears no blame for it; one that
\* is wrong bears this cause from now on.
Reblame(hits, k, blame, p, rows, why) ==
    IF p \in hits <=> Found(rows, k) THEN WithoutBlame(blame, p)
                                    ELSE blame \cup {<<p, why>>}

\* Results cached; this cause can be named for those of the lists K.
Blame(K, p, rows, why) ==
    [k \in Lists |->
        IF ~cache[k].stored THEN cache[k]
        ELSE [cache[k] EXCEPT !.blame =
                IF k \in K THEN Reblame(cache[k].hits, k, @, p, rows, why)
                ELSE IF p \in cache[k].hits <=> Found(rows, k) THEN WithoutBlame(@, p)
                ELSE @]]

\* Results computed and not yet stored.
BlameLate(p, rows) ==
    [a \in Askers |->
        IF pc[a] # "store" THEN ask[a]
        ELSE [ask[a] EXCEPT !.blame =
                Reblame(ask[a].hits, ask[a].list, @, p, rows, "late")]]

Busy(p) == \E q \in Procs : pc[q] # "idle" /\ call[q].para = p

\* Pairs of requests on one paragraph that may meet: they write the same, or the row's
\* lock, or its absence, keeps one from undoing the other.  In any other pair the one
\* can write to the row or to the vectors what it read before the other.
Compatible(mine, theirs) ==
    LET pair == {mine, theirs} IN
    \/ mine = theirs
    \/ pair \subseteq {"edit", "embed"}
    \/ pair \subseteq {"delete", "batch_delete", "migrate"}
    \/ pair \cap {"disable", "enable"} # {} /\ pair \cap {"delete", "batch_delete"} # {}

Meets(w, op, p) ==
    \E v \in Writers \ {w} :
        pc[v] # "idle" /\ call[v].para = p /\ ~Compatible(op, call[v].op)

\* What the asker of a question may count on not to be shown.
Serves(p, k) == para[p].live /\ para[p].active /\ para[p].kb \in k

Settled(k) ==
    {p \in Paras :
        /\ ~Serves(p, k) /\ ~Busy(p) /\ p \notin crossed
        /\ \A why \in Causes : <<p, why>> \notin cache[k].blame}

-----------------------------------------------------------------------------
Init ==
    /\ para = [p \in Paras |-> [live |-> TRUE, kb |-> Home[p], active |-> TRUE]]
    /\ vec = [p \in Paras |-> {[kb |-> Home[p], active |-> TRUE, by |-> None]}]
    /\ cache = [k \in Lists |-> Empty]
    /\ pc = [q \in Procs |-> "idle"]
    /\ call = [q \in Procs |-> NoCall]
    /\ ask = [a \in Askers |-> NoQuestion]
    /\ crossed = {}
    /\ requests = 0

-----------------------------------------------------------------------------
(* A call of delete_by_paragraph_id(s) or update_by_paragraph_id(s): look  *)
(* the knowledge bases up, write, then invalidate_retrieval_cache.         *)

Goto(q, l) == pc' = [pc EXCEPT ![q] = l]

Done(q) ==
    /\ Goto(q, "idle")
    /\ call' = [call EXCEPT ![q] = NoCall]

\* Where a process goes on after the invalidation.
Return(q) ==
    \/ /\ call[q].op \in {"edit", "embed"} \cup TransactionOps
       /\ Goto(q, IF call[q].op \in TransactionOps THEN "commit" ELSE "recheck")
       /\ call' = [call EXCEPT ![q].scan = {}, ![q].found = {}]
    \/ /\ call[q].op \in {"disable", "enable", "delete"}
       /\ Done(q)
    \/ /\ call[q].op = "sweep"
       /\ Goto(q, "sweep")
       /\ call' = [call EXCEPT ![q] = NoCall]

Lookup(q) ==
    /\ pc[q] = "lookup"
    /\ call' = [call EXCEPT ![q].kbs = KnowledgeIds(call[q].para)]
    /\ Goto(q, "write")
    /\ UNCHANGED <<para, vec, cache, ask, crossed, requests>>

\* Mutant: the key must hold no other knowledge base.
AffectedAlone(kbs) == {k \in Lists : k # {} /\ k \subseteq kbs}

\* The lists whose cached results the invalidation of these knowledge bases removes.
Affected(kbs) == {k \in Lists : k \cap kbs # {}}

\* Lists of knowledge bases that the rows have reached since the lookup.
Lost(c) == {k \in Lists : k \cap (KnowledgeIds(c.para) \ c.kbs) # {}}

\* Outside a transaction the write is seen at once; inside, from Commit on.
Write(q) ==
    LET c == call[q] IN
    /\ pc[q] = "write" /\ ~VectorsLocked(c.para)
    /\ Goto(q, "scan")
    /\ \/ /\ c.op \in TransactionOps
          /\ call' = [call EXCEPT ![q].kbs = {}, ![q].scan = Affected(c.kbs),
                                  ![q].old = vec[c.para]]
          /\ UNCHANGED <<vec, cache, ask>>
       \/ /\ c.op \notin TransactionOps
          /\ call' = [call EXCEPT ![q].kbs = {}, ![q].scan = Affected(c.kbs)]
          /\ vec' = [vec EXCEPT ![c.para] = Rows(c)]
          /\ cache' = Blame(Lost(c), c.para, Rows(c), "moved")
          /\ ask' = BlameLate(c.para, Rows(c))
    /\ UNCHANGED <<para, crossed, requests>>

\* scan_iter comes past every key once; the keys whose list has a knowledge base of the
\* call are kept.
ScanKey(q, k) ==
    /\ pc[q] = "scan" /\ k \in call[q].scan
    /\ call' = [call EXCEPT ![q].scan = @ \ {k},
                            ![q].found = IF cache[k].stored THEN @ \cup {k} ELSE @]
    /\ UNCHANGED <<para, vec, cache, pc, ask, crossed, requests>>

\* One DEL of the keys found.
Drop(q) ==
    /\ pc[q] = "scan" /\ call[q].scan = {}
    /\ cache' = [k \in Lists |-> IF k \in call[q].found THEN Empty ELSE cache[k]]
    /\ Return(q)
    /\ UNCHANGED <<para, vec, ask, crossed, requests>>

\* Redis fails: logged, and the request goes on.
InvalidateFails(q) ==
    LET c == call[q] IN
    /\ "redis_error" \in Ops /\ requests < MaxRequests
    /\ pc[q] = "scan" /\ c.scan \cup c.found # {}
    /\ requests' = requests + 1
    /\ cache' = Blame(c.scan \cup c.found, c.para, vec[c.para], "failed")
    /\ Return(q)
    /\ UNCHANGED <<para, vec, ask, crossed>>

-----------------------------------------------------------------------------
(* Requests on a paragraph.                                                *)

\* A request comes in; settled promises about its paragraph end.
Arrive(w, op, p) ==
    /\ op \in Ops /\ requests < MaxRequests
    /\ pc[w] = "idle" /\ para[p].live
    /\ requests' = requests + 1
    /\ crossed' = IF Meets(w, op, p) THEN crossed \cup {p} ELSE crossed
    /\ ask' = [a \in Askers |-> [ask[a] EXCEPT !.settled = @ \ {p}]]

\* Operate.edit reads the row, in a transaction of its own.
Edit(w, op, p) ==
    /\ op \in EditOps
    /\ Arrive(w, op, p)
    /\ call' = [call EXCEPT ![w] = [NoCall EXCEPT !.op = op, !.para = p, !.read = para[p]]]
    /\ Goto(w, "save")
    /\ UNCHANGED <<para, vec, cache>>

\* _paragraph.save() writes every column, and inserts the row if it is gone.  After
\* the commit, post_embedding updates the vectors or makes new ones.
Save(w) ==
    LET c == call[w] IN
    /\ pc[w] = "save" /\ ~Locked(c.para)
    /\ para' = [para EXCEPT ![c.para] =
                    [c.read EXCEPT !.active = IF c.op = "edit" THEN @ ELSE c.op = "enable"]]
    /\ call' = [call EXCEPT ![w].read = NoCall.read]
    /\ Goto(w, IF c.op = "edit" THEN "text" ELSE "lookup")
    /\ UNCHANGED <<vec, cache, ask, crossed, requests>>

\* Operate.delete: the row goes first, then the vectors.
Delete(w, p) ==
    /\ ~Locked(p)
    /\ Arrive(w, "delete", p)
    /\ para' = [para EXCEPT ![p].live = FALSE]
    /\ call' = [call EXCEPT ![w] = [NoCall EXCEPT !.op = "delete", !.para = p]]
    /\ Goto(w, "lookup")
    /\ UNCHANGED <<vec, cache>>

\* Batch.batch_delete and Migrate.migrate take the row's lock until they commit.
BatchDelete(w, p) ==
    /\ ~Locked(p)
    /\ Arrive(w, "batch_delete", p)
    /\ call' = [call EXCEPT ![w] = [NoCall EXCEPT !.op = "batch_delete", !.para = p]]
    /\ Goto(w, "lookup")
    /\ UNCHANGED <<para, vec, cache>>

\* Mutant: the request leaves out where to.
MigrateNowhere(w, p, to) ==
    /\ ~Locked(p) /\ para[p].kb # to
    /\ Arrive(w, "migrate", p)
    /\ call' = [call EXCEPT ![w] = [NoCall EXCEPT !.op = "migrate", !.para = p]]
    /\ Goto(w, "lookup")
    /\ UNCHANGED <<para, vec, cache>>

Migrate(w, p, to) ==
    /\ ~Locked(p) /\ para[p].kb # to
    /\ Arrive(w, "migrate", p)
    /\ call' = [call EXCEPT ![w] = [NoCall EXCEPT !.op = "migrate", !.para = p, !.to = to]]
    /\ Goto(w, "lookup")
    /\ UNCHANGED <<para, vec, cache>>

Commit(w) ==
    LET c == call[w]
        new == (vec[c.para] \ c.old) \cup
               (IF c.op = "migrate" THEN {[r EXCEPT !.kb = c.to] : r \in c.old} ELSE {}) IN
    /\ pc[w] = "commit"
    /\ para' = [para EXCEPT ![c.para] = IF c.op = "migrate" THEN [@ EXCEPT !.kb = c.to]
                                        ELSE [@ EXCEPT !.live = FALSE]]
    /\ vec' = [vec EXCEPT ![c.para] = new]
    /\ cache' = Blame(Lists, c.para, new, "early")
    /\ ask' = BlameLate(c.para, new)
    /\ Done(w)
    /\ UNCHANGED <<crossed, requests>>

\* embedding_by_paragraph: read the text, delete the vectors, embed, look whether the
\* paragraph is still there, insert.
Embed(w, p) ==
    /\ ~Locked(p)
    /\ Arrive(w, "embed", p)
    /\ call' = [call EXCEPT ![w] = [NoCall EXCEPT !.op = "embed", !.para = p]]
    /\ Goto(w, "text")
    /\ UNCHANGED <<para, vec, cache>>

ReadText(w) ==
    /\ pc[w] = "text"
    /\ call' = [call EXCEPT ![w].read = para[call[w].para]]
    /\ Goto(w, "lookup")
    /\ UNCHANGED <<para, vec, cache, ask, crossed, requests>>

Recheck(w) ==
    /\ pc[w] = "recheck"
    /\ \/ /\ para[call[w].para].live /\ call[w].read.live
          /\ Goto(w, "insert")
          /\ UNCHANGED call
       \/ /\ ~(para[call[w].para].live /\ call[w].read.live)
          /\ Done(w)
    /\ UNCHANGED <<para, vec, cache, ask, crossed, requests>>

\* bulk_create: nothing is invalidated.
Insert(w) ==
    LET c == call[w]
        new == vec[c.para] \cup {[kb |-> c.read.kb, active |-> c.read.active, by |-> w]} IN
    /\ pc[w] = "insert"
    /\ vec' = [vec EXCEPT ![c.para] = new]
    /\ cache' = Blame(Lists, c.para, new, "inserted")
    /\ ask' = BlameLate(c.para, new)
    /\ Done(w)
    /\ UNCHANGED <<para, crossed, requests>>

-----------------------------------------------------------------------------
(* Questions.                                                              *)

\* query: a cached result is taken as it is, an empty one too.
Ask(a, k) ==
    /\ pc[a] = "idle"
    /\ \/ /\ cache[k].stored
          /\ ask' = [ask EXCEPT ![a] = [NoQuestion EXCEPT !.hits = cache[k].hits,
                                                          !.settled = Settled(k)]]
          /\ Goto(a, "list")
       \/ /\ ~cache[k].stored
          /\ ask' = [ask EXCEPT ![a] = [NoQuestion EXCEPT !.list = k,
                                                          !.settled = Settled(k)]]
          /\ Goto(a, "compute")
    /\ UNCHANGED <<para, vec, cache, call, crossed, requests>>

Compute(a) ==
    /\ pc[a] = "compute"
    /\ ask' = [ask EXCEPT ![a].hits = Visible(ask[a].list)]
    /\ Goto(a, "store")
    /\ UNCHANGED <<para, vec, cache, call, crossed, requests>>

Store(a) ==
    /\ pc[a] = "store"
    /\ cache' = [cache EXCEPT ![ask[a].list] =
                    [stored |-> TRUE, hits |-> ask[a].hits, blame |-> ask[a].blame]]
    /\ ask' = [ask EXCEPT ![a].blame = {}, ![a].list = {}]
    /\ Goto(a, "list")
    /\ UNCHANGED <<para, vec, call, crossed, requests>>

\* list_paragraph: the paragraphs that still exist; the others' vectors are dirt.
List(a) ==
    LET here == {p \in ask[a].hits : para[p].live} IN
    /\ pc[a] = "list"
    /\ ask' = [ask EXCEPT ![a].hits = {}, ![a].shown = here,
                           ![a].missing = ask[a].hits \ here]
    /\ Goto(a, "sweep")
    /\ UNCHANGED <<para, vec, cache, call, crossed, requests>>

\* Mutant: the missing paragraphs are left out of the answer and no more.
SweepNothing(a) ==
    /\ pc[a] = "sweep"
    /\ \E p \in ask[a].missing : ask' = [ask EXCEPT ![a].missing = @ \ {p}]
    /\ UNCHANGED <<para, vec, cache, pc, call, crossed, requests>>

Sweep(a) ==
    /\ pc[a] = "sweep"
    /\ \E p \in ask[a].missing :
          /\ ask' = [ask EXCEPT ![a].missing = @ \ {p}]
          /\ call' = [call EXCEPT ![a] = [NoCall EXCEPT !.op = "sweep", !.para = p]]
          /\ Goto(a, "lookup")
    /\ UNCHANGED <<para, vec, cache, crossed, requests>>

\* The paragraphs shown go into the prompt of the model.
Answer(a) ==
    /\ pc[a] = "sweep" /\ ask[a].missing = {}
    /\ ask' = [ask EXCEPT ![a] = NoQuestion]
    /\ Goto(a, "idle")
    /\ UNCHANGED <<para, vec, cache, call, crossed, requests>>

\* CACHE_RETRIEVAL_TTL is over.
Expire(k) ==
    /\ cache[k].stored
    /\ cache' = [cache EXCEPT ![k] = Empty]
    /\ UNCHANGED <<para, vec, pc, call, ask, crossed, requests>>

StoreCall(q) ==
    \/ Lookup(q) \/ Write(q) \/ Drop(q) \/ InvalidateFails(q)
    \/ \E k \in Lists : ScanKey(q, k)

Request(w) ==
    \E p \in Paras :
        \/ \E op \in EditOps : Edit(w, op, p)
        \/ Delete(w, p) \/ BatchDelete(w, p) \/ Embed(w, p)
        \/ \E to \in Kbs : Migrate(w, p, to)

WriterStep(w) ==
    \/ StoreCall(w) \/ Save(w) \/ Commit(w) \/ ReadText(w) \/ Recheck(w) \/ Insert(w)

AskerStep(a) ==
    \/ StoreCall(a) \/ Compute(a) \/ Store(a) \/ List(a) \/ Sweep(a) \/ Answer(a)

Next ==
    \/ \E w \in Writers : Request(w) \/ WriterStep(w)
    \/ \E a \in Askers : AskerStep(a) \/ \E k \in Lists : Ask(a, k)
    \/ \E k \in Lists : Expire(k)

Spec == Init /\ [][Next]_vars

\* A request that has started is carried through; a scan ends; keys run out.
Fairness ==
    /\ \A w \in Writers : WF_vars(WriterStep(w))
    /\ \A a \in Askers : WF_vars(AskerStep(a))
    /\ \A k \in Lists : WF_vars(Expire(k))

FairSpec == Spec /\ Fairness

-----------------------------------------------------------------------------
(* Properties.                                                             *)

\* An invalidation that will still remove the result of a list.
Pending(k, p) ==
    \E q \in Procs :
        /\ pc[q] = "scan" /\ call[q].para = p /\ call[q].op \notin TransactionOps
        /\ k \in call[q].scan \cup call[q].found

StaleHit(k, p) == cache[k].stored /\ p \in cache[k].hits \ Visible(k)
StaleMiss(k, p) == cache[k].stored /\ p \in Visible(k) \ cache[k].hits

\* A cached result that shows a paragraph the store would not find, or lacks one it
\* would, has one of the known causes: it is about to be removed; the store changed
\* between its search and its caching; it was cached before the commit of a transaction
\* that had invalidated already; Redis failed; the rows had moved since the lookup; and,
\* for a lack only, rows were inserted, which invalidates nothing.
StaleIsExplained ==
    \A k \in Lists, p \in Paras :
        /\ StaleHit(k, p) =>
             \/ Pending(k, p)
             \/ \E why \in Causes \ {"inserted"} : <<p, why>> \in cache[k].blame
        /\ StaleMiss(k, p) =>
             \/ Pending(k, p)
             \/ \E why \in Causes : <<p, why>> \in cache[k].blame

\* The rows of a paragraph nobody is working on agree with it, knowledge base and
\* is_active, and a deleted paragraph has none, unless requests crossed on it.
Agree(p) ==
    \A r \in vec[p] : para[p].live /\ r.kb = para[p].kb /\ r.active = para[p].active

StoreMirrorsParagraphs ==
    \A p \in Paras : Busy(p) \/ p \in crossed \/ Agree(p)

\* No answer shows a paragraph whose disabling, deletion or migration out of the
\* question's knowledge bases had ended when the question was asked, was not crossed,
\* and left no blame on the cached result.
SettledIsNotShown ==
    \A a \in Askers : pc[a] = "sweep" => ask[a].shown \cap ask[a].settled = {}

\* Vectors of a deleted paragraph that a question comes upon are removed.
DirtIsSwept ==
    \A a \in Askers, p \in Paras :
        (pc[a] = "sweep" /\ p \in ask[a].missing) ~> (vec[p] = {} \/ para[p].live)
=============================================================================
