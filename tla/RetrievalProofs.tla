-------------------------- MODULE RetrievalProofs --------------------------
(***************************************************************************)
(* Theorems about Retrieval, for every set of paragraphs, knowledge bases, *)
(* questions and requests.                                                 *)
(***************************************************************************)
EXTENDS Retrieval, TLAPS

USE Constants

-----------------------------------------------------------------------------
(* Types, in parts.                                                        *)

StoreType ==
    /\ para \in [Paras -> ParaRow]
    /\ vec \in [Paras -> SUBSET VecRow]
    /\ cache \in [Lists -> Entry]

ProcsType ==
    /\ pc \in [Procs -> WriterPcs \cup AskerPcs]
    /\ call \in [Procs -> Call]
    /\ \A q \in Procs : AtType(q, pc[q], call[q])

AskType ==
    /\ ask \in [Askers -> Question]
    /\ \A a \in Askers : pc[a] \in {"compute", "store"} => ask[a].list \in Lists

CountType == crossed \subseteq Paras /\ requests \in Nat

LEMMA Parts ==
    /\ TypeOK <=> StoreType /\ ProcsType /\ AskType /\ CountType
    /\ TypeOK' <=> StoreType' /\ ProcsType' /\ AskType' /\ CountType'
BY DEF TypeOK, StoreType, ProcsType, AskType, CountType

LEMMA BlankTypes ==
    /\ NoCall \in Call /\ NoCall.op = "none" /\ NoCall.read \in ParaRow
    /\ NoQuestion \in Question /\ Empty \in Entry
<1>1. (CHOOSE b \in Kbs : TRUE) \in Kbs
  OBVIOUS
<1> QED
  BY <1>1 DEF NoCall, NoQuestion, Empty, Call, Question, Entry, ParaRow, Blames

\* A process moves to a program point whose demands its call meets.
LEMMA MoveType ==
    ASSUME ProcsType, NEW q \in Procs, NEW l \in WriterPcs \cup AskerPcs, NEW c \in Call,
           AtType(q, l, c),
           pc' = [pc EXCEPT ![q] = l], call' = [call EXCEPT ![q] = c]
    PROVE  ProcsType'
<1>1. pc' \in [Procs -> WriterPcs \cup AskerPcs] /\ call' \in [Procs -> Call]
  BY DEF ProcsType
<1>2. ASSUME NEW x \in Procs PROVE AtType(x, pc'[x], call'[x])
  BY DEF ProcsType
<1> QED
  BY <1>1, <1>2 DEF ProcsType, AtType

\* A process moves and keeps its call.
LEMMA GotoType ==
    ASSUME ProcsType, NEW q \in Procs, NEW l \in WriterPcs \cup AskerPcs,
           AtType(q, l, call[q]), Goto(q, l), UNCHANGED call
    PROVE  ProcsType'
<1>1. call[q] \in Call /\ call' = [call EXCEPT ![q] = call[q]]
  BY DEF ProcsType
<1> QED
  BY <1>1, MoveType DEF Goto

LEMMA DoneType ==
    ASSUME ProcsType, NEW q \in Procs, Done(q)
    PROVE  ProcsType'
<1>1. AtType(q, "idle", NoCall)
  BY BlankTypes DEF AtType, WriterPcs, AskerPcs, StorePcs
<1>2. "idle" \in WriterPcs \cup AskerPcs
  BY DEF WriterPcs
<1> QED
  BY <1>1, <1>2, BlankTypes, MoveType DEF Done, Goto

\* The questions keep their types when no process comes to compute or store.
LEMMA AskKept ==
    ASSUME AskType, ProcsType, NEW q \in Procs, NEW l, l \notin {"compute", "store"},
           Goto(q, l), ask' \in [Askers -> Question],
           \A a \in Askers : ask'[a].list = ask[a].list
    PROVE  AskType'
BY DEF AskType, ProcsType, Goto

\* What the history variables record has its type.
LEMMA BlameType ==
    ASSUME StoreType, NEW K, NEW p \in Paras, NEW rows, NEW why \in Causes
    PROVE  Blame(K, p, rows, why) \in [Lists -> Entry]
<1>1. ASSUME NEW k \in Lists PROVE cache[k] \in Entry
  BY DEF StoreType
<1>2. ASSUME NEW hits, NEW k, NEW b \in Blames
      PROVE  Reblame(hits, k, b, p, rows, why) \in Blames /\ WithoutBlame(b, p) \in Blames
  BY DEF Reblame, WithoutBlame, Blames
<1> QED
  BY <1>1, <1>2 DEF Blame, Entry

LEMMA BlameLateType ==
    ASSUME AskType, NEW p \in Paras, NEW rows
    PROVE  /\ BlameLate(p, rows) \in [Askers -> Question]
           /\ \A a \in Askers : BlameLate(p, rows)[a].list = ask[a].list
<1>1. ASSUME NEW a \in Askers PROVE ask[a] \in Question
  BY DEF AskType
<1>2. ASSUME NEW hits, NEW k, NEW b \in Blames
      PROVE  Reblame(hits, k, b, p, rows, "late") \in Blames
  BY DEF Reblame, WithoutBlame, Blames, Causes
<1> QED
  BY <1>1, <1>2 DEF BlameLate, Question

\* The rows an UPDATE or a DELETE leaves.
LEMMA RowsType ==
    ASSUME StoreType, NEW c \in Call, c.para \in Paras
    PROVE  Rows(c) \subseteq VecRow
<1>1. vec[c.para] \subseteq VecRow
  BY DEF StoreType
<1>2. ASSUME NEW r \in VecRow, NEW b \in BOOLEAN PROVE [r EXCEPT !.active = b] \in VecRow
  BY DEF VecRow
<1>3. (c.op = "enable") \in BOOLEAN
  OBVIOUS
<1>4. ASSUME NEW x \in {[r EXCEPT !.active = (c.op = "enable")] : r \in vec[c.para]}
      PROVE  x \in VecRow
  <2>1. PICK r \in vec[c.para] : x = [r EXCEPT !.active = (c.op = "enable")]
    BY Zenon
  <2> QED
    BY <1>1, <1>2, <1>3, <2>1, Zenon
<1> QED
  BY <1>4 DEF Rows

\* A process that is at a call of the store has a paragraph.
LEMMA CallType ==
    ASSUME ProcsType, NEW q \in Procs
    PROVE  /\ call[q] \in Call /\ AtType(q, pc[q], call[q])
           /\ pc[q] \in StorePcs \cup (WriterPcs \ {"idle"}) => call[q].para \in Paras
BY DEF ProcsType, AtType

LEMMA ReadType ==
    ASSUME StoreType, NEW p \in Paras
    PROVE  para[p] \in ParaRow /\ vec[p] \subseteq VecRow /\ KnowledgeIds(p) \subseteq Kbs
BY DEF StoreType, KnowledgeIds, VecRow

-----------------------------------------------------------------------------
(* Every action keeps the types.                                           *)

LEMMA TypeInit == Init => TypeOK
<1> SUFFICES ASSUME Init PROVE TypeOK
  OBVIOUS
<1>1. StoreType
  BY BlankTypes DEF Init, StoreType, ParaRow, VecRow
<1>2. ProcsType
  BY BlankTypes DEF Init, ProcsType, AtType, WriterPcs, AskerPcs, StorePcs
<1>3. AskType /\ CountType
  BY BlankTypes DEF Init, AskType, CountType, Procs
<1> QED
  BY <1>1, <1>2, <1>3, Parts

\* What a call of the store does to its process when it is through.
LEMMA ReturnType ==
    ASSUME ProcsType, AskType, NEW q \in Procs, pc[q] = "scan", Return(q), UNCHANGED ask
    PROVE  ProcsType' /\ AskType'
<1>1. call[q] \in Call /\ AtType(q, "scan", call[q]) /\ call[q].para \in Paras
  BY CallType DEF StorePcs
<1>2. CASE /\ call[q].op \in {"edit", "embed"} \cup TransactionOps
           /\ Goto(q, IF call[q].op \in TransactionOps THEN "commit" ELSE "recheck")
           /\ call' = [call EXCEPT ![q].scan = {}, ![q].found = {}]
  <2> DEFINE c == [call[q] EXCEPT !.scan = {}, !.found = {}]
             l == IF call[q].op \in TransactionOps THEN "commit" ELSE "recheck"
  <2>1. c \in Call /\ c.op = call[q].op /\ c.para = call[q].para /\ c.to = call[q].to
    BY <1>1 DEF Call
  <2>2. call' = [call EXCEPT ![q] = c]
    BY <1>2 DEF ProcsType
  <2>3. l \in WriterPcs /\ l \notin StorePcs /\ l \notin {"idle", "compute", "store"}
    BY DEF WriterPcs, StorePcs
  <2>4. q \notin Askers
    BY <1>1, <1>2 DEF AtType, TransactionOps
  <2>5. AtType(q, l, c)
    BY <1>1, <2>1, <2>3, <2>4 DEF AtType, StorePcs
  <2>6. ProcsType'
    <3> HIDE DEF c, l
    <3>1. pc' = [pc EXCEPT ![q] = l]
      BY <1>2 DEF l, Goto
    <3> QED
      BY <2>1, <2>2, <2>3, <2>5, <3>1, MoveType
  <2>7. AskType'
    BY <1>2, <2>3 DEF AskType, ProcsType, Goto
  <2> QED
    BY <2>6, <2>7
<1>3. CASE call[q].op \in {"disable", "enable", "delete"} /\ Done(q)
  BY <1>3, DoneType DEF Done, AskType, ProcsType, Goto, Procs
<1>4. CASE call[q].op = "sweep" /\ Goto(q, "sweep") /\ call' = [call EXCEPT ![q] = NoCall]
  <2>1. q \notin Writers /\ q \in Askers
    BY <1>1, <1>4 DEF AtType, WriterOps, EditOps, TransactionOps, Procs, StorePcs
  <2>2. AtType(q, "sweep", NoCall)
    BY <2>1, BlankTypes DEF AtType, AskerPcs, StorePcs, WriterPcs
  <2>3. ProcsType'
    BY <1>4, <2>2, BlankTypes, MoveType DEF Goto, AskerPcs
  <2>4. AskType'
    BY <1>4 DEF AskType, ProcsType, Goto
  <2> QED
    BY <2>3, <2>4
<1> QED
  BY <1>2, <1>3, <1>4 DEF Return

\* Looking up, writing, scanning and invalidating.
LEMMA StoreCallTypes ==
    ASSUME TypeOK, NEW q \in Procs, StoreCall(q)
    PROVE  TypeOK'
<1> USE Parts
<1>c. /\ call[q] \in Call /\ AtType(q, pc[q], call[q])
      /\ pc[q] \in StorePcs => call[q].para \in Paras
  BY CallType
<1>1. CASE Lookup(q)
  <2> DEFINE c == [call[q] EXCEPT !.kbs = KnowledgeIds(call[q].para)]
  <2>1. pc[q] = "lookup" /\ call[q].para \in Paras
    BY <1>1, <1>c DEF Lookup, StorePcs
  <2>2. c \in Call /\ c.op = call[q].op /\ c.para = call[q].para /\ c.to = call[q].to
    BY <1>c, <2>1, ReadType DEF Call
  <2>3. call' = [call EXCEPT ![q] = c]
    BY <1>1 DEF Lookup
  <2>4. AtType(q, "write", c)
    BY <1>c, <2>1, <2>2 DEF AtType, StorePcs, WriterPcs, AskerPcs
  <2>5. ProcsType'
    <3> HIDE DEF c
    <3> QED
      BY <1>1, <2>2, <2>3, <2>4, MoveType DEF Lookup, Goto, WriterPcs, StorePcs
  <2> QED
    BY <1>1, <2>5 DEF Lookup, StoreType, AskType, CountType, ProcsType, Goto
<1>2. CASE Write(q)
  <2> DEFINE p == call[q].para
             c == [call[q] EXCEPT !.kbs = {}, !.scan = Affected(call[q].kbs),
                                  !.old = IF call[q].op \in TransactionOps THEN vec[p] ELSE @]
  <2>1. pc[q] = "write" /\ p \in Paras
    BY <1>2, <1>c DEF Write, StorePcs
  <2>2. c \in Call /\ c.op = call[q].op /\ c.para = p /\ c.to = call[q].to
    BY <1>c, <2>1, ReadType DEF Call, Affected
  <2>3. call' = [call EXCEPT ![q] = c]
    <3>1. CASE call[q].op \in TransactionOps
      BY <1>2, <3>1 DEF Write, ProcsType
    <3>2. CASE call[q].op \notin TransactionOps
      <4>1. c = [call[q] EXCEPT !.kbs = {}, !.scan = Affected(call[q].kbs)]
        BY <1>c, <3>2 DEF Call
      <4>2. call' = [call EXCEPT ![q].kbs = {}, ![q].scan = Affected(call[q].kbs)]
        BY <1>2, <3>2 DEF Write
      <4> HIDE DEF c
      <4> QED
        BY <4>1, <4>2 DEF ProcsType
    <3> QED
      BY <3>1, <3>2
  <2>4. AtType(q, "scan", c)
    BY <1>c, <2>1, <2>2 DEF AtType, StorePcs, WriterPcs, AskerPcs
  <2>5. ProcsType'
    <3> HIDE DEF c
    <3> QED
      BY <1>2, <2>2, <2>3, <2>4, MoveType DEF Write, Goto, WriterPcs, StorePcs
  <2>6. StoreType' /\ ask' \in [Askers -> Question] /\ \A a \in Askers : ask'[a].list = ask[a].list
    <3>1. CASE call[q].op \in TransactionOps
      BY <1>2, <3>1 DEF Write, StoreType, AskType
    <3>2. CASE call[q].op \notin TransactionOps
      <4>1. /\ vec' = [vec EXCEPT ![p] = Rows(call[q])] /\ para' = para
            /\ cache' = Blame(Lost(call[q]), p, Rows(call[q]), "moved")
            /\ ask' = BlameLate(p, Rows(call[q]))
        BY <1>2, <3>2 DEF Write
      <4>2. Rows(call[q]) \subseteq VecRow
        BY <1>c, <2>1, RowsType
      <4>3. cache' \in [Lists -> Entry]
        BY <2>1, <4>1, BlameType DEF Causes
      <4> QED
        BY <2>1, <4>1, <4>2, <4>3, BlameLateType DEF StoreType
    <3> QED
      BY <3>1, <3>2
  <2>7. AskType'
    BY <1>2, <2>6, AskKept DEF Write
  <2> QED
    BY <1>2, <2>5, <2>6, <2>7 DEF Write, CountType
<1>3. ASSUME NEW k \in Lists, ScanKey(q, k)
      PROVE  TypeOK'
  <2> DEFINE c == [call[q] EXCEPT !.scan = @ \ {k},
                                  !.found = IF cache[k].stored THEN @ \cup {k} ELSE @]
  <2>1. pc[q] = "scan" /\ call[q].para \in Paras
    BY <1>3, <1>c DEF ScanKey, StorePcs
  <2>2. c \in Call /\ c.op = call[q].op /\ c.para = call[q].para /\ c.to = call[q].to
    BY <1>c DEF Call
  <2>3. call' = [call EXCEPT ![q] = c] /\ pc' = [pc EXCEPT ![q] = "scan"]
    BY <1>3, <2>1 DEF ScanKey, ProcsType
  <2>4. AtType(q, "scan", c)
    BY <1>c, <2>1, <2>2 DEF AtType, StorePcs, WriterPcs, AskerPcs
  <2>5. ProcsType'
    <3> HIDE DEF c
    <3> QED
      BY <2>2, <2>3, <2>4, MoveType DEF WriterPcs, StorePcs
  <2> QED
    BY <1>3, <2>5 DEF ScanKey, StoreType, AskType, CountType
<1>4. CASE Drop(q)
  <2>1. StoreType'
    BY <1>4, BlankTypes DEF Drop, StoreType
  <2> QED
    BY <1>4, <2>1, ReturnType DEF Drop, CountType
<1>5. CASE InvalidateFails(q)
  <2>1. pc[q] = "scan" /\ call[q].para \in Paras
    BY <1>5, <1>c DEF InvalidateFails, StorePcs
  <2>2. StoreType'
    BY <1>5, <2>1, BlameType DEF InvalidateFails, StoreType, Causes
  <2> QED
    BY <1>5, <2>1, <2>2, ReturnType DEF InvalidateFails, CountType
<1> QED
  BY <1>1, <1>2, <1>3, <1>4, <1>5 DEF StoreCall

\* A request comes in.
LEMMA ArriveTypes ==
    ASSUME TypeOK, NEW w \in Writers, NEW p \in Paras, NEW c \in Call,
           c.op \in WriterOps, c.para = p, c.op = "migrate" => c.to \in Kbs,
           Arrive(w, c.op, p), call' = [call EXCEPT ![w] = c],
           \E l \in {"save", "lookup", "text"} : Goto(w, l)
    PROVE  ProcsType' /\ AskType' /\ CountType'
<1> USE Parts
<1>0. w \notin Askers /\ "none" \notin WriterOps
  BY DEF WriterOps, EditOps, TransactionOps
<1>l. PICK l \in {"save", "lookup", "text"} : Goto(w, l)
  OBVIOUS
<1>1. AtType(w, l, c)
  BY <1>0 DEF AtType, WriterPcs, StorePcs
<1>2. ProcsType'
  BY <1>l, <1>1, MoveType DEF Goto, WriterPcs, StorePcs, Procs
<1>3. ask' \in [Askers -> Question] /\ \A a \in Askers : ask'[a].list = ask[a].list
  <2>1. ASSUME NEW a \in Askers
        PROVE  ask'[a] \in Question /\ ask'[a].list = ask[a].list
    BY DEF Arrive, AskType, Question
  <2> QED
    BY <2>1 DEF Arrive
<1> QED
  BY <1>l, <1>2, <1>3, AskKept DEF Arrive, CountType, Procs

LEMMA RequestTypes ==
    ASSUME TypeOK, NEW w \in Writers, Request(w)
    PROVE  TypeOK'
<1> USE Parts
<1>0. PICK p \in Paras :
        \/ \E op \in EditOps : Edit(w, op, p)
        \/ Delete(w, p) \/ BatchDelete(w, p) \/ Embed(w, p)
        \/ \E to \in Kbs : Migrate(w, p, to)
  BY DEF Request
<1>1. ASSUME NEW op \in EditOps, Edit(w, op, p) PROVE TypeOK'
  <2> DEFINE c == [NoCall EXCEPT !.op = op, !.para = p, !.read = para[p]]
  <2>1. c \in Call /\ c.op = op /\ c.para = p /\ op \in WriterOps /\ op # "migrate"
    BY BlankTypes, ReadType DEF Call, WriterOps, EditOps
  <2> HIDE DEF c
  <2>2. call' = [call EXCEPT ![w] = c]
    BY <1>1 DEF Edit, c
  <2>3. ProcsType' /\ AskType' /\ CountType'
    <3>1. Arrive(w, c.op, p) /\ \E x \in {"save", "lookup", "text"} : Goto(w, x)
      BY <1>1, <2>1 DEF Edit
    <3> QED
      BY <2>1, <2>2, <3>1, ArriveTypes
  <2> QED
    BY <1>1, <2>3 DEF Edit, StoreType
<1>2. ASSUME NEW op \in {"delete", "batch_delete", "embed"}, Arrive(w, op, p),
             call' = [call EXCEPT ![w] = [NoCall EXCEPT !.op = op, !.para = p]],
             NEW l \in {"lookup", "text"}, Goto(w, l),
             UNCHANGED <<vec, cache>>, para' \in [Paras -> ParaRow]
      PROVE  TypeOK'
  <2> DEFINE c == [NoCall EXCEPT !.op = op, !.para = p]
  <2>1. c \in Call /\ c.op = op /\ c.para = p /\ op \in WriterOps
    BY BlankTypes DEF Call, WriterOps, TransactionOps
  <2> HIDE DEF c
  <2>2. call' = [call EXCEPT ![w] = c]
    BY <1>2 DEF c
  <2>3. ProcsType' /\ AskType' /\ CountType'
    <3>1. l \in {"save", "lookup", "text"} /\ c.op # "migrate" /\ c.op \in WriterOps
      BY <1>2, <2>1
    <3>2. Arrive(w, c.op, p) /\ \E x \in {"save", "lookup", "text"} : Goto(w, x)
      BY <1>2, <2>1, <3>1
    <3> QED
      BY <2>1, <2>2, <3>1, <3>2, ArriveTypes
  <2> QED
    BY <1>2, <2>3 DEF StoreType
<1>3. ASSUME Delete(w, p) \/ BatchDelete(w, p) \/ Embed(w, p) PROVE para' \in [Paras -> ParaRow]
  <2>1. ASSUME NEW r \in ParaRow PROVE [r EXCEPT !.live = FALSE] \in ParaRow
    BY DEF ParaRow
  <2> QED
    BY <1>3, <2>1, ReadType DEF Delete, BatchDelete, Embed, StoreType
<1>4. CASE Delete(w, p)
  BY <1>2, <1>3, <1>4 DEF Delete
<1>5. CASE BatchDelete(w, p)
  BY <1>2, <1>3, <1>5 DEF BatchDelete
<1>6. CASE Embed(w, p)
  BY <1>2, <1>3, <1>6 DEF Embed
<1>7. ASSUME NEW to \in Kbs, Migrate(w, p, to) PROVE TypeOK'
  <2> DEFINE c == [NoCall EXCEPT !.op = "migrate", !.para = p, !.to = to]
  <2>1. c \in Call /\ c.op = "migrate" /\ c.para = p /\ c.to = to /\ "migrate" \in WriterOps
    BY BlankTypes DEF Call, WriterOps, TransactionOps
  <2> HIDE DEF c
  <2>2. call' = [call EXCEPT ![w] = c]
    BY <1>7 DEF Migrate, c
  <2>3. ProcsType' /\ AskType' /\ CountType'
    <3>1. Arrive(w, c.op, p) /\ \E x \in {"save", "lookup", "text"} : Goto(w, x)
      BY <1>7, <2>1 DEF Migrate
    <3> QED
      BY <2>1, <2>2, <3>1, ArriveTypes
  <2> QED
    BY <1>7, <2>3 DEF Migrate, StoreType
<1> QED
  BY <1>0, <1>1, <1>4, <1>5, <1>6, <1>7

\* The steps of a request outside the store.
LEMMA WriterTypes ==
    ASSUME TypeOK, NEW w \in Writers,
           Save(w) \/ Commit(w) \/ ReadText(w) \/ Recheck(w) \/ Insert(w)
    PROVE  TypeOK'
<1> USE Parts
<1>w. w \in Procs /\ w \notin Askers
  BY DEF Procs
<1>c. /\ call[w] \in Call /\ AtType(w, pc[w], call[w])
      /\ pc[w] \in {"save", "commit", "text", "recheck", "insert"} =>
            call[w].para \in Paras /\ call[w].op \in WriterOps
  BY <1>w, CallType DEF AtType, WriterPcs, StorePcs
<1>1. CASE Save(w)
  <2> DEFINE c == [call[w] EXCEPT !.read = NoCall.read]
             l == IF call[w].op = "edit" THEN "text" ELSE "lookup"
  <2>1. pc[w] = "save" /\ call[w].para \in Paras /\ call[w].op \in WriterOps
    BY <1>1, <1>c DEF Save
  <2>2. c \in Call /\ c.op = call[w].op /\ c.para = call[w].para /\ c.to = call[w].to
    BY <1>c, BlankTypes DEF Call
  <2>3. AtType(w, l, c) /\ l \in WriterPcs /\ l \notin {"compute", "store"}
    <3>1. l \in {"text", "lookup"} /\ l \in WriterPcs /\ l # "idle"
      BY DEF WriterPcs, StorePcs
    <3>2. c.op # "none" /\ (c.op = "migrate" => c.to \in Kbs)
      BY <1>c, <2>1, <2>2 DEF AtType, WriterOps, EditOps, TransactionOps
    <3> HIDE DEF c, l
    <3> QED
      BY <1>w, <2>1, <2>2, <3>1, <3>2 DEF AtType
  <2>4. ProcsType'
    <3> HIDE DEF c, l
    <3>1. call' = [call EXCEPT ![w] = c] /\ pc' = [pc EXCEPT ![w] = l]
      BY <1>1 DEF Save, Goto, c, l
    <3> QED
      BY <1>w, <2>2, <2>3, <3>1, MoveType
  <2>5. AskType'
    BY <1>1, <1>w DEF Save, Goto, AskType, ProcsType
  <2>6. StoreType'
    <3>1. ASSUME NEW r \in ParaRow, NEW b \in BOOLEAN PROVE [r EXCEPT !.active = b] \in ParaRow
      BY DEF ParaRow
    <3>2. call[w].read \in ParaRow /\ call[w].read.active \in BOOLEAN
      BY <1>c DEF Call, ParaRow
    <3>3. [call[w].read EXCEPT !.active = IF call[w].op = "edit" THEN @ ELSE call[w].op = "enable"]
            \in ParaRow
      BY <3>1, <3>2
    <3> QED
      BY <1>1, <2>1, <3>3 DEF Save, StoreType
  <2> QED
    BY <1>1, <2>4, <2>5, <2>6 DEF Save, CountType
<1>2. CASE Commit(w)
  <2> DEFINE p == call[w].para
             new == (vec[p] \ call[w].old) \cup
                    (IF call[w].op = "migrate"
                     THEN {[r EXCEPT !.kb = call[w].to] : r \in call[w].old} ELSE {})
  <2>1. pc[w] = "commit" /\ p \in Paras /\ call[w].op \in WriterOps
    BY <1>2, <1>c DEF Commit
  <2>2. call[w].old \subseteq VecRow /\ vec[p] \subseteq VecRow
    BY <1>c, <2>1, ReadType DEF Call
  <2>3. call[w].op = "migrate" => call[w].to \in Kbs
    BY <1>c DEF AtType
  <2>4. new \subseteq VecRow
    BY <2>2, <2>3 DEF VecRow
  <2>5. StoreType'
    <3> HIDE DEF new
    <3>1. /\ vec' = [vec EXCEPT ![p] = new] /\ cache' = Blame(Lists, p, new, "early")
          /\ para' = [para EXCEPT ![p] = IF call[w].op = "migrate" THEN [@ EXCEPT !.kb = call[w].to]
                                         ELSE [@ EXCEPT !.live = FALSE]]
      BY <1>2 DEF Commit, new
    <3>2. ASSUME NEW r \in ParaRow
          PROVE  /\ [r EXCEPT !.live = FALSE] \in ParaRow
                 /\ \A b \in Kbs : [r EXCEPT !.kb = b] \in ParaRow
      BY DEF ParaRow
    <3>3. para' \in [Paras -> ParaRow]
      BY <2>1, <2>3, <3>1, <3>2 DEF StoreType
    <3>4. cache' \in [Lists -> Entry]
      BY <2>1, <3>1, BlameType DEF Causes
    <3> QED
      BY <2>1, <2>4, <3>1, <3>3, <3>4 DEF StoreType
  <2>6. AskType'
    <3> HIDE DEF new
    <3>1. ask' = BlameLate(p, new) /\ Goto(w, "idle")
      BY <1>2 DEF Commit, Done, new
    <3> QED
      BY <1>w, <2>1, <3>1, BlameLateType, AskKept
  <2> QED
    BY <1>2, <1>w, <2>5, <2>6, DoneType DEF Commit, CountType
<1>3. CASE ReadText(w)
  <2> DEFINE c == [call[w] EXCEPT !.read = para[call[w].para]]
  <2>1. pc[w] = "text" /\ call[w].para \in Paras /\ call[w].op \in WriterOps
    BY <1>3, <1>c DEF ReadText
  <2>2. c \in Call /\ c.op = call[w].op /\ c.para = call[w].para /\ c.to = call[w].to
    BY <1>c, <2>1, ReadType DEF Call
  <2>3. AtType(w, "lookup", c)
    BY <1>c, <1>w, <2>1, <2>2 DEF AtType, WriterPcs, StorePcs, WriterOps, TransactionOps, EditOps
  <2>4. ProcsType'
    <3> HIDE DEF c
    <3>1. call' = [call EXCEPT ![w] = c] /\ pc' = [pc EXCEPT ![w] = "lookup"]
      BY <1>3 DEF ReadText, Goto, c
    <3> QED
      BY <1>w, <2>2, <2>3, <3>1, MoveType DEF WriterPcs, StorePcs
  <2> QED
    BY <1>3, <1>w, <2>4 DEF ReadText, Goto, AskType, ProcsType, StoreType, CountType
<1>4. CASE Recheck(w)
  <2>1. pc[w] = "recheck" /\ call[w].para \in Paras /\ call[w].op \in WriterOps
    BY <1>4, <1>c DEF Recheck
  <2>2. AtType(w, "insert", call[w])
    BY <1>c, <1>w, <2>1 DEF AtType, WriterPcs, StorePcs
  <2>3. ProcsType' /\ \E l : Goto(w, l) /\ l \notin {"compute", "store"}
    <3>1. CASE Goto(w, "insert") /\ UNCHANGED call
      BY <1>w, <2>2, <3>1, GotoType DEF WriterPcs
    <3>2. CASE Done(w)
      <4>1. Goto(w, "idle")
        BY <3>2 DEF Done
      <4> QED
        BY <1>w, <3>2, <4>1, DoneType
    <3> QED
      BY <1>4, <3>1, <3>2 DEF Recheck
  <2> QED
    BY <1>4, <1>w, <2>3 DEF Recheck, Goto, AskType, ProcsType, StoreType, CountType
<1>5. CASE Insert(w)
  <2> DEFINE p == call[w].para
             new == vec[p] \cup {[kb |-> call[w].read.kb, active |-> call[w].read.active, by |-> w]}
  <2>1. pc[w] = "insert" /\ p \in Paras
    BY <1>5, <1>c DEF Insert
  <2>2. new \subseteq VecRow
    BY <1>c, <1>w, <2>1, ReadType DEF Call, ParaRow, VecRow
  <2> HIDE DEF new
  <2>3. /\ vec' = [vec EXCEPT ![p] = new] /\ cache' = Blame(Lists, p, new, "inserted")
        /\ ask' = BlameLate(p, new) /\ Done(w) /\ Goto(w, "idle")
    BY <1>5 DEF Insert, Done, new
  <2>4. StoreType'
    <3>1. cache' \in [Lists -> Entry]
      BY <2>1, <2>3, BlameType DEF Causes
    <3> QED
      BY <1>5, <2>1, <2>2, <2>3, <3>1 DEF Insert, StoreType
  <2>5. AskType'
    BY <1>w, <2>1, <2>3, BlameLateType, AskKept
  <2> QED
    BY <1>5, <1>w, <2>3, <2>4, <2>5, DoneType DEF Insert, CountType
<1> QED
  BY <1>1, <1>2, <1>3, <1>4, <1>5

\* A question's steps outside the store.
LEMMA AskerTypes ==
    ASSUME TypeOK, NEW a \in Askers,
           \/ Compute(a) \/ Store(a) \/ List(a) \/ Sweep(a) \/ Answer(a)
           \/ \E k \in Lists : Ask(a, k)
    PROVE  TypeOK'
<1> USE Parts
<1>a. a \in Procs /\ a \notin Writers /\ ask[a] \in Question
  BY DEF Procs, AskType
<1>c. call[a] \in Call /\ AtType(a, pc[a], call[a])
  BY <1>a, CallType
<1>1. ASSUME NEW k \in Lists, Ask(a, k) PROVE TypeOK'
  <2>1. Settled(k) \in SUBSET Paras /\ k \in SUBSET Kbs /\ cache[k] \in Entry
    BY DEF Settled, StoreType
  <2>2. /\ [NoQuestion EXCEPT !.hits = cache[k].hits, !.settled = Settled(k)] \in Question
        /\ [NoQuestion EXCEPT !.list = k, !.settled = Settled(k)] \in Question
        /\ [NoQuestion EXCEPT !.list = k, !.settled = Settled(k)].list = k
    BY <2>1, BlankTypes DEF Question, Entry
  <2>3. CASE /\ ask' = [ask EXCEPT ![a] = [NoQuestion EXCEPT !.hits = cache[k].hits,
                                                             !.settled = Settled(k)]]
             /\ Goto(a, "list")
    <3>1. AtType(a, "list", call[a])
      BY <1>a, <1>c DEF AtType, AskerPcs, WriterPcs, StorePcs
    <3>2. ProcsType'
      BY <1>1, <1>a, <2>3, <3>1, GotoType DEF Ask, AskerPcs
    <3>3. AskType'
      BY <1>a, <2>2, <2>3 DEF AskType, ProcsType, Goto
    <3> QED
      BY <1>1, <3>2, <3>3 DEF Ask, StoreType, CountType
  <2>4. CASE /\ ask' = [ask EXCEPT ![a] = [NoQuestion EXCEPT !.list = k, !.settled = Settled(k)]]
             /\ Goto(a, "compute")
    <3>1. AtType(a, "compute", call[a])
      BY <1>a, <1>c DEF AtType, AskerPcs, WriterPcs, StorePcs
    <3>2. ProcsType'
      BY <1>1, <1>a, <2>4, <3>1, GotoType DEF Ask, AskerPcs
    <3>3. AskType'
      BY <1>a, <2>2, <2>4 DEF AskType, ProcsType, Goto
    <3> QED
      BY <1>1, <3>2, <3>3 DEF Ask, StoreType, CountType
  <2> QED
    BY <1>1, <2>3, <2>4 DEF Ask
<1>2. CASE Compute(a)
  <2>1. pc[a] = "compute" /\ Visible(ask[a].list) \in SUBSET Paras
    BY <1>2 DEF Compute, Visible
  <2>2. AtType(a, "store", call[a])
    BY <1>a, <1>c DEF AtType, AskerPcs, WriterPcs, StorePcs
  <2>3. ProcsType'
    BY <1>2, <1>a, <2>2, GotoType DEF Compute, AskerPcs
  <2>4. AskType'
    <3>1. /\ [ask[a] EXCEPT !.hits = Visible(ask[a].list)] \in Question
          /\ [ask[a] EXCEPT !.hits = Visible(ask[a].list)].list = ask[a].list
      BY <1>a, <2>1 DEF Question
    <3> QED
      BY <1>2, <1>a, <2>1, <3>1 DEF Compute, AskType, ProcsType, Goto
  <2> QED
    BY <1>2, <2>3, <2>4 DEF Compute, StoreType, CountType
<1>3. CASE Store(a)
  <2>1. pc[a] = "store" /\ ask[a].list \in Lists
    BY <1>3 DEF Store, AskType
  <2>2. AtType(a, "list", call[a])
    BY <1>a, <1>c DEF AtType, AskerPcs, WriterPcs, StorePcs
  <2>3. ProcsType'
    BY <1>3, <1>a, <2>2, GotoType DEF Store, AskerPcs
  <2>4. AskType'
    <3>1. [ask[a] EXCEPT !.blame = {}, !.list = {}] \in Question
      BY <1>a DEF Question, Blames
    <3>2. ask' = [ask EXCEPT ![a] = [ask[a] EXCEPT !.blame = {}, !.list = {}]]
      BY <1>3, <1>a DEF Store, AskType
    <3> QED
      BY <1>3, <1>a, <3>1, <3>2 DEF Store, AskType, ProcsType, Goto
  <2>5. StoreType'
    BY <1>3, <1>a, <2>1 DEF Store, StoreType, Entry, Question
  <2> QED
    BY <1>3, <2>3, <2>4, <2>5 DEF Store, CountType
<1>4. CASE List(a)
  <2> DEFINE here == {p \in ask[a].hits : para[p].live}
             r == [ask[a] EXCEPT !.hits = {}, !.shown = here, !.missing = ask[a].hits \ here]
  <2>1. pc[a] = "list" /\ r \in Question
    BY <1>4, <1>a DEF List, Question
  <2> HIDE DEF r
  <2>2. AtType(a, "sweep", call[a])
    BY <1>a, <1>c DEF AtType, AskerPcs, WriterPcs, StorePcs
  <2>3. ProcsType'
    BY <1>4, <1>a, <2>2, GotoType DEF List, AskerPcs
  <2>4. ask' = [ask EXCEPT ![a] = r]
    BY <1>4, <1>a DEF List, AskType, r
  <2>5. AskType'
    <3>1. pc' = [pc EXCEPT ![a] = "sweep"]
      BY <1>4 DEF List, Goto
    <3> QED
      BY <1>a, <2>1, <2>4, <3>1 DEF AskType, ProcsType
  <2> QED
    BY <1>4, <2>3, <2>5 DEF List, StoreType, CountType
<1>5. CASE Sweep(a)
  <2>1. PICK p \in ask[a].missing :
            /\ ask' = [ask EXCEPT ![a].missing = @ \ {p}]
            /\ call' = [call EXCEPT ![a] = [NoCall EXCEPT !.op = "sweep", !.para = p]]
            /\ Goto(a, "lookup")
    BY <1>5 DEF Sweep
  <2> DEFINE c == [NoCall EXCEPT !.op = "sweep", !.para = p]
             r == [ask[a] EXCEPT !.missing = @ \ {p}]
  <2>2. p \in Paras /\ r \in Question
    BY <1>a DEF Question
  <2>3. c \in Call /\ c.op = "sweep" /\ c.para = p
    BY <2>2, BlankTypes DEF Call
  <2> HIDE DEF c, r
  <2>4. AtType(a, "lookup", c)
    BY <1>a, <2>2, <2>3 DEF AtType, AskerPcs, WriterPcs, StorePcs
  <2>5. ProcsType'
    BY <1>a, <2>1, <2>3, <2>4, MoveType DEF Goto, AskerPcs, StorePcs, c
  <2>6. AskType'
    <3>1. ask' = [ask EXCEPT ![a] = r] /\ pc' = [pc EXCEPT ![a] = "lookup"]
      BY <1>a, <2>1 DEF r, Goto, AskType
    <3> QED
      BY <1>a, <2>2, <3>1 DEF AskType, ProcsType
  <2> QED
    BY <1>5, <2>5, <2>6 DEF Sweep, StoreType, CountType
<1>6. CASE Answer(a)
  <2>1. AtType(a, "idle", call[a])
    BY <1>a, <1>c DEF AtType, AskerPcs, WriterPcs, StorePcs
  <2>2. ProcsType'
    BY <1>6, <1>a, <2>1, GotoType DEF Answer, AskerPcs
  <2>3. AskType'
    BY <1>6, <1>a, BlankTypes DEF Answer, AskType, ProcsType, Goto
  <2> QED
    BY <1>6, <2>2, <2>3 DEF Answer, StoreType, CountType
<1> QED
  BY <1>1, <1>2, <1>3, <1>4, <1>5, <1>6

LEMMA TypeNext == TypeOK /\ [Next]_vars => TypeOK'
<1> SUFFICES ASSUME TypeOK, [Next]_vars PROVE TypeOK'
  OBVIOUS
<1>1. ASSUME NEW w \in Writers, Request(w) \/ WriterStep(w) PROVE TypeOK'
  BY <1>1, RequestTypes, WriterTypes, StoreCallTypes DEF WriterStep, Procs
<1>2. ASSUME NEW a \in Askers, AskerStep(a) \/ \E k \in Lists : Ask(a, k) PROVE TypeOK'
  BY <1>2, AskerTypes, StoreCallTypes DEF AskerStep, Procs
<1>3. ASSUME NEW k \in Lists, Expire(k) PROVE TypeOK'
  BY <1>3, Parts, BlankTypes DEF Expire, StoreType, ProcsType, AskType, CountType
<1>4. CASE UNCHANGED vars
  BY <1>4, Parts DEF vars, StoreType, ProcsType, AskType, CountType
<1> QED
  BY <1>1, <1>2, <1>3, <1>4 DEF Next

\* Every behaviour keeps the types: an embedding row always has a knowledge base, and a
\* call of the store a paragraph.
THEOREM TypeCorrect == Spec => []TypeOK
BY TypeInit, TypeNext, PTL DEF Spec

-----------------------------------------------------------------------------
(* Every stale result is explained.  The invariant adds what is known of a *)
(* result between its search and its caching: what changed is in its blame *)
(* already.                                                                *)

\* The result cached for k is right about p, or will be removed, or bears a cause.
Explained(k, p) ==
    cache[k].stored =>
        \/ p \in cache[k].hits <=> Found(vec[p], k)
        \/ Pending(k, p)
        \/ \E why \in Causes : <<p, why>> \in cache[k].blame
                               /\ (p \in cache[k].hits => why # "inserted")

AllExplained == \A k \in Lists, p \in Paras : Explained(k, p)

LateIsBlamed ==
    \A a \in Askers, p \in Paras :
        pc[a] = "store" => \/ p \in ask[a].hits <=> Found(vec[p], ask[a].list)
                           \/ <<p, "late">> \in ask[a].blame

IInv == TypeOK /\ AllExplained /\ LateIsBlamed

LEMMA ExplainedIsStale == AllExplained => StaleIsExplained
BY DEF AllExplained, Explained, StaleIsExplained, StaleHit, StaleMiss, Visible, Causes

\* A step of q alone.
Only(q) == \A x \in Procs \ {q} : pc'[x] = pc[x] /\ call'[x] = call[x]

LEMMA OnlyGoto ==
    ASSUME ProcsType, NEW q \in Procs, NEW l, Goto(q, l)
    PROVE  pc'[q] = l /\ \A x \in Procs \ {q} : pc'[x] = pc[x]
BY DEF ProcsType, Goto

\* A process that is not scanning takes no invalidation away.
LEMMA PendingKept ==
    ASSUME NEW q \in Procs, Only(q), pc[q] # "scan", NEW k, NEW p
    PROVE  Pending(k, p) => Pending(k, p)'
BY DEF Pending, Only

\* A step that leaves the store and the cache alone.
LEMMA QuietStep ==
    ASSUME AllExplained, NEW q \in Procs, Only(q), pc[q] # "scan", UNCHANGED <<vec, cache>>
    PROVE  AllExplained'
<1> SUFFICES ASSUME NEW k \in Lists, NEW p \in Paras PROVE Explained(k, p)'
  BY DEF AllExplained
<1> QED
  BY PendingKept DEF AllExplained, Explained

\* A step that leaves the questions' results alone.
LEMMA QuietAsk ==
    ASSUME LateIsBlamed, NEW q \in Procs, Only(q), pc'[q] # "store", UNCHANGED vec,
           \A a \in Askers \ {q} :
               /\ ask'[a].hits = ask[a].hits /\ ask'[a].list = ask[a].list
               /\ ask'[a].blame = ask[a].blame
    PROVE  LateIsBlamed'
BY DEF LateIsBlamed, Only, Procs

\* The blame of one paragraph says nothing of the others, and is only taken from a
\* result that is right.
LEMMA BlameIs ==
    ASSUME StoreType, NEW K, NEW p \in Paras, NEW rows, NEW why, NEW k \in Lists, cache[k].stored,
           cache' = Blame(K, p, rows, why)
    PROVE  /\ cache'[k].stored /\ cache'[k].hits = cache[k].hits
           /\ \A x \in Paras \ {p} : \A y :
                <<x, y>> \in cache[k].blame => <<x, y>> \in cache'[k].blame
           /\ ~(p \in cache'[k].hits <=> Found(rows, k)) =>
                 /\ cache[k].blame \subseteq cache'[k].blame
                 /\ k \in K => <<p, why>> \in cache'[k].blame
<1>1. cache[k] \in Entry
  BY DEF StoreType
<1>2. ASSUME NEW b, NEW x \in Paras \ {p}, NEW y, <<x, y>> \in b
      PROVE  <<x, y>> \in WithoutBlame(b, p) /\ <<x, y>> \in Reblame(cache[k].hits, k, b, p, rows, why)
  BY <1>2 DEF WithoutBlame, Reblame
<1> DEFINE b == IF k \in K THEN Reblame(cache[k].hits, k, cache[k].blame, p, rows, why)
                ELSE IF p \in cache[k].hits <=> Found(rows, k)
                     THEN WithoutBlame(cache[k].blame, p)
                ELSE cache[k].blame
<1>3. cache'[k] = [cache[k] EXCEPT !.blame = b]
  BY DEF Blame
<1>4. /\ [cache[k] EXCEPT !.blame = b].stored = cache[k].stored
      /\ [cache[k] EXCEPT !.blame = b].hits = cache[k].hits
      /\ [cache[k] EXCEPT !.blame = b].blame = b
  <2> HIDE DEF b
  <2> QED
    BY <1>1 DEF Entry
<1>5. \A x \in Paras \ {p} : \A y : <<x, y>> \in cache[k].blame => <<x, y>> \in b
  BY <1>2
<1>6. ~(p \in cache[k].hits <=> Found(rows, k)) =>
         cache[k].blame \subseteq b /\ (k \in K => <<p, why>> \in b)
  BY DEF Reblame
<1> HIDE DEF b
<1> QED
  BY <1>3, <1>4, <1>5, <1>6

LEMMA BlameLateIs ==
    ASSUME AskType, NEW p \in Paras, NEW rows, NEW a \in Askers, pc[a] = "store"
    PROVE  LET r == BlameLate(p, rows)[a] IN
           /\ r.hits = ask[a].hits /\ r.list = ask[a].list
           /\ \A x \in Paras \ {p} : <<x, "late">> \in ask[a].blame => <<x, "late">> \in r.blame
           /\ ~(p \in r.hits <=> Found(rows, r.list)) => <<p, "late">> \in r.blame
<1> DEFINE b == Reblame(ask[a].hits, ask[a].list, ask[a].blame, p, rows, "late")
<1>1. ask[a] \in Question
  BY DEF AskType
<1>2. BlameLate(p, rows)[a] = [ask[a] EXCEPT !.blame = b]
  BY DEF BlameLate
<1>3. /\ [ask[a] EXCEPT !.blame = b].hits = ask[a].hits
      /\ [ask[a] EXCEPT !.blame = b].list = ask[a].list
      /\ [ask[a] EXCEPT !.blame = b].blame = b
  <2> HIDE DEF b
  <2> QED
    BY <1>1 DEF Question
<1>4. \A x \in Paras \ {p} : <<x, "late">> \in ask[a].blame => <<x, "late">> \in b
  BY DEF Reblame, WithoutBlame
<1>5. ~(p \in ask[a].hits <=> Found(rows, ask[a].list)) => <<p, "late">> \in b
  BY DEF Reblame
<1> HIDE DEF b
<1> QED
  BY <1>2, <1>3, <1>4, <1>5

\* The rows of a paragraph change.  Each cached result is right about it as before, or
\* is about to be removed, or bears the cause.
LEMMA RowsStep ==
    ASSUME TypeOK, AllExplained, NEW q \in Procs, Only(q), pc[q] # "scan",
           NEW p \in Paras, NEW new, NEW K, NEW why \in Causes,
           vec' = [vec EXCEPT ![p] = new], cache' = Blame(K, p, new, why),
           NEW k \in Lists,
           \/ Pending(k, p)'
           \/ Found(vec[p], k) <=> Found(new, k)
           \/ k \in K /\ why # "inserted"
           \/ k \in K /\ (Found(vec[p], k) => Found(new, k)),
           NEW x \in Paras
    PROVE  Explained(k, x)'
<1> SUFFICES ASSUME (cache[k].stored)'
             PROVE  Explained(k, x)'
  BY DEF Explained
<1>1. StoreType
  BY Parts
<1>2. cache[k].stored /\ Explained(k, x) /\ Explained(k, p)
  BY DEF AllExplained, Blame
<1>3. vec'[p] = new /\ (x # p => vec'[x] = vec[x])
  BY <1>1 DEF StoreType
<1>4. Pending(k, x) => Pending(k, x)'
  BY PendingKept
<1>5. /\ cache'[k].stored /\ cache'[k].hits = cache[k].hits
      /\ \A z \in Paras \ {p} : \A y : <<z, y>> \in cache[k].blame => <<z, y>> \in cache'[k].blame
      /\ ~(p \in cache'[k].hits <=> Found(new, k)) =>
            /\ cache[k].blame \subseteq cache'[k].blame
            /\ k \in K => <<p, why>> \in cache'[k].blame
  BY <1>1, <1>2, BlameIs
<1>6. CASE x # p
  BY <1>2, <1>3, <1>4, <1>5, <1>6 DEF Explained
<1>7. CASE x = p
  <2>1. CASE Pending(k, p)' \/ (p \in cache'[k].hits <=> Found(new, k))
    BY <1>3, <1>7, <2>1 DEF Explained
  <2>2. CASE ~(p \in cache'[k].hits <=> Found(new, k)) /\ (Found(vec[p], k) <=> Found(new, k))
    BY <1>2, <1>3, <1>4, <1>5, <1>7, <2>2 DEF Explained
  <2>3. CASE ~(p \in cache'[k].hits <=> Found(new, k)) /\ k \in K /\ why # "inserted"
    BY <1>5, <1>7, <2>3 DEF Explained
  <2>4. CASE /\ ~(p \in cache'[k].hits <=> Found(new, k)) /\ k \in K
             /\ Found(vec[p], k) => Found(new, k)
    <3>1. CASE p \in cache[k].hits
      BY <1>2, <1>3, <1>4, <1>5, <1>7, <2>4, <3>1 DEF Explained
    <3>2. CASE p \notin cache[k].hits
      BY <1>5, <1>7, <2>4, <3>2 DEF Explained
    <3> QED
      BY <3>1, <3>2
  <2> QED
    BY <2>1, <2>2, <2>3, <2>4
<1> QED
  BY <1>6, <1>7

LEMMA RowsAsk ==
    ASSUME TypeOK, LateIsBlamed, NEW q \in Procs, Only(q), pc'[q] # "store",
           NEW p \in Paras, NEW new,
           vec' = [vec EXCEPT ![p] = new], ask' = BlameLate(p, new)
    PROVE  LateIsBlamed'
<1> SUFFICES ASSUME NEW a \in Askers, NEW x \in Paras, pc'[a] = "store"
             PROVE  \/ x \in ask'[a].hits <=> Found(vec'[x], ask'[a].list)
                    \/ <<x, "late">> \in ask'[a].blame
  BY DEF LateIsBlamed
<1>1. StoreType /\ AskType
  BY Parts
<1>2. pc[a] = "store"
  BY DEF Only, Procs
<1>3. vec'[p] = new /\ (x # p => vec'[x] = vec[x])
  BY <1>1 DEF StoreType
<1>4. /\ ask'[a].hits = ask[a].hits /\ ask'[a].list = ask[a].list
      /\ \A z \in Paras \ {p} : <<z, "late">> \in ask[a].blame => <<z, "late">> \in ask'[a].blame
      /\ ~(p \in ask'[a].hits <=> Found(new, ask'[a].list)) => <<p, "late">> \in ask'[a].blame
  BY <1>1, <1>2, BlameLateIs
<1>5. CASE x = p
  BY <1>3, <1>4, <1>5
<1>6. CASE x # p
  <2>1. \/ x \in ask[a].hits <=> Found(vec[x], ask[a].list)
        \/ <<x, "late">> \in ask[a].blame
    BY <1>2 DEF LateIsBlamed
  <2> QED
    BY <1>3, <1>4, <1>6, <2>1
<1> QED
  BY <1>5, <1>6

-----------------------------------------------------------------------------
(* Every action keeps the invariant.                                       *)

LEMMA IInit == Init => IInv
<1> SUFFICES ASSUME Init PROVE IInv
  OBVIOUS
<1>1. AllExplained
  BY DEF Init, AllExplained, Explained, Empty
<1>2. LateIsBlamed
  BY DEF Init, LateIsBlamed, Procs
<1> QED
  BY <1>1, <1>2, TypeInit DEF IInv

\* Where a call of the store goes on to.
LEMMA ReturnOnly ==
    ASSUME ProcsType, NEW q \in Procs, Return(q)
    PROVE  Only(q) /\ pc'[q] \notin {"store", "scan"}
BY OnlyGoto DEF Return, Done, Only, ProcsType

\* The write of a call outside a transaction: the lists found by the lookup are about to
\* be removed, the others cannot hold the rows, unless the rows have moved.
LEMMA WriteIsSeen ==
    ASSUME TypeOK, NEW q \in Procs, Write(q), call[q].op \notin TransactionOps,
           NEW k \in Lists, NEW p \in Paras, p = call[q].para
    PROVE  \/ Pending(k, p)'
           \/ Found(vec[p], k) <=> Found(Rows(call[q]), k)
           \/ k \in Lost(call[q])
<1> DEFINE c == call[q]
<1>1. ProcsType /\ c \in Call
  BY Parts, CallType
<1>2. CASE k \cap c.kbs # {}
  <2>1. k \in Affected(c.kbs)
    BY <1>2 DEF Affected
  <2> DEFINE d == [c EXCEPT !.kbs = {}, !.scan = Affected(c.kbs)]
  <2>2. d.op = c.op /\ d.para = p /\ d.scan = Affected(c.kbs)
    BY <1>1 DEF Call
  <2>3. pc'[q] = "scan" /\ call' = [call EXCEPT ![q].kbs = {}, ![q].scan = Affected(c.kbs)]
    BY <1>1, OnlyGoto DEF Write
  <2>4. call'[q] = d
    BY <1>1, <2>3 DEF ProcsType
  <2> HIDE DEF d
  <2>5. /\ pc'[q] = "scan" /\ call'[q].para = p /\ call'[q].op \notin TransactionOps
        /\ k \in call'[q].scan
    BY <2>1, <2>2, <2>3, <2>4
  <2> QED
    BY <2>5 DEF Pending
<1>3. CASE k \cap c.kbs = {} /\ k \notin Lost(c)
  <2>1. k \cap KnowledgeIds(p) = {}
    BY <1>3 DEF Lost
  <2>2. ASSUME NEW r \in vec[p] PROVE r.kb \notin k
    BY <2>1 DEF KnowledgeIds
  <2>3. ~Found(vec[p], k)
    BY <2>2 DEF Found
  <2>4. ASSUME NEW r \in Rows(c) PROVE r.kb \notin k
    <3>1. PICK s \in vec[p] : r = [s EXCEPT !.active = (c.op = "enable")]
      BY <2>4 DEF Rows
    <3>2. s \in VecRow
      BY <1>1, Parts, CallType, ReadType DEF Write, StorePcs
    <3>3. r.kb = s.kb
      BY <3>1, <3>2 DEF VecRow
    <3> QED
      BY <2>2, <3>3
  <2>5. ~Found(Rows(c), k)
    BY <2>4 DEF Found
  <2> QED
    BY <2>3, <2>5
<1> QED
  BY <1>2, <1>3

LEMMA StoreCallKeeps ==
    ASSUME IInv, NEW q \in Procs, StoreCall(q)
    PROVE  AllExplained' /\ LateIsBlamed'
<1> USE Parts DEF IInv
<1>c. /\ call[q] \in Call
      /\ pc[q] \in StorePcs => call[q].para \in Paras
  BY CallType
<1>1. CASE Lookup(q)
  <2>1. Only(q) /\ pc[q] = "lookup" /\ pc'[q] = "write"
    BY <1>1, OnlyGoto DEF Lookup, Only, ProcsType
  <2> QED
    BY <1>1, <2>1, QuietStep, QuietAsk DEF Lookup
<1>2. CASE Write(q)
  <2>1. Only(q) /\ pc[q] = "write" /\ pc'[q] = "scan" /\ call[q].para \in Paras
    <3>1. \A x \in Procs \ {q} : call'[x] = call[x]
      BY <1>2 DEF Write, ProcsType
    <3> QED
      BY <1>2, <1>c, <3>1, OnlyGoto DEF Write, Only, StorePcs
  <2>2. CASE call[q].op \in TransactionOps
    BY <1>2, <2>1, <2>2, QuietStep, QuietAsk DEF Write
  <2>3. CASE call[q].op \notin TransactionOps
    <3> DEFINE new == Rows(call[q])
               K == Lost(call[q])
    <3>1. PICK p \in Paras : p = call[q].para
      BY <2>1
    <3>2. /\ vec' = [vec EXCEPT ![p] = new] /\ ask' = BlameLate(p, new)
          /\ cache' = Blame(K, p, new, "moved")
      BY <1>2, <2>3, <3>1 DEF Write
    <3>3. Only(q) /\ pc[q] # "scan" /\ pc'[q] # "store" /\ "moved" \in Causes
      BY <2>1 DEF Causes
    <3>4. ASSUME NEW k \in Lists
          PROVE  Pending(k, p)' \/ (Found(vec[p], k) <=> Found(new, k)) \/ k \in K
      BY <1>2, <2>3, <3>1, WriteIsSeen
    <3> HIDE DEF new, K
    <3>5. ASSUME NEW k \in Lists, NEW x \in Paras PROVE Explained(k, x)'
      BY <3>2, <3>3, <3>4, RowsStep
    <3>6. AllExplained'
      BY <3>5 DEF AllExplained
    <3>7. LateIsBlamed'
      BY <3>2, <3>3, RowsAsk
    <3> QED
      BY <3>6, <3>7
  <2> QED
    BY <2>2, <2>3
<1>3. ASSUME NEW l \in Lists, ScanKey(q, l)
      PROVE  AllExplained' /\ LateIsBlamed'
  <2> DEFINE c == [call[q] EXCEPT !.scan = @ \ {l},
                                  !.found = IF cache[l].stored THEN @ \cup {l} ELSE @]
  <2>1. /\ c.op = call[q].op /\ c.para = call[q].para
        /\ c.scan = call[q].scan \ {l}
        /\ c.found = IF cache[l].stored THEN call[q].found \cup {l} ELSE call[q].found
    BY <1>c DEF Call
  <2>2. call' = [call EXCEPT ![q] = c] /\ pc' = pc /\ vec' = vec /\ cache' = cache /\ ask' = ask
    BY <1>3 DEF ScanKey, ProcsType
  <2> HIDE DEF c
  <2>3. /\ call'[q] = c /\ \A x \in Procs \ {q} : call'[x] = call[x]
        /\ \A x \in Procs : pc'[x] = pc[x]
    BY <2>2 DEF ProcsType
  <2>4. ASSUME NEW k \in Lists, NEW p \in Paras, cache[k].stored, Pending(k, p)
        PROVE  Pending(k, p)'
    <3>1. PICK x \in Procs :
            /\ pc[x] = "scan" /\ call[x].para = p /\ call[x].op \notin TransactionOps
            /\ k \in call[x].scan \cup call[x].found
      BY <2>4 DEF Pending
    <3>2. /\ pc'[x] = "scan" /\ call'[x].para = p /\ call'[x].op \notin TransactionOps
          /\ k \in call'[x].scan \cup call'[x].found
      BY <2>1, <2>3, <2>4, <3>1
    <3> QED
      BY <3>2 DEF Pending
  <2>5. AllExplained'
    BY <2>2, <2>4 DEF AllExplained, Explained
  <2>6. LateIsBlamed'
    BY <2>2 DEF LateIsBlamed
  <2> QED
    BY <2>5, <2>6
<1>4. CASE Drop(q)
  <2>1. Only(q) /\ pc'[q] # "store" /\ pc[q] = "scan" /\ call[q].scan = {} /\ vec' = vec /\ ask' = ask
    BY <1>4, ReturnOnly DEF Drop
  <2>2. LateIsBlamed'
    BY <2>1, QuietAsk
  <2>3. ASSUME NEW k \in Lists, NEW p \in Paras, cache'[k].stored PROVE Explained(k, p)'
    <3>1. k \notin call[q].found /\ cache'[k] = cache[k]
      BY <1>4, <2>3 DEF Drop, Empty
    <3>2. Pending(k, p) => Pending(k, p)'
      BY <2>1, <3>1 DEF Pending, Only
    <3> QED
      BY <2>1, <3>1, <3>2 DEF AllExplained, Explained
  <2> QED
    BY <2>2, <2>3 DEF AllExplained, Explained
<1>5. CASE InvalidateFails(q)
  <2> DEFINE c == call[q]
  <2>1. /\ Only(q) /\ pc'[q] # "store" /\ pc[q] = "scan" /\ c.para \in Paras
        /\ vec' = vec /\ ask' = ask
        /\ cache' = Blame(c.scan \cup c.found, c.para, vec[c.para], "failed")
    BY <1>5, <1>c, ReturnOnly DEF InvalidateFails, StorePcs
  <2>2. LateIsBlamed'
    BY <2>1, QuietAsk
  <2>3. ASSUME NEW k \in Lists, NEW p \in Paras, cache'[k].stored PROVE Explained(k, p)'
    <3>1. cache[k].stored /\ Explained(k, p)
      BY <2>1, <2>3 DEF Blame, AllExplained
    <3>2. /\ cache'[k].stored /\ cache'[k].hits = cache[k].hits
          /\ \A z \in Paras \ {c.para} : \A y :
                <<z, y>> \in cache[k].blame => <<z, y>> \in cache'[k].blame
          /\ ~(c.para \in cache'[k].hits <=> Found(vec[c.para], k)) =>
                /\ cache[k].blame \subseteq cache'[k].blame
                /\ k \in c.scan \cup c.found => <<c.para, "failed">> \in cache'[k].blame
      <4> DEFINE K == c.scan \cup c.found
                 x == c.para
                 rows == vec[c.para]
      <4>1. cache' = Blame(K, x, rows, "failed") /\ x \in Paras /\ cache[k].stored /\ StoreType
        BY <2>1, <3>1
      <4> HIDE DEF K, x, rows
      <4>2. /\ cache'[k].stored /\ cache'[k].hits = cache[k].hits
            /\ \A z \in Paras \ {x} : \A y : <<z, y>> \in cache[k].blame => <<z, y>> \in cache'[k].blame
            /\ ~(x \in cache'[k].hits <=> Found(rows, k)) =>
                  /\ cache[k].blame \subseteq cache'[k].blame
                  /\ k \in K => <<x, "failed">> \in cache'[k].blame
        BY <4>1, BlameIs
      <4> QED
        BY <4>2 DEF K, x, rows
    <3>3. ASSUME ~(p = c.para /\ k \in c.scan \cup c.found), Pending(k, p)
          PROVE  Pending(k, p)'
      BY <2>1, <3>3 DEF Pending, Only
    <3>4. CASE p = c.para /\ k \in c.scan \cup c.found
      BY <2>1, <3>2, <3>4 DEF Explained, Causes
    <3>5. CASE p = c.para /\ k \notin c.scan \cup c.found
      BY <2>1, <3>1, <3>2, <3>3, <3>5 DEF Explained
    <3>6. CASE p # c.para
      BY <2>1, <3>1, <3>2, <3>3, <3>6 DEF Explained
    <3> QED
      BY <3>4, <3>5, <3>6
  <2> QED
    BY <2>2, <2>3 DEF AllExplained, Explained
<1> QED
  BY <1>1, <1>2, <1>3, <1>4, <1>5 DEF StoreCall

LEMMA RequestKeeps ==
    ASSUME IInv, NEW w \in Writers, Request(w)
    PROVE  AllExplained' /\ LateIsBlamed'
<1> USE Parts DEF IInv
<1>1. /\ pc[w] = "idle" /\ pc'[w] \notin {"store", "scan"} /\ Only(w)
      /\ UNCHANGED <<vec, cache>>
  <2>1. /\ pc[w] = "idle" /\ UNCHANGED <<vec, cache>>
        /\ \E l \in {"save", "lookup", "text"} : Goto(w, l)
        /\ \E c : call' = [call EXCEPT ![w] = c]
    BY DEF Request, Edit, Delete, BatchDelete, Embed, Migrate, Arrive
  <2>2. \A x \in Procs \ {w} : call'[x] = call[x]
    BY <2>1 DEF ProcsType
  <2>3. PICK l \in {"save", "lookup", "text"} : Goto(w, l)
    BY <2>1
  <2> QED
    BY <2>1, <2>2, <2>3, OnlyGoto DEF Only, Procs
<1>2. \A a \in Askers : /\ ask'[a].hits = ask[a].hits /\ ask'[a].list = ask[a].list
                        /\ ask'[a].blame = ask[a].blame
  <2>1. PICK p \in Paras : ask' = [a \in Askers |-> [ask[a] EXCEPT !.settled = @ \ {p}]]
    BY DEF Request, Edit, Delete, BatchDelete, Embed, Migrate, Arrive
  <2>2. ASSUME NEW r \in Question, NEW b
        PROVE  /\ [r EXCEPT !.settled = b].hits = r.hits /\ [r EXCEPT !.settled = b].list = r.list
               /\ [r EXCEPT !.settled = b].blame = r.blame
    BY DEF Question
  <2> QED
    BY <2>1, <2>2 DEF AskType
<1> QED
  BY <1>1, <1>2, QuietStep, QuietAsk DEF Procs

LEMMA WriterKeeps ==
    ASSUME IInv, NEW w \in Writers,
           Save(w) \/ Commit(w) \/ ReadText(w) \/ Recheck(w) \/ Insert(w)
    PROVE  AllExplained' /\ LateIsBlamed'
<1> USE Parts DEF IInv
<1>w. w \in Procs
  BY DEF Procs
<1>1. CASE Save(w) \/ ReadText(w) \/ Recheck(w)
  <2>1. /\ pc[w] # "scan" /\ UNCHANGED <<vec, cache, ask>>
        /\ \E l \in {"text", "lookup", "insert", "idle"} : Goto(w, l)
    BY <1>1 DEF Save, ReadText, Recheck, Done
  <2>2. \A x \in Procs \ {w} : call'[x] = call[x]
    BY <1>1 DEF Save, ReadText, Recheck, Done, ProcsType
  <2>3. Only(w) /\ pc'[w] # "store"
    BY <1>w, <2>1, <2>2, OnlyGoto DEF Only
  <2> QED
    BY <1>w, <2>1, <2>3, QuietStep, QuietAsk
<1>2. ASSUME NEW new, NEW why \in {"early", "inserted"}, pc[w] \in {"commit", "insert"},
             vec' = [vec EXCEPT ![call[w].para] = new],
             cache' = Blame(Lists, call[w].para, new, why),
             ask' = BlameLate(call[w].para, new), Done(w),
             why = "inserted" => vec[call[w].para] \subseteq new
      PROVE  AllExplained' /\ LateIsBlamed'
  <2>1. Only(w) /\ pc'[w] # "store" /\ pc[w] # "scan" /\ call[w].para \in Paras
    <3>1. call[w].para \in Paras
      BY <1>w, <1>2, CallType DEF WriterPcs
    <3>2. \A x \in Procs \ {w} : call'[x] = call[x]
      BY <1>2 DEF Done, ProcsType
    <3> QED
      BY <1>w, <1>2, <3>1, <3>2, OnlyGoto DEF Only, Done
  <2>2. ASSUME NEW k \in Lists PROVE why # "inserted" \/ (Found(vec[call[w].para], k) => Found(new, k))
    BY <1>2 DEF Found
  <2>3. AllExplained'
    <3>1. PICK p \in Paras : p = call[w].para
      BY <2>1
    <3>2. why \in Causes /\ vec' = [vec EXCEPT ![p] = new] /\ cache' = Blame(Lists, p, new, why)
      BY <1>2, <3>1 DEF Causes
    <3>3. ASSUME NEW k \in Lists, NEW x \in Paras PROVE Explained(k, x)'
      <4>1. why # "inserted" \/ (Found(vec[p], k) => Found(new, k))
        BY <2>2, <3>1
      <4> QED
        BY <1>w, <2>1, <3>2, <4>1, RowsStep
    <3> QED
      BY <3>3 DEF AllExplained
  <2>4. LateIsBlamed'
    BY <1>w, <1>2, <2>1, RowsAsk
  <2> QED
    BY <2>3, <2>4
<1>3. CASE Commit(w)
  BY <1>2, <1>3 DEF Commit
<1>4. CASE Insert(w)
  BY <1>2, <1>4 DEF Insert
<1> QED
  BY <1>1, <1>3, <1>4

LEMMA AskerKeeps ==
    ASSUME IInv, NEW a \in Askers,
           \/ Compute(a) \/ Store(a) \/ List(a) \/ Sweep(a) \/ Answer(a)
           \/ \E k \in Lists : Ask(a, k)
    PROVE  AllExplained' /\ LateIsBlamed'
<1> USE Parts DEF IInv
<1>a. a \in Procs /\ ask[a] \in Question
  BY DEF Procs, AskType
<1>1. CASE List(a) \/ Sweep(a) \/ Answer(a) \/ \E k \in Lists : Ask(a, k)
  <2>1. /\ pc[a] # "scan" /\ UNCHANGED <<vec, cache>>
        /\ \E l \in {"list", "compute", "sweep", "lookup", "idle"} : Goto(a, l)
    BY <1>1 DEF List, Sweep, Answer, Ask
  <2>2. \A x \in Procs \ {a} : call'[x] = call[x]
    BY <1>1 DEF List, Sweep, Answer, Ask, ProcsType
  <2>3. \A b \in Askers \ {a} : ask'[b] = ask[b]
    BY <1>1 DEF List, Sweep, Answer, Ask, AskType
  <2>4. Only(a) /\ pc'[a] # "store"
    BY <1>a, <2>1, <2>2, OnlyGoto DEF Only
  <2> QED
    BY <1>a, <2>1, <2>3, <2>4, QuietStep, QuietAsk
<1>2. CASE Compute(a)
  <2>1. Only(a) /\ pc[a] = "compute" /\ UNCHANGED <<vec, cache>>
    BY <1>2, <1>a, OnlyGoto DEF Compute, Only
  <2>2. /\ \A b \in Askers \ {a} : ask'[b] = ask[b]
        /\ ask'[a].hits = Visible(ask[a].list) /\ ask'[a].list = ask[a].list
    BY <1>2, <1>a DEF Compute, AskType, Question
  <2>3. LateIsBlamed'
    BY <1>a, <2>1, <2>2 DEF LateIsBlamed, Visible, Only, Procs
  <2> QED
    BY <1>a, <2>1, <2>3, QuietStep
<1>3. CASE Store(a)
  <2>1. Only(a) /\ pc[a] = "store" /\ pc'[a] = "list" /\ vec' = vec
    BY <1>3, <1>a, OnlyGoto DEF Store, Only
  <2>2. \A b \in Askers \ {a} : ask'[b] = ask[b]
    BY <1>3 DEF Store, AskType
  <2>3. LateIsBlamed'
    BY <1>a, <2>1, <2>2, QuietAsk
  <2>4. ASSUME NEW k \in Lists, NEW p \in Paras PROVE Explained(k, p)'
    <3>1. CASE k = ask[a].list
      <4>1. cache'[k].hits = ask[a].hits /\ cache'[k].blame = ask[a].blame
        BY <1>3, <3>1 DEF Store, StoreType
      <4>2. \/ p \in ask[a].hits <=> Found(vec[p], k)
            \/ <<p, "late">> \in ask[a].blame
        BY <2>1, <3>1 DEF LateIsBlamed
      <4> QED
        BY <2>1, <4>1, <4>2 DEF Explained, Causes
    <3>2. CASE k # ask[a].list
      <4>1. cache'[k] = cache[k]
        BY <1>3, <3>2 DEF Store, StoreType
      <4> QED
        BY <1>a, <2>1, <4>1, PendingKept DEF AllExplained, Explained
    <3> QED
      BY <3>1, <3>2
  <2> QED
    BY <2>3, <2>4 DEF AllExplained
<1> QED
  BY <1>1, <1>2, <1>3

LEMMA INext == IInv /\ [Next]_vars => IInv'
<1> SUFFICES ASSUME IInv, [Next]_vars PROVE IInv'
  OBVIOUS
<1>1. TypeOK'
  BY TypeNext DEF IInv
<1>2. ASSUME NEW w \in Writers, Request(w) \/ WriterStep(w) PROVE AllExplained' /\ LateIsBlamed'
  BY <1>2, RequestKeeps, WriterKeeps, StoreCallKeeps DEF WriterStep, Procs
<1>3. ASSUME NEW a \in Askers, AskerStep(a) \/ \E k \in Lists : Ask(a, k)
      PROVE  AllExplained' /\ LateIsBlamed'
  BY <1>3, AskerKeeps, StoreCallKeeps DEF AskerStep, Procs
<1>4. ASSUME NEW k \in Lists, Expire(k) PROVE AllExplained' /\ LateIsBlamed'
  <2>1. UNCHANGED <<vec, pc, call, ask>> /\ \A l \in Lists \ {k} : cache'[l] = cache[l]
    BY <1>4, Parts DEF Expire, StoreType, IInv
  <2>2. ~cache'[k].stored
    BY <1>4, Parts DEF Expire, Empty, StoreType, IInv
  <2>3. ASSUME NEW l \in Lists, NEW p \in Paras PROVE Explained(l, p)'
    <3>1. Pending(l, p) => Pending(l, p)'
      BY <2>1 DEF Pending
    <3> QED
      BY <2>1, <2>2, <3>1 DEF IInv, AllExplained, Explained
  <2>4. LateIsBlamed'
    BY <2>1 DEF IInv, LateIsBlamed
  <2> QED
    BY <2>3, <2>4 DEF AllExplained
<1>5. CASE UNCHANGED vars
  <2>1. UNCHANGED <<vec, cache, pc, call, ask>>
    BY <1>5 DEF vars
  <2>2. ASSUME NEW l \in Lists, NEW p \in Paras PROVE Explained(l, p)'
    <3>1. Pending(l, p) => Pending(l, p)'
      BY <2>1 DEF Pending
    <3> QED
      BY <2>1, <3>1 DEF IInv, AllExplained, Explained
  <2>3. LateIsBlamed'
    BY <2>1 DEF IInv, LateIsBlamed
  <2> QED
    BY <1>1, <2>2, <2>3 DEF IInv, AllExplained
<1> QED
  BY <1>1, <1>2, <1>3, <1>4, <1>5 DEF Next, IInv

\* However questions, requests, Redis errors and expiries interleave, a cached result that
\* disagrees with the embedding table is about to be removed or has one of the five known
\* causes: no other way to a stale result exists.
THEOREM StaleHasACause == Spec => []StaleIsExplained
<1>1. IInv => StaleIsExplained
  BY ExplainedIsStale DEF IInv
<1> QED
  BY IInit, INext, <1>1, PTL DEF Spec

-----------------------------------------------------------------------------
(* The rows of a paragraph agree with it.  Alone that is not kept: a       *)
(* request writes the paragraph and its rows in several steps, from what   *)
(* it has read.  The invariant adds, for a paragraph on which no requests  *)
(* crossed, that those on it are compatible (Apart), what each of them may *)
(* rely on (Knows), and which of them will yet put right what does not     *)
(* agree (Match).                                                          *)

\* The requests at work on a paragraph.
On(p) == {w \in Writers : pc[w] # "idle" /\ call[w].para = p}

Switches == {"disable", "enable"}

Embeds == {"edit", "embed"}

Placed(w) ==
    /\ pc[w] = "save" => call[w].op \in EditOps
    /\ pc[w] \in {"text", "recheck", "insert"} => call[w].op \in Embeds
    /\ pc[w] = "commit" => call[w].op \in TransactionOps

Apart(p) ==
    \A v, w \in On(p) :
        v # w => /\ Compatible(call[v].op, call[w].op)
                 /\ ~(call[v].op \in TransactionOps /\ call[w].op \in TransactionOps)

Knows(w, p) ==
    LET c == call[w] IN
    /\ c.op \in Switches /\ pc[w] = "save" => c.read.live /\ c.read.kb = para[p].kb
    /\ c.op \in Switches /\ pc[w] # "save" => para[p].active = (c.op = "enable")
    /\ c.op \in Embeds => para[p].live /\ (pc[w] # "text" => c.read = para[p])
    /\ c.op \in TransactionOps /\ pc[w] \in {"scan", "commit"} => vec[p] = c.old

Known(p) == \A w \in On(p) : Knows(w, p)

\* A request with this operation is about to write the rows.
Writing(p, op) == \E w \in On(p) : call[w].op = op /\ pc[w] \in {"lookup", "write"}

Match(p) ==
    /\ \A r \in vec[p] : r.kb = para[p].kb
    /\ (\A r \in vec[p] : r.active = para[p].active) \/ \E op \in Switches : Writing(p, op)
    /\ vec[p] = {} \/ para[p].live \/ Writing(p, "delete")

Mirrors(p) == p \notin crossed => Apart(p) /\ Known(p) /\ Match(p)

MirrorInv == (\A w \in Writers : Placed(w)) /\ (\A p \in Paras : Mirrors(p))

LEMMA MirrorIsEnough == MirrorInv => StoreMirrorsParagraphs
<1> SUFFICES ASSUME MirrorInv, NEW p \in Paras, ~Busy(p), p \notin crossed PROVE Agree(p)
  BY DEF StoreMirrorsParagraphs
<1>1. On(p) = {}
  BY DEF Busy, On, Procs
<1>2. Match(p)
  BY DEF MirrorInv, Mirrors
<1> QED
  BY <1>1, <1>2 DEF Match, Writing, Agree

LEMMA MirrorInit == Init => MirrorInv
<1> SUFFICES ASSUME Init PROVE MirrorInv
  OBVIOUS
<1>1. \A w \in Writers : Placed(w)
  BY DEF Init, Placed, Procs
<1>2. ASSUME NEW p \in Paras PROVE Apart(p) /\ Known(p) /\ Match(p)
  <2>1. On(p) = {}
    BY DEF Init, On, Procs
  <2>2. para[p].live /\ para[p].kb = Home[p] /\ para[p].active
    BY DEF Init
  <2>4. Apart(p) /\ Known(p)
    BY <2>1 DEF Apart, Known
  <2>5. ASSUME NEW r \in vec[p] PROVE r.kb = para[p].kb /\ r.active = para[p].active
    <3>1. r = [kb |-> Home[p], active |-> TRUE, by |-> None]
      BY DEF Init
    <3>2. para[p] = [live |-> TRUE, kb |-> Home[p], active |-> TRUE]
      BY DEF Init
    <3> QED
      BY <3>1, <3>2
  <2> QED
    BY <2>2, <2>4, <2>5 DEF Match
<1> QED
  BY <1>1, <1>2 DEF MirrorInv, Mirrors

LEMMA CompatibleIs ==
    ASSUME NEW a, NEW b
    PROVE  /\ Compatible(a, b) <=> Compatible(b, a)
           /\ Compatible(a, b) =>
                /\ a \in Embeds => b \in Embeds
                /\ a \in Switches => b = a \/ b \in {"delete", "batch_delete"}
                /\ a = "migrate" => b \in {"delete", "batch_delete", "migrate"}
                /\ a \in {"delete", "batch_delete"} =>
                      b \in {"delete", "batch_delete", "migrate"} \cup Switches
BY DEF Compatible, Embeds, Switches

\* A step that neither begins nor ends nor continues a request on the paragraph.
LEMMA MirrorElsewhere ==
    ASSUME NEW q \in Procs, Only(q), NEW p, Mirrors(p), vec'[p] = vec[p], para'[p] = para[p],
           p \in crossed => p \in crossed',
           q \in Writers => q \notin On(p) /\ q \notin On(p)'
    PROVE  Mirrors(p)'
<1> SUFFICES ASSUME p \notin crossed' PROVE Apart(p)' /\ Known(p)' /\ Match(p)'
  BY DEF Mirrors
<1>1. On(p)' = On(p) /\ \A w \in On(p) : pc'[w] = pc[w] /\ call'[w] = call[w]
  BY DEF On, Only, Procs
<1>2. Apart(p) /\ Known(p) /\ Match(p)
  BY DEF Mirrors
<1>3. Apart(p)'
  BY <1>1, <1>2 DEF Apart, Compatible
<1>4. Known(p)'
  BY <1>1, <1>2 DEF Known, Knows
<1>5. \A op : Writing(p, op) => Writing(p, op)'
  BY <1>1 DEF Writing
<1> QED
  BY <1>2, <1>3, <1>4, <1>5 DEF Match

\* A request on the paragraph goes on or ends; the others are where they were.
LEMMA OnMoves ==
    ASSUME NEW w \in Writers, Only(w), NEW p, w \in On(p)
    PROVE  /\ On(p)' \subseteq On(p)
           /\ \A v \in On(p) : v # w => v \in On(p)' /\ pc'[v] = pc[v] /\ call'[v] = call[v]
BY DEF On, Only, Procs

LEMMA ApartKept ==
    ASSUME NEW w \in Writers, Only(w), NEW p, w \in On(p), Apart(p), call'[w].op = call[w].op \/ w \notin On(p)'
    PROVE  Apart(p)'
<1>1. \A v \in On(p)' : v \in On(p) /\ call'[v].op = call[v].op
  BY OnMoves
<1> QED
  BY <1>1 DEF Apart, Compatible

\* It changes neither the paragraph nor its rows, and leaves no writing undone.
LEMMA MirrorQuiet ==
    ASSUME NEW w \in Writers, Only(w), NEW p, w \in On(p), Mirrors(p), vec'[p] = vec[p],
           para'[p] = para[p], crossed' = crossed,
           w \in On(p)' => call'[w].op = call[w].op /\ (Apart(p) /\ Known(p) => Knows(w, p)'),
           pc[w] \in {"lookup", "write"} /\ call[w].op \in Switches \cup {"delete"} =>
                w \in On(p)' /\ pc'[w] \in {"lookup", "write"}
    PROVE  Mirrors(p)'
<1> SUFFICES ASSUME p \notin crossed' PROVE Apart(p)' /\ Known(p)' /\ Match(p)'
  BY DEF Mirrors
<1>1. Apart(p) /\ Known(p) /\ Match(p)
  BY DEF Mirrors
<1>2. Apart(p)'
  BY <1>1, ApartKept
<1>3. Known(p)'
  <2>1. ASSUME NEW v \in On(p), v # w PROVE Knows(v, p)'
    BY <1>1, <2>1, OnMoves DEF Known, Knows
  <2> QED
    BY <1>1, <2>1, OnMoves DEF Known
<1>4. ASSUME NEW op \in Switches \cup {"delete"}, Writing(p, op) PROVE Writing(p, op)'
  <2>1. PICK v \in On(p) : call[v].op = op /\ pc[v] \in {"lookup", "write"}
    BY <1>4 DEF Writing
  <2>2. CASE v = w
    BY <2>1, <2>2 DEF Writing
  <2>3. CASE v # w
    BY <2>1, <2>3, OnMoves DEF Writing
  <2> QED
    BY <2>2, <2>3
<1> QED
  BY <1>1, <1>2, <1>3, <1>4 DEF Match

\* The other requests know what they knew, as far as a change leaves it to them.
LEMMA OthersKnow ==
    ASSUME NEW w \in Writers, Only(w), NEW p, w \in On(p), Known(p), NEW v \in On(p), v # w,
           call[v].op \in Embeds => para'[p] = para[p],
           call[v].op \in Switches => para'[p].kb = para[p].kb
                /\ \/ para'[p].active = para[p].active
                   \/ /\ call[w].op = call[v].op
                      /\ para'[p].active = (call[w].op = "enable"),
           call[v].op \in TransactionOps /\ pc[v] \in {"scan", "commit"} => vec'[p] = vec[p]
    PROVE  v \in On(p)' /\ Knows(v, p)' /\ pc'[v] = pc[v] /\ call'[v] = call[v]
<1>1. v \in On(p)' /\ pc'[v] = pc[v] /\ call'[v] = call[v]
  BY OnMoves
<1>2. Knows(v, p)
  BY DEF Known
<1> QED
  BY <1>1, <1>2 DEF Knows

-----------------------------------------------------------------------------
(* Every step keeps the rows in agreement.                                 *)

\* All but one paragraph are left alone.
LEMMA OneParagraph ==
    ASSUME MirrorInv, NEW q \in Procs, Only(q), NEW p \in Paras,
           \A x \in Paras \ {p} : vec'[x] = vec[x] /\ para'[x] = para[x],
           \A x \in Paras \ {p} : x \in crossed => x \in crossed',
           q \in Writers => \A x \in Paras \ {p} : q \notin On(x) /\ q \notin On(x)',
           q \in Writers => Placed(q)', Mirrors(p)'
    PROVE  MirrorInv'
<1>1. ASSUME NEW w \in Writers PROVE Placed(w)'
  <2>1. w # q => pc'[w] = pc[w] /\ call'[w] = call[w]
    BY DEF Only, Procs
  <2> QED
    BY <2>1 DEF MirrorInv, Placed
<1>2. ASSUME NEW x \in Paras, x # p PROVE Mirrors(x)'
  BY <1>2, MirrorElsewhere DEF MirrorInv
<1> QED
  BY <1>1, <1>2 DEF MirrorInv

\* A process that is no request leaves everything alone.
LEMMA NoRequestStep ==
    ASSUME MirrorInv, NEW q \in Procs, Only(q), q \notin Writers,
           \A x \in Paras : vec'[x] = vec[x] /\ para'[x] = para[x], crossed' = crossed
    PROVE  MirrorInv'
<1>1. ASSUME NEW w \in Writers PROVE Placed(w)'
  <2>1. pc'[w] = pc[w] /\ call'[w] = call[w]
    BY DEF Only, Procs
  <2> QED
    BY <2>1 DEF MirrorInv, Placed
<1>2. ASSUME NEW x \in Paras PROVE Mirrors(x)'
  BY <1>2, MirrorElsewhere DEF MirrorInv
<1> QED
  BY <1>1, <1>2 DEF MirrorInv

\* A request is on no other paragraph than its own.
LEMMA OnlyThere ==
    ASSUME NEW w \in Writers, NEW p
    PROVE  /\ w \in On(p) <=> pc[w] # "idle" /\ call[w].para = p
           /\ w \in On(p)' <=> pc'[w] # "idle" /\ call'[w].para = p
BY DEF On

\* A request, somewhere, goes on or ends and changes neither paragraph nor rows.
LEMMA QuietRequest ==
    ASSUME MirrorInv, ProcsType, NEW w \in Writers, Only(w), pc[w] # "idle",
           UNCHANGED <<para, vec, crossed>>, Placed(w)',
           pc'[w] = "idle" \/ (call'[w].op = call[w].op /\ call'[w].para = call[w].para),
           pc'[w] # "idle" => (Apart(call[w].para) /\ Known(call[w].para) => Knows(w, call[w].para)'),
           pc[w] \in {"lookup", "write"} /\ call[w].op \in Switches \cup {"delete"} =>
                pc'[w] \in {"lookup", "write"}
    PROVE  MirrorInv'
<1> PICK p : p = call[w].para
  OBVIOUS
<1>1. w \in Procs /\ p \in Paras
  BY CallType DEF Procs, AtType, StorePcs
<1>2. w \in On(p) /\ \A x \in Paras \ {p} : w \notin On(x) /\ w \notin On(x)'
  BY OnlyThere
<1>3. w \in On(p)' <=> pc'[w] # "idle"
  BY OnlyThere
<1>4. Mirrors(p)'
  BY <1>1, <1>2, <1>3, MirrorQuiet DEF MirrorInv
<1> QED
  BY <1>1, <1>2, <1>4, OneParagraph

LEMMA LookupMirrors ==
    ASSUME TypeOK, MirrorInv, NEW q \in Procs, Lookup(q)
    PROVE  MirrorInv'
<1>1. PICK c : c = [call[q] EXCEPT !.kbs = KnowledgeIds(call[q].para)]
  OBVIOUS
<1>2. /\ pc[q] = "lookup" /\ pc'[q] = "write" /\ call'[q] = c /\ Only(q)
      /\ UNCHANGED <<para, vec, crossed>> /\ call[q] \in Call
  BY <1>1, Parts, CallType, OnlyGoto DEF Lookup, Only, ProcsType
<1>3. c.op = call[q].op /\ c.para = call[q].para /\ c.read = call[q].read /\ c.old = call[q].old
  BY <1>1, <1>2 DEF Call
<1>4. CASE q \in Writers
  <2>1. Placed(q)'
    BY <1>2 DEF Placed
  <2>2. ASSUME Known(call[q].para) PROVE Knows(q, call[q].para)'
    <3>1. Knows(q, call[q].para)
      BY <1>2, <1>4, <2>2, OnlyThere DEF Known
    <3> QED
      BY <1>2, <1>3, <3>1 DEF Knows
  <2> QED
    BY <1>2, <1>3, <1>4, <2>1, <2>2, Parts, QuietRequest
<1>5. CASE q \notin Writers
  BY <1>2, <1>5, NoRequestStep
<1> QED
  BY <1>4, <1>5

\* Scanning and the invalidation, failed or not.
LEMMA ScanMirrors ==
    ASSUME TypeOK, MirrorInv, NEW q \in Procs, pc[q] = "scan", UNCHANGED <<para, vec, crossed>>,
           Return(q) \/ \E k \in Lists : ScanKey(q, k)
    PROVE  MirrorInv'
<1>1. call[q] \in Call /\ call \in [Procs -> Call] /\ pc \in [Procs -> WriterPcs \cup AskerPcs]
  BY Parts, CallType DEF ProcsType
<1>2. Only(q)
  BY <1>1, Parts, ReturnOnly DEF ScanKey, Only
<1>3. CASE q \notin Writers
  BY <1>2, <1>3, NoRequestStep
<1>4. CASE q \in Writers
  <2>1. call[q].op \in WriterOps
    BY <1>4, Parts DEF ProcsType, AtType
  <2>2. ASSUME NEW k \in Lists, ScanKey(q, k) PROVE MirrorInv'
    <3>1. PICK c : c = [call[q] EXCEPT !.scan = @ \ {k},
                                       !.found = IF cache[k].stored THEN @ \cup {k} ELSE @]
      OBVIOUS
    <3>2. call'[q] = c /\ pc'[q] = "scan"
      BY <1>1, <2>2, <3>1 DEF ScanKey
    <3>3. c.op = call[q].op /\ c.para = call[q].para /\ c.read = call[q].read /\ c.old = call[q].old
      BY <1>1, <3>1 DEF Call
    <3>4. Placed(q)'
      BY <3>2 DEF Placed
    <3>5. ASSUME Known(call[q].para) PROVE Knows(q, call[q].para)'
      <4>1. Knows(q, call[q].para)
        BY <1>4, <3>5, OnlyThere DEF Known
      <4> QED
        BY <3>2, <3>3, <4>1 DEF Knows
    <3> QED
      BY <1>2, <1>4, <3>2, <3>3, <3>4, <3>5, Parts, QuietRequest
  <2>3. CASE Return(q)
    <3>1. CASE /\ call[q].op \in {"edit", "embed"} \cup TransactionOps
               /\ Goto(q, IF call[q].op \in TransactionOps THEN "commit" ELSE "recheck")
               /\ call' = [call EXCEPT ![q].scan = {}, ![q].found = {}]
      <4>1. PICK c : c = [call[q] EXCEPT !.scan = {}, !.found = {}]
        OBVIOUS
      <4>2. /\ call'[q] = c
            /\ pc'[q] = IF call[q].op \in TransactionOps THEN "commit" ELSE "recheck"
        BY <1>1, <3>1, <4>1 DEF Goto
      <4>3. c.op = call[q].op /\ c.para = call[q].para /\ c.read = call[q].read /\ c.old = call[q].old
        BY <1>1, <4>1 DEF Call
      <4>4. Placed(q)'
        BY <3>1, <4>2, <4>3 DEF Placed, Embeds
      <4>5. ASSUME Known(call[q].para) PROVE Knows(q, call[q].para)'
        <5>1. Knows(q, call[q].para)
          BY <1>4, <4>5, OnlyThere DEF Known
        <5> QED
          BY <4>2, <4>3, <5>1 DEF Knows
      <4> QED
        BY <1>2, <1>4, <4>2, <4>3, <4>4, <4>5, Parts, QuietRequest
    <3>2. CASE Done(q)
      <4>1. pc'[q] = "idle"
        BY <1>1, <3>2 DEF Done, Goto
      <4>2. Placed(q)'
        BY <4>1 DEF Placed
      <4> QED
        BY <1>2, <1>4, <4>1, <4>2, Parts, QuietRequest
    <3>3. call[q].op # "sweep"
      BY <2>1 DEF WriterOps, EditOps, TransactionOps
    <3> QED
      BY <2>3, <3>1, <3>2, <3>3 DEF Return
  <2> QED
    BY <2>2, <2>3
<1> QED
  BY <1>3, <1>4

\* The rows of a paragraph after the write of a call that is in no transaction.
LEMMA RowsAfter ==
    ASSUME StoreType, NEW c \in Call, c.para \in Paras
    PROVE  /\ c.op \in Switches =>
                /\ Rows(c) = {} <=> vec[c.para] = {}
                /\ \A r \in Rows(c) : r.active = (c.op = "enable")
                /\ \A b : (\A r \in vec[c.para] : r.kb = b) => (\A r \in Rows(c) : r.kb = b)
           /\ c.op \notin Switches => Rows(c) = {}
<1>1. c.op \notin Switches => Rows(c) = {}
  BY DEF Rows, Switches
<1>2. ASSUME c.op \in Switches, NEW x \in Rows(c)
      PROVE  x.active = (c.op = "enable") /\ \E r \in vec[c.para] : x.kb = r.kb
  <2>1. PICK r \in vec[c.para] : x = [r EXCEPT !.active = (c.op = "enable")]
    BY <1>2 DEF Rows, Switches
  <2>2. r \in VecRow
    BY ReadType
  <2> QED
    BY <2>1, <2>2 DEF VecRow
<1>3. ASSUME c.op \in Switches, NEW r \in vec[c.para] PROVE Rows(c) # {}
  <2>1. PICK x : x = [r EXCEPT !.active = (c.op = "enable")]
    OBVIOUS
  <2>2. x \in Rows(c)
    BY <1>3, <2>1 DEF Rows, Switches
  <2> QED
    BY <2>2
<1>4. c.op \in Switches => (Rows(c) = {} <=> vec[c.para] = {})
  BY <1>2, <1>3
<1>5. ASSUME c.op \in Switches, NEW b, \A r \in vec[c.para] : r.kb = b, NEW x \in Rows(c)
      PROVE  x.kb = b
  BY <1>2, <1>5
<1> QED
  BY <1>1, <1>2, <1>4, <1>5

LEMMA WriteMirrors ==
    ASSUME TypeOK, MirrorInv, NEW q \in Procs, Write(q)
    PROVE  MirrorInv'
<1>0. PICK p : p = call[q].para
  OBVIOUS
<1>1. /\ pc[q] = "write" /\ pc'[q] = "scan" /\ Only(q) /\ UNCHANGED <<para, crossed>>
      /\ call[q] \in Call /\ p \in Paras /\ ~VectorsLocked(p)
  BY <1>0, Parts, CallType, OnlyGoto DEF Write, Only, ProcsType, StorePcs
<1>2. /\ call'[q].op = call[q].op /\ call'[q].para = p /\ call'[q].read = call[q].read
      /\ call[q].op \in TransactionOps => call'[q].old = vec[p]
  <2>1. PICK c : c = [call[q] EXCEPT !.kbs = {}, !.scan = Affected(call[q].kbs)]
    OBVIOUS
  <2>2. PICK d : d = [call[q] EXCEPT !.kbs = {}, !.scan = Affected(call[q].kbs), !.old = vec[p]]
    OBVIOUS
  <2>3. call'[q] = IF call[q].op \in TransactionOps THEN d ELSE c
    BY <1>0, <2>1, <2>2, Parts DEF Write, ProcsType
  <2>4. /\ c.op = call[q].op /\ c.para = p /\ c.read = call[q].read
        /\ d.op = call[q].op /\ d.para = p /\ d.read = call[q].read /\ d.old = vec[p]
    BY <1>0, <1>1, <2>1, <2>2 DEF Call
  <2> QED
    BY <2>3, <2>4
<1>3. Placed(q)'
  BY <1>1 DEF Placed
<1>4. CASE call[q].op \in TransactionOps
  <2>1. vec' = vec /\ q \in Writers
    BY <1>1, <1>4, Parts DEF Write, ProcsType, AtType, TransactionOps, Procs
  <2>2. call[q].op \notin Switches \cup {"delete"} \cup Embeds
    BY <1>4 DEF TransactionOps, Switches, Embeds
  <2>3. Knows(q, p)'
    BY <1>1, <1>2, <2>1, <2>2 DEF Knows
  <2> QED
    BY <1>0, <1>1, <1>2, <1>3, <2>1, <2>2, <2>3, Parts, QuietRequest
<1>5. CASE call[q].op \notin TransactionOps
  <2>1. PICK rows : rows = Rows(call[q])
    OBVIOUS
  <2>2. vec'[p] = rows /\ \A x \in Paras \ {p} : vec'[x] = vec[x]
    BY <1>0, <1>1, <1>5, <2>1, Parts DEF Write, StoreType
  <2>3. /\ call[q].op \in Switches =>
                /\ rows = {} <=> vec[p] = {}
                /\ \A r \in rows : r.active = (call[q].op = "enable")
                /\ \A b : (\A r \in vec[p] : r.kb = b) => (\A r \in rows : r.kb = b)
        /\ call[q].op \notin Switches => rows = {}
    BY <1>0, <1>1, <2>1, Parts, RowsAfter
  <2>4. ASSUME p \notin crossed PROVE Apart(p)' /\ Known(p)' /\ Match(p)'
    <3>1. Apart(p) /\ Known(p) /\ Match(p)
      BY <1>1, <2>4 DEF MirrorInv, Mirrors
    <3>2. /\ On(p)' = On(p) /\ \A v \in On(p) : v # q => pc'[v] = pc[v] /\ call'[v] = call[v]
          /\ q \in Writers => q \in On(p)
      BY <1>0, <1>1, <1>2 DEF On, Only, Procs
    <3>3. Apart(p)'
      BY <1>2, <3>1, <3>2 DEF Apart, Compatible
    <3>4. \A v \in On(p) : call[v].op \in TransactionOps => pc[v] \notin {"scan", "commit"}
      BY <1>1 DEF VectorsLocked, On
    <3>5. Known(p)'
      <4>1. ASSUME NEW v \in On(p), v # q PROVE Knows(v, p)'
        BY <1>1, <3>1, <3>2, <3>4, <4>1 DEF Known, Knows
      <4>2. ASSUME q \in On(p) PROVE Knows(q, p)'
        BY <1>1, <1>2, <1>5, <3>1, <4>2 DEF Known, Knows
      <4> QED
        BY <3>2, <4>1, <4>2 DEF Known
    <3>6. Match(p)'
      <4>1. CASE call[q].op \notin Switches
        BY <2>2, <2>3, <4>1 DEF Match
      <4>2. CASE call[q].op \in Switches
        <5>1. q \in On(p)
          BY <1>1, <3>2, <4>2, Parts DEF Procs, ProcsType, AtType, Switches
        <5>2. para[p].active = (call[q].op = "enable")
          BY <1>1, <3>1, <4>2, <5>1 DEF Known, Knows
        <5>3. \A r \in vec'[p] : r.kb = para'[p].kb /\ r.active = para'[p].active
          BY <1>1, <2>2, <2>3, <3>1, <4>2, <5>2 DEF Match
        <5>4. Writing(p, "delete") => Writing(p, "delete")'
          BY <3>2, <4>2 DEF Writing, Switches
        <5>5. vec'[p] = {} \/ para'[p].live \/ Writing(p, "delete")'
          BY <1>1, <2>2, <2>3, <3>1, <4>2, <5>4 DEF Match
        <5> QED
          BY <5>3, <5>5 DEF Match
      <4> QED
        BY <4>1, <4>2
    <3> QED
      BY <3>3, <3>5, <3>6
  <2>5. Mirrors(p)'
    BY <1>1, <2>4 DEF Mirrors
  <2>6. q \in Writers => \A x \in Paras \ {p} : q \notin On(x) /\ q \notin On(x)'
    BY <1>0, <1>2 DEF On
  <2> QED
    BY <1>1, <1>3, <2>2, <2>5, <2>6, OneParagraph
<1> QED
  BY <1>4, <1>5

LEMMA StoreCallMirrors ==
    ASSUME TypeOK, MirrorInv, NEW q \in Procs, StoreCall(q)
    PROVE  MirrorInv'
<1>1. CASE Drop(q) \/ InvalidateFails(q) \/ \E k \in Lists : ScanKey(q, k)
  BY <1>1, ScanMirrors DEF Drop, InvalidateFails, ScanKey
<1> QED
  BY <1>1, LookupMirrors, WriteMirrors DEF StoreCall

\* A request that comes in leaves the paragraph, or marks it as gone.
Comes(w, op, p, l) ==
    /\ Only(w) /\ pc'[w] = l /\ call'[w].op = op /\ call'[w].para = p
    /\ l = "save" => op \in EditOps
    /\ l = "text" => op \in Embeds
    /\ op \in TransactionOps => ~Locked(p)
    /\ vec' = vec /\ \A x \in Paras \ {p} : para'[x] = para[x]
    /\ para'[p].kb = para[p].kb /\ para'[p].active = para[p].active
    /\ para'[p] = para[p] \/ (op = "delete" /\ l = "lookup")

\* A request comes to a paragraph, and crosses no other there.
LEMMA ArriveMirrors ==
    ASSUME TypeOK, MirrorInv, NEW w \in Writers, NEW p \in Paras, NEW op \in WriterOps,
           Arrive(w, op, p), NEW l \in {"save", "lookup", "text"}, Comes(w, op, p, l),
           Knows(w, p)'
    PROVE  MirrorInv'
<1>1. /\ w \in Procs /\ pc[w] = "idle" /\ pc'[w] = l /\ Only(w)
      /\ call'[w].op = op /\ call'[w].para = p
  BY DEF Arrive, Comes, Procs
<1>2. /\ On(p)' = On(p) \cup {w} /\ w \notin On(p)
      /\ \A v \in On(p) : pc'[v] = pc[v] /\ call'[v] = call[v]
  BY <1>1 DEF On, Only, Procs
<1>3. Placed(w)'
  BY <1>1 DEF Placed, Comes
<1>4. ASSUME p \notin crossed' PROVE Apart(p)' /\ Known(p)' /\ Match(p)'
  <2>1. p \notin crossed /\ ~Meets(w, op, p)
    BY <1>4 DEF Arrive
  <2>2. Apart(p) /\ Known(p) /\ Match(p)
    BY <2>1 DEF MirrorInv, Mirrors
  <2>3. ASSUME NEW v \in On(p)
        PROVE  /\ Compatible(op, call[v].op) /\ Compatible(call[v].op, op)
               /\ ~(op \in TransactionOps /\ call[v].op \in TransactionOps)
    <3>1. v \in Writers \ {w} /\ pc[v] # "idle" /\ call[v].para = p
      BY <1>1, <2>3 DEF On
    <3>2. Compatible(op, call[v].op)
      BY <2>1, <3>1 DEF Meets
    <3> QED
      BY <3>1, <3>2, CompatibleIs DEF Locked, Comes
  <2>4. Apart(p)'
    <3>1. ASSUME NEW v \in On(p), NEW x \in On(p), v # x
          PROVE  /\ Compatible(call[v].op, call[x].op)
                 /\ ~(call[v].op \in TransactionOps /\ call[x].op \in TransactionOps)
      BY <2>2, <3>1 DEF Apart
    <3> QED
      BY <1>1, <1>2, <2>3, <3>1 DEF Apart, Compatible
  <2>5. /\ para'[p].kb = para[p].kb /\ para'[p].active = para[p].active
        /\ op # "delete" => para'[p] = para[p]
    BY DEF Comes
  <2>6. Known(p)'
    <3>1. ASSUME NEW v \in On(p) PROVE Knows(v, p)'
      <4>1. Knows(v, p)
        BY <2>2 DEF Known
      <4>2. call[v].op \in Embeds => op # "delete"
        BY <2>3, CompatibleIs DEF Embeds
      <4>3. pc'[v] = pc[v] /\ call'[v] = call[v] /\ vec'[p] = vec[p]
        BY <1>2 DEF Comes
      <4>4. call[v].op \in Embeds => para'[p] = para[p]
        BY <2>5, <4>2
      <4>5. call'[v].op \in Embeds =>
                para'[p].live /\ (pc'[v] # "text" => call'[v].read = para'[p])
        BY <4>1, <4>3, <4>4 DEF Knows
      <4> QED
        BY <2>5, <4>1, <4>3, <4>5 DEF Knows
    <3> QED
      BY <1>2, <3>1 DEF Known
  <2>7. ASSUME NEW o, Writing(p, o) PROVE Writing(p, o)'
    BY <1>2, <2>7 DEF Writing
  <2>8. para'[p].live = para[p].live \/ Writing(p, "delete")'
    BY <1>1, <1>2 DEF Writing, Comes
  <2> QED
    BY <2>2, <2>4, <2>5, <2>6, <2>7, <2>8 DEF Match, Comes
<1>5. Mirrors(p)'
  BY <1>4 DEF Mirrors
<1>6. /\ \A x \in Paras \ {p} : w \notin On(x) /\ w \notin On(x)'
      /\ \A x \in Paras \ {p} : x \in crossed => x \in crossed'
  BY <1>1 DEF On, Arrive
<1>7. \A x \in Paras \ {p} : vec'[x] = vec[x] /\ para'[x] = para[x]
  BY DEF Comes
<1> QED
  BY <1>1, <1>3, <1>5, <1>6, <1>7, OneParagraph

LEMMA RequestMirrors ==
    ASSUME TypeOK, MirrorInv, NEW w \in Writers, Request(w)
    PROVE  MirrorInv'
<1>0. PICK p \in Paras :
        \/ \E op \in EditOps : Edit(w, op, p)
        \/ Delete(w, p) \/ BatchDelete(w, p) \/ Embed(w, p)
        \/ \E to \in Kbs : Migrate(w, p, to)
  BY DEF Request
<1>1. NoCall \in Call /\ w \in Procs /\ para[p] \in ParaRow /\ StoreType /\ ProcsType
  BY BlankTypes, Parts, ReadType DEF Procs
<1>2. ASSUME NEW op \in EditOps, Edit(w, op, p) PROVE MirrorInv'
  <2>1. PICK c : c = [NoCall EXCEPT !.op = op, !.para = p, !.read = para[p]]
    OBVIOUS
  <2>2. c.op = op /\ c.para = p /\ c.read = para[p]
    BY <1>1, <2>1 DEF Call
  <2>3. /\ call' = [call EXCEPT ![w] = c] /\ Goto(w, "save") /\ UNCHANGED <<para, vec>>
        /\ Arrive(w, op, p) /\ para[p].live
    BY <1>2, <2>1 DEF Edit, Arrive
  <2>4. call'[w] = c /\ pc'[w] = "save"
    BY <1>1, <2>3 DEF ProcsType, Goto
  <2>5. Knows(w, p)'
    BY <2>2, <2>3, <2>4 DEF Knows
  <2>6. op \in WriterOps /\ op \notin TransactionOps
    BY DEF WriterOps, EditOps, TransactionOps
  <2>7. PICK l \in {"save", "lookup", "text"} : l = "save"
    OBVIOUS
  <2>8. Only(w)
    BY <1>1, <2>3 DEF Only, ProcsType, Goto
  <2>9. Comes(w, op, p, l)
    BY <2>2, <2>3, <2>4, <2>6, <2>7, <2>8 DEF Comes
  <2> QED
    BY <2>3, <2>5, <2>6, <2>9, ArriveMirrors
<1>3. ASSUME NEW op \in {"delete", "batch_delete", "embed"}, Arrive(w, op, p), ~Locked(p),
             call' = [call EXCEPT ![w] = [NoCall EXCEPT !.op = op, !.para = p]], vec' = vec,
             NEW l \in {"lookup", "text"}, Goto(w, l), l = "text" <=> op = "embed",
             IF op = "delete" THEN para' = [para EXCEPT ![p].live = FALSE] ELSE para' = para
      PROVE  MirrorInv'
  <2>1. PICK c : c = [NoCall EXCEPT !.op = op, !.para = p]
    OBVIOUS
  <2>2. c.op = op /\ c.para = p
    BY <1>1, <2>1 DEF Call
  <2>3. call' = [call EXCEPT ![w] = c] /\ para[p].live
    BY <1>3, <2>1 DEF Arrive
  <2>4. call'[w] = c /\ pc'[w] = l
    BY <1>1, <1>3, <2>3 DEF ProcsType, Goto
  <2>5. /\ \A x \in Paras \ {p} : para'[x] = para[x]
        /\ para'[p].kb = para[p].kb /\ para'[p].active = para[p].active
        /\ para'[p] = para[p] \/ (op = "delete" /\ l = "lookup")
    BY <1>1, <1>3, <2>2 DEF StoreType, ParaRow
  <2>6. Knows(w, p)'
    BY <1>3, <2>2, <2>3, <2>4 DEF Knows, Switches, Embeds
  <2>7. op \in WriterOps /\ (l = "text" => op \in Embeds) /\ l # "save"
    BY <1>3 DEF WriterOps, TransactionOps, Embeds
  <2>8. Only(w)
    BY <1>1, <1>3, <2>3 DEF Only, ProcsType, Goto
  <2>9. Comes(w, op, p, l)
    BY <1>3, <2>2, <2>4, <2>5, <2>7, <2>8 DEF Comes
  <2> QED
    BY <1>3, <2>6, <2>7, <2>9, ArriveMirrors
<1>4. CASE Delete(w, p)
  BY <1>3, <1>4 DEF Delete
<1>5. CASE BatchDelete(w, p)
  BY <1>3, <1>5 DEF BatchDelete
<1>6. CASE Embed(w, p)
  BY <1>3, <1>6 DEF Embed
<1>7. ASSUME NEW to \in Kbs, Migrate(w, p, to) PROVE MirrorInv'
  <2>1. PICK c : c = [NoCall EXCEPT !.op = "migrate", !.para = p, !.to = to]
    OBVIOUS
  <2>2. c.op = "migrate" /\ c.para = p
    BY <1>1, <2>1 DEF Call
  <2>3. /\ call' = [call EXCEPT ![w] = c] /\ Goto(w, "lookup") /\ UNCHANGED <<para, vec>>
        /\ Arrive(w, c.op, p) /\ ~Locked(p)
    BY <1>7, <2>1, <2>2 DEF Migrate
  <2>4. call'[w] = c /\ pc'[w] = "lookup"
    BY <1>1, <2>3 DEF ProcsType, Goto
  <2>5. Knows(w, p)'
    BY <2>2, <2>4 DEF Knows, Switches, Embeds
  <2>6. c.op \in WriterOps
    BY <2>2 DEF WriterOps, TransactionOps
  <2>7. PICK l \in {"save", "lookup", "text"} : l = "lookup"
    OBVIOUS
  <2>8. Only(w)
    BY <1>1, <2>3 DEF Only, ProcsType, Goto
  <2>9. Comes(w, c.op, p, l)
    BY <2>2, <2>3, <2>4, <2>7, <2>8 DEF Comes
  <2> QED
    BY <2>3, <2>5, <2>6, <2>9, ArriveMirrors
<1> QED
  BY <1>0, <1>2, <1>4, <1>5, <1>6, <1>7

\* The others on the paragraph, when this request is a switch, a transaction or an embedding.
LEMMA OthersAre ==
    ASSUME NEW p, Apart(p), NEW w \in On(p), NEW v \in On(p), v # w
    PROVE  /\ call[w].op \in Switches => call[v].op = call[w].op
                                         \/ call[v].op \in {"delete", "batch_delete"}
           /\ call[w].op \in TransactionOps => call[v].op \notin TransactionOps \cup Embeds
           /\ call[w].op = "migrate" => call[v].op \notin Switches
           /\ call[w].op \in Embeds => call[v].op \in Embeds
<1>1. /\ Compatible(call[w].op, call[v].op)
      /\ ~(call[w].op \in TransactionOps /\ call[v].op \in TransactionOps)
  BY DEF Apart
<1>2. \/ call[w].op = call[v].op
      \/ {call[w].op, call[v].op} \subseteq Embeds
      \/ {call[w].op, call[v].op} \subseteq {"delete", "batch_delete", "migrate"}
      \/ /\ {call[w].op, call[v].op} \cap Switches # {}
         /\ {call[w].op, call[v].op} \cap {"delete", "batch_delete"} # {}
  BY <1>1 DEF Compatible, Embeds, Switches
<1> QED
  BY <1>1, <1>2 DEF Embeds, Switches, TransactionOps

LEMMA SaveMirrors ==
    ASSUME TypeOK, MirrorInv, NEW w \in Writers, Save(w)
    PROVE  MirrorInv'
<1>1. PICK p : p = call[w].para
  OBVIOUS
<1>2. PICK op : op = call[w].op
  OBVIOUS
<1>3. PICK read : read = call[w].read
  OBVIOUS
<1>4. PICK c : c = [call[w] EXCEPT !.read = NoCall.read]
  OBVIOUS
<1>5. PICK active : active = IF op = "edit" THEN read.active ELSE op = "enable"
  OBVIOUS
<1>6. PICK row : row = [read EXCEPT !.active = active]
  OBVIOUS
<1>7. /\ w \in Procs /\ call[w] \in Call /\ p \in Paras /\ read \in ParaRow
      /\ pc[w] = "save" /\ op \in EditOps
  BY <1>1, <1>2, <1>3, Parts, CallType DEF Save, Procs, Call, MirrorInv, Placed, StorePcs, WriterPcs
<1>8. row.live = read.live /\ row.kb = read.kb /\ row.active = active
  BY <1>6, <1>7 DEF ParaRow
<1>9. op = "edit" => row = read
  BY <1>5, <1>6, <1>7 DEF ParaRow
<1>10. c.op = op /\ c.para = p
  BY <1>1, <1>2, <1>4, <1>7 DEF Call
<1>11. /\ call'[w] = c /\ pc'[w] = (IF op = "edit" THEN "text" ELSE "lookup") /\ Only(w)
       /\ vec' = vec /\ crossed' = crossed
  BY <1>2, <1>4, <1>7, Parts DEF Save, Goto, Only, ProcsType
<1>12. para' = [para EXCEPT ![p] = row]
  BY <1>1, <1>2, <1>3, <1>5, <1>6 DEF Save
<1>13. para'[p] = row /\ \A x \in Paras \ {p} : para'[x] = para[x]
  BY <1>7, <1>12, Parts DEF StoreType
<1>14. w \in On(p) /\ w \in On(p)' /\ \A x \in Paras \ {p} : w \notin On(x) /\ w \notin On(x)'
  BY <1>1, <1>7, <1>10, <1>11 DEF On
<1>15. Placed(w)'
  BY <1>7, <1>10, <1>11 DEF Placed, Embeds, EditOps
<1>16. ASSUME p \notin crossed PROVE Mirrors(p)'
  <2>1. Apart(p) /\ Known(p) /\ Match(p) /\ Mirrors(p)
    BY <1>7, <1>16 DEF MirrorInv, Mirrors
  <2>2. Knows(w, p)
    BY <1>14, <2>1 DEF Known
  <2>3. CASE op = "edit"
    <3>1. para'[p] = para[p] /\ para[p].live
      BY <1>2, <1>3, <1>7, <1>9, <1>13, <2>2, <2>3 DEF Knows, Embeds
    <3>2. Knows(w, p)'
      BY <1>10, <1>11, <2>3, <3>1 DEF Knows, Embeds, Switches, TransactionOps
    <3> QED
      BY <1>2, <1>7, <1>10, <1>11, <1>14, <2>1, <2>3, <3>1, <3>2, MirrorQuiet
  <2>4. CASE op \in Switches
    <3>1. read.live /\ read.kb = para[p].kb
      BY <1>2, <1>3, <1>7, <2>2, <2>4 DEF Knows
    <3>2. para'[p].live /\ para'[p].kb = para[p].kb /\ para'[p].active = (op = "enable")
      BY <1>5, <1>8, <1>13, <2>4, <3>1 DEF Switches
    <3>3. ASSUME NEW v \in On(p), v # w PROVE Knows(v, p)'
      <4>1. call[v].op = op \/ call[v].op \in {"delete", "batch_delete"}
        BY <1>2, <1>14, <2>1, <2>4, <3>3, OthersAre
      <4>2. call[v].op \notin Embeds
        BY <2>4, <4>1 DEF Embeds, Switches
      <4>3. call[v].op \in Switches => call[v].op = op
        BY <4>1 DEF Switches
      <4> QED
        BY <1>2, <1>11, <1>14, <2>1, <3>2, <3>3, <4>2, <4>3, OthersKnow
    <3>4. Knows(w, p)'
      BY <1>10, <1>11, <2>4, <3>2 DEF Knows, Embeds, Switches, TransactionOps
    <3>5. Known(p)'
      BY <1>11, <1>14, <3>3, <3>4, OnMoves DEF Known
    <3>6. Apart(p)'
      BY <1>2, <1>10, <1>11, <1>14, <2>1, ApartKept
    <3>7. Writing(p, op)'
      BY <1>10, <1>11, <1>14, <2>4 DEF Writing, Switches
    <3>8. Match(p)'
      BY <1>11, <2>1, <2>4, <3>2, <3>7 DEF Match
    <3> QED
      BY <3>5, <3>6, <3>8 DEF Mirrors
  <2> QED
    BY <1>7, <2>3, <2>4 DEF EditOps, Switches
<1>17. Mirrors(p)'
  BY <1>11, <1>16 DEF Mirrors
<1> QED
  BY <1>7, <1>11, <1>13, <1>14, <1>15, <1>17, OneParagraph

LEMMA ReadTextMirrors ==
    ASSUME TypeOK, MirrorInv, NEW w \in Writers, ReadText(w)
    PROVE  MirrorInv'
<1>1. PICK c : c = [call[w] EXCEPT !.read = para[call[w].para]]
  OBVIOUS
<1>2. /\ w \in Procs /\ call[w] \in Call /\ pc[w] = "text" /\ call[w].op \in Embeds
  BY Parts, CallType DEF ReadText, Procs, MirrorInv, Placed
<1>3. c.op = call[w].op /\ c.para = call[w].para /\ c.read = para[call[w].para]
  BY <1>1, <1>2 DEF Call
<1>4. /\ call'[w] = c /\ pc'[w] = "lookup" /\ Only(w) /\ UNCHANGED <<para, vec, crossed>>
  BY <1>1, <1>2, Parts DEF ReadText, Goto, Only, ProcsType
<1>5. Placed(w)'
  BY <1>4 DEF Placed
<1>6. ASSUME Known(call[w].para) PROVE Knows(w, call[w].para)'
  <2>1. Knows(w, call[w].para)
    BY <1>2, <1>6, OnlyThere DEF Known
  <2>2. call[w].op \notin Switches \cup TransactionOps
    BY <1>2 DEF Embeds, Switches, TransactionOps
  <2> QED
    BY <1>2, <1>3, <1>4, <2>1, <2>2 DEF Knows
<1> QED
  BY <1>2, <1>3, <1>4, <1>5, <1>6, Parts, QuietRequest

LEMMA RecheckMirrors ==
    ASSUME TypeOK, MirrorInv, NEW w \in Writers, Recheck(w)
    PROVE  MirrorInv'
<1>1. /\ w \in Procs /\ pc[w] = "recheck" /\ call[w].op \in Embeds
      /\ UNCHANGED <<para, vec, crossed>>
  BY DEF Recheck, Procs, MirrorInv, Placed
<1>2. CASE Goto(w, "insert") /\ UNCHANGED call
  <2>1. pc'[w] = "insert" /\ call'[w] = call[w] /\ Only(w)
    BY <1>1, <1>2, Parts, OnlyGoto DEF Only
  <2>2. Placed(w)'
    BY <1>1, <2>1 DEF Placed
  <2>3. ASSUME Known(call[w].para) PROVE Knows(w, call[w].para)'
    <3>1. Knows(w, call[w].para)
      BY <1>1, <2>3, OnlyThere DEF Known
    <3>2. call[w].op \notin Switches \cup TransactionOps
      BY <1>1 DEF Embeds, Switches, TransactionOps
    <3> QED
      BY <1>1, <2>1, <3>1, <3>2 DEF Knows
  <2> QED
    BY <1>1, <2>1, <2>2, <2>3, Parts, QuietRequest
<1>3. CASE Done(w)
  <2>1. pc'[w] = "idle" /\ Only(w)
    BY <1>1, <1>3, Parts, OnlyGoto DEF Done, Only, ProcsType
  <2>2. Placed(w)'
    BY <2>1 DEF Placed
  <2> QED
    BY <1>1, <2>1, <2>2, Parts, QuietRequest
<1> QED
  BY <1>2, <1>3 DEF Recheck

LEMMA DoneIs ==
    ASSUME ProcsType, NEW w \in Writers, Done(w)
    PROVE  pc'[w] = "idle" /\ Only(w) /\ Placed(w)' /\ \A x : w \notin On(x)'
BY OnlyGoto DEF Done, Only, ProcsType, Placed, On, Procs

\* The commit of a transaction: its rows are those it found, and no other request on the
\* paragraph has read what the commit changes.
LEMMA CommitMirrors ==
    ASSUME TypeOK, MirrorInv, NEW w \in Writers, Commit(w)
    PROVE  MirrorInv'
<1>1. PICK p : p = call[w].para
  OBVIOUS
<1>2. PICK op : op = call[w].op
  OBVIOUS
<1>3. PICK to : to = call[w].to
  OBVIOUS
<1>4. /\ w \in Procs /\ p \in Paras /\ pc[w] = "commit" /\ op \in TransactionOps
      /\ para[p] \in ParaRow /\ vec[p] \subseteq VecRow /\ crossed' = crossed
  BY <1>1, <1>2, Parts, CallType, ReadType
     DEF Commit, Procs, MirrorInv, Placed, StorePcs, WriterPcs
<1>5. PICK new : new = (vec[p] \ call[w].old) \cup
               (IF op = "migrate" THEN {[r EXCEPT !.kb = to] : r \in call[w].old} ELSE {})
  OBVIOUS
<1>6. PICK row : row = IF op = "migrate" THEN [para[p] EXCEPT !.kb = to]
                                         ELSE [para[p] EXCEPT !.live = FALSE]
  OBVIOUS
<1>7. /\ para' = [para EXCEPT ![p] = row] /\ vec' = [vec EXCEPT ![p] = new] /\ Done(w)
  <2>1. para' = [para EXCEPT ![p] = IF op = "migrate" THEN [para[p] EXCEPT !.kb = to]
                                                    ELSE [para[p] EXCEPT !.live = FALSE]]
    BY <1>1, <1>2, <1>3, <1>4, Parts DEF Commit, StoreType
  <2>2. vec' = [vec EXCEPT ![p] = new] /\ Done(w)
    BY <1>1, <1>2, <1>3, <1>5 DEF Commit
  <2> QED
    BY <1>6, <2>1, <2>2
<1>8. /\ para'[p] = row /\ vec'[p] = new
      /\ \A x \in Paras \ {p} : para'[x] = para[x] /\ vec'[x] = vec[x]
  BY <1>4, <1>7, Parts DEF StoreType
<1>9. /\ row.active = para[p].active
      /\ op = "migrate" => row.kb = to /\ row.live = para[p].live
      /\ op = "batch_delete" => row.kb = para[p].kb /\ ~row.live
  BY <1>4, <1>6 DEF ParaRow
<1>10. /\ pc'[w] = "idle" /\ Only(w) /\ Placed(w)' /\ \A x : w \notin On(x)'
  BY <1>7, Parts, DoneIs
<1>11. w \in On(p) /\ \A x \in Paras \ {p} : w \notin On(x)
  BY <1>1, <1>4 DEF On
<1>12. ASSUME p \notin crossed PROVE Apart(p)' /\ Known(p)' /\ Match(p)'
  <2>1. Apart(p) /\ Known(p) /\ Match(p)
    BY <1>4, <1>12 DEF MirrorInv, Mirrors
  <2>2. vec[p] = call[w].old
    BY <1>2, <1>4, <1>11, <2>1 DEF Known, Knows
  <2>3. Apart(p)'
    BY <1>10, <1>11, <2>1, ApartKept
  <2>4. ASSUME NEW v \in On(p), v # w
        PROVE  v \in On(p)' /\ Knows(v, p)' /\ pc'[v] = pc[v] /\ call'[v] = call[v]
    <3>1. /\ call[v].op \notin TransactionOps \cup Embeds
          /\ op = "migrate" => call[v].op \notin Switches
      BY <1>2, <1>4, <1>11, <2>1, <2>4, OthersAre
    <3>2. op = "migrate" \/ op = "batch_delete"
      BY <1>4 DEF TransactionOps
    <3>3. call[v].op \in Switches => para'[p].kb = para[p].kb /\ para'[p].active = para[p].active
      BY <1>8, <1>9, <3>1, <3>2
    <3> QED
      BY <1>10, <1>11, <2>1, <2>4, <3>1, <3>3, OthersKnow
  <2>5. Known(p)'
    BY <1>10, <1>11, <2>4, OnMoves DEF Known
  <2>6. CASE op = "migrate"
    <3>1. \A o : Writing(p, o) => Writing(p, o)'
      BY <1>4, <2>4 DEF Writing
    <3>2. \A v \in On(p) : call[v].op \notin Switches
      BY <1>2, <1>11, <2>1, <2>6, OthersAre DEF Switches
    <3>3. \A r \in vec[p] : r.active = para[p].active
      BY <2>1, <3>2 DEF Match, Writing
    <3>4. new = {[r EXCEPT !.kb = to] : r \in vec[p]}
      BY <1>5, <2>2, <2>6
    <3>5. ASSUME NEW n \in new PROVE n.kb = to /\ n.active = para[p].active
      <4>1. PICK r \in vec[p] : n = [r EXCEPT !.kb = to]
        BY <3>4, <3>5
      <4>2. r \in VecRow
        BY <1>4
      <4>3. n.kb = to /\ n.active = r.active
        BY <4>1, <4>2 DEF VecRow
      <4> QED
        BY <3>3, <4>3
    <3>6. new # {} => vec[p] # {}
      BY <3>4
    <3> QED
      BY <1>8, <1>9, <2>1, <2>3, <2>5, <2>6, <3>1, <3>5, <3>6 DEF Match
  <2>7. CASE op = "batch_delete"
    <3>1. vec'[p] = {}
      BY <1>5, <1>8, <2>2, <2>7
    <3> QED
      BY <2>3, <2>5, <3>1 DEF Match
  <2> QED
    BY <1>4, <2>6, <2>7 DEF TransactionOps
<1>13. Mirrors(p)'
  BY <1>4, <1>12 DEF Mirrors
<1> QED
  BY <1>4, <1>8, <1>10, <1>11, <1>13, OneParagraph

\* New rows are as the paragraph was when it was read, and it has not changed since.
LEMMA InsertMirrors ==
    ASSUME TypeOK, MirrorInv, NEW w \in Writers, Insert(w)
    PROVE  MirrorInv'
<1>1. PICK p : p = call[w].para
  OBVIOUS
<1>2. PICK r : r = [kb |-> call[w].read.kb, active |-> call[w].read.active, by |-> w]
  OBVIOUS
<1>3. /\ w \in Procs /\ p \in Paras /\ pc[w] = "insert" /\ call[w].op \in Embeds
      /\ crossed' = crossed /\ para' = para /\ Done(w)
  BY <1>1, Parts, CallType DEF Insert, Procs, MirrorInv, Placed, StorePcs, WriterPcs
<1>4. vec' = [vec EXCEPT ![p] = vec[p] \cup {r}]
  BY <1>1, <1>2 DEF Insert
<1>5. vec'[p] = vec[p] \cup {r} /\ \A x \in Paras \ {p} : vec'[x] = vec[x]
  BY <1>3, <1>4, Parts DEF StoreType
<1>6. /\ pc'[w] = "idle" /\ Only(w) /\ Placed(w)' /\ \A x : w \notin On(x)'
  BY <1>3, Parts, DoneIs
<1>7. w \in On(p) /\ \A x \in Paras \ {p} : w \notin On(x)
  BY <1>1, <1>3 DEF On
<1>8. ASSUME p \notin crossed PROVE Apart(p)' /\ Known(p)' /\ Match(p)'
  <2>1. Apart(p) /\ Known(p) /\ Match(p)
    BY <1>3, <1>8 DEF MirrorInv, Mirrors
  <2>2. call[w].read = para[p] /\ para[p].live
    BY <1>3, <1>7, <2>1 DEF Known, Knows
  <2>3. Apart(p)'
    BY <1>6, <1>7, <2>1, ApartKept
  <2>4. \A v \in On(p) : call[v].op \in Embeds
    BY <1>3, <1>7, <2>1, OthersAre
  <2>5. ASSUME NEW v \in On(p), v # w PROVE v \in On(p)' /\ Knows(v, p)'
    <3>1. call[v].op \notin Switches \cup TransactionOps
      BY <2>4 DEF Embeds, Switches, TransactionOps
    <3> QED
      BY <1>3, <1>6, <1>7, <2>1, <2>5, <3>1, OthersKnow
  <2>6. Known(p)'
    BY <1>6, <1>7, <2>5, OnMoves DEF Known
  <2>7. \A x \in vec[p] : x.active = para[p].active
    BY <2>1, <2>4 DEF Match, Writing, Embeds, Switches
  <2>8. r.kb = para[p].kb /\ r.active = para[p].active
    BY <1>2, <2>2
  <2> QED
    BY <1>3, <1>5, <2>1, <2>2, <2>3, <2>6, <2>7, <2>8 DEF Match
<1>9. Mirrors(p)'
  BY <1>3, <1>8 DEF Mirrors
<1> QED
  BY <1>3, <1>5, <1>6, <1>7, <1>9, OneParagraph

\* The steps of a question write neither paragraphs nor rows.
LEMMA AskerMirrors ==
    ASSUME TypeOK, MirrorInv, NEW a \in Askers, AskerStep(a) \/ \E k \in Lists : Ask(a, k)
    PROVE  MirrorInv'
<1>1. a \in Procs /\ a \notin Writers
  BY Constants DEF Procs
<1>2. CASE StoreCall(a)
  BY <1>1, <1>2, StoreCallMirrors
<1>3. CASE Compute(a) \/ Store(a) \/ List(a) \/ Sweep(a) \/ Answer(a) \/ \E k \in Lists : Ask(a, k)
  <2>1. UNCHANGED <<para, vec, crossed>>
    BY <1>3 DEF Compute, Store, List, Sweep, Answer, Ask
  <2>2. Only(a)
    BY <1>1, <1>3, Parts DEF Compute, Store, List, Sweep, Answer, Ask, Goto, Only, ProcsType
  <2> QED
    BY <1>1, <2>1, <2>2, NoRequestStep
<1> QED
  BY <1>2, <1>3 DEF AskerStep

LEMMA MirrorNext == TypeOK /\ MirrorInv /\ [Next]_vars => MirrorInv'
<1> SUFFICES ASSUME TypeOK, MirrorInv, [Next]_vars PROVE MirrorInv'
  OBVIOUS
<1>1. ASSUME NEW w \in Writers, Request(w) \/ WriterStep(w) PROVE MirrorInv'
  <2>1. w \in Procs
    BY DEF Procs
  <2> QED
    BY <1>1, <2>1, RequestMirrors, StoreCallMirrors, SaveMirrors, CommitMirrors, ReadTextMirrors,
       RecheckMirrors, InsertMirrors DEF WriterStep
<1>2. ASSUME NEW a \in Askers, AskerStep(a) \/ \E k \in Lists : Ask(a, k) PROVE MirrorInv'
  BY <1>2, AskerMirrors
<1>3. CASE UNCHANGED vars \/ \E k \in Lists : Expire(k)
  <2>1. UNCHANGED <<para, vec, pc, call, crossed>>
    BY <1>3 DEF vars, Expire
  <2>2. ASSUME NEW w \in Writers PROVE Placed(w)'
    BY <2>1 DEF MirrorInv, Placed
  <2>3. ASSUME NEW p \in Paras PROVE Mirrors(p)'
    <3>1. Mirrors(p) /\ On(p)' = On(p)
      BY <2>1 DEF MirrorInv, On
    <3>2. Apart(p) => Apart(p)'
      BY <2>1, <3>1 DEF Apart, Compatible
    <3>3. Known(p) => Known(p)'
      BY <2>1, <3>1 DEF Known, Knows
    <3>4. Match(p) => Match(p)'
      BY <2>1, <3>1 DEF Match, Writing
    <3> QED
      BY <2>1, <3>1, <3>2, <3>3, <3>4 DEF Mirrors
  <2> QED
    BY <2>2, <2>3 DEF MirrorInv
<1> QED
  BY <1>1, <1>2, <1>3 DEF Next

\* Where no requests crossed, a paragraph at rest and its rows in the embedding table
\* agree on the knowledge base and on is_active, and a paragraph that is gone has no rows.
THEOREM RowsMirrorTheParagraphs == Spec => []StoreMirrorsParagraphs
<1>1. TypeOK /\ MirrorInv => StoreMirrorsParagraphs
  BY MirrorIsEnough
<1>2. Init => TypeOK /\ MirrorInv
  BY TypeInit, MirrorInit
<1>3. TypeOK /\ MirrorInv /\ [Next]_vars => TypeOK' /\ MirrorInv'
  BY TypeNext, MirrorNext
<1> QED
  BY <1>1, <1>2, <1>3, PTL DEF Spec

-----------------------------------------------------------------------------
(* What a question may count on.  When it is asked, a settled paragraph is *)
(* at rest and does not serve the question.  A cached result without blame *)
(* for it and with no invalidation under way is right about it; a result   *)
(* computed from the store is right about it as long as nobody has worked  *)
(* on it, and whoever begins to ends the promise.                          *)

Promise(a) ==
    /\ ask[a].hits \cap ask[a].settled = {}
    /\ ask[a].shown \cap ask[a].settled = {}
    /\ pc[a] = "compute" =>
         \A p \in ask[a].settled : ~Serves(p, ask[a].list) /\ On(p) = {} /\ p \notin crossed

Promises == \A a \in Askers : Promise(a)

\* The step leaves the question of a alone, but for promises it ends.
AskKeeps(a) ==
    /\ ask'[a].hits = ask[a].hits /\ ask'[a].shown = ask[a].shown /\ ask'[a].list = ask[a].list
    /\ ask'[a].settled \subseteq ask[a].settled

\* The step is not on the paragraph, if nobody was.
Aside(p) ==
    On(p) = {} /\ p \notin crossed => On(p)' = {} /\ para'[p] = para[p] /\ p \notin crossed'

LEMMA PromiseKept ==
    ASSUME NEW a \in Askers, Promise(a), AskKeeps(a), pc'[a] = "compute" => pc[a] = "compute",
           pc'[a] = "compute" => \A p \in ask'[a].settled : Aside(p)
    PROVE  Promise(a)'
<1>1. ask'[a].hits \cap ask'[a].settled = {} /\ ask'[a].shown \cap ask'[a].settled = {}
  BY DEF Promise, AskKeeps
<1>2. ASSUME pc'[a] = "compute", NEW p \in ask'[a].settled
      PROVE  ~Serves(p, ask[a].list)' /\ On(p)' = {} /\ p \notin crossed'
  <2>1. p \in ask[a].settled /\ ask'[a].list = ask[a].list
    BY DEF AskKeeps
  <2>2. ~Serves(p, ask[a].list) /\ On(p) = {} /\ p \notin crossed
    BY <1>2, <2>1 DEF Promise
  <2>3. On(p)' = {} /\ para'[p] = para[p] /\ p \notin crossed'
    BY <1>2, <2>2 DEF Aside
  <2> QED
    BY <2>1, <2>2, <2>3 DEF Serves
<1> QED
  BY <1>1, <1>2 DEF Promise

\* A question that is not changed at all.
LEMMA SameAsk ==
    ASSUME NEW a, ask'[a] = ask[a]
    PROVE  AskKeeps(a)
BY DEF AskKeeps

LEMMA LateAsk ==
    ASSUME AskType, NEW a \in Askers, NEW p, NEW rows, ask' = BlameLate(p, rows)
    PROVE  AskKeeps(a)
<1>1. ask[a] \in Question
  BY DEF AskType
<1>2. PICK b : b = Reblame(ask[a].hits, ask[a].list, ask[a].blame, p, rows, "late")
  OBVIOUS
<1>3. PICK r : r = [ask[a] EXCEPT !.blame = b]
  OBVIOUS
<1>4. ask'[a] = r \/ ask'[a] = ask[a]
  BY <1>2, <1>3 DEF BlameLate
<1>5. /\ r.hits = ask[a].hits /\ r.shown = ask[a].shown /\ r.list = ask[a].list
      /\ r.settled = ask[a].settled
  BY <1>1, <1>3 DEF Question
<1> QED
  BY <1>4, <1>5 DEF AskKeeps

\* Where a call of the store leads: on, on the same paragraph, or to an end.
LEMMA StoreCallStays ==
    ASSUME TypeOK, NEW q \in Procs, StoreCall(q)
    PROVE  /\ pc[q] \in StorePcs /\ pc'[q] # "compute" /\ Only(q)
           /\ para' = para /\ crossed' = crossed /\ \A a \in Askers : AskKeeps(a)
           /\ q \in Writers => pc'[q] = "idle" \/ call'[q].para = call[q].para
<1>1. call[q] \in Call /\ ProcsType /\ AskType
  BY Parts, CallType
<1>2. pc[q] \in StorePcs /\ para' = para /\ crossed' = crossed
  BY DEF StoreCall, Lookup, Write, Drop, InvalidateFails, ScanKey, StorePcs
<1>3. \A a \in Askers : AskKeeps(a)
  <2>1. ask' = ask \/ ask' = BlameLate(call[q].para, Rows(call[q]))
    BY DEF StoreCall, Lookup, Write, Drop, InvalidateFails, ScanKey
  <2> QED
    BY <1>1, <2>1, SameAsk, LateAsk
<1>4. CASE Return(q)
  <2>1. CASE /\ call[q].op \in {"edit", "embed"} \cup TransactionOps
             /\ Goto(q, IF call[q].op \in TransactionOps THEN "commit" ELSE "recheck")
             /\ call' = [call EXCEPT ![q].scan = {}, ![q].found = {}]
    <3>1. PICK c : c = [call[q] EXCEPT !.scan = {}, !.found = {}]
      OBVIOUS
    <3>2. /\ call'[q] = c /\ Only(q)
          /\ pc'[q] = IF call[q].op \in TransactionOps THEN "commit" ELSE "recheck"
      BY <1>1, <2>1, <3>1 DEF ProcsType, Goto, Only
    <3>3. c.para = call[q].para
      BY <1>1, <3>1 DEF Call
    <3> QED
      BY <1>2, <1>3, <3>2, <3>3
  <2>2. CASE Done(q)
    <3>1. pc'[q] = "idle" /\ Only(q)
      BY <1>1, <2>2, OnlyGoto DEF Done, Only, ProcsType
    <3> QED
      BY <1>2, <1>3, <3>1
  <2>3. CASE call[q].op = "sweep" /\ Goto(q, "sweep") /\ call' = [call EXCEPT ![q] = NoCall]
    <3>1. pc'[q] = "sweep" /\ Only(q)
      BY <1>1, <2>3, OnlyGoto DEF Only, ProcsType
    <3>2. q \notin Writers
      BY <1>1, <1>2, <2>3 DEF ProcsType, AtType, StorePcs, WriterOps, EditOps, TransactionOps
    <3> QED
      BY <1>2, <1>3, <3>1, <3>2
  <2> QED
    BY <1>4, <2>1, <2>2, <2>3 DEF Return
<1>5. CASE Lookup(q)
  <2>1. PICK c : c = [call[q] EXCEPT !.kbs = KnowledgeIds(call[q].para)]
    OBVIOUS
  <2>2. call'[q] = c /\ pc'[q] = "write" /\ Only(q)
    BY <1>1, <1>5, <2>1 DEF Lookup, Goto, Only, ProcsType
  <2>3. c.para = call[q].para
    BY <1>1, <2>1 DEF Call
  <2> QED
    BY <1>2, <1>3, <2>2, <2>3
<1>6. CASE Write(q)
  <2>1. PICK c : c = [call[q] EXCEPT !.kbs = {}, !.scan = Affected(call[q].kbs)]
    OBVIOUS
  <2>2. PICK d : d = [call[q] EXCEPT !.kbs = {}, !.scan = Affected(call[q].kbs),
                                     !.old = vec[call[q].para]]
    OBVIOUS
  <2>3. call'[q] = (IF call[q].op \in TransactionOps THEN d ELSE c) /\ pc'[q] = "scan" /\ Only(q)
    BY <1>1, <1>6, <2>1, <2>2 DEF Write, Goto, Only, ProcsType
  <2>4. c.para = call[q].para /\ d.para = call[q].para
    BY <1>1, <2>1, <2>2 DEF Call
  <2> QED
    BY <1>2, <1>3, <2>3, <2>4
<1>7. ASSUME NEW k \in Lists, ScanKey(q, k) PROVE pc'[q] = "scan" /\ Only(q) /\ call'[q].para = call[q].para
  <2>1. PICK c : c = [call[q] EXCEPT !.scan = @ \ {k},
                                     !.found = IF cache[k].stored THEN @ \cup {k} ELSE @]
    OBVIOUS
  <2>2. call'[q] = c /\ pc'[q] = "scan" /\ Only(q)
    BY <1>1, <1>7, <2>1 DEF ScanKey, Only, ProcsType
  <2>3. c.para = call[q].para
    BY <1>1, <2>1 DEF Call
  <2> QED
    BY <2>2, <2>3
<1> QED
  BY <1>2, <1>3, <1>4, <1>5, <1>6, <1>7 DEF StoreCall, Drop, InvalidateFails

LEMMA WriterStays ==
    ASSUME TypeOK, NEW w \in Writers,
           Save(w) \/ Commit(w) \/ ReadText(w) \/ Recheck(w) \/ Insert(w)
    PROVE  /\ pc[w] # "idle" /\ pc'[w] # "compute" /\ Only(w)
           /\ crossed' = crossed /\ \A a \in Askers : AskKeeps(a)
           /\ \A x \in Paras : x # call[w].para => para'[x] = para[x]
           /\ pc'[w] = "idle" \/ call'[w].para = call[w].para
<1>1. w \in Procs /\ call[w] \in Call /\ ProcsType /\ AskType /\ StoreType
  BY Parts, CallType DEF Procs
<1>2. pc[w] # "idle" /\ crossed' = crossed
  BY DEF Save, Commit, ReadText, Recheck, Insert
<1>3. ASSUME NEW a \in Askers PROVE AskKeeps(a)
  <2>1. CASE ask' = ask
    BY <2>1, SameAsk
  <2>2. CASE \E rows : ask' = BlameLate(call[w].para, rows)
    BY <1>1, <2>2, LateAsk
  <2> QED
    BY <2>1, <2>2 DEF Save, Commit, ReadText, Recheck, Insert
<1>4. ASSUME NEW x \in Paras, x # call[w].para PROVE para'[x] = para[x]
  BY <1>1, <1>4 DEF Save, Commit, ReadText, Recheck, Insert, StoreType
<1>5. CASE Done(w)
  <2>1. pc'[w] = "idle" /\ Only(w)
    BY <1>1, <1>5, DoneIs
  <2> QED
    BY <1>2, <1>3, <1>4, <2>1
<1>6. CASE Save(w)
  <2>1. PICK c : c = [call[w] EXCEPT !.read = NoCall.read]
    OBVIOUS
  <2>2. PICK l \in {"text", "lookup"} : l = IF call[w].op = "edit" THEN "text" ELSE "lookup"
    OBVIOUS
  <2>3. call'[w] = c /\ pc'[w] = l /\ Only(w)
    BY <1>1, <1>6, <2>1, <2>2 DEF Save, Goto, Only, ProcsType
  <2>4. c.para = call[w].para
    BY <1>1, <2>1 DEF Call
  <2> QED
    BY <1>2, <1>3, <1>4, <2>3, <2>4
<1>7. CASE ReadText(w)
  <2>1. PICK c : c = [call[w] EXCEPT !.read = para[call[w].para]]
    OBVIOUS
  <2>2. call'[w] = c /\ pc'[w] = "lookup" /\ Only(w)
    BY <1>1, <1>7, <2>1 DEF ReadText, Goto, Only, ProcsType
  <2>3. c.para = call[w].para
    BY <1>1, <2>1 DEF Call
  <2> QED
    BY <1>2, <1>3, <1>4, <2>2, <2>3
<1>8. CASE Goto(w, "insert") /\ UNCHANGED call
  <2>1. call'[w] = call[w] /\ pc'[w] = "insert" /\ Only(w)
    BY <1>1, <1>8, OnlyGoto DEF Only
  <2> QED
    BY <1>2, <1>3, <1>4, <2>1
<1> QED
  BY <1>5, <1>6, <1>7, <1>8 DEF Commit, Recheck, Insert

\* The steps of a request that has begun.
LEMMA WriterPromises ==
    ASSUME TypeOK, Promises, NEW w \in Writers, WriterStep(w)
    PROVE  Promises'
<1>1. /\ w \in Procs /\ pc[w] # "idle" /\ pc'[w] # "compute" /\ Only(w)
      /\ crossed' = crossed /\ \A a \in Askers : AskKeeps(a)
      /\ \A x \in Paras : x # call[w].para => para'[x] = para[x]
      /\ pc'[w] = "idle" \/ call'[w].para = call[w].para
  <2>1. w \in Procs
    BY DEF Procs
  <2>2. CASE StoreCall(w)
    BY <2>1, <2>2, StoreCallStays DEF StorePcs
  <2> QED
    BY <2>1, <2>2, WriterStays DEF WriterStep
<1>2. ASSUME NEW x \in Paras, On(x) = {} PROVE On(x)' = {} /\ para'[x] = para[x]
  <2>1. call[w].para # x
    BY <1>1, <1>2 DEF On
  <2> QED
    BY <1>1, <1>2, <2>1 DEF On, Only, Procs
<1>3. ASSUME NEW a \in Askers PROVE Promise(a)'
  <2>1. pc'[a] = pc[a]
    BY <1>1, Constants DEF Only, Procs
  <2>2. ask'[a].settled \subseteq Paras /\ Promise(a) /\ AskKeeps(a)
    BY <1>1, Parts DEF AskType, Question, AskKeeps, Promises
  <2>3. \A p \in ask'[a].settled : Aside(p)
    BY <1>1, <1>2, <2>2 DEF Aside
  <2> QED
    BY <2>1, <2>2, <2>3, PromiseKept
<1> QED
  BY <1>3 DEF Promises

\* A request that comes in ends the promises about its paragraph.
LEMMA RequestPromises ==
    ASSUME TypeOK, Promises, NEW w \in Writers, Request(w)
    PROVE  Promises'
<1>1. NoCall \in Call /\ w \in Procs /\ StoreType /\ ProcsType /\ AskType
  BY BlankTypes, Parts DEF Procs
<1>2. PICK p \in Paras :
        \/ \E op \in EditOps : Edit(w, op, p)
        \/ Delete(w, p) \/ BatchDelete(w, p) \/ Embed(w, p)
        \/ \E to \in Kbs : Migrate(w, p, to)
  BY DEF Request
<1>3. PICK op : Arrive(w, op, p)
  BY <1>2 DEF Edit, Delete, BatchDelete, Embed, Migrate
<1>4. \A x \in Paras \ {p} : para'[x] = para[x]
  BY <1>1, <1>2 DEF Edit, Delete, BatchDelete, Embed, Migrate, StoreType
<1>5. PICK l \in {"save", "lookup", "text"} : Goto(w, l)
  BY <1>2 DEF Edit, Delete, BatchDelete, Embed, Migrate
<1>6. call'[w].para = p /\ \A x \in Procs \ {w} : call'[x] = call[x]
  <2>1. ASSUME NEW c, c.para = p, call' = [call EXCEPT ![w] = c]
        PROVE  call'[w].para = p /\ \A x \in Procs \ {w} : call'[x] = call[x]
    BY <1>1, <2>1 DEF ProcsType
  <2>2. ASSUME NEW o \in EditOps, Edit(w, o, p)
        PROVE  \E c : c.para = p /\ call' = [call EXCEPT ![w] = c]
    <3>1. PICK c : c = [NoCall EXCEPT !.op = o, !.para = p, !.read = para[p]]
      OBVIOUS
    <3>2. c.para = p
      BY <1>1, <3>1 DEF Call
    <3>3. call' = [call EXCEPT ![w] = c]
      BY <2>2, <3>1 DEF Edit
    <3> QED
      BY <3>2, <3>3
  <2>3. ASSUME NEW o, call' = [call EXCEPT ![w] = [NoCall EXCEPT !.op = o, !.para = p]]
        PROVE  \E c : c.para = p /\ call' = [call EXCEPT ![w] = c]
    <3>1. PICK c : c = [NoCall EXCEPT !.op = o, !.para = p]
      OBVIOUS
    <3>2. c.para = p
      BY <1>1, <3>1 DEF Call
    <3> QED
      BY <2>3, <3>1, <3>2
  <2>4. ASSUME NEW to \in Kbs, Migrate(w, p, to)
        PROVE  \E c : c.para = p /\ call' = [call EXCEPT ![w] = c]
    <3>1. PICK c : c = [NoCall EXCEPT !.op = "migrate", !.para = p, !.to = to]
      OBVIOUS
    <3>2. c.para = p
      BY <1>1, <3>1 DEF Call
    <3>3. call' = [call EXCEPT ![w] = c]
      BY <2>4, <3>1 DEF Migrate
    <3> QED
      BY <3>2, <3>3
  <2>5. Delete(w, p) \/ BatchDelete(w, p) \/ Embed(w, p) =>
            \E c : c.para = p /\ call' = [call EXCEPT ![w] = c]
    BY <2>3 DEF Delete, BatchDelete, Embed
  <2>6. PICK c : c.para = p /\ call' = [call EXCEPT ![w] = c]
    BY <1>2, <2>2, <2>4, <2>5
  <2> QED
    BY <2>1, <2>6
<1>7. Only(w) /\ pc'[w] = l
  BY <1>1, <1>5, <1>6, OnlyGoto DEF Only
<1>8. call'[w].para = p
  BY <1>6
<1>9. ASSUME NEW a \in Askers PROVE AskKeeps(a) /\ p \notin ask'[a].settled
  <2>1. ask[a] \in Question
    BY <1>1 DEF AskType
  <2>2. PICK s : s = ask[a].settled \ {p}
    OBVIOUS
  <2>3. PICK q : q = [ask[a] EXCEPT !.settled = s]
    OBVIOUS
  <2>4. ask'[a] = q
    BY <1>3, <2>2, <2>3 DEF Arrive
  <2>5. /\ q.hits = ask[a].hits /\ q.shown = ask[a].shown /\ q.list = ask[a].list
        /\ q.settled = s
    BY <2>1, <2>3 DEF Question
  <2> QED
    BY <2>2, <2>4, <2>5 DEF AskKeeps
<1>10. ASSUME NEW x \in Paras, x # p PROVE Aside(x)
  <2>1. x \notin crossed => x \notin crossed'
    BY <1>3, <1>10 DEF Arrive
  <2>2. On(x) = {} => On(x)' = {}
    BY <1>7, <1>8, <1>10 DEF On, Only, Procs
  <2> QED
    BY <1>4, <1>10, <2>1, <2>2 DEF Aside
<1>11. ASSUME NEW a \in Askers PROVE Promise(a)'
  <2>1. pc'[a] = pc[a]
    BY <1>7, Constants DEF Only, Procs
  <2>2. ask'[a].settled \subseteq Paras /\ Promise(a) /\ AskKeeps(a)
    BY <1>1, <1>9 DEF AskType, Question, AskKeeps, Promises
  <2>3. \A x \in ask'[a].settled : Aside(x)
    BY <1>9, <1>10, <2>2
  <2> QED
    BY <2>1, <2>2, <2>3, PromiseKept
<1> QED
  BY <1>11 DEF Promises

\* A paragraph at rest that the store finds serves the question.
LEMMA FoundServes ==
    ASSUME MirrorInv, NEW p \in Paras, On(p) = {}, p \notin crossed, NEW k, Found(vec[p], k)
    PROVE  Serves(p, k)
<1>1. Match(p)
  BY DEF MirrorInv, Mirrors
<1>2. PICK r \in vec[p] : r.kb \in k /\ r.active
  BY DEF Found
<1> QED
  BY <1>1, <1>2 DEF Match, Writing, Serves

LEMMA AskPromises ==
    ASSUME TypeOK, AllExplained, MirrorInv, NEW a \in Askers, NEW k \in Lists, Ask(a, k)
    PROVE  Promise(a)'
<1>1. PICK settled : settled = Settled(k)
  OBVIOUS
<1>2. ASSUME NEW p \in settled
      PROVE  /\ p \in Paras /\ ~Serves(p, k) /\ On(p) = {} /\ p \notin crossed
             /\ \A why \in Causes : <<p, why>> \notin cache[k].blame
             /\ ~Pending(k, p)
  BY <1>1, <1>2 DEF Settled, Busy, On, Pending, Procs
<1>3. NoQuestion \in Question
  BY BlankTypes
<1>4. UNCHANGED <<para, vec, cache, call, crossed>> /\ AskType /\ ProcsType /\ a \in Procs
  BY Parts DEF Ask, Procs
<1>5. CASE cache[k].stored /\ Goto(a, "list")
           /\ ask' = [ask EXCEPT ![a] = [NoQuestion EXCEPT !.hits = cache[k].hits,
                                                          !.settled = Settled(k)]]
  <2>1. PICK q : q = [NoQuestion EXCEPT !.hits = cache[k].hits, !.settled = settled]
    OBVIOUS
  <2>2. ask'[a] = q /\ pc'[a] = "list"
    BY <1>1, <1>4, <1>5, <2>1, OnlyGoto DEF AskType
  <2>3. q.hits = cache[k].hits /\ q.settled = settled /\ q.shown = {}
    <3>1. q.hits = cache[k].hits /\ q.settled = settled /\ q.shown = NoQuestion.shown
      BY <1>3, <2>1 DEF Question
    <3> QED
      BY <3>1 DEF NoQuestion
  <2>4. ASSUME NEW p \in settled, p \in cache[k].hits PROVE FALSE
    <3>1. Found(vec[p], k)
      BY <1>2, <1>5, <2>4 DEF AllExplained, Explained
    <3> QED
      BY <1>2, <3>1, FoundServes
  <2> QED
    BY <2>2, <2>3, <2>4 DEF Promise
<1>6. CASE Goto(a, "compute")
           /\ ask' = [ask EXCEPT ![a] = [NoQuestion EXCEPT !.list = k, !.settled = Settled(k)]]
  <2>1. PICK q : q = [NoQuestion EXCEPT !.list = k, !.settled = settled]
    OBVIOUS
  <2>2. ask'[a] = q /\ pc'[a] = "compute"
    BY <1>1, <1>4, <1>6, <2>1, OnlyGoto DEF AskType
  <2>3. q.list = k /\ q.settled = settled /\ q.shown = {} /\ q.hits = {}
    <3>1. /\ q.list = k /\ q.settled = settled
          /\ q.shown = NoQuestion.shown /\ q.hits = NoQuestion.hits
      BY <1>3, <2>1 DEF Question
    <3> QED
      BY <3>1 DEF NoQuestion
  <2>4. ASSUME NEW p \in settled PROVE ~Serves(p, k)' /\ On(p)' = {} /\ p \notin crossed'
    <3>1. ~Serves(p, k) /\ On(p) = {} /\ p \notin crossed
      BY <1>2
    <3>2. \A w \in Writers : pc'[w] = pc[w]
      BY <1>4, <1>6, OnlyGoto, Constants DEF Procs
    <3> QED
      BY <1>4, <3>1, <3>2 DEF Serves, On
  <2> QED
    BY <2>2, <2>3, <2>4 DEF Promise
<1> QED
  BY <1>5, <1>6 DEF Ask

LEMMA AskerPromises ==
    ASSUME TypeOK, AllExplained, MirrorInv, Promises, NEW a \in Askers,
           AskerStep(a) \/ \E k \in Lists : Ask(a, k)
    PROVE  Promises'
<1>1. /\ a \in Procs /\ a \notin Writers /\ StoreType /\ ProcsType /\ AskType
      /\ ask[a] \in Question /\ Promise(a)
  BY Constants, Parts DEF Procs, AskType, Promises
<1>2. ASSUME Only(a), para' = para, crossed' = crossed, Promise(a)',
             \A b \in Askers \ {a} : AskKeeps(b)
      PROVE  Promises'
  <2>1. ASSUME NEW b \in Askers, b # a PROVE Promise(b)'
    <3>1. pc'[b] = pc[b] /\ Promise(b) /\ AskKeeps(b)
      BY <1>2, <2>1 DEF Only, Procs, Promises
    <3>2. ASSUME NEW p PROVE Aside(p)
      BY <1>1, <1>2 DEF Aside, On, Only, Procs
    <3> QED
      BY <3>1, <3>2, PromiseKept
  <2> QED
    BY <1>2, <2>1 DEF Promises
<1>3. CASE StoreCall(a)
  <2>1. /\ pc'[a] # "compute" /\ Only(a) /\ para' = para /\ crossed' = crossed
        /\ \A b \in Askers : AskKeeps(b)
    BY <1>1, <1>3, StoreCallStays
  <2>2. Promise(a)'
    BY <1>1, <2>1, PromiseKept
  <2> QED
    BY <1>2, <2>1, <2>2
<1>4. CASE Compute(a) \/ Store(a) \/ List(a) \/ Sweep(a) \/ Answer(a) \/ \E k \in Lists : Ask(a, k)
  <2>1. para' = para /\ crossed' = crossed
    BY <1>4 DEF Compute, Store, List, Sweep, Answer, Ask
  <2>2. Only(a)
    BY <1>1, <1>4 DEF Compute, Store, List, Sweep, Answer, Ask, Goto, Only, ProcsType
  <2>3. ASSUME NEW b \in Askers \ {a} PROVE AskKeeps(b)
    <3>1. ask'[b] = ask[b]
      BY <1>1, <1>4 DEF Compute, Store, List, Sweep, Answer, Ask, AskType
    <3> QED
      BY <3>1, SameAsk
  <2>4. CASE Compute(a)
    <3>1. PICK q : q = [ask[a] EXCEPT !.hits = Visible(ask[a].list)]
      OBVIOUS
    <3>2. ask'[a] = q /\ pc[a] = "compute" /\ pc'[a] = "store"
      BY <1>1, <2>4, <3>1, OnlyGoto DEF Compute, AskType
    <3>3. q.hits = Visible(ask[a].list) /\ q.shown = ask[a].shown /\ q.settled = ask[a].settled
      BY <1>1, <3>1 DEF Question
    <3>4. ASSUME NEW p \in ask[a].settled, p \in Visible(ask[a].list) PROVE FALSE
      <4>1. p \in Paras /\ ~Serves(p, ask[a].list) /\ On(p) = {} /\ p \notin crossed
        BY <1>1, <3>2, <3>4 DEF Promise, Visible
      <4> QED
        BY <3>4, <4>1, FoundServes DEF Visible
    <3>5. ask[a].shown \cap ask[a].settled = {}
      BY <1>1 DEF Promise
    <3>6. Promise(a)'
      BY <3>2, <3>3, <3>4, <3>5 DEF Promise
    <3> QED
      BY <1>2, <2>1, <2>2, <2>3, <3>6
  <2>5. CASE Store(a)
    <3>1. PICK q : q = [ask[a] EXCEPT !.blame = {}, !.list = {}]
      OBVIOUS
    <3>2. ask'[a] = q /\ pc'[a] = "list"
      BY <1>1, <2>5, <3>1, OnlyGoto DEF Store, AskType
    <3>3. q.hits = ask[a].hits /\ q.shown = ask[a].shown /\ q.settled = ask[a].settled
      BY <1>1, <3>1 DEF Question
    <3>4. Promise(a)'
      BY <1>1, <3>2, <3>3 DEF Promise
    <3> QED
      BY <1>2, <2>1, <2>2, <2>3, <3>4
  <2>6. CASE List(a)
    <3>1. PICK here : here = {p \in ask[a].hits : para[p].live}
      OBVIOUS
    <3>2. PICK q : q = [ask[a] EXCEPT !.hits = {}, !.shown = here, !.missing = ask[a].hits \ here]
      OBVIOUS
    <3>3. ask'[a] = q /\ pc'[a] = "sweep"
      BY <1>1, <2>6, <3>1, <3>2, OnlyGoto DEF List, AskType
    <3>4. q.hits = {} /\ q.shown = here /\ q.settled = ask[a].settled
      BY <1>1, <3>2 DEF Question
    <3>5. Promise(a)'
      BY <1>1, <3>1, <3>3, <3>4 DEF Promise
    <3> QED
      BY <1>2, <2>1, <2>2, <2>3, <3>5
  <2>7. CASE Sweep(a)
    <3>1. PICK m : ask' = [ask EXCEPT ![a].missing = m]
      BY <2>7 DEF Sweep
    <3>2. PICK q : q = [ask[a] EXCEPT !.missing = m]
      OBVIOUS
    <3>3. ask'[a] = q /\ pc'[a] = "lookup"
      BY <1>1, <2>7, <3>1, <3>2, OnlyGoto DEF Sweep, AskType
    <3>4. q.hits = ask[a].hits /\ q.shown = ask[a].shown /\ q.settled = ask[a].settled
      BY <1>1, <3>2 DEF Question
    <3>5. Promise(a)'
      BY <1>1, <3>3, <3>4 DEF Promise
    <3> QED
      BY <1>2, <2>1, <2>2, <2>3, <3>5
  <2>8. CASE Answer(a)
    <3>1. ask'[a] = NoQuestion /\ pc'[a] = "idle"
      BY <1>1, <2>8, OnlyGoto DEF Answer, AskType
    <3>2. Promise(a)'
      BY <3>1 DEF Promise, NoQuestion
    <3> QED
      BY <1>2, <2>1, <2>2, <2>3, <3>2
  <2>9. CASE \E k \in Lists : Ask(a, k)
    <3>1. Promise(a)'
      BY <2>9, AskPromises
    <3> QED
      BY <1>2, <2>1, <2>2, <2>3, <3>1
  <2> QED
    BY <1>4, <2>4, <2>5, <2>6, <2>7, <2>8, <2>9
<1> QED
  BY <1>3, <1>4 DEF AskerStep

LEMMA PromisesNext ==
    TypeOK /\ AllExplained /\ MirrorInv /\ Promises /\ [Next]_vars => Promises'
<1> SUFFICES ASSUME TypeOK, AllExplained, MirrorInv, Promises, [Next]_vars PROVE Promises'
  OBVIOUS
<1>1. ASSUME NEW w \in Writers, Request(w) \/ WriterStep(w) PROVE Promises'
  BY <1>1, RequestPromises, WriterPromises
<1>2. ASSUME NEW a \in Askers, AskerStep(a) \/ \E k \in Lists : Ask(a, k) PROVE Promises'
  BY <1>2, AskerPromises
<1>3. CASE UNCHANGED vars \/ \E k \in Lists : Expire(k)
  <2>1. UNCHANGED <<para, pc, call, ask, crossed>>
    BY <1>3 DEF vars, Expire
  <2> QED
    BY <2>1 DEF Promises, Promise, Serves, On
<1> QED
  BY <1>1, <1>2, <1>3 DEF Next

\* No answer shows a paragraph whose disabling, deletion or migration out of the
\* question's knowledge bases had ended when the question was asked, was not crossed by
\* another request, and left no blame on the cached result.
THEOREM SettledParagraphsAreNotShown == Spec => []SettledIsNotShown
<1>1. Promises => SettledIsNotShown
  BY DEF Promises, Promise, SettledIsNotShown
<1>2. Init => Promises
  BY DEF Init, Promises, Promise, NoQuestion, Procs
<1>3. Init => IInv /\ MirrorInv /\ Promises
  BY <1>2, IInit, MirrorInit
<1>4. IInv /\ MirrorInv /\ Promises /\ [Next]_vars => IInv' /\ MirrorInv' /\ Promises'
  BY INext, MirrorNext, PromisesNext DEF IInv
<1> QED
  BY <1>1, <1>3, <1>4, PTL DEF Spec
=============================================================================
