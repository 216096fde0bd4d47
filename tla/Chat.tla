------------------------------- MODULE Chat -------------------------------
(***************************************************************************)
(* One conversation: its records in the database, the copy of the latest   *)
(* ones that ChatInfo keeps in the cache, the turns that read that copy,   *)
(* answer and write both, the votes on records, and the counter that       *)
(* limits how often a client may ask in a day.                             *)
(*                                                                         *)
(* A turn is a request of its own: it takes its list of records at the     *)
(* start and nothing locks the conversation while the answer is generated. *)
(* A simple application streams the last chunk before it counts the turn   *)
(* and handles an exception by saving it as the answer, whether there is a *)
(* stream yet that tells the client or not; a workflow counts first and    *)
(* handles none.  Answers are streamed: the block answers of a request     *)
(* with stream = false are left out.                                       *)
(*                                                                         *)
(* History variables: given and voted say what the client was told, and    *)
(* forked, moved, overwritten, outvoted and uncounted name what can have   *)
(* come between that and the stored state.                                 *)
(***************************************************************************)
EXTENDS Naturals, FiniteSets, Sequences

CONSTANTS
    Users,          \* turns that can be in progress at once
    Voters,         \* votes that can be in progress at once
    CacheSize,      \* records that the cache keeps: 20 in the code
    ReopenSize,     \* records that a reopened conversation starts with: 5
    Limit,          \* ApplicationAccessToken.access_num
    Kinds,          \* types of the application
    Ops,            \* which requests and faults happen in this instance
    MaxRequests,    \* bound: turns and votes per behaviour
    MaxFaults       \* bound: faults and scheduled jobs per behaviour

ASSUME Constants ==
    /\ IsFiniteSet(Users)
    /\ Kinds \subseteq {"simple", "workflow"}
    /\ {CacheSize, ReopenSize, Limit, MaxRequests, MaxFaults} \subseteq Nat
    /\ 0 < ReopenSize /\ ReopenSize <= CacheSize /\ 0 < Limit

\* Record 1 is there from the start, or never; the turn of request n has a new record n + 1.
Records == 1..(MaxRequests + 1)

VARIABLES
    kind,           \* the type of the application
    chat,           \* the Chat row exists
    row,            \* record -> its ChatRecord row
    cache,          \* the cached ChatInfo
    turn,           \* user -> the turn in progress
    voter,          \* voter -> the vote in progress
    count,          \* intraday_access_num of the client
    answered,       \* turns answered since the counter was reset
    given,          \* record -> the answer the client was told last
    voted,          \* record -> the vote acknowledged last
    forked,         \* turns overlapped, or an exception came between two writes of one
    moved,          \* a record is not where the list or the database had it
    overwritten,    \* records whose text two writers raced for
    outvoted,       \* records with a vote that a remembered copy lacks
    uncounted,      \* turns may be missing from the counter
    requests, faults

history == <<given, voted, forked, moved, overwritten, outvoted, uncounted>>
vars == <<kind, chat, row, cache, turn, voter, count, answered, history, requests, faults>>

-----------------------------------------------------------------------------
(* Types.                                                                  *)

\* The answer of a turn, the exception that the stream ended with, or the one that was
\* raised before there was a stream.
Hows == {"answer", "exception", "raised"}

\* turn 0 for the first record
Texts == [turn : 0..MaxRequests, how : Hows]

NoText == [turn |-> 0, how |-> "exception"]

Votes == {"none", "star"}

\* str: its id is a string and not a UUID.  The two are never equal.
Copies == [id : Records, str : BOOLEAN, text : Texts, vote : Votes]

TurnPcs == {"idle", "reopen", "recache", "check", "run", "chat", "record", "cache", "end",
            "count", "counted"}

\* n: the number of the request; list: the turn's own chat_record_list; vote: of the
\* record it goes on with; seen: the counter as it was read; how: what its record says.
Turns ==
    [pc : TurnPcs, id : Records, n : 0..MaxRequests, list : Seq(Copies), vote : Votes,
     seen : Nat, how : Hows]

TypeOK ==
    /\ kind \in Kinds /\ chat \in BOOLEAN
    /\ row \in [Records -> [there : BOOLEAN, born : 0..(MaxRequests + 1), text : Texts,
                            vote : Votes]]
    /\ cache \in [live : BOOLEAN, list : Seq(Copies)] /\ Len(cache.list) <= CacheSize
    /\ turn \in [Users -> Turns] /\ \A u \in Users : Len(turn[u].list) <= CacheSize + 1
    /\ voter \in [Voters -> [pc : {"idle", "save", "commit"}, copy : Copies]]
    /\ count \in Nat /\ answered \in Nat
    /\ given \in [Records -> Texts] /\ voted \in [Records -> Votes]
    /\ overwritten \subseteq Records /\ outvoted \subseteq Records
    /\ forked \in BOOLEAN /\ moved \in BOOLEAN /\ uncounted \in BOOLEAN
    /\ requests \in 0..MaxRequests /\ faults \in 0..MaxFaults

NoTurn ==
    [pc |-> "idle", id |-> 1, n |-> 0, list |-> <<>>, vote |-> "none", seen |-> 0,
     how |-> "answer"]

NoVoter == [pc |-> "idle", copy |-> [id |-> 1, str |-> FALSE, text |-> NoText, vote |-> "none"]]

NoRow == [there |-> FALSE, born |-> 0, text |-> NoText, vote |-> "none"]

First == [turn |-> 0, how |-> "answer"]

\* A conversation of long ago that nobody remembers, or one that has just been opened.
Init ==
    /\ kind \in Kinds
    /\ chat \in BOOLEAN
    /\ row = [r \in Records |->
                IF chat /\ r = 1 THEN [NoRow EXCEPT !.there = TRUE, !.text = First] ELSE NoRow]
    /\ cache = [live |-> ~chat, list |-> <<>>]
    /\ turn = [u \in Users |-> NoTurn]
    /\ voter = [v \in Voters |-> NoVoter]
    /\ count = 0 /\ answered = 0
    /\ given = [r \in Records |-> row[r].text]
    /\ voted = [r \in Records |-> "none"]
    /\ forked = FALSE /\ moved = FALSE /\ overwritten = {} /\ outvoted = {} /\ uncounted = FALSE
    /\ requests = 0 /\ faults = 0

-----------------------------------------------------------------------------
(* Records, copies and lists of them.                                      *)

There == {r \in Records : row[r].there}

\* By create_time.
Place(r) == Cardinality({s \in There : row[s].born <= row[r].born})

InOrder == [i \in 1..Cardinality(There) |-> CHOOSE r \in There : Place(r) = i]

CopyOf(r) == [id |-> r, str |-> FALSE, text |-> row[r].text, vote |-> row[r].vote]

In(r, list) == \E i \in DOMAIN list : list[i].id = r

\* The last copy of a record in a list that has one.
Found(r, list) ==
    list[CHOOSE i \in DOMAIN list :
            list[i].id = r /\ \A j \in DOMAIN list : list[j].id = r => j <= i]

LastOf(n, list) == SubSeq(list, IF Len(list) > n THEN Len(list) - n + 1 ELSE 1, Len(list))

\* Mutant: a record is appended without a look for one of its id.
PutAgain(copy, list) == Append(list, copy)

\* Their ids are equal.
Same(c, d) == c.id = d.id /\ c.str = d.str

Has(copy, list) == \E i \in DOMAIN list : Same(list[i], copy)

\* Mutant: a record that the list has keeps the answer that it had.
PutOnce(copy, list) == IF Has(copy, list) THEN list ELSE Append(list, copy)

\* ChatInfo.append_chat_record, in memory: in the place of a record whose id is equal.
Put(copy, list) ==
    IF Has(copy, list)
    THEN [i \in DOMAIN list |-> IF Same(list[i], copy) THEN copy ELSE list[i]]
    ELSE Append(list, copy)

\* The turn was asked to go on with a record.
GoesOn(u) == turn[u].id # turn[u].n + 1

Text(u, how) == [turn |-> turn[u].n, how |-> how]

\* A simple application takes the id to go on with from the request, as a string, and so is
\* the one made for an exception; otherwise the id is a new UUID.  (A workflow goes on with
\* the copy that it found, and whatever it is, its id is equal to itself.)
Answer(u, how) ==
    [id |-> turn[u].id, str |-> kind = "simple" /\ (GoesOn(u) \/ how = "raised"),
     text |-> Text(u, how), vote |-> turn[u].vote]

\* A record of earlier will be put at the end of its list.
BringsBack(u) == GoesOn(u) /\ ~Has(Answer(u, "answer"), turn[u].list)

\* The turn has read its list and not set the cache.
Remembering == {u \in Users : turn[u].pc \in
                    {"reopen", "recache", "check", "run", "chat", "record", "cache"}}

On(r) == {u \in Users : turn[u].pc # "idle" /\ turn[u].id = r}

VotersOn(r) == {v \in Voters : voter[v].pc # "idle" /\ voter[v].copy.id = r}

\* A vote has written the row and not committed.
RowLocked(r) == \E v \in VotersOn(r) : voter[v].pc = "commit"

\* Somebody will answer from a copy of r that is there now.
Remembered(r) ==
    \/ cache.live /\ In(r, cache.list)
    \/ \E u \in Users : turn[u].pc # "idle" /\ (In(r, turn[u].list) \/ turn[u].id = r)

Leave(u) == turn' = [turn EXCEPT ![u] = NoTurn]

Goes(u, pc) == turn' = [turn EXCEPT ![u].pc = pc]

-----------------------------------------------------------------------------
(* A turn.                                                                 *)

\* get_chat_info: the cached conversation, or the one in the database.  r is the record to
\* go on with, 0 for none.
Ask(u, r) ==
    LET id == IF r = 0 THEN requests + 2 ELSE r IN
    /\ "ask" \in Ops /\ requests < MaxRequests /\ turn[u].pc = "idle"
    /\ r # 0 => given[r] # NoText \/ row[r].there
    /\ turn' = [turn EXCEPT ![u] = [NoTurn EXCEPT
                    !.pc = IF cache.live THEN "check" ELSE "reopen",
                    !.id = id, !.n = requests + 1,
                    !.list = IF cache.live THEN cache.list ELSE <<>>]]
    /\ requests' = requests + 1
    /\ forked' = (Remembering # {} \/ (forked /\ cache.live))
    /\ moved' = (moved /\ cache.live)
    /\ overwritten' = IF On(id) = {} THEN overwritten ELSE overwritten \cup {id}
    /\ UNCHANGED <<kind, chat, row, cache, voter, count, answered, given, voted, outvoted,
                   uncounted, faults>>

\* re_open_chat
Reopen(u) ==
    /\ turn[u].pc = "reopen"
    /\ \/ /\ chat
          /\ turn' = [turn EXCEPT ![u].pc = "recache",
                        ![u].list = [i \in DOMAIN LastOf(ReopenSize, InOrder) |->
                                        CopyOf(LastOf(ReopenSize, InOrder)[i])]]
       \/ /\ ~chat
          /\ Leave(u)
    /\ UNCHANGED <<kind, chat, row, cache, voter, count, answered, history, requests, faults>>

Recache(u) ==
    /\ turn[u].pc = "recache"
    /\ cache' = [live |-> TRUE, list |-> turn[u].list]
    /\ Goes(u, "check")
    /\ UNCHANGED <<kind, chat, row, voter, count, answered, history, requests, faults>>

\* is_valid_intraday_access_num, get_chat_record and set_chat.  A workflow goes on with the
\* copy in its list, else with the row, else with nothing: that fails when the client names
\* the node to go on from.  A simple application looks for no record.
Check(u) ==
    LET r == turn[u].id
        found == kind = "workflow" /\ GoesOn(u) IN
    /\ turn[u].pc = "check"
    /\ \/ /\ count >= Limit
          /\ Leave(u)
          /\ UNCHANGED <<chat, outvoted>>
       \/ /\ found /\ ~In(r, turn[u].list) /\ ~row[r].there
          /\ Leave(u)
          /\ UNCHANGED <<chat, outvoted>>
       \/ /\ count < Limit
          /\ chat' = TRUE
          /\ turn' = [turn EXCEPT ![u].pc = "run",
                        ![u].vote =
                            IF ~found THEN "none"
                            ELSE IF In(r, turn[u].list) THEN Found(r, turn[u].list).vote
                            ELSE IF row[r].there THEN row[r].vote ELSE "none"]
          /\ outvoted' = IF GoesOn(u) /\ ~found THEN outvoted \cup {r} ELSE outvoted
    /\ UNCHANGED <<kind, row, cache, voter, count, answered, given, voted, forked, moved,
                   overwritten, uncounted, requests, faults>>

\* The answer, or what stands for it, goes into the turn's list.
Appends(u, how) ==
    /\ turn' = [turn EXCEPT ![u].pc = "chat", ![u].how = how, ![u].list = Put(Answer(u, how), @)]
    /\ moved' = (moved \/ BringsBack(u))

\* The answer has been generated and streamed.
Run(u) ==
    /\ turn[u].pc = "run"
    /\ Appends(u, "answer")
    /\ answered' = answered + 1
    /\ UNCHANGED <<kind, chat, row, cache, voter, count, given, voted, forked, overwritten,
                   outvoted, uncounted, requests, faults>>

\* The rest of append_chat_record: the Chat row, then the ChatRecord row.
SaveChat(u) ==
    /\ turn[u].pc = "chat"
    /\ chat' = TRUE
    /\ Goes(u, "record")
    /\ UNCHANGED <<kind, row, cache, voter, count, answered, history, requests, faults>>

Newest == CHOOSE n \in {row[r].born : r \in Records} : \A r \in Records : row[r].born <= n

\* Mutant: get_or_create for update_or_create.
SaveRecordOnce(u) ==
    LET r == turn[u].id IN
    /\ turn[u].pc = "record" /\ chat /\ ~RowLocked(r)
    /\ row' = [row EXCEPT ![r] = IF @.there THEN @ ELSE
                    [there |-> TRUE, born |-> Newest + 1, text |-> Text(u, turn[u].how),
                     vote |-> turn[u].vote]]
    /\ Goes(u, "cache")
    /\ moved' = (moved \/ (GoesOn(u) /\ ~row[r].there))
    /\ overwritten' = IF VotersOn(r) = {} THEN overwritten ELSE overwritten \cup {r}
    /\ UNCHANGED <<kind, chat, cache, voter, count, answered, given, voted, forked, outvoted,
                   uncounted, requests, faults>>

\* Mutant: the record of every answer is a new one, not voted on.
SaveRecordUnvoted(u) ==
    LET r == turn[u].id IN
    /\ turn[u].pc = "record" /\ chat /\ ~RowLocked(r)
    /\ row' = [row EXCEPT ![r] = [there |-> TRUE,
                                  born |-> IF row[r].there THEN @.born ELSE Newest + 1,
                                  text |-> Text(u, turn[u].how), vote |-> "none"]]
    /\ Goes(u, "cache")
    /\ moved' = (moved \/ (GoesOn(u) /\ ~row[r].there))
    /\ overwritten' = IF VotersOn(r) = {} THEN overwritten ELSE overwritten \cup {r}
    /\ UNCHANGED <<kind, chat, cache, voter, count, answered, given, voted, forked, outvoted,
                   uncounted, requests, faults>>

SaveRecord(u) ==
    LET r == turn[u].id IN
    /\ turn[u].pc = "record" /\ chat /\ ~RowLocked(r)
    /\ row' = [row EXCEPT ![r] = [there |-> TRUE,
                                  born |-> IF row[r].there THEN @.born ELSE Newest + 1,
                                  text |-> Text(u, turn[u].how), vote |-> turn[u].vote]]
    /\ Goes(u, "cache")
    /\ moved' = (moved \/ (GoesOn(u) /\ ~row[r].there))
    /\ overwritten' = IF VotersOn(r) = {} THEN overwritten ELSE overwritten \cup {r}
    /\ UNCHANGED <<kind, chat, cache, voter, count, answered, given, voted, forked, outvoted,
                   uncounted, requests, faults>>

ChunkFirst(u) == kind = "simple" /\ turn[u].how = "answer"

\* After the record and the cache: the exception is raised again if there is no stream.
Ends(u) ==
    IF turn[u].how = "raised" THEN Leave(u)
    ELSE Goes(u, IF ChunkFirst(u) THEN "end" ELSE "count")

\* Mutant: the cache keeps every record.
SetCacheWhole(u) ==
    /\ turn[u].pc = "cache"
    /\ cache' = [live |-> TRUE, list |-> turn[u].list]
    /\ Ends(u)
    /\ UNCHANGED <<kind, chat, row, voter, count, answered, history, requests, faults>>

\* ChatInfo.set_cache
SetCache(u) ==
    /\ turn[u].pc = "cache"
    /\ cache' = [live |-> TRUE, list |-> LastOf(CacheSize, turn[u].list)]
    /\ Ends(u)
    /\ UNCHANGED <<kind, chat, row, voter, count, answered, history, requests, faults>>

\* The last chunk of the stream.
End(u) ==
    /\ turn[u].pc = "end"
    /\ given' = [given EXCEPT ![turn[u].id] = Text(u, turn[u].how)]
    /\ IF ChunkFirst(u) THEN Goes(u, "count") ELSE Leave(u)
    /\ UNCHANGED <<kind, chat, row, cache, voter, count, answered, voted, forked, moved,
                   overwritten, outvoted, uncounted, requests, faults>>

\* add_access_num, or the end of WorkFlowPostHandler.handler: read, then write.
CountRead(u) ==
    /\ turn[u].pc = "count"
    /\ turn' = [turn EXCEPT ![u].pc = "counted", ![u].seen = count]
    /\ uncounted' = (uncounted \/ \E v \in Users \ {u} : turn[v].pc = "counted")
    /\ UNCHANGED <<kind, chat, row, cache, voter, count, answered, given, voted, forked, moved,
                   overwritten, outvoted, requests, faults>>

\* Mutant: only access_num is counted up.
CountWriteTotal(u) ==
    /\ turn[u].pc = "counted"
    /\ count' = turn[u].seen
    /\ IF ChunkFirst(u) THEN Leave(u) ELSE Goes(u, "end")
    /\ UNCHANGED <<kind, chat, row, cache, voter, answered, history, requests, faults>>

CountWrite(u) ==
    /\ turn[u].pc = "counted"
    /\ count' = turn[u].seen + 1
    /\ IF ChunkFirst(u) THEN Leave(u) ELSE Goes(u, "end")
    /\ UNCHANGED <<kind, chat, row, cache, voter, answered, history, requests, faults>>

-----------------------------------------------------------------------------
(* Votes: VoteSerializer.vote, a transaction that gives the record's lock   *)
(* in Redis back before it commits.                                        *)

\* A vote on a record that has one is refused until that is taken back.
Vote(v, r, b) ==
    /\ "vote" \in Ops /\ requests < MaxRequests
    /\ voter[v].pc = "idle" /\ \A w \in VotersOn(r) : voter[w].pc = "commit"
    /\ row[r].there
    /\ ~(b = "star" /\ row[r].vote = "star")
    /\ requests' = requests + 1
    /\ voter' = [voter EXCEPT ![v] = [pc |-> "save", copy |-> [CopyOf(r) EXCEPT !.vote = b]]]
    /\ UNCHANGED <<kind, chat, row, cache, turn, count, answered, history, faults>>

VoteSave(v) ==
    /\ voter[v].pc = "save" /\ ~RowLocked(voter[v].copy.id)
    /\ voter' = [voter EXCEPT ![v].pc = "commit"]
    /\ UNCHANGED <<kind, chat, row, cache, turn, count, answered, history, requests, faults>>

\* save() has written every column.  A row that was deleted it has inserted, if its chat is
\* there, as a new one: create_time is auto_now_add.
VoteCommit(v) ==
    LET c == voter[v].copy
        r == c.id IN
    /\ voter[v].pc = "commit"
    /\ \/ /\ row[r].there \/ chat
          /\ row' = [row EXCEPT ![r] = [there |-> TRUE,
                                        born |-> IF row[r].there THEN @.born ELSE Newest + 1,
                                        text |-> c.text, vote |-> c.vote]]
          /\ voted' = [voted EXCEPT ![r] = c.vote]
          /\ outvoted' = IF Remembered(r) THEN outvoted \cup {r} ELSE outvoted
          /\ moved' = (moved \/ ~row[r].there)
       \/ /\ ~(row[r].there \/ chat)
          /\ UNCHANGED <<row, voted, outvoted, moved>>
    /\ voter' = [voter EXCEPT ![v] = NoVoter]
    /\ UNCHANGED <<kind, chat, cache, turn, count, answered, given, forked, overwritten,
                   uncounted, requests, faults>>

-----------------------------------------------------------------------------
(* Exceptions, clients that go away, and scheduled jobs.                   *)

Fault(op) == op \in Ops /\ faults < MaxFaults /\ faults' = faults + 1

\* What an exception leaves behind: a record that says something else than the client was
\* told or than the cache has, a cache written twice, a turn that is not counted.
FailMarks(u, final) ==
    LET pc == turn[u].pc IN
    /\ overwritten' = IF pc \in {"cache", "count", "counted"}
                      THEN overwritten \cup {turn[u].id} ELSE overwritten
    /\ forked' = (forked \/ IF final THEN pc = "cache" \/ turn[u].how = "exception"
                            ELSE pc \in {"count", "counted"})
    /\ uncounted' = (uncounted \/ final)

\* The database or the cache fails; saving a record fails too when its chat has been
\* deleted.  A simple application saves the first exception as the answer.
Fail(u) ==
    /\ turn[u].pc \in {"run", "chat", "record", "cache", "count", "counted"}
    /\ \/ Fault("error")
       \/ turn[u].pc = "record" /\ ~chat /\ UNCHANGED faults
    /\ \/ /\ ChunkFirst(u)
          /\ Appends(u, "exception")
          /\ answered' = IF turn[u].pc = "run" THEN answered + 1 ELSE answered
          /\ FailMarks(u, FALSE)
       \/ /\ ~ChunkFirst(u) /\ turn[u].pc # "run"
          /\ Leave(u)
          /\ FailMarks(u, TRUE)
          /\ UNCHANGED <<answered, moved>>
    /\ UNCHANGED <<kind, chat, row, cache, voter, count, given, voted, outvoted, requests>>

\* IBaseChatPipelineStep.run: a step of a simple application fails before there is a stream
\* (the search, the completion of the question, the look for the model).  The exception is
\* saved as the answer, if the details of the steps can be told, and raised again.
Raise(u) ==
    /\ Fault("error")
    /\ kind = "simple" /\ turn[u].pc = "run"
    /\ \/ Appends(u, "raised")
       \/ Leave(u) /\ UNCHANGED moved
    /\ UNCHANGED <<kind, chat, row, cache, voter, count, answered, given, voted, forked,
                   overwritten, outvoted, uncounted, requests>>

\* The client of a simple application closes the stream: nothing after the chunk it would
\* have got is done.  (A workflow goes on to its end.)
Disconnect(u) ==
    /\ Fault("disconnect")
    /\ ChunkFirst(u) /\ turn[u].pc \in {"run", "end"}
    /\ Leave(u)
    /\ overwritten' = IF turn[u].pc = "end" THEN overwritten \cup {turn[u].id} ELSE overwritten
    /\ uncounted' = (uncounted \/ turn[u].pc = "end")
    /\ UNCHANGED <<kind, chat, row, cache, voter, count, answered, given, voted, forked, moved,
                   outvoted, requests>>

\* 30 minutes without a turn.
Expire ==
    /\ Fault("expire")
    /\ cache.live
    /\ cache' = [live |-> FALSE, list |-> <<>>]
    /\ UNCHANGED <<kind, chat, row, turn, voter, count, answered, history, requests>>

\* clean_chat_log_job: old records, and the chat if it has no other.
Clean ==
    /\ Fault("clean")
    /\ row[1].there /\ row[1].born = 0 /\ ~RowLocked(1)
    /\ row' = [row EXCEPT ![1].there = FALSE, ![1].vote = "none"]
    /\ chat' = (There # {1})
    /\ outvoted' = outvoted \cup {1}
    /\ UNCHANGED <<kind, cache, turn, voter, count, answered, given, voted, forked, moved,
                   overwritten, uncounted, requests>>

\* client_access_num_reset_job, at midnight.
Reset ==
    /\ Fault("reset")
    /\ count' = 0 /\ answered' = 0
    /\ uncounted' = (\E u \in Users : turn[u].pc = "counted")
    /\ UNCHANGED <<kind, chat, row, cache, turn, voter, given, voted, forked, moved, overwritten,
                   outvoted, requests>>

-----------------------------------------------------------------------------
TurnStep(u) ==
    \/ Reopen(u) \/ Recache(u) \/ Check(u) \/ Run(u) \/ SaveChat(u) \/ SaveRecord(u)
    \/ SetCache(u) \/ End(u) \/ CountRead(u) \/ CountWrite(u)

\* Nothing left to do in this instance.
Rest ==
    /\ \A u \in Users : turn[u].pc = "idle"
    /\ \A v \in Voters : voter[v].pc = "idle"
    /\ UNCHANGED vars

Next ==
    \/ \E u \in Users : TurnStep(u) \/ Fail(u) \/ Raise(u) \/ Disconnect(u)
    \/ \E u \in Users, r \in {0} \cup Records : Ask(u, r)
    \/ \E v \in Voters : VoteSave(v) \/ VoteCommit(v) \/ \E r \in Records, b \in Votes : Vote(v, r, b)
    \/ Expire \/ Clean \/ Reset
    \/ Rest

Spec == Init /\ [][Next]_vars

-----------------------------------------------------------------------------
(* Properties.                                                             *)

Known == {r \in There : In(r, cache.list)}

\* Between turns that did not overlap, the conversation that the next question is answered
\* from is the tail of the one in the database: in its order, with every record that is newer
\* than one it has, each as it was answered last, and no shorter than a reopened one is.
\* Unless a record has moved: a deleted one that was written again is a new one to the
\* database, and one to go on with is put at the end of a list that has lost it, or, in a
\* simple application, that has it under a UUID.
MemoryIsTheTail ==
    cache.live /\ Remembering = {} /\ ~forked /\ ~moved =>
        /\ \A i, j \in DOMAIN cache.list :
              i < j /\ {cache.list[i].id, cache.list[j].id} \subseteq There =>
                  row[cache.list[i].id].born < row[cache.list[j].id].born
        /\ \A r \in Known, s \in There : row[r].born < row[s].born => s \in Known
        /\ There \subseteq Known \/ ReopenSize <= Cardinality(Known)
        /\ \A i \in DOMAIN cache.list : cache.list[i].id \in There \ overwritten =>
              cache.list[i].text = row[cache.list[i].id].text

\* Wherever the records are in that list, the last copy of each is as it was answered last,
\* whichever request that was and however often the record was answered.
LatestIsRemembered ==
    cache.live /\ Remembering = {} /\ ~forked =>
        \A r \in Known \ overwritten : Found(r, cache.list).text = row[r].text

\* What the client was told last is what the record says, once no turn is on it, unless
\* two turns or a turn and a vote wrote it at once, or an exception or a disconnection
\* came between the record and the last chunk.  Only an exception that was raised before
\* there was a stream takes the place of an answer that the client has.
RecordsSayWhatWasTold ==
    \A r \in There : On(r) = {} /\ r \notin overwritten =>
        row[r].text = given[r] \/ row[r].text.how = "raised"

\* A vote stays until it is taken back, unless somebody held a copy of the record when it
\* was saved, a simple application answered the record anew, or the record was deleted.
VotesStay == \A r \in There : r \notin outvoted => row[r].vote = voted[r]

\* The limit is passed by no more turns than can be between the check and the counter,
\* unless the counter lost one: two wrote it at once, or an exception, a disconnection or
\* the nightly reset came in between.
LimitHolds == ~uncounted => answered < Limit + Cardinality(Users)
=============================================================================
