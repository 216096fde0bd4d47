----------------------------- MODULE ChatProofs -----------------------------
(***************************************************************************)
(* Theorems about Chat, for every number of records, turns and votes and   *)
(* every size of the cache: its types, the limit of questions in a day,    *)
(* that the records say what the client was told, that votes stay, and     *)
(* that the remembered conversation is the tail of the one in the          *)
(* database.                                                               *)
(***************************************************************************)
EXTENDS Chat, FiniteSetTheorems, SequenceTheorems, WellFoundedInduction, TLAPS

USE Constants

-----------------------------------------------------------------------------
(* Lists of copies.                                                        *)

LEMMA Numbers ==
    /\ CacheSize \in Nat /\ ReopenSize \in Nat /\ Limit \in Nat
    /\ MaxRequests \in Nat /\ MaxFaults \in Nat
    /\ 0 < ReopenSize /\ ReopenSize <= CacheSize /\ 0 < Limit /\ IsFiniteSet(Users)
OBVIOUS

\* A set of numbers with a bound has a greatest one.
LEMMA GreatestExists ==
    ASSUME NEW S \in SUBSET Nat, S # {}, NEW b \in Nat, \A x \in S : x <= b
    PROVE  \E n \in S : \A x \in S : x <= n
<1> DEFINE below == {b - x : x \in S}
<1>1. below # {} /\ below \subseteq Nat
  <2>1. ASSUME NEW x \in S PROVE b - x \in Nat
    OBVIOUS
  <2> QED
    BY <2>1
<1>2. PICK i \in below : \A j \in below : <<j, i>> \notin OpToRel(<, Nat)
  BY <1>1, NatLessThanWellFounded, WFMin
<1>3. PICK n \in S : i = b - n
  BY <1>2
<1>4. ASSUME NEW x \in S PROVE x <= n
  <2>1. b - x \in below /\ b - x \in Nat /\ i \in Nat /\ x \in Nat /\ n \in Nat
    BY <1>1, <1>2
  <2>2. ~(b - x < i)
    BY <1>2, <2>1 DEF OpToRel
  <2> QED
    BY <1>3, <2>1, <2>2
<1> QED
  BY <1>3, <1>4

LEMMA FoundIs ==
    ASSUME NEW list \in Seq(Copies), NEW r, In(r, list)
    PROVE  \E i \in DOMAIN list : Found(r, list) = list[i] /\ list[i].id = r
<1> DEFINE at == {i \in DOMAIN list : list[i].id = r}
<1>1. DOMAIN list = 1 .. Len(list) /\ Len(list) \in Nat
  OBVIOUS
<1>2. at \in SUBSET Nat /\ at # {} /\ \A i \in at : i <= Len(list)
  BY <1>1 DEF In
<1>3. PICK n \in at : \A j \in at : j <= n
  BY <1>1, <1>2, GreatestExists
<1>4. \E i \in DOMAIN list : list[i].id = r /\ \A j \in DOMAIN list : list[j].id = r => j <= i
  BY <1>3
<1> QED
  BY <1>4 DEF Found

\* A copy is put in the place of one with an equal id, or behind the others.
LEMMA PutIs ==
    ASSUME NEW list \in Seq(Copies), NEW copy \in Copies
    PROVE  /\ Put(copy, list) \in Seq(Copies) /\ Has(copy, Put(copy, list))
           /\ Len(Put(copy, list)) <= Len(list) + 1
           /\ Has(copy, list) => Len(Put(copy, list)) = Len(list)
           /\ \A i \in DOMAIN Put(copy, list) :
                 Put(copy, list)[i] = copy \/ \E j \in DOMAIN list : Put(copy, list)[i] = list[j]
<1>0. PICK new : new = Put(copy, list)
  OBVIOUS
<1> SUFFICES /\ new \in Seq(Copies) /\ Has(copy, new)
             /\ Len(new) <= Len(list) + 1
             /\ Has(copy, list) => Len(new) = Len(list)
             /\ \A i \in DOMAIN new : new[i] = copy \/ \E j \in DOMAIN list : new[i] = list[j]
  BY <1>0
<1>1. DOMAIN list = 1 .. Len(list) /\ Len(list) \in Nat /\ \A i \in DOMAIN list : list[i] \in Copies
  OBVIOUS
<1>2. CASE Has(copy, list)
  <2>1. new = [i \in 1 .. Len(list) |-> IF Same(list[i], copy) THEN copy ELSE list[i]]
    BY <1>0, <1>1, <1>2 DEF Put
  <2>2. new \in Seq(Copies) /\ Len(new) = Len(list) /\ DOMAIN new = 1 .. Len(list)
    BY <1>1, <2>1
  <2>3. PICK i \in DOMAIN list : Same(list[i], copy)
    BY <1>2 DEF Has
  <2>4. new[i] = copy /\ i \in DOMAIN new
    BY <1>1, <2>1, <2>2, <2>3
  <2>5. Has(copy, new)
    BY <2>4 DEF Has, Same
  <2>6. \A j \in DOMAIN new : new[j] = copy \/ new[j] = list[j]
    BY <2>1
  <2> QED
    BY <1>1, <1>2, <2>2, <2>5, <2>6
<1>3. CASE ~Has(copy, list)
  <2>1. new = Append(list, copy)
    BY <1>0, <1>3 DEF Put
  <2>2. /\ new \in Seq(Copies) /\ Len(new) = Len(list) + 1 /\ new[Len(list) + 1] = copy
        /\ \A i \in 1 .. Len(list) : new[i] = list[i]
    BY <1>1, <2>1
  <2>3. DOMAIN new = 1 .. Len(list) + 1 /\ Len(list) + 1 \in DOMAIN new
    BY <1>1, <2>2
  <2>4. Has(copy, new)
    BY <2>2, <2>3 DEF Has, Same
  <2>5. \A i \in DOMAIN new : new[i] = copy \/ (i \in DOMAIN list /\ new[i] = list[i])
    BY <1>1, <2>2, <2>3
  <2>6. \A i \in DOMAIN new : new[i] = copy \/ \E j \in DOMAIN list : new[i] = list[j]
    BY <2>5, Zenon
  <2>7. new \in Seq(Copies) /\ Len(new) <= Len(list) + 1
    BY <1>1, <2>2
  <2> QED
    BY <1>3, <2>4, <2>6, <2>7, Zenon
<1> QED
  BY <1>2, <1>3

LEMMA LastOfIs ==
    ASSUME NEW S, NEW list \in Seq(S), NEW n \in Nat
    PROVE  /\ LastOf(n, list) \in Seq(S) /\ Len(LastOf(n, list)) <= n
           /\ \A i \in DOMAIN LastOf(n, list) : \E j \in DOMAIN list : LastOf(n, list)[i] = list[j]
           /\ Len(LastOf(n, list)) = IF Len(list) > n THEN n ELSE Len(list)
           /\ \A i \in DOMAIN LastOf(n, list) :
                 LastOf(n, list)[i] = list[Len(list) - Len(LastOf(n, list)) + i]
<1>1. PICK k \in Nat : k = Len(list) /\ DOMAIN list = 1 .. k /\ \A i \in 1 .. k : list[i] \in S
  OBVIOUS
<1>2. PICK m \in Nat : m = IF k > n THEN k - n + 1 ELSE 1
  <2>1. (IF k > n THEN k - n + 1 ELSE 1) \in Nat
    BY <1>1
  <2> QED
    BY <2>1
<1>3. PICK s : s = SubSeq(list, m, k)
  OBVIOUS
<1>4. s = LastOf(n, list)
  BY <1>1, <1>2, <1>3 DEF LastOf
<1>5. PICK size \in Nat : size = IF k > n THEN n ELSE k
  BY <1>1
<1>6. m >= 1 /\ k - m + 1 = size /\ (m <= k \/ size = 0)
  BY <1>1, <1>2, <1>5
<1>7. \A i \in m .. k : list[i] \in S
  BY <1>1, <1>6
<1>8. /\ SubSeq(list, m, k) \in Seq(S)
      /\ Len(SubSeq(list, m, k)) = IF m <= k THEN k - m + 1 ELSE 0
      /\ \A i \in 1 .. k - m + 1 : SubSeq(list, m, k)[i] = list[m + i - 1]
  <2>1. m \in Int /\ k \in Int
    BY <1>1, <1>2
  <2> QED
    BY <1>7, <2>1, SubSeqProperties, SMTT(60)
<1>9. s \in Seq(S) /\ Len(s) = size /\ \A i \in 1 .. size : s[i] = list[m + i - 1]
  BY <1>1, <1>2, <1>3, <1>5, <1>6, <1>8
<1>10. DOMAIN s = 1 .. size
  BY <1>9
<1>11. ASSUME NEW i \in 1 .. size PROVE s[i] = list[k - size + i] /\ k - size + i \in 1 .. k
  <2>1. m + i - 1 = k - size + i /\ k - size + i \in 1 .. k
    BY <1>1, <1>2, <1>5, <1>6
  <2> QED
    BY <1>9, <2>1
<1>12. Len(s) <= n /\ Len(s) = IF Len(list) > n THEN n ELSE Len(list)
  BY <1>1, <1>5, <1>9
<1>13. \A i \in DOMAIN s : \E j \in DOMAIN list : s[i] = list[j]
  BY <1>1, <1>10, <1>11
<1>14. \A i \in DOMAIN s : s[i] = list[Len(list) - Len(s) + i]
  BY <1>1, <1>9, <1>10, <1>11
<1> QED
  BY <1>4, <1>9, <1>12, <1>13, <1>14

-----------------------------------------------------------------------------
(* Rows: the order of their creation.                                      *)

Rows == [there : BOOLEAN, born : 0..(MaxRequests + 1), text : Texts, vote : Votes]

RowType == row \in [Records -> Rows]

Apart == \A r, s \in There : r # s => row[r].born # row[s].born

LEMMA RecordsAre ==
    /\ IsFiniteSet(Records) /\ Cardinality(Records) = MaxRequests + 1
    /\ \A S \in SUBSET Records :
          IsFiniteSet(S) /\ Cardinality(S) \in Nat /\ Cardinality(S) <= MaxRequests + 1
<1>1. IsFiniteSet(Records) /\ Cardinality(Records) = MaxRequests + 1
  BY Numbers, FS_Interval DEF Records
<1>2. ASSUME NEW S \in SUBSET Records
      PROVE  IsFiniteSet(S) /\ Cardinality(S) \in Nat /\ Cardinality(S) <= MaxRequests + 1
  BY <1>1, FS_Subset, FS_CardinalityType
<1> QED
  BY <1>1, <1>2

LEMMA NewestIs ==
    ASSUME RowType
    PROVE  /\ \A r \in Records : row[r].born <= Newest
           /\ \E r \in Records : row[r].born = Newest
<1> DEFINE S == {row[r].born : r \in Records}
<1>1. /\ S \in SUBSET Nat /\ S # {} /\ MaxRequests + 1 \in Nat
      /\ \A n \in S : n <= MaxRequests + 1
  BY Numbers DEF RowType, Rows, Records
<1>2. \E n \in S : \A x \in S : x <= n
  BY <1>1, GreatestExists
<1>3. \E n \in S : \A r \in Records : row[r].born <= n
  BY <1>2
<1>4. Newest \in S /\ \A r \in Records : row[r].born <= Newest
  BY <1>3 DEF Newest
<1> QED
  BY <1>4

\* Two records there do not have the same place, so every place is taken.
LEMMA InOrderIs ==
    ASSUME RowType, Apart
    PROVE  /\ InOrder \in Seq(There) /\ Len(InOrder) = Cardinality(There)
           /\ \A r \in There : Place(r) \in 1 .. Len(InOrder) /\ InOrder[Place(r)] = r
           /\ \A i \in 1 .. Len(InOrder) : InOrder[i] \in There /\ Place(InOrder[i]) = i
           /\ \A r, s \in There : row[r].born < row[s].born <=> Place(r) < Place(s)
<1> DEFINE N == Cardinality(There)
           Before(r) == {s \in There : row[s].born <= row[r].born}
<1>1. IsFiniteSet(There) /\ N \in Nat /\ There \subseteq Records
  BY RecordsAre DEF There
<1>2. ASSUME NEW r \in There
      PROVE  /\ IsFiniteSet(Before(r)) /\ Cardinality(Before(r)) = Place(r)
             /\ Place(r) \in 1 .. N /\ r \in Before(r) /\ row[r].born \in Nat
  <2>1. row[r].born \in Nat
    BY <1>1, <1>2 DEF RowType, Rows
  <2>2. r \in Before(r) /\ Before(r) \in SUBSET There
    BY <1>2, <2>1
  <2>3. IsFiniteSet(Before(r)) /\ Cardinality(Before(r)) \in Nat /\ Cardinality(Before(r)) <= N
    BY <1>1, <2>2, FS_Subset, FS_CardinalityType
  <2>4. Cardinality(Before(r)) # 0
    BY <2>2, <2>3, FS_EmptySet
  <2>5. Cardinality(Before(r)) = Place(r)
    BY DEF Place
  <2> QED
    BY <1>1, <2>1, <2>2, <2>3, <2>4, <2>5
<1>3. ASSUME NEW r \in There, NEW s \in There, row[r].born < row[s].born
      PROVE  Place(r) < Place(s)
  <2>1. row[r].born \in Nat /\ row[s].born \in Nat
    BY <1>2
  <2>2. Before(r) \in SUBSET Before(s)
    BY <1>3, <2>1, <1>1 DEF RowType, Rows
  <2>3. s \in Before(s) /\ s \notin Before(r)
    BY <1>3, <2>1
  <2>4. Before(r) # Before(s)
    BY <2>3
  <2>5. Cardinality(Before(r)) <= Cardinality(Before(s))
        /\ Cardinality(Before(r)) # Cardinality(Before(s))
    BY <1>2, <2>2, <2>4, FS_Subset
  <2>6. /\ Place(r) \in 1 .. N /\ Place(s) \in 1 .. N
        /\ Place(r) = Cardinality(Before(r)) /\ Place(s) = Cardinality(Before(s))
    BY <1>2
  <2> QED
    BY <1>1, <2>5, <2>6
<1> DEFINE f == [r \in There |-> Place(r)]
<1>4. f \in Injection(There, 1 .. N)
  <2>1. f \in [There -> 1 .. N]
    BY <1>2
  <2>2. ASSUME NEW r \in There, NEW s \in There, f[r] = f[s] PROVE r = s
    <3>1. Place(r) = Place(s)
      BY <2>2
    <3>2. row[r].born \in Nat /\ row[s].born \in Nat
      BY <1>2
    <3>3. Place(r) \in 1 .. N /\ Place(s) \in 1 .. N
      BY <1>2
    <3>4. ~(Place(r) < Place(s)) /\ ~(Place(s) < Place(r))
      BY <1>1, <3>1, <3>3
    <3>5. row[r].born = row[s].born
      BY <1>3, <3>2, <3>4
    <3> QED
      BY <3>5 DEF Apart
  <2> QED
    BY <2>1, <2>2 DEF Injection, IsInjective
<1>5. IsFiniteSet(1 .. N) /\ Cardinality(1 .. N) = N
  BY <1>1, FS_Interval
<1>6. f \in Surjection(There, 1 .. N)
  BY <1>1, <1>4, <1>5, FS_Injection
<1>7. ASSUME NEW i \in 1 .. N PROVE InOrder[i] \in There /\ Place(InOrder[i]) = i
  <2>1. \E r \in There : Place(r) = i
    BY <1>6 DEF Surjection
  <2> QED
    BY <2>1 DEF InOrder
<1>8. InOrder \in [1 .. N -> There]
  BY <1>7 DEF InOrder
<1>9. InOrder \in Seq(There) /\ Len(InOrder) = N
  BY <1>1, <1>8
<1>10. ASSUME NEW r \in There PROVE Place(r) \in 1 .. N /\ InOrder[Place(r)] = r
  <2>1. PICK i : i = Place(r)
    OBVIOUS
  <2>2. i \in 1 .. N
    BY <1>2, <2>1
  <2>3. InOrder[i] \in There /\ Place(InOrder[i]) = i
    BY <1>7, <2>2
  <2>4. f[InOrder[i]] = f[r]
    BY <2>1, <2>3
  <2> HIDE DEF f
  <2>5. InOrder[i] = r
    BY <1>4, <2>3, <2>4 DEF Injection, IsInjective
  <2> QED
    BY <2>1, <2>2, <2>5
<1>11. ASSUME NEW r \in There, NEW s \in There, Place(r) < Place(s)
       PROVE  row[r].born < row[s].born
  <2>1. /\ row[r].born \in Nat /\ row[s].born \in Nat
        /\ Place(r) \in 1 .. N /\ Place(s) \in 1 .. N
    BY <1>2
  <2>2. r # s /\ ~(Place(s) < Place(r))
    BY <1>1, <1>11, <2>1
  <2>3. row[r].born # row[s].born
    BY <2>2 DEF Apart
  <2>4. ~(row[s].born < row[r].born)
    BY <1>3, <2>2
  <2> QED
    BY <2>1, <2>3, <2>4
<1> QED
  BY <1>3, <1>7, <1>9, <1>10, <1>11

-----------------------------------------------------------------------------
(* What each step does to the turns.                                       *)

\* Only the turn of u changes.
Only(u) ==
    /\ turn' \in [Users -> Turns]
    /\ \A v \in Users \ {u} : turn'[v] = turn[v]

\* It stays on its record, for its request.
Stays(u) ==
    /\ turn'[u].id = turn[u].id /\ turn'[u].n = turn[u].n
    /\ turn'[u].how = turn[u].how /\ turn'[u].seen = turn[u].seen

LEMMA NoTurnIs ==
    /\ NoTurn \in Turns /\ NoTurn.pc = "idle" /\ NoTurn.list = <<>> /\ NoTurn.id = 1
    /\ NoTurn.n = 0 /\ NoTurn.vote = "none" /\ NoTurn.seen = 0 /\ NoTurn.how = "answer"
<1>1. 1 \in Records /\ 0 \in 0..MaxRequests
  BY Numbers DEF Records
<1>2. <<>> \in Seq(Copies)
  OBVIOUS
<1> QED
  BY <1>1, <1>2 DEF NoTurn, Turns, TurnPcs, Votes, Hows

LEMMA GoesIs ==
    ASSUME TypeOK, NEW u \in Users, NEW pc \in TurnPcs, Goes(u, pc)
    PROVE  /\ Only(u) /\ Stays(u) /\ turn'[u].pc = pc
           /\ turn'[u].list = turn[u].list /\ turn'[u].vote = turn[u].vote
<1>1. turn[u] \in Turns /\ turn \in [Users -> Turns]
  BY DEF TypeOK
<1>2. PICK t : t = [turn[u] EXCEPT !.pc = pc]
  OBVIOUS
<1>3. /\ t \in Turns /\ t.pc = pc /\ t.list = turn[u].list /\ t.vote = turn[u].vote
      /\ t.id = turn[u].id /\ t.n = turn[u].n /\ t.seen = turn[u].seen
      /\ t.how = turn[u].how
  BY <1>1, <1>2 DEF Turns
<1>4. turn' = [turn EXCEPT ![u] = t]
  BY <1>2 DEF Goes
<1> QED
  BY <1>1, <1>3, <1>4 DEF Only, Stays

LEMMA Leaves ==
    ASSUME TypeOK, NEW u \in Users, Leave(u)
    PROVE  Only(u) /\ turn'[u] = NoTurn
BY NoTurnIs DEF TypeOK, Only, Leave

LEMMA Asks ==
    ASSUME TypeOK, NEW u \in Users, NEW r \in {0} \cup Records, Ask(u, r)
    PROVE  /\ Only(u)
           /\ turn'[u].pc = IF cache.live THEN "check" ELSE "reopen"
           /\ turn'[u].list = IF cache.live THEN cache.list ELSE <<>>
           /\ turn'[u].id = IF r = 0 THEN requests + 2 ELSE r
           /\ turn'[u].id \in Records
           /\ turn'[u].n = requests + 1 /\ turn'[u].vote = "none"
           /\ turn'[u].how = "answer" /\ turn'[u].seen = 0
<1>1. PICK id : id = IF r = 0 THEN requests + 2 ELSE r
  OBVIOUS
<1>2. PICK list : list = IF cache.live THEN cache.list ELSE <<>>
  OBVIOUS
<1>3. PICK pc : pc = IF cache.live THEN "check" ELSE "reopen"
  OBVIOUS
<1>4. PICK n : n = requests + 1
  OBVIOUS
<1>5. requests \in Nat /\ requests < MaxRequests /\ cache.list \in Seq(Copies) /\ cache.live \in BOOLEAN
  BY Numbers DEF TypeOK, Ask
<1>6. id \in Records /\ n \in 0..MaxRequests
  BY <1>1, <1>4, <1>5, Numbers DEF Records
<1>7. list \in Seq(Copies)
  <2>1. <<>> \in Seq(Copies)
    OBVIOUS
  <2> QED
    BY <1>2, <1>5, <2>1
<1>8. pc \in TurnPcs
  BY <1>3 DEF TurnPcs
<1>9. PICK t : t = [NoTurn EXCEPT !.pc = pc, !.id = id, !.n = n, !.list = list]
  OBVIOUS
<1>10. /\ t \in Turns /\ t.pc = pc /\ t.id = id /\ t.n = n /\ t.list = list /\ t.vote = "none"
       /\ t.how = "answer" /\ t.seen = 0
  BY <1>6, <1>7, <1>8, <1>9, NoTurnIs DEF Turns, Hows
<1>11. turn' = [turn EXCEPT ![u] = t]
  BY <1>1, <1>2, <1>3, <1>4, <1>9 DEF Ask
<1>12. turn'[u] = t /\ Only(u)
  BY <1>10, <1>11 DEF TypeOK, Only
<1> QED
  BY <1>1, <1>2, <1>3, <1>4, <1>6, <1>10, <1>12

LEMMA CopyOfIs ==
    ASSUME RowType, NEW r \in Records
    PROVE  /\ CopyOf(r) \in Copies /\ CopyOf(r).id = r /\ CopyOf(r).str = FALSE
           /\ CopyOf(r).text = row[r].text /\ CopyOf(r).vote = row[r].vote
BY DEF RowType, Rows, CopyOf, Copies

LEMMA TypeOKRow == TypeOK => RowType
BY DEF TypeOK, RowType, Rows

LEMMA Reopens ==
    ASSUME TypeOK, Apart, NEW u \in Users, Reopen(u), ~Leave(u)
    PROVE  /\ Only(u) /\ Stays(u) /\ turn'[u].pc = "recache" /\ turn'[u].vote = turn[u].vote
           /\ Len(turn'[u].list) <= ReopenSize
           /\ \A i \in DOMAIN turn'[u].list : \E r \in There : turn'[u].list[i] = CopyOf(r)
           /\ turn'[u].list = [i \in DOMAIN LastOf(ReopenSize, InOrder) |->
                                 CopyOf(LastOf(ReopenSize, InOrder)[i])]
<1> DEFINE last == LastOf(ReopenSize, InOrder)
<1>2. PICK list : list = [i \in DOMAIN last |-> CopyOf(last[i])]
  OBVIOUS
<1>3. /\ last \in Seq(There) /\ Len(last) <= ReopenSize
  BY Numbers, InOrderIs, TypeOKRow, LastOfIs
<1>4. There \subseteq Records /\ \A r \in There : CopyOf(r) \in Copies
  BY CopyOfIs, TypeOKRow DEF There
<1> HIDE DEF last
<1>5. DOMAIN last = 1 .. Len(last) /\ Len(last) \in Nat /\ \A i \in DOMAIN last : last[i] \in There
  BY <1>3
<1>6. list \in Seq(Copies) /\ Len(list) = Len(last) /\ DOMAIN list = DOMAIN last
  BY <1>2, <1>4, <1>5
<1>7. \A i \in DOMAIN list : list[i] = CopyOf(last[i]) /\ last[i] \in There
  BY <1>2, <1>5, <1>6
<1>8. turn[u] \in Turns /\ turn \in [Users -> Turns]
  BY DEF TypeOK
<1>9. PICK t : t = [turn[u] EXCEPT !.pc = "recache", !.list = list]
  OBVIOUS
<1>10. /\ t \in Turns /\ t.pc = "recache" /\ t.list = list /\ t.vote = turn[u].vote
       /\ t.id = turn[u].id /\ t.n = turn[u].n /\ t.seen = turn[u].seen
       /\ t.how = turn[u].how
  BY <1>6, <1>8, <1>9 DEF Turns, TurnPcs
<1>11. turn' = [turn EXCEPT ![u].pc = "recache", ![u].list = list]
  BY <1>2 DEF Reopen, last
<1>12. turn' = [turn EXCEPT ![u] = t]
  BY <1>8, <1>9, <1>11
<1>13. turn'[u] = t /\ Only(u)
  BY <1>8, <1>10, <1>12 DEF Only
<1>14. list = [i \in DOMAIN LastOf(ReopenSize, InOrder) |-> CopyOf(LastOf(ReopenSize, InOrder)[i])]
  BY <1>2 DEF last
<1> QED
  BY <1>3, <1>6, <1>7, <1>10, <1>13, <1>14 DEF Stays

LEMMA Checks ==
    ASSUME TypeOK, NEW u \in Users, Check(u), ~Leave(u)
    PROVE  /\ Only(u) /\ Stays(u) /\ turn'[u].pc = "run" /\ turn'[u].list = turn[u].list
           /\ ~(kind = "workflow" /\ GoesOn(u)) => turn'[u].vote = "none"
           /\ kind = "workflow" /\ GoesOn(u) /\ In(turn[u].id, turn[u].list) =>
                \E i \in DOMAIN turn[u].list : /\ turn[u].list[i].id = turn[u].id
                                               /\ turn'[u].vote = turn[u].list[i].vote
           /\ kind = "workflow" /\ GoesOn(u) /\ ~In(turn[u].id, turn[u].list)
                /\ row[turn[u].id].there => turn'[u].vote = row[turn[u].id].vote
<1>1. /\ turn[u] \in Turns /\ turn \in [Users -> Turns] /\ turn[u].id \in Records
      /\ turn[u].list \in Seq(Copies) /\ row[turn[u].id].vote \in Votes
  BY TypeOKRow DEF TypeOK, Turns, RowType, Rows
<1> DEFINE found == kind = "workflow" /\ GoesOn(u)
           value == IF ~found THEN "none"
                    ELSE IF In(turn[u].id, turn[u].list) THEN Found(turn[u].id, turn[u].list).vote
                    ELSE IF row[turn[u].id].there THEN row[turn[u].id].vote ELSE "none"
<1>2. turn' = [turn EXCEPT ![u].pc = "run", ![u].vote = value]
  BY DEF Check
<1>3. PICK vote : vote = value
  OBVIOUS
<1>4. In(turn[u].id, turn[u].list) =>
         \E i \in DOMAIN turn[u].list : /\ turn[u].list[i].id = turn[u].id
                                        /\ Found(turn[u].id, turn[u].list).vote = turn[u].list[i].vote
  BY <1>1, FoundIs
<1>5. \A i \in DOMAIN turn[u].list : turn[u].list[i].vote \in Votes
  <2>1. \A i \in DOMAIN turn[u].list : turn[u].list[i] \in Copies
    BY <1>1
  <2> QED
    BY <2>1 DEF Copies
<1>6. /\ ~found => vote = "none"
      /\ found /\ In(turn[u].id, turn[u].list) =>
           \E i \in DOMAIN turn[u].list : /\ turn[u].list[i].id = turn[u].id
                                          /\ vote = turn[u].list[i].vote
      /\ found /\ ~In(turn[u].id, turn[u].list) /\ row[turn[u].id].there =>
           vote = row[turn[u].id].vote
      /\ vote \in Votes
  BY <1>1, <1>3, <1>4, <1>5 DEF Votes
<1>7. turn' = [turn EXCEPT ![u].pc = "run", ![u].vote = vote]
  BY <1>2, <1>3
<1> HIDE DEF value
<1>8. PICK t : t = [turn[u] EXCEPT !.pc = "run", !.vote = vote]
  OBVIOUS
<1>9. /\ t \in Turns /\ t.pc = "run" /\ t.list = turn[u].list /\ t.vote = vote
      /\ t.id = turn[u].id /\ t.n = turn[u].n /\ t.seen = turn[u].seen
      /\ t.how = turn[u].how
  BY <1>1, <1>6, <1>8 DEF Turns, TurnPcs
<1>10. turn' = [turn EXCEPT ![u] = t]
  BY <1>1, <1>7, <1>8
<1>11. turn'[u] = t /\ Only(u)
  BY <1>1, <1>9, <1>10 DEF Only
<1> QED
  BY <1>6, <1>9, <1>11 DEF Stays

LEMMA AnswerIs ==
    ASSUME TypeOK, NEW u \in Users, NEW how \in Hows
    PROVE  /\ Answer(u, how) \in Copies /\ Answer(u, how).id = turn[u].id
           /\ Answer(u, how).text = Text(u, how) /\ Answer(u, how).vote = turn[u].vote
           /\ Answer(u, how).str = (kind = "simple" /\ (GoesOn(u) \/ how = "raised"))
           /\ Text(u, how) \in Texts /\ Text(u, how).turn = turn[u].n
           /\ Text(u, how).how = how
<1>1. turn[u] \in Turns
  BY DEF TypeOK
<1>2. turn[u].n \in 0..MaxRequests /\ turn[u].id \in Records /\ turn[u].vote \in Votes
  BY <1>1 DEF Turns
<1>3. Text(u, how) \in Texts /\ Text(u, how).turn = turn[u].n /\ Text(u, how).how = how
  BY <1>2 DEF Text, Texts
<1> QED
  BY <1>2, <1>3 DEF Answer, Copies

\* The list has the answer of the turn.
Holds(u) == Has(Answer(u, turn[u].how), turn[u].list)

\* The turn has put an answer into its list.
Answers(u, how) ==
    /\ turn'[u].pc = "chat" /\ turn'[u].vote = turn[u].vote
    /\ turn'[u].id = turn[u].id /\ turn'[u].n = turn[u].n /\ turn'[u].seen = turn[u].seen
    /\ turn'[u].how = how
    /\ turn'[u].list = Put(Answer(u, how), turn[u].list)
    /\ Has(Answer(u, how), turn'[u].list)
    /\ Len(turn'[u].list) <= Len(turn[u].list) + 1
    /\ Has(Answer(u, how), turn[u].list) => Len(turn'[u].list) = Len(turn[u].list)
    /\ \A i \in DOMAIN turn'[u].list :
          turn'[u].list[i] = Answer(u, how) \/ \E j \in DOMAIN turn[u].list :
                                                 turn'[u].list[i] = turn[u].list[j]

LEMMA Appended ==
    ASSUME TypeOK, NEW u \in Users, NEW how \in Hows, Appends(u, how)
    PROVE  Only(u) /\ Answers(u, how)
<1>1. turn[u] \in Turns /\ turn \in [Users -> Turns] /\ turn[u].list \in Seq(Copies)
  BY DEF TypeOK, Turns
<1>2. PICK copy : copy = Answer(u, how)
  OBVIOUS
<1>3. copy \in Copies
  BY <1>2, AnswerIs
<1>4. PICK list : list = Put(copy, turn[u].list)
  OBVIOUS
<1>5. /\ list \in Seq(Copies) /\ Has(copy, list)
      /\ Len(list) <= Len(turn[u].list) + 1
      /\ Has(copy, turn[u].list) => Len(list) = Len(turn[u].list)
      /\ \A i \in DOMAIN list :
            list[i] = copy \/ \E j \in DOMAIN turn[u].list : list[i] = turn[u].list[j]
  BY <1>1, <1>3, <1>4, PutIs
<1>6. turn' = [turn EXCEPT ![u].pc = "chat", ![u].how = how, ![u].list = list]
  BY <1>1, <1>2, <1>4 DEF Appends, Turns
<1>7. PICK t : t = [turn[u] EXCEPT !.pc = "chat", !.how = how, !.list = list]
  OBVIOUS
<1>8. /\ t \in Turns /\ t.pc = "chat" /\ t.list = list /\ t.vote = turn[u].vote
      /\ t.id = turn[u].id /\ t.n = turn[u].n /\ t.seen = turn[u].seen
      /\ t.how = how
  BY <1>1, <1>5, <1>7 DEF Turns, TurnPcs
<1>9. turn' = [turn EXCEPT ![u] = t]
  BY <1>1, <1>6, <1>7
<1>10. turn'[u] = t /\ Only(u)
  BY <1>1, <1>8, <1>9 DEF Only
<1>11. Answers(u, how)
  BY <1>2, <1>4, <1>5, <1>8, <1>10 DEF Answers
<1> QED
  BY <1>10, <1>11

\* A step that leaves record, request and list alone leaves the answer in it.
LEMMA HoldsKept ==
    ASSUME NEW u \in Users, Holds(u), kind' = kind, turn'[u].list = turn[u].list,
           turn'[u].id = turn[u].id, turn'[u].n = turn[u].n, turn'[u].how = turn[u].how
    PROVE  Holds(u)'
<1>1. PICK i \in DOMAIN turn[u].list : Same(turn[u].list[i], Answer(u, turn[u].how))
  BY DEF Holds, Has
<1>2. i \in DOMAIN turn'[u].list /\ turn'[u].list[i] = turn[u].list[i]
  BY <1>1
<1>3. Answer(u, turn[u].how)'.id = Answer(u, turn[u].how).id
  BY DEF Answer
<1>4. Answer(u, turn[u].how)'.str = Answer(u, turn[u].how).str
  BY DEF Answer, GoesOn
<1>5. Same(turn[u].list[i], Answer(u, turn[u].how))'
  BY <1>1, <1>2, <1>3, <1>4 DEF Same
<1> QED
  BY <1>2, <1>5 DEF Holds, Has

LEMMA CountReads ==
    ASSUME TypeOK, NEW u \in Users, CountRead(u)
    PROVE  /\ Only(u) /\ turn'[u].pc = "counted" /\ turn'[u].seen = count
           /\ turn'[u].id = turn[u].id /\ turn'[u].n = turn[u].n
           /\ turn'[u].how = turn[u].how
           /\ turn'[u].list = turn[u].list /\ turn'[u].vote = turn[u].vote
<1>1. turn[u] \in Turns /\ turn \in [Users -> Turns] /\ count \in Nat
  BY DEF TypeOK
<1>2. PICK t : t = [turn[u] EXCEPT !.pc = "counted", !.seen = count]
  OBVIOUS
<1>3. /\ t \in Turns /\ t.pc = "counted" /\ t.list = turn[u].list /\ t.vote = turn[u].vote
      /\ t.id = turn[u].id /\ t.n = turn[u].n /\ t.seen = count
      /\ t.how = turn[u].how
  BY <1>1, <1>2 DEF Turns, TurnPcs
<1>4. turn' = [turn EXCEPT ![u] = t]
  BY <1>1, <1>2 DEF CountRead
<1> QED
  BY <1>1, <1>3, <1>4 DEF Only

-----------------------------------------------------------------------------
(* What each step does to the rows and the votes.                          *)

VoterRecs == [pc : {"idle", "save", "commit"}, copy : Copies]

OnlyRow(r) ==
    /\ row' \in [Records -> Rows]
    /\ \A s \in Records \ {r} : row'[s] = row[s]

OnlyVoter(v) ==
    /\ voter' \in [Voters -> VoterRecs]
    /\ \A w \in Voters \ {v} : voter'[w] = voter[w]

LEMMA NoVoterIs ==
    /\ NoVoter \in VoterRecs /\ NoVoter.pc = "idle" /\ NoVoter.copy.id = 1
    /\ NoText \in Texts /\ NoRow \in Rows /\ NoRow.there = FALSE /\ NoRow.born = 0
    /\ NoRow.text = NoText /\ NoRow.vote = "none"
    /\ First \in Texts /\ First # NoText
<1>1. 1 \in Records /\ 0 \in 0..MaxRequests /\ 0 \in 0..(MaxRequests + 1) /\ "none" \in Votes
  BY Numbers DEF Records, Votes
<1>2. NoText \in Texts /\ First \in Texts /\ NoText.how = "exception" /\ First.how = "answer"
  BY <1>1 DEF NoText, First, Texts, Hows
<1>3. PICK text : text = NoText
  OBVIOUS
<1>4. /\ [id |-> 1, str |-> FALSE, text |-> text, vote |-> "none"] \in Copies
      /\ [there |-> FALSE, born |-> 0, text |-> text, vote |-> "none"] \in Rows
  BY <1>1, <1>2, <1>3 DEF Copies, Rows
<1>5. PICK copy : copy = [id |-> 1, str |-> FALSE, text |-> text, vote |-> "none"]
  OBVIOUS
<1>6. copy \in Copies /\ copy.id = 1
  BY <1>4, <1>5
<1>7. NoVoter = [pc |-> "idle", copy |-> copy]
  BY <1>3, <1>5 DEF NoVoter
<1>8. NoVoter \in VoterRecs /\ NoVoter.pc = "idle" /\ NoVoter.copy.id = 1
  BY <1>6, <1>7 DEF VoterRecs
<1>9. NoRow = [there |-> FALSE, born |-> 0, text |-> text, vote |-> "none"]
  BY <1>3 DEF NoRow
<1>10. /\ NoRow \in Rows /\ NoRow.there = FALSE /\ NoRow.born = 0
       /\ NoRow.text = NoText /\ NoRow.vote = "none"
  BY <1>3, <1>4, <1>9
<1>11. First # NoText
  BY <1>2
<1> QED
  BY <1>2, <1>8, <1>10, <1>11

LEMMA TypeOKVoter ==
    ASSUME TypeOK, NEW v \in Voters
    PROVE  /\ voter[v] \in VoterRecs /\ voter[v].copy \in Copies
           /\ voter[v].copy.id \in Records /\ voter[v].copy.text \in Texts
           /\ voter[v].copy.vote \in Votes /\ voter[v].pc \in {"idle", "save", "commit"}
<1>1. voter[v] \in VoterRecs
  BY DEF TypeOK, VoterRecs
<1>2. voter[v].copy \in Copies /\ voter[v].pc \in {"idle", "save", "commit"}
  BY <1>1 DEF VoterRecs
<1> QED
  BY <1>1, <1>2 DEF Copies

LEMMA VotesBegin ==
    ASSUME TypeOK, NEW v \in Voters, NEW r \in Records, NEW b \in Votes, Vote(v, r, b)
    PROVE  /\ OnlyVoter(v) /\ voter'[v].pc = "save" /\ voter'[v].copy.id = r
           /\ voter'[v].copy.text = row[r].text /\ voter'[v].copy.vote = b
<1>1. PICK old : old = CopyOf(r)
  OBVIOUS
<1>2. old \in Copies /\ old.id = r /\ old.text = row[r].text
  BY <1>1, CopyOfIs, TypeOKRow
<1>3. PICK copy : copy = [old EXCEPT !.vote = b]
  OBVIOUS
<1>4. copy \in Copies /\ copy.id = r /\ copy.text = row[r].text /\ copy.vote = b
  BY <1>2, <1>3 DEF Copies
<1>5. PICK t : t = [pc |-> "save", copy |-> copy]
  OBVIOUS
<1>6. t \in VoterRecs /\ t.pc = "save" /\ t.copy = copy
  BY <1>4, <1>5 DEF VoterRecs
<1>7. voter' = [voter EXCEPT ![v] = t]
  BY <1>1, <1>3, <1>5 DEF Vote
<1>8. voter'[v] = t /\ OnlyVoter(v)
  BY <1>6, <1>7 DEF TypeOK, OnlyVoter, VoterRecs
<1> QED
  BY <1>4, <1>6, <1>8

LEMMA VoteSaves ==
    ASSUME TypeOK, NEW v \in Voters, VoteSave(v)
    PROVE  OnlyVoter(v) /\ voter'[v].pc = "commit" /\ voter'[v].copy = voter[v].copy
<1>1. voter[v] \in VoterRecs /\ voter \in [Voters -> VoterRecs]
  BY DEF TypeOK, VoterRecs
<1>2. PICK t : t = [voter[v] EXCEPT !.pc = "commit"]
  OBVIOUS
<1>3. t \in VoterRecs /\ t.pc = "commit" /\ t.copy = voter[v].copy
  BY <1>1, <1>2 DEF VoterRecs
<1>4. voter' = [voter EXCEPT ![v] = t]
  BY <1>2 DEF VoteSave
<1> QED
  BY <1>1, <1>3, <1>4 DEF OnlyVoter

LEMMA Cleans ==
    ASSUME TypeOK, Clean
    PROVE  /\ 1 \in Records /\ OnlyRow(1) /\ ~row'[1].there /\ row'[1].born = row[1].born
           /\ row[1].born = 0 /\ row'[1].text = row[1].text /\ row'[1].vote = "none"
<1>1. 1 \in Records
  BY Numbers DEF Records
<1>2. row[1] \in Rows /\ row \in [Records -> Rows] /\ row[1].born = 0
  BY <1>1, TypeOKRow DEF RowType, Clean
<1>3. PICK w : w = [row[1] EXCEPT !.there = FALSE, !.vote = "none"]
  OBVIOUS
<1>4. w \in Rows /\ ~w.there /\ w.born = row[1].born /\ w.text = row[1].text /\ w.vote = "none"
  BY <1>2, <1>3 DEF Rows, Votes
<1>5. row' = [row EXCEPT ![1].there = FALSE, ![1].vote = "none"]
  BY DEF Clean
<1>6. row' = [row EXCEPT ![1] = w]
  BY <1>1, <1>2, <1>3, <1>5
<1>7. row'[1] = w /\ OnlyRow(1)
  BY <1>1, <1>2, <1>4, <1>6 DEF OnlyRow
<1> QED
  BY <1>1, <1>2, <1>4, <1>7

-----------------------------------------------------------------------------
(* The inductive invariant of the types: as many places have been taken in *)
(* the order of the records as records have been saved, so the next one is *)
(* free; a row is brought back only for the first record; and a list is    *)
(* one longer than the cache only if it has the record of the turn.        *)

Bred == {r \in Records : row[r].born > 0}

Births ==
    /\ \A r \in Records : row[r].born <= Cardinality(Bred) /\ (~row[r].there => row[r].born = 0)
    /\ Apart
    /\ \A v \in Voters : voter[v].pc # "idle" =>
          voter[v].copy.id = 1 \/ row[voter[v].copy.id].there
    /\ \A r \in Records : r # 1 /\ row[r].there => row[r].born > 0

Fits(u) ==
    IF turn[u].pc \in {"idle", "reopen", "recache", "check", "run"}
    THEN Len(turn[u].list) <= CacheSize
    ELSE Holds(u)

Lengths == \A u \in Users : Fits(u)

IInv == TypeOK /\ Births /\ Lengths

LEMMA BredIs ==
    ASSUME RowType
    PROVE  /\ Bred \in SUBSET Records /\ IsFiniteSet(Bred) /\ Cardinality(Bred) \in Nat
           /\ Cardinality(Bred) <= MaxRequests + 1
BY RecordsAre DEF Bred

LEMMA NewestFits ==
    ASSUME RowType, Births
    PROVE  Newest \in Nat /\ Newest <= Cardinality(Bred)
<1>1. PICK r \in Records : row[r].born = Newest
  BY NewestIs
<1>2. row[r].born \in Nat /\ row[r].born <= Cardinality(Bred)
  BY <1>1, Numbers DEF RowType, Rows, Births
<1> QED
  BY <1>1, <1>2

\* Votes in progress are on the first record or on rows that are there.
VotesOnRows ==
    \A v \in Voters : voter[v].pc # "idle" => voter[v].copy.id = 1 \/ row[voter[v].copy.id].there

\* A row that was there, or was the first, changes and does not move.
LEMMA BirthsKept ==
    ASSUME TypeOK, Births, VotesOnRows', NEW r \in Records, OnlyRow(r),
           row'[r].born = row[r].born, row'[r].there => (row[r].there \/ r = 1),
           ~row'[r].there => row[r].born = 0
    PROVE  Births'
<1>1. RowType /\ RowType' /\ row[r] \in Rows /\ row[r].there \in BOOLEAN
  BY TypeOKRow DEF OnlyRow, RowType, Rows
<1>2. \A s \in Records : row'[s].born = row[s].born /\ row[s].born \in Nat
  BY <1>1, Numbers DEF OnlyRow, RowType, Rows
<1>3. Bred' = Bred
  BY <1>2 DEF Bred
<1>4. \A s \in Records : row'[s].born <= Cardinality(Bred)' /\ (~row'[s].there => row'[s].born = 0)
  BY <1>2, <1>3 DEF Births, OnlyRow
<1>5. \A s \in Records : s # 1 /\ row'[s].there => row'[s].born > 0
  BY <1>2 DEF Births, OnlyRow
<1>6. Apart'
  <2> SUFFICES ASSUME NEW s \in There', NEW t \in There', s # t PROVE row'[s].born # row'[t].born
    BY DEF Apart
  <2>1. s \in Records /\ t \in Records /\ row'[s].there /\ row'[t].there
    BY DEF There
  <2>2. CASE row[s].there /\ row[t].there
    BY <1>2, <2>1, <2>2 DEF Births, Apart, There
  <2>3. CASE ~row[s].there
    <3>1. s = r /\ r = 1 /\ row[s].born = 0 /\ t # 1 /\ row[t].there
      BY <2>1, <2>3 DEF OnlyRow, Births
    <3>2. row[t].born > 0
      BY <2>1, <3>1 DEF Births
    <3>3. row'[s].born = 0 /\ row'[t].born > 0
      BY <1>2, <2>1, <3>1, <3>2
    <3> QED
      BY <3>3
  <2>4. CASE ~row[t].there
    <3>1. t = r /\ r = 1 /\ row[t].born = 0 /\ s # 1 /\ row[s].there
      BY <2>1, <2>4 DEF OnlyRow, Births
    <3>2. row[s].born > 0
      BY <2>1, <3>1 DEF Births
    <3> QED
      BY <1>2, <2>1, <3>1, <3>2
  <2> QED
    BY <2>2, <2>3, <2>4
<1> QED
  BY <1>4, <1>5, <1>6 DEF Births, VotesOnRows

\* A row gets the next place.
LEMMA BirthsGrow ==
    ASSUME TypeOK, Births, VotesOnRows', NEW r \in Records,
           row' \in [Records -> [there : BOOLEAN, born : Nat, text : Texts, vote : Votes]],
           \A s \in Records \ {r} : row'[s] = row[s],
           ~row[r].there, row'[r].there, row'[r].born = Newest + 1
    PROVE  Births' /\ Newest + 1 <= MaxRequests + 1
<1>1. RowType /\ Newest \in Nat /\ Newest <= Cardinality(Bred) /\ IsFiniteSet(Bred)
  BY TypeOKRow, NewestFits, BredIs
<1>2. Cardinality(Bred) \in Nat /\ Bred \in SUBSET Records
  BY BredIs, <1>1
<1>3. \A s \in Records : row[s].born <= Newest /\ row[s].born \in Nat
  BY <1>1, NewestIs, Numbers DEF RowType, Rows
<1>4. r \notin Bred
  <2>1. row[r].born = 0
    BY DEF Births
  <2> QED
    BY <2>1 DEF Bred
<1>5. Bred' = Bred \cup {r}
  BY <1>1 DEF Bred
<1>6. Cardinality(Bred \cup {r}) = Cardinality(Bred) + 1
  BY <1>1, <1>4, FS_AddElement
<1>7. Cardinality(Bred)' = Cardinality(Bred) + 1
  BY <1>5, <1>6
<1>8. Bred \cup {r} \in SUBSET Records
  BY <1>2
<1>9. Cardinality(Bred) + 1 <= MaxRequests + 1
  BY <1>6, <1>8, RecordsAre
<1>10. Newest + 1 <= MaxRequests + 1
  BY <1>1, <1>2, <1>9, Numbers
<1>11. \A s \in Records : /\ row'[s].born <= Cardinality(Bred)'
                          /\ (~row'[s].there => row'[s].born = 0)
  BY <1>1, <1>2, <1>3, <1>7 DEF Births
<1>12. \A s \in Records : s # 1 /\ row'[s].there => row'[s].born > 0
  BY <1>1 DEF Births
<1>13. Apart'
  <2> SUFFICES ASSUME NEW s \in There', NEW t \in There', s # t PROVE row'[s].born # row'[t].born
    BY DEF Apart
  <2>1. s \in Records /\ t \in Records /\ row'[s].there /\ row'[t].there
    BY DEF There
  <2>2. CASE s # r /\ t # r
    BY <2>1, <2>2 DEF Births, Apart, There
  <2>3. CASE s = r \/ t = r
    BY <1>1, <1>3, <2>1, <2>3
  <2> QED
    BY <2>2, <2>3
<1> QED
  BY <1>10, <1>11, <1>12, <1>13 DEF Births, VotesOnRows

LEMMA BirthsVoted ==
    ASSUME Births, row' = row, VotesOnRows'
    PROVE  Births'
BY DEF Births, VotesOnRows, Apart, There, Bred

\* A vote that is committed, or has no chat to insert its record in.
LEMMA VoteCommits ==
    ASSUME IInv, NEW v \in Voters, VoteCommit(v)
    PROVE  /\ OnlyVoter(v) /\ voter'[v] = NoVoter /\ Births'
           /\ \/ UNCHANGED <<row, voted, outvoted, moved>>
              \/ LET r == voter[v].copy.id IN
                 /\ r \in Records /\ OnlyRow(r) /\ row'[r].there
                 /\ row[r].there => row'[r].born = row[r].born
                 /\ row'[r].text = voter[v].copy.text /\ row'[r].vote = voter[v].copy.vote
                 /\ voted' = [voted EXCEPT ![r] = voter[v].copy.vote]
                 /\ outvoted' = IF Remembered(r) THEN outvoted \cup {r} ELSE outvoted
                 /\ moved' = (moved \/ ~row[r].there)
<1>1. TypeOK /\ Births /\ RowType
  BY TypeOKRow DEF IInv
<1>2. PICK c : c = voter[v].copy
  OBVIOUS
<1>3. PICK r : r = c.id
  OBVIOUS
<1>4. r \in Records /\ c.text \in Texts /\ c.vote \in Votes /\ voter[v].pc = "commit"
  BY <1>1, <1>2, <1>3, TypeOKVoter DEF VoteCommit
<1>5. row[r] \in Rows /\ row \in [Records -> Rows] /\ row[r].there \in BOOLEAN
      /\ row[r].born \in 0..(MaxRequests + 1) /\ Newest \in Nat
  BY <1>1, <1>4, NewestFits DEF RowType, Rows
<1>6. voter' = [voter EXCEPT ![v] = NoVoter]
  BY DEF VoteCommit
<1>7. OnlyVoter(v) /\ voter'[v] = NoVoter
  BY <1>1, <1>6, NoVoterIs DEF TypeOK, OnlyVoter, VoterRecs
<1>8. \A w \in Voters : /\ voter[w].copy.id \in Records
                        /\ voter'[w].pc # "idle" => voter'[w] = voter[w] /\ voter[w].pc # "idle"
  BY <1>1, <1>7, TypeOKVoter, NoVoterIs DEF OnlyVoter
<1>9. ASSUME row' = row \/ \A s \in Records : row[s].there => row'[s].there
      PROVE  VotesOnRows'
  <2> SUFFICES ASSUME NEW w \in Voters, voter'[w].pc # "idle"
               PROVE  voter'[w].copy.id = 1 \/ row'[voter'[w].copy.id].there
    BY DEF VotesOnRows
  <2>1. voter'[w] = voter[w] /\ voter[w].pc # "idle" /\ voter[w].copy.id \in Records
    BY <1>8
  <2>2. voter[w].copy.id = 1 \/ row[voter[w].copy.id].there
    BY <1>1, <2>1 DEF Births
  <2> QED
    BY <1>9, <2>1, <2>2
<1>10. ASSUME UNCHANGED <<row, voted, outvoted, moved>> PROVE Births'
  BY <1>1, <1>9, <1>10, BirthsVoted
<1>11. ASSUME ~UNCHANGED <<row, voted, outvoted, moved>>
       PROVE  /\ Births' /\ OnlyRow(r) /\ row'[r].there
              /\ row[r].there => row'[r].born = row[r].born
              /\ row'[r].text = c.text /\ row'[r].vote = c.vote
              /\ voted' = [voted EXCEPT ![r] = c.vote]
              /\ outvoted' = IF Remembered(r) THEN outvoted \cup {r} ELSE outvoted
              /\ moved' = (moved \/ ~row[r].there)
  <2>1. PICK born : born = IF row[r].there THEN row[r].born ELSE Newest + 1
    OBVIOUS
  <2>2. PICK w : w = [there |-> TRUE, born |-> born, text |-> c.text, vote |-> c.vote]
    OBVIOUS
  <2>3. /\ row' = [row EXCEPT ![r] = w]
        /\ voted' = [voted EXCEPT ![r] = c.vote]
        /\ outvoted' = IF Remembered(r) THEN outvoted \cup {r} ELSE outvoted
        /\ moved' = (moved \/ ~row[r].there)
    BY <1>2, <1>3, <1>4, <1>5, <1>11, <2>1, <2>2 DEF VoteCommit
  <2>4. born \in Nat
    BY <1>5, <2>1, Numbers
  <2>5. /\ row'[r] = w /\ w.there /\ w.born = born /\ w.text = c.text /\ w.vote = c.vote
        /\ w \in [there : BOOLEAN, born : Nat, text : Texts, vote : Votes]
        /\ \A s \in Records \ {r} : row'[s] = row[s]
    BY <1>4, <1>5, <2>2, <2>3, <2>4
  <2>6. row \in [Records -> [there : BOOLEAN, born : Nat, text : Texts, vote : Votes]]
    BY <1>1, Numbers DEF RowType, Rows
  <2>7. row' \in [Records -> [there : BOOLEAN, born : Nat, text : Texts, vote : Votes]]
    BY <2>3, <2>5, <2>6
  <2>8. VotesOnRows'
    BY <1>4, <1>9, <2>5
  <2>9. CASE row[r].there
    <3>1. w \in Rows
      BY <1>4, <1>5, <2>1, <2>2, <2>9 DEF Rows
    <3>2. OnlyRow(r)
      BY <1>5, <2>3, <2>5, <3>1 DEF OnlyRow
    <3>3. Births'
      BY <1>1, <1>4, <2>1, <2>5, <2>8, <2>9, <3>2, BirthsKept
    <3> QED
      BY <2>1, <2>3, <2>5, <3>2, <3>3
  <2>10. CASE ~row[r].there
    <3>1. Births' /\ Newest + 1 <= MaxRequests + 1
      BY <1>1, <1>4, <2>1, <2>5, <2>7, <2>8, <2>10, BirthsGrow
    <3>2. born \in 0..(MaxRequests + 1)
      BY <1>5, <2>1, <2>10, <3>1, Numbers
    <3>3. w \in Rows
      BY <1>4, <2>2, <3>2 DEF Rows
    <3>4. OnlyRow(r)
      BY <1>5, <2>3, <2>5, <3>3 DEF OnlyRow
    <3> QED
      BY <2>3, <2>5, <2>10, <3>1, <3>4
  <2> QED
    BY <2>9, <2>10
<1> QED
  BY <1>2, <1>3, <1>4, <1>7, <1>10, <1>11

\* The row of a turn's record as SaveRecord leaves it.
LEMMA Saves ==
    ASSUME IInv, NEW u \in Users, SaveRecord(u)
    PROVE  LET r == turn[u].id IN
           /\ r \in Records /\ OnlyRow(r) /\ Births'
           /\ row'[r].there /\ row'[r].text = Text(u, turn[u].how)
           /\ row'[r].vote = turn[u].vote
           /\ row'[r].born = IF row[r].there THEN row[r].born ELSE Newest + 1
           /\ kind' = kind /\ Only(u) /\ Stays(u) /\ turn'[u].pc = "cache"
           /\ turn'[u].list = turn[u].list /\ turn'[u].vote = turn[u].vote
<1>1. TypeOK /\ Births /\ "cache" \in TurnPcs /\ Goes(u, "cache") /\ kind' = kind
  BY DEF IInv, TurnPcs, SaveRecord
<1>2. turn[u] \in Turns /\ RowType
  BY <1>1, TypeOKRow DEF TypeOK
<1>3. PICK r : r = turn[u].id
  OBVIOUS
<1>4. PICK text : text = Text(u, turn[u].how)
  OBVIOUS
<1>5. PICK vote : vote = turn[u].vote
  OBVIOUS
<1>6. r \in Records /\ vote \in Votes /\ text \in Texts
  BY <1>1, <1>2, <1>3, <1>4, <1>5, AnswerIs DEF Turns
<1>7. row[r] \in Rows /\ row \in [Records -> Rows] /\ row[r].there \in BOOLEAN
      /\ row[r].born \in 0..(MaxRequests + 1) /\ Newest \in Nat
  BY <1>1, <1>2, <1>6, NewestFits DEF RowType, Rows
<1>8. PICK born : born = IF row[r].there THEN row[r].born ELSE Newest + 1
  OBVIOUS
<1>9. PICK w : w = [there |-> TRUE, born |-> born, text |-> text, vote |-> vote]
  OBVIOUS
<1>10. row' = [row EXCEPT ![r] = w]
  BY <1>3, <1>4, <1>5, <1>6, <1>7, <1>8, <1>9 DEF SaveRecord
<1>11. born \in Nat
  BY <1>7, <1>8, Numbers
<1>12. /\ row'[r] = w /\ w.there /\ w.born = born /\ w.text = text /\ w.vote = vote
       /\ w \in [there : BOOLEAN, born : Nat, text : Texts, vote : Votes]
       /\ \A s \in Records \ {r} : row'[s] = row[s]
  BY <1>6, <1>7, <1>9, <1>10, <1>11
<1>13. row \in [Records -> [there : BOOLEAN, born : Nat, text : Texts, vote : Votes]]
  BY <1>2, Numbers DEF RowType, Rows
<1>14. row' \in [Records -> [there : BOOLEAN, born : Nat, text : Texts, vote : Votes]]
  BY <1>10, <1>12, <1>13
<1>15. VotesOnRows'
  <2>1. voter' = voter
    BY DEF SaveRecord
  <2>2. \A v \in Voters : voter[v].copy.id \in Records
    BY <1>1, TypeOKVoter
  <2> QED
    BY <1>1, <1>12, <2>1, <2>2 DEF VotesOnRows, Births
<1>16. Births' /\ OnlyRow(r)
  <2>1. CASE row[r].there
    <3>1. w \in Rows
      BY <1>6, <1>7, <1>8, <1>9, <2>1 DEF Rows
    <3>2. OnlyRow(r)
      BY <1>7, <1>10, <1>12, <3>1 DEF OnlyRow
    <3> QED
      BY <1>1, <1>6, <1>8, <1>12, <1>15, <2>1, <3>2, BirthsKept
  <2>2. CASE ~row[r].there
    <3>1. Births' /\ Newest + 1 <= MaxRequests + 1
      BY <1>1, <1>6, <1>8, <1>12, <1>14, <1>15, <2>2, BirthsGrow
    <3>2. born \in 0..(MaxRequests + 1)
      BY <1>7, <1>8, <2>2, <3>1, Numbers
    <3>3. w \in Rows
      BY <1>6, <1>9, <3>2 DEF Rows
    <3> QED
      BY <1>7, <1>10, <1>12, <3>1, <3>3 DEF OnlyRow
  <2> QED
    BY <2>1, <2>2
<1>17. /\ Only(u) /\ Stays(u) /\ turn'[u].pc = "cache"
       /\ turn'[u].list = turn[u].list /\ turn'[u].vote = turn[u].vote
  BY <1>1, GoesIs
<1> QED
  BY <1>1, <1>3, <1>4, <1>5, <1>6, <1>8, <1>12, <1>16, <1>17

LEMMA BirthsSame ==
    ASSUME Births, UNCHANGED <<row, voter>>
    PROVE  Births'
<1>1. VotesOnRows'
  BY DEF Births, VotesOnRows
<1> QED
  BY <1>1, BirthsVoted

ATurn(u) ==
    TurnStep(u) \/ Fail(u) \/ Raise(u) \/ Disconnect(u) \/ \E r \in {0} \cup Records : Ask(u, r)

\* The turn's own list stays short enough.
LEMMA FitsKept ==
    ASSUME IInv, NEW u \in Users, ATurn(u)
    PROVE  Only(u) /\ Len(turn'[u].list) <= CacheSize + 1 /\ Fits(u)'
<1>1. /\ TypeOK /\ Births /\ Apart /\ RowType /\ Fits(u)
      /\ Len(turn[u].list) <= CacheSize + 1 /\ Len(cache.list) <= CacheSize
      /\ turn[u].list \in Seq(Copies) /\ cache.list \in Seq(Copies) /\ cache.live \in BOOLEAN
  BY TypeOKRow DEF IInv, Births, Lengths, TypeOK, Turns
<1>2. Len(turn[u].list) \in Nat /\ Len(cache.list) \in Nat
  BY <1>1
<1> DEFINE Early == {"idle", "reopen", "recache", "check", "run"}
<1>3. ASSUME Leave(u) PROVE Only(u) /\ Len(turn'[u].list) <= CacheSize + 1 /\ Fits(u)'
  <2>1. turn'[u].list = <<>> /\ turn'[u].pc = "idle" /\ Only(u)
    BY <1>1, <1>3, Leaves, NoTurnIs
  <2>2. Len(turn'[u].list) = 0
    BY <2>1
  <2> QED
    BY <2>1, <2>2, Numbers DEF Fits
<1>4. ASSUME NEW pc \in TurnPcs, Goes(u, pc), turn[u].pc \in Early <=> pc \in Early,
             kind' = kind
      PROVE  Only(u) /\ Len(turn'[u].list) <= CacheSize + 1 /\ Fits(u)'
  <2>1. /\ Only(u) /\ turn'[u].pc = pc /\ turn'[u].list = turn[u].list
        /\ turn'[u].id = turn[u].id /\ turn'[u].n = turn[u].n /\ turn'[u].how = turn[u].how
    BY <1>1, <1>4, GoesIs DEF Stays
  <2>2. Holds(u) => Holds(u)'
    BY <1>4, <2>1, HoldsKept
  <2> QED
    BY <1>1, <1>4, <2>1, <2>2 DEF Fits
<1>5. ASSUME NEW how \in Hows, Only(u), Answers(u, how), kind' = kind,
             turn[u].pc = "run" \/ Has(Answer(u, how), turn[u].list)
      PROVE  Only(u) /\ Len(turn'[u].list) <= CacheSize + 1 /\ Fits(u)'
  <2>1. /\ Has(Answer(u, how), turn'[u].list) /\ turn'[u].id = turn[u].id /\ turn'[u].pc = "chat"
        /\ turn'[u].n = turn[u].n /\ turn'[u].how = how
    BY <1>5 DEF Answers
  <2>2. Fits(u)'
    <3>1. PICK i \in DOMAIN turn'[u].list : Same(turn'[u].list[i], Answer(u, how))
      BY <2>1 DEF Has
    <3>2. /\ Answer(u, turn[u].how)'.id = Answer(u, how).id
          /\ Answer(u, turn[u].how)'.str = Answer(u, how).str
      BY <1>5, <2>1 DEF Answer, GoesOn
    <3>3. Holds(u)'
      BY <3>1, <3>2 DEF Holds, Has, Same
    <3> QED
      BY <2>1, <3>3 DEF Fits
  <2>3. Len(turn'[u].list) <= CacheSize + 1
    <3>1. turn'[u].list \in Seq(Copies)
      BY <1>5 DEF Only, Turns
    <3>2. Len(turn'[u].list) \in Nat
      BY <3>1
    <3>3. CASE Has(Answer(u, how), turn[u].list)
      BY <1>1, <1>5, <3>3 DEF Answers
    <3>4. CASE turn[u].pc = "run"
      <4>1. Len(turn[u].list) <= CacheSize
        BY <1>1, <3>4 DEF Fits
      <4>2. Len(turn'[u].list) <= Len(turn[u].list) + 1
        BY <1>5 DEF Answers
      <4> QED
        BY <1>2, <3>2, <4>1, <4>2, Numbers
    <3> QED
      BY <1>5, <3>3, <3>4
  <2> QED
    BY <1>5, <2>2, <2>3
<1>6. CASE \E r \in {0} \cup Records : Ask(u, r)
  <2>1. PICK r \in {0} \cup Records : Ask(u, r)
    BY <1>6
  <2>2. /\ Only(u) /\ turn'[u].pc = IF cache.live THEN "check" ELSE "reopen"
        /\ turn'[u].list = IF cache.live THEN cache.list ELSE <<>>
    BY <1>1, <2>1, Asks
  <2>3. Len(turn'[u].list) <= CacheSize
    <3>1. CASE cache.live
      BY <1>1, <2>2, <3>1
    <3>2. CASE ~cache.live
      <4>1. turn'[u].list = <<>>
        BY <1>1, <2>2, <3>2
      <4> QED
        BY <4>1, Numbers
    <3> QED
      BY <3>1, <3>2
  <2>4. turn'[u].list \in Seq(Copies)
    BY <2>2 DEF Only, Turns
  <2>5. Len(turn'[u].list) \in Nat
    BY <2>4
  <2>6. turn'[u].pc = "check" \/ turn'[u].pc = "reopen"
    BY <2>2
  <2> QED
    BY <2>2, <2>3, <2>5, <2>6, Numbers DEF Fits
<1>7. CASE Reopen(u)
  <2>1. CASE Leave(u)
    BY <1>3, <2>1
  <2>2. CASE ~Leave(u)
    <3>1. Only(u) /\ turn'[u].pc = "recache" /\ Len(turn'[u].list) <= ReopenSize
      BY <1>1, <1>7, <2>2, Reopens
    <3>2. turn'[u].list \in Seq(Copies)
      BY <3>1 DEF Only, Turns
    <3>3. Len(turn'[u].list) \in Nat
      BY <3>2
    <3> QED
      BY <3>1, <3>3, Numbers DEF Fits
  <2> QED
    BY <2>1, <2>2
<1>8. CASE Recache(u)
  BY <1>4, <1>8 DEF Recache, TurnPcs
<1>9. CASE Check(u)
  <2>1. CASE Leave(u)
    BY <1>3, <2>1
  <2>2. CASE ~Leave(u)
    <3>1. Only(u) /\ turn'[u].pc = "run" /\ turn'[u].list = turn[u].list
      BY <1>1, <1>9, <2>2, Checks
    <3>2. Len(turn[u].list) <= CacheSize
      BY <1>1, <1>9 DEF Fits, Check
    <3> QED
      BY <1>1, <3>1, <3>2 DEF Fits
  <2> QED
    BY <2>1, <2>2
<1>10. CASE Run(u)
  <2>1. Only(u) /\ Answers(u, "answer") /\ turn[u].pc = "run" /\ "answer" \in Hows /\ kind' = kind
    BY <1>1, <1>10, Appended DEF Run, Hows
  <2> QED
    BY <1>5, <2>1
<1>11. CASE SaveChat(u)
  BY <1>4, <1>11 DEF SaveChat, TurnPcs
<1>12. CASE SaveRecord(u)
  BY <1>4, <1>12 DEF SaveRecord, TurnPcs
<1>13. CASE SetCache(u)
  <2>1. turn[u].pc = "cache" /\ (Leave(u) \/ Goes(u, "end") \/ Goes(u, "count")) /\ kind' = kind
    BY <1>13 DEF SetCache, Ends
  <2> QED
    BY <1>3, <1>4, <2>1 DEF TurnPcs
<1>14. CASE End(u)
  BY <1>3, <1>4, <1>14 DEF End, TurnPcs
<1>15. CASE CountRead(u)
  <2>1. /\ Only(u) /\ turn'[u].pc = "counted" /\ turn'[u].list = turn[u].list
        /\ turn'[u].id = turn[u].id /\ turn[u].pc = "count" /\ turn'[u].n = turn[u].n
        /\ turn'[u].how = turn[u].how /\ kind' = kind
    BY <1>1, <1>15, CountReads DEF CountRead
  <2>2. Holds(u)'
    BY <1>1, <2>1, HoldsKept DEF Fits
  <2> QED
    BY <1>1, <2>1, <2>2 DEF Fits
<1>16. CASE CountWrite(u)
  BY <1>3, <1>4, <1>16 DEF CountWrite, TurnPcs
<1>17. CASE Fail(u)
  <2>1. CASE Leave(u)
    BY <1>3, <2>1
  <2>2. CASE ~Leave(u)
    <3>1. /\ Appends(u, "exception") /\ "exception" \in Hows /\ kind' = kind /\ ChunkFirst(u)
          /\ turn[u].pc \in {"run", "chat", "record", "cache", "count", "counted"}
      BY <1>17, <2>2 DEF Fail, Hows
    <3>2. Only(u) /\ Answers(u, "exception")
      BY <1>1, <3>1, Appended
    <3>3. turn[u].pc = "run" \/ Has(Answer(u, "exception"), turn[u].list)
      <4>1. ASSUME turn[u].pc # "run"
            PROVE  Has(Answer(u, "exception"), turn[u].list)
        <5>1. Has(Answer(u, "answer"), turn[u].list)
          BY <1>1, <3>1, <4>1 DEF Fits, Holds, ChunkFirst
        <5> QED
          BY <5>1 DEF Has, Same, Answer
      <4> QED
        BY <4>1
    <3> QED
      BY <1>5, <3>1, <3>2, <3>3
  <2> QED
    BY <2>1, <2>2
<1>18. CASE Raise(u)
  <2>1. CASE Leave(u)
    BY <1>3, <2>1
  <2>2. CASE ~Leave(u)
    <3>1. Appends(u, "raised") /\ "raised" \in Hows /\ kind' = kind /\ turn[u].pc = "run"
      BY <1>18, <2>2 DEF Raise, Hows
    <3>2. Only(u) /\ Answers(u, "raised")
      BY <1>1, <3>1, Appended
    <3> QED
      BY <1>5, <3>1, <3>2
  <2> QED
    BY <2>1, <2>2
<1>19. CASE Disconnect(u)
  BY <1>3, <1>19 DEF Disconnect
<1> QED
  BY <1>6, <1>7, <1>8, <1>9, <1>10, <1>11, <1>12, <1>13, <1>14, <1>15, <1>16, <1>17, <1>18, <1>19
     DEF ATurn, TurnStep

LEMMA KindStays ==
    ASSUME NEW u \in Users, ATurn(u)
    PROVE  kind' = kind
BY DEF ATurn, TurnStep, Ask, Reopen, Recache, Check, Run, SaveChat, SaveRecord, SetCache, End,
       CountRead, CountWrite, Fail, Raise, Disconnect

\* The turns' part of the invariant after a step of one of them.
LEMMA ListsKept ==
    ASSUME IInv, NEW u \in Users, ATurn(u)
    PROVE  /\ turn' \in [Users -> Turns] /\ \A v \in Users : Len(turn'[v].list) <= CacheSize + 1
           /\ Lengths'
<1>1. Only(u) /\ Len(turn'[u].list) <= CacheSize + 1 /\ Fits(u)'
  BY FitsKept
<1>2. ASSUME NEW v \in Users PROVE Len(turn'[v].list) <= CacheSize + 1 /\ Fits(v)'
  <2>1. CASE v = u
    BY <1>1, <2>1
  <2>2. CASE v # u
    <3>1. turn'[v] = turn[v] /\ kind' = kind
      BY <1>1, <2>2, KindStays DEF Only
    <3>2. Len(turn[v].list) <= CacheSize + 1 /\ Fits(v)
      BY DEF IInv, TypeOK, Lengths
    <3>3. Holds(v) => Holds(v)'
      BY <3>1, HoldsKept
    <3> QED
      BY <3>1, <3>2, <3>3 DEF Fits
  <2> QED
    BY <2>1, <2>2
<1> QED
  BY <1>1, <1>2 DEF Only, Lengths

LEMMA TurnKeepsIInv ==
    ASSUME IInv, NEW u \in Users, ATurn(u)
    PROVE  IInv'
<1>1. /\ turn' \in [Users -> Turns] /\ \A v \in Users : Len(turn'[v].list) <= CacheSize + 1
      /\ Lengths'
  BY ListsKept
<1>2. TypeOK /\ Births /\ RowType /\ turn[u] \in Turns
  BY TypeOKRow DEF IInv, TypeOK
<1>3. /\ turn[u].list \in Seq(Copies) /\ Len(turn[u].list) \in Nat /\ turn[u].id \in Records
      /\ turn[u].how \in Hows /\ turn[u].seen \in Nat
  <2>1. turn[u].list \in Seq(Copies)
    BY <1>2 DEF Turns
  <2> QED
    BY <1>2, <2>1 DEF Turns
<1>4. ASSUME voter' = voter, kind' = kind, voted' = voted, chat' \in BOOLEAN,
             Births', row' \in [Records -> Rows],
             cache' \in [live : BOOLEAN, list : Seq(Copies)], Len(cache'.list) <= CacheSize,
             count' \in Nat, answered' \in Nat, given' \in [Records -> Texts],
             overwritten' \subseteq Records, outvoted' \subseteq Records,
             forked' \in BOOLEAN, moved' \in BOOLEAN, uncounted' \in BOOLEAN,
             requests' \in 0..MaxRequests, faults' \in 0..MaxFaults
      PROVE  IInv'
  BY <1>1, <1>2, <1>4 DEF IInv, TypeOK, Rows
<1>5. row \in [Records -> Rows]
  BY <1>2 DEF RowType
<1> DEFINE Held == /\ voter' = voter /\ kind' = kind /\ voted' = voted /\ chat' \in BOOLEAN
                   /\ count' \in Nat /\ answered' \in Nat /\ given' \in [Records -> Texts]
                   /\ overwritten' \subseteq Records /\ outvoted' \subseteq Records
                   /\ forked' \in BOOLEAN /\ moved' \in BOOLEAN /\ uncounted' \in BOOLEAN
                   /\ requests' \in 0..MaxRequests /\ faults' \in 0..MaxFaults
<1>7. ASSUME Held, row' = row, cache' = cache PROVE IInv'
  <2>1. Births'
    BY <1>2, <1>7, BirthsSame
  <2> QED
    BY <1>2, <1>4, <1>5, <1>7, <2>1 DEF TypeOK
<1>8. CASE \E r \in {0} \cup Records : Ask(u, r)
  <2>1. PICK r \in {0} \cup Records : Ask(u, r)
    BY <1>8
  <2>2. (IF r = 0 THEN requests + 2 ELSE r) \in Records
    <3>1. turn'[u].id = (IF r = 0 THEN requests + 2 ELSE r) /\ turn'[u].id \in Records
      BY <1>2, <2>1, Asks
    <3> QED
      BY <3>1
  <2>3. overwritten' \subseteq Records
    BY <1>2, <2>1, <2>2 DEF Ask, TypeOK
  <2>4. requests' \in 0..MaxRequests
    BY <1>2, <2>1, Numbers DEF Ask, TypeOK
  <2>5. forked' \in BOOLEAN /\ moved' \in BOOLEAN
    BY <1>2, <2>1 DEF Ask, TypeOK
  <2>6. row' = row /\ cache' = cache /\ Held
    BY <1>2, <2>1, <2>3, <2>4, <2>5 DEF Ask, TypeOK
  <2> QED
    BY <1>7, <2>6
<1>9. CASE Reopen(u)
  BY <1>2, <1>7, <1>9 DEF Reopen, history, TypeOK
<1>10. CASE Recache(u)
  <2>1. Len(turn[u].list) <= CacheSize
    BY <1>10 DEF IInv, Lengths, Fits, Recache
  <2>2. cache' = [live |-> TRUE, list |-> turn[u].list]
    BY <1>10 DEF Recache
  <2>3. cache' \in [live : BOOLEAN, list : Seq(Copies)] /\ Len(cache'.list) <= CacheSize
    BY <1>3, <2>1, <2>2
  <2>4. Held /\ row' = row
    BY <1>2, <1>10 DEF Recache, history, TypeOK
  <2>5. Births'
    BY <1>2, <2>4, BirthsSame
  <2> QED
    BY <1>4, <1>5, <2>3, <2>4, <2>5
<1>11. CASE Check(u)
  <2>1. outvoted' \subseteq Records /\ chat' \in BOOLEAN
    BY <1>2, <1>3, <1>11 DEF Check, TypeOK
  <2>2. Held /\ row' = row /\ cache' = cache
    BY <1>2, <1>11, <2>1 DEF Check, TypeOK
  <2> QED
    BY <1>7, <2>2
<1>12. CASE Run(u)
  <2>1. moved' \in BOOLEAN
    BY <1>2, <1>12 DEF Run, Appends, TypeOK
  <2>2. answered' \in Nat
    BY <1>2, <1>12 DEF Run, TypeOK
  <2>3. Held /\ row' = row /\ cache' = cache
    BY <1>2, <1>12, <2>1, <2>2 DEF Run, TypeOK
  <2> QED
    BY <1>7, <2>3
<1>13. CASE SaveChat(u)
  BY <1>2, <1>7, <1>13 DEF SaveChat, history, TypeOK
<1>14. CASE SaveRecord(u)
  <2>1. Births' /\ row' \in [Records -> Rows]
    BY <1>14, Saves DEF OnlyRow
  <2>2. moved' \in BOOLEAN
    BY <1>2, <1>14 DEF SaveRecord, TypeOK
  <2>3. overwritten' \subseteq Records
    BY <1>2, <1>3, <1>14 DEF SaveRecord, TypeOK
  <2>4. Held /\ cache' = cache
    BY <1>2, <1>14, <2>2, <2>3 DEF SaveRecord, TypeOK
  <2>5. cache \in [live : BOOLEAN, list : Seq(Copies)] /\ Len(cache.list) <= CacheSize
    BY <1>2 DEF TypeOK
  <2> QED
    BY <1>4, <2>1, <2>4, <2>5
<1>15. CASE SetCache(u)
  <2>1. cache' = [live |-> TRUE, list |-> LastOf(CacheSize, turn[u].list)]
    BY <1>15 DEF SetCache
  <2>2. PICK list : list = LastOf(CacheSize, turn[u].list)
    OBVIOUS
  <2>3. list \in Seq(Copies) /\ Len(list) <= CacheSize
    BY <1>3, <2>2, LastOfIs, Numbers
  <2>4. cache' = [live |-> TRUE, list |-> list]
    BY <2>1, <2>2
  <2>5. cache' \in [live : BOOLEAN, list : Seq(Copies)] /\ Len(cache'.list) <= CacheSize
    BY <2>3, <2>4
  <2>6. Held /\ row' = row
    BY <1>2, <1>15 DEF SetCache, history, TypeOK
  <2>7. Births'
    BY <1>2, <2>6, BirthsSame
  <2> QED
    BY <1>4, <1>5, <2>5, <2>6, <2>7
<1>16. CASE End(u)
  <2>1. given' \in [Records -> Texts]
    <3>1. given' = [given EXCEPT ![turn[u].id] = Text(u, turn[u].how)]
      BY <1>16 DEF End
    <3>2. Text(u, turn[u].how) \in Texts /\ given \in [Records -> Texts]
      BY <1>2, <1>3, AnswerIs DEF TypeOK
    <3> QED
      BY <3>1, <3>2
  <2>2. Held /\ row' = row /\ cache' = cache
    BY <1>2, <1>16, <2>1 DEF End, TypeOK
  <2> QED
    BY <1>7, <2>2
<1>17. CASE CountRead(u)
  <2>1. uncounted' \in BOOLEAN
    BY <1>2, <1>17 DEF CountRead, TypeOK
  <2>2. Held /\ row' = row /\ cache' = cache
    BY <1>2, <1>17, <2>1 DEF CountRead, TypeOK
  <2> QED
    BY <1>7, <2>2
<1>18. CASE CountWrite(u)
  <2>1. count' \in Nat
    BY <1>3, <1>18 DEF CountWrite
  <2>2. Held /\ row' = row /\ cache' = cache
    BY <1>2, <1>18, <2>1 DEF CountWrite, history, TypeOK
  <2> QED
    BY <1>7, <2>2
<1>19. CASE Fail(u)
  <2>1. faults' \in 0..MaxFaults
    BY <1>2, <1>19, Numbers DEF Fail, Fault, TypeOK
  <2>2. answered' \in Nat
    <3>1. answered' = answered + 1 \/ answered' = answered
      BY <1>19, Zenon DEF Fail
    <3> QED
      BY <1>2, <3>1 DEF TypeOK
  <2>3. FailMarks(u, FALSE) \/ FailMarks(u, TRUE)
    BY <1>19 DEF Fail
  <2>4. overwritten' \subseteq Records
    BY <1>2, <1>3, <2>3 DEF FailMarks, TypeOK
  <2>5. forked' \in BOOLEAN /\ uncounted' \in BOOLEAN /\ moved' \in BOOLEAN
    <3>1. Appends(u, "exception") \/ moved' = moved
      BY <1>19 DEF Fail
    <3> QED
      BY <1>2, <2>3, <3>1 DEF FailMarks, Appends, TypeOK
  <2>6. Held /\ row' = row /\ cache' = cache
    BY <1>2, <1>19, <2>1, <2>2, <2>4, <2>5 DEF Fail, TypeOK
  <2> QED
    BY <1>7, <2>6
<1>20. CASE Raise(u)
  <2>1. faults' \in 0..MaxFaults
    BY <1>2, <1>20, Numbers DEF Raise, Fault, TypeOK
  <2>2. moved' \in BOOLEAN
    BY <1>2, <1>20 DEF Raise, Appends, TypeOK
  <2>3. Held /\ row' = row /\ cache' = cache
    BY <1>2, <1>20, <2>1, <2>2 DEF Raise, TypeOK
  <2> QED
    BY <1>7, <2>3
<1>21. CASE Disconnect(u)
  <2>1. faults' \in 0..MaxFaults
    BY <1>2, <1>21, Numbers DEF Disconnect, Fault, TypeOK
  <2>2. overwritten' \subseteq Records
    BY <1>2, <1>3, <1>21 DEF Disconnect, TypeOK
  <2>3. uncounted' \in BOOLEAN
    BY <1>2, <1>21 DEF Disconnect, TypeOK
  <2>4. Held /\ row' = row /\ cache' = cache
    BY <1>2, <1>21, <2>1, <2>2, <2>3 DEF Disconnect, TypeOK
  <2> QED
    BY <1>7, <2>4
<1> QED
  BY <1>8, <1>9, <1>10, <1>11, <1>12, <1>13, <1>14, <1>15, <1>16, <1>17, <1>18, <1>19, <1>20,
     <1>21
     DEF ATurn, TurnStep

LEMMA OthersKeepIInv ==
    ASSUME IInv, [Next]_vars, ~(\E u \in Users : ATurn(u))
    PROVE  IInv'
<1>1. TypeOK /\ Births /\ Lengths /\ RowType
  BY TypeOKRow DEF IInv
<1>2. row \in [Records -> Rows]
  BY <1>1 DEF RowType
<1>3. ASSUME UNCHANGED <<kind, turn, given, overwritten>>, forked' \in BOOLEAN, moved' \in BOOLEAN,
             chat' \in BOOLEAN, Births', row' \in [Records -> Rows],
             cache' \in [live : BOOLEAN, list : Seq(Copies)], Len(cache'.list) <= CacheSize,
             voter' \in [Voters -> VoterRecs], voted' \in [Records -> Votes],
             outvoted' \subseteq Records, uncounted' \in BOOLEAN,
             count' \in Nat, answered' \in Nat, requests' \in 0..MaxRequests,
             faults' \in 0..MaxFaults
      PROVE  IInv'
  <2>1. \A u \in Users : Holds(u) => Holds(u)'
    BY <1>3, HoldsKept
  <2>2. Lengths'
    BY <1>1, <1>3, <2>1 DEF Lengths, Fits
  <2> QED
    BY <1>1, <1>3, <2>2 DEF IInv, TypeOK, Rows, VoterRecs
<1>4. /\ voter \in [Voters -> VoterRecs] /\ voted \in [Records -> Votes] /\ chat \in BOOLEAN
      /\ cache \in [live : BOOLEAN, list : Seq(Copies)] /\ Len(cache.list) <= CacheSize
      /\ outvoted \subseteq Records /\ uncounted \in BOOLEAN /\ forked \in BOOLEAN
      /\ moved \in BOOLEAN
      /\ count \in Nat /\ answered \in Nat /\ requests \in 0..MaxRequests
      /\ faults \in 0..MaxFaults
  BY <1>1 DEF TypeOK, VoterRecs
<1>5. ASSUME NEW op, Fault(op) PROVE faults' \in 0..MaxFaults
  BY <1>4, <1>5, Numbers DEF Fault
<1>6. CASE \E v \in Voters : \E r \in Records, b \in Votes : Vote(v, r, b)
  <2>1. PICK v \in Voters, r \in Records, b \in Votes : Vote(v, r, b)
    BY <1>6
  <2>2. OnlyVoter(v) /\ voter'[v].copy.id = r
    BY <1>1, <2>1, VotesBegin
  <2>3. VotesOnRows'
    BY <1>1, <2>1, <2>2 DEF VotesOnRows, OnlyVoter, Births, Vote
  <2>4. Births'
    BY <1>1, <2>1, <2>3, BirthsVoted DEF Vote
  <2>5. requests' \in 0..MaxRequests
    BY <1>4, <2>1, Numbers DEF Vote
  <2> QED
    BY <1>2, <1>3, <1>4, <2>1, <2>2, <2>4, <2>5 DEF Vote, history, OnlyVoter
<1>7. CASE \E v \in Voters : VoteSave(v)
  <2>1. PICK v \in Voters : VoteSave(v)
    BY <1>7
  <2>2. OnlyVoter(v) /\ voter'[v].copy = voter[v].copy /\ voter[v].pc = "save"
    BY <1>1, <2>1, VoteSaves DEF VoteSave
  <2>3. VotesOnRows'
    BY <1>1, <2>1, <2>2 DEF VotesOnRows, OnlyVoter, Births, VoteSave
  <2>4. Births'
    BY <1>1, <2>1, <2>3, BirthsVoted DEF VoteSave
  <2> QED
    BY <1>2, <1>3, <1>4, <2>1, <2>2, <2>4 DEF VoteSave, history, OnlyVoter
<1>8. CASE \E v \in Voters : VoteCommit(v)
  <2>1. PICK v \in Voters : VoteCommit(v)
    BY <1>8
  <2>2. PICK r : r = voter[v].copy.id
    OBVIOUS
  <2>3. OnlyVoter(v) /\ Births' /\ voter[v].copy.vote \in Votes
    BY <1>1, <2>1, VoteCommits, TypeOKVoter
  <2>4. CASE UNCHANGED <<row, voted, outvoted, moved>>
    BY <1>2, <1>3, <1>4, <2>1, <2>3, <2>4 DEF VoteCommit, OnlyVoter
  <2>5. CASE ~UNCHANGED <<row, voted, outvoted, moved>>
    <3>1. /\ r \in Records /\ OnlyRow(r)
          /\ voted' = [voted EXCEPT ![r] = voter[v].copy.vote]
          /\ outvoted' = IF Remembered(r) THEN outvoted \cup {r} ELSE outvoted
          /\ moved' = (moved \/ ~row[r].there)
      BY <2>1, <2>2, <2>5, VoteCommits
    <3>2. outvoted' \subseteq Records /\ voted' \in [Records -> Votes] /\ moved' \in BOOLEAN
      BY <1>4, <2>3, <3>1
    <3> QED
      BY <1>2, <1>3, <1>4, <2>1, <2>3, <3>1, <3>2 DEF VoteCommit, OnlyVoter, OnlyRow
  <2> QED
    BY <2>4, <2>5
<1>9. CASE Expire
  <2>1. cache' = [live |-> FALSE, list |-> <<>>]
    BY <1>9 DEF Expire
  <2>2. <<>> \in Seq(Copies) /\ Len(<<>>) <= CacheSize
    BY Numbers
  <2>3. cache' \in [live : BOOLEAN, list : Seq(Copies)] /\ Len(cache'.list) <= CacheSize
    BY <2>1, <2>2
  <2>4. Births' /\ faults' \in 0..MaxFaults
    BY <1>1, <1>5, <1>9, BirthsSame DEF Expire
  <2> QED
    BY <1>2, <1>3, <1>4, <1>9, <2>3, <2>4 DEF Expire, history
<1>10. CASE Clean
  <2>1. /\ 1 \in Records /\ OnlyRow(1) /\ ~row'[1].there /\ row'[1].born = row[1].born
        /\ row[1].born = 0
    BY <1>1, <1>10, Cleans
  <2>2. VotesOnRows'
    <3>1. \A w \in Voters : voter[w].copy.id \in Records
      BY <1>1, TypeOKVoter
    <3> QED
      BY <1>1, <1>10, <2>1, <3>1 DEF Clean, VotesOnRows, Births, OnlyRow
  <2>3. Births'
    BY <1>1, <2>1, <2>2, BirthsKept
  <2>4. chat' \in BOOLEAN /\ outvoted' \subseteq Records /\ faults' \in 0..MaxFaults
    BY <1>4, <1>5, <1>10, <2>1 DEF Clean
  <2> QED
    BY <1>3, <1>4, <1>10, <2>1, <2>3, <2>4 DEF Clean, OnlyRow
<1>11. CASE Reset
  <2>1. Births' /\ faults' \in 0..MaxFaults /\ uncounted' \in BOOLEAN
    BY <1>1, <1>5, <1>11, BirthsSame DEF Reset
  <2> QED
    BY <1>2, <1>3, <1>4, <1>11, <2>1 DEF Reset
<1>12. CASE UNCHANGED vars
  <2>1. Births'
    BY <1>1, <1>12, BirthsSame DEF vars, history
  <2> QED
    BY <1>2, <1>3, <1>4, <1>12, <2>1 DEF vars, history
<1>13. \/ \E v \in Voters : VoteSave(v) \/ VoteCommit(v) \/ \E r \in Records, b \in Votes : Vote(v, r, b)
       \/ Expire \/ Clean \/ Reset
       \/ UNCHANGED vars
  BY DEF Next, Rest, ATurn
<1> QED
  BY <1>6, <1>7, <1>8, <1>9, <1>10, <1>11, <1>12, <1>13

LEMMA InitIInv == Init => IInv
<1> SUFFICES ASSUME Init PROVE IInv
  OBVIOUS
<1>1. RowType /\ \A r \in Records : row[r].born = 0
  <2>1. ASSUME NEW r \in Records PROVE row[r] \in Rows /\ row[r].born = 0
    <3>1. PICK w : w = [NoRow EXCEPT !.there = TRUE, !.text = First]
      OBVIOUS
    <3>2. w \in Rows /\ w.born = 0
      BY <3>1, NoVoterIs DEF Rows
    <3>3. row[r] = w \/ row[r] = NoRow
      BY <3>1 DEF Init
    <3> QED
      BY <3>2, <3>3, NoVoterIs
  <2>2. row \in [Records -> Rows]
    BY <2>1 DEF Init
  <2> QED
    BY <2>1, <2>2 DEF RowType
<1>2. \A r \in Records : row[r].there => r = 1
  <2>1. \A r \in Records : r # 1 => row[r] = NoRow
    BY DEF Init
  <2> QED
    BY <2>1, NoVoterIs
<1>3. Births
  <2>1. Cardinality(Bred) \in Nat
    BY <1>1, BredIs
  <2>2. \A v \in Voters : voter[v].pc = "idle"
    BY NoVoterIs DEF Init
  <2>3. Apart
    BY <1>2 DEF Apart, There
  <2> QED
    BY <1>1, <1>2, <2>1, <2>2, <2>3 DEF Births
<1>4. turn \in [Users -> Turns] /\ \A u \in Users : turn[u].list = <<>> /\ turn[u].pc = "idle"
  BY NoTurnIs DEF Init
<1>5. Len(<<>>) = 0 /\ <<>> \in Seq(Copies)
  OBVIOUS
<1>6. Lengths /\ \A u \in Users : Len(turn[u].list) <= CacheSize + 1
  BY <1>4, <1>5, Numbers DEF Lengths, Fits
<1>7. cache \in [live : BOOLEAN, list : Seq(Copies)] /\ Len(cache.list) <= CacheSize
  <2>1. cache = [live |-> ~chat, list |-> <<>>] /\ chat \in BOOLEAN
    BY DEF Init
  <2> QED
    BY <1>5, <2>1, Numbers
<1>8. voter \in [Voters -> VoterRecs]
  BY NoVoterIs DEF Init
<1>9. given \in [Records -> Texts] /\ voted \in [Records -> Votes]
  BY <1>1 DEF Init, RowType, Rows, Votes
<1>10. /\ kind \in Kinds /\ chat \in BOOLEAN /\ count = 0 /\ answered = 0
       /\ forked = FALSE /\ moved = FALSE /\ overwritten = {} /\ outvoted = {}
       /\ uncounted = FALSE /\ requests = 0 /\ faults = 0
  BY DEF Init
<1>11. /\ count \in Nat /\ answered \in Nat /\ requests \in 0..MaxRequests
       /\ faults \in 0..MaxFaults
  BY <1>10, Numbers
<1>12. /\ forked \in BOOLEAN /\ moved \in BOOLEAN /\ uncounted \in BOOLEAN
       /\ overwritten \subseteq Records /\ outvoted \subseteq Records
  BY <1>10
<1>13. TypeOK
  BY <1>1, <1>4, <1>6, <1>7, <1>8, <1>9, <1>10, <1>11, <1>12
     DEF TypeOK, RowType, Rows, VoterRecs
<1> QED
  BY <1>3, <1>6, <1>13 DEF IInv

LEMMA NextIInv == IInv /\ [Next]_vars => IInv'
BY TurnKeepsIInv, OthersKeepIInv

LEMMA SpecIInv == Spec => []IInv
BY InitIInv, NextIInv, PTL DEF Spec

\* Every variable keeps its type.  The order of the records has a place for every record
\* that is ever saved, as update_or_create gives a create_time once, and the turn's list
\* outgrows the cache by no more than its own record.
THEOREM TypeCorrect == Spec => []TypeOK
<1>1. IInv => TypeOK
  BY DEF IInv
<1> QED
  BY <1>1, SpecIInv, PTL

-----------------------------------------------------------------------------
(* The limit of questions in a day.  A turn that has answered and is not in *)
(* the counter waits for it; with the turns that are past the check it is  *)
(* what can still be counted.  The turn that has read the counter read the *)
(* value that it has, and is alone.                                        *)

Waits(u) ==
    \/ turn[u].pc \in {"chat", "record", "cache"} /\ turn[u].how # "raised"
    \/ turn[u].pc \in {"count", "counted"}
    \/ turn[u].pc = "end" /\ ChunkFirst(u)

Waiting == {u \in Users : Waits(u)}

Past == {u \in Users : Waits(u) \/ turn[u].pc = "run"}

Alone ==
    \A u, v \in Users : turn[u].pc = "counted" =>
        turn[u].seen = count /\ (turn[v].pc = "counted" => u = v)

LInv == ~uncounted =>
    /\ answered <= count + Cardinality(Waiting)
    /\ count + Cardinality(Past) < Limit + Cardinality(Users)
    /\ Alone

LEMMA SomeUsers ==
    ASSUME NEW S \in SUBSET Users
    PROVE  /\ IsFiniteSet(S) /\ Cardinality(S) \in Nat /\ Cardinality(S) <= Cardinality(Users)
           /\ Cardinality(Users) \in Nat
           /\ \A u \in Users : /\ u \notin S => Cardinality(S \cup {u}) = Cardinality(S) + 1
                               /\ u \in S => Cardinality(S \ {u}) = Cardinality(S) - 1
BY Numbers, FS_Subset, FS_CardinalityType, FS_AddElement, FS_RemoveElement

LEMMA CountsAre ==
    ASSUME TypeOK
    PROVE  /\ Waiting \in SUBSET Users /\ Past \in SUBSET Users /\ Waiting \in SUBSET Past
           /\ Cardinality(Waiting) \in Nat /\ Cardinality(Past) \in Nat
           /\ Cardinality(Waiting) <= Cardinality(Past) /\ count \in Nat /\ answered \in Nat
<1>1. Waiting \in SUBSET Users /\ Past \in SUBSET Users /\ Waiting \in SUBSET Past
  BY DEF Waiting, Past
<1>2. Cardinality(Waiting) \in Nat /\ Cardinality(Past) \in Nat /\ IsFiniteSet(Past)
  BY <1>1, SomeUsers
<1>3. Cardinality(Waiting) <= Cardinality(Past)
  BY <1>1, <1>2, FS_Subset
<1> QED
  BY <1>1, <1>2, <1>3 DEF TypeOK

\* Where the turns are after a step of one of them.
LEMMA SetsAfter ==
    ASSUME NEW u \in Users, Only(u), kind' = kind
    PROVE  /\ (Waits(u) <=> Waits(u)') => Waiting' = Waiting
           /\ Waits(u) /\ ~Waits(u)' => Waiting' = Waiting \ {u} /\ u \in Waiting
           /\ ~Waits(u) /\ Waits(u)' => Waiting' = Waiting \cup {u} /\ u \notin Waiting
           /\ (u \in Past <=> u \in Past') => Past' = Past
           /\ u \in Past /\ u \notin Past' => Past' = Past \ {u}
           /\ u \notin Past /\ u \in Past' => Past' = Past \cup {u}
<1>1. \A v \in Users \ {u} : turn'[v] = turn[v] /\ (Waits(v)' <=> Waits(v))
  BY DEF Only, Waits, ChunkFirst
<1>2. \A v \in Users \ {u} : (v \in Waiting' <=> v \in Waiting) /\ (v \in Past' <=> v \in Past)
  BY <1>1 DEF Waiting, Past
<1>3. Waiting' \in SUBSET Users /\ Past' \in SUBSET Users
  BY DEF Waiting, Past
<1>4. Waiting \in SUBSET Users /\ Past \in SUBSET Users
  BY DEF Waiting, Past
<1>5. (u \in Waiting <=> Waits(u)) /\ (u \in Waiting' <=> Waits(u)')
  BY DEF Waiting
<1> QED
  BY <1>2, <1>3, <1>4, <1>5

LEMMA AloneKept ==
    ASSUME NEW u \in Users, Only(u), turn'[u].pc # "counted", count' = count, Alone
    PROVE  Alone'
BY DEF Alone, Only

\* A step that leaves the turn as far from the counter as it was.
LEMMA LimitKept ==
    ASSUME TypeOK, LInv, NEW u \in Users, Only(u), kind' = kind, count' = count,
           answered' = answered, ~uncounted' => ~uncounted,
           turn'[u].pc # "counted", Waits(u) <=> Waits(u)', u \in Past' => u \in Past
    PROVE  LInv'
<1> SUFFICES ASSUME ~uncounted'
             PROVE  /\ answered' <= count' + Cardinality(Waiting)'
                    /\ count' + Cardinality(Past)' < Limit + Cardinality(Users)
                    /\ Alone'
  BY DEF LInv
<1>1. /\ answered <= count + Cardinality(Waiting)
      /\ count + Cardinality(Past) < Limit + Cardinality(Users)
      /\ Alone
  BY DEF LInv
<1>2. Waiting' = Waiting /\ (Past' = Past \/ (u \in Past /\ Past' = Past \ {u}))
  BY SetsAfter
<1>3. Cardinality(Waiting)' = Cardinality(Waiting)
  BY <1>2
<1>4. Past \in SUBSET Users /\ Cardinality(Past) \in Nat
  BY CountsAre
<1>5. Cardinality(Past)' <= Cardinality(Past) /\ Cardinality(Past)' \in Nat
  BY <1>2, <1>4, SomeUsers
<1>6. Cardinality(Users) \in Nat /\ count \in Nat
  BY <1>4, SomeUsers, CountsAre
<1> QED
  BY <1>1, <1>3, <1>4, <1>5, <1>6, AloneKept, Numbers

\* A turn that was past the check has answered.
LEMMA LimitAnswered ==
    ASSUME TypeOK, LInv, NEW u \in Users, Only(u), kind' = kind, count' = count,
           answered' = answered + 1, uncounted' = uncounted,
           turn[u].pc = "run", turn'[u].pc = "chat", turn'[u].how # "raised"
    PROVE  LInv'
<1> SUFFICES ASSUME ~uncounted'
             PROVE  /\ answered' <= count' + Cardinality(Waiting)'
                    /\ count' + Cardinality(Past)' < Limit + Cardinality(Users)
                    /\ Alone'
  BY DEF LInv
<1>1. /\ answered <= count + Cardinality(Waiting)
      /\ count + Cardinality(Past) < Limit + Cardinality(Users)
      /\ Alone
  BY DEF LInv
<1>2. ~Waits(u) /\ Waits(u)' /\ u \in Past /\ u \in Past'
  BY DEF Waits, Past
<1>3. Waiting' = Waiting \cup {u} /\ u \notin Waiting /\ Past' = Past
  BY <1>2, SetsAfter
<1>4. Waiting \in SUBSET Users /\ Cardinality(Waiting) \in Nat /\ count \in Nat /\ answered \in Nat
  BY CountsAre
<1>5. Cardinality(Waiting)' = Cardinality(Waiting) + 1
  BY <1>3, <1>4, SomeUsers
<1>6. Cardinality(Past)' = Cardinality(Past)
  BY <1>3
<1> QED
  BY <1>1, <1>4, <1>5, <1>6, AloneKept

LEMMA TurnKeepsLimit ==
    ASSUME IInv, LInv, NEW u \in Users, ATurn(u)
    PROVE  LInv'
<1>1. TypeOK /\ Apart /\ turn[u] \in Turns /\ turn[u].how \in Hows
  BY DEF IInv, TypeOK, Turns, Births
<1>2. Only(u) /\ kind' = kind
  BY FitsKept DEF ATurn, TurnStep, Ask, Reopen, Recache, Check, Run, SaveChat, SaveRecord,
                  SetCache, End, CountRead, CountWrite, Fail, Raise, Disconnect
<1>3. ASSUME count' = count, answered' = answered, ~uncounted' => ~uncounted,
             turn'[u].pc # "counted", Waits(u) <=> Waits(u)', u \in Past' => u \in Past
      PROVE  LInv'
  BY <1>1, <1>2, <1>3, LimitKept
<1>4. ASSUME uncounted' PROVE LInv'
  BY <1>4 DEF LInv
<1>5. ASSUME Leave(u) PROVE turn'[u].pc = "idle" /\ ~Waits(u)' /\ u \notin Past'
  BY <1>1, <1>5, Leaves, NoTurnIs DEF Waits, Past
<1>6. ASSUME NEW pc \in TurnPcs, Goes(u, pc)
      PROVE  /\ turn'[u].pc = pc /\ turn'[u].how = turn[u].how
             /\ (ChunkFirst(u)' <=> ChunkFirst(u))
  BY <1>1, <1>2, <1>6, GoesIs DEF Stays, ChunkFirst
<1>7. CASE \E r \in {0} \cup Records : Ask(u, r)
  <2>1. PICK r \in {0} \cup Records : Ask(u, r)
    BY <1>7
  <2>2. turn'[u].pc = (IF cache.live THEN "check" ELSE "reopen") /\ turn[u].pc = "idle"
    BY <1>1, <2>1, Asks DEF Ask
  <2>3. ~Waits(u) /\ ~Waits(u)' /\ u \notin Past' /\ turn'[u].pc # "counted"
    BY <2>2 DEF Waits, Past
  <2> QED
    BY <1>3, <2>1, <2>3 DEF Ask
<1>8. CASE Reopen(u)
  <2>1. turn'[u].pc = "idle" \/ turn'[u].pc = "recache"
    BY <1>1, <1>5, <1>8, Reopens
  <2>2. ~Waits(u) /\ ~Waits(u)' /\ u \notin Past' /\ turn'[u].pc # "counted"
    BY <1>8, <2>1 DEF Waits, Past, Reopen
  <2> QED
    BY <1>3, <1>8, <2>2 DEF Reopen, history
<1>9. CASE Recache(u)
  <2>1. turn'[u].pc = "check" /\ turn[u].pc = "recache"
    BY <1>6, <1>9 DEF Recache, TurnPcs
  <2>2. ~Waits(u) /\ ~Waits(u)' /\ u \notin Past' /\ turn'[u].pc # "counted"
    BY <2>1 DEF Waits, Past
  <2> QED
    BY <1>3, <1>9, <2>2 DEF Recache, history
<1>10. CASE Check(u)
  <2>1. CASE Leave(u)
    <3>1. ~Waits(u)
      BY <1>10 DEF Check, Waits
    <3> QED
      BY <1>3, <1>5, <1>10, <2>1, <3>1 DEF Check
  <2>2. CASE ~Leave(u)
    <3>1. turn[u].pc = "check" /\ turn'[u].pc = "run" /\ count < Limit
      BY <1>1, <1>10, <2>2, Checks DEF Check
    <3>2. count' = count /\ answered' = answered /\ uncounted' = uncounted
      BY <1>10 DEF Check
    <3>3. ~Waits(u) /\ ~Waits(u)'
      BY <3>1 DEF Waits
    <3>4. Waiting' = Waiting
      BY <1>2, <3>3, SetsAfter
    <3>5. Past' \in SUBSET Users
      BY DEF Past
    <3>6. Cardinality(Past)' \in Nat /\ Cardinality(Past)' <= Cardinality(Users)
      BY <3>5, SomeUsers
    <3>7. count \in Nat /\ Cardinality(Users) \in Nat
      BY <1>1, <3>5, SomeUsers, CountsAre
    <3>8. count + Cardinality(Past)' < Limit + Cardinality(Users)
      BY <3>1, <3>6, <3>7, Numbers
    <3>9. Alone => Alone'
      BY <1>2, <3>1, <3>2, AloneKept
    <3>10. Cardinality(Waiting)' = Cardinality(Waiting)
      BY <3>4
    <3> QED
      BY <3>2, <3>8, <3>9, <3>10 DEF LInv
  <2> QED
    BY <2>1, <2>2
<1>11. CASE Run(u)
  <2>1. turn[u].pc = "run" /\ turn'[u].pc = "chat" /\ turn'[u].how = "answer"
    BY <1>1, <1>11, Appended DEF Run, Answers, Hows
  <2> QED
    BY <1>1, <1>2, <1>11, <2>1, LimitAnswered DEF Run
<1>12. CASE SaveChat(u)
  <2>1. turn[u].pc = "chat" /\ turn'[u].pc = "record" /\ turn'[u].how = turn[u].how
    BY <1>6, <1>12 DEF SaveChat, TurnPcs
  <2>2. (Waits(u) <=> Waits(u)') /\ (u \in Past' => u \in Past)
    BY <2>1 DEF Waits, Past
  <2> QED
    BY <1>3, <1>12, <2>1, <2>2 DEF SaveChat, history
<1>13. CASE SaveRecord(u)
  <2>1. turn[u].pc = "record" /\ turn'[u].pc = "cache" /\ turn'[u].how = turn[u].how
    BY <1>6, <1>13 DEF SaveRecord, TurnPcs
  <2>2. (Waits(u) <=> Waits(u)') /\ (u \in Past' => u \in Past)
    BY <2>1 DEF Waits, Past
  <2> QED
    BY <1>3, <1>13, <2>1, <2>2 DEF SaveRecord
<1>14. CASE SetCache(u)
  <2>1. CASE turn[u].how = "raised"
    <3>1. turn[u].pc = "cache" /\ Leave(u) /\ ~Waits(u)
      BY <1>14, <2>1 DEF SetCache, Ends, Waits
    <3> QED
      BY <1>3, <1>5, <1>14, <3>1 DEF SetCache, history
  <2>2. CASE turn[u].how # "raised"
    <3>1. turn[u].pc = "cache" /\ ((Goes(u, "end") /\ ChunkFirst(u)) \/ Goes(u, "count"))
      BY <1>14, <2>2 DEF SetCache, Ends
    <3>2. \/ turn'[u].pc = "end" /\ ChunkFirst(u)'
          \/ turn'[u].pc = "count"
      BY <1>6, <3>1 DEF TurnPcs
    <3>3. Waits(u) /\ Waits(u)' /\ u \in Past
      BY <2>2, <3>1, <3>2 DEF Waits, Past
    <3> QED
      BY <1>3, <1>14, <3>2, <3>3 DEF SetCache, history
  <2> QED
    BY <2>1, <2>2
<1>15. CASE End(u)
  <2>1. CASE ChunkFirst(u)
    <3>1. turn[u].pc = "end" /\ turn'[u].pc = "count"
      BY <1>6, <1>15, <2>1 DEF End, TurnPcs
    <3>2. Waits(u) /\ Waits(u)' /\ u \in Past
      BY <2>1, <3>1 DEF Waits, Past
    <3> QED
      BY <1>3, <1>15, <3>1, <3>2 DEF End
  <2>2. CASE ~ChunkFirst(u)
    <3>1. turn[u].pc = "end" /\ Leave(u) /\ ~Waits(u)
      BY <1>15, <2>2 DEF End, Waits
    <3> QED
      BY <1>3, <1>5, <1>15, <3>1 DEF End
  <2> QED
    BY <2>1, <2>2
<1>16. CASE CountRead(u)
  <2>1. /\ turn[u].pc = "count" /\ turn'[u].pc = "counted" /\ turn'[u].seen = count
        /\ count' = count /\ answered' = answered
        /\ uncounted' = (uncounted \/ \E v \in Users \ {u} : turn[v].pc = "counted")
    BY <1>1, <1>16, CountReads DEF CountRead
  <2> SUFFICES ASSUME ~uncounted'
               PROVE  /\ answered' <= count' + Cardinality(Waiting)'
                      /\ count' + Cardinality(Past)' < Limit + Cardinality(Users)
                      /\ Alone'
    BY DEF LInv
  <2>2. /\ answered <= count + Cardinality(Waiting)
        /\ count + Cardinality(Past) < Limit + Cardinality(Users)
    BY <2>1 DEF LInv
  <2>3. Waits(u) /\ Waits(u)' /\ u \in Past /\ u \in Past'
    BY <2>1 DEF Waits, Past
  <2>4. Waiting' = Waiting /\ Past' = Past
    BY <1>2, <2>3, SetsAfter
  <2>5. Cardinality(Waiting)' = Cardinality(Waiting) /\ Cardinality(Past)' = Cardinality(Past)
    BY <2>4
  <2>6. \A v \in Users \ {u} : turn'[v].pc # "counted"
    BY <1>2, <2>1 DEF Only
  <2>7. Alone'
    BY <2>1, <2>6 DEF Alone
  <2> QED
    BY <2>1, <2>2, <2>5, <2>7
<1>17. CASE CountWrite(u)
  <2>1. turn[u].pc = "counted" /\ count' = turn[u].seen + 1 /\ answered' = answered
        /\ uncounted' = uncounted
    BY <1>17 DEF CountWrite, history
  <2>2. ~Waits(u)' /\ u \notin Past' /\ turn'[u].pc # "counted"
    <3>1. CASE ChunkFirst(u)
      BY <1>5, <1>17, <3>1 DEF CountWrite
    <3>2. CASE ~ChunkFirst(u)
      <4>1. turn'[u].pc = "end" /\ ~ChunkFirst(u)'
        BY <1>6, <1>17, <3>2 DEF CountWrite, TurnPcs
      <4> QED
        BY <4>1 DEF Waits, Past
    <3> QED
      BY <3>1, <3>2
  <2>3. Waits(u) /\ u \in Past
    BY <2>1 DEF Waits, Past
  <2>4. Waiting' = Waiting \ {u} /\ u \in Waiting /\ Past' = Past \ {u}
    BY <1>2, <2>2, <2>3, SetsAfter
  <2>5. /\ Waiting \in SUBSET Users /\ Past \in SUBSET Users /\ count \in Nat /\ answered \in Nat
        /\ Cardinality(Waiting) \in Nat /\ Cardinality(Past) \in Nat
    BY <1>1, CountsAre
  <2>6. /\ Cardinality(Waiting)' = Cardinality(Waiting) - 1
        /\ Cardinality(Past)' = Cardinality(Past) - 1
        /\ Cardinality(Users) \in Nat
    BY <2>3, <2>4, <2>5, SomeUsers
  <2> SUFFICES ASSUME ~uncounted'
               PROVE  /\ answered' <= count' + Cardinality(Waiting)'
                      /\ count' + Cardinality(Past)' < Limit + Cardinality(Users)
                      /\ Alone'
    BY DEF LInv
  <2>7. /\ answered <= count + Cardinality(Waiting)
        /\ count + Cardinality(Past) < Limit + Cardinality(Users)
        /\ Alone
    BY <2>1 DEF LInv
  <2>8. count' = count + 1 /\ \A v \in Users \ {u} : turn[v].pc # "counted"
    BY <2>1, <2>7 DEF Alone
  <2>9. \A v \in Users : turn'[v].pc # "counted"
    BY <1>2, <2>2, <2>8 DEF Only
  <2>10. Alone'
    BY <2>9 DEF Alone
  <2> QED
    BY <2>1, <2>5, <2>6, <2>7, <2>8, <2>10, Numbers
<1>18. CASE Fail(u)
  <2>1. CASE Leave(u) /\ FailMarks(u, TRUE)
    BY <1>4, <2>1 DEF FailMarks
  <2>2. CASE ~(Leave(u) /\ FailMarks(u, TRUE))
    <3>1. /\ Appends(u, "exception") /\ ChunkFirst(u) /\ FailMarks(u, FALSE) /\ count' = count
          /\ turn[u].pc \in {"run", "chat", "record", "cache", "count", "counted"}
          /\ answered' = IF turn[u].pc = "run" THEN answered + 1 ELSE answered
      BY <1>18, <2>2 DEF Fail
    <3>2. turn'[u].pc = "chat" /\ turn'[u].how = "exception"
      BY <1>1, <3>1, Appended DEF Answers, Hows
    <3>3. uncounted' = uncounted
      BY <1>1, <3>1 DEF FailMarks, TypeOK
    <3>4. CASE turn[u].pc = "run"
      BY <1>1, <1>2, <3>1, <3>2, <3>3, <3>4, LimitAnswered
    <3>5. CASE turn[u].pc # "run"
      <4>1. Waits(u) /\ Waits(u)' /\ u \in Past
        BY <3>1, <3>2, <3>5 DEF Waits, Past, ChunkFirst
      <4> QED
        BY <1>3, <3>1, <3>2, <3>3, <3>5, <4>1
    <3> QED
      BY <3>4, <3>5
  <2> QED
    BY <2>1, <2>2
<1>19. CASE Disconnect(u)
  <2>1. Leave(u) /\ turn[u].pc \in {"run", "end"} /\ count' = count /\ answered' = answered
    BY <1>19 DEF Disconnect
  <2>2. CASE turn[u].pc = "end"
    BY <1>4, <1>19, <2>2 DEF Disconnect
  <2>3. CASE turn[u].pc = "run"
    <3>1. ~Waits(u) /\ (~uncounted' => ~uncounted)
      BY <1>19, <2>3 DEF Waits, Disconnect
    <3> QED
      BY <1>3, <1>5, <2>1, <3>1
  <2> QED
    BY <2>1, <2>2, <2>3
<1>20. CASE Raise(u)
  <2>1. turn[u].pc = "run" /\ count' = count /\ answered' = answered /\ uncounted' = uncounted
    BY <1>20 DEF Raise
  <2>2. ~Waits(u)
    BY <2>1 DEF Waits
  <2>3. CASE Leave(u)
    BY <1>3, <1>5, <2>1, <2>2, <2>3
  <2>4. CASE Appends(u, "raised")
    <3>1. turn'[u].pc = "chat" /\ turn'[u].how = "raised"
      BY <1>1, <2>1, <2>4, Appended DEF Answers, Hows
    <3>2. ~Waits(u)' /\ u \notin Past'
      BY <3>1 DEF Waits, Past
    <3> QED
      BY <1>3, <2>1, <2>2, <3>1, <3>2
  <2> QED
    BY <1>20, <2>3, <2>4 DEF Raise
<1> QED
  BY <1>7, <1>8, <1>9, <1>10, <1>11, <1>12, <1>13, <1>14, <1>15, <1>16, <1>17, <1>18, <1>19, <1>20
     DEF ATurn, TurnStep

LEMMA NextLimit ==
    ASSUME IInv, LInv, [Next]_vars
    PROVE  LInv'
<1>1. CASE \E u \in Users : ATurn(u)
  BY <1>1, TurnKeepsLimit
<1>2. ASSUME UNCHANGED <<kind, turn, count, answered, uncounted>> PROVE LInv'
  <2>1. Waiting' = Waiting /\ Past' = Past
    BY <1>2 DEF Waiting, Past, Waits, ChunkFirst
  <2>2. Cardinality(Waiting)' = Cardinality(Waiting) /\ Cardinality(Past)' = Cardinality(Past)
    BY <2>1
  <2>3. Alone => Alone'
    BY <1>2 DEF Alone
  <2> QED
    BY <1>2, <2>2, <2>3 DEF LInv
<1>3. CASE Reset
  <2>1. /\ count' = 0 /\ answered' = 0 /\ turn' = turn
        /\ uncounted' = (\E u \in Users : turn[u].pc = "counted")
    BY <1>3 DEF Reset
  <2>2. Waiting' \in SUBSET Users /\ Past' \in SUBSET Users
    BY DEF Waiting, Past
  <2>3. /\ Cardinality(Waiting)' \in Nat /\ Cardinality(Past)' \in Nat
        /\ Cardinality(Past)' <= Cardinality(Users) /\ Cardinality(Users) \in Nat
    BY <2>2, SomeUsers
  <2>4. ~uncounted' => Alone'
    BY <2>1 DEF Alone
  <2> QED
    BY <2>1, <2>3, <2>4, Numbers DEF LInv
<1>4. CASE \E v \in Voters : VoteSave(v) \/ VoteCommit(v) \/ \E r \in Records, b \in Votes : Vote(v, r, b)
  BY <1>2, <1>4 DEF Vote, VoteSave, VoteCommit, history
<1>5. CASE Expire \/ Clean \/ UNCHANGED vars
  BY <1>2, <1>5 DEF Expire, Clean, vars, history
<1> QED
  BY <1>1, <1>3, <1>4, <1>5 DEF Next, Rest, ATurn

LEMMA InitLimit == Init => LInv
<1> SUFFICES ASSUME Init PROVE LInv
  OBVIOUS
<1>1. \A u \in Users : turn[u].pc = "idle"
  BY NoTurnIs DEF Init
<1>2. Waiting = {} /\ Past = {} /\ Alone
  BY <1>1 DEF Waiting, Past, Waits, Alone
<1>3. Cardinality(Waiting) = 0 /\ Cardinality(Past) = 0 /\ count = 0 /\ answered = 0
  BY <1>2, FS_EmptySet DEF Init
<1>4. {} \in SUBSET Users
  OBVIOUS
<1>5. Cardinality(Users) \in Nat
  BY <1>4, SomeUsers
<1> QED
  BY <1>2, <1>3, <1>5, Numbers DEF LInv

\* A client is answered no more often in a day than its limit allows, but for the turns
\* that were past the check of the counter when it was reached: one for each, at most.
THEOREM TheLimitIsPassedByFew == Spec => []LimitHolds
<1>1. IInv /\ LInv => LimitHolds
  <2> SUFFICES ASSUME IInv, LInv, ~uncounted PROVE answered < Limit + Cardinality(Users)
    BY DEF LimitHolds
  <2>1. TypeOK
    BY DEF IInv
  <2>2. /\ answered <= count + Cardinality(Waiting)
        /\ count + Cardinality(Past) < Limit + Cardinality(Users)
    BY DEF LInv
  <2>3. Past \in SUBSET Users
    BY DEF Past
  <2> QED
    BY <2>1, <2>2, <2>3, CountsAre, SomeUsers, Numbers
<1>2. Spec => []LInv
  BY SpecIInv, InitLimit, NextLimit, PTL DEF Spec
<1> QED
  BY <1>1, <1>2, SpecIInv, PTL

-----------------------------------------------------------------------------
(* What the client was told.  Of a record that nobody raced for: it is     *)
(* answered by one turn at a time; its row has the new text from the time  *)
(* the turn has saved it, although the client gets that later, and else    *)
(* what the client was told; and so has the copy of whoever votes on it.   *)

Told(u) ==
    \/ turn[u].pc \in {"cache", "end"}
    \/ turn[u].pc \in {"count", "counted"} /\ ~ChunkFirst(u)

\* The answer that the client has, or the exception that it was not told.
Stands(r) == row[r].text = given[r] \/ row[r].text.how = "raised"

\* The answer that the row has while u is on it.
Says(u, r) == IF Told(u) THEN row[r].text = Text(u, turn[u].how) ELSE Stands(r)

VotersSay(r) == \A v \in VotersOn(r) : voter[v].copy.text = row[r].text

RSays(r) ==
    /\ \A u, v \in On(r) : u = v
    /\ On(r) = {} => Stands(r)
    /\ \A u \in On(r) : Says(u, r)
    /\ VotersSay(r)

RInv == \A r \in Records \ overwritten : RSays(r)

LEMMA SaysElsewhere ==
    ASSUME NEW u \in Users, Only(u), NEW r, u \notin On(r), u \notin On(r)', RSays(r),
           row'[r].text = row[r].text, given'[r] = given[r], voter' = voter, kind' = kind
    PROVE  RSays(r)'
<1>1. On(r)' = On(r)
  BY DEF On, Only
<1>2. ASSUME NEW v \in On(r) PROVE Says(v, r)'
  <2>1. v \in Users /\ v # u /\ turn'[v] = turn[v] /\ Says(v, r)
    BY <1>2 DEF On, Only, RSays
  <2> QED
    BY <2>1 DEF Says, Stands, Told, ChunkFirst, Text
<1>3. VotersSay(r)'
  BY DEF RSays, VotersSay, VotersOn
<1>4. Stands(r) => Stands(r)'
  BY DEF Stands
<1> QED
  BY <1>1, <1>2, <1>3, <1>4 DEF RSays

LEMMA SaysHere ==
    ASSUME NEW u \in Users, Only(u), NEW r, \A v \in On(r) : v = u, VotersSay(r)',
           u \in On(r)' => Says(u, r)',
           u \notin On(r)' => Stands(r)'
    PROVE  RSays(r)'
<1>1. \A v \in On(r)' : v = u
  BY DEF On, Only
<1> QED
  BY <1>1 DEF RSays

LEMMA TurnKeepsWhatWasTold ==
    ASSUME IInv, RInv, NEW u \in Users, ATurn(u)
    PROVE  RInv'
<1>1. /\ TypeOK /\ Apart /\ turn[u] \in Turns /\ turn[u].id \in Records
      /\ turn[u].how \in Hows
  BY DEF IInv, TypeOK, Turns, Births
<1>0. PICK own \in Records : own = turn[u].id
  BY <1>1
<1>2. Only(u) /\ kind' = kind /\ voter' = voter
  BY FitsKept DEF ATurn, TurnStep, Ask, Reopen, Recache, Check, Run, SaveChat, SaveRecord,
                  SetCache, End, CountRead, CountWrite, Fail, Raise, Disconnect
<1>3. overwritten \subseteq overwritten'
  BY <1>1 DEF ATurn, TurnStep, Ask, Reopen, Recache, Check, Run, SaveChat, SaveRecord,
         SetCache, End, CountRead, CountWrite, Fail, Raise, Disconnect, FailMarks, history
<1>4. \A r \in Records : u \in On(r) <=> (turn[u].pc # "idle" /\ turn[u].id = r)
  BY DEF On
<1>5. \A r \in Records : u \in On(r)' <=> (turn'[u].pc # "idle" /\ turn'[u].id = r)
  BY DEF On
\* The turn is on its record, before and after, or was before; nothing else is written.
<1>6. ASSUME turn[u].pc # "idle", turn'[u].pc = "idle" \/ turn'[u].id = turn[u].id,
             \A r \in Records \ {own} :
                row'[r].text = row[r].text /\ given'[r] = given[r],
             own \notin overwritten' /\ RSays(own) =>
                 VotersSay(own)' /\
                 IF turn'[u].pc = "idle" THEN Stands(own)' ELSE Says(u, own)'
      PROVE  RInv'
  <2> SUFFICES ASSUME NEW r \in Records, r \notin overwritten' PROVE RSays(r)'
    BY DEF RInv
  <2>1. RSays(r)
    BY <1>3 DEF RInv
  <2>2. CASE r = own
    <3>1. \A v \in On(r) : v = u
      BY <1>0, <1>4, <1>6, <2>1, <2>2 DEF RSays
    <3>2. VotersSay(r)'
      BY <1>6, <2>1, <2>2
    <3>3. u \in On(r)' => Says(u, r)'
      BY <1>5, <1>6, <2>1, <2>2
    <3>4. u \notin On(r)' => Stands(r)'
      BY <1>0, <1>5, <1>6, <2>1, <2>2
    <3> QED
      BY <1>2, <3>1, <3>2, <3>3, <3>4, SaysHere
  <2>3. CASE r # own
    <3>1. u \notin On(r) /\ u \notin On(r)'
      BY <1>0, <1>4, <1>5, <1>6, <2>3
    <3>2. row'[r].text = row[r].text /\ given'[r] = given[r]
      BY <1>6, <2>3
    <3> QED
      BY <1>2, <2>1, <3>1, <3>2, SaysElsewhere
  <2> QED
    BY <2>2, <2>3
<1>7. ASSUME row' = row PROVE \A r \in Records : VotersSay(r) => VotersSay(r)'
  BY <1>2, <1>7 DEF VotersSay, VotersOn
<1>8. ASSUME RSays(own), turn[u].pc # "idle" PROVE Says(u, own) /\ VotersSay(own)
  BY <1>0, <1>1, <1>4, <1>8 DEF RSays
\* A step that writes neither rows nor answers, of a turn that stays on its record.
<1>9. ASSUME turn[u].pc # "idle", row' = row, given' = given,
             \/ turn'[u].pc = "idle"
             \/ /\ turn'[u].id = turn[u].id /\ turn'[u].n = turn[u].n
                /\ (Told(u)' <=> Told(u))
                /\ Told(u) => turn'[u].how = turn[u].how,
             own \notin overwritten' /\ turn'[u].pc = "idle" =>
                ~Told(u) \/ turn[u].how = "raised"
      PROVE  RInv'
  <2>1. ASSUME own \notin overwritten', RSays(own)
        PROVE  VotersSay(own)' /\ IF turn'[u].pc = "idle" THEN Stands(own)' ELSE Says(u, own)'
    <3>1. Says(u, own) /\ VotersSay(own)'
      BY <1>1, <1>7, <1>8, <1>9, <2>1
    <3>2. CASE turn'[u].pc = "idle"
      <4>1. Told(u) => turn[u].how = "raised"
        BY <1>9, <2>1, <3>2
      <4>2. Stands(own)
        BY <3>1, <4>1 DEF Says, Stands, Text
      <4> QED
        BY <1>9, <3>1, <3>2, <4>2 DEF Stands
    <3>3. CASE turn'[u].pc # "idle"
      <4>1. turn'[u].n = turn[u].n /\ (Told(u)' <=> Told(u))
            /\ (Told(u) => turn'[u].how = turn[u].how)
        BY <1>9, <3>3
      <4>2. Told(u) => Text(u, turn[u].how)' = Text(u, turn[u].how)
        BY <4>1 DEF Text
      <4>3. Says(u, own)'
        BY <1>9, <3>1, <4>1, <4>2 DEF Says, Stands, Text
      <4> QED
        BY <3>1, <3>3, <4>3
    <3> QED
      BY <3>2, <3>3
  <2> QED
    BY <1>6, <1>9, <2>1
<1>10. ASSUME Leave(u), turn[u].pc # "idle", row' = row, given' = given,
              own \notin overwritten' => ~Told(u) \/ turn[u].how = "raised"
       PROVE  RInv'
  <2>1. turn'[u].pc = "idle"
    BY <1>1, <1>10, Leaves, NoTurnIs
  <2> QED
    BY <1>9, <1>10, <2>1
<1>11. ASSUME NEW pc \in TurnPcs, Goes(u, pc)
       PROVE  /\ turn'[u].pc = pc /\ (ChunkFirst(u)' <=> ChunkFirst(u))
              /\ turn'[u].id = turn[u].id /\ turn'[u].n = turn[u].n
              /\ turn'[u].how = turn[u].how
  BY <1>1, <1>2, <1>11, GoesIs DEF Stays, ChunkFirst
<1>12. ASSUME NEW pc \in TurnPcs, Goes(u, pc), turn[u].pc # "idle", row' = row, given' = given,
              pc # "idle", Told(u)' <=> Told(u)
       PROVE  RInv'
  BY <1>9, <1>11, <1>12
<1>13. CASE \E r \in {0} \cup Records : Ask(u, r)
  <2>1. PICK r0 \in {0} \cup Records : Ask(u, r0)
    BY <1>13
  <2>2. PICK id : id = IF r0 = 0 THEN requests + 2 ELSE r0
    OBVIOUS
  <2>3. /\ turn'[u].pc = (IF cache.live THEN "check" ELSE "reopen") /\ turn[u].pc = "idle"
        /\ turn'[u].id = id /\ id \in Records
    BY <1>1, <2>1, <2>2, Asks DEF Ask
  <2>4. /\ row' = row /\ given' = given
        /\ overwritten' = IF On(id) = {} THEN overwritten ELSE overwritten \cup {id}
    BY <2>1, <2>2 DEF Ask
  <2>5. ~Told(u)' /\ turn'[u].pc # "idle"
    BY <2>3 DEF Told
  <2> SUFFICES ASSUME NEW r \in Records, r \notin overwritten' PROVE RSays(r)'
    BY DEF RInv
  <2>6. RSays(r)
    BY <1>3 DEF RInv
  <2>7. CASE r # id
    <3>1. u \notin On(r) /\ u \notin On(r)'
      BY <1>4, <1>5, <2>3, <2>7
    <3> QED
      BY <1>2, <2>4, <2>6, <3>1, SaysElsewhere
  <2>8. CASE r = id
    <3>1. On(r) = {}
      BY <2>4, <2>8
    <3>2. Stands(r) /\ VotersSay(r)'
      BY <1>7, <2>4, <2>6, <3>1 DEF RSays
    <3>3. Says(u, r)'
      BY <2>4, <2>5, <3>2 DEF Says, Stands
    <3>4. u \in On(r)'
      BY <1>5, <2>3, <2>5, <2>8
    <3> QED
      BY <1>2, <3>1, <3>2, <3>3, <3>4, SaysHere
  <2> QED
    BY <2>7, <2>8
<1>14. CASE Reopen(u)
  <2>1. turn[u].pc = "reopen" /\ row' = row /\ given' = given /\ ~Told(u)
    BY <1>14 DEF Reopen, history, Told
  <2>2. CASE Leave(u)
    BY <1>10, <2>1, <2>2
  <2>3. CASE ~Leave(u)
    <3>1. /\ turn'[u].pc = "recache" /\ turn'[u].id = turn[u].id /\ turn'[u].n = turn[u].n
      BY <1>1, <1>14, <2>3, Reopens DEF Stays
    <3>2. ~Told(u)'
      BY <3>1 DEF Told
    <3> QED
      BY <1>9, <2>1, <3>1, <3>2
  <2> QED
    BY <2>2, <2>3
<1>15. CASE Recache(u)
  <2>1. /\ turn[u].pc = "recache" /\ row' = row /\ given' = given /\ Goes(u, "check")
        /\ "check" \in TurnPcs
    BY <1>15 DEF Recache, history, TurnPcs
  <2>2. ~Told(u) /\ ~Told(u)'
    BY <1>11, <2>1 DEF Told
  <2> QED
    BY <1>12, <2>1, <2>2
<1>16. CASE Check(u)
  <2>1. turn[u].pc = "check" /\ row' = row /\ given' = given /\ ~Told(u)
    BY <1>16 DEF Check, Told
  <2>2. CASE Leave(u)
    BY <1>10, <2>1, <2>2
  <2>3. CASE ~Leave(u)
    <3>1. turn'[u].pc = "run" /\ turn'[u].id = turn[u].id /\ turn'[u].n = turn[u].n
      BY <1>1, <1>16, <2>3, Checks DEF Stays
    <3>2. ~Told(u)'
      BY <3>1 DEF Told
    <3> QED
      BY <1>9, <2>1, <3>1, <3>2
  <2> QED
    BY <2>2, <2>3
<1>17. CASE Run(u)
  <2>1. /\ turn[u].pc = "run" /\ row' = row /\ given' = given
        /\ turn'[u].pc = "chat" /\ turn'[u].id = turn[u].id /\ turn'[u].n = turn[u].n
    BY <1>1, <1>17, Appended DEF Run, Answers, Hows
  <2>2. ~Told(u) /\ ~Told(u)'
    BY <2>1 DEF Told
  <2> QED
    BY <1>9, <2>1, <2>2
<1>18. CASE SaveChat(u)
  <2>1. /\ turn[u].pc = "chat" /\ row' = row /\ given' = given /\ Goes(u, "record")
        /\ "record" \in TurnPcs
    BY <1>18 DEF SaveChat, history, TurnPcs
  <2>2. ~Told(u) /\ ~Told(u)'
    BY <1>11, <2>1 DEF Told
  <2> QED
    BY <1>12, <2>1, <2>2
<1>19. CASE SaveRecord(u)
  <2>1. PICK r : r = own
    OBVIOUS
  <2>2. /\ r \in Records /\ OnlyRow(r) /\ row'[r].text = Text(u, turn[u].how)
        /\ Stays(u) /\ turn'[u].pc = "cache" /\ turn[u].pc = "record"
        /\ given' = given
        /\ overwritten' = IF VotersOn(r) = {} THEN overwritten ELSE overwritten \cup {r}
    BY <1>0, <1>19, <2>1, Saves DEF SaveRecord
  <2>3. Told(u)' /\ Text(u, turn[u].how)' = Text(u, turn[u].how)
    BY <2>2 DEF Told, Stays, Text
  <2>4. Says(u, r)'
    BY <2>2, <2>3 DEF Says
  <2>5. \A s \in Records \ {r} : row'[s].text = row[s].text /\ given'[s] = given[s]
    BY <2>2 DEF OnlyRow
  <2>6. r \notin overwritten' => VotersSay(r)'
    BY <1>2, <2>2 DEF VotersSay, VotersOn
  <2> QED
    BY <1>6, <2>1, <2>2, <2>4, <2>5, <2>6 DEF Stays
<1>20. CASE SetCache(u)
  <2>1. turn[u].pc = "cache" /\ row' = row /\ given' = given
    BY <1>20 DEF SetCache, history
  <2>2. CASE turn[u].how = "raised"
    <3>1. Leave(u)
      BY <1>20, <2>2 DEF SetCache, Ends
    <3> QED
      BY <1>10, <2>1, <2>2, <3>1
  <2>3. CASE turn[u].how # "raised"
    <3>1. PICK pc \in TurnPcs : pc = IF ChunkFirst(u) THEN "end" ELSE "count"
      BY DEF TurnPcs
    <3>2. Goes(u, pc)
      BY <1>20, <2>3, <3>1 DEF SetCache, Ends
    <3>3. Told(u) /\ Told(u)'
      BY <1>11, <2>1, <3>1, <3>2 DEF Told
    <3> QED
      BY <1>12, <2>1, <3>1, <3>2, <3>3
  <2> QED
    BY <2>2, <2>3
<1>21. CASE End(u)
  <2>1. PICK r : r = own
    OBVIOUS
  <2>2. PICK text : text = Text(u, turn[u].how)
    OBVIOUS
  <2>3. /\ turn[u].pc = "end" /\ row' = row /\ given' = [given EXCEPT ![r] = text]
        /\ given \in [Records -> Texts] /\ r \in Records /\ Told(u)
    BY <1>0, <1>1, <1>21, <2>1, <2>2 DEF End, Told, TypeOK
  <2>4. given'[r] = text /\ \A s \in Records \ {r} : given'[s] = given[s]
    BY <2>3
  <2>5. RSays(r) => Stands(r)' /\ VotersSay(r)'
    BY <1>7, <1>8, <2>1, <2>2, <2>3, <2>4 DEF Says, Stands
  <2>6. CASE ChunkFirst(u)
    <3>1. Goes(u, "count") /\ "count" \in TurnPcs
      BY <1>21, <2>6 DEF End, TurnPcs
    <3>2. turn'[u].pc = "count" /\ ChunkFirst(u)' /\ turn'[u].id = r
      BY <1>0, <1>11, <2>1, <2>6, <3>1
    <3>3. ~Told(u)'
      BY <3>2 DEF Told
    <3>4. RSays(r) => Says(u, r)'
      BY <2>5, <3>3 DEF Says
    <3> QED
      BY <1>0, <1>6, <2>1, <2>3, <2>4, <2>5, <3>2, <3>4
  <2>7. CASE ~ChunkFirst(u)
    <3>1. turn'[u].pc = "idle"
      BY <1>1, <1>21, <2>7, Leaves, NoTurnIs DEF End
    <3> QED
      BY <1>6, <2>1, <2>3, <2>4, <2>5, <3>1
  <2> QED
    BY <2>6, <2>7
<1>22. CASE CountRead(u)
  <2>1. /\ turn[u].pc = "count" /\ row' = row /\ given' = given
        /\ turn'[u].pc = "counted" /\ turn'[u].id = turn[u].id /\ turn'[u].n = turn[u].n
        /\ turn'[u].how = turn[u].how
    BY <1>1, <1>22, CountReads DEF CountRead
  <2>2. Told(u)' <=> Told(u)
    BY <1>2, <2>1 DEF Told, ChunkFirst
  <2> QED
    BY <1>9, <2>1, <2>2
<1>23. CASE CountWrite(u)
  <2>1. turn[u].pc = "counted" /\ row' = row /\ given' = given
    BY <1>23 DEF CountWrite, history
  <2>2. CASE ChunkFirst(u)
    <3>1. ~Told(u) /\ Leave(u)
      BY <1>23, <2>1, <2>2 DEF Told, CountWrite
    <3> QED
      BY <1>10, <2>1, <3>1
  <2>3. CASE ~ChunkFirst(u)
    <3>1. Goes(u, "end") /\ "end" \in TurnPcs
      BY <1>23, <2>3 DEF CountWrite, TurnPcs
    <3>2. Told(u) /\ Told(u)'
      BY <1>11, <2>1, <2>3, <3>1 DEF Told
    <3> QED
      BY <1>12, <2>1, <3>1, <3>2
  <2> QED
    BY <2>2, <2>3
<1>24. CASE Fail(u)
  <2>1. /\ row' = row /\ given' = given
        /\ turn[u].pc \in {"run", "chat", "record", "cache", "count", "counted"}
        /\ FailMarks(u, FALSE) \/ FailMarks(u, TRUE)
    BY <1>24 DEF Fail
  <2>2. overwritten' = IF turn[u].pc \in {"cache", "count", "counted"}
                       THEN overwritten \cup {turn[u].id} ELSE overwritten
    BY <2>1 DEF FailMarks
  <2>3. own \notin overwritten' => ~Told(u)
    BY <1>0, <2>1, <2>2 DEF Told
  <2>4. CASE Leave(u)
    BY <1>10, <2>1, <2>3, <2>4
  <2>5. CASE ~Leave(u)
    <3>1. Appends(u, "exception")
      BY <1>24, <2>5 DEF Fail
    <3>2. turn'[u].pc = "chat" /\ turn'[u].id = turn[u].id
      BY <1>1, <3>1, Appended DEF Answers, Hows
    <3>3. ~Told(u)'
      BY <3>2 DEF Told
    <3>4. ASSUME own \notin overwritten', RSays(own)
          PROVE  VotersSay(own)' /\ Says(u, own)'
      <4>1. Says(u, own) /\ VotersSay(own)'
        BY <1>1, <1>7, <1>8, <2>1, <3>4
      <4>2. Stands(own)
        BY <2>3, <3>4, <4>1 DEF Says
      <4>3. Says(u, own)'
        BY <2>1, <3>3, <4>2 DEF Says, Stands
      <4> QED
        BY <4>1, <4>3
    <3> QED
      BY <1>6, <2>1, <3>2, <3>4
  <2> QED
    BY <2>4, <2>5
<1>25. CASE Disconnect(u)
  <2>1. /\ row' = row /\ given' = given /\ Leave(u) /\ turn[u].pc \in {"run", "end"}
        /\ overwritten' = IF turn[u].pc = "end" THEN overwritten \cup {turn[u].id} ELSE overwritten
    BY <1>25 DEF Disconnect
  <2>2. own \notin overwritten' => ~Told(u)
    BY <1>0, <2>1 DEF Told
  <2> QED
    BY <1>10, <2>1, <2>2
<1>26. CASE Raise(u)
  <2>1. turn[u].pc = "run" /\ row' = row /\ given' = given /\ ~Told(u)
    BY <1>26 DEF Raise, Told
  <2>2. CASE Leave(u)
    BY <1>10, <2>1, <2>2
  <2>3. CASE Appends(u, "raised")
    <3>1. turn'[u].pc = "chat" /\ turn'[u].id = turn[u].id /\ turn'[u].n = turn[u].n
      BY <1>1, <2>3, Appended DEF Answers, Hows
    <3>2. ~Told(u)'
      BY <3>1 DEF Told
    <3> QED
      BY <1>9, <2>1, <3>1, <3>2
  <2> QED
    BY <1>26, <2>2, <2>3 DEF Raise
<1> QED
  BY <1>13, <1>14, <1>15, <1>16, <1>17, <1>18, <1>19, <1>20, <1>21, <1>22, <1>23, <1>24, <1>25,
     <1>26
     DEF ATurn, TurnStep

LEMMA NextKeepsWhatWasTold ==
    ASSUME IInv, RInv, [Next]_vars
    PROVE  RInv'
<1>1. TypeOK /\ RowType
  BY TypeOKRow DEF IInv
<1>2. CASE \E u \in Users : ATurn(u)
  BY <1>2, TurnKeepsWhatWasTold
\* Texts and turns stay, and so do the texts of the votes.
<1>3. ASSUME UNCHANGED <<kind, turn, given, overwritten>>,
             \A r \in Records : row'[r].text = row[r].text,
             \A r \in Records \ overwritten : RSays(r) => VotersSay(r)'
      PROVE  RInv'
  <2> SUFFICES ASSUME NEW r \in Records \ overwritten PROVE RSays(r)'
    BY <1>3 DEF RInv
  <2>1. RSays(r) /\ VotersSay(r)'
    BY <1>3 DEF RInv
  <2>2. On(r)' = On(r)
    BY <1>3 DEF On
  <2>3. \A u \in On(r) : Says(u, r) => Says(u, r)'
    BY <1>3 DEF Says, Stands, Told, ChunkFirst, Text
  <2>4. Stands(r) => Stands(r)'
    BY <1>3 DEF Stands
  <2> QED
    BY <1>3, <2>1, <2>2, <2>3, <2>4 DEF RSays
<1>4. ASSUME UNCHANGED <<kind, turn, given, overwritten, row, voter>> PROVE RInv'
  <2>1. \A r \in Records : VotersSay(r) => VotersSay(r)'
    BY <1>4 DEF VotersSay, VotersOn
  <2> QED
    BY <1>3, <1>4, <2>1 DEF RSays
<1>5. CASE \E v \in Voters : \E r \in Records, b \in Votes : Vote(v, r, b)
  <2>1. PICK v \in Voters, r \in Records, b \in Votes : Vote(v, r, b)
    BY <1>5
  <2>2. /\ OnlyVoter(v) /\ voter'[v].copy.id = r /\ voter'[v].copy.text = row[r].text
        /\ UNCHANGED <<kind, turn, given, overwritten, row>>
    BY <1>1, <2>1, VotesBegin DEF Vote, history
  <2>3. \A s \in Records : VotersSay(s) => VotersSay(s)'
    BY <2>2 DEF VotersSay, VotersOn, OnlyVoter
  <2> QED
    BY <1>3, <2>2, <2>3 DEF RSays
<1>6. CASE \E v \in Voters : VoteSave(v)
  <2>1. PICK v \in Voters : VoteSave(v)
    BY <1>6
  <2>2. /\ OnlyVoter(v) /\ voter'[v].copy = voter[v].copy /\ voter[v].pc = "save"
        /\ UNCHANGED <<kind, turn, given, overwritten, row>>
    BY <1>1, <2>1, VoteSaves DEF VoteSave, history
  <2>3. \A s \in Records : VotersSay(s) => VotersSay(s)'
    BY <2>2 DEF VotersSay, VotersOn, OnlyVoter
  <2> QED
    BY <1>3, <2>2, <2>3 DEF RSays
<1>7. CASE \E v \in Voters : VoteCommit(v)
  <2>1. PICK v \in Voters : VoteCommit(v)
    BY <1>7
  <2>2. PICK r : r = voter[v].copy.id
    OBVIOUS
  <2>3. /\ OnlyVoter(v) /\ voter'[v].pc = "idle" /\ voter[v].pc = "commit"
        /\ UNCHANGED <<kind, turn, given, overwritten>>
        /\ \/ row' = row
           \/ r \in Records /\ OnlyRow(r) /\ row'[r].text = voter[v].copy.text
    BY <2>1, <2>2, VoteCommits, NoVoterIs DEF VoteCommit
  \* The text that it writes is the one there is, unless somebody raced for the record.
  <2> SUFFICES ASSUME NEW s \in Records \ overwritten PROVE RSays(s)'
    BY <2>3 DEF RInv
  <2>4. RSays(s) /\ s \in Records
    BY DEF RInv
  <2>5. row'[s].text = row[s].text
    <3>1. CASE s = r
      <4>1. v \in VotersOn(s)
        BY <2>2, <2>3, <3>1 DEF VotersOn
      <4>2. voter[v].copy.text = row[s].text
        BY <2>4, <4>1 DEF RSays, VotersSay
      <4> QED
        BY <2>3, <3>1, <4>2
    <3>2. CASE s # r
      BY <2>3, <2>4, <3>2 DEF OnlyRow
    <3> QED
      BY <3>1, <3>2
  <2>6. \A w \in VotersOn(s)' : w \in VotersOn(s) /\ voter'[w] = voter[w]
    BY <2>3 DEF VotersOn, OnlyVoter
  <2>7. VotersSay(s)'
    BY <2>4, <2>5, <2>6 DEF VotersSay, RSays
  <2>8. On(s)' = On(s)
    BY <2>3 DEF On
  <2>9. \A u \in On(s) : Says(u, s) => Says(u, s)'
    BY <2>3, <2>5 DEF Says, Stands, Told, ChunkFirst, Text
  <2>10. Stands(s) => Stands(s)'
    BY <2>3, <2>5 DEF Stands
  <2> QED
    BY <2>3, <2>4, <2>5, <2>7, <2>8, <2>9, <2>10 DEF RSays
<1>8. CASE Clean
  <2>1. /\ OnlyRow(1) /\ row'[1].text = row[1].text
        /\ UNCHANGED <<kind, turn, given, overwritten, voter>>
    BY <1>1, <1>8, Cleans DEF Clean
  <2>2. \A r \in Records : row'[r].text = row[r].text
    BY <2>1 DEF OnlyRow
  <2>3. \A r \in Records : VotersSay(r) => VotersSay(r)'
    BY <2>1, <2>2 DEF VotersSay, VotersOn
  <2> QED
    BY <1>3, <2>1, <2>2, <2>3 DEF RSays
<1>9. CASE Expire \/ Reset \/ UNCHANGED vars
  BY <1>4, <1>9 DEF Expire, Reset, vars, history
<1> QED
  BY <1>2, <1>5, <1>6, <1>7, <1>8, <1>9 DEF Next, Rest, ATurn

LEMMA InitSays == Init => RInv
<1> SUFFICES ASSUME Init, NEW r \in Records PROVE RSays(r)
  BY DEF RInv
<1>1. On(r) = {} /\ VotersOn(r) = {}
  BY NoTurnIs, NoVoterIs DEF Init, On, VotersOn
<1>2. given[r] = row[r].text
  BY DEF Init
<1> QED
  BY <1>1, <1>2 DEF RSays, Stands, VotersSay

\* What the client was told last is what the record says, once no turn is on it, unless
\* two turns or a turn and a vote wrote it at once, or an exception or a disconnection
\* came between the record and the last chunk.  Only an exception that was raised before
\* there was a stream takes the place of an answer that the client has.
THEOREM RecordsSayWhatTheClientWasTold == Spec => []RecordsSayWhatWasTold
<1>1. RInv => RecordsSayWhatWasTold
  BY DEF RInv, RSays, Stands, RecordsSayWhatWasTold, There
<1>2. Spec => []RInv
  BY SpecIInv, InitSays, NextKeepsWhatWasTold, PTL DEF Spec
<1> QED
  BY <1>1, <1>2, PTL

-----------------------------------------------------------------------------
(* Votes stay.  Of a record that nobody outvoted, every copy has the vote  *)
(* that was acknowledged last: in the row, in the cache, in the list of a  *)
(* turn, and in the turn that will save it.                                *)

Checked == {"run", "chat", "record", "cache", "end", "count", "counted"}

Saved == {"cache", "end", "count", "counted"}

Kept(list) ==
    \A i \in DOMAIN list : list[i].id \notin outvoted => list[i].vote = voted[list[i].id]

VTurn(u) ==
    turn[u].pc # "idle" =>
        /\ Kept(turn[u].list)
        /\ turn[u].id \notin outvoted =>
             /\ turn[u].pc \in Checked \/ ~GoesOn(u) => turn[u].vote = voted[turn[u].id]
             /\ turn[u].pc \in Saved \/ GoesOn(u) => row[turn[u].id].there
        /\ turn[u].pc \notin Checked => turn[u].vote = "none"
        /\ 1 <= turn[u].n /\ turn[u].id <= requests + 1

VRows ==
    \A r \in Records \ outvoted :
        /\ row[r].there => row[r].vote = voted[r]
        /\ given[r] # NoText => row[r].there

\* Nothing is known of the records of later requests.
Unknown(r) == given[r] = NoText /\ voted[r] = "none" /\ ~row[r].there

VNew == \A r \in Records : requests + 1 < r => Unknown(r)

VInv ==
    /\ \A u \in Users : VTurn(u)
    /\ VRows /\ VNew
    /\ cache.live => Kept(cache.list)
    /\ \A v \in Voters : voter[v].pc # "idle" => voter[v].copy.id <= requests + 1

\* What was acknowledged, told and saved stays: where it does not, the record is outvoted.
Monotone ==
    /\ outvoted \subseteq outvoted' /\ requests <= requests'
    /\ \A r \in Records \ outvoted' : row[r].there => row'[r].there

LEMMA VTurnKept ==
    ASSUME TypeOK, TypeOK', Monotone, NEW v \in Users, VTurn(v), turn'[v] = turn[v],
           \A r \in Records \ outvoted' :
              turn[v].pc # "idle" /\ (turn[v].id = r \/ In(r, turn[v].list)) => voted'[r] = voted[r]
    PROVE  VTurn(v)'
<1> SUFFICES ASSUME turn[v].pc # "idle" PROVE VTurn(v)'
  BY DEF VTurn
<1>1. /\ turn[v] \in Turns /\ turn[v].id \in Records /\ turn[v].list \in Seq(Copies)
      /\ requests \in Nat /\ requests' \in Nat /\ turn[v].id \in Nat
  <2>1. turn[v] \in Turns /\ turn[v].id \in Records /\ turn[v].list \in Seq(Copies)
    BY DEF TypeOK, Turns
  <2>2. requests \in 0..MaxRequests /\ requests' \in 0..MaxRequests
    BY DEF TypeOK
  <2> QED
    BY <2>1, <2>2, Numbers DEF Records
<1>2. \A i \in DOMAIN turn[v].list : turn[v].list[i].id \in Records
  <2>1. \A i \in DOMAIN turn[v].list : turn[v].list[i] \in Copies
    BY <1>1
  <2> QED
    BY <2>1 DEF Copies
<1>3. Kept(turn[v].list)'
  <2> SUFFICES ASSUME NEW i \in DOMAIN turn[v].list, turn[v].list[i].id \notin outvoted'
               PROVE  turn[v].list[i].vote = voted'[turn[v].list[i].id]
    BY DEF Kept
  <2>1. PICK r \in Records : r = turn[v].list[i].id
    BY <1>2
  <2>2. r \notin outvoted /\ turn[v].list[i].vote = voted[r]
    BY <2>1 DEF Monotone, VTurn, Kept
  <2>3. voted'[r] = voted[r]
    BY <2>1 DEF In
  <2> QED
    BY <2>1, <2>2, <2>3
<1>4. PICK r \in Records : r = turn[v].id
  BY <1>1
<1>5. ASSUME r \notin outvoted'
      PROVE  /\ turn[v].pc \in Checked \/ ~GoesOn(v) => turn[v].vote = voted'[r]
             /\ turn[v].pc \in Saved \/ GoesOn(v) => row'[r].there
  <2>1. r \notin outvoted /\ voted'[r] = voted[r] /\ (row[r].there => row'[r].there)
    BY <1>4, <1>5 DEF Monotone
  <2> QED
    BY <1>4, <2>1 DEF VTurn
<1>7. turn[v].id <= requests' + 1
  BY <1>1 DEF VTurn, Monotone
<1>8. GoesOn(v)' <=> GoesOn(v)
  BY DEF GoesOn
<1>9. turn'[v].id = r
  BY <1>4
<1> QED
  BY <1>3, <1>4, <1>5, <1>7, <1>8, <1>9 DEF VTurn

\* A turn goes from one place to the next.
LEMMA VTurnMoves ==
    ASSUME TypeOK, NEW u \in Users, VTurn(u), turn[u].pc # "idle",
           turn'[u].id = turn[u].id, turn'[u].n = turn[u].n,
           turn'[u].list = turn[u].list, turn'[u].vote = turn[u].vote,
           turn'[u].pc \in Checked <=> turn[u].pc \in Checked,
           turn'[u].pc \in Saved => turn[u].pc \in Saved,
           UNCHANGED <<row, voted, outvoted, requests>>
    PROVE  VTurn(u)'
<1>1. PICK r : r = turn[u].id
  OBVIOUS
<1>2. PICK list : list = turn[u].list
  OBVIOUS
<1>3. Kept(list) => Kept(list)'
  BY DEF Kept
<1>4. Kept(turn[u].list)' <=> Kept(list)'
  BY <1>2 DEF Kept
<1>5. GoesOn(u)' <=> GoesOn(u)
  BY DEF GoesOn
<1>6. turn'[u].id = r
  BY <1>1
<1>7. Kept(list)
  BY <1>2 DEF VTurn
<1> QED
  BY <1>1, <1>3, <1>4, <1>5, <1>6, <1>7 DEF VTurn

LEMMA CopiesIn ==
    ASSUME TypeOK
    PROVE  /\ \A u \in Users : \A i \in DOMAIN turn[u].list : turn[u].list[i] \in Copies
           /\ \A i \in DOMAIN cache.list : cache.list[i] \in Copies
<1>1. ASSUME NEW u \in Users, NEW i \in DOMAIN turn[u].list PROVE turn[u].list[i] \in Copies
  <2>1. turn[u].list \in Seq(Copies)
    BY DEF TypeOK, Turns
  <2> QED
    BY <2>1
<1>2. ASSUME NEW i \in DOMAIN cache.list PROVE cache.list[i] \in Copies
  BY DEF TypeOK
<1> QED
  BY <1>1, <1>2

\* The turn's own part of the invariant after one of its steps.
LEMMA VTurnSteps ==
    ASSUME IInv, VInv, NEW u \in Users, ATurn(u)
    PROVE  VTurn(u)'
<1>1. /\ TypeOK /\ Apart /\ turn[u] \in Turns /\ turn[u].id \in Records
      /\ VTurn(u) /\ VRows /\ VNew
  BY DEF IInv, VInv, TypeOK, Turns, Births
<1>2. ASSUME Leave(u) PROVE VTurn(u)'
  BY <1>1, <1>2, Leaves, NoTurnIs DEF VTurn
<1>3. ASSUME NEW pc \in TurnPcs, Goes(u, pc), turn[u].pc # "idle",
             pc \in Checked <=> turn[u].pc \in Checked, pc \in Saved => turn[u].pc \in Saved,
             UNCHANGED <<row, voted, outvoted, requests>>
      PROVE  VTurn(u)'
  <2>1. /\ turn'[u].id = turn[u].id /\ turn'[u].n = turn[u].n /\ turn'[u].pc = pc
        /\ turn'[u].list = turn[u].list /\ turn'[u].vote = turn[u].vote
    BY <1>1, <1>3, GoesIs DEF Stays
  <2> QED
    BY <1>1, <1>3, <2>1, VTurnMoves
\* An answer is put into the list.
<1>4. ASSUME NEW how \in Hows, Answers(u, how), turn[u].pc \in Checked,
             UNCHANGED <<row, voted, outvoted, requests, given>>
      PROVE  VTurn(u)'
  <2>1. /\ turn'[u].id = turn[u].id /\ turn'[u].n = turn[u].n /\ turn'[u].pc = "chat"
        /\ turn'[u].vote = turn[u].vote /\ turn[u].pc # "idle"
    BY <1>4 DEF Answers, Checked
  <2>2. PICK copy : copy = Answer(u, how)
    OBVIOUS
  <2>3. copy.id = turn[u].id /\ copy.vote = turn[u].vote
    BY <1>1, <2>2, AnswerIs
  <2>4. copy.id \notin outvoted => copy.vote = voted[copy.id]
    BY <1>1, <1>4, <2>1, <2>3 DEF VTurn
  <2>5. Kept(turn[u].list)'
    <3> SUFFICES ASSUME NEW i \in DOMAIN turn'[u].list, turn'[u].list[i].id \notin outvoted
                 PROVE  turn'[u].list[i].vote = voted[turn'[u].list[i].id]
      BY <1>4 DEF Kept
    <3>1. CASE turn'[u].list[i] = copy
      BY <2>4, <3>1
    <3>2. CASE turn'[u].list[i] # copy
      <4>1. PICK j \in DOMAIN turn[u].list : turn'[u].list[i] = turn[u].list[j]
        BY <1>4, <2>2, <3>2 DEF Answers
      <4> QED
        BY <1>1, <2>1, <4>1 DEF VTurn, Kept
    <3> QED
      BY <3>1, <3>2
  <2>6. "chat" \in Checked /\ "chat" \notin Saved /\ (GoesOn(u)' <=> GoesOn(u))
    BY <2>1 DEF Checked, Saved, GoesOn
  <2> QED
    BY <1>1, <1>4, <2>1, <2>5, <2>6 DEF VTurn
<1>5. CASE \E r \in {0} \cup Records : Ask(u, r)
  <2>1. PICK r \in {0} \cup Records : Ask(u, r)
    BY <1>5
  <2>2. PICK id : id = IF r = 0 THEN requests + 2 ELSE r
    OBVIOUS
  <2>3. /\ turn'[u].pc = (IF cache.live THEN "check" ELSE "reopen")
        /\ turn'[u].list = (IF cache.live THEN cache.list ELSE <<>>)
        /\ turn'[u].id = id /\ id \in Records /\ turn'[u].n = requests + 1
        /\ turn'[u].vote = "none"
    BY <1>1, <2>1, <2>2, Asks
  <2>4. /\ requests' = requests + 1 /\ voted' = voted /\ outvoted' = outvoted /\ given' = given
        /\ r # 0 => given[r] # NoText \/ row[r].there
        /\ row' = row
    BY <2>1 DEF Ask
  <2>5. requests \in Nat /\ cache.live \in BOOLEAN /\ id \in Nat
    BY <1>1, <2>3, Numbers DEF TypeOK, Records
  <2>6. Kept(turn[u].list)'
    <3>1. CASE cache.live
      BY <2>3, <2>4, <3>1 DEF Kept, VInv
    <3>2. CASE ~cache.live
      <4>1. turn'[u].list = <<>>
        BY <2>3, <3>2
      <4>2. DOMAIN turn'[u].list = {}
        BY <4>1
      <4> QED
        BY <4>2 DEF Kept
    <3> QED
      BY <3>1, <3>2
  <2>7. turn'[u].pc \notin Checked /\ turn'[u].pc \notin Saved
    BY <2>3 DEF Checked, Saved
  <2>8. CASE r = 0
    <3>1. id = requests + 2 /\ ~GoesOn(u)'
      BY <2>2, <2>3, <2>5, <2>8 DEF GoesOn
    <3>2. voted[id] = "none"
      BY <1>1, <2>3, <2>5, <3>1 DEF VNew, Unknown
    <3>3. id <= requests + 1 + 1
      BY <2>5, <3>1
    <3> QED
      BY <2>3, <2>4, <2>5, <2>6, <2>7, <3>1, <3>2, <3>3 DEF VTurn
  <2>9. CASE r # 0
    <3>1. id = r /\ (given[id] # NoText \/ row[id].there)
      BY <2>2, <2>4, <2>9
    <3>2. id <= requests + 1
      BY <1>1, <2>3, <2>5, <3>1 DEF VNew, Unknown
    <3>5. id \notin outvoted => row[id].there
      BY <1>1, <2>3, <3>1 DEF VRows
    <3>3. GoesOn(u)'
      BY <2>3, <2>5, <3>2 DEF GoesOn
    <3>4. id <= requests + 1 + 1
      BY <2>5, <3>2
    <3> QED
      BY <2>3, <2>4, <2>5, <2>6, <2>7, <3>1, <3>3, <3>4, <3>5 DEF VTurn
  <2> QED
    BY <2>8, <2>9
<1>6. CASE Reopen(u)
  <2>1. CASE Leave(u)
    BY <1>2, <2>1
  <2>2. CASE ~Leave(u)
    <3>1. /\ turn'[u].pc = "recache" /\ turn[u].pc = "reopen" /\ turn'[u].vote = turn[u].vote
          /\ turn'[u].id = turn[u].id /\ turn'[u].n = turn[u].n
          /\ \A i \in DOMAIN turn'[u].list : \E r \in There : turn'[u].list[i] = CopyOf(r)
      BY <1>1, <1>6, <2>2, Reopens DEF Stays, Reopen
    <3>2. UNCHANGED <<row, voted, outvoted, requests, given>>
      BY <1>6 DEF Reopen, history
    <3>3. Kept(turn[u].list)'
      <4> SUFFICES ASSUME NEW i \in DOMAIN turn'[u].list, turn'[u].list[i].id \notin outvoted
                   PROVE  turn'[u].list[i].vote = voted[turn'[u].list[i].id]
        BY <3>2 DEF Kept
      <4>1. PICK r \in There : turn'[u].list[i] = CopyOf(r)
        BY <3>1
      <4>2. r \in Records /\ row[r].there
        BY <4>1 DEF There
      <4>3. turn'[u].list[i].id = r /\ turn'[u].list[i].vote = row[r].vote
        BY <1>1, <4>1, <4>2, CopyOfIs, TypeOKRow
      <4> QED
        BY <1>1, <4>2, <4>3 DEF VRows
    <3>4. /\ "recache" \notin Checked /\ "recache" \notin Saved /\ "reopen" \notin Checked
          /\ (GoesOn(u)' <=> GoesOn(u))
      BY <3>1 DEF Checked, Saved, GoesOn
    <3> QED
      BY <1>1, <3>1, <3>2, <3>3, <3>4 DEF VTurn
  <2> QED
    BY <2>1, <2>2
<1>7. CASE Recache(u)
  <2>1. turn[u].pc = "recache" /\ Goes(u, "check") /\ "check" \in TurnPcs
    BY <1>7 DEF Recache, TurnPcs
  <2>2. "recache" \notin Checked /\ "check" \notin Checked /\ "check" \notin Saved
    BY DEF Checked, Saved
  <2>3. UNCHANGED <<row, voted, outvoted, requests, given>>
    BY <1>7 DEF Recache, history
  <2> QED
    BY <1>3, <2>1, <2>2, <2>3
<1>8. CASE Check(u)
  <2>1. CASE Leave(u)
    BY <1>2, <2>1
  <2>2. CASE ~Leave(u)
    <3>1. /\ turn'[u].pc = "run" /\ turn[u].pc = "check" /\ turn'[u].list = turn[u].list
          /\ turn'[u].id = turn[u].id /\ turn'[u].n = turn[u].n
      BY <1>1, <1>8, <2>2, Checks DEF Stays, Check
    <3>2. PICK r \in Records : r = turn[u].id
      BY <1>1
    <3>3. /\ ~(kind = "workflow" /\ GoesOn(u)) => turn'[u].vote = "none"
          /\ kind = "workflow" /\ GoesOn(u) /\ In(r, turn[u].list) =>
               \E i \in DOMAIN turn[u].list : /\ turn[u].list[i].id = r
                                              /\ turn'[u].vote = turn[u].list[i].vote
          /\ kind = "workflow" /\ GoesOn(u) /\ ~In(r, turn[u].list) /\ row[r].there
               => turn'[u].vote = row[r].vote
      BY <1>1, <1>8, <2>2, <3>2, Checks
    <3>4. UNCHANGED <<row, voted, requests, given>> /\ outvoted \subseteq outvoted'
      BY <1>8 DEF Check
    <3>5. GoesOn(u) /\ kind # "workflow" => r \in outvoted'
      BY <1>8, <2>2, <3>2 DEF Check
    <3>6. /\ "check" \notin Checked /\ "run" \in Checked /\ "run" \notin Saved
          /\ (GoesOn(u)' <=> GoesOn(u))
      BY <3>1 DEF Checked, Saved, GoesOn
    <3>7. ASSUME r \notin outvoted' PROVE turn'[u].vote = voted[r]
      <4>1. r \notin outvoted
        BY <3>4, <3>7
      <4>2. CASE ~GoesOn(u)
        <5>1. turn[u].vote = "none" /\ turn[u].vote = voted[r]
          BY <1>1, <3>1, <3>2, <3>6, <4>1, <4>2 DEF VTurn
        <5> QED
          BY <3>3, <4>2, <5>1
      <4>3. CASE GoesOn(u)
        <5>1. kind = "workflow"
          BY <3>5, <3>7, <4>3
        <5>2. row[r].there /\ Kept(turn[u].list)
          BY <1>1, <3>1, <3>2, <4>1, <4>3 DEF VTurn
        <5>3. row[r].there /\ row[r].vote = voted[r]
          BY <1>1, <4>1, <5>2 DEF VRows
        <5>4. CASE In(r, turn[u].list)
          BY <3>3, <4>1, <4>3, <5>1, <5>2, <5>4 DEF Kept
        <5>5. CASE ~In(r, turn[u].list)
          BY <3>3, <4>3, <5>1, <5>3, <5>5
        <5> QED
          BY <5>4, <5>5
      <4> QED
        BY <4>2, <4>3
    <3>8. Kept(turn[u].list)'
      BY <1>1, <3>1, <3>4 DEF Kept, VTurn
    <3> QED
      BY <1>1, <3>1, <3>2, <3>4, <3>6, <3>7, <3>8 DEF VTurn
  <2> QED
    BY <2>1, <2>2
<1>9. CASE Run(u)
  <2>1. Answers(u, "answer") /\ turn[u].pc \in Checked /\ "answer" \in Hows
    BY <1>1, <1>9, Appended DEF Run, Checked, Hows
  <2>2. UNCHANGED <<row, voted, outvoted, requests, given>>
    BY <1>9 DEF Run
  <2> QED
    BY <1>4, <2>1, <2>2
<1>10. CASE SaveChat(u)
  <2>1. turn[u].pc = "chat" /\ Goes(u, "record") /\ "record" \in TurnPcs
    BY <1>10 DEF SaveChat, TurnPcs
  <2>2. "chat" \in Checked /\ "record" \in Checked /\ "record" \notin Saved
    BY DEF Checked, Saved
  <2>3. UNCHANGED <<row, voted, outvoted, requests, given>>
    BY <1>10 DEF SaveChat, history
  <2> QED
    BY <1>3, <2>1, <2>2, <2>3
<1>11. CASE SaveRecord(u)
  <2>1. PICK r : r = turn[u].id
    OBVIOUS
  <2>2. /\ turn'[u].id = r /\ turn'[u].n = turn[u].n /\ turn[u].pc = "record"
        /\ turn'[u].list = turn[u].list /\ turn'[u].vote = turn[u].vote
        /\ turn'[u].pc = "cache" /\ row'[r].there
    BY <1>11, <2>1, Saves DEF Stays, SaveRecord
  <2>3. UNCHANGED <<voted, outvoted, requests, given>>
    BY <1>11 DEF SaveRecord
  <2>4. "record" \in Checked /\ "cache" \in Checked /\ (GoesOn(u)' <=> GoesOn(u))
    BY <2>1, <2>2 DEF Checked, GoesOn
  <2> QED
    BY <1>1, <2>1, <2>2, <2>3, <2>4 DEF VTurn, Kept
<1>12. CASE SetCache(u)
  <2>1. turn[u].pc = "cache" /\ UNCHANGED <<row, voted, outvoted, requests, given>>
    BY <1>12 DEF SetCache, history
  <2>2. CASE Leave(u)
    BY <1>2, <2>2
  <2>3. CASE ~Leave(u)
    <3>1. PICK pc \in {"end", "count"} : Goes(u, pc)
      BY <1>12, <2>3 DEF SetCache, Ends
    <3>2. "cache" \in Checked /\ pc \in Checked /\ "cache" \in Saved /\ pc \in TurnPcs
      BY <3>1 DEF Checked, Saved, TurnPcs
    <3> QED
      BY <1>3, <2>1, <3>1, <3>2
  <2> QED
    BY <2>2, <2>3
<1>13. CASE End(u)
  <2>1. CASE ChunkFirst(u)
    <3>1. /\ turn[u].pc = "end" /\ Goes(u, "count") /\ "count" \in TurnPcs
          /\ UNCHANGED <<row, voted, outvoted, requests>>
      BY <1>13, <2>1 DEF End, TurnPcs
    <3>2. "end" \in Checked /\ "count" \in Checked /\ "end" \in Saved
      BY DEF Checked, Saved
    <3> QED
      BY <1>3, <3>1, <3>2
  <2>2. CASE ~ChunkFirst(u)
    BY <1>2, <1>13, <2>2 DEF End
  <2> QED
    BY <2>1, <2>2
<1>14. CASE CountRead(u)
  <2>1. /\ turn[u].pc = "count" /\ turn'[u].pc = "counted"
        /\ turn'[u].id = turn[u].id /\ turn'[u].n = turn[u].n
        /\ turn'[u].list = turn[u].list /\ turn'[u].vote = turn[u].vote
    BY <1>1, <1>14, CountReads DEF CountRead
  <2>2. UNCHANGED <<row, voted, outvoted, requests, given>>
    BY <1>14 DEF CountRead
  <2>3. "count" \in Checked /\ "counted" \in Checked /\ "count" \in Saved
    BY DEF Checked, Saved
  <2> QED
    BY <1>1, <2>1, <2>2, <2>3, VTurnMoves
<1>15. CASE CountWrite(u)
  <2>1. CASE ChunkFirst(u)
    BY <1>2, <1>15, <2>1 DEF CountWrite
  <2>2. CASE ~ChunkFirst(u)
    <3>1. /\ turn[u].pc = "counted" /\ Goes(u, "end") /\ "end" \in TurnPcs
          /\ UNCHANGED <<row, voted, outvoted, requests, given>>
      BY <1>15, <2>2 DEF CountWrite, TurnPcs, history
    <3>2. "counted" \in Checked /\ "end" \in Checked /\ "counted" \in Saved
      BY DEF Checked, Saved
    <3> QED
      BY <1>3, <3>1, <3>2
  <2> QED
    BY <2>1, <2>2
<1>16. CASE Fail(u)
  <2>1. CASE Leave(u)
    BY <1>2, <2>1
  <2>2. CASE ~Leave(u)
    <3>1. /\ Appends(u, "exception") /\ turn[u].pc \in Checked /\ "exception" \in Hows
          /\ UNCHANGED <<row, voted, outvoted, requests, given>>
      BY <1>16, <2>2 DEF Fail, Checked, Hows
    <3>2. Answers(u, "exception")
      BY <1>1, <3>1, Appended
    <3> QED
      BY <1>4, <3>1, <3>2
  <2> QED
    BY <2>1, <2>2
<1>17. CASE Disconnect(u)
  BY <1>2, <1>17 DEF Disconnect
<1>18. CASE Raise(u)
  <2>1. CASE Leave(u)
    BY <1>2, <2>1
  <2>2. CASE ~Leave(u)
    <3>1. /\ Appends(u, "raised") /\ turn[u].pc \in Checked /\ "raised" \in Hows
          /\ UNCHANGED <<row, voted, outvoted, requests, given>>
      BY <1>18, <2>2 DEF Raise, Checked, Hows
    <3>2. Answers(u, "raised")
      BY <1>1, <3>1, Appended
    <3> QED
      BY <1>4, <3>1, <3>2
  <2> QED
    BY <2>1, <2>2
<1> QED
  BY <1>5, <1>6, <1>7, <1>8, <1>9, <1>10, <1>11, <1>12, <1>13, <1>14, <1>15, <1>16, <1>17, <1>18
     DEF ATurn, TurnStep

\* The rest of the invariant after a step of a turn.
LEMMA TurnKeepsVotes ==
    ASSUME IInv, VInv, NEW u \in Users, ATurn(u)
    PROVE  VInv'
<1>1. /\ TypeOK /\ turn[u] \in Turns /\ turn[u].id \in Records /\ VTurn(u) /\ VRows /\ VNew
      /\ TypeOK' /\ requests \in Nat /\ requests' \in Nat
  <2>1. IInv'
    BY TurnKeepsIInv
  <2>2. TypeOK /\ TypeOK' /\ requests \in 0..MaxRequests /\ requests' \in 0..MaxRequests
    BY <2>1 DEF IInv, TypeOK
  <2>3. turn[u] \in Turns
    BY <2>2 DEF TypeOK
  <2> QED
    BY <2>2, <2>3, Numbers DEF VInv, Turns
<1>2. voted' = voted /\ voter' = voter /\ Only(u) /\ VTurn(u)'
  BY FitsKept, VTurnSteps DEF ATurn, TurnStep, Ask, Reopen, Recache, Check, Run, SaveChat,
        SaveRecord, SetCache, End, CountRead, CountWrite, Fail, Raise, Disconnect, history
<1>3. outvoted \subseteq outvoted'
  BY DEF ATurn, TurnStep, Ask, Reopen, Recache, Check, Run, SaveChat,
        SaveRecord, SetCache, End, CountRead, CountWrite, Fail, Raise, Disconnect, history
<1>4. requests <= requests'
  <2>1. requests' = requests \/ requests' = requests + 1
    BY DEF ATurn, TurnStep, Ask, Reopen, Recache, Check, Run, SaveChat,
        SaveRecord, SetCache, End, CountRead, CountWrite, Fail, Raise, Disconnect, history
  <2> QED
    BY <1>1, <2>1
<1>5. PICK own \in Records : own = turn[u].id
  BY <1>1
\* Rows.
<1>6. \/ row' = row
      \/ /\ SaveRecord(u) /\ OnlyRow(own) /\ row'[own].there /\ row'[own].vote = turn[u].vote
         /\ turn[u].pc = "record" /\ given' = given
  <2>1. CASE SaveRecord(u)
    BY <1>5, <2>1, Saves DEF SaveRecord
  <2>2. CASE ~SaveRecord(u)
    BY <2>2 DEF ATurn, TurnStep, Ask, Reopen, Recache, Check, Run, SaveChat,
        SetCache, End, CountRead, CountWrite, Fail, Raise, Disconnect, history
  <2> QED
    BY <2>1, <2>2
<1>7. \A r \in Records : row[r].there => row'[r].there
  BY <1>6 DEF OnlyRow
\* Answers.
<1>8. \/ given' = given
      \/ /\ row' = row /\ turn[u].pc = "end" /\ requests' = requests /\ outvoted' = outvoted
         /\ given'[own] # NoText
         /\ \A r \in Records \ {own} : given'[r] = given[r]
  <2>1. CASE End(u)
    <3>1. PICK text : text = Text(u, turn[u].how)
      OBVIOUS
    <3>2. /\ turn[u].pc = "end" /\ given' = [given EXCEPT ![own] = text]
          /\ row' = row /\ requests' = requests /\ outvoted' = outvoted
      BY <1>5, <2>1, <3>1 DEF End
    <3>3. text # NoText
      <4>1. text.turn = turn[u].n /\ 1 <= turn[u].n
        BY <1>1, <3>1, <3>2, AnswerIs DEF VTurn, Turns
      <4> QED
        BY <4>1 DEF NoText
    <3> QED
      BY <1>1, <3>2, <3>3 DEF TypeOK
  <2>2. CASE ~End(u)
    BY <2>2 DEF ATurn, TurnStep, Ask, Reopen, Recache, Check, Run, SaveChat,
        SaveRecord, SetCache, CountRead, CountWrite, Fail, Raise, Disconnect, history
  <2> QED
    BY <2>1, <2>2
<1>9. Monotone
  BY <1>3, <1>4, <1>7, <1>8 DEF Monotone
<1>10. \A v \in Users : VTurn(v)'
  <2> SUFFICES ASSUME NEW v \in Users, v # u PROVE VTurn(v)'
    BY <1>2
  <2>1. turn'[v] = turn[v] /\ VTurn(v)
    BY <1>2 DEF Only, VInv
  <2> QED
    BY <1>1, <1>2, <1>9, <2>1, VTurnKept
<1>11. VRows'
  <2> SUFFICES ASSUME NEW r \in Records, r \notin outvoted'
               PROVE  /\ row'[r].there => row'[r].vote = voted'[r]
                      /\ given'[r] # NoText => row'[r].there
    BY DEF VRows
  <2>1. /\ r \notin outvoted /\ (row[r].there => row[r].vote = voted[r])
        /\ (given[r] # NoText => row[r].there)
    BY <1>1, <1>3 DEF VRows
  <2>2. CASE row' = row /\ given' = given
    BY <1>2, <2>1, <2>2
  <2>3. CASE row' # row
    <3>1. CASE r = own
      <4>1. turn[u].vote = voted[r]
        BY <1>1, <1>5, <1>6, <2>1, <2>3, <3>1 DEF VTurn, Checked
      <4> QED
        BY <1>2, <1>6, <2>3, <3>1, <4>1
    <3>2. CASE r # own
      BY <1>2, <1>6, <2>1, <2>3, <3>2 DEF OnlyRow
    <3> QED
      BY <3>1, <3>2
  <2>4. CASE given' # given
    <3>1. CASE r = own
      <4>1. row[r].there
        BY <1>1, <1>5, <1>8, <2>1, <2>4, <3>1 DEF VTurn, Saved
      <4> QED
        BY <1>2, <1>8, <2>1, <2>4, <4>1
    <3>2. CASE r # own
      BY <1>2, <1>8, <2>1, <2>4, <3>2
    <3> QED
      BY <3>1, <3>2
  <2> QED
    BY <2>2, <2>3, <2>4
<1>12. VNew'
  <2> SUFFICES ASSUME NEW r \in Records, requests' + 1 < r
               PROVE  given'[r] = NoText /\ voted'[r] = "none" /\ ~row'[r].there
    BY DEF VNew, Unknown
  <2>1. r \in Nat
    BY Numbers DEF Records
  <2>2. requests + 1 < r
    <3>1. PICK now \in Nat : now = requests'
      BY <1>1
    <3>2. PICK old \in Nat : old = requests
      BY <1>1
    <3>3. old <= now
      BY <1>4, <3>1, <3>2
    <3>4. now + 1 < r
      BY <3>1
    <3>5. old + 1 < r
      BY <2>1, <3>3, <3>4
    <3> QED
      BY <3>2, <3>5
  <2>3. given[r] = NoText /\ voted[r] = "none" /\ ~row[r].there
    BY <1>1, <2>2 DEF VNew, Unknown
  <2>4. CASE given' = given /\ row' = row
    BY <1>2, <2>3, <2>4
  <2>5. CASE ~(given' = given /\ row' = row)
    <3>1. own <= requests + 1
      BY <1>1, <1>5, <1>6, <1>8, <2>5 DEF VTurn
    <3>2. r # own
      BY <1>1, <2>1, <2>2, <3>1
    <3>3. row'[r] = row[r]
      BY <1>6, <3>2 DEF OnlyRow
    <3> QED
      BY <1>2, <1>8, <2>3, <3>2, <3>3
  <2> QED
    BY <2>4, <2>5
<1>13. cache'.live => Kept(cache.list)'
  <2>1. CASE Recache(u)
    <3>1. cache' = [live |-> TRUE, list |-> turn[u].list] /\ turn[u].pc = "recache"
      BY <2>1 DEF Recache
    <3>2. cache'.list = turn[u].list
      BY <3>1
    <3>3. Kept(turn[u].list)
      BY <1>1, <3>1 DEF VTurn
    <3> QED
      BY <1>2, <1>3, <3>2, <3>3 DEF Kept
  <2>2. CASE SetCache(u)
    <3>1. PICK list : list = LastOf(CacheSize, turn[u].list)
      OBVIOUS
    <3>2. cache' = [live |-> TRUE, list |-> list] /\ turn[u].pc = "cache"
      BY <2>2, <3>1 DEF SetCache
    <3>3. cache'.list = list
      BY <3>2
    <3>4. Kept(turn[u].list) /\ turn[u].list \in Seq(Copies)
      BY <1>1, <3>2 DEF VTurn, Turns
    <3>5. \A i \in DOMAIN list : \E j \in DOMAIN turn[u].list : list[i] = turn[u].list[j]
      BY <3>1, <3>4, LastOfIs, Numbers
    <3>6. \A i \in DOMAIN list : list[i].id \notin outvoted' => list[i].vote = voted[list[i].id]
      BY <1>3, <3>4, <3>5 DEF Kept
    <3> QED
      BY <1>2, <3>3, <3>6 DEF Kept
  <2>3. CASE ~Recache(u) /\ ~SetCache(u)
    <3>1. cache' = cache
      BY <2>3 DEF ATurn, TurnStep, Ask, Reopen, Check, Run, SaveChat,
        SaveRecord, End, CountRead, CountWrite, Fail, Raise, Disconnect
    <3> QED
      BY <1>2, <1>3, <3>1 DEF Kept, VInv
  <2> QED
    BY <2>1, <2>2, <2>3
<1>14. \A v \in Voters : voter'[v].pc # "idle" => voter'[v].copy.id <= requests' + 1
  <2> SUFFICES ASSUME NEW v \in Voters, voter[v].pc # "idle"
               PROVE  voter[v].copy.id <= requests' + 1
    BY <1>2
  <2>1. voter[v].copy.id <= requests + 1 /\ voter[v].copy.id \in Records
    BY <1>1, TypeOKVoter DEF VInv
  <2>2. voter[v].copy.id \in Nat
    BY <2>1, Numbers DEF Records
  <2> QED
    BY <1>1, <1>4, <2>1, <2>2
<1> QED
  BY <1>10, <1>11, <1>12, <1>13, <1>14 DEF VInv

LEMMA OthersKeepVotes ==
    ASSUME IInv, VInv, [Next]_vars, ~(\E u \in Users : ATurn(u))
    PROVE  VInv'
<1>1. /\ TypeOK /\ TypeOK' /\ VRows /\ VNew
  <2>1. IInv'
    BY NextIInv
  <2> QED
    BY <2>1 DEF IInv, VInv
<1>2. requests \in 0..MaxRequests /\ requests' \in 0..MaxRequests
  BY <1>1 DEF TypeOK
<1>3. requests \in Nat /\ requests' \in Nat
  BY <1>2, Numbers
<1>4. /\ \A u \in Users : \A i \in DOMAIN turn[u].list : turn[u].list[i].id \in Records
      /\ \A i \in DOMAIN cache.list : cache.list[i].id \in Records
  BY <1>1, CopiesIn DEF Copies
\* Only a vote is begun or written, or time passes.
<1>5. ASSUME UNCHANGED <<row, turn, given, voted, outvoted>>, requests <= requests',
             cache' = cache \/ ~cache'.live,
             \A v \in Voters : voter'[v].pc # "idle" => voter'[v].copy.id <= requests' + 1
      PROVE  VInv'
  <2>1. Monotone
    BY <1>5 DEF Monotone
  <2>2. \A u \in Users : VTurn(u)'
    BY <1>1, <1>5, <2>1, VTurnKept DEF VInv
  <2>3. VRows'
    BY <1>1, <1>5 DEF VRows
  <2>4. VNew'
    <3> SUFFICES ASSUME NEW r \in Records, requests' + 1 < r
                 PROVE  Unknown(r)
      BY <1>5 DEF VNew, Unknown
    <3>1. PICK now \in Nat : now = requests'
      BY <1>3
    <3>2. PICK old \in Nat : old = requests
      BY <1>3
    <3>3. old <= now
      BY <1>5, <3>1, <3>2
    <3>4. now + 1 < r
      BY <3>1
    <3>5. r \in Nat
      BY Numbers DEF Records
    <3>6. old + 1 < r
      BY <3>3, <3>4, <3>5
    <3> QED
      BY <1>1, <3>2, <3>6 DEF VNew
  <2>5. cache'.live => Kept(cache.list)'
    BY <1>5 DEF Kept, VInv
  <2> QED
    BY <1>5, <2>2, <2>3, <2>4, <2>5 DEF VInv
<1>6. CASE \E v \in Voters : \E r \in Records, b \in Votes : Vote(v, r, b)
  <2>1. PICK v \in Voters, r \in Records, b \in Votes : Vote(v, r, b)
    BY <1>6
  <2>2. /\ OnlyVoter(v) /\ voter'[v].copy.id = r
        /\ UNCHANGED <<row, turn, given, voted, outvoted, cache>>
        /\ requests' = requests + 1 /\ row[r].there
    BY <1>1, <2>1, VotesBegin DEF Vote, history
  <2>3. r \in Nat /\ r <= requests + 1
    <3>1. r \in Nat /\ ~(requests + 1 < r)
      BY <1>1, <2>2, Numbers DEF VNew, Unknown, Records
    <3>2. PICK now \in Nat : now = requests
      BY <1>3
    <3>3. ~(now + 1 < r)
      BY <3>1, <3>2
    <3>4. r <= now + 1
      BY <3>1, <3>3
    <3> QED
      BY <3>1, <3>2, <3>4
  <2>4. requests <= requests' /\ r <= requests' + 1
    BY <1>3, <2>2, <2>3
  <2>5. ASSUME NEW w \in Voters, voter'[w].pc # "idle"
        PROVE  voter'[w].copy.id <= requests' + 1
    <3>1. CASE w = v
      BY <2>2, <2>4, <3>1
    <3>2. CASE w # v
      <4>1. voter'[w] = voter[w] /\ voter[w].copy.id \in Records
        BY <1>1, <2>2, <3>2, TypeOKVoter DEF OnlyVoter
      <4>2. voter[w].copy.id <= requests + 1 /\ voter[w].copy.id \in Nat
        BY <2>5, <4>1, Numbers DEF VInv, Records
      <4> QED
        BY <1>3, <2>2, <4>1, <4>2
    <3> QED
      BY <3>1, <3>2
  <2> QED
    BY <1>5, <2>2, <2>4, <2>5
<1>7. CASE \E v \in Voters : VoteSave(v)
  <2>1. PICK v \in Voters : VoteSave(v)
    BY <1>7
  <2>2. /\ OnlyVoter(v) /\ voter'[v].copy = voter[v].copy /\ voter[v].pc = "save"
        /\ UNCHANGED <<row, turn, given, voted, outvoted, cache, requests>>
    BY <1>1, <2>1, VoteSaves DEF VoteSave, history
  <2>3. \A w \in Voters : voter'[w].pc # "idle" => voter'[w].copy.id <= requests' + 1
    BY <2>2 DEF OnlyVoter, VInv
  <2>4. requests <= requests'
    BY <1>3, <2>2
  <2> QED
    BY <1>5, <2>2, <2>3, <2>4
<1>8. CASE \E v \in Voters : VoteCommit(v)
  <2>1. PICK v \in Voters : VoteCommit(v)
    BY <1>8
  <2>2. PICK r : r = voter[v].copy.id
    OBVIOUS
  <2>3. PICK b : b = voter[v].copy.vote
    OBVIOUS
  <2>4. /\ OnlyVoter(v) /\ voter'[v].pc = "idle" /\ voter[v].pc = "commit"
        /\ UNCHANGED <<turn, given, cache, requests>> /\ r \in Records /\ b \in Votes
    BY <1>1, <2>1, <2>2, <2>3, VoteCommits, NoVoterIs, TypeOKVoter DEF VoteCommit
  <2>5. \A w \in Voters : voter'[w].pc # "idle" => voter'[w].copy.id <= requests' + 1
    BY <2>4 DEF OnlyVoter, VInv
  <2>6. requests <= requests'
    BY <1>3, <2>4
  <2>7. CASE UNCHANGED <<row, voted, outvoted, moved>>
    BY <1>5, <2>4, <2>5, <2>6, <2>7
  <2>8. CASE ~UNCHANGED <<row, voted, outvoted, moved>>
    <3>1. /\ OnlyRow(r) /\ row'[r].there /\ row'[r].vote = b
          /\ voted' = [voted EXCEPT ![r] = b]
          /\ outvoted' = IF Remembered(r) THEN outvoted \cup {r} ELSE outvoted
      BY <2>1, <2>2, <2>3, <2>8, VoteCommits
    <3>2. voted'[r] = b /\ \A s \in Records \ {r} : voted'[s] = voted[s]
      BY <1>1, <2>4, <3>1 DEF TypeOK
    <3>3. outvoted \subseteq outvoted' /\ (Remembered(r) => r \in outvoted')
      BY <3>1
    <3>4. Monotone
      BY <2>4, <2>6, <3>1, <3>3 DEF Monotone, OnlyRow
    <3>5. ASSUME NEW u \in Users PROVE VTurn(u)'
      <4>1. ASSUME NEW s \in Records \ outvoted', turn[u].pc # "idle",
                   turn[u].id = s \/ In(s, turn[u].list)
            PROVE  voted'[s] = voted[s]
        <5>1. s # r
          BY <3>3, <4>1 DEF Remembered
        <5> QED
          BY <3>2, <5>1
      <4> QED
        BY <1>1, <2>4, <3>4, <4>1, VTurnKept DEF VInv
    <3>6. VRows'
      <4> SUFFICES ASSUME NEW s \in Records, s \notin outvoted'
                   PROVE  /\ row'[s].there => row'[s].vote = voted'[s]
                          /\ given[s] # NoText => row'[s].there
        BY <2>4 DEF VRows
      <4>1. CASE s = r
        BY <3>1, <3>2, <4>1
      <4>2. CASE s # r
        BY <1>1, <3>1, <3>2, <3>3, <4>2 DEF VRows, OnlyRow
      <4> QED
        BY <4>1, <4>2
    <3>7. VNew'
      <4>1. r <= requests + 1 /\ r \in Nat
        BY <2>2, <2>4, Numbers DEF VInv, Records
      <4> SUFFICES ASSUME NEW s \in Records, requests + 1 < s
                   PROVE  given[s] = NoText /\ voted'[s] = "none" /\ ~row'[s].there
        BY <2>4 DEF VNew, Unknown
      <4>2. s # r
        BY <1>3, <4>1
      <4>3. row'[s] = row[s]
        BY <3>1, <4>2 DEF OnlyRow
      <4> QED
        BY <1>1, <3>2, <4>2, <4>3 DEF VNew, Unknown
    <3>8. cache'.live => Kept(cache.list)'
      <4> SUFFICES ASSUME cache.live, NEW i \in DOMAIN cache.list,
                          cache.list[i].id \notin outvoted'
                   PROVE  cache.list[i].vote = voted'[cache.list[i].id]
        BY <2>4 DEF Kept
      <4>1. PICK s \in Records : s = cache.list[i].id
        BY <1>4
      <4>2. s # r
        BY <3>3, <4>1 DEF Remembered, In
      <4>3. cache.list[i].vote = voted[s]
        BY <3>3, <4>1 DEF VInv, Kept
      <4> QED
        BY <3>2, <4>1, <4>2, <4>3
    <3> QED
      BY <2>5, <3>5, <3>6, <3>7, <3>8 DEF VInv
  <2> QED
    BY <2>7, <2>8
<1>9. CASE Expire
  <2>1. /\ UNCHANGED <<row, turn, given, voted, outvoted, voter, requests>>
        /\ cache' = [live |-> FALSE, list |-> <<>>]
    BY <1>9 DEF Expire, history
  <2>2. ~cache'.live /\ requests <= requests'
    BY <1>3, <2>1
  <2>3. \A v \in Voters : voter'[v].pc # "idle" => voter'[v].copy.id <= requests' + 1
    BY <2>1 DEF VInv
  <2> QED
    BY <1>5, <2>1, <2>2, <2>3
<1>10. CASE Reset \/ UNCHANGED vars
  <2>1. UNCHANGED <<row, turn, given, voted, outvoted, voter, requests, cache>>
    BY <1>10 DEF Reset, vars, history
  <2>2. requests <= requests'
    BY <1>3, <2>1
  <2>3. \A v \in Voters : voter'[v].pc # "idle" => voter'[v].copy.id <= requests' + 1
    BY <2>1 DEF VInv
  <2> QED
    BY <1>5, <2>1, <2>2, <2>3
<1>11. CASE Clean
  <2>1. /\ OnlyRow(1) /\ outvoted' = outvoted \cup {1}
        /\ UNCHANGED <<turn, given, voted, voter, requests, cache>>
    BY <1>1, <1>11, Cleans DEF Clean
  <2>2. requests <= requests'
    BY <1>3, <2>1
  <2>3. Monotone
    BY <2>1, <2>2 DEF Monotone, OnlyRow
  <2>4. \A u \in Users : VTurn(u)'
    BY <1>1, <2>1, <2>3, VTurnKept DEF VInv
  <2>5. VRows'
    BY <1>1, <2>1 DEF VRows, OnlyRow
  <2>6. VNew'
    <3>1. \A r \in Records : row'[r].there => row[r].there
      BY <1>1, <1>11, <2>1, Cleans DEF OnlyRow, Clean
    <3> QED
      BY <1>1, <2>1, <3>1 DEF VNew, Unknown
  <2>7. cache'.live => Kept(cache.list)'
    BY <2>1 DEF VInv, Kept
  <2>8. \A v \in Voters : voter'[v].pc # "idle" => voter'[v].copy.id <= requests' + 1
    BY <2>1 DEF VInv
  <2> QED
    BY <2>4, <2>5, <2>6, <2>7, <2>8 DEF VInv
<1>12. \/ \E v \in Voters : VoteSave(v) \/ VoteCommit(v) \/ \E r \in Records, b \in Votes : Vote(v, r, b)
       \/ Expire \/ Clean \/ Reset
       \/ UNCHANGED vars
  BY DEF Next, Rest, ATurn
<1> QED
  BY <1>6, <1>7, <1>8, <1>9, <1>10, <1>11, <1>12

LEMMA InitVotes == Init => VInv
<1> SUFFICES ASSUME Init PROVE VInv
  OBVIOUS
<1>1. IInv
  BY InitIInv
<1>2. \A u \in Users : VTurn(u)
  BY NoTurnIs DEF Init, VTurn
<1>3. /\ \A r \in Records : r # 1 => row[r] = NoRow
      /\ \A r \in Records : given[r] = row[r].text /\ voted[r] = "none"
      /\ requests = 0
  BY DEF Init
<1>4. ASSUME NEW r \in Records
      PROVE  row[r].vote = "none" /\ (given[r] # NoText => row[r].there)
  <2>1. CASE row[r] = NoRow
    BY <1>3, <2>1, NoVoterIs
  <2>2. CASE row[r] # NoRow
    <3>1. row[r] = [NoRow EXCEPT !.there = TRUE, !.text = First]
      BY <2>2 DEF Init
    <3>2. PICK w : w = [NoRow EXCEPT !.there = TRUE, !.text = First]
      OBVIOUS
    <3>3. w.there /\ w.vote = "none"
      BY <3>2, NoVoterIs DEF Rows
    <3> QED
      BY <3>1, <3>2, <3>3
  <2> QED
    BY <2>1, <2>2
<1>5. VRows
  BY <1>3, <1>4 DEF VRows
<1>6. VNew
  <2> SUFFICES ASSUME NEW r \in Records, requests + 1 < r
               PROVE  given[r] = NoText /\ voted[r] = "none" /\ ~row[r].there
    BY DEF VNew, Unknown
  <2>1. r # 1
    BY <1>3
  <2> QED
    BY <1>3, <2>1, NoVoterIs
<1>7. cache.live => Kept(cache.list)
  <2>1. cache.list = <<>>
    BY DEF Init
  <2>2. DOMAIN cache.list = {}
    BY <2>1
  <2> QED
    BY <2>2 DEF Kept
<1>8. \A v \in Voters : voter[v].pc = "idle"
  BY NoVoterIs DEF Init
<1> QED
  BY <1>2, <1>5, <1>6, <1>7, <1>8 DEF VInv

\* A vote stays until it is taken back, unless somebody held a copy of the record when it
\* was saved, a simple application answered the record anew, or the record was deleted.
THEOREM AcknowledgedVotesStay == Spec => []VotesStay
<1>1. VInv => VotesStay
  BY DEF VInv, VRows, VotesStay, There
<1>2. IInv /\ VInv /\ [Next]_vars => VInv'
  BY TurnKeepsVotes, OthersKeepVotes
<1>3. Spec => []VInv
  BY SpecIInv, InitVotes, <1>2, PTL DEF Spec
<1> QED
  BY <1>1, <1>3, PTL

-----------------------------------------------------------------------------
(* The remembered conversation.  A list is a tail of the conversation if   *)
(* only a record that was deleted under it is missing there, and that can  *)
(* be its first one alone.  The tail may leave one record's text out, for  *)
(* the turn that is about to write that one.                               *)

IsTail(l) ==
    /\ \A i \in DOMAIN l : ~row[l[i].id].there => i = 1 /\ l[i].id = 1
    /\ \A i, j \in DOMAIN l : i < j /\ row[l[i].id].there /\ row[l[j].id].there =>
          row[l[i].id].born < row[l[j].id].born
    /\ \A i \in DOMAIN l, r \in There :
          row[l[i].id].there /\ row[l[i].id].born < row[r].born => In(r, l)
    /\ \/ \A r \in There : In(r, l)
       \/ ReopenSize <= Len(l) /\ \A i \in DOMAIN l : row[l[i].id].there

Agrees(l, x) ==
    \A i \in DOMAIN l :
        row[l[i].id].there /\ l[i].id \notin overwritten /\ l[i].id # x =>
            l[i].text = row[l[i].id].text

Good(l, x) == IsTail(l) /\ Agrees(l, x)

LEMMA ListIs ==
    ASSUME NEW l \in Seq(Copies)
    PROVE  /\ DOMAIN l = 1 .. Len(l) /\ Len(l) \in Nat
           /\ \A i \in DOMAIN l : i \in Nat /\ l[i] \in Copies /\ l[i].id \in Records
<1>1. DOMAIN l = 1 .. Len(l) /\ Len(l) \in Nat /\ \A i \in DOMAIN l : l[i] \in Copies
  OBVIOUS
<1> QED
  BY <1>1 DEF Copies

\* Rows that stay where they are, and say the same but for what is left out.
LEMMA GoodKept ==
    ASSUME NEW l \in Seq(Copies), NEW x, Good(l, x), overwritten \subseteq overwritten',
           \A s \in Records :
              /\ row'[s].there = row[s].there /\ row'[s].born = row[s].born
              /\ s \notin overwritten' /\ s # x => row'[s].text = row[s].text
    PROVE  Good(l, x)'
<1>1. \A i \in DOMAIN l : l[i].id \in Records
  BY ListIs
<1>2. There' = There /\ There \subseteq Records
  BY DEF There
<1>3. IsTail(l)'
  <2>1. \A i \in DOMAIN l : /\ row'[l[i].id].there = row[l[i].id].there
                            /\ row'[l[i].id].born = row[l[i].id].born
    BY <1>1
  <2>2. \A r \in There : row'[r].born = row[r].born
    BY <1>2
  <2>3. \A i \in DOMAIN l : ~row'[l[i].id].there => i = 1 /\ l[i].id = 1
    BY <2>1 DEF Good, IsTail
  <2>4. \A i, j \in DOMAIN l : i < j /\ row'[l[i].id].there /\ row'[l[j].id].there =>
           row'[l[i].id].born < row'[l[j].id].born
    BY <2>1 DEF Good, IsTail
  <2>5. \A i \in DOMAIN l, r \in There' :
           row'[l[i].id].there /\ row'[l[i].id].born < row'[r].born => In(r, l)
    BY <1>2, <2>1, <2>2 DEF Good, IsTail
  <2>6. \/ \A r \in There' : In(r, l)
        \/ ReopenSize <= Len(l) /\ \A i \in DOMAIN l : row'[l[i].id].there
    BY <1>2, <2>1 DEF Good, IsTail
  <2> QED
    BY <2>3, <2>4, <2>5, <2>6 DEF IsTail, In
<1>4. Agrees(l, x)'
  BY <1>1 DEF Agrees, Good
<1> QED
  BY <1>3, <1>4 DEF Good

\* The first record is deleted.
LEMMA GoodCleaned ==
    ASSUME TypeOK, Births, Clean, NEW l \in Seq(Copies), NEW x, Good(l, x)
    PROVE  Good(l, x)'
<1>1. /\ DOMAIN l = 1 .. Len(l) /\ Len(l) \in Nat
      /\ \A i \in DOMAIN l : i \in Nat /\ l[i].id \in Records
  BY ListIs
<1>2. /\ 1 \in Records /\ OnlyRow(1) /\ ~row'[1].there /\ row'[1].born = row[1].born
      /\ row[1].born = 0 /\ row'[1].text = row[1].text /\ overwritten' = overwritten
      /\ row[1].there
  BY Cleans DEF Clean
<1>3. \A s \in Records : /\ row'[s].born = row[s].born /\ row'[s].text = row[s].text
                         /\ row'[s].there => row[s].there
                         /\ s # 1 => row'[s].there = row[s].there
                         /\ row[s].born \in Nat
  BY <1>2, TypeOKRow, Numbers DEF OnlyRow, RowType, Rows
<1>4. There \subseteq Records /\ There' \subseteq There
  BY <1>3 DEF There
<1>5. ASSUME NEW i \in DOMAIN l, l[i].id = 1 PROVE i = 1
  <2> SUFFICES ASSUME i # 1 PROVE FALSE
    OBVIOUS
  <2>1. 1 \in DOMAIN l /\ 1 < i /\ i \in Nat /\ l[1].id \in Records
    BY <1>1
  <2>2. row[l[1].id].there
    BY <1>2, <2>1 DEF Good, IsTail
  <2>3. row[l[1].id].born < row[l[i].id].born
    BY <1>2, <1>5, <2>1, <2>2 DEF Good, IsTail
  <2> QED
    BY <1>2, <1>3, <1>5, <2>1, <2>3
<1>6. \A i \in DOMAIN l : ~row'[l[i].id].there => i = 1 /\ l[i].id = 1
  <2> SUFFICES ASSUME NEW i \in DOMAIN l, ~row'[l[i].id].there PROVE i = 1 /\ l[i].id = 1
    OBVIOUS
  <2>1. CASE l[i].id = 1
    BY <1>5, <2>1
  <2>2. CASE l[i].id # 1
    BY <1>1, <1>3, <2>2 DEF Good, IsTail
  <2> QED
    BY <2>1, <2>2
<1>7. \A i, j \in DOMAIN l : i < j /\ row'[l[i].id].there /\ row'[l[j].id].there =>
         row'[l[i].id].born < row'[l[j].id].born
  BY <1>1, <1>3 DEF Good, IsTail
<1>8. \A i \in DOMAIN l, r \in There' :
         row'[l[i].id].there /\ row'[l[i].id].born < row'[r].born => In(r, l)
  BY <1>1, <1>3, <1>4 DEF Good, IsTail
<1>9. \/ \A r \in There' : In(r, l)
      \/ ReopenSize <= Len(l) /\ \A i \in DOMAIN l : row'[l[i].id].there
  <2>1. CASE \A r \in There : In(r, l)
    BY <1>4, <2>1
  <2>2. CASE ReopenSize <= Len(l) /\ (\A i \in DOMAIN l : row[l[i].id].there)
             /\ \E i \in DOMAIN l : l[i].id = 1
    <3>1. PICK i \in DOMAIN l : l[i].id = 1
      BY <2>2
    <3>2. ASSUME NEW r \in There' PROVE In(r, l)
      <4>1. r \in There /\ r \in Records /\ r # 1 /\ row[r].there
        BY <1>2, <1>4 DEF There
      <4>2. row[r].born > 0 /\ row[r].born \in Nat
        BY <1>3, <4>1 DEF Births
      <4>3. row[l[i].id].there /\ row[l[i].id].born < row[r].born
        BY <1>2, <3>1, <4>2
      <4> QED
        BY <4>1, <4>3 DEF Good, IsTail
    <3> QED
      BY <3>2
  <2>3. CASE ReopenSize <= Len(l) /\ (\A i \in DOMAIN l : row[l[i].id].there)
             /\ ~\E i \in DOMAIN l : l[i].id = 1
    BY <1>1, <1>3, <2>3
  <2> QED
    BY <2>1, <2>2, <2>3 DEF Good, IsTail
<1>10. IsTail(l)'
  BY <1>6, <1>7, <1>8, <1>9 DEF IsTail, In
<1>11. Agrees(l, x)'
  BY <1>1, <1>2, <1>3 DEF Agrees, Good
<1> QED
  BY <1>10, <1>11 DEF Good

\* A new record is saved behind the others.
LEMMA GoodGrows ==
    ASSUME TypeOK, NEW l \in Seq(Copies), NEW c \in Copies, NEW r, r = c.id, NEW k,
           k = Append(l, c), Good(l, 0), ~row[r].there, ~In(r, l), OnlyRow(r), row'[r].there, row'[r].born = Newest + 1,
           row'[r].text = c.text, overwritten \subseteq overwritten'
    PROVE  Good(k, 0)'
<1>1. /\ DOMAIN l = 1 .. Len(l) /\ Len(l) \in Nat
      /\ \A i \in DOMAIN l : i \in Nat /\ l[i].id \in Records
  BY ListIs
<1>2. PICK n \in Nat : n = Len(l) + 1
  BY <1>1
<1>4. /\ DOMAIN k = 1 .. n /\ Len(k) = n /\ k[n] = c /\ n \in DOMAIN k
      /\ \A i \in DOMAIN k : i \in Nat /\ (i # n => i \in DOMAIN l /\ k[i] = l[i] /\ i < n)
      /\ \A i \in DOMAIN l : i \in DOMAIN k
  BY <1>1, <1>2
<1>5. r \in Records /\ RowType
  BY TypeOKRow DEF Copies
<1>6. \A s \in Records : row[s].born \in Nat /\ row[s].born <= Newest /\ row[s].there \in BOOLEAN
  BY <1>5, NewestIs, Numbers DEF RowType, Rows
<1>7. Newest \in Nat
  BY <1>5, <1>6, NewestIs
<1>8. \A i \in DOMAIN l : l[i].id # r /\ row'[l[i].id] = row[l[i].id]
  BY <1>1 DEF In, OnlyRow
<1>9. There' = There \cup {r} /\ r \notin There /\ There \subseteq Records
  BY <1>5, <1>6 DEF There, OnlyRow
<1>10. \A s \in There : row'[s] = row[s] /\ s # r
  BY <1>9 DEF OnlyRow
<1>11. \A s : In(s, l) \/ s = r => In(s, k)
  BY <1>4 DEF In
<1>12. \A i \in DOMAIN k : ~row'[k[i].id].there => i = 1 /\ k[i].id = 1
  BY <1>4, <1>8 DEF Good, IsTail
<1>13. ASSUME NEW i \in DOMAIN k, NEW j \in DOMAIN k, i < j, row'[k[i].id].there,
              row'[k[j].id].there
       PROVE  row'[k[i].id].born < row'[k[j].id].born
  <2>1. i # n /\ i \in DOMAIN l /\ k[i] = l[i]
    BY <1>4, <1>13
  <2>2. CASE j = n
    <3>1. row'[k[i].id].born \in Nat /\ row'[k[i].id].born <= Newest
      BY <1>1, <1>6, <1>8, <2>1
    <3>2. row'[k[j].id].born = Newest + 1
      BY <1>4, <2>2
    <3> QED
      BY <1>7, <3>1, <3>2
  <2>3. CASE j # n
    BY <1>4, <1>8, <1>13, <2>1, <2>3 DEF Good, IsTail
  <2> QED
    BY <2>2, <2>3
<1>14. ASSUME NEW i \in DOMAIN k, NEW s \in There', row'[k[i].id].there,
              row'[k[i].id].born < row'[s].born
       PROVE  In(s, k)
  <2>1. CASE s = r
    BY <1>11, <2>1
  <2>2. CASE s # r
    <3>1. s \in There /\ row'[s] = row[s] /\ row[s].born <= Newest /\ row[s].born \in Nat
      BY <1>6, <1>9, <1>10, <2>2
    <3>2. i # n
      BY <1>4, <1>7, <1>14, <3>1
    <3>3. i \in DOMAIN l /\ k[i] = l[i]
      BY <1>4, <3>2
    <3>4. In(s, l)
      BY <1>8, <1>14, <3>1, <3>3 DEF Good, IsTail
    <3> QED
      BY <1>11, <3>4
  <2> QED
    BY <2>1, <2>2
<1>15. \/ \A s \in There' : In(s, k)
       \/ ReopenSize <= Len(k) /\ \A i \in DOMAIN k : row'[k[i].id].there
  <2>1. CASE \A s \in There : In(s, l)
    BY <1>9, <1>11, <2>1
  <2>2. CASE ReopenSize <= Len(l) /\ \A i \in DOMAIN l : row[l[i].id].there
    <3>1. ReopenSize <= Len(k)
      BY <1>1, <1>2, <1>4, <2>2, Numbers
    <3>2. \A i \in DOMAIN k : row'[k[i].id].there
      BY <1>4, <1>8, <2>2
    <3> QED
      BY <3>1, <3>2
  <2> QED
    BY <2>1, <2>2 DEF Good, IsTail
<1>16. IsTail(k)'
  BY <1>12, <1>13, <1>14, <1>15 DEF IsTail, In
<1>17. Agrees(k, 0)'
  <2> SUFFICES ASSUME NEW i \in DOMAIN k, row'[k[i].id].there, k[i].id \notin overwritten',
                      k[i].id # 0
               PROVE  k[i].text = row'[k[i].id].text
    BY DEF Agrees
  <2>1. CASE i = n
    BY <1>4, <2>1
  <2>2. CASE i # n
    BY <1>4, <1>8, <2>2 DEF Good, Agrees
  <2> QED
    BY <2>1, <2>2
<1> QED
  BY <1>16, <1>17 DEF Good

\* The list that a reopened conversation has.
LEMMA GoodReopened ==
    ASSUME TypeOK, Apart, NEW l \in Seq(Copies),
           l = [i \in DOMAIN LastOf(ReopenSize, InOrder) |-> CopyOf(LastOf(ReopenSize, InOrder)[i])]
    PROVE  Good(l, 0)
<1>1. RowType /\ There \subseteq Records
  BY TypeOKRow DEF There
<1>2. /\ InOrder \in Seq(There)
      /\ \A r \in There : Place(r) \in 1 .. Len(InOrder) /\ InOrder[Place(r)] = r
      /\ \A i \in 1 .. Len(InOrder) : InOrder[i] \in There /\ Place(InOrder[i]) = i
      /\ \A r, s \in There : row[r].born < row[s].born <=> Place(r) < Place(s)
  BY <1>1, InOrderIs
<1>3. PICK n \in Nat : n = Len(InOrder)
  BY <1>2
<1>4. PICK last : last = LastOf(ReopenSize, InOrder)
  OBVIOUS
<1>5. PICK k : k = Len(last)
  OBVIOUS
<1>6. /\ last \in Seq(There) /\ k = IF n > ReopenSize THEN ReopenSize ELSE n
      /\ \A i \in DOMAIN last : last[i] = InOrder[n - k + i]
  <2>1. PICK order \in Seq(There) : order = InOrder
    BY <1>2
  <2>2. last = LastOf(ReopenSize, order) /\ n = Len(order)
    BY <1>3, <1>4, <2>1
  <2>3. /\ last \in Seq(There) /\ Len(last) = IF Len(order) > ReopenSize THEN ReopenSize ELSE Len(order)
        /\ \A i \in DOMAIN last : last[i] = order[Len(order) - Len(last) + i]
    BY <2>2, LastOfIs, Numbers
  <2> QED
    BY <1>5, <2>1, <2>2, <2>3
<1>7. k \in Nat /\ k <= n /\ DOMAIN last = 1 .. k
  <2>1. last \in Seq(There)
    BY <1>6
  <2>2. DOMAIN last = 1 .. Len(last) /\ Len(last) \in Nat
    BY <2>1
  <2> QED
    BY <1>3, <1>5, <1>6, <2>2, Numbers
<1>8. l = [i \in 1 .. k |-> CopyOf(last[i])]
  BY <1>4, <1>7
<1>9. DOMAIN l = 1 .. k /\ Len(l) = k
  BY <1>7, <1>8
<1>10. ASSUME NEW i \in DOMAIN l
       PROVE  /\ i \in Nat /\ l[i].id \in There /\ row[l[i].id].there
              /\ Place(l[i].id) = n - k + i /\ l[i].text = row[l[i].id].text
  <2>1. i \in 1 .. k /\ l[i] = CopyOf(last[i]) /\ last[i] = InOrder[n - k + i]
    BY <1>6, <1>7, <1>8, <1>9
  <2>2. n - k + i \in 1 .. n
    BY <1>3, <1>7, <2>1
  <2>3. last[i] \in There /\ Place(last[i]) = n - k + i
    BY <1>2, <1>3, <2>1, <2>2
  <2>4. l[i].id = last[i] /\ l[i].text = row[last[i]].text
    BY <1>1, <2>1, <2>3, CopyOfIs
  <2> QED
    BY <2>1, <2>3, <2>4 DEF There
<1>11. ASSUME NEW r \in There, Place(r) > n - k PROVE In(r, l)
  <2>1. PICK p : p = Place(r)
    OBVIOUS
  <2>2. p \in 1 .. n /\ InOrder[p] = r
    BY <1>2, <1>3, <2>1
  <2>3. PICK i : i = p - (n - k)
    OBVIOUS
  <2>4. i \in 1 .. k /\ n - k + i = p
    BY <1>3, <1>7, <1>11, <2>1, <2>2, <2>3
  <2>5. l[i] = CopyOf(r)
    BY <1>6, <1>7, <1>8, <2>2, <2>4
  <2>6. l[i].id = r
    BY <1>1, <2>5, CopyOfIs
  <2> QED
    BY <1>9, <2>4, <2>6 DEF In
<1>12. ASSUME NEW i \in DOMAIN l, NEW j \in DOMAIN l, i < j
       PROVE  row[l[i].id].born < row[l[j].id].born
  <2>1. Place(l[i].id) < Place(l[j].id)
    BY <1>3, <1>7, <1>10, <1>12
  <2> QED
    BY <1>2, <1>10, <2>1
<1>13. ASSUME NEW i \in DOMAIN l, NEW r \in There, row[l[i].id].born < row[r].born
       PROVE  In(r, l)
  <2>1. Place(l[i].id) < Place(r) /\ Place(l[i].id) = n - k + i
    BY <1>2, <1>10, <1>13
  <2>2. Place(r) \in 1 .. n /\ i \in 1 .. k
    BY <1>2, <1>3, <1>9
  <2>3. Place(r) > n - k
    BY <1>3, <1>7, <2>1, <2>2
  <2> QED
    BY <1>11, <2>3
<1>14. (\A r \in There : In(r, l)) \/ ReopenSize <= Len(l)
  <2>1. CASE k = n
    <3>1. \A r \in There : Place(r) \in 1 .. n /\ n - k = 0
      BY <1>2, <1>3, <2>1
    <3>2. \A r \in There : Place(r) > n - k
      BY <3>1
    <3> QED
      BY <1>11, <3>2
  <2>2. CASE k # n
    BY <1>6, <1>9, <2>2, Numbers
  <2> QED
    BY <2>1, <2>2
<1>15. IsTail(l)
  BY <1>10, <1>12, <1>13, <1>14 DEF IsTail
<1>16. Agrees(l, 0)
  BY <1>10 DEF Agrees
<1> QED
  BY <1>15, <1>16 DEF Good

\* The list that is put into the cache.
LEMMA GoodTrimmed ==
    ASSUME TypeOK, NEW l \in Seq(Copies), Len(l) <= CacheSize + 1, NEW k,
           k = LastOf(CacheSize, l), Good(l, 0)
    PROVE  k \in Seq(Copies) /\ Good(k, 0)
<1>1. /\ DOMAIN l = 1 .. Len(l) /\ Len(l) \in Nat
      /\ \A i \in DOMAIN l : i \in Nat /\ l[i].id \in Records
  BY ListIs
<1>2. /\ k \in Seq(Copies) /\ Len(k) = IF Len(l) > CacheSize THEN CacheSize ELSE Len(l)
      /\ \A i \in DOMAIN k : k[i] = l[Len(l) - Len(k) + i]
  BY LastOfIs, Numbers
<1>3. DOMAIN k = 1 .. Len(k) /\ Len(k) \in Nat
  BY <1>2
<1>4. PICK d : d = Len(l) - Len(k)
  OBVIOUS
<1>5. /\ d \in {0, 1} /\ Len(l) = Len(k) + d
      /\ d = 1 => Len(k) = CacheSize
  BY <1>1, <1>2, <1>3, <1>4, Numbers
<1>6. ASSUME NEW i \in DOMAIN k
      PROVE  i \in Nat /\ i >= 1 /\ d + i \in DOMAIN l /\ k[i] = l[d + i]
  <2>1. PICK n \in Nat : n = Len(k)
    BY <1>3
  <2>2. i \in 1 .. n /\ Len(l) = n + d /\ DOMAIN l = 1 .. n + d
    BY <1>1, <1>3, <1>5, <2>1
  <2>3. d + i \in 1 .. n + d
    BY <1>5, <2>2
  <2>4. k[i] = l[d + i]
    BY <1>2, <1>4
  <2> QED
    BY <2>2, <2>3, <2>4
<1>7. \A s \in Records : row[s].born \in Nat
  BY TypeOKRow, Numbers DEF RowType, Rows
<1>8. ASSUME NEW i \in DOMAIN k, ~row[k[i].id].there PROVE i = 1 /\ d = 0 /\ k[i].id = 1
  <2>1. i \in Nat /\ i >= 1 /\ d + i \in DOMAIN l /\ k[i] = l[d + i]
    BY <1>6
  <2>2. d + i = 1 /\ l[d + i].id = 1
    BY <1>8, <2>1 DEF Good, IsTail
  <2> QED
    BY <1>5, <2>1, <2>2
<1>9. \A i, j \in DOMAIN k : i < j /\ row[k[i].id].there /\ row[k[j].id].there =>
         row[k[i].id].born < row[k[j].id].born
  <2> SUFFICES ASSUME NEW i \in DOMAIN k, NEW j \in DOMAIN k, i < j, row[k[i].id].there,
                      row[k[j].id].there
               PROVE  row[k[i].id].born < row[k[j].id].born
    OBVIOUS
  <2>1. /\ i \in Nat /\ d + i \in DOMAIN l /\ k[i] = l[d + i]
        /\ j \in Nat /\ d + j \in DOMAIN l /\ k[j] = l[d + j]
    BY <1>6
  <2>2. d + i < d + j
    BY <1>5, <2>1
  <2> QED
    BY <2>1, <2>2 DEF Good, IsTail
<1>10. ASSUME NEW j \in DOMAIN l, j # 1 \/ d = 0 PROVE In(l[j].id, k)
  <2>1. PICK n \in Nat : n = Len(k) /\ DOMAIN k = 1 .. n /\ DOMAIN l = 1 .. n + d
    BY <1>1, <1>3, <1>5
  <2>2. j - d \in 1 .. n /\ d + (j - d) = j
    BY <1>5, <1>10, <2>1
  <2>3. PICK i \in DOMAIN k : d + i = j
    BY <2>1, <2>2
  <2>4. k[i] = l[j]
    BY <1>6, <2>3
  <2> QED
    BY <2>4 DEF In
<1>11. ASSUME NEW i \in DOMAIN k, NEW r \in There, row[k[i].id].there,
              row[k[i].id].born < row[r].born
       PROVE  In(r, k)
  <2>1. d + i \in DOMAIN l /\ k[i] = l[d + i] /\ In(r, l)
    BY <1>6, <1>11 DEF Good, IsTail
  <2>2. PICK j \in DOMAIN l : l[j].id = r
    BY <2>1 DEF In
  <2>3. CASE j # 1 \/ d = 0
    BY <1>10, <2>2, <2>3
  <2>4. CASE j = 1 /\ d = 1
    <3>1. j < d + i /\ row[l[j].id].there
      BY <1>6, <2>2, <2>4 DEF There
    <3>2. row[l[j].id].born < row[l[d + i].id].born
      BY <1>11, <2>1, <3>1 DEF Good, IsTail
    <3>3. PICK a \in Nat : a = row[r].born
      BY <1>1, <1>7, <2>2
    <3>4. PICK b \in Nat : b = row[k[i].id].born
      BY <1>1, <1>7, <2>1
    <3>5. a < b /\ b < a
      BY <1>11, <2>1, <2>2, <3>2, <3>3, <3>4
    <3> QED
      BY <3>5
  <2> QED
    BY <1>5, <2>3, <2>4
<1>12. \/ \A r \in There : In(r, k)
       \/ ReopenSize <= Len(k) /\ \A i \in DOMAIN k : row[k[i].id].there
  <2>1. CASE d = 1
    BY <1>5, <1>8, <2>1, Numbers
  <2>2. CASE d = 0 /\ \A r \in There : In(r, l)
    <3>1. ASSUME NEW r \in There PROVE In(r, k)
      <4>1. PICK j \in DOMAIN l : l[j].id = r
        BY <2>2 DEF In
      <4> QED
        BY <1>10, <2>2, <4>1
    <3> QED
      BY <3>1
  <2>3. CASE d = 0 /\ ReopenSize <= Len(l) /\ \A i \in DOMAIN l : row[l[i].id].there
    BY <1>1, <1>3, <1>5, <1>6, <2>3
  <2> QED
    BY <1>5, <2>1, <2>2, <2>3 DEF Good, IsTail
<1>13. IsTail(k)
  BY <1>8, <1>9, <1>11, <1>12 DEF IsTail
<1>14. Agrees(k, 0)
  <2> SUFFICES ASSUME NEW i \in DOMAIN k, row[k[i].id].there, k[i].id \notin overwritten,
                      k[i].id # 0
               PROVE  k[i].text = row[k[i].id].text
    BY DEF Agrees
  <2>1. d + i \in DOMAIN l /\ k[i] = l[d + i]
    BY <1>6
  <2> QED
    BY <2>1 DEF Good, Agrees
<1> QED
  BY <1>2, <1>13, <1>14 DEF Good

\* A tail has a record once.
LEMMA OnceInTail ==
    ASSUME RowType, NEW l \in Seq(Copies), IsTail(l), NEW i \in DOMAIN l, NEW j \in DOMAIN l,
           l[i].id = l[j].id
    PROVE  i = j
<1>1. i \in Nat /\ j \in Nat /\ l[i].id \in Records
  BY ListIs
<1>2. row[l[i].id].born \in Nat
  BY <1>1, Numbers DEF RowType, Rows
<1>3. CASE row[l[i].id].there
  <2>1. ~(i < j) /\ ~(j < i)
    BY <1>2, <1>3 DEF IsTail
  <2> QED
    BY <1>1, <2>1
<1>4. CASE ~row[l[i].id].there
  BY <1>4 DEF IsTail
<1> QED
  BY <1>3, <1>4

\* An answer is put in the place of its record.
LEMMA GoodPut ==
    ASSUME RowType, NEW l \in Seq(Copies), NEW c \in Copies, NEW r, r = c.id, Has(c, l),
           NEW x \in {0, r}, Good(l, x), NEW k, k = Put(c, l)
    PROVE  /\ k \in Seq(Copies) /\ Good(k, r)
           /\ \A i \in DOMAIN k : k[i].id = r => k[i] = c
<1>1. DOMAIN l = 1 .. Len(l) /\ Len(l) \in Nat
  BY ListIs
<1>2. k \in Seq(Copies) /\ Len(k) = Len(l)
  BY PutIs
<1>3. k = [i \in DOMAIN l |-> IF l[i].id = r THEN c ELSE l[i]]
  <2>1. PICK j \in DOMAIN l : Same(l[j], c)
    BY DEF Has
  <2>2. ASSUME NEW i \in DOMAIN l PROVE l[i].id = r <=> Same(l[i], c)
    <3>1. l[i].id = r => i = j
      BY <2>1, OnceInTail DEF Good, Same
    <3> QED
      BY <2>1, <3>1 DEF Same
  <2> QED
    BY <2>2 DEF Put
<1>4. /\ DOMAIN k = DOMAIN l
      /\ \A i \in DOMAIN l : /\ k[i].id = l[i].id
                             /\ l[i].id = r => k[i] = c
                             /\ l[i].id # r => k[i] = l[i]
  BY <1>3
<1>5. \A s : In(s, l) => In(s, k)
  BY <1>4 DEF In
<1>6. IsTail(k)
  <2>1. \A i \in DOMAIN k : ~row[k[i].id].there => i = 1 /\ k[i].id = 1
    BY <1>4 DEF Good, IsTail
  <2>2. \A i, j \in DOMAIN k : i < j /\ row[k[i].id].there /\ row[k[j].id].there =>
           row[k[i].id].born < row[k[j].id].born
    BY <1>4 DEF Good, IsTail
  <2>3. \A i \in DOMAIN k, s \in There :
           row[k[i].id].there /\ row[k[i].id].born < row[s].born => In(s, k)
    BY <1>4, <1>5 DEF Good, IsTail
  <2>4. \/ \A s \in There : In(s, k)
        \/ ReopenSize <= Len(k) /\ \A i \in DOMAIN k : row[k[i].id].there
    BY <1>2, <1>4, <1>5 DEF Good, IsTail
  <2> QED
    BY <2>1, <2>2, <2>3, <2>4 DEF IsTail
<1>7. Agrees(k, r)
  <2>1. \A i \in DOMAIN l : l[i].id \in Records /\ l[i].id # 0
    BY ListIs, Numbers DEF Records
  <2> QED
    BY <1>4, <2>1 DEF Good, Agrees
<1> QED
  BY <1>2, <1>4, <1>6, <1>7 DEF Good

LEMMA NotIn ==
    ASSUME NEW l \in Seq(Copies), NEW x, Good(l, x), NEW r, r # 1, ~row[r].there
    PROVE  ~In(r, l)
BY DEF Good, IsTail, In

\* A turn that is about to save its record, with the answer behind the others or in the
\* place of an earlier one.
Unsaved(u, l, r) ==
    /\ ~GoesOn(u) /\ ~row[r].there
    /\ \E e \in Seq(Copies) : l = Append(e, Answer(u, turn[u].how)) /\ Good(e, 0)

InPlace(u, l, r) ==
    /\ GoesOn(u) \/ row[r].there
    /\ Good(l, r)
    /\ \A i \in DOMAIN l : l[i].id = r => l[i].text = Text(u, turn[u].how)

MTurn(u) ==
    \E l \in Seq(Copies), r \in Records :
        /\ l = turn[u].list /\ r = turn[u].id
        /\ GoesOn(u) \/ r # 1
        /\ turn[u].pc \in {"reopen", "recache", "check", "run"} =>
             turn[u].how = "answer" /\ (GoesOn(u) \/ ~row[r].there)
        /\ turn[u].pc \in {"recache", "check", "run"} => Good(l, 0)
        /\ turn[u].pc \in {"chat", "record"} => Unsaved(u, l, r) \/ InPlace(u, l, r)
        /\ turn[u].pc = "cache" => Good(l, 0) /\ (GoesOn(u) \/ row[r].there)

\* The cache is behind while a turn has saved its record and not set it, and while one that
\* may have saved it is answered again.
Behind(u) == turn[u].pc = "cache" \/ turn[u].how = "exception"

MCache ==
    cache.live /\ (\A u \in Remembering : ~Behind(u)) =>
        \E l \in Seq(Copies) : l = cache.list /\ Good(l, 0)

MOne == \A u, v \in Remembering : u = v

MTurns == \A u \in Remembering : MTurn(u)

\* Where the two conversations may have parted.
Parted == forked \/ moved

MInv == ~Parted => MOne /\ MCache /\ MTurns

MRows == \A r \in There : r <= requests + 1

\* What a step of somebody else does to the rows of a turn.
Carries ==
    /\ \A l \in Seq(Copies), x \in {0} \cup Records : Good(l, x) => Good(l, x)'
    /\ \A r \in Records : /\ row'[r].there => row[r].there
                          /\ r # 1 /\ row[r].there => row'[r].there

LEMMA CarriesTexts ==
    ASSUME overwritten \subseteq overwritten',
           \A s \in Records :
              /\ row'[s].there = row[s].there /\ row'[s].born = row[s].born
              /\ s \notin overwritten' => row'[s].text = row[s].text
    PROVE  Carries
<1>1. ASSUME NEW l \in Seq(Copies), NEW x \in {0} \cup Records, Good(l, x) PROVE Good(l, x)'
  BY <1>1, GoodKept
<1> QED
  BY <1>1 DEF Carries

LEMMA CarriesRows ==
    ASSUME row' = row, overwritten \subseteq overwritten'
    PROVE  Carries
BY CarriesTexts

LEMMA CarriesCleaned ==
    ASSUME TypeOK, Births, Clean
    PROVE  Carries
<1>1. \A l \in Seq(Copies), x \in {0} \cup Records : Good(l, x) => Good(l, x)'
  BY GoodCleaned
<1>2. OnlyRow(1) /\ ~row'[1].there
  BY Cleans
<1> QED
  BY <1>1, <1>2 DEF Carries, OnlyRow

LEMMA MTurnKept ==
    ASSUME NEW v \in Users, kind' = kind, turn'[v] = turn[v], Carries, MTurn(v)
    PROVE  MTurn(v)'
<1>1. PICK l \in Seq(Copies), r \in Records :
        /\ l = turn[v].list /\ r = turn[v].id
        /\ GoesOn(v) \/ r # 1
        /\ turn[v].pc \in {"reopen", "recache", "check", "run"} =>
             turn[v].how = "answer" /\ (GoesOn(v) \/ ~row[r].there)
        /\ turn[v].pc \in {"recache", "check", "run"} => Good(l, 0)
        /\ turn[v].pc \in {"chat", "record"} => Unsaved(v, l, r) \/ InPlace(v, l, r)
        /\ turn[v].pc = "cache" => Good(l, 0) /\ (GoesOn(v) \/ row[r].there)
  BY DEF MTurn
<1>2. /\ GoesOn(v)' <=> GoesOn(v)
      /\ Answer(v, turn[v].how)' = Answer(v, turn[v].how)
      /\ Text(v, turn[v].how)' = Text(v, turn[v].how)
  BY DEF GoesOn, Answer, Text
<1>3. /\ row'[r].there => row[r].there
      /\ r # 1 /\ row[r].there => row'[r].there
      /\ \A k \in Seq(Copies) : (Good(k, 0) => Good(k, 0)') /\ (Good(k, r) => Good(k, r)')
  BY DEF Carries
<1>4. Unsaved(v, l, r) => Unsaved(v, l, r)'
  BY <1>2, <1>3 DEF Unsaved
<1>5. InPlace(v, l, r) => InPlace(v, l, r)'
  BY <1>1, <1>2, <1>3 DEF InPlace
<1> QED
  BY <1>1, <1>2, <1>3, <1>4, <1>5 DEF MTurn

\* Steps of nobody who remembers.
LEMMA MInvKept ==
    ASSUME MInv, Carries, Parted => Parted', cache' = cache \/ ~cache'.live,
           kind' = kind, Remembering' = Remembering, \A v \in Remembering : turn'[v] = turn[v]
    PROVE  MInv'
<1> SUFFICES ASSUME ~Parted' PROVE MOne' /\ MCache' /\ MTurns'
  BY DEF MInv
<1>1. MOne /\ MCache /\ MTurns
  BY DEF MInv
<1>2. MOne'
  BY <1>1 DEF MOne
<1>3. MCache'
  <2> SUFFICES ASSUME cache'.live, \A v \in Remembering' : ~Behind(v)'
               PROVE  \E l \in Seq(Copies) : l = cache'.list /\ Good(l, 0)'
    BY DEF MCache
  <2>1. cache' = cache /\ \A v \in Remembering : ~Behind(v)
    BY DEF Behind
  <2>2. PICK l \in Seq(Copies) : l = cache.list /\ Good(l, 0)
    BY <1>1, <2>1 DEF MCache
  <2> QED
    BY <2>1, <2>2 DEF Carries
<1>4. MTurns'
  <2> SUFFICES ASSUME NEW v \in Remembering PROVE MTurn(v)'
    BY DEF MTurns
  <2>1. v \in Users /\ MTurn(v) /\ turn'[v] = turn[v]
    BY <1>1 DEF MTurns, Remembering
  <2> QED
    BY <2>1, MTurnKept
<1> QED
  BY <1>2, <1>3, <1>4

\* Steps of the one who does.
LEMMA MInvMoved ==
    ASSUME MInv, ~Parted, NEW u \in Remembering, Only(u),
           cache'.live /\ (u \in Remembering' => ~Behind(u)') =>
              \E l \in Seq(Copies) : l = cache'.list /\ Good(l, 0)',
           u \in Remembering' => MTurn(u)'
    PROVE  MInv'
<1>1. \A v \in Users \ {u} : v \notin Remembering'
  <2>1. \A v \in Users \ {u} : v \notin Remembering /\ turn'[v] = turn[v]
    BY DEF MInv, MOne, Only
  <2> QED
    BY <2>1 DEF Remembering
<1>2. Remembering' \subseteq {u}
  BY <1>1 DEF Remembering
<1>3. MOne' /\ MTurns'
  BY <1>2 DEF MOne, MTurns
<1>4. MCache'
  BY <1>2 DEF MCache
<1> QED
  BY <1>3, <1>4 DEF MInv

\* The cached list before the turn has saved its record.
LEMMA CacheBefore ==
    ASSUME MInv, ~Parted, NEW u \in Remembering, ~Behind(u), cache.live
    PROVE  \E l \in Seq(Copies) : l = cache.list /\ Good(l, 0)
<1>1. \A v \in Remembering : ~Behind(v)
  BY DEF MInv, MOne
<1> QED
  BY <1>1 DEF MInv, MCache

\* An answer goes to the end of a list, or takes the place of the one at its end.
LEMMA PutLast ==
    ASSUME NEW e \in Seq(Copies), NEW a \in Copies, NEW c \in Copies, a.id = c.id, a.str = c.str,
           ~In(c.id, e)
    PROVE  Put(c, e) = Append(e, c) /\ Put(c, Append(e, a)) = Append(e, c)
<1>1. Put(c, e) = Append(e, c)
  BY DEF Put, Has, Same, In
<1>2. PICK l : l = Append(e, a)
  OBVIOUS
<1>3. PICK n \in Nat : n = Len(e) /\ DOMAIN e = 1 .. n
  BY ListIs
<1>4. /\ DOMAIN l = 1 .. n + 1 /\ l[n + 1] = a
      /\ \A i \in 1 .. n + 1 : i # n + 1 => i \in 1 .. n /\ l[i] = e[i]
  BY <1>2, <1>3
<1>5. Has(c, l)
  BY <1>3, <1>4 DEF Has, Same
<1>6. Put(c, l) = [i \in 1 .. n + 1 |-> IF Same(l[i], c) THEN c ELSE l[i]]
  BY <1>4, <1>5 DEF Put
<1>7. \A i \in 1 .. n : e[i].id # c.id
  BY <1>3 DEF In
<1>8. \A i \in 1 .. n + 1 : (IF Same(l[i], c) THEN c ELSE l[i]) = (IF i = n + 1 THEN c ELSE e[i])
  BY <1>4, <1>7 DEF Same
<1>9. PICK k : k = Append(e, c)
  OBVIOUS
<1>10. /\ k = [i \in 1 .. n + 1 |-> k[i]]
       /\ \A i \in 1 .. n + 1 : k[i] = IF i = n + 1 THEN c ELSE e[i]
  <2>1. k \in Seq(Copies) /\ Len(k) = n + 1
    BY <1>3, <1>9
  <2>2. k \in [1 .. n + 1 -> Copies]
    BY <2>1
  <2>3. \A i \in 1 .. n + 1 : k[i] = IF i = n + 1 THEN c ELSE e[i]
    BY <1>3, <1>9
  <2> QED
    BY <2>2, <2>3
<1>11. \A i \in 1 .. n + 1 : k[i] = IF Same(l[i], c) THEN c ELSE l[i]
  BY <1>8, <1>10
<1>12. Put(c, l) = k
  BY <1>6, <1>10, <1>11
<1> QED
  BY <1>1, <1>2, <1>9, <1>12

\* A turn that answers, for the first time or again.
LEMMA AnswersRemember ==
    ASSUME TypeOK, NEW u \in Users, MTurn(u), NEW how \in Hows, Only(u), Answers(u, how),
           kind' = kind, row' = row, overwritten \subseteq overwritten',
           \/ turn[u].pc = "run" /\ ~BringsBack(u)
           \/ /\ turn[u].pc \in {"chat", "record", "cache"} /\ Holds(u)
              /\ Answer(u, turn[u].how).str = Answer(u, how).str
    PROVE  MTurn(u)'
<1>1. PICK l \in Seq(Copies), r \in Records :
        /\ l = turn[u].list /\ r = turn[u].id
        /\ GoesOn(u) \/ r # 1
        /\ turn[u].pc \in {"reopen", "recache", "check", "run"} =>
             turn[u].how = "answer" /\ (GoesOn(u) \/ ~row[r].there)
        /\ turn[u].pc \in {"recache", "check", "run"} => Good(l, 0)
        /\ turn[u].pc \in {"chat", "record"} => Unsaved(u, l, r) \/ InPlace(u, l, r)
        /\ turn[u].pc = "cache" => Good(l, 0) /\ (GoesOn(u) \/ row[r].there)
  BY DEF MTurn
<1>2. PICK c \in Copies : c = Answer(u, how)
  BY AnswerIs
<1>3. c.id = r /\ c.text = Text(u, how)
  BY <1>1, <1>2, AnswerIs
<1>4. PICK k : k = turn'[u].list
  OBVIOUS
<1>5. /\ k = Put(c, l) /\ turn'[u].pc = "chat" /\ turn'[u].id = r /\ turn'[u].n = turn[u].n
      /\ turn'[u].vote = turn[u].vote /\ turn'[u].how = how
  BY <1>1, <1>2, <1>4 DEF Answers
<1>6. k \in Seq(Copies)
  BY <1>1, <1>5, PutIs
<1>7. /\ GoesOn(u)' <=> GoesOn(u)
      /\ Answer(u, turn[u].how)' = c
      /\ Text(u, turn[u].how)' = c.text
  BY <1>1, <1>2, <1>3, <1>5 DEF GoesOn, Answer, Text
<1>8. \A e \in Seq(Copies) : (Good(e, 0) => Good(e, 0)') /\ (Good(e, r) => Good(e, r)')
  BY CarriesRows DEF Carries
<1>9. ASSUME NEW e \in Seq(Copies), Good(e, 0), k = Append(e, c), ~GoesOn(u), ~row[r].there
      PROVE  Unsaved(u, k, r)'
  BY <1>7, <1>8, <1>9 DEF Unsaved
<1>10. ASSUME NEW x \in {0, r}, Good(l, x), Has(c, l), GoesOn(u) \/ row[r].there
       PROVE  InPlace(u, k, r)'
  <2>1. Good(k, r) /\ \A i \in DOMAIN k : k[i].id = r => k[i] = c
    BY <1>3, <1>5, <1>10, TypeOKRow, GoodPut
  <2> QED
    BY <1>7, <1>8, <1>6, <1>10, <2>1 DEF InPlace
<1>11. turn[u].pc # "run" => Has(c, l)
  BY <1>1, <1>2 DEF Holds, Has, Same, Answer
<1>12. Unsaved(u, k, r)' \/ InPlace(u, k, r)'
  <2>1. CASE turn[u].pc = "run" /\ GoesOn(u)
    <3>1. Answer(u, "answer").id = c.id /\ Answer(u, "answer").str = c.str
      BY <1>2, <2>1 DEF Answer
    <3>2. Has(c, l) /\ Good(l, 0)
      BY <1>1, <2>1, <3>1 DEF BringsBack, Has, Same
    <3> QED
      BY <1>10, <2>1, <3>2
  <2>2. CASE turn[u].pc = "run" /\ ~GoesOn(u)
    <3>1. r # 1 /\ ~row[r].there /\ Good(l, 0)
      BY <1>1, <2>2
    <3>2. ~In(r, l)
      BY <3>1, NotIn
    <3>3. k = Append(l, c)
      BY <1>3, <1>5, <3>2 DEF Put, Has, Same, In
    <3> QED
      BY <1>9, <2>2, <3>1, <3>3
  <2>3. CASE turn[u].pc \in {"chat", "record"} /\ Unsaved(u, l, r)
    <3>1. PICK e \in Seq(Copies) : l = Append(e, Answer(u, turn[u].how)) /\ Good(e, 0)
      BY <2>3 DEF Unsaved
    <3>2. ~GoesOn(u) /\ ~row[r].there /\ r # 1
      BY <1>1, <2>3 DEF Unsaved
    <3>3. ~In(r, e)
      BY <3>1, <3>2, NotIn
    <3>4. turn[u].how \in Hows
      BY DEF TypeOK, Turns
    <3>5. PICK a \in Copies : a = Answer(u, turn[u].how)
      BY <3>4, AnswerIs
    <3>6. a.id = r /\ a.str = c.str
      BY <1>1, <1>2, <2>3, <3>4, <3>5, AnswerIs
    <3>7. k = Append(e, c)
      BY <1>3, <1>5, <3>1, <3>3, <3>5, <3>6, PutLast
    <3> QED
      BY <1>9, <3>1, <3>2, <3>7
  <2>4. CASE turn[u].pc \in {"chat", "record"} /\ InPlace(u, l, r)
    <3>1. Good(l, r) /\ Has(c, l) /\ (GoesOn(u) \/ row[r].there)
      BY <1>1, <1>11, <2>4 DEF InPlace
    <3> QED
      BY <1>10, <3>1
  <2>5. CASE turn[u].pc = "cache"
    <3>1. Good(l, 0) /\ Has(c, l) /\ (GoesOn(u) \/ row[r].there)
      BY <1>1, <1>11, <2>5
    <3> QED
      BY <1>10, <3>1
  <2> QED
    BY <1>1, <2>1, <2>2, <2>3, <2>4, <2>5
<1> QED
  BY <1>1, <1>4, <1>5, <1>6, <1>7, <1>12 DEF MTurn

\* A turn that goes on as it is, with rows as they were.
LEMMA MTurnGoes ==
    ASSUME NEW u \in Users, MTurn(u), Stays(u), turn'[u].list = turn[u].list,
           kind' = kind, row' = row, overwritten \subseteq overwritten',
           \/ turn[u].pc = "recache" /\ turn'[u].pc = "check"
           \/ turn[u].pc = "check" /\ turn'[u].pc = "run"
           \/ turn[u].pc = "chat" /\ turn'[u].pc = "record" /\ turn'[u].vote = turn[u].vote
    PROVE  MTurn(u)'
<1>1. PICK l \in Seq(Copies), r \in Records :
        /\ l = turn[u].list /\ r = turn[u].id
        /\ GoesOn(u) \/ r # 1
        /\ turn[u].pc \in {"reopen", "recache", "check", "run"} =>
             turn[u].how = "answer" /\ (GoesOn(u) \/ ~row[r].there)
        /\ turn[u].pc \in {"recache", "check", "run"} => Good(l, 0)
        /\ turn[u].pc \in {"chat", "record"} => Unsaved(u, l, r) \/ InPlace(u, l, r)
        /\ turn[u].pc = "cache" => Good(l, 0) /\ (GoesOn(u) \/ row[r].there)
  BY DEF MTurn
<1>2. /\ GoesOn(u)' <=> GoesOn(u)
      /\ turn[u].pc = "chat" => Answer(u, turn[u].how)' = Answer(u, turn[u].how)
      /\ Text(u, turn[u].how)' = Text(u, turn[u].how)
  BY DEF GoesOn, Answer, Text, Stays
<1>3. \A k \in Seq(Copies) : (Good(k, 0) => Good(k, 0)') /\ (Good(k, r) => Good(k, r)')
  BY CarriesRows DEF Carries
<1>4. turn[u].pc = "chat" /\ Unsaved(u, l, r) => Unsaved(u, l, r)'
  BY <1>2, <1>3 DEF Unsaved
<1>5. InPlace(u, l, r) => InPlace(u, l, r)'
  BY <1>2, <1>3 DEF InPlace
<1>6. turn'[u].list = l /\ turn'[u].id = r /\ turn'[u].how = turn[u].how
  BY <1>1 DEF Stays
<1> QED
  BY <1>1, <1>2, <1>3, <1>4, <1>5, <1>6 DEF MTurn

\* The record is saved: the list agrees with every row again.
LEMMA SavesRemember ==
    ASSUME IInv, NEW u \in Users, MTurn(u), SaveRecord(u), ~moved'
    PROVE  MTurn(u)'
<1>1. PICK l \in Seq(Copies), r \in Records :
        /\ l = turn[u].list /\ r = turn[u].id
        /\ GoesOn(u) \/ r # 1
        /\ turn[u].pc \in {"reopen", "recache", "check", "run"} =>
             turn[u].how = "answer" /\ (GoesOn(u) \/ ~row[r].there)
        /\ turn[u].pc \in {"recache", "check", "run"} => Good(l, 0)
        /\ turn[u].pc \in {"chat", "record"} => Unsaved(u, l, r) \/ InPlace(u, l, r)
        /\ turn[u].pc = "cache" => Good(l, 0) /\ (GoesOn(u) \/ row[r].there)
  BY DEF MTurn
<1>2. /\ OnlyRow(r) /\ row'[r].there /\ row'[r].text = Text(u, turn[u].how)
      /\ row'[r].born = IF row[r].there THEN row[r].born ELSE Newest + 1
      /\ Stays(u) /\ turn'[u].pc = "cache" /\ turn'[u].list = l /\ turn'[u].id = r
  BY <1>1, Saves DEF Stays
<1>3. /\ turn[u].pc = "record" /\ overwritten \subseteq overwritten'
      /\ ~GoesOn(u) \/ row[r].there
  BY <1>1 DEF SaveRecord
<1>4. TypeOK /\ turn[u].how \in Hows
  BY DEF IInv, TypeOK, Turns
<1>5. Good(l, 0)'
  <2>1. CASE Unsaved(u, l, r)
    <3>1. PICK e \in Seq(Copies) : l = Append(e, Answer(u, turn[u].how)) /\ Good(e, 0)
      BY <2>1 DEF Unsaved
    <3>2. PICK a \in Copies : a = Answer(u, turn[u].how)
      BY <1>4, AnswerIs
    <3>3. a.id = r /\ a.text = Text(u, turn[u].how)
      BY <1>1, <1>4, <3>2, AnswerIs
    <3>4. ~row[r].there /\ r # 1
      BY <1>1, <2>1 DEF Unsaved
    <3>5. ~In(r, e)
      BY <3>1, <3>4, NotIn
    <3>6. l = Append(e, a) /\ row'[r].born = Newest + 1 /\ row'[r].text = a.text
      BY <1>2, <3>1, <3>2, <3>3, <3>4
    <3> QED
      BY <1>2, <1>3, <1>4, <3>1, <3>3, <3>4, <3>5, <3>6, GoodGrows
  <2>2. CASE InPlace(u, l, r)
    <3>1. row[r].there /\ Good(l, r)
      BY <1>3, <2>2 DEF InPlace
    <3>2. \A s \in Records : /\ row'[s].there = row[s].there /\ row'[s].born = row[s].born
                             /\ s \notin overwritten' /\ s # r => row'[s].text = row[s].text
      <4>1. row[r].there \in BOOLEAN /\ row'[r].there \in BOOLEAN
        BY <1>2, <1>4, TypeOKRow DEF RowType, Rows, OnlyRow
      <4> QED
        BY <1>2, <3>1, <4>1 DEF OnlyRow
    <3>3. Good(l, r)'
      BY <1>3, <3>1, <3>2, GoodKept
    <3>4. \A i \in DOMAIN l : l[i].id = r => l[i].text = row'[r].text
      BY <1>2, <2>2 DEF InPlace
    <3> QED
      BY <3>3, <3>4 DEF Good, Agrees
  <2> QED
    BY <1>1, <1>3, <2>1, <2>2
<1>6. GoesOn(u) <=> GoesOn(u)'
  BY <1>2 DEF GoesOn, Stays
<1> QED
  BY <1>1, <1>2, <1>5, <1>6 DEF MTurn

LEMMA AskRemembers ==
    ASSUME IInv, MInv, MRows, NEW u \in Users, NEW q \in {0} \cup Records, Ask(u, q)
    PROVE  MInv'
<1>1. /\ TypeOK /\ Only(u)
      /\ turn'[u].pc = IF cache.live THEN "check" ELSE "reopen"
      /\ turn'[u].list = IF cache.live THEN cache.list ELSE <<>>
      /\ turn'[u].id = IF q = 0 THEN requests + 2 ELSE q
      /\ turn'[u].id \in Records
      /\ turn'[u].n = requests + 1 /\ turn'[u].how = "answer"
  BY Asks DEF IInv
<1>2. /\ turn[u].pc = "idle" /\ UNCHANGED <<row, cache>> /\ overwritten \subseteq overwritten'
      /\ Parted' = (Remembering # {} \/ (Parted /\ cache.live))
  BY DEF Ask, Parted
<1>3. Carries
  BY <1>2, CarriesRows
<1> SUFFICES ASSUME ~Parted' PROVE MOne' /\ MCache' /\ MTurns'
  BY DEF MInv
<1>4. Remembering = {} /\ (cache.live => ~Parted)
  BY <1>2
<1>5. Remembering' \subseteq {u}
  BY <1>1, <1>4 DEF Remembering, Only
<1>6. MOne'
  BY <1>5 DEF MOne
<1>7. ASSUME cache.live PROVE \E l \in Seq(Copies) : l = cache.list /\ Good(l, 0) /\ Good(l, 0)'
  <2>1. PICK l \in Seq(Copies) : l = cache.list /\ Good(l, 0)
    BY <1>4, <1>7 DEF MInv, MCache
  <2> QED
    BY <1>3, <2>1 DEF Carries
<1>8. MCache'
  BY <1>2, <1>7 DEF MCache
<1>9. MTurn(u)'
  <2>1. PICK l \in Seq(Copies) : l = turn'[u].list
    BY <1>1 DEF Only, Turns
  <2>2. PICK r \in Records : r = turn'[u].id
    BY <1>1
  <2>3. turn'[u].pc = "check" => Good(l, 0)'
    BY <1>1, <1>7, <2>1
  <2>4. GoesOn(u)' \/ (r # 1 /\ ~row'[r].there)
    <3>1. requests \in 0..MaxRequests
      BY <1>1 DEF TypeOK
    <3>2. requests \in Nat
      BY <3>1, Numbers
    <3>3. ~GoesOn(u)' => r = requests + 2
      BY <1>1, <2>2, <3>2 DEF GoesOn
    <3>4. r = requests + 2 => r # 1 /\ ~(r <= requests + 1)
      BY <3>2
    <3>5. row[r].there => r <= requests + 1
      BY <2>2 DEF MRows, There
    <3> QED
      BY <1>2, <3>3, <3>4, <3>5
  <2>5. turn'[u].pc = "check" \/ turn'[u].pc = "reopen"
    BY <1>1
  <2> QED
    BY <1>1, <2>1, <2>2, <2>3, <2>4, <2>5 DEF MTurn
<1>10. MTurns'
  BY <1>5, <1>9 DEF MTurns
<1> QED
  BY <1>6, <1>8, <1>10

\* What has been forked or overwritten stays so.
LEMMA TurnMarks ==
    ASSUME NEW u \in Users, ATurn(u), ~\E q \in {0} \cup Records : Ask(u, q)
    PROVE  (Parted => Parted') /\ overwritten \subseteq overwritten'
<1> USE DEF Parted
<1>1. ASSUME history' = history
      PROVE  forked' = forked /\ moved' = moved /\ overwritten' = overwritten
  BY <1>1 DEF history
<1>2. ASSUME NEW final \in BOOLEAN, FailMarks(u, final)
      PROVE  (forked => forked') /\ overwritten \subseteq overwritten'
  BY <1>2 DEF FailMarks
<1>3. CASE Reopen(u) \/ Recache(u) \/ SaveChat(u) \/ SetCache(u) \/ CountWrite(u)
  <2>1. history' = history
    BY <1>3 DEF Reopen, Recache, SaveChat, SetCache, CountWrite
  <2> QED
    BY <1>1, <2>1
<1>4. CASE Check(u) \/ End(u) \/ CountRead(u)
  BY <1>4 DEF Check, End, CountRead
<1>5. CASE Run(u) \/ Raise(u)
  <2>1. overwritten' = overwritten /\ forked' = forked
    BY <1>5 DEF Run, Raise
  <2>2. ASSUME NEW how, Appends(u, how) PROVE moved => moved'
    BY <2>2 DEF Appends
  <2>3. moved => moved'
    BY <1>5, <2>2 DEF Run, Raise
  <2> QED
    BY <2>1, <2>3
<1>6. CASE SaveRecord(u)
  BY <1>6 DEF SaveRecord
<1>7. CASE Fail(u)
  <2>1. moved => moved'
    BY <1>7 DEF Fail, Appends
  <2> QED
    BY <1>2, <1>7, <2>1 DEF Fail
<1>8. CASE Disconnect(u)
  BY <1>8 DEF Disconnect
<1> QED
  BY <1>3, <1>4, <1>5, <1>6, <1>7, <1>8 DEF ATurn, TurnStep

LEMMA TurnRemembers ==
    ASSUME IInv, MInv, MRows, NEW u \in Users, ATurn(u)
    PROVE  MInv'
<1>1. /\ TypeOK /\ Births /\ Apart /\ turn[u] \in Turns /\ turn[u].how \in Hows
      /\ Only(u) /\ cache.list \in Seq(Copies) /\ kind' = kind
  BY FitsKept, KindStays DEF IInv, Births, TypeOK, Turns
<1>2. CASE \E q \in {0} \cup Records : Ask(u, q)
  BY <1>2, AskRemembers
\* Who does not remember leaves the rows and the cache as they are.
<1>3. CASE u \notin Remembering /\ ~\E q \in {0} \cup Records : Ask(u, q)
  <2>1. turn[u].pc \in {"idle", "end", "count", "counted"}
    BY <1>1, <1>3 DEF Remembering, Turns, TurnPcs
  <2>2. End(u) \/ CountRead(u) \/ CountWrite(u) \/ Fail(u) \/ Disconnect(u)
    BY <1>3, <2>1
       DEF ATurn, TurnStep, Reopen, Recache, Check, Run, SaveChat, SaveRecord, SetCache, Raise
  <2>3. /\ UNCHANGED <<row, cache>> /\ overwritten \subseteq overwritten'
        /\ Parted => Parted'
    <3>1. UNCHANGED <<row, cache>>
      BY <2>2 DEF End, CountRead, CountWrite, Fail, Disconnect
    <3> QED
      BY <1>3, <3>1, TurnMarks
  <2> SUFFICES ASSUME ~Parted' PROVE MInv'
    BY DEF MInv
  <2>4. u \notin Remembering'
    <3>1. ASSUME Leave(u) PROVE u \notin Remembering'
      BY <1>1, <3>1, Leaves, NoTurnIs DEF Remembering
    <3>2. ASSUME NEW pc \in {"end", "count", "counted"}, Goes(u, pc) PROVE u \notin Remembering'
      <4>1. turn'[u].pc = pc
        BY <1>1, <3>2, GoesIs DEF TurnPcs
      <4> QED
        BY <4>1 DEF Remembering
    <3>3. CASE End(u)
      BY <3>1, <3>2, <3>3 DEF End
    <3>4. CASE CountRead(u)
      BY <1>1, <3>4, CountReads DEF Remembering
    <3>5. CASE CountWrite(u)
      BY <3>1, <3>2, <3>5 DEF CountWrite
    <3>6. CASE Fail(u)
      <4>1. turn[u].pc \in {"count", "counted"}
        BY <2>1, <3>6 DEF Fail
      <4>2. Leave(u)
        BY <3>6, <4>1 DEF Fail, FailMarks, Parted
      <4> QED
        BY <3>1, <4>2
    <3>7. CASE Disconnect(u)
      BY <3>1, <3>7 DEF Disconnect
    <3> QED
      BY <2>2, <3>3, <3>4, <3>5, <3>6, <3>7
  <2>5. Remembering' = Remembering /\ \A v \in Remembering : turn'[v] = turn[v]
    BY <1>1, <1>3, <2>4 DEF Remembering, Only
  <2> QED
    BY <1>1, <2>3, <2>5, CarriesRows, MInvKept
<1>4. CASE u \in Remembering /\ ~\E q \in {0} \cup Records : Ask(u, q)
  <2>1. turn[u].pc \in {"reopen", "recache", "check", "run", "chat", "record", "cache"}
    BY <1>4 DEF Remembering
  <2>2. \/ Reopen(u) \/ Recache(u) \/ Check(u) \/ Run(u) \/ SaveChat(u) \/ SaveRecord(u)
        \/ SetCache(u) \/ Fail(u) \/ Raise(u) \/ Disconnect(u)
    BY <1>4, <2>1 DEF ATurn, TurnStep, End, CountRead, CountWrite
  <2>3. (Parted => Parted') /\ overwritten \subseteq overwritten'
    BY <1>4, TurnMarks
  <2> SUFFICES ASSUME ~Parted' PROVE MInv'
    BY DEF MInv
  <2>4. ~Parted /\ MTurn(u)
    BY <1>4, <2>3 DEF MInv, MTurns
  <2>5. PICK l \in Seq(Copies) :
          /\ l = turn[u].list
          /\ turn[u].pc \in {"reopen", "recache", "check", "run"} => turn[u].how = "answer"
          /\ turn[u].pc \in {"recache", "check", "run"} => Good(l, 0)
          /\ turn[u].pc = "cache" => Good(l, 0)
    BY <2>4 DEF MTurn
  \* Before the record is saved, the cache stays good.
  <2>6. ASSUME UNCHANGED <<row, cache>>, ~Behind(u), cache.live
        PROVE  \E k \in Seq(Copies) : k = cache'.list /\ Good(k, 0)'
    <3>1. PICK k \in Seq(Copies) : k = cache.list /\ Good(k, 0)
      BY <1>4, <2>4, <2>6, CacheBefore
    <3>2. Good(k, 0)'
      BY <2>3, <2>6, <3>1, CarriesRows DEF Carries
    <3> QED
      BY <2>6, <3>1, <3>2
  <2>7. ASSUME UNCHANGED <<row, cache>>, ~Behind(u), u \in Remembering' => MTurn(u)'
        PROVE  MInv'
    BY <1>1, <1>4, <2>4, <2>6, <2>7, MInvMoved
  <2>8. ASSUME Leave(u), UNCHANGED <<row, cache>>, ~Behind(u) PROVE MInv'
    <3>1. u \notin Remembering'
      BY <1>1, <2>8, Leaves, NoTurnIs DEF Remembering
    <3> QED
      BY <2>7, <2>8, <3>1
  <2>9. CASE Reopen(u)
    <3>1. turn[u].pc = "reopen" /\ ~Behind(u) /\ UNCHANGED <<row, cache>>
      BY <2>5, <2>9 DEF Reopen, Behind
    <3>2. CASE Leave(u)
      BY <2>8, <3>1, <3>2
    <3>3. CASE ~Leave(u)
      <4>1. /\ Stays(u) /\ turn'[u].pc = "recache"
            /\ turn'[u].list = [i \in DOMAIN LastOf(ReopenSize, InOrder) |->
                                  CopyOf(LastOf(ReopenSize, InOrder)[i])]
        BY <1>1, <2>9, <3>3, Reopens
      <4>2. PICK k \in Seq(Copies) : k = turn'[u].list
        BY <1>1 DEF Only, Turns
      <4>3. Good(k, 0)
        BY <1>1, <4>1, <4>2, GoodReopened
      <4>4. Good(k, 0)'
        BY <2>3, <3>1, <4>3, CarriesRows DEF Carries
      <4>5. PICK r \in Records : /\ r = turn[u].id /\ (GoesOn(u) \/ r # 1)
                                 /\ GoesOn(u) \/ ~row[r].there
        BY <2>4, <3>1 DEF MTurn
      <4>6. GoesOn(u)' <=> GoesOn(u)
        BY <4>1 DEF GoesOn, Stays
      <4>7. turn'[u].id = r /\ turn'[u].how = "answer" /\ row' = row
        BY <2>5, <3>1, <4>1, <4>5 DEF Stays
      <4>8. MTurn(u)'
        BY <4>1, <4>2, <4>4, <4>5, <4>6, <4>7 DEF MTurn
      <4> QED
        BY <2>7, <3>1, <4>8
    <3> QED
      BY <3>2, <3>3
  <2>10. CASE Recache(u)
    <3>1. /\ turn[u].pc = "recache" /\ Goes(u, "check") /\ row' = row
          /\ cache' = [live |-> TRUE, list |-> turn[u].list]
      BY <2>10 DEF Recache
    <3>2. Stays(u) /\ turn'[u].pc = "check" /\ turn'[u].list = turn[u].list
          /\ turn'[u].vote = turn[u].vote
      BY <1>1, <3>1, GoesIs DEF TurnPcs
    <3>3. MTurn(u)'
      BY <1>1, <2>3, <2>4, <3>1, <3>2, MTurnGoes
    <3>4. cache'.list = l /\ Good(l, 0)'
      BY <2>3, <2>5, <3>1, CarriesRows DEF Carries
    <3> QED
      BY <1>1, <1>4, <2>4, <3>3, <3>4, MInvMoved
  <2>11. CASE Check(u)
    <3>1. turn[u].pc = "check" /\ ~Behind(u) /\ UNCHANGED <<row, cache>>
      BY <2>5, <2>11 DEF Check, Behind
    <3>2. CASE Leave(u)
      BY <2>8, <3>1, <3>2
    <3>3. CASE ~Leave(u)
      <4>2. Stays(u) /\ turn'[u].pc = "run" /\ turn'[u].list = turn[u].list
        BY <1>1, <2>11, <3>3, Checks
      <4>3. MTurn(u)'
        BY <1>1, <2>3, <2>4, <3>1, <4>2, MTurnGoes
      <4> QED
        BY <2>7, <3>1, <4>3
    <3> QED
      BY <3>2, <3>3
  <2>12. CASE Run(u)
    <3>1. /\ turn[u].pc = "run" /\ ~Behind(u) /\ UNCHANGED <<row, cache>> /\ ~BringsBack(u)
      BY <2>5, <2>12 DEF Run, Behind, Appends, Parted
    <3>2. Answers(u, "answer")
      BY <1>1, <2>12, Appended DEF Run, Hows
    <3>3. MTurn(u)'
      BY <1>1, <2>3, <2>4, <3>1, <3>2, AnswersRemember DEF Hows
    <3> QED
      BY <2>7, <3>1, <3>3
  <2>13. CASE SaveChat(u)
    <3>1. turn[u].pc = "chat" /\ Goes(u, "record") /\ UNCHANGED <<row, cache>>
      BY <2>13 DEF SaveChat
    <3>2. Stays(u) /\ turn'[u].pc = "record" /\ turn'[u].list = turn[u].list
          /\ turn'[u].vote = turn[u].vote
      BY <1>1, <3>1, GoesIs DEF TurnPcs
    <3>3. MTurn(u)'
      BY <1>1, <2>3, <2>4, <3>1, <3>2, MTurnGoes
    <3>4. Behind(u)' <=> turn[u].how = "exception"
      BY <3>2 DEF Behind, Stays
    <3>5. u \in Remembering'
      BY <3>2 DEF Remembering
    <3>6. Behind(u) <=> turn[u].how = "exception"
      BY <3>1 DEF Behind
    <3> QED
      BY <1>1, <1>4, <2>4, <2>6, <3>1, <3>3, <3>4, <3>5, <3>6, MInvMoved
  <2>14. CASE SaveRecord(u)
    <3>1. turn'[u].pc = "cache" /\ MTurn(u)'
      BY <2>4, <2>14, Saves, SavesRemember DEF Parted
    <3>2. Behind(u)' /\ u \in Remembering'
      BY <3>1 DEF Behind, Remembering
    <3> QED
      BY <1>1, <1>4, <2>4, <3>1, <3>2, MInvMoved
  <2>15. CASE SetCache(u)
    <3>1. /\ turn[u].pc = "cache" /\ row' = row
          /\ Goes(u, "end") \/ Goes(u, "count") \/ Leave(u)
          /\ cache' = [live |-> TRUE, list |-> LastOf(CacheSize, turn[u].list)]
      BY <2>15 DEF SetCache, Ends
    <3>2. u \notin Remembering'
      <4>1. turn'[u].pc \in {"end", "count", "idle"}
        BY <1>1, <3>1, GoesIs, Leaves, NoTurnIs DEF TurnPcs
      <4> QED
        BY <4>1 DEF Remembering
    <3>3. PICK k : k = LastOf(CacheSize, l)
      OBVIOUS
    <3>4. Len(l) <= CacheSize + 1
      BY <1>1, <2>5 DEF TypeOK
    <3>5. k \in Seq(Copies) /\ Good(k, 0)
      BY <1>1, <2>5, <3>1, <3>3, <3>4, GoodTrimmed
    <3>6. Good(k, 0)' /\ cache'.list = k
      BY <2>3, <2>5, <3>1, <3>3, <3>5, CarriesRows DEF Carries
    <3> QED
      BY <1>1, <1>4, <2>4, <3>2, <3>5, <3>6, MInvMoved
  <2>16. CASE Fail(u)
    <3>1. UNCHANGED <<row, cache>> /\ turn[u].pc \in {"run", "chat", "record", "cache"}
      BY <2>1, <2>16 DEF Fail
    <3>2. CASE ChunkFirst(u) /\ Appends(u, "exception") /\ FailMarks(u, FALSE)
      <4>1. Answers(u, "exception")
        BY <1>1, <3>2, Appended DEF Hows
      <4>2. ~BringsBack(u) /\ (turn[u].pc # "run" => Holds(u))
        BY <1>1, <3>1, <3>2 DEF Appends, Parted, IInv, Lengths, Fits
      <4>3. Answer(u, turn[u].how).str = Answer(u, "exception").str
        BY <3>2 DEF ChunkFirst, Answer
      <4>5. MTurn(u)'
        BY <1>1, <2>3, <2>4, <3>1, <4>1, <4>2, <4>3, AnswersRemember DEF Hows
      <4>4. Behind(u)' /\ u \in Remembering'
        BY <4>1 DEF Behind, Answers, Remembering
      <4> QED
        BY <1>1, <1>4, <2>4, <4>4, <4>5, MInvMoved
    <3>3. CASE Leave(u) /\ FailMarks(u, TRUE)
      <4>1. ~Behind(u)
        BY <3>3 DEF FailMarks, Behind, Parted
      <4> QED
        BY <2>8, <3>1, <3>3, <4>1
    <3> QED
      BY <2>16, <3>2, <3>3 DEF Fail
  <2>17. CASE Disconnect(u)
    <3>1. Leave(u) /\ UNCHANGED <<row, cache>> /\ turn[u].pc = "run"
      BY <2>1, <2>17 DEF Disconnect
    <3>2. ~Behind(u)
      BY <2>5, <3>1 DEF Behind
    <3> QED
      BY <2>8, <3>1, <3>2
  <2>18. CASE Raise(u)
    <3>1. turn[u].pc = "run" /\ ~Behind(u) /\ UNCHANGED <<row, cache>>
      BY <2>5, <2>18 DEF Raise, Behind
    <3>2. CASE Leave(u)
      BY <2>8, <3>1, <3>2
    <3>3. CASE Appends(u, "raised")
      <4>1. Answers(u, "raised") /\ ~BringsBack(u)
        BY <1>1, <3>3, Appended DEF Hows, Appends, Parted
      <4>2. MTurn(u)'
        BY <1>1, <2>3, <2>4, <3>1, <4>1, AnswersRemember DEF Hows
      <4> QED
        BY <2>7, <3>1, <4>2
    <3> QED
      BY <2>18, <3>2, <3>3 DEF Raise
  <2> QED
    BY <2>2, <2>9, <2>10, <2>11, <2>12, <2>13, <2>14, <2>15, <2>16, <2>17, <2>18
<1> QED
  BY <1>2, <1>3, <1>4

\* No row is there whose request has not been made.
LEMMA MRowsKept ==
    ASSUME IInv, VInv, MRows, [Next]_vars
    PROVE  MRows'
<1>1. TypeOK /\ requests \in Nat
  <2>1. TypeOK /\ requests \in 0..MaxRequests
    BY DEF IInv, TypeOK
  <2> QED
    BY <2>1, Numbers
\* At most one row comes, and it is of a turn or of a vote.
<1>2. ASSUME requests' = requests \/ requests' = requests + 1,
             NEW r, r <= requests + 1, \A s \in Records \ {r} : row'[s].there => row[s].there
      PROVE  MRows'
  <2> SUFFICES ASSUME NEW s \in Records, row'[s].there PROVE s <= requests' + 1
    BY DEF MRows, There
  <2>1. s = r \/ s \in There
    BY <1>2 DEF There
  <2>2. s <= requests + 1 /\ s \in Nat
    BY <1>2, <2>1, Numbers DEF MRows, Records
  <2> QED
    BY <1>1, <1>2, <2>2
<1>3. ASSUME row' = row, requests' = requests \/ requests' = requests + 1 PROVE MRows'
  <2>1. requests + 1 <= requests + 1
    BY <1>1
  <2> QED
    BY <1>2, <1>3, <2>1
<1>4. CASE \E u \in Users : ATurn(u)
  <2>1. PICK u \in Users : ATurn(u)
    BY <1>4
  <2>2. CASE SaveRecord(u)
    <3>1. PICK r : r = turn[u].id
      OBVIOUS
    <3>2. OnlyRow(r) /\ turn[u].pc = "record" /\ requests' = requests
      BY <2>2, <3>1, Saves DEF SaveRecord
    <3>3. r <= requests + 1
      BY <3>1, <3>2 DEF VInv, VTurn
    <3> QED
      BY <1>2, <3>2, <3>3 DEF OnlyRow
  <2>3. CASE \E q \in {0} \cup Records : Ask(u, q)
    BY <1>3, <2>3 DEF Ask
  <2>4. CASE Reopen(u) \/ Recache(u) \/ Check(u) \/ Run(u) \/ SaveChat(u) \/ SetCache(u)
             \/ End(u) \/ CountRead(u) \/ CountWrite(u) \/ Fail(u) \/ Raise(u) \/ Disconnect(u)
    <3>1. row' = row /\ requests' = requests
      BY <2>4 DEF Reopen, Recache, Check, Run, SaveChat, SetCache, End, CountRead, CountWrite,
                  Fail, Raise, Disconnect
    <3> QED
      BY <1>3, <3>1
  <2> QED
    BY <2>1, <2>2, <2>3, <2>4 DEF ATurn, TurnStep
<1>5. CASE \E v \in Voters : \E r \in Records, b \in Votes : Vote(v, r, b)
  BY <1>3, <1>5 DEF Vote
<1>6. CASE \E v \in Voters : VoteSave(v)
  BY <1>3, <1>6 DEF VoteSave
<1>7. CASE \E v \in Voters : VoteCommit(v)
  <2>1. PICK v \in Voters : VoteCommit(v)
    BY <1>7
  <2>2. PICK r : r = voter[v].copy.id
    OBVIOUS
  <2>3. voter[v].pc = "commit" /\ requests' = requests /\ (row' = row \/ OnlyRow(r))
    BY <2>1, <2>2, VoteCommits DEF VoteCommit
  <2>4. r <= requests + 1
    BY <2>2, <2>3 DEF VInv
  <2> QED
    BY <1>2, <1>3, <2>3, <2>4 DEF OnlyRow
<1>8. CASE Clean
  <2>1. OnlyRow(1) /\ ~row'[1].there /\ requests' = requests
    BY <1>1, <1>8, Cleans DEF Clean
  <2>2. 1 <= requests + 1
    BY <1>1
  <2> QED
    BY <1>2, <2>1, <2>2 DEF OnlyRow
<1>9. CASE Expire \/ Reset \/ UNCHANGED vars
  BY <1>3, <1>9 DEF Expire, Reset, vars
<1> QED
  BY <1>4, <1>5, <1>6, <1>7, <1>8, <1>9 DEF Next, Rest, ATurn

\* A vote writes the text that the record has, unless somebody raced for it; a vote that
\* brings a record back is where the conversations part.
LEMMA OthersRemember ==
    ASSUME IInv, RInv, MInv, [Next]_vars, ~(\E u \in Users : ATurn(u))
    PROVE  MInv'
<1>1. TypeOK /\ Births
  BY DEF IInv
<1>2. ASSUME UNCHANGED <<kind, turn>>, Carries, Parted => Parted', cache' = cache \/ ~cache'.live
      PROVE  MInv'
  <2>1. Remembering' = Remembering /\ \A v \in Remembering : turn'[v] = turn[v]
    BY <1>2 DEF Remembering
  <2> QED
    BY <1>2, <2>1, MInvKept
<1>3. ASSUME UNCHANGED <<kind, turn, row, overwritten, forked, moved>>,
             cache' = cache \/ ~cache'.live
      PROVE  MInv'
  BY <1>2, <1>3, CarriesRows DEF Parted
<1>4. CASE \E v \in Voters : \E r \in Records, b \in Votes : Vote(v, r, b)
  BY <1>3, <1>4 DEF Vote, history
<1>5. CASE \E v \in Voters : VoteSave(v)
  BY <1>3, <1>5 DEF VoteSave, history
<1>6. CASE \E v \in Voters : VoteCommit(v)
  <2>1. PICK v \in Voters : VoteCommit(v)
    BY <1>6
  <2>2. PICK r : r = voter[v].copy.id
    OBVIOUS
  <2>3. voter[v].pc = "commit" /\ UNCHANGED <<kind, turn, cache, overwritten, forked>>
    BY <2>1 DEF VoteCommit
  <2>4. CASE UNCHANGED <<row, voted, outvoted, moved>>
    BY <1>3, <2>3, <2>4
  <2>5. CASE ~UNCHANGED <<row, voted, outvoted, moved>>
    <3>1. /\ r \in Records /\ OnlyRow(r) /\ row'[r].there
          /\ row[r].there => row'[r].born = row[r].born
          /\ row'[r].text = voter[v].copy.text
          /\ moved' = (moved \/ ~row[r].there)
      BY <2>1, <2>2, <2>5, VoteCommits
    <3>2. CASE ~row[r].there
      BY <3>1, <3>2 DEF MInv, Parted
    <3>3. CASE row[r].there
      <4>1. r \notin overwritten => voter[v].copy.text = row[r].text
        BY <2>2, <2>3, <3>1 DEF RInv, RSays, VotersSay, VotersOn
      <4>2. row[r].there \in BOOLEAN /\ row'[r].there \in BOOLEAN
        BY <1>1, <3>1, TypeOKRow DEF RowType, Rows, OnlyRow
      <4>3. \A s \in Records :
              /\ row'[s].there = row[s].there /\ row'[s].born = row[s].born
              /\ s \notin overwritten' => row'[s].text = row[s].text
        BY <2>3, <3>1, <3>3, <4>1, <4>2 DEF OnlyRow
      <4>4. Carries
        BY <2>3, <4>3, CarriesTexts
      <4> QED
        BY <1>2, <2>3, <3>1, <4>4 DEF Parted
    <3> QED
      BY <3>2, <3>3
  <2> QED
    BY <2>4, <2>5
<1>7. CASE Clean
  <2>1. UNCHANGED <<kind, turn, cache, forked, moved>>
    BY <1>7 DEF Clean
  <2> QED
    BY <1>1, <1>2, <1>7, <2>1, CarriesCleaned DEF Parted
<1>8. CASE Expire
  <2>1. UNCHANGED <<kind, turn, row, overwritten, forked, moved>> /\ ~cache'.live
    BY <1>8 DEF Expire, history
  <2> QED
    BY <1>3, <2>1
<1>9. CASE Reset \/ UNCHANGED vars
  BY <1>3, <1>9 DEF Reset, vars, history
<1> QED
  BY <1>4, <1>5, <1>6, <1>7, <1>8, <1>9 DEF Next, Rest, ATurn

LEMMA NextRemembers ==
    ASSUME IInv, VInv, RInv, MInv, MRows, [Next]_vars
    PROVE  MInv' /\ MRows'
BY TurnRemembers, OthersRemember, MRowsKept

LEMMA InitRemembers == Init => MInv /\ MRows
<1> SUFFICES ASSUME Init PROVE MInv /\ MRows
  OBVIOUS
<1>1. Remembering = {}
  BY NoTurnIs DEF Init, Remembering
<1>2. requests = 0 /\ cache = [live |-> ~chat, list |-> <<>>]
  BY DEF Init
<1>3. There \subseteq {1} /\ (There # {} => chat)
  <2>1. \A r \in Records : ~(chat /\ r = 1) => row[r] = NoRow
    BY DEF Init
  <2> QED
    BY <2>1, NoVoterIs DEF There
<1>4. MRows
  BY <1>2, <1>3 DEF MRows
<1>5. ASSUME cache.live PROVE \E l \in Seq(Copies) : l = cache.list /\ Good(l, 0)
  <2>1. PICK l : l = <<>>
    OBVIOUS
  <2>2. l \in Seq(Copies) /\ Len(l) = 0
    BY <2>1
  <2>3. DOMAIN l = {}
    BY <2>2, ListIs
  <2>4. There = {} /\ l = cache.list
    BY <1>2, <1>3, <1>5, <2>1
  <2>5. IsTail(l) /\ Agrees(l, 0)
    BY <2>3, <2>4 DEF IsTail, Agrees
  <2> QED
    BY <2>2, <2>4, <2>5 DEF Good
<1>6. MInv
  BY <1>1, <1>5 DEF MInv, MOne, MCache, MTurns
<1> QED
  BY <1>4, <1>6

\* A list whose records are all there has each once.
LEMMA TailIsLong ==
    ASSUME RowType, NEW l \in Seq(Copies), IsTail(l), \A i \in DOMAIN l : row[l[i].id].there
    PROVE  Len(l) <= Cardinality({r \in There : In(r, l)})
<1> DEFINE known == {r \in There : In(r, l)}
           f == [i \in 1 .. Len(l) |-> l[i].id]
<1>1. /\ DOMAIN l = 1 .. Len(l) /\ Len(l) \in Nat
      /\ \A i \in DOMAIN l : i \in Nat /\ l[i].id \in Records
  BY ListIs
<1>2. \A r \in Records : row[r].born \in Nat
  BY Numbers DEF RowType, Rows
<1>3. \A i \in DOMAIN l : l[i].id \in known
  BY <1>1 DEF There, In
<1>4. ASSUME NEW i \in DOMAIN l, NEW j \in DOMAIN l, l[i].id = l[j].id PROVE i = j
  <2>1. ~(i < j)
    BY <1>1, <1>2, <1>4 DEF IsTail
  <2>2. ~(j < i)
    BY <1>1, <1>2, <1>4 DEF IsTail
  <2> QED
    BY <1>1, <2>1, <2>2
<1>5. f \in Injection(1 .. Len(l), known)
  <2>1. f \in [1 .. Len(l) -> known]
    BY <1>1, <1>3
  <2>2. \A i, j \in 1 .. Len(l) : f[i] = f[j] => i = j
    BY <1>1, <1>4
  <2> QED
    BY <2>1, <2>2 DEF Injection, IsInjective
<1>6. IsFiniteSet(known)
  <2>1. known \in SUBSET Records
    BY DEF There
  <2> QED
    BY <2>1, RecordsAre
<1>7. Cardinality(1 .. Len(l)) <= Cardinality(known)
  <2> HIDE DEF f, known
  <2> QED
    BY <1>5, <1>6, FS_Injection
<1>8. Cardinality(1 .. Len(l)) = Len(l)
  <2>1. PICK n \in Nat : n = Len(l)
    BY <1>1
  <2>2. Cardinality(1 .. n) = n
    BY FS_Interval
  <2> QED
    BY <2>1, <2>2
<1> QED
  BY <1>7, <1>8

\* Between turns that did not overlap, the next question is answered from the tail of the
\* conversation in the database: ChatInfo's list has the order of the rows, leaves none out
\* behind its first, has them as they were answered last, and at least as many as
\* re_open_chat takes.  Cutting the list to CacheSize, deleting old records and votes on the
\* records that are there do not change that.
THEOREM TheMemoryIsTheTail == Spec => []MemoryIsTheTail
<1>1. IInv /\ MInv => MemoryIsTheTail
  <2> SUFFICES ASSUME IInv, MInv, cache.live, Remembering = {}, ~forked, ~moved
               PROVE  /\ \A i, j \in DOMAIN cache.list :
                            i < j /\ {cache.list[i].id, cache.list[j].id} \subseteq There =>
                               row[cache.list[i].id].born < row[cache.list[j].id].born
                      /\ \A r \in Known, s \in There :
                            row[r].born < row[s].born => s \in Known
                      /\ There \subseteq Known \/ ReopenSize <= Cardinality(Known)
                      /\ \A i \in DOMAIN cache.list :
                            cache.list[i].id \in There \ overwritten =>
                               cache.list[i].text = row[cache.list[i].id].text
    BY DEF MemoryIsTheTail
  <2>1. PICK l \in Seq(Copies) : l = cache.list /\ Good(l, 0)
    BY DEF MInv, MCache, Parted
  <2>2. IsTail(l) /\ Agrees(l, 0) /\ RowType
    BY <2>1, TypeOKRow DEF Good, IInv
  <2>3. \A i \in DOMAIN l : l[i].id \in Records /\ l[i].id # 0
    BY ListIs, Numbers DEF Records
  <2>4. \A i, j \in DOMAIN l :
           i < j /\ {l[i].id, l[j].id} \subseteq There => row[l[i].id].born < row[l[j].id].born
    BY <2>2 DEF IsTail, There
  <2>5. ASSUME NEW r \in There, In(r, l), NEW s \in There, row[r].born < row[s].born
        PROVE  In(s, l)
    <3>1. PICK i \in DOMAIN l : l[i].id = r
      BY <2>5 DEF In
    <3> QED
      BY <2>2, <2>5, <3>1 DEF IsTail, There
  <2>6. There \subseteq Known \/ ReopenSize <= Cardinality(Known)
    <3>1. CASE \A r \in There : In(r, l)
      BY <2>1, <3>1 DEF Known
    <3>2. CASE ReopenSize <= Len(l) /\ \A i \in DOMAIN l : row[l[i].id].there
      <4>1. Len(l) <= Cardinality(Known)
        BY <2>1, <2>2, <3>2, TailIsLong DEF Known
      <4>2. Len(l) \in Nat /\ Cardinality(Known) \in Nat
        <5>1. Known \in SUBSET Records
          BY DEF Known, There
        <5> QED
          BY <5>1, ListIs, RecordsAre
      <4> QED
        BY <3>2, <4>1, <4>2, Numbers
    <3> QED
      BY <2>2, <3>1, <3>2 DEF IsTail
  <2>7. \A i \in DOMAIN l : l[i].id \in There \ overwritten => l[i].text = row[l[i].id].text
    BY <2>2, <2>3 DEF Agrees, There
  <2> QED
    BY <2>1, <2>4, <2>5, <2>6, <2>7 DEF Known
<1>2. IInv /\ VInv /\ RInv /\ MInv /\ MRows /\ [Next]_vars => MInv' /\ MRows'
  BY NextRemembers
<1>3. IInv /\ VInv /\ [Next]_vars => VInv'
  BY TurnKeepsVotes, OthersKeepVotes
<1>4. IInv /\ RInv /\ [Next]_vars => RInv'
  BY NextKeepsWhatWasTold
<1>5. Spec => []VInv
  BY SpecIInv, InitVotes, <1>3, PTL DEF Spec
<1>6. Spec => []RInv
  BY SpecIInv, InitSays, <1>4, PTL DEF Spec
<1>7. Spec => []MInv
  BY SpecIInv, InitRemembers, <1>2, <1>5, <1>6, PTL DEF Spec
<1> QED
  BY <1>1, <1>7, SpecIInv, PTL
=============================================================================
