----------------------- MODULE ConversationStoresProofs -----------------------
(***************************************************************************)
(* Proofs about ConversationStores for every set of conversations, runs    *)
(* and writers, every window, time to live and number of sessions, and     *)
(* each of the three backends: no store takes a run's turn twice, each of  *)
(* them implements TurnLog, a reader sees the newest messages of the log,  *)
(* and the memory store keeps its bounds and lets go of the oldest first.  *)
(***************************************************************************)
EXTENDS ConversationStores, SequenceTheorems, FiniteSetTheorems, TLAPS

-----------------------------------------------------------------------------
(* The inductive invariant *)

\* The log and the run markers, which the three stores have in common: a run
\* whose turn is held is marked, so it is refused and its turn is held once.
Logs ==
    /\ committed \in [Sessions -> SUBSET Runs] /\ legacy \in [Sessions -> SUBSET Runs]
    /\ log \in [Sessions -> Seq(Runs)]
    /\ \A s \in Sessions : \A i \in 1..Len(log[s]) : log[s][i] \in committed[s]
    /\ \A s \in Sessions : \A i, j \in 1..Len(log[s]) : log[s][i] = log[s][j] => i = j

\* Markers of the earlier release are Redis keys.
Backend ==
    /\ backend \in {"memory", "redis", "postgres"}
    /\ backend # "redis" => \A s \in Sessions : legacy[s] = {}

\* Redis lets the list and the set of runs expire separately; the set, whose
\* expiry every append renews, never goes first.
RedisKeeps ==
    backend = "redis" =>
        /\ list \in [Sessions -> Seq(Message)]
        /\ idle \in [Sessions -> Nat] /\ marked \in [Sessions -> Nat]
        /\ \A s \in Sessions :
               /\ list[s] = <<>> => log[s] = <<>>
               /\ list[s] # <<>> => marked[s] <= idle[s]

TxRecord(N) ==
    [stage : {"idle", "locked", "marked", "numbered"}, session : Sessions \cup {None},
     run : Runs \cup {None}, next : N]

\* A transaction holds the lock of its conversation, alone, so the absence of
\* its run that the INSERT saw still holds when it commits.
PgLocked ==
    /\ tx \in [Writers -> TxRecord({tx[w].next : w \in Writers})]
    /\ \A w \in Writers :
           IF tx[w].stage = "idle" THEN tx[w].session = None
           ELSE /\ backend = "postgres"
                /\ tx[w].session \in Sessions /\ tx[w].run \in Runs
                /\ \A v \in Writers \ {w} : tx[v].session # tx[w].session
                /\ tx[w].stage # "locked" => tx[w].run \notin committed[tx[w].session]

StoreInv == Logs /\ Backend /\ RedisKeeps /\ PgLocked

-----------------------------------------------------------------------------
(* What a step does to the logs *)

\* Conversations C are lost, and markers with them or of no turn that is held.
Forgets(C) ==
    /\ log' = [s \in Sessions |-> IF s \in C THEN <<>> ELSE log[s]]
    /\ committed' \in [Sessions -> SUBSET Runs] /\ legacy' \in [Sessions -> SUBSET Runs]
    /\ \A s \in Sessions : committed'[s] \cup legacy'[s] \subseteq committed[s] \cup legacy[s]
    /\ \A s \in Sessions \ C : \A i \in 1..Len(log[s]) : log[s][i] \in committed'[s]

\* Conversation s takes the turn of r, conversations C are lost before.
Takes(s, r, C) ==
    /\ s \notin C => r \notin committed[s] \cup legacy[s]
    /\ log' = [t \in Sessions |-> IF t = s THEN Append(IF s \in C THEN <<>> ELSE log[s], r)
                                  ELSE IF t \in C THEN <<>> ELSE log[t]]
    /\ committed' \in [Sessions -> SUBSET Runs] /\ legacy' \in [Sessions -> SUBSET Runs]
    /\ r \in committed'[s]
    /\ \A t \in Sessions : committed'[t] \cup legacy'[t]
                             \subseteq committed[t] \cup legacy[t] \cup (IF t = s THEN {r} ELSE {})
    /\ \A t \in Sessions \ C : \A i \in 1..Len(log[t]) : log[t][i] \in committed'[t]

\* A log is a sequence.
LEMMA LogDomain == Logs => \A s \in Sessions : DOMAIN log[s] = 1..Len(log[s])
  BY LenProperties DEF Logs

\* A turn of a run that is not held yet is held once.
LEMMA AppendOnce ==
    ASSUME NEW q \in Seq(Runs), NEW r \in Runs, NEW M, r \in M,
           \A i \in 1..Len(q) : q[i] \in M /\ q[i] # r,
           \A i, j \in 1..Len(q) : q[i] = q[j] => i = j
    PROVE  /\ Append(q, r) \in Seq(Runs)
           /\ \A i \in 1..Len(Append(q, r)) : Append(q, r)[i] \in M
           /\ \A i, j \in 1..Len(Append(q, r)) : Append(q, r)[i] = Append(q, r)[j] => i = j
  <1>1. /\ Len(q) \in Nat /\ Append(q, r) \in Seq(Runs) /\ Len(Append(q, r)) = Len(q) + 1
        /\ \A i \in 1..Len(q) : Append(q, r)[i] = q[i]
        /\ Append(q, r)[Len(q) + 1] = r
    BY AppendProperties, LenProperties
  <1>2. \A i \in 1..Len(q) + 1 : i \in 1..Len(q) \/ i = Len(q) + 1
    BY <1>1
  <1> QED
    BY <1>1, <1>2

\* Losing whole conversations keeps the logs in order.
LEMMA ForgetsKeeps ==
    ASSUME Logs, NEW C, Forgets(C)
    PROVE  Logs'
  <1>1. <<>> \in Seq(Runs) /\ Len(<<>>) = 0
    BY EmptySeq
  <1>2. \A s \in Sessions : log'[s] = IF s \in C THEN <<>> ELSE log[s]
    BY DEF Forgets
  <1>3. log' \in [Sessions -> Seq(Runs)]
    BY <1>1 DEF Forgets, Logs
  <1>4. ASSUME NEW s \in Sessions
        PROVE  /\ \A i \in 1..Len(log'[s]) : log'[s][i] \in committed'[s]
               /\ \A i, j \in 1..Len(log'[s]) : log'[s][i] = log'[s][j] => i = j
    <2>1. CASE s \in C
      BY <1>1, <1>2, <2>1
    <2>2. CASE s \notin C
      BY <1>2, <2>2 DEF Forgets, Logs
    <2> QED
      BY <2>1, <2>2
  <1> QED
    BY <1>3, <1>4 DEF Logs, Forgets

\* A new turn, with the loss of other conversations, keeps the logs in order.
LEMMA TakesKeeps ==
    ASSUME Logs, NEW C, NEW s \in Sessions, NEW r \in Runs, Takes(s, r, C)
    PROVE  Logs'
  <1>1. <<>> \in Seq(Runs) /\ Len(<<>>) = 0
    BY EmptySeq
  <1> DEFINE q == IF s \in C THEN <<>> ELSE log[s]
  <1>2. /\ q \in Seq(Runs) /\ \A i \in 1..Len(q) : q[i] \in committed'[s] /\ q[i] # r
        /\ \A i, j \in 1..Len(q) : q[i] = q[j] => i = j
    <2>1. CASE s \in C
      BY <1>1, <2>1
    <2>2. CASE s \notin C
      BY <2>2 DEF Logs, Takes
    <2> QED
      BY <2>1, <2>2
  <1>3. \A t \in Sessions : log'[t] = IF t = s THEN Append(q, r) ELSE IF t \in C THEN <<>> ELSE log[t]
    BY DEF Takes
  <1> HIDE DEF q
  <1>4. r \in committed'[s]
    BY DEF Takes
  <1>5. /\ Append(q, r) \in Seq(Runs)
        /\ \A i \in 1..Len(Append(q, r)) : Append(q, r)[i] \in committed'[s]
        /\ \A i, j \in 1..Len(Append(q, r)) : Append(q, r)[i] = Append(q, r)[j] => i = j
    BY <1>2, <1>4, AppendOnce
  <1>6. log' \in [Sessions -> Seq(Runs)]
    <2>1. \A t \in Sessions : log'[t] \in Seq(Runs)
      BY <1>1, <1>3, <1>5 DEF Logs
    <2>2. log' = [t \in Sessions |-> log'[t]]
      BY DEF Takes
    <2> QED
      BY <2>1, <2>2
  <1>7. ASSUME NEW t \in Sessions
        PROVE  /\ \A i \in 1..Len(log'[t]) : log'[t][i] \in committed'[t]
               /\ \A i, j \in 1..Len(log'[t]) : log'[t][i] = log'[t][j] => i = j
    <2>1. CASE t = s
      BY <1>3, <1>5, <2>1
    <2>2. CASE t # s /\ t \in C
      BY <1>1, <1>3, <2>2
    <2>3. CASE t # s /\ t \notin C
      BY <1>3, <2>3 DEF Logs, Takes
    <2> QED
      BY <2>1, <2>2, <2>3
  <1> QED
    BY <1>6, <1>7 DEF Logs, Takes

-----------------------------------------------------------------------------
(* The memory store *)

\* Purging, evicting and clearing drop messages and markers together.
LEMMA MemoryDropsForgets ==
    ASSUME StoreInv, NEW C, MemoryDrops(C)
    PROVE  Forgets(C)
  BY DEF StoreInv, Logs, MemoryDrops, Reset, Forgets

\* The steps of the memory store leave what the other stores keep alone.
LEMMA MemoryRest ==
    ASSUME StoreInv, backend = "memory", UNCHANGED <<backend, legacy, tx>>
    PROVE  Backend' /\ RedisKeeps' /\ PgLocked'
  <1>1. Backend' /\ RedisKeeps'
    BY DEF StoreInv, Backend, RedisKeeps
  <1>2. \A w \in Writers : tx[w].stage = "idle" /\ tx[w].session = None
    BY DEF StoreInv, PgLocked
  <1>3. PgLocked'
    BY <1>2 DEF StoreInv, PgLocked
  <1> QED
    BY <1>1, <1>3

\* The memory store takes a turn and may lose expired and evicted sessions.
LEMMA MemoryTakes ==
    ASSUME StoreInv, NEW s \in Sessions, NEW r \in Runs, MemoryAppendTurn(s, r)
    PROVE  /\ \E C \in SUBSET Sessions : Takes(s, r, C)
           /\ backend = "memory" /\ UNCHANGED <<backend, legacy, tx>>
  <1> DEFINE order == Append(Without(lru, Expired \cup {s}), s)
             over == IF Len(order) > MaxSessions THEN Len(order) - MaxSessions ELSE 0
             lost == Expired \cup {order[i] : i \in 1..over}
             purged(f, v) == Reset(f, Expired, v)[s]
             C == {t \in Sessions : t \in lost /\ (t = s => t \in Expired)}
  <1>1. /\ backend = "memory" /\ UNCHANGED <<backend, legacy, tx>>
        /\ r \notin purged(committed, {})
        /\ committed' = [Reset(committed, lost, {}) EXCEPT ![s] = purged(committed, {}) \cup {r}]
        /\ log' = [Reset(log, lost, <<>>) EXCEPT ![s] = Append(purged(log, <<>>), r)]
    BY DEF MemoryAppendTurn
  <1>2. Expired \subseteq lost
    OBVIOUS
  <1> HIDE DEF lost
  <1>3. s \in C <=> s \in Expired
    BY <1>2
  <1>4. purged(committed, {}) = (IF s \in C THEN {} ELSE committed[s])
        /\ purged(log, <<>>) = (IF s \in C THEN <<>> ELSE log[s])
    BY <1>3 DEF Reset
  <1>5. \A t \in Sessions \ {s} : t \in lost <=> t \in C
    OBVIOUS
  <1> HIDE DEF purged
  <1>6. log' = [t \in Sessions |-> IF t = s THEN Append(IF s \in C THEN <<>> ELSE log[s], r)
                                   ELSE IF t \in C THEN <<>> ELSE log[t]]
    BY <1>1, <1>4, <1>5 DEF Reset
  <1>7. committed' = [t \in Sessions |-> IF t = s THEN (IF s \in C THEN {} ELSE committed[s]) \cup {r}
                                         ELSE IF t \in C THEN {} ELSE committed[t]]
    BY <1>1, <1>4, <1>5 DEF Reset
  <1>8. s \notin C => r \notin committed[s] \cup legacy[s]
    BY <1>1, <1>4 DEF StoreInv, Backend
  <1>9. C \subseteq Sessions
    OBVIOUS
  <1> HIDE DEF C
  <1>10. Takes(s, r, C)
    <2> HIDE DEF order, over
    <2>1. committed' \in [Sessions -> SUBSET Runs] /\ legacy' \in [Sessions -> SUBSET Runs]
      <3>1. committed \in [Sessions -> SUBSET Runs] /\ legacy \in [Sessions -> SUBSET Runs]
        BY DEF StoreInv, Logs
      <3>2. \A t \in Sessions : committed[t] \subseteq Runs
        BY <3>1
      <3>3. \A t \in Sessions : (IF t = s THEN (IF s \in C THEN {} ELSE committed[s]) \cup {r}
                                  ELSE IF t \in C THEN {} ELSE committed[t]) \in SUBSET Runs
        BY <3>2
      <3>4. committed' \in [Sessions -> SUBSET Runs]
        BY <1>7, <3>3
      <3> QED
        BY <1>1, <3>1, <3>4
    <2>2. r \in committed'[s]
      BY <1>7
    <2>3. \A t \in Sessions : committed'[t] \cup legacy'[t]
                                \subseteq committed[t] \cup legacy[t] \cup (IF t = s THEN {r} ELSE {})
      BY <1>1, <1>7
    <2>4. \A t \in Sessions \ C : \A i \in 1..Len(log[t]) : log[t][i] \in committed'[t]
      BY <1>7 DEF StoreInv, Logs
    <2> QED
      BY <1>6, <1>8, <2>1, <2>2, <2>3, <2>4 DEF Takes
  <1> QED
    BY <1>1, <1>9, <1>10

-----------------------------------------------------------------------------
(* The Redis store *)

\* A window over a nonempty list is a nonempty list.
LEMMA LastNKeeps ==
    ASSUME NEW S, NEW q \in Seq(S), Len(q) > 0, NEW n \in Nat \ {0}
    PROVE  LastN(q, n) \in Seq(S) /\ LastN(q, n) # <<>>
  <1> DEFINE m == IF Len(q) > n THEN Len(q) - n + 1 ELSE 1
  <1>1. Len(q) \in Nat /\ m \in 1..Len(q)
    BY LenProperties
  <1>2. LastN(q, n) = SubSeq(q, m, Len(q))
    BY DEF LastN
  <1> HIDE DEF m
  <1>3. /\ SubSeq(q, m, Len(q)) \in Seq(S)
        /\ Len(SubSeq(q, m, Len(q))) = Len(q) - m + 1
    BY <1>1, SubSeqProperties
  <1>4. Len(q) - m + 1 # 0 /\ Len(<<>>) = 0
    BY <1>1
  <1> QED
    BY <1>2, <1>3, <1>4

\* A trimmed list with a new turn is not empty.
LEMMA TurnKeeps ==
    ASSUME NEW q \in Seq(Message), NEW r \in Runs
    PROVE  LastN(q \o Turn(r), MaxMessages) \in Seq(Message)
           /\ LastN(q \o Turn(r), MaxMessages) # <<>>
  <1>1. [run |-> r, kind |-> "user"] \in Message /\ [run |-> r, kind |-> "assistant"] \in Message
    BY DEF Message
  <1>2. Turn(r) \in Seq(Message) /\ Len(Turn(r)) = 2
    BY <1>1 DEF Turn
  <1>3. q \o Turn(r) \in Seq(Message) /\ Len(q \o Turn(r)) = Len(q) + Len(Turn(r)) /\ Len(q) \in Nat
    BY <1>2, ConcatProperties, LenProperties
  <1>4. Len(q \o Turn(r)) > 0
    BY <1>2, <1>3
  <1> QED
    BY <1>3, <1>4, LastNKeeps, StoresAssumption

\* The steps of the Redis store leave the transactions alone.
LEMMA RedisRest ==
    ASSUME StoreInv, backend = "redis", UNCHANGED <<backend, tx>>
    PROVE  Backend' /\ PgLocked'
  <1>1. \A w \in Writers : tx[w].stage = "idle" /\ tx[w].session = None
    BY DEF StoreInv, PgLocked
  <1>2. PgLocked'
    BY <1>1 DEF StoreInv, PgLocked
  <1> QED
    BY <1>2 DEF StoreInv, Backend

\* Redis refuses a committed run and refreshes the set.
LEMMA RedisRefuseStep ==
    ASSUME StoreInv, NEW s \in Sessions, NEW r \in Runs, RedisRefuse(s, r)
    PROVE  Forgets({}) /\ Backend' /\ RedisKeeps' /\ PgLocked'
  <1>1. Forgets({})
    BY DEF StoreInv, Logs, RedisRefuse, Forgets
  <1>2. RedisKeeps'
    BY DEF StoreInv, RedisKeeps, RedisRefuse
  <1> QED
    BY <1>1, <1>2, RedisRest DEF RedisRefuse

\* Redis appends a turn and notes its run in one script.
LEMMA RedisAppendStep ==
    ASSUME StoreInv, NEW s \in Sessions, NEW r \in Runs, RedisAppendTurn(s, r)
    PROVE  Takes(s, r, {}) /\ Backend' /\ RedisKeeps' /\ PgLocked'
  <1>1. Takes(s, r, {})
    BY DEF StoreInv, Logs, RedisAppendTurn, Takes
  <1>2. RedisKeeps'
    <2> DEFINE new == LastN(list[s] \o Turn(r), MaxMessages)
    <2>1. list \in [Sessions -> Seq(Message)] /\ list' = [list EXCEPT ![s] = new]
      BY DEF StoreInv, RedisKeeps, RedisAppendTurn
    <2>2. new \in Seq(Message) /\ new # <<>>
      BY <2>1, TurnKeeps
    <2> HIDE DEF new
    <2> QED
      BY <2>1, <2>2 DEF StoreInv, RedisKeeps, RedisAppendTurn
  <1> QED
    BY <1>1, <1>2, RedisRest DEF RedisAppendTurn

\* Redis deletes list, set and markers together.
LEMMA RedisClearStep ==
    ASSUME StoreInv, NEW s \in Sessions, RedisClear(s)
    PROVE  Forgets({s}) /\ Backend' /\ RedisKeeps' /\ PgLocked'
  <1>1. Forgets({s})
    BY DEF StoreInv, Logs, RedisClear, Forgets
  <1>2. RedisKeeps'
    <2>1. list' \in [Sessions -> Seq(Message)]
      <3>1. <<>> \in Seq(Message)
        BY EmptySeq
      <3> QED
        BY <3>1 DEF StoreInv, RedisKeeps, RedisClear
    <2>2. idle' \in [Sessions -> Nat] /\ marked' \in [Sessions -> Nat]
      BY DEF StoreInv, RedisKeeps, RedisClear
    <2>3. \A t \in Sessions : /\ list'[t] = <<>> => log'[t] = <<>>
                              /\ list'[t] # <<>> => marked'[t] <= idle'[t]
      <3> SUFFICES ASSUME NEW t \in Sessions
                   PROVE  /\ list'[t] = <<>> => log'[t] = <<>>
                          /\ list'[t] # <<>> => marked'[t] <= idle'[t]
        OBVIOUS
      <3>1. CASE t = s
        <4>1. list'[t] = <<>> /\ log'[t] = <<>>
          BY <3>1 DEF StoreInv, Logs, RedisKeeps, RedisClear
        <4> QED
          BY <4>1
      <3>2. CASE t # s
        <4>1. list'[t] = list[t] /\ log'[t] = log[t] /\ marked'[t] = marked[t] /\ idle'[t] = idle[t]
          BY <3>2 DEF StoreInv, Logs, RedisKeeps, RedisClear
        <4> QED
          BY <4>1 DEF StoreInv, RedisKeeps, RedisClear
      <3> QED
        BY <3>1, <3>2
    <2> QED
      BY <2>1, <2>2, <2>3 DEF RedisKeeps
  <1> QED
    BY <1>1, <1>2, RedisRest DEF RedisClear

\* A marker of an earlier release expires.
LEMMA RedisMarkerStep ==
    ASSUME StoreInv, NEW s \in Sessions, NEW r \in Runs, RedisMarkerExpires(s, r)
    PROVE  Forgets({}) /\ Backend' /\ RedisKeeps' /\ PgLocked'
  <1>1. Forgets({})
    BY DEF StoreInv, Logs, RedisMarkerExpires, Forgets
  <1>2. backend = "redis"
    BY DEF StoreInv, Backend, RedisMarkerExpires
  <1>3. RedisKeeps'
    BY DEF StoreInv, RedisKeeps, RedisMarkerExpires
  <1> QED
    BY <1>1, <1>2, <1>3, RedisRest DEF RedisMarkerExpires

\* The set of runs outlives the list.
LEMMA RedisTickStep ==
    ASSUME StoreInv, RedisTick
    PROVE  (\E C \in SUBSET Sessions : Forgets(C)) /\ Backend' /\ RedisKeeps' /\ PgLocked'
  <1> DEFINE gone == {s \in Sessions : list[s] # <<>> /\ idle[s] + 1 >= Ttl}
             unmarked == {s \in Sessions : committed[s] # {} /\ marked[s] + 1 >= Ttl}
  <1>1. /\ backend = "redis" /\ UNCHANGED <<backend, legacy, tx>>
        /\ list' = Reset(list, gone, <<>>) /\ log' = Reset(log, gone, <<>>)
        /\ committed' = Reset(committed, unmarked, {})
        /\ idle' = [s \in Sessions |-> IF list'[s] = <<>> THEN 0 ELSE idle[s] + 1]
        /\ marked' = [s \in Sessions |-> IF committed'[s] = {} THEN 0 ELSE marked[s] + 1]
    BY DEF RedisTick
  <1>2. \A s \in Sessions : idle[s] \in Nat /\ marked[s] \in Nat
    BY <1>1 DEF StoreInv, RedisKeeps
  <1>3. Ttl \in Nat
    BY StoresAssumption
  <1>4. \A s \in Sessions : list[s] # <<>> /\ s \notin gone => s \notin unmarked
    <2> SUFFICES ASSUME NEW s \in Sessions, list[s] # <<>>, s \notin gone PROVE s \notin unmarked
      OBVIOUS
    <2>1. ~(idle[s] + 1 >= Ttl) /\ marked[s] <= idle[s]
      BY <1>1 DEF StoreInv, RedisKeeps
    <2>2. ~(marked[s] + 1 >= Ttl)
      BY <1>2, <1>3, <2>1
    <2> QED
      BY <2>2
  <1>5. \A s \in Sessions : list[s] = <<>> => log[s] = <<>>
    BY <1>1 DEF StoreInv, RedisKeeps
  <1> HIDE DEF unmarked
  <1>6. gone \subseteq Sessions
    OBVIOUS
  <1> HIDE DEF gone
  <1>7. Forgets(gone)
    <2>1. \A s \in Sessions \ gone : \A i \in 1..Len(log[s]) : log[s][i] \in committed'[s]
      <3> SUFFICES ASSUME NEW s \in Sessions \ gone, NEW i \in 1..Len(log[s])
                   PROVE  log[s][i] \in committed'[s]
        OBVIOUS
      <3>1. log[s] # <<>>
        BY EmptySeq
      <3>2. s \notin unmarked
        BY <1>4, <1>5, <3>1
      <3> QED
        BY <1>1, <3>2 DEF StoreInv, Logs, Reset
    <2>2. committed' \in [Sessions -> SUBSET Runs] /\ \A s \in Sessions : committed'[s] \subseteq committed[s]
      BY <1>1 DEF StoreInv, Logs, Reset
    <2>3. log' = [s \in Sessions |-> IF s \in gone THEN <<>> ELSE log[s]]
      BY <1>1 DEF Reset
    <2> QED
      BY <1>1, <2>1, <2>2, <2>3 DEF Forgets, StoreInv, Logs
  <1>8. RedisKeeps'
    <2>1. \A s \in Sessions : list'[s] = (IF s \in gone THEN <<>> ELSE list[s])
                              /\ log'[s] = (IF s \in gone THEN <<>> ELSE log[s])
      BY <1>1 DEF Reset
    <2>2. list' \in [Sessions -> Seq(Message)]
      <3>1. <<>> \in Seq(Message)
        BY EmptySeq
      <3> QED
        BY <1>1, <3>1 DEF StoreInv, RedisKeeps, Reset
    <2>3. idle' \in [Sessions -> Nat] /\ marked' \in [Sessions -> Nat]
      BY <1>1, <1>2
    <2>4. \A s \in Sessions : list'[s] = <<>> => log'[s] = <<>>
      BY <1>5, <2>1
    <2>5. \A s \in Sessions : list'[s] # <<>> => marked'[s] <= idle'[s]
      <3> SUFFICES ASSUME NEW s \in Sessions, list'[s] # <<>> PROVE marked'[s] <= idle'[s]
        OBVIOUS
      <3>1. marked[s] <= idle[s]
        BY <1>1, <2>1 DEF StoreInv, RedisKeeps
      <3>2. idle'[s] = idle[s] + 1 /\ marked'[s] \in {0, marked[s] + 1}
        BY <1>1
      <3> QED
        BY <1>2, <3>1, <3>2
    <2> QED
      BY <2>2, <2>3, <2>4, <2>5 DEF RedisKeeps
  <1> QED
    BY <1>1, <1>6, <1>7, <1>8, RedisRest

-----------------------------------------------------------------------------
(* The PostgreSQL store *)

\* Its steps leave what the other stores keep alone.
LEMMA PgRest ==
    ASSUME StoreInv, backend = "postgres", UNCHANGED TxVars
    PROVE  Backend' /\ RedisKeeps'
  BY DEF StoreInv, Backend, RedisKeeps, TxVars

\* The statements before the commit change nothing that others see.
LEMMA PgQuiet ==
    ASSUME StoreInv, UNCHANGED TxVars, UNCHANGED <<committed, table, log>>
    PROVE  Forgets({})
  BY DEF StoreInv, Logs, TxVars, Forgets

\* The numbers that the transactions carry are the ones they carry.
LEMMA TxTyped ==
    ASSUME NEW f, NEW N, f \in [Writers -> TxRecord(N)]
    PROVE  f \in [Writers -> TxRecord({f[v].next : v \in Writers})]
  <1> SUFFICES ASSUME NEW w \in Writers PROVE f[w] \in TxRecord({f[v].next : v \in Writers})
    OBVIOUS
  <1> DEFINE M == {f[v].next : v \in Writers}
  <1>1. f[w] \in TxRecord(N) /\ f[w].next \in M
    OBVIOUS
  <1> HIDE DEF M
  <1>2. f[w] \in TxRecord(M)
    BY <1>1 DEF TxRecord
  <1> QED
    BY <1>2 DEF M

\* The types of the transactions do not depend on the numbers they hold.
LEMMA TxPrimed ==
    ASSUME NEW N, tx' \in [Writers -> TxRecord(N)]
    PROVE  tx' \in [Writers -> TxRecord({tx[v].next : v \in Writers}')]
  BY TxTyped

\* A transaction begins with the advisory lock that nobody else has.
LEMMA PgBeginStep ==
    ASSUME StoreInv, NEW w \in Writers, NEW s \in Sessions, NEW r \in Runs, PgBegin(w, s, r)
    PROVE  Forgets({}) /\ Backend' /\ RedisKeeps' /\ PgLocked'
  <1>1. /\ backend = "postgres" /\ tx[w] = Idle /\ \A v \in Writers : tx[v].session # s
        /\ tx' = [tx EXCEPT ![w] = [stage |-> "locked", session |-> s, run |-> r, next |-> 0]]
        /\ UNCHANGED TxVars /\ UNCHANGED <<committed, table, log>>
    BY DEF PgBegin
  <1> DEFINE N == {tx[v].next : v \in Writers}
  <1>2. tx \in [Writers -> TxRecord(N)]
    BY DEF StoreInv, PgLocked
  <1> HIDE DEF N
  <1>3. /\ tx'[w].stage = "locked" /\ tx'[w].session = s /\ tx'[w].run = r
        /\ \A v \in Writers \ {w} : tx'[v] = tx[v]
    BY <1>1, <1>2
  <1>4. tx' \in [Writers -> TxRecord(N \cup {0})]
    BY <1>1, <1>2 DEF TxRecord
  <1>5. tx' \in [Writers -> TxRecord({tx[v].next : v \in Writers}')]
    BY <1>4, TxPrimed
  <1>6. PgLocked'
    BY <1>1, <1>3, <1>5 DEF StoreInv, PgLocked, TxVars
  <1> QED
    BY <1>1, <1>6, PgRest, PgQuiet

\* A transaction that ends, by a commit, an error or a crash, frees the lock.
LEMMA PgEnds ==
    ASSUME StoreInv, NEW w \in Writers, tx' = [tx EXCEPT ![w] = Idle], UNCHANGED backend,
           \A v \in Writers \ {w} : tx[v].stage # "idle" =>
               committed'[tx[v].session] = committed[tx[v].session]
    PROVE  PgLocked'
  <1> DEFINE N == {tx[v].next : v \in Writers}
  <1>1. tx \in [Writers -> TxRecord(N)]
    BY DEF StoreInv, PgLocked
  <1> HIDE DEF N
  <1>2. tx' \in [Writers -> TxRecord(N \cup {0})]
    BY <1>1 DEF Idle, TxRecord
  <1>3. tx' \in [Writers -> TxRecord({tx[v].next : v \in Writers}')]
    BY <1>2, TxPrimed
  <1>4. tx'[w].stage = "idle" /\ tx'[w].session = None /\ \A v \in Writers \ {w} : tx'[v] = tx[v]
    BY <1>1 DEF Idle
  <1>5. ASSUME NEW v \in Writers, tx'[v].stage # "idle"
        PROVE  /\ backend' = "postgres"
               /\ tx'[v].session \in Sessions /\ tx'[v].run \in Runs
               /\ \A u \in Writers \ {v} : tx'[u].session # tx'[v].session
               /\ tx'[v].stage # "locked" => tx'[v].run \notin committed'[tx'[v].session]
    <2>1. v # w /\ tx'[v] = tx[v]
      BY <1>4, <1>5
    <2>2. /\ backend = "postgres"
          /\ tx[v].session \in Sessions /\ tx[v].run \in Runs
          /\ \A u \in Writers \ {v} : tx[u].session # tx[v].session
          /\ tx[v].stage # "locked" => tx[v].run \notin committed[tx[v].session]
      BY <1>5, <2>1 DEF StoreInv, PgLocked
    <2>3. \A u \in Writers \ {v} : tx'[u].session # tx'[v].session
      BY <1>4, <2>1, <2>2, StoresAssumption
    <2> QED
      BY <1>5, <2>1, <2>2, <2>3
  <1>6. \A v \in Writers : tx'[v].stage = "idle" => tx'[v].session = None
    BY <1>4 DEF StoreInv, PgLocked
  <1> QED
    BY <1>3, <1>5, <1>6 DEF PgLocked

\* A transaction that finds its run committed gives the lock back.
LEMMA PgRefuseStep ==
    ASSUME StoreInv, NEW w \in Writers, PgRefuse(w) \/ PgAbort(w)
    PROVE  Forgets({}) /\ Backend' /\ RedisKeeps' /\ PgLocked'
  <1>1. /\ tx' = [tx EXCEPT ![w] = Idle]
        /\ UNCHANGED TxVars /\ UNCHANGED <<committed, table, log>>
    BY DEF PgRefuse, PgAbort
  <1>2. PgLocked'
    BY <1>1, PgEnds DEF TxVars
  <1>3. Backend' /\ RedisKeeps'
    BY <1>1 DEF StoreInv, Backend, RedisKeeps, TxVars
  <1> QED
    BY <1>1, <1>2, <1>3, PgQuiet

\* A transaction goes on to its next statement under its lock.
LEMMA PgGoesOn ==
    ASSUME StoreInv, NEW w \in Writers, NEW h \in {"marked", "numbered"}, NEW n,
           tx[w].stage # "idle", tx[w].run \notin committed[tx[w].session],
           tx' = [tx EXCEPT ![w].stage = h, ![w].next = n],
           UNCHANGED TxVars, UNCHANGED <<committed, table, log>>
    PROVE  Forgets({}) /\ Backend' /\ RedisKeeps' /\ PgLocked'
  <1> DEFINE N == {tx[v].next : v \in Writers}
  <1>1. tx \in [Writers -> TxRecord(N)]
    BY DEF StoreInv, PgLocked
  <1> HIDE DEF N
  <1>2. /\ \A v \in Writers \ {w} : tx'[v] = tx[v]
        /\ tx'[w].stage = h /\ tx'[w].session = tx[w].session /\ tx'[w].run = tx[w].run
    BY <1>1 DEF TxRecord
  <1>3. tx' \in [Writers -> TxRecord({tx[v].next : v \in Writers}')]
    <2>1. tx' \in [Writers -> TxRecord(N \cup {n})]
      BY <1>1 DEF TxRecord
    <2> QED
      BY <2>1, TxPrimed
  <1>4. \A v \in Writers : tx'[v].session = tx[v].session /\ tx'[v].run = tx[v].run
    BY <1>2, <1>3
  <1>5. backend' = backend /\ committed' = committed
    BY DEF TxVars
  <1>6. \A v \in Writers : IF tx'[v].stage = "idle" THEN tx[v].stage = "idle"
                            ELSE tx[v].stage # "idle" /\ (tx'[v].stage # "locked" => v = w \/ tx[v].stage # "locked")
    BY <1>2, <1>3
  <1>7. PgLocked'
    <2>1. \A v \in Writers : tx'[v].stage = "idle" => tx'[v].session = None
      BY <1>4, <1>6 DEF StoreInv, PgLocked
    <2>2. ASSUME NEW v \in Writers, tx'[v].stage # "idle"
          PROVE  /\ backend' = "postgres"
                 /\ tx'[v].session \in Sessions /\ tx'[v].run \in Runs
                 /\ \A u \in Writers \ {v} : tx'[u].session # tx'[v].session
                 /\ tx'[v].stage # "locked" => tx'[v].run \notin committed'[tx'[v].session]
      <3>1. /\ backend = "postgres"
            /\ tx[v].session \in Sessions /\ tx[v].run \in Runs
            /\ \A u \in Writers \ {v} : tx[u].session # tx[v].session
            /\ tx[v].stage # "locked" => tx[v].run \notin committed[tx[v].session]
        BY <1>6, <2>2 DEF StoreInv, PgLocked
      <3> QED
        BY <1>4, <1>5, <1>6, <2>2, <3>1
    <2> QED
      BY <1>3, <2>1, <2>2 DEF PgLocked
  <1>8. Backend' /\ RedisKeeps'
    BY DEF StoreInv, Backend, RedisKeeps, TxVars
  <1> QED
    BY <1>7, <1>8, PgQuiet

\* The run is marked, visible to nobody else yet.
LEMMA PgMarkStep ==
    ASSUME StoreInv, NEW w \in Writers, PgMark(w)
    PROVE  Forgets({}) /\ Backend' /\ RedisKeeps' /\ PgLocked'
  <1> DEFINE N == {tx[v].next : v \in Writers}
  <1>1. tx \in [Writers -> TxRecord(N)]
    BY DEF StoreInv, PgLocked
  <1> HIDE DEF N
  <1>2. tx' = [tx EXCEPT ![w].stage = "marked", ![w].next = tx[w].next]
    <2>1. tx' = [tx EXCEPT ![w].stage = "marked"]
      BY DEF PgMark
    <2> QED
      BY <1>1, <2>1 DEF TxRecord
  <1> QED
    BY <1>2, PgGoesOn DEF PgMark

\* The next number is read under the lock.
LEMMA PgNumberStep ==
    ASSUME StoreInv, NEW w \in Writers, PgNumber(w)
    PROVE  Forgets({}) /\ Backend' /\ RedisKeeps' /\ PgLocked'
  <1> DEFINE taken == {x.seq : x \in table[tx[w].session]}
             n == 1 + (CHOOSE m \in taken \cup {0} : \A k \in taken : k <= m)
  <1>1. /\ tx[w].stage = "marked"
        /\ tx' = [tx EXCEPT ![w].stage = "numbered", ![w].next = n]
        /\ UNCHANGED TxVars /\ UNCHANGED <<committed, table, log>>
    BY DEF PgNumber
  <1> HIDE DEF n
  <1>2. tx[w].run \notin committed[tx[w].session]
    BY <1>1 DEF StoreInv, PgLocked
  <1> QED
    BY <1>1, <1>2, PgGoesOn

\* The turn and its mark become visible together.
LEMMA PgCommitStep ==
    ASSUME StoreInv, NEW w \in Writers, PgCommit(w)
    PROVE  /\ \E s \in Sessions, r \in Runs : Takes(s, r, {})
           /\ Backend' /\ RedisKeeps' /\ PgLocked'
  <1> DEFINE s == tx[w].session
             r == tx[w].run
  <1>1. /\ tx[w].stage = "numbered" /\ committed' = [committed EXCEPT ![s] = @ \cup {r}]
        /\ log' = [log EXCEPT ![s] = Append(@, r)] /\ tx' = [tx EXCEPT ![w] = Idle]
        /\ UNCHANGED TxVars
    BY DEF PgCommit
  <1>2. /\ backend = "postgres" /\ s \in Sessions /\ r \in Runs /\ r \notin committed[s]
        /\ \A v \in Writers \ {w} : tx[v].session # s
    BY <1>1 DEF StoreInv, PgLocked
  <1>3. legacy[s] = {} /\ legacy' = legacy
    BY <1>1, <1>2 DEF StoreInv, Backend, TxVars
  <1> HIDE DEF s, r
  <1>4. Takes(s, r, {})
    BY <1>1, <1>2, <1>3 DEF StoreInv, Logs, Takes
  <1>5. \A v \in Writers \ {w} : tx[v].stage # "idle" =>
           committed'[tx[v].session] = committed[tx[v].session]
    BY <1>1, <1>2 DEF StoreInv, Logs, PgLocked
  <1>6. PgLocked'
    BY <1>1, <1>5, PgEnds DEF TxVars
  <1> QED
    BY <1>1, <1>2, <1>4, <1>6, PgRest

\* A conversation is deleted.
LEMMA PgClearStep ==
    ASSUME StoreInv, NEW s \in Sessions, PgClear(s)
    PROVE  Forgets({s}) /\ Backend' /\ RedisKeeps' /\ PgLocked'
  <1>1. /\ backend = "postgres" /\ \A v \in Writers : tx[v].session # s
        /\ committed' = [committed EXCEPT ![s] = {}]
        /\ log' = [log EXCEPT ![s] = <<>>] /\ tx' = tx /\ UNCHANGED TxVars
    BY DEF PgClear
  <1>2. Forgets({s})
    BY <1>1 DEF StoreInv, Logs, Forgets, TxVars
  <1>3. PgLocked'
    BY <1>1 DEF StoreInv, Logs, PgLocked, TxVars
  <1> QED
    BY <1>1, <1>2, <1>3, PgRest

-----------------------------------------------------------------------------
(* Every step *)

\* The initial states.
LEMMA StoreInitially == StoreInit => StoreInv
  <1> SUFFICES ASSUME StoreInit PROVE StoreInv
    OBVIOUS
  <1>1. <<>> \in Seq(Runs) /\ <<>> \in Seq(Message) /\ Len(<<>>) = 0
    BY EmptySeq
  <1>2. Logs
    BY <1>1 DEF StoreInit, Logs
  <1>3. Backend
    BY StoresAssumption DEF StoreInit, Backend
  <1>4. RedisKeeps
    BY <1>1 DEF StoreInit, RedisKeeps
  <1>5. PgLocked
    BY DEF StoreInit, PgLocked, Idle, TxRecord
  <1> QED
    BY <1>2, <1>3, <1>4, <1>5 DEF StoreInv

\* Each step of a store loses conversations or takes one turn.
LEMMA StoreEffect ==
    ASSUME StoreInv, StoreNext
    PROVE  /\ \/ \E C : Forgets(C)
              \/ \E C : \E s \in Sessions, r \in Runs : Takes(s, r, C)
           /\ Backend' /\ RedisKeeps' /\ PgLocked'
  <1> DEFINE Rest == Backend' /\ RedisKeeps' /\ PgLocked'
             Effect == /\ \/ \E C : Forgets(C)
                          \/ \E C : \E s \in Sessions, r \in Runs : Takes(s, r, C)
                       /\ Rest
  <1>1. ASSUME NEW C, MemoryDrops(C) PROVE Effect
    <2>1. backend = "memory" /\ UNCHANGED <<backend, legacy, tx>>
      BY <1>1 DEF MemoryDrops
    <2> QED
      BY <1>1, <2>1, MemoryDropsForgets, MemoryRest
  <1>2. ASSUME MemoryPurge PROVE Effect
    BY <1>1, <1>2 DEF MemoryPurge
  <1>3. ASSUME MemoryTick PROVE Effect
    <2>1. Forgets({}) /\ backend = "memory" /\ UNCHANGED <<backend, legacy, tx>>
      BY <1>3 DEF StoreInv, Logs, MemoryTick, Forgets
    <2> QED
      BY <2>1, MemoryRest
  <1>4. ASSUME RedisTick PROVE Effect
    BY <1>4, RedisTickStep
  <1>5. ASSUME NEW C, MemoryClear(C) PROVE Effect
    BY <1>1, <1>5 DEF MemoryClear
  <1>6. ASSUME NEW s \in Sessions, MemoryGet(s) PROVE Effect
    BY <1>1, <1>6 DEF MemoryGet
  <1>7. ASSUME NEW s \in Sessions, RedisClear(s) \/ PgClear(s) PROVE Effect
    BY <1>7, RedisClearStep, PgClearStep
  <1>8. ASSUME NEW s \in Sessions, NEW r \in Runs, MemoryAppendTurn(s, r) PROVE Effect
    BY <1>8, MemoryTakes, MemoryRest
  <1>9. ASSUME NEW s \in Sessions, NEW r \in Runs, RedisRefuse(s, r) PROVE Effect
    BY <1>9, RedisRefuseStep
  <1>10. ASSUME NEW s \in Sessions, NEW r \in Runs, RedisAppendTurn(s, r) PROVE Effect
    BY <1>10, RedisAppendStep
  <1>11. ASSUME NEW s \in Sessions, NEW r \in Runs, RedisMarkerExpires(s, r) PROVE Effect
    BY <1>11, RedisMarkerStep
  <1>12. ASSUME NEW w \in Writers, NEW s \in Sessions, NEW r \in Runs, PgBegin(w, s, r) PROVE Effect
    BY <1>12, PgBeginStep
  <1>13. ASSUME NEW w \in Writers, PgRefuse(w) \/ PgAbort(w) PROVE Effect
    BY <1>13, PgRefuseStep
  <1>14. ASSUME NEW w \in Writers, PgMark(w) \/ PgNumber(w) PROVE Effect
    BY <1>14, PgMarkStep, PgNumberStep
  <1>15. ASSUME NEW w \in Writers, PgCommit(w) PROVE Effect
    BY <1>15, PgCommitStep
  <1> HIDE DEF Effect
  <1>16. ASSUME NEW s \in Sessions, NEW r \in Runs,
                \/ MemoryAppendTurn(s, r)
                \/ RedisRefuse(s, r) \/ RedisAppendTurn(s, r) \/ RedisMarkerExpires(s, r)
                \/ \E w \in Writers : PgBegin(w, s, r)
         PROVE  Effect
    BY <1>8, <1>9, <1>10, <1>11, <1>12, <1>16
  <1>17. ASSUME NEW s \in Sessions,
                \/ MemoryGet(s) \/ MemoryClear({s}) \/ RedisClear(s) \/ PgClear(s)
                \/ \E r \in Runs :
                       \/ MemoryAppendTurn(s, r)
                       \/ RedisRefuse(s, r) \/ RedisAppendTurn(s, r) \/ RedisMarkerExpires(s, r)
                       \/ \E w \in Writers : PgBegin(w, s, r)
         PROVE  Effect
    BY <1>5, <1>6, <1>7, <1>16, <1>17
  <1>18. ASSUME NEW w \in Writers,
                PgRefuse(w) \/ PgMark(w) \/ PgNumber(w) \/ PgCommit(w) \/ PgAbort(w)
         PROVE  Effect
    BY <1>13, <1>14, <1>15, <1>18
  <1>19. MemoryClear(Sessions) => Effect
    BY <1>5
  <1>20. Effect
    BY <1>2, <1>3, <1>4, <1>17, <1>18, <1>19, Zenon DEF StoreNext
  <1> QED
    BY <1>20 DEF Effect

\* A stutter.
LEMMA StoreUnchanged ==
    ASSUME StoreInv, UNCHANGED storeVars
    PROVE  Forgets({}) /\ StoreInv'
  <1>1. Forgets({}) /\ Logs'
    BY DEF StoreInv, Logs, Forgets, storeVars
  <1>2. Backend' /\ RedisKeeps' /\ PgLocked'
    BY DEF StoreInv, Backend, RedisKeeps, PgLocked, storeVars
  <1> QED
    BY <1>1, <1>2 DEF StoreInv

\* Every step keeps the invariant.
LEMMA StoreStep == StoreInv /\ [StoreNext]_storeVars => StoreInv'
  <1> SUFFICES ASSUME StoreInv, [StoreNext]_storeVars PROVE StoreInv'
    OBVIOUS
  <1>1. CASE StoreNext
    <2>1. Logs
      BY DEF StoreInv
    <2>2. Logs'
      BY <1>1, <2>1, StoreEffect, ForgetsKeeps, TakesKeeps
    <2> QED
      BY <1>1, <2>2, StoreEffect DEF StoreInv
  <1>2. CASE UNCHANGED storeVars
    BY <1>2, StoreUnchanged
  <1> QED
    BY <1>1, <1>2

\* The inductive invariant of the three stores.
LEMMA StoreInvariant == StoreSpec => []StoreInv
  BY StoreInitially, StoreStep, PTL DEF StoreSpec

-----------------------------------------------------------------------------
(* The theorems *)

\* While a conversation lives, no store holds the turn of one run twice, for
\* any window, time to live and number of sessions: also when the first copy
\* has left the window, when the Redis list and its set of runs expire at
\* different times, and when append_turn transactions of several processes
\* interleave and abort.
THEOREM TurnsAreTakenOnce == StoreSpec => []NoTurnTwice
  <1>1. StoreInv => NoTurnTwice
    BY LogDomain DEF StoreInv, Logs, NoTurnTwice
  <1> QED
    BY <1>1, StoreInvariant, PTL

\* A loss of conversations is one of TurnLog.
LEMMA RefinesForget ==
    ASSUME Logs, NEW C, Forgets(C)
    PROVE  \E D \in SUBSET Sessions : Turns!Forget(D)
  <1> DEFINE D == {s \in Sessions : s \in C}
  <1>1. log' = Turns!Without(D)
    BY DEF Forgets, Turns!Without
  <1>2. \A s \in Sessions \ D : Turns!Held(s) \subseteq committed'[s]
    BY LogDomain DEF Forgets, Turns!Held
  <1>3. Turns!Remembers(D)
    BY <1>2 DEF Turns!Remembers
  <1>4. [s \in Sessions |-> committed[s] \cup legacy[s]]' \in [Sessions -> SUBSET Runs]
    BY DEF Forgets
  <1>5. \A s \in Sessions : [t \in Sessions |-> committed[t] \cup legacy[t]]'[s]
                              \subseteq [t \in Sessions |-> committed[t] \cup legacy[t]][s]
    BY DEF Forgets
  <1>6. Turns!Forget(D)
    BY <1>1, <1>3, <1>4, <1>5 DEF Turns!Forget
  <1> QED
    BY <1>6

\* A new turn is a commit of TurnLog.
LEMMA RefinesCommit ==
    ASSUME Logs, NEW C, NEW s \in Sessions, NEW r \in Runs, Takes(s, r, C)
    PROVE  \E D \in SUBSET Sessions : Turns!Commit(s, r, D)
  <1> DEFINE D == {t \in Sessions : t \in C}
  <1>1. log' = [Turns!Without(D) EXCEPT ![s] = Append(@, r)]
    BY DEF Takes, Turns!Without
  <1>2. \A t \in Sessions \ D : Turns!Held(t) \subseteq committed'[t]
    BY LogDomain DEF Takes, Turns!Held
  <1>3. Turns!Remembers(D)
    BY <1>2 DEF Turns!Remembers
  <1>4. [t \in Sessions |-> committed[t] \cup legacy[t]]' \in [Sessions -> SUBSET Runs]
    BY DEF Takes
  <1>5. \A t \in Sessions :
           [u \in Sessions |-> committed[u] \cup legacy[u]]'[t]
             \subseteq [u \in Sessions |-> committed[u] \cup legacy[u]][t] \cup (IF t = s THEN {r} ELSE {})
    BY DEF Takes
  <1>6. /\ s \notin D => r \notin [u \in Sessions |-> committed[u] \cup legacy[u]][s]
        /\ r \in [u \in Sessions |-> committed[u] \cup legacy[u]]'[s]
    BY DEF Takes
  <1>7. Turns!Commit(s, r, D)
    BY <1>1, <1>3, <1>4, <1>5, <1>6 DEF Turns!Commit
  <1> QED
    BY <1>7

\* Each of the three stores implements TurnLog, what the chat runtime relies on:
\* a conversation is lost as a whole or not at all, a turn is added whole and
\* once, and a run's marker is forgotten only after its turn.
THEOREM StoresImplementTurnLog == StoreSpec => ImplementsTurnLog
  <1>1. StoreInit => Turns!LogInit
    BY StoresAssumption DEF StoreInit, Turns!LogInit
  <1>2. StoreInv /\ [StoreNext]_storeVars => [Turns!LogNext]_(Turns!logVars)
    <2> SUFFICES ASSUME StoreInv, [StoreNext]_storeVars PROVE Turns!LogNext
      OBVIOUS
    <2>1. Logs
      BY DEF StoreInv
    <2>2. \/ \E C : Forgets(C)
          \/ \E C : \E s \in Sessions, r \in Runs : Takes(s, r, C)
      BY StoreEffect, StoreUnchanged
    <2>3. CASE \E C : Forgets(C)
      BY <2>1, <2>3, RefinesForget DEF Turns!LogNext
    <2>4. CASE \E C : \E s \in Sessions, r \in Runs : Takes(s, r, C)
      <3>1. PICK C : \E s \in Sessions, r \in Runs : Takes(s, r, C)
        BY <2>4
      <3>2. PICK s \in Sessions, r \in Runs : Takes(s, r, C)
        BY <3>1
      <3> QED
        BY <2>1, <3>2, RefinesCommit DEF Turns!LogNext
    <2> QED
      BY <2>2, <2>3, <2>4
  <1> QED
    BY <1>1, <1>2, StoreInvariant, PTL DEF StoreSpec, ImplementsTurnLog, Turns!LogSpec

-----------------------------------------------------------------------------
(* What the stores hold: the second invariant, inductive relative to StoreInv *)

\* The conversations of the memory store are those with a turn in the log, as
\* many as fit, each once in the order of use.
MemoryKeeps ==
    backend = "memory" =>
        /\ lru \in Seq(Sessions) /\ Len(lru) <= MaxSessions
        /\ \A i, j \in 1..Len(lru) : lru[i] = lru[j] => i = j
        /\ \A s \in Sessions : s \in Range(lru) <=> log[s] # <<>>
        /\ \A s \in Sessions : committed[s] # {} <=> log[s] # <<>>

\* The list of the memory and the Redis store is the window over the log.
ListKeeps ==
    backend # "postgres" =>
        list = [s \in Sessions |-> LastN(Messages(log[s]), MaxMessages)]

\* The number of the first of n messages that is in the window.
From(n) == IF n > MaxMessages THEN n - MaxMessages + 1 ELSE 1

\* The rows with the numbers a to n of the messages m.
RowsOf(m, a, n) == {[seq |-> i, msg |-> m[i]] : i \in a..n}

\* The table numbers the messages by their place in the log and holds those of
\* the window; a transaction that has its number has the next one.
PgKeeps ==
    backend = "postgres" =>
        /\ table = [s \in Sessions |->
                       RowsOf(Messages(log[s]), From(2 * Len(log[s])), 2 * Len(log[s]))]
        /\ \A w \in Writers :
               tx[w].stage = "numbered" => tx[w].next = 2 * Len(log[tx[w].session]) + 1

Holds == MemoryKeeps /\ ListKeeps /\ PgKeeps

-----------------------------------------------------------------------------
(* The operators on sequences *)

\* Ascending lists the numbers of a finite set, each of them once, in their order.
LEMMA AscendingLists ==
    ASSUME NEW n \in Nat, NEW K \in SUBSET (1..n)
    PROVE  /\ Cardinality(K) \in Nat /\ Cardinality(K) <= n
           /\ Cardinality(K) = n => K = 1..n
           /\ DOMAIN Ascending(K) = 1..Cardinality(K)
           /\ \A k \in 1..Cardinality(K) : Ascending(K)[k] \in K
           /\ \A k, l \in 1..Cardinality(K) : Ascending(K)[k] = Ascending(K)[l] => k = l
           /\ \A k, l \in 1..Cardinality(K) : k < l => Ascending(K)[k] < Ascending(K)[l]
           /\ \A i \in K : \E k \in 1..Cardinality(K) : Ascending(K)[k] = i
  <1> DEFINE Below(i) == {j \in K : j <= i}
             c == Cardinality(K)
             rank == [i \in K |-> Cardinality(Below(i))]
  <1>1. IsFiniteSet(1..n) /\ Cardinality(1..n) = n
    BY FS_Interval
  <1>2. IsFiniteSet(K) /\ c \in Nat /\ c <= n /\ (c = n => K = 1..n)
    BY <1>1, FS_Subset, FS_CardinalityType
  <1>3. ASSUME NEW i \in K
        PROVE  IsFiniteSet(Below(i)) /\ Cardinality(Below(i)) \in 1..c
    <2>1. Below(i) \in SUBSET K /\ i \in Below(i)
      OBVIOUS
    <2>2. IsFiniteSet(Below(i)) /\ Cardinality(Below(i)) <= c
      BY <1>2, <2>1, FS_Subset
    <2>3. Cardinality(Below(i)) \in Nat
      BY <2>2, FS_CardinalityType
    <2>4. Cardinality(Below(i)) # 0
      BY <2>1, <2>2, FS_EmptySet
    <2> QED
      BY <1>2, <2>2, <2>3, <2>4
  <1>4. ASSUME NEW i \in K, NEW j \in K, i < j
        PROVE  Cardinality(Below(i)) < Cardinality(Below(j))
    <2>1. i \in Nat /\ j \in Nat /\ K \subseteq Nat
      OBVIOUS
    <2>2. \A k \in K : k <= i => k <= j
      BY <1>4, <2>1
    <2>3. j <= j /\ ~ (j <= i)
      BY <1>4, <2>1
    <2>4. Below(i) \in SUBSET Below(j) /\ j \in Below(j) /\ j \notin Below(i)
      BY <2>2, <2>3
    <2>5. Cardinality(Below(i)) <= Cardinality(Below(j)) /\ Cardinality(Below(i)) # Cardinality(Below(j))
      BY <1>3, <2>4, FS_Subset
    <2>6. Cardinality(Below(i)) \in Nat /\ Cardinality(Below(j)) \in Nat
      BY <1>3
    <2> QED
      BY <2>5, <2>6
  <1>5. \A i, j \in K : rank[i] = rank[j] => i = j
    <2> SUFFICES ASSUME NEW i \in K, NEW j \in K, i # j PROVE rank[i] # rank[j]
      OBVIOUS
    <2>1. i < j \/ j < i
      OBVIOUS
    <2>2. Cardinality(Below(i)) \in Nat /\ Cardinality(Below(j)) \in Nat
      BY <1>3
    <2> QED
      BY <1>4, <2>1, <2>2
  <1>6. rank \in [K -> 1..c]
    BY <1>3
  <1>16. \A i, j \in K : i < j => rank[i] < rank[j]
    BY <1>4
  <1>7. IsFiniteSet(1..c) /\ Cardinality(1..c) = c
    BY <1>2, FS_Interval
  <1>8. rank \in Injection(K, 1..c)
    BY <1>5, <1>6 DEF Injection, IsInjective
  <1>9. rank \in Surjection(K, 1..c)
    BY <1>7, <1>8, FS_Injection
  <1>10. \A k \in 1..c : \E i \in K : rank[i] = k
    BY <1>9 DEF Surjection
  <1>11. \A k \in 1..c : Ascending(K)[k] = CHOOSE i \in K : rank[i] = k
    BY DEF Ascending
  <1>12. DOMAIN Ascending(K) = 1..c
    BY DEF Ascending
  <1> HIDE DEF c, rank
  <1>13. \A k \in 1..c : Ascending(K)[k] \in K /\ rank[Ascending(K)[k]] = k
    BY <1>10, <1>11
  <1>14. \A i \in K : Ascending(K)[rank[i]] = i
    BY <1>5, <1>6, <1>13
  <1>15. \A i \in K : rank[i] \in 1..c
    BY <1>6
  <1>17. ASSUME NEW k \in 1..c, NEW l \in 1..c, k < l PROVE Ascending(K)[k] < Ascending(K)[l]
    <2>1. PICK i \in K : i = Ascending(K)[k] /\ rank[i] = k
      BY <1>13
    <2>2. PICK j \in K : j = Ascending(K)[l] /\ rank[j] = l
      BY <1>13
    <2>3. i # j /\ ~ (j < i)
      BY <1>16, <1>17, <2>1, <2>2
    <2>4. i < j
      BY <2>3
    <2> QED
      BY <2>1, <2>2, <2>4
  <1> QED
    BY <1>2, <1>12, <1>13, <1>14, <1>15, <1>17 DEF c

\* Taking keys out of the order of use leaves the others in it, each once.
LEMMA WithoutKeeps ==
    ASSUME NEW S, NEW q \in Seq(S), NEW C, \A i, j \in 1..Len(q) : q[i] = q[j] => i = j
    PROVE  /\ Without(q, C) \in Seq(S) /\ Len(Without(q, C)) <= Len(q)
           /\ \A i, j \in 1..Len(Without(q, C)) : Without(q, C)[i] = Without(q, C)[j] => i = j
           /\ Range(Without(q, C)) = Range(q) \ C
           /\ Range(q) \cap C # {} => Len(Without(q, C)) < Len(q)
           /\ \A i, j \in 1..Len(Without(q, C)) : i < j =>
                  \E k, l \in 1..Len(q) : /\ k < l
                                          /\ Without(q, C)[i] = q[k] /\ Without(q, C)[j] = q[l]
  <1>1. Len(q) \in Nat /\ DOMAIN q = 1..Len(q)
    BY LenProperties
  <1> DEFINE K == {i \in DOMAIN q : q[i] \notin C}
             a == Ascending(K)
             c == Cardinality(K)
             p == Without(q, C)
  <1>2. K \in SUBSET (1..Len(q))
    BY <1>1
  <1>3. /\ c \in Nat /\ c <= Len(q) /\ (c = Len(q) => K = 1..Len(q)) /\ DOMAIN a = 1..c
        /\ \A k \in 1..c : a[k] \in K
        /\ \A k, l \in 1..c : a[k] = a[l] => k = l
        /\ \A k, l \in 1..c : k < l => a[k] < a[l]
        /\ \A i \in K : \E k \in 1..c : a[k] = i
    <2> HIDE DEF K
    <2> QED
      BY <1>1, <1>2, AscendingLists
  <1>4. p = [k \in 1..c |-> q[a[k]]]
    BY <1>3 DEF Without
  <1>5. \A i \in 1..Len(q) : q[i] \in S
    BY ElementOfSeq
  <1>6. \A k \in 1..c : a[k] \in 1..Len(q) /\ q[a[k]] \in S /\ q[a[k]] \notin C
    BY <1>1, <1>3, <1>5
  <1>7. \A i \in 1..Len(q) : q[i] \notin C => \E k \in 1..c : a[k] = i
    BY <1>1, <1>3
  <1>11. Range(q) \cap C # {} => K # 1..Len(q)
    BY <1>1 DEF Range
  <1> HIDE DEF K, a, c, p
  <1>8. p \in Seq(S) /\ Len(p) = c
    <2>1. p \in [1..c -> S]
      BY <1>4, <1>6
    <2> QED
      BY <1>3, <2>1, SeqDef
  <1>9. \A i, j \in 1..c : p[i] = p[j] => i = j
    BY <1>3, <1>4, <1>6
  <1>10. Range(p) = Range(q) \ C
    <2>1. Range(p) = {p[k] : k \in 1..c} /\ Range(q) = {q[i] : i \in 1..Len(q)}
      BY <1>1, <1>4 DEF Range
    <2>2. ASSUME NEW x \in Range(p) PROVE x \in Range(q) \ C
      BY <1>4, <1>6, <2>1, <2>2
    <2>3. ASSUME NEW x \in Range(q) \ C PROVE x \in Range(p)
      <3>1. PICK i \in 1..Len(q) : q[i] = x
        BY <2>1
      <3>2. PICK k \in 1..c : a[k] = i
        BY <1>7, <2>3, <3>1
      <3> QED
        BY <1>4, <2>1, <3>1, <3>2
    <2> QED
      BY <2>2, <2>3
  <1> QED
    <2>1. Range(q) \cap C # {} => c # Len(q)
      BY <1>3, <1>11
    <2>2. c <= Len(q) /\ (c # Len(q) => c < Len(q))
      <3>1. c \in Nat /\ Len(q) \in Nat /\ c <= Len(q)
        BY <1>1, <1>3
      <3> QED
        BY <3>1
    <2>3. ASSUME NEW i \in 1..c, NEW j \in 1..c, i < j
          PROVE  \E k, l \in 1..Len(q) : k < l /\ p[i] = q[k] /\ p[j] = q[l]
      <3>1. a[i] \in 1..Len(q) /\ a[j] \in 1..Len(q) /\ p[i] = q[a[i]] /\ p[j] = q[a[j]]
        BY <1>4, <1>6
      <3>2. a[i] < a[j]
        BY <1>3, <2>3
      <3> QED
        BY <3>1, <3>2
    <2> QED
      BY <1>8, <1>9, <1>10, <2>1, <2>2, <2>3 DEF p

\* A key that is not in the order of use becomes the last one.
LEMMA LastInOrder ==
    ASSUME NEW S, NEW q \in Seq(S), NEW x \in S, x \notin Range(q),
           \A i, j \in 1..Len(q) : q[i] = q[j] => i = j
    PROVE  /\ Append(q, x) \in Seq(S) /\ Len(Append(q, x)) = Len(q) + 1 /\ Len(q) \in Nat
           /\ Append(q, x)[Len(q) + 1] = x
           /\ \A i, j \in 1..Len(q) + 1 : Append(q, x)[i] = Append(q, x)[j] => i = j
           /\ Range(Append(q, x)) = Range(q) \cup {x}
  <1> DEFINE p == Append(q, x)
  <1>1. /\ Len(q) \in Nat /\ DOMAIN q = 1..Len(q)
        /\ p \in Seq(S) /\ Len(p) = Len(q) + 1 /\ DOMAIN p = 1..Len(q) + 1
        /\ \A i \in 1..Len(q) : p[i] = q[i]
        /\ p[Len(q) + 1] = x
    BY AppendProperties, LenProperties
  <1> HIDE DEF p
  <1>2. \A i \in 1..Len(q) + 1 : i \in 1..Len(q) \/ i = Len(q) + 1
    BY <1>1
  <1>3. \A i \in 1..Len(q) : q[i] # x
    BY <1>1 DEF Range
  <1>4. \A i, j \in 1..Len(q) + 1 : p[i] = p[j] => i = j
    BY <1>1, <1>2, <1>3
  <1>5. 1..Len(q) + 1 = (1..Len(q)) \cup {Len(q) + 1}
    BY <1>1
  <1>6. Range(p) = Range(q) \cup {x}
    BY <1>1, <1>5 DEF Range
  <1> QED
    BY <1>1, <1>4, <1>6 DEF p

\* p is the order of use q without its first n keys.
Cut(p, q, n, S) ==
    /\ q \in Seq(S) /\ n \in Nat /\ n <= Len(q)
    /\ \A i, j \in 1..Len(q) : q[i] = q[j] => i = j
    /\ p \in Seq(S) /\ Len(p) = Len(q) - n
    /\ \A i \in 1..Len(q) - n : p[i] = q[i + n]

\* Cutting keys off the front of the order of use takes out just those.
LEMMA CutInOrder ==
    ASSUME NEW S, NEW q, NEW n, NEW p, Cut(p, q, n, S)
    PROVE  /\ \A i, j \in 1..Len(q) - n : p[i] = p[j] => i = j
           /\ \A x : x \in Range(p) <=> x \in Range(q) /\ \A i \in 1..n : q[i] # x
  <1>0. /\ q \in Seq(S) /\ n \in Nat /\ n <= Len(q) /\ p \in Seq(S) /\ Len(p) = Len(q) - n
        /\ \A i, j \in 1..Len(q) : q[i] = q[j] => i = j
    BY DEF Cut
  <1>1. Len(q) \in Nat /\ DOMAIN q = 1..Len(q) /\ DOMAIN p = 1..Len(q) - n
    BY <1>0, LenProperties
  <1>2. \A i \in 1..Len(q) - n : p[i] = q[i + n]
    BY DEF Cut
  <1>3. Len(q) - n \in Nat /\ \A i \in 1..Len(q) - n : i + n \in 1..Len(q)
    BY <1>0, <1>1
  <1>4. \A i, j \in 1..Len(q) - n : p[i] = p[j] => i = j
    <2> SUFFICES ASSUME NEW i \in 1..Len(q) - n, NEW j \in 1..Len(q) - n, p[i] = p[j]
                 PROVE  i = j
      OBVIOUS
    <2>1. q[i + n] = q[j + n] /\ i + n \in 1..Len(q) /\ j + n \in 1..Len(q)
      BY <1>2, <1>3
    <2>2. i + n = j + n
      BY <1>0, <2>1
    <2> QED
      BY <1>0, <2>2
  <1>5. Range(p) = Range(q) \ {q[i] : i \in 1..n}
    <2>1. Range(p) = {p[k] : k \in 1..Len(q) - n} /\ Range(q) = {q[i] : i \in 1..Len(q)}
      BY <1>1 DEF Range
    <2>2. ASSUME NEW k \in 1..Len(q) - n
          PROVE  p[k] \in Range(q) \ {q[i] : i \in 1..n}
      <3>1. p[k] = q[k + n] /\ k + n \in 1..Len(q)
        BY <1>2, <1>3
      <3>2. \A i \in 1..n : i \in 1..Len(q) /\ i # k + n
        BY <1>0, <1>1
      <3> QED
        BY <1>0, <2>1, <3>1, <3>2
    <2>3. ASSUME NEW i \in 1..Len(q), q[i] \notin {q[j] : j \in 1..n}
          PROVE  q[i] \in Range(p)
      <3>1. i \notin 1..n
        BY <2>3
      <3>2. i - n \in 1..Len(q) - n /\ i - n + n = i
        BY <1>0, <1>1, <3>1
      <3> QED
        BY <1>2, <2>1, <3>2
    <2>4. Range(p) \subseteq Range(q) \ {q[i] : i \in 1..n}
      BY <2>1, <2>2
    <2>5. Range(q) \ {q[i] : i \in 1..n} \subseteq Range(p)
      BY <2>1, <2>3
    <2> QED
      BY <2>4, <2>5
  <1> QED
    BY <1>4, <1>5

\* Where the window over n messages begins.
LEMMA FromBounds ==
    ASSUME NEW n \in Nat
    PROVE  /\ From(n) \in Nat \ {0} /\ From(n) <= n + 1
           /\ n > 0 => From(n) <= n
           /\ n - From(n) + 1 = IF n > MaxMessages THEN MaxMessages ELSE n
  BY StoresAssumption DEF From

\* A window has the messages from From on.
LEMMA WindowIs ==
    ASSUME NEW S, NEW q \in Seq(S)
    PROVE  /\ LastN(q, MaxMessages) \in Seq(S)
           /\ Len(LastN(q, MaxMessages)) = Len(q) - From(Len(q)) + 1
           /\ LastN(q, MaxMessages)
                = [i \in 1..Len(q) - From(Len(q)) + 1 |-> q[From(Len(q)) + i - 1]]
  <1> DEFINE m == From(Len(q))
             N == Len(q) - m + 1
             p == LastN(q, MaxMessages)
  <1>1. Len(q) \in Nat /\ \A i \in 1..Len(q) : q[i] \in S
    BY LenProperties, ElementOfSeq
  <1>2. p = SubSeq(q, m, Len(q))
    BY DEF LastN, From
  <1>3. m \in Nat \ {0} /\ m <= Len(q) + 1
    BY <1>1, FromBounds
  <1> HIDE DEF m, p
  <1>4. p = [i \in 1..N |-> q[m + i - 1]]
    <2>1. p = [i \in 1..Len(q) - m + 1 |-> q[i + m - 1]]
      BY <1>1, <1>2, <1>3
    <2>2. \A i \in 1..N : i + m - 1 = m + i - 1
      BY <1>1, <1>3
    <2> QED
      BY <2>1, <2>2
  <1>5. N \in Nat /\ \A i \in 1..N : m + i - 1 \in 1..Len(q)
    BY <1>1, <1>3
  <1> HIDE DEF N
  <1>6. p \in [1..N -> S]
    BY <1>1, <1>4, <1>5
  <1>7. p \in Seq(S) /\ Len(p) = N
    BY <1>5, <1>6, SeqDef
  <1> QED
    BY <1>4, <1>7 DEF p, m, N

\* Cutting to the window before appending loses nothing of the window after.
LEMMA WindowAppend ==
    ASSUME NEW S, NEW q \in Seq(S), NEW t \in Seq(S)
    PROVE  LastN(LastN(q, MaxMessages) \o t, MaxMessages) = LastN(q \o t, MaxMessages)
  <1> DEFINE p == LastN(q, MaxMessages)
             m == From(Len(q))
             pt == p \o t
             qt == q \o t
  <1>1. Len(q) \in Nat /\ Len(t) \in Nat /\ MaxMessages \in Nat \ {0}
    BY LenProperties, StoresAssumption
  <1>2. /\ m \in Nat \ {0} /\ m <= Len(q) + 1
        /\ Len(q) - m + 1 = IF Len(q) > MaxMessages THEN MaxMessages ELSE Len(q)
    BY <1>1, FromBounds
  <1>3. /\ p \in Seq(S) /\ Len(p) = Len(q) - m + 1
        /\ \A i \in 1..Len(q) - m + 1 : p[i] = q[m + i - 1]
    BY WindowIs
  <1> HIDE DEF p, m
  <1>4. /\ pt \in Seq(S) /\ Len(pt) = Len(p) + Len(t)
        /\ \A i \in 1..Len(p) + Len(t) : pt[i] = IF i <= Len(p) THEN p[i] ELSE t[i - Len(p)]
    BY <1>3, ConcatProperties
  <1>5. /\ qt \in Seq(S) /\ Len(qt) = Len(q) + Len(t)
        /\ \A i \in 1..Len(q) + Len(t) : qt[i] = IF i <= Len(q) THEN q[i] ELSE t[i - Len(q)]
    BY ConcatProperties
  <1> HIDE DEF pt, qt
  <1> DEFINE a == From(Len(pt))
             b == From(Len(qt))
  <1>6. /\ LastN(pt, MaxMessages) = [i \in 1..Len(pt) - a + 1 |-> pt[a + i - 1]]
        /\ LastN(qt, MaxMessages) = [i \in 1..Len(qt) - b + 1 |-> qt[b + i - 1]]
    BY <1>4, <1>5, WindowIs
  <1>7. /\ a \in Nat \ {0} /\ b \in Nat \ {0}
        /\ a <= Len(pt) + 1 /\ b <= Len(qt) + 1
        /\ Len(pt) - a + 1 = IF Len(pt) > MaxMessages THEN MaxMessages ELSE Len(pt)
        /\ Len(qt) - b + 1 = IF Len(qt) > MaxMessages THEN MaxMessages ELSE Len(qt)
    <2>1. Len(pt) \in Nat /\ Len(qt) \in Nat
      BY <1>4, <1>5, LenProperties
    <2> QED
      BY <2>1, FromBounds
  <1> HIDE DEF a, b
  <1>8. Len(p) \in Nat /\ Len(pt) - a + 1 = Len(qt) - b + 1 /\ b = a + m - 1
    <2>1. Len(p) \in Nat /\ Len(p) = IF Len(q) > MaxMessages THEN MaxMessages ELSE Len(q)
      BY <1>1, <1>2, <1>3
    <2>2. Len(pt) \in Nat /\ Len(qt) \in Nat
      BY <1>1, <1>4, <1>5, <2>1
    <2>3. CASE Len(q) > MaxMessages
      <3>1. Len(p) = MaxMessages /\ Len(pt) >= MaxMessages /\ Len(qt) > MaxMessages
        BY <1>1, <1>4, <1>5, <2>1, <2>3
      <3>2. Len(pt) - a + 1 = MaxMessages /\ Len(qt) - b + 1 = MaxMessages
        BY <1>1, <1>7, <2>2, <3>1
      <3>3. m = Len(q) - MaxMessages + 1
        BY <1>1, <1>2, <2>3
      <3>4. a = Len(t) + 1
        BY <1>1, <1>4, <1>7, <3>1, <3>2
      <3>5. b = Len(q) + Len(t) - MaxMessages + 1
        BY <1>1, <1>5, <1>7, <3>2
      <3> QED
        BY <1>1, <2>1, <3>2, <3>3, <3>4, <3>5
    <2>4. CASE ~ (Len(q) > MaxMessages)
      <3>1. Len(p) = Len(q) /\ m = 1 /\ Len(pt) = Len(qt)
        BY <1>1, <1>2, <1>4, <1>5, <2>1, <2>4
      <3> QED
        BY <1>1, <1>7, <2>1, <2>2, <3>1
    <2> QED
      BY <2>3, <2>4
  <1>9. ASSUME NEW i \in 1..Len(qt) - b + 1
        PROVE  pt[a + i - 1] = qt[b + i - 1]
    <2>1. a + i - 1 \in 1..Len(p) + Len(t) /\ b + i - 1 \in 1..Len(q) + Len(t)
      <3>1. Len(pt) \in Nat /\ Len(qt) \in Nat /\ i \in Nat /\ i >= 1
        BY <1>1, <1>4, <1>5, <1>7, <1>8
      <3>2. i <= Len(qt) - b + 1 /\ i <= Len(pt) - a + 1
        BY <1>7, <1>8, <3>1
      <3>3. a + i - 1 \in 1..Len(pt) /\ b + i - 1 \in 1..Len(qt)
        BY <1>7, <3>1, <3>2
      <3> QED
        BY <1>4, <1>5, <3>3
    <2>2. CASE a + i - 1 <= Len(p)
      <3>1. a + i - 1 \in 1..Len(q) - m + 1 /\ b + i - 1 <= Len(q) /\ m + (a + i - 1) - 1 = b + i - 1
        BY <1>1, <1>2, <1>3, <1>7, <1>8, <2>1, <2>2
      <3>2. pt[a + i - 1] = p[a + i - 1] /\ qt[b + i - 1] = q[b + i - 1]
        BY <1>4, <1>5, <2>1, <2>2, <3>1
      <3> QED
        BY <1>3, <3>1, <3>2
    <2>3. CASE ~ (a + i - 1 <= Len(p))
      <3>1. ~ (b + i - 1 <= Len(q)) /\ a + i - 1 - Len(p) = b + i - 1 - Len(q)
        BY <1>1, <1>2, <1>3, <1>7, <1>8, <2>1, <2>3
      <3>2. PICK x : x = a + i - 1
        OBVIOUS
      <3>3. PICK y : y = b + i - 1
        OBVIOUS
      <3>4. /\ x \in 1..Len(p) + Len(t) /\ ~ (x <= Len(p))
            /\ y \in 1..Len(q) + Len(t) /\ ~ (y <= Len(q)) /\ x - Len(p) = y - Len(q)
        <4>1. x \in 1..Len(p) + Len(t) /\ ~ (x <= Len(p))
          BY <2>1, <2>3, <3>2
        <4>2. y \in 1..Len(q) + Len(t) /\ ~ (y <= Len(q))
          BY <2>1, <3>1, <3>3
        <4>3. x - Len(p) = y - Len(q)
          BY <1>1, <1>2, <1>3, <1>7, <1>8, <3>2, <3>3
        <4> QED
          BY <4>1, <4>2, <4>3
      <3>5. pt[x] = t[x - Len(p)]
        BY <1>4, <3>4
      <3>6. qt[y] = t[y - Len(q)]
        BY <1>5, <3>4
      <3>7. pt[x] = qt[y]
        BY <3>4, <3>5, <3>6
      <3> QED
        BY <3>2, <3>3, <3>7
    <2> QED
      BY <2>2, <2>3
  <1>10. LastN(pt, MaxMessages) = LastN(qt, MaxMessages)
    BY <1>6, <1>8, <1>9
  <1> QED
    BY <1>10 DEF pt, qt, p

\* A window over a window is that window.
LEMMA WindowTwice ==
    ASSUME NEW S, NEW q \in Seq(S)
    PROVE  LastN(LastN(q, MaxMessages), MaxMessages) = LastN(q, MaxMessages)
  <1> DEFINE p == LastN(q, MaxMessages)
  <1>1. Len(q) \in Nat /\ MaxMessages \in Nat \ {0}
    BY LenProperties, StoresAssumption
  <1>2. p \in Seq(S) /\ Len(p) = Len(q) - From(Len(q)) + 1
    BY WindowIs
  <1> HIDE DEF p
  <1>3. Len(p) <= MaxMessages /\ Len(p) \in Nat
    <2>1. Len(p) = IF Len(q) > MaxMessages THEN MaxMessages ELSE Len(q)
      BY <1>1, <1>2, FromBounds
    <2> QED
      BY <1>1, <2>1
  <1>4. From(Len(p)) = 1
    BY <1>1, <1>3 DEF From
  <1>5. LastN(p, MaxMessages) = [i \in 1..Len(p) - 1 + 1 |-> p[1 + i - 1]]
    BY <1>2, <1>4, WindowIs
  <1>6. p = [i \in 1..Len(p) |-> p[i]]
    BY <1>2
  <1>7. LastN(p, MaxMessages) = p
    BY <1>3, <1>5, <1>6
  <1> QED
    BY <1>7 DEF p

\* The messages of a turn.
LEMMA TurnIs ==
    ASSUME NEW r \in Runs
    PROVE  Turn(r) \in Seq(Message) /\ Len(Turn(r)) = 2 /\ Turn(r)[1] \in Message /\ Turn(r)[2] \in Message
  <1>1. [run |-> r, kind |-> "user"] \in Message /\ [run |-> r, kind |-> "assistant"] \in Message
    BY DEF Message
  <1> QED
    BY <1>1 DEF Turn

\* The messages of a log, two of each turn.
LEMMA MessagesAre ==
    ASSUME NEW q \in Seq(Runs)
    PROVE  Messages(q) \in Seq(Message) /\ Len(Messages(q)) = 2 * Len(q) /\ 2 * Len(q) \in Nat
  <1> DEFINE m == Messages(q)
             n == 2 * Len(q)
  <1>1. Len(q) \in Nat /\ n \in Nat /\ \A k \in 1..Len(q) : q[k] \in Runs
    BY LenProperties, ElementOfSeq
  <1>2. \A i \in 1..n : (i + 1) \div 2 \in 1..Len(q)
    BY <1>1
  <1>3. m = [i \in 1..n |-> Turn(q[(i + 1) \div 2])[IF i % 2 = 1 THEN 1 ELSE 2]]
    BY DEF Messages
  <1>4. \A i \in 1..n : m[i] \in Message
    <2> SUFFICES ASSUME NEW i \in 1..n PROVE m[i] \in Message
      OBVIOUS
    <2>1. q[(i + 1) \div 2] \in Runs
      BY <1>1, <1>2
    <2> HIDE DEF n, m
    <2> QED
      BY <1>3, <2>1, TurnIs
  <1> HIDE DEF n, m
  <1>5. m \in [1..n -> Message]
    BY <1>3, <1>4
  <1>6. m \in Seq(Message) /\ Len(m) = n
    BY <1>1, <1>5, SeqDef
  <1> QED
    BY <1>1, <1>6 DEF m, n

\* A turn that is appended to the log appends its two messages.
LEMMA MessagesAppend ==
    ASSUME NEW q \in Seq(Runs), NEW r \in Runs
    PROVE  Messages(Append(q, r)) = Messages(q) \o Turn(r)
  <1> DEFINE n == 2 * Len(q)
             p == Append(q, r)
             a == Messages(p)
             b == Messages(q) \o Turn(r)
  <1>1. /\ Len(q) \in Nat /\ p \in Seq(Runs) /\ Len(p) = Len(q) + 1
        /\ \A i \in 1..Len(q) : p[i] = q[i]
        /\ p[Len(q) + 1] = r
    BY AppendProperties, LenProperties
  <1>2. n \in Nat /\ 2 * Len(p) = n + 2
    BY <1>1
  <1>3. /\ Messages(q) \in Seq(Message) /\ Len(Messages(q)) = n
        /\ a \in Seq(Message) /\ Len(a) = 2 * Len(p)
    BY <1>1, MessagesAre
  <1>4. /\ b \in Seq(Message) /\ Len(b) = n + 2
        /\ \A i \in 1..n + 2 : b[i] = IF i <= n THEN Messages(q)[i] ELSE Turn(r)[i - n]
    <2> HIDE DEF n
    <2>1. Turn(r) \in Seq(Message) /\ Len(Turn(r)) = 2
      BY TurnIs
    <2> DEFINE m == Messages(q)
               t == Turn(r)
    <2>2. m \in Seq(Message) /\ t \in Seq(Message) /\ Len(m) = n /\ Len(t) = 2
      BY <1>3, <2>1
    <2> HIDE DEF m, t
    <2>3. /\ m \o t \in Seq(Message) /\ Len(m \o t) = Len(m) + Len(t)
          /\ \A i \in 1..Len(m) + Len(t) : (m \o t)[i] = IF i <= Len(m) THEN m[i] ELSE t[i - Len(m)]
      BY <2>2, ConcatProperties
    <2> QED
      BY <2>2, <2>3 DEF m, t
  <1>5. ASSUME NEW i \in 1..n + 2 PROVE a[i] = b[i]
    <2> DEFINE k == (i + 1) \div 2
    <2>1. a[i] = Turn(p[k])[IF i % 2 = 1 THEN 1 ELSE 2]
      BY <1>2 DEF Messages
    <2>2. CASE i <= n
      <3>1. k \in 1..Len(q)
        BY <1>1, <2>2
      <3>2. Messages(q)[i] = Turn(q[k])[IF i % 2 = 1 THEN 1 ELSE 2]
        BY <1>2, <2>2 DEF Messages
      <3> HIDE DEF a, b, n, k, p
      <3> QED
        BY <1>1, <1>4, <2>1, <2>2, <3>1, <3>2
    <2>3. CASE ~ (i <= n)
      <3>1. k = Len(q) + 1 /\ i - n = IF i % 2 = 1 THEN 1 ELSE 2
        BY <1>1, <2>3
      <3> HIDE DEF a, b, n, k, p
      <3> QED
        BY <1>1, <1>4, <2>1, <2>3, <3>1
    <2> QED
      BY <2>2, <2>3
  <1> HIDE DEF a, b, n
  <1>6. a = b
    <2>1. a = [i \in 1..n + 2 |-> a[i]] /\ b = [i \in 1..n + 2 |-> b[i]]
      BY <1>2, <1>3, <1>4
    <2> QED
      BY <1>5, <2>1
  <1> QED
    BY <1>6 DEF a, b, p

\* The window over an empty log is empty, over any other log it is not.
LEMMA WindowEmpty ==
    ASSUME NEW q \in Seq(Runs)
    PROVE  LastN(Messages(q), MaxMessages) = <<>> <=> q = <<>>
  <1> DEFINE p == LastN(Messages(q), MaxMessages)
             n == 2 * Len(q)
  <1>1. Len(q) \in Nat /\ MaxMessages \in Nat \ {0}
    BY LenProperties, StoresAssumption
  <1>2. n \in Nat /\ p \in Seq(Message) /\ Len(p) = n - From(n) + 1
    BY MessagesAre, WindowIs
  <1> HIDE DEF p, n
  <1>3. Len(p) = IF n > MaxMessages THEN MaxMessages ELSE n
    BY <1>1, <1>2, FromBounds
  <1>4. (p = <<>> <=> Len(p) = 0) /\ (q = <<>> <=> Len(q) = 0)
    BY <1>2, EmptySeq
  <1>5. Len(p) = 0 <=> Len(q) = 0
    BY <1>1, <1>3 DEF n
  <1> QED
    BY <1>4, <1>5 DEF p

-----------------------------------------------------------------------------
(* The numbered rows *)

\* A row of a message and its number.
LEMMA RowFields ==
    ASSUME NEW m, NEW a, NEW n
    PROVE  /\ \A x \in RowsOf(m, a, n) : x.seq \in a..n /\ x = [seq |-> x.seq, msg |-> m[x.seq]]
           /\ \A i \in a..n : [seq |-> i, msg |-> m[i]] \in RowsOf(m, a, n)
  BY DEF RowsOf

\* There is one row of each number.
LEMMA RowsCount ==
    ASSUME NEW m, NEW a \in Nat, NEW n \in Nat
    PROVE  IsFiniteSet(RowsOf(m, a, n)) /\ Cardinality(RowsOf(m, a, n)) = IF a > n THEN 0 ELSE n - a + 1
  <1> DEFINE f == [i \in a..n |-> [seq |-> i, msg |-> m[i]]]
             R == RowsOf(m, a, n)
  <1>1. f \in [a..n -> R]
    BY RowFields
  <1>2. \A i \in a..n : f[i].seq = i
    OBVIOUS
  <1>3. \A x \in R : x.seq \in a..n /\ f[x.seq] = x
    BY RowFields
  <1> HIDE DEF f, R
  <1>4. f \in Bijection(a..n, R)
    <2>1. f \in Injection(a..n, R)
      BY <1>1, <1>2 DEF Injection, IsInjective
    <2>2. f \in Surjection(a..n, R)
      BY <1>1, <1>3 DEF Surjection
    <2> QED
      BY <2>1, <2>2 DEF Bijection
  <1>5. IsFiniteSet(a..n) /\ Cardinality(a..n) = IF a > n THEN 0 ELSE n - a + 1
    BY FS_Interval
  <1>6. ExistsBijection(a..n, R)
    BY <1>4 DEF ExistsBijection
  <1> QED
    BY <1>5, <1>6, FS_Bijection DEF R

\* The rows that a trim keeps are those of the window.
LEMMA RowsNewest ==
    ASSUME NEW m, NEW a \in Nat \ {0}, NEW n \in Nat, a <= From(n)
    PROVE  Newest(RowsOf(m, a, n)) = RowsOf(m, From(n), n)
  <1> DEFINE R == RowsOf(m, a, n)
             Above(x) == {y \in R : y.seq > x.seq}
  <1>1. MaxMessages \in Nat \ {0} /\ From(n) \in Nat \ {0}
    BY StoresAssumption, FromBounds
  <1>2. ASSUME NEW x \in R
        PROVE  Cardinality(Above(x)) < MaxMessages <=> x.seq >= From(n)
    <2>1. x.seq \in a..n
      BY RowFields
    <2>2. x.seq + 1 \in Nat /\ \A i \in Int : (i \in a..n /\ i > x.seq) <=> i \in x.seq + 1..n
      BY <2>1
    <2>3. Above(x) = RowsOf(m, x.seq + 1, n)
      <3>1. ASSUME NEW y \in Above(x) PROVE y \in RowsOf(m, x.seq + 1, n)
        <4>1. y.seq \in a..n /\ y = [seq |-> y.seq, msg |-> m[y.seq]] /\ y.seq > x.seq
          BY <3>1, RowFields
        <4>2. y.seq \in x.seq + 1..n
          BY <2>2, <4>1
        <4>3. [seq |-> y.seq, msg |-> m[y.seq]] \in RowsOf(m, x.seq + 1, n)
          BY <4>2, RowFields
        <4> QED
          BY <4>1, <4>3
      <3>2. ASSUME NEW y \in RowsOf(m, x.seq + 1, n) PROVE y \in Above(x)
        <4>1. y.seq \in x.seq + 1..n /\ y = [seq |-> y.seq, msg |-> m[y.seq]]
          BY RowFields
        <4>2. y.seq \in a..n /\ y.seq > x.seq
          BY <2>2, <4>1
        <4>3. [seq |-> y.seq, msg |-> m[y.seq]] \in R
          BY <4>2, RowFields
        <4> QED
          BY <4>1, <4>2, <4>3
      <3> QED
        BY <3>1, <3>2
    <2>4. Cardinality(Above(x)) = IF x.seq + 1 > n THEN 0 ELSE n - (x.seq + 1) + 1
      BY <2>2, <2>3, RowsCount
    <2>5. x.seq \in Nat /\ x.seq >= 1 /\ x.seq <= n
      BY <2>1
    <2>6. Cardinality(Above(x)) = n - x.seq
      BY <2>4, <2>5
    <2> QED
      BY <1>1, <2>5, <2>6 DEF From
  <1>3. Newest(R) = {x \in R : x.seq >= From(n)}
    <2> HIDE DEF R
    <2> QED
      BY <1>2 DEF Newest
  <1>4. ASSUME NEW x \in R, x.seq >= From(n) PROVE x \in RowsOf(m, From(n), n)
    <2>1. x.seq \in From(n)..n /\ x = [seq |-> x.seq, msg |-> m[x.seq]]
      BY <1>1, <1>4, RowFields
    <2>2. [seq |-> x.seq, msg |-> m[x.seq]] \in RowsOf(m, From(n), n)
      BY <2>1, RowFields
    <2> QED
      BY <2>1, <2>2
  <1>5. ASSUME NEW x \in RowsOf(m, From(n), n) PROVE x \in R /\ x.seq >= From(n)
    <2>1. x.seq \in From(n)..n /\ x = [seq |-> x.seq, msg |-> m[x.seq]]
      BY RowFields
    <2>2. x.seq \in a..n /\ x.seq >= From(n)
      BY <1>1, <2>1
    <2>3. [seq |-> x.seq, msg |-> m[x.seq]] \in R
      BY <2>2, RowFields
    <2> QED
      BY <2>1, <2>2, <2>3
  <1> QED
    BY <1>3, <1>4, <1>5

\* Consecutive numbers in ascending order.
LEMMA AscendingInterval ==
    ASSUME NEW a \in Nat, NEW n \in Nat, a <= n + 1
    PROVE  Ascending(a..n) = [k \in 1..n - a + 1 |-> a + k - 1]
  <1> DEFINE K == a..n
             c == n - a + 1
  <1>1. Cardinality(K) = c
    BY FS_Interval
  <1>2. ASSUME NEW i \in K PROVE Cardinality({j \in K : j <= i}) = i - a + 1
    <2> DEFINE B == {j \in K : j <= i}
    <2>1. B = a..i /\ i \in Int /\ a <= i
      OBVIOUS
    <2>2. Cardinality(a..i) = IF a > i THEN 0 ELSE i - a + 1
      BY <2>1, FS_Interval
    <2>3. Cardinality(a..i) = i - a + 1
      BY <2>1, <2>2
    <2> HIDE DEF B
    <2>4. Cardinality(B) = i - a + 1
      BY <2>1, <2>3
    <2> QED
      BY <2>4 DEF B
  <1>3. ASSUME NEW k \in 1..c
        PROVE  (CHOOSE i \in K : Cardinality({j \in K : j <= i}) = k) = a + k - 1
    <2>1. a + k - 1 \in K /\ a + k - 1 - a + 1 = k
      OBVIOUS
    <2>2. \A i \in K : Cardinality({j \in K : j <= i}) = k <=> i = a + k - 1
      BY <1>2, <2>1
    <2> QED
      BY <2>1, <2>2
  <1>4. Ascending(K) = [k \in 1..c |-> CHOOSE i \in K : Cardinality({j \in K : j <= i}) = k]
    BY <1>1 DEF Ascending
  <1> QED
    BY <1>3, <1>4

\* What a reader of the table sees are the messages of the window in order.
LEMMA RowsVisible ==
    ASSUME NEW m \in Seq(Message), NEW s \in Sessions, backend = "postgres",
           table[s] = RowsOf(m, From(Len(m)), Len(m))
    PROVE  Visible(s) = LastN(m, MaxMessages)
  <1> DEFINE n == Len(m)
             a == From(n)
             R == table[s]
             c == n - a + 1
  <1>1. n \in Nat /\ a \in Nat \ {0} /\ a <= n + 1
    BY LenProperties, FromBounds
  <1>2. Newest(R) = R
    <2>1. R = RowsOf(m, a, n)
      OBVIOUS
    <2>2. a <= From(n)
      BY <1>1
    <2> HIDE DEF R, n
    <2> QED
      BY <1>1, <2>1, <2>2, RowsNewest
  <1>3. \A x \in R : x.seq \in a..n /\ x = [seq |-> x.seq, msg |-> m[x.seq]]
    BY RowFields
  <1>4. \A i \in a..n : [seq |-> i, msg |-> m[i]] \in R
    BY RowFields
  <1> HIDE DEF R, n, a
  <1>5. {x.seq : x \in Newest(R)} = a..n
    BY <1>2, <1>3, <1>4
  <1> DEFINE g == [k \in 1..c |-> a + k - 1]
  <1>6. Ascending(a..n) = g
    BY <1>1, AscendingInterval
  <1>7. DOMAIN g = 1..c /\ \A k \in 1..c : g[k] = a + k - 1 /\ g[k] \in a..n
    BY <1>1
  <1> HIDE DEF g, c
  <1>8. ASSUME NEW i \in a..n PROVE (CHOOSE x \in R : x.seq = i).msg = m[i]
    <2> DEFINE x == CHOOSE y \in R : y.seq = i
    <2>1. \E y \in R : y.seq = i
      BY <1>4
    <2>2. x \in R /\ x.seq = i
      BY <2>1
    <2> HIDE DEF x
    <2>3. x.msg = m[i]
      BY <1>3, <2>2
    <2> QED
      BY <2>3 DEF x
  <1>9. Visible(s) = [k \in 1..c |-> (CHOOSE x \in R : x.seq = g[k]).msg]
    <2>1. Visible(s) = LET numbers == Ascending({x.seq : x \in Newest(R)})
                       IN  [k \in DOMAIN numbers |-> (CHOOSE x \in R : x.seq = numbers[k]).msg]
      BY DEF Visible, R
    <2>2. Ascending({x.seq : x \in Newest(R)}) = g
      BY <1>5, <1>6
    <2> QED
      BY <1>7, <2>1, <2>2
  <1>10. LastN(m, MaxMessages) = [k \in 1..c |-> m[g[k]]]
    <2>1. LastN(m, MaxMessages) = [k \in 1..c |-> m[a + k - 1]]
      BY WindowIs DEF n, a, c
    <2> QED
      BY <1>7, <2>1
  <1>11. \A k \in 1..c : (CHOOSE x \in R : x.seq = g[k]).msg = m[g[k]]
    BY <1>7, <1>8
  <1> QED
    BY <1>9, <1>10, <1>11

-----------------------------------------------------------------------------
(* The steps of the memory and the Redis store *)

\* The lists hold messages of the runs that are in the logs.
LEMMA ListIs ==
    ASSUME Logs, ListKeeps, backend # "postgres"
    PROVE  /\ DOMAIN list = Sessions
           /\ \A s \in Sessions : /\ list[s] = LastN(Messages(log[s]), MaxMessages)
                                  /\ list[s] = <<>> <=> log[s] = <<>>
  <1>1. \A s \in Sessions : log[s] \in Seq(Runs)
    BY DEF Logs
  <1>2. \A s \in Sessions : LastN(Messages(log[s]), MaxMessages) = <<>> <=> log[s] = <<>>
    BY <1>1, WindowEmpty
  <1> QED
    BY <1>2 DEF ListKeeps

\* A list and its log are lost together.
LEMMA ListLost ==
    ASSUME Logs, ListKeeps, backend # "postgres", NEW C,
           list' = Reset(list, C, <<>>), log' = Reset(log, C, <<>>)
    PROVE  ListKeeps'
  <1>1. <<>> \in Seq(Runs)
    OBVIOUS
  <1>2. LastN(Messages(<<>>), MaxMessages) = <<>>
    BY <1>1, WindowEmpty
  <1>3. ASSUME NEW s \in Sessions PROVE list'[s] = LastN(Messages(log'[s]), MaxMessages)
    <2>1. CASE s \in C
      <3>1. list'[s] = <<>> /\ log'[s] = <<>>
        BY <2>1 DEF Reset
      <3> QED
        BY <1>2, <3>1
    <2>2. CASE s \notin C
      <3>1. list'[s] = list[s] /\ log'[s] = log[s]
        BY <2>2 DEF Reset
      <3> QED
        BY <3>1, ListIs
    <2> QED
      BY <2>1, <2>2
  <1>4. list' = [s \in Sessions |-> list'[s]]
    BY DEF Reset
  <1> QED
    BY <1>3, <1>4 DEF ListKeeps

\* The window over the list with a new turn is the window over the log with it.
LEMMA TurnInWindow ==
    ASSUME NEW q \in Seq(Runs), NEW r \in Runs
    PROVE  LastN(LastN(Messages(q), MaxMessages) \o Turn(r), MaxMessages)
             = LastN(Messages(Append(q, r)), MaxMessages)
  <1>1. Messages(q) \in Seq(Message) /\ Turn(r) \in Seq(Message)
    BY MessagesAre, TurnIs
  <1>2. LastN(LastN(Messages(q), MaxMessages) \o Turn(r), MaxMessages)
          = LastN(Messages(q) \o Turn(r), MaxMessages)
    BY <1>1, WindowAppend
  <1> QED
    BY <1>2, MessagesAppend

\* A turn is added to a list and to its log, other lists are lost with theirs.
LEMMA ListTakes ==
    ASSUME Logs, ListKeeps, backend # "postgres", NEW C, NEW s \in Sessions, NEW r \in Runs,
           list' = [t \in Sessions |->
                       IF t = s THEN LastN((IF s \in C THEN <<>> ELSE list[s]) \o Turn(r), MaxMessages)
                       ELSE IF t \in C THEN <<>> ELSE list[t]],
           log' = [t \in Sessions |-> IF t = s THEN Append(IF s \in C THEN <<>> ELSE log[s], r)
                                      ELSE IF t \in C THEN <<>> ELSE log[t]]
    PROVE  ListKeeps'
  <1>1. <<>> \in Seq(Runs)
    OBVIOUS
  <1>2. LastN(Messages(<<>>), MaxMessages) = <<>>
    BY <1>1, WindowEmpty
  <1> DEFINE q == IF s \in C THEN <<>> ELSE log[s]
             p == IF s \in C THEN <<>> ELSE list[s]
  <1>3. q \in Seq(Runs) /\ p = LastN(Messages(q), MaxMessages)
    <2>1. CASE s \in C
      BY <1>1, <1>2, <2>1
    <2>2. CASE s \notin C
      <3>1. log[s] \in Seq(Runs) /\ list[s] = LastN(Messages(log[s]), MaxMessages)
        BY ListIs DEF Logs
      <3> QED
        BY <2>2, <3>1
    <2> QED
      BY <2>1, <2>2
  <1>4. list'[s] = LastN(p \o Turn(r), MaxMessages) /\ log'[s] = Append(q, r)
    OBVIOUS
  <1> HIDE DEF p, q
  <1>5. list'[s] = LastN(Messages(log'[s]), MaxMessages)
    BY <1>3, <1>4, TurnInWindow
  <1>6. ASSUME NEW t \in Sessions \ {s} PROVE list'[t] = LastN(Messages(log'[t]), MaxMessages)
    <2>1. CASE t \in C
      <3>1. list'[t] = <<>> /\ log'[t] = <<>>
        BY <1>6, <2>1
      <3> QED
        BY <1>2, <3>1
    <2>2. CASE t \notin C
      <3>1. list'[t] = list[t] /\ log'[t] = log[t]
        BY <1>6, <2>2
      <3> QED
        BY <3>1, ListIs
    <2> QED
      BY <2>1, <2>2
  <1>7. list' = [t \in Sessions |-> list'[t]]
    OBVIOUS
  <1>8. \A t \in Sessions : list'[t] = LastN(Messages(log'[t]), MaxMessages)
    BY <1>5, <1>6
  <1> QED
    BY <1>7, <1>8 DEF ListKeeps

\* Sessions leave the memory store with their messages, their runs and their
\* places in the order of use.
LEMMA MemoryLoses ==
    ASSUME StoreInv, Holds, NEW C, MemoryDrops(C),
           lru' \in Seq(Sessions), Len(lru') <= MaxSessions,
           \A i, j \in 1..Len(lru') : lru'[i] = lru'[j] => i = j,
           Range(lru') = Range(lru) \ C
    PROVE  Holds'
  <1>1. /\ backend = "memory" /\ backend' = "memory"
        /\ list' = Reset(list, C, <<>>) /\ log' = Reset(log, C, <<>>)
        /\ committed' = Reset(committed, C, {})
    BY DEF MemoryDrops
  <1>2. Logs /\ ListKeeps /\ MemoryKeeps
    BY DEF StoreInv, Holds
  <1>3. ListKeeps'
    BY <1>1, <1>2, ListLost
  <1>4. ASSUME NEW s \in Sessions
        PROVE  /\ s \in Range(lru') <=> log'[s] # <<>>
               /\ committed'[s] # {} <=> log'[s] # <<>>
    <2>1. (s \in Range(lru) <=> log[s] # <<>>) /\ (committed[s] # {} <=> log[s] # <<>>)
      BY <1>1, <1>2 DEF MemoryKeeps
    <2>2. CASE s \in C
      <3>1. log'[s] = <<>> /\ committed'[s] = {} /\ s \notin Range(lru')
        BY <1>1, <2>2 DEF Reset
      <3> QED
        BY <3>1
    <2>3. CASE s \notin C
      <3>1. log'[s] = log[s] /\ committed'[s] = committed[s]
        BY <1>1, <2>3 DEF Reset
      <3>2. s \in Range(lru') <=> s \in Range(lru)
        BY <2>3
      <3> QED
        BY <2>1, <3>1, <3>2
    <2> QED
      BY <2>2, <2>3
  <1>5. MemoryKeeps'
    BY <1>1, <1>4 DEF MemoryKeeps
  <1>6. PgKeeps'
    BY <1>1 DEF PgKeeps
  <1> QED
    BY <1>3, <1>5, <1>6 DEF Holds

\* The order of use when keys leave it.
LEMMA OrderLoses ==
    ASSUME Holds, backend = "memory", NEW C
    PROVE  /\ Without(lru, C) \in Seq(Sessions) /\ Len(Without(lru, C)) <= MaxSessions
           /\ Len(Without(lru, C)) \in Nat /\ Len(Without(lru, C)) <= Len(lru)
           /\ \A i, j \in 1..Len(Without(lru, C)) : Without(lru, C)[i] = Without(lru, C)[j] => i = j
           /\ Range(Without(lru, C)) = Range(lru) \ C
  <1>1. /\ lru \in Seq(Sessions) /\ Len(lru) <= MaxSessions
        /\ \A i, j \in 1..Len(lru) : lru[i] = lru[j] => i = j
    BY DEF Holds, MemoryKeeps
  <1> DEFINE p == Without(lru, C)
  <1>2. /\ p \in Seq(Sessions) /\ Len(p) <= Len(lru)
        /\ \A i, j \in 1..Len(p) : p[i] = p[j] => i = j
        /\ Range(p) = Range(lru) \ C
    BY <1>1, WithoutKeeps
  <1> HIDE DEF p
  <1>3. Len(p) \in Nat /\ Len(lru) \in Nat /\ MaxSessions \in Nat
    BY <1>1, <1>2, LenProperties, StoresAssumption
  <1>4. Len(p) <= MaxSessions
    BY <1>1, <1>2, <1>3
  <1> QED
    BY <1>2, <1>3, <1>4 DEF p

\* A purge or a clear.
LEMMA MemoryClearHolds ==
    ASSUME StoreInv, Holds, NEW C, MemoryDrops(C), lru' = Without(lru, C)
    PROVE  Holds'
  <1>1. backend = "memory"
    BY DEF MemoryDrops
  <1>2. /\ lru' \in Seq(Sessions) /\ Len(lru') <= MaxSessions
        /\ \A i, j \in 1..Len(lru') : lru'[i] = lru'[j] => i = j
        /\ Range(lru') = Range(lru) \ C
    BY <1>1, OrderLoses
  <1> QED
    BY <1>2, MemoryLoses

\* A get moves its session to the end of the order.
LEMMA MemoryGetHolds ==
    ASSUME StoreInv, Holds, NEW s \in Sessions, MemoryGet(s)
    PROVE  Holds'
  <1> DEFINE p == Without(lru, Expired \cup {s})
  <1>1. backend = "memory" /\ MemoryDrops(Expired) /\ lru' = Append(p, s) /\ s \in Range(lru) \ Expired
    BY DEF MemoryGet, MemoryDrops
  <1>2. /\ p \in Seq(Sessions) /\ Len(p) \in Nat
        /\ \A i, j \in 1..Len(p) : p[i] = p[j] => i = j
        /\ Range(p) = Range(lru) \ (Expired \cup {s})
    BY <1>1, OrderLoses
  <1>3. /\ lru \in Seq(Sessions) /\ Len(lru) <= MaxSessions
        /\ \A i, j \in 1..Len(lru) : lru[i] = lru[j] => i = j
    BY <1>1 DEF Holds, MemoryKeeps
  <1>4. Len(p) < Len(lru)
    <2>1. Range(lru) \cap (Expired \cup {s}) # {}
      BY <1>1
    <2> QED
      BY <1>3, <2>1, WithoutKeeps
  <1> HIDE DEF p
  <1>5. s \notin Range(p)
    BY <1>2
  <1>6. /\ lru' \in Seq(Sessions) /\ Len(lru') = Len(p) + 1
        /\ \A i, j \in 1..Len(p) + 1 : lru'[i] = lru'[j] => i = j
        /\ Range(lru') = Range(p) \cup {s}
    BY <1>1, <1>2, <1>5, LastInOrder
  <1>7. Range(lru') = Range(lru) \ Expired
    BY <1>1, <1>2, <1>6
  <1>8. Len(lru') <= MaxSessions
    <2>1. Len(lru) \in Nat /\ MaxSessions \in Nat
      BY <1>3, LenProperties, StoresAssumption
    <2> QED
      BY <1>2, <1>3, <1>4, <1>6, <2>1
  <1> QED
    BY <1>1, <1>6, <1>7, <1>8, MemoryLoses

\* A turn makes its session the most recent one and evicts the least recent.
LEMMA MemoryAppendHolds ==
    ASSUME StoreInv, Holds, NEW s \in Sessions, NEW r \in Runs, MemoryAppendTurn(s, r)
    PROVE  Holds'
  <1> DEFINE p == Without(lru, Expired \cup {s})
             order == Append(p, s)
             over == IF Len(order) > MaxSessions THEN Len(order) - MaxSessions ELSE 0
             evicted == {order[i] : i \in 1..over}
             lost == Expired \cup evicted
             purged(f, v) == Reset(f, Expired, v)[s]
  <1>1. /\ backend = "memory" /\ backend' = "memory"
        /\ list' = [Reset(list, lost, <<>>) EXCEPT
                        ![s] = LastN(purged(list, <<>>) \o Turn(r), MaxMessages)]
        /\ committed' = [Reset(committed, lost, {}) EXCEPT ![s] = purged(committed, {}) \cup {r}]
        /\ log' = [Reset(log, lost, <<>>) EXCEPT ![s] = Append(purged(log, <<>>), r)]
        /\ lru' = SubSeq(order, over + 1, Len(order))
    BY DEF MemoryAppendTurn
  <1>2. Logs /\ ListKeeps /\ MemoryKeeps
    BY DEF StoreInv, Holds
  <1>3. /\ p \in Seq(Sessions) /\ Len(p) \in Nat
        /\ \A i, j \in 1..Len(p) : p[i] = p[j] => i = j
        /\ Range(p) = Range(lru) \ (Expired \cup {s})
    BY <1>1, OrderLoses
  <1> HIDE DEF p
  <1>4. /\ order \in Seq(Sessions) /\ Len(order) = Len(p) + 1
        /\ order[Len(p) + 1] = s
        /\ \A i, j \in 1..Len(order) : order[i] = order[j] => i = j
        /\ Range(order) = Range(p) \cup {s}
    BY <1>3, LastInOrder
  <1>5. MaxSessions \in Nat \ {0}
    BY StoresAssumption
  <1> HIDE DEF order
  <1>6. /\ over \in Nat /\ over <= Len(p) /\ over <= Len(order)
        /\ Len(order) - over <= MaxSessions /\ Len(order) \in Nat
    BY <1>3, <1>4, <1>5
  <1> HIDE DEF over
  <1>7. /\ lru' \in Seq(Sessions) /\ Len(lru') = Len(order) - over
        /\ \A i, j \in 1..Len(order) - over : lru'[i] = lru'[j] => i = j
        /\ Range(lru') = Range(order) \ evicted
    <2>1. lru' = SubSeq(order, over + 1, Len(order))
      BY <1>1
    <2>2. order \in Seq(Sessions) /\ over \in Nat /\ over <= Len(order) /\ Len(order) \in Nat
      BY <1>4, <1>6
    <2>3. \A i, j \in 1..Len(order) : order[i] = order[j] => i = j
      BY <1>4
    <2>4. /\ lru' \in Seq(Sessions) /\ Len(lru') = Len(order) - over
          /\ \A i \in 1..Len(order) - over : lru'[i] = order[i + over]
      <3>1. lru' = [i \in 1..Len(order) - over |-> order[i + over]] /\ Len(order) - over \in Nat
        BY <2>1, <2>2
      <3>2. \A i \in 1..Len(order) - over : i + over \in 1..Len(order)
        BY <2>2
      <3>3. lru' \in [1..Len(order) - over -> Sessions]
        BY <2>2, <3>1, <3>2, ElementOfSeq
      <3> QED
        BY <3>1, <3>3, SeqDef
    <2>5. /\ \A i, j \in 1..Len(order) - over : lru'[i] = lru'[j] => i = j
          /\ \A x : x \in Range(lru') <=> x \in Range(order) /\ \A i \in 1..over : order[i] # x
      <3>1. Cut(lru', order, over, Sessions)
        BY <2>2, <2>3, <2>4 DEF Cut
      <3> QED
        BY <3>1, CutInOrder
    <2>6. \A x : x \notin evicted <=> \A i \in 1..over : order[i] # x
      OBVIOUS
    <2>7. Range(lru') = Range(order) \ evicted
      BY <2>5, <2>6
    <2> QED
      BY <2>4, <2>5, <2>7
  <1>8. s \notin evicted
    <2>1. \A i \in 1..over : i \in 1..Len(order) /\ i # Len(p) + 1 /\ Len(p) + 1 \in 1..Len(order)
      BY <1>3, <1>4, <1>6
    <2> QED
      BY <1>4, <2>1
  <1> HIDE DEF evicted
  <1>9. s \in lost <=> s \in Expired
    BY <1>8
  <1>10. /\ purged(list, <<>>) = (IF s \in lost THEN <<>> ELSE list[s])
         /\ purged(log, <<>>) = (IF s \in lost THEN <<>> ELSE log[s])
    BY <1>9 DEF Reset
  <1>11. s \in Range(lru') /\ \A t \in Sessions \ {s} : t \in Range(lru') <=> t \in Range(lru) /\ t \notin lost
    BY <1>3, <1>4, <1>7, <1>8
  <1> HIDE DEF lost, purged
  <1>12. log' = [t \in Sessions |-> IF t = s THEN Append(IF s \in lost THEN <<>> ELSE log[s], r)
                                    ELSE IF t \in lost THEN <<>> ELSE log[t]]
    BY <1>1, <1>10 DEF Reset
  <1>13. list' = [t \in Sessions |->
                    IF t = s THEN LastN((IF s \in lost THEN <<>> ELSE list[s]) \o Turn(r), MaxMessages)
                    ELSE IF t \in lost THEN <<>> ELSE list[t]]
    BY <1>1, <1>10 DEF Reset
  <1>14. ListKeeps'
    BY <1>1, <1>2, <1>12, <1>13, ListTakes
  <1>15. ASSUME NEW t \in Sessions \ {s}
         PROVE  /\ t \in Range(lru') <=> log'[t] # <<>>
                /\ committed'[t] # {} <=> log'[t] # <<>>
    <2>1. (t \in Range(lru) <=> log[t] # <<>>) /\ (committed[t] # {} <=> log[t] # <<>>)
      BY <1>1, <1>2 DEF MemoryKeeps
    <2>2. committed'[t] = IF t \in lost THEN {} ELSE committed[t]
      BY <1>1 DEF Reset
    <2>3. log'[t] = IF t \in lost THEN <<>> ELSE log[t]
      BY <1>12
    <2> QED
      BY <1>11, <2>1, <2>2, <2>3
  <1>16. log'[s] # <<>> /\ committed'[s] # {}
    <2>1. (IF s \in lost THEN <<>> ELSE log[s]) \in Seq(Runs)
      BY <1>2 DEF Logs
    <2>2. log'[s] = Append(IF s \in lost THEN <<>> ELSE log[s], r)
      BY <1>12
    <2>3. log'[s] # <<>>
      BY <2>1, <2>2, AppendProperties
    <2>4. r \in committed'[s]
      BY <1>1 DEF Reset
    <2> QED
      BY <2>3, <2>4
  <1>17. MemoryKeeps'
    <2>1. Len(lru') <= MaxSessions
      BY <1>6, <1>7
    <2>2. \A i, j \in 1..Len(lru') : lru'[i] = lru'[j] => i = j
      BY <1>7
    <2> QED
      BY <1>7, <1>11, <1>15, <1>16, <2>1, <2>2 DEF MemoryKeeps
  <1>18. PgKeeps'
    BY <1>1 DEF PgKeeps
  <1> QED
    BY <1>14, <1>17, <1>18 DEF Holds

\* The steps of the Redis store.
LEMMA RedisHolds ==
    ASSUME StoreInv, Holds, backend = "redis", backend' = "redis",
           \/ list' = list /\ log' = log
           \/ \E C : list' = Reset(list, C, <<>>) /\ log' = Reset(log, C, <<>>)
           \/ \E s \in Sessions, r \in Runs :
                  /\ list' = [list EXCEPT ![s] = LastN(@ \o Turn(r), MaxMessages)]
                  /\ log' = [log EXCEPT ![s] = Append(@, r)]
    PROVE  Holds'
  <1>1. Logs /\ ListKeeps
    BY DEF StoreInv, Holds
  <1>2. ASSUME list' = list /\ log' = log PROVE ListKeeps'
    BY <1>1, <1>2 DEF ListKeeps
  <1>3. ASSUME NEW C, list' = Reset(list, C, <<>>) /\ log' = Reset(log, C, <<>>) PROVE ListKeeps'
    BY <1>1, <1>3, ListLost
  <1>4. ASSUME NEW s \in Sessions, NEW r \in Runs,
               /\ list' = [list EXCEPT ![s] = LastN(@ \o Turn(r), MaxMessages)]
               /\ log' = [log EXCEPT ![s] = Append(@, r)]
        PROVE  ListKeeps'
    <2>1. DOMAIN list = Sessions /\ list = [t \in Sessions |-> list[t]]
      BY <1>1 DEF ListKeeps
    <2>2. log = [t \in Sessions |-> log[t]]
      BY <1>1 DEF Logs
    <2> DEFINE C == {}
    <2>3. list' = [t \in Sessions |->
                     IF t = s THEN LastN((IF s \in C THEN <<>> ELSE list[s]) \o Turn(r), MaxMessages)
                     ELSE IF t \in C THEN <<>> ELSE list[t]]
      BY <1>4, <2>1
    <2>4. log' = [t \in Sessions |-> IF t = s THEN Append(IF s \in C THEN <<>> ELSE log[s], r)
                                     ELSE IF t \in C THEN <<>> ELSE log[t]]
      BY <1>4, <2>2
    <2> HIDE DEF C
    <2> QED
      BY <1>1, <2>3, <2>4, ListTakes
  <1>5. ListKeeps'
    BY <1>2, <1>3, <1>4
  <1> QED
    BY <1>5 DEF Holds, MemoryKeeps, PgKeeps

\* A conversation of the Redis store is cleared.
LEMMA RedisClearHolds ==
    ASSUME StoreInv, Holds, NEW s \in Sessions, RedisClear(s)
    PROVE  Holds'
  <1>1. /\ backend = "redis" /\ backend' = "redis"
        /\ list' = [list EXCEPT ![s] = <<>>] /\ log' = [log EXCEPT ![s] = <<>>]
    BY DEF RedisClear
  <1>2. list = [t \in Sessions |-> list[t]] /\ log = [t \in Sessions |-> log[t]]
    BY <1>1 DEF StoreInv, Logs, Holds, ListKeeps
  <1>3. list' = Reset(list, {s}, <<>>) /\ log' = Reset(log, {s}, <<>>)
    BY <1>1, <1>2 DEF Reset
  <1> QED
    BY <1>1, <1>3, RedisHolds

-----------------------------------------------------------------------------
(* The steps of the PostgreSQL store *)

\* A step that changes neither what is kept nor a number that a transaction has.
LEMMA QuietHolds ==
    ASSUME Holds, UNCHANGED <<backend, list, lru, committed, table, log>>,
           \A v \in Writers : tx'[v].stage = "numbered" => tx'[v] = tx[v]
    PROVE  Holds'
  <1>1. MemoryKeeps' /\ ListKeeps'
    BY DEF Holds, MemoryKeeps, ListKeeps
  <1>2. PgKeeps'
    BY DEF Holds, PgKeeps
  <1> QED
    BY <1>1, <1>2 DEF Holds

\* A transaction begins, is refused, marks its run or is rolled back.
LEMMA PgStatementHolds ==
    ASSUME StoreInv, Holds, NEW w \in Writers,
           \/ \E s \in Sessions, r \in Runs : PgBegin(w, s, r)
           \/ PgRefuse(w) \/ PgMark(w) \/ PgAbort(w)
    PROVE  Holds'
  <1>1. tx \in [Writers -> TxRecord({tx[v].next : v \in Writers})]
    BY DEF StoreInv, PgLocked
  <1>2. UNCHANGED <<backend, list, lru, committed, table, log>>
    BY DEF PgBegin, PgRefuse, PgMark, PgAbort, TxVars
  <1>3. \A v \in Writers \ {w} : tx'[v] = tx[v]
    BY <1>1 DEF PgBegin, PgRefuse, PgMark, PgAbort
  <1>4. tx'[w].stage # "numbered"
    <2>1. ASSUME NEW s \in Sessions, NEW r \in Runs, PgBegin(w, s, r) PROVE tx'[w].stage = "locked"
      BY <1>1, <2>1 DEF PgBegin
    <2>2. ASSUME PgRefuse(w) \/ PgAbort(w) PROVE tx'[w].stage = "idle"
      BY <1>1, <2>2 DEF PgRefuse, PgAbort, Idle
    <2>3. ASSUME PgMark(w) PROVE tx'[w].stage = "marked"
      <3>1. tx' = [tx EXCEPT ![w].stage = "marked"]
        BY <2>3 DEF PgMark
      <3> QED
        BY <1>1, <3>1 DEF TxRecord
    <2> QED
      BY <2>1, <2>2, <2>3
  <1> QED
    BY <1>2, <1>3, <1>4, QuietHolds

\* The number a transaction reads is the one after the last message.
LEMMA PgNumberHolds ==
    ASSUME StoreInv, Holds, NEW w \in Writers, PgNumber(w)
    PROVE  Holds'
  <1> DEFINE s == tx[w].session
             m == Messages(log[s])
             n == 2 * Len(log[s])
             taken == {x.seq : x \in table[s]}
             top == CHOOSE k \in taken \cup {0} : \A j \in taken : j <= k
  <1>1. /\ tx[w].stage = "marked" /\ UNCHANGED <<backend, list, lru, committed, table, log>>
        /\ tx' = [tx EXCEPT ![w].stage = "numbered", ![w].next = 1 + top]
    BY DEF PgNumber, TxVars
  <1>2. backend = "postgres" /\ s \in Sessions
    BY <1>1 DEF StoreInv, PgLocked
  <1>3. log[s] \in Seq(Runs)
    BY <1>2 DEF StoreInv, Logs
  <1>4. n \in Nat
    BY <1>3, MessagesAre
  <1>5. table[s] = RowsOf(m, From(n), n)
    BY <1>2 DEF Holds, PgKeeps
  <1>6. From(n) \in Nat \ {0} /\ (n > 0 => From(n) <= n)
    BY <1>4, FromBounds
  <1> HIDE DEF m, n
  <1>7. taken = From(n)..n
    <2>1. \A x \in table[s] : x.seq \in From(n)..n
      BY <1>5, RowFields
    <2>2. \A i \in From(n)..n : [seq |-> i, msg |-> m[i]] \in table[s]
      BY <1>5, RowFields
    <2>3. ASSUME NEW i \in From(n)..n PROVE i \in taken
      <3>1. PICK x \in table[s] : x = [seq |-> i, msg |-> m[i]]
        BY <2>2
      <3>2. x.seq = i
        BY <3>1
      <3> QED
        BY <3>2
    <2> QED
      BY <2>1, <2>3
  <1> HIDE DEF taken
  <1>8. n \in taken \cup {0} /\ \A j \in taken : j <= n
    BY <1>4, <1>6, <1>7
  <1>9. \A k \in taken \cup {0} : (\A j \in taken : j <= k) => k = n
    BY <1>4, <1>6, <1>7
  <1>10. top = n
    BY <1>8, <1>9
  <1> HIDE DEF top
  <1>11. tx'[w].next = n + 1 /\ tx'[w].session = s /\ \A v \in Writers \ {w} : tx'[v] = tx[v]
    <2>1. tx \in [Writers -> TxRecord({tx[v].next : v \in Writers})]
      BY DEF StoreInv, PgLocked
    <2>2. tx'[w].next = 1 + top /\ tx'[w].session = tx[w].session
          /\ \A v \in Writers \ {w} : tx'[v] = tx[v]
      BY <1>1, <2>1 DEF TxRecord
    <2> QED
      BY <1>4, <1>10, <2>2
  <1>12. PgKeeps'
    <2>1. ASSUME NEW v \in Writers, tx'[v].stage = "numbered"
          PROVE  tx'[v].next = 2 * Len(log'[tx'[v].session]) + 1
      <3>1. CASE v = w
        BY <1>1, <1>11, <3>1 DEF n
      <3>2. CASE v # w
        BY <1>1, <1>2, <1>11, <2>1, <3>2 DEF Holds, PgKeeps
      <3> QED
        BY <3>1, <3>2
    <2> QED
      BY <1>1, <1>2, <2>1 DEF Holds, PgKeeps
  <1> QED
    BY <1>1, <1>2, <1>12 DEF Holds, MemoryKeeps, ListKeeps

\* The rows of a turn continue those of the log.
LEMMA RowsAppend ==
    ASSUME NEW q \in Seq(Runs), NEW r \in Runs, NEW a \in Nat \ {0}, a <= 2 * Len(q) + 1
    PROVE  RowsOf(Messages(q), a, 2 * Len(q))
             \cup {[seq |-> 2 * Len(q) + 1 + i - 1, msg |-> Turn(r)[i]] : i \in DOMAIN Turn(r)}
             = RowsOf(Messages(Append(q, r)), a, 2 * Len(q) + 2)
  <1> DEFINE n == 2 * Len(q)
             m == Messages(q)
             t == Turn(r)
             b == Messages(Append(q, r))
             new == {[seq |-> n + 1 + i - 1, msg |-> t[i]] : i \in DOMAIN t}
  <1>1. m \in Seq(Message) /\ Len(m) = n /\ n \in Nat
    BY MessagesAre
  <1>2. t \in Seq(Message) /\ Len(t) = 2 /\ DOMAIN t = 1..2
    BY TurnIs
  <1>3. b = m \o t
    BY MessagesAppend
  <1>4. a <= n + 1
    OBVIOUS
  <1> HIDE DEF n, m, t, b
  <1>5. \A i \in 1..n + 2 : b[i] = IF i <= n THEN m[i] ELSE t[i - n]
    <2>1. \A i \in 1..Len(m) + Len(t) : (m \o t)[i] = IF i <= Len(m) THEN m[i] ELSE t[i - Len(m)]
      BY <1>1, <1>2, ConcatProperties
    <2> QED
      BY <1>1, <1>2, <1>3, <2>1
  <1>6. b[n + 1] = t[1] /\ b[n + 2] = t[2]
    <2>1. PICK x \in 1..n + 2 : x = n + 1
      BY <1>1
    <2>2. PICK y \in 1..n + 2 : y = n + 2
      BY <1>1
    <2>3. ~ (x <= n) /\ x - n = 1 /\ ~ (y <= n) /\ y - n = 2
      BY <1>1, <2>1, <2>2
    <2>4. b[x] = t[1]
      BY <1>5, <2>3
    <2>5. b[y] = t[2]
      BY <1>5, <2>3
    <2> QED
      BY <2>1, <2>2, <2>4, <2>5
  <1>7. new = {[seq |-> n + 1, msg |-> b[n + 1]], [seq |-> n + 2, msg |-> b[n + 2]]}
    <2>1. n + 1 + 1 - 1 = n + 1 /\ n + 1 + 2 - 1 = n + 2 /\ 1..2 = {1, 2}
      BY <1>1
    <2>2. new = {[seq |-> n + 1 + i - 1, msg |-> t[i]] : i \in {1, 2}}
      BY <1>2, <2>1
    <2> QED
      BY <1>6, <2>1, <2>2
  <1>8. RowsOf(m, a, n) = RowsOf(b, a, n)
    <2>1. \A i \in a..n : b[i] = m[i]
      BY <1>1, <1>5
    <2> QED
      BY <2>1 DEF RowsOf
  <1>9. a..n + 2 = (a..n) \cup {n + 1, n + 2}
    BY <1>1, <1>4
  <1> HIDE DEF new
  <1>10. RowsOf(b, a, n + 2) = RowsOf(b, a, n) \cup new
    BY <1>7, <1>9 DEF RowsOf
  <1> QED
    BY <1>8, <1>10 DEF n, m, t, b, new

\* The commit adds the two rows of the turn after the last one, none of whose
\* numbers is taken, and the trim keeps the window.
LEMMA PgCommitHolds ==
    ASSUME StoreInv, Holds, NEW w \in Writers, PgCommit(w)
    PROVE  Holds'
  <1> DEFINE s == tx[w].session
             r == tx[w].run
             q == log[s]
             n == 2 * Len(q)
             a == From(n)
             turn == Turn(r)
             new == {[seq |-> tx[w].next + i - 1, msg |-> turn[i]] : i \in DOMAIN turn}
             free == {x \in new : \A y \in table[s] : y.seq # x.seq}
             b == Messages(Append(q, r))
  <1>1. /\ tx[w].stage = "numbered" /\ backend' = backend
        /\ table' = [table EXCEPT ![s] = Newest(@ \cup free)]
        /\ log' = [log EXCEPT ![s] = Append(@, r)]
        /\ tx' = [tx EXCEPT ![w] = Idle]
    BY DEF PgCommit, TxVars
  <1>2. /\ backend = "postgres" /\ s \in Sessions /\ r \in Runs
        /\ \A v \in Writers \ {w} : tx[v].session # s
    BY <1>1 DEF StoreInv, PgLocked
  <1>3. q \in Seq(Runs) /\ DOMAIN log = Sessions /\ DOMAIN tx = Writers
    BY <1>2 DEF StoreInv, Logs, PgLocked
  <1>4. n \in Nat /\ Append(q, r) \in Seq(Runs) /\ 2 * Len(Append(q, r)) = n + 2
    BY <1>2, <1>3, MessagesAre, AppendProperties, LenProperties
  <1>5. table[s] = RowsOf(Messages(q), a, n) /\ tx[w].next = n + 1
    BY <1>1, <1>2 DEF Holds, PgKeeps
  <1>6. a \in Nat \ {0} /\ a <= n + 1
    BY <1>4, FromBounds
  <1>7. a <= From(n + 2)
    BY <1>4, StoresAssumption DEF From
  <1>8. RowsOf(Messages(q), a, n)
          \cup {[seq |-> n + 1 + i - 1, msg |-> turn[i]] : i \in DOMAIN turn} = RowsOf(b, a, n + 2)
    BY <1>2, <1>3, <1>6, RowsAppend
  <1>9. table[s] \cup new = RowsOf(b, a, n + 2)
    BY <1>5, <1>8
  <1>10. free = new
    <2>1. DOMAIN turn = 1..2
      BY DEF Turn
    <2>2. \A y \in table[s] : y.seq \in a..n
      BY <1>5, RowFields
    <2>3. ASSUME NEW x \in new PROVE \A y \in table[s] : y.seq # x.seq
      <3>1. PICK i \in 1..2 : x = [seq |-> n + 1 + i - 1, msg |-> turn[i]]
        BY <1>5, <2>1
      <3>2. x.seq = n + 1 + i - 1
        BY <3>1
      <3>3. x.seq \notin a..n
        BY <1>4, <1>6, <3>2
      <3> QED
        BY <2>2, <3>3
    <2> HIDE DEF new
    <2> QED
      BY <2>3
  <1> HIDE DEF new, free, a, b
  <1>11. Newest(table[s] \cup free) = RowsOf(b, From(n + 2), n + 2)
    <2>1. table[s] \cup free = RowsOf(b, a, n + 2)
      BY <1>9, <1>10
    <2>2. n + 2 \in Nat
      BY <1>4
    <2> HIDE DEF n
    <2> QED
      BY <1>6, <1>7, <2>1, <2>2, RowsNewest
  <1>12. log'[s] = Append(q, r) /\ \A t \in Sessions \ {s} : log'[t] = log[t]
    BY <1>1, <1>2, <1>3
  <1>15. DOMAIN table = Sessions
    BY <1>2 DEF Holds, PgKeeps
  <1>13. ASSUME NEW t \in Sessions
         PROVE  table'[t] = RowsOf(Messages(log'[t]), From(2 * Len(log'[t])), 2 * Len(log'[t]))
    <2>1. CASE t = s
      <3>1. table'[s] = RowsOf(b, From(n + 2), n + 2)
        BY <1>1, <1>2, <1>11, <1>15
      <3>2. b = Messages(log'[s]) /\ n + 2 = 2 * Len(log'[s])
        BY <1>4, <1>12 DEF b
      <3> HIDE DEF n, s
      <3> QED
        BY <2>1, <3>1, <3>2
    <2>2. CASE t # s
      <3>1. table'[t] = table[t] /\ log'[t] = log[t]
        BY <1>1, <1>12, <1>15, <2>2
      <3> QED
        BY <1>2, <3>1 DEF Holds, PgKeeps
    <2> QED
      BY <2>1, <2>2
  <1>14. ASSUME NEW v \in Writers, tx'[v].stage = "numbered"
         PROVE  tx'[v].next = 2 * Len(log'[tx'[v].session]) + 1
    <2>1. v # w /\ tx'[v] = tx[v]
      BY <1>1, <1>3, <1>14 DEF Idle
    <2>2. tx[v].session \in Sessions \ {s}
      BY <1>2, <1>14, <2>1 DEF StoreInv, PgLocked
    <2> QED
      BY <1>2, <1>12, <1>14, <2>1, <2>2 DEF Holds, PgKeeps
  <1>16. table' = [t \in Sessions |-> table'[t]]
    BY <1>1, <1>15
  <1>17. PgKeeps'
    BY <1>13, <1>14, <1>16 DEF PgKeeps
  <1> QED
    BY <1>1, <1>2, <1>17 DEF Holds, MemoryKeeps, ListKeeps

\* A conversation is deleted: its numbers begin again.
LEMMA PgClearHolds ==
    ASSUME StoreInv, Holds, NEW s \in Sessions, PgClear(s)
    PROVE  Holds'
  <1>1. /\ backend = "postgres" /\ backend' = "postgres" /\ tx' = tx
        /\ \A v \in Writers : tx[v].session # s
        /\ table' = [table EXCEPT ![s] = {}] /\ log' = [log EXCEPT ![s] = <<>>]
    BY DEF PgClear, TxVars
  <1>2. DOMAIN table = Sessions /\ DOMAIN log = Sessions
    BY <1>1 DEF StoreInv, Logs, Holds, PgKeeps
  <1>3. RowsOf(Messages(<<>>), From(2 * Len(<<>>)), 2 * Len(<<>>)) = {}
    <2>1. 2 * Len(<<>>) = 0
      OBVIOUS
    <2>2. From(0) = 1
      BY StoresAssumption DEF From
    <2>3. 1..0 = {}
      OBVIOUS
    <2>4. RowsOf(Messages(<<>>), 1, 0) = {}
      BY <2>3 DEF RowsOf
    <2> QED
      BY <2>1, <2>2, <2>4
  <1>4. ASSUME NEW t \in Sessions
        PROVE  table'[t] = RowsOf(Messages(log'[t]), From(2 * Len(log'[t])), 2 * Len(log'[t]))
    <2>1. CASE t = s
      <3>1. table'[t] = {} /\ log'[t] = <<>>
        BY <1>1, <1>2, <2>1
      <3> QED
        BY <1>3, <3>1
    <2>2. CASE t # s
      <3>1. table'[t] = table[t] /\ log'[t] = log[t]
        BY <1>1, <1>2, <2>2
      <3> QED
        BY <1>1, <3>1 DEF Holds, PgKeeps
    <2> QED
      BY <2>1, <2>2
  <1>5. ASSUME NEW v \in Writers, tx'[v].stage = "numbered"
        PROVE  tx'[v].next = 2 * Len(log'[tx'[v].session]) + 1
    <2>1. tx[v].session \in Sessions \ {s}
      BY <1>1, <1>5 DEF StoreInv, PgLocked
    <2>2. log'[tx[v].session] = log[tx[v].session]
      BY <1>1, <1>2, <2>1
    <2> QED
      BY <1>1, <1>5, <2>2 DEF Holds, PgKeeps
  <1>6. table' = [t \in Sessions |-> table'[t]]
    BY <1>1, <1>2
  <1>7. PgKeeps'
    BY <1>4, <1>5, <1>6 DEF PgKeeps
  <1> QED
    BY <1>1, <1>7 DEF Holds, MemoryKeeps, ListKeeps

-----------------------------------------------------------------------------
(* The invariant of what is held, and its theorems *)

\* The stores begin empty.
LEMMA HoldsInitially == StoreInit => Holds
  <1> SUFFICES ASSUME StoreInit PROVE Holds
    OBVIOUS
  <1>1. <<>> \in Seq(Runs) /\ <<>> \in Seq(Sessions) /\ Len(<<>>) = 0
    OBVIOUS
  <1>2. /\ lru = <<>> /\ log = [s \in Sessions |-> <<>>] /\ list = [s \in Sessions |-> <<>>]
        /\ committed = [s \in Sessions |-> {}] /\ table = [s \in Sessions |-> {}]
        /\ tx = [w \in Writers |-> Idle]
    BY DEF StoreInit
  <1>3. MemoryKeeps
    <2>1. Range(lru) = {}
      BY <1>2 DEF Range
    <2>2. Len(lru) <= MaxSessions
      BY <1>1, <1>2, StoresAssumption
    <2> QED
      BY <1>1, <1>2, <2>1, <2>2 DEF MemoryKeeps
  <1>4. ListKeeps
    <2>1. LastN(Messages(<<>>), MaxMessages) = <<>>
      BY <1>1, WindowEmpty
    <2>2. \A s \in Sessions : log[s] = <<>>
      BY <1>2
    <2> QED
      BY <1>2, <2>1, <2>2 DEF ListKeeps
  <1>5. PgKeeps
    <2>1. From(0) = 1 /\ 1..0 = {} /\ 2 * Len(<<>>) = 0
      BY StoresAssumption DEF From
    <2>2. RowsOf(Messages(<<>>), 1, 0) = {}
      BY <2>1 DEF RowsOf
    <2>3. \A s \in Sessions : RowsOf(Messages(log[s]), From(2 * Len(log[s])), 2 * Len(log[s])) = {}
      BY <1>2, <2>1, <2>2
    <2>4. \A w \in Writers : tx[w].stage = "idle"
      BY <1>2 DEF Idle
    <2> QED
      BY <1>2, <2>3, <2>4 DEF PgKeeps
  <1> QED
    BY <1>3, <1>4, <1>5 DEF Holds

\* A step of the Redis store or of its clock.
LEMMA RedisStepHolds ==
    ASSUME StoreInv, Holds,
           \/ RedisTick
           \/ \E s \in Sessions, r \in Runs : RedisRefuse(s, r) \/ RedisAppendTurn(s, r)
    PROVE  Holds'
  <1>1. ASSUME RedisTick PROVE Holds'
    <2> DEFINE gone == {s \in Sessions : list[s] # <<>> /\ idle[s] + 1 >= Ttl}
    <2>1. /\ backend = "redis" /\ backend' = "redis"
          /\ list' = Reset(list, gone, <<>>) /\ log' = Reset(log, gone, <<>>)
      BY <1>1 DEF RedisTick
    <2> HIDE DEF gone
    <2> QED
      BY <2>1, RedisHolds
  <1>2. ASSUME NEW s \in Sessions, NEW r \in Runs, RedisRefuse(s, r) PROVE Holds'
    BY <1>2, RedisHolds DEF RedisRefuse
  <1>3. ASSUME NEW s \in Sessions, NEW r \in Runs, RedisAppendTurn(s, r) PROVE Holds'
    <2>1. /\ backend = "redis" /\ backend' = "redis"
          /\ list' = [list EXCEPT ![s] = LastN(@ \o Turn(r), MaxMessages)]
          /\ log' = [log EXCEPT ![s] = Append(@, r)]
      BY <1>3 DEF RedisAppendTurn
    <2> QED
      BY <2>1, RedisHolds
  <1> QED
    BY <1>1, <1>2, <1>3

\* Every step keeps what the stores hold.
LEMMA HoldsStep == StoreInv /\ Holds /\ [StoreNext]_storeVars => Holds'
  <1> SUFFICES ASSUME StoreInv, Holds, [StoreNext]_storeVars PROVE Holds'
    OBVIOUS
  <1>1. ASSUME MemoryPurge PROVE Holds'
    BY <1>1, MemoryClearHolds DEF MemoryPurge
  <1>2. ASSUME NEW C, MemoryClear(C) PROVE Holds'
    BY <1>2, MemoryClearHolds DEF MemoryClear
  <1>3. ASSUME MemoryTick \/ \E s \in Sessions, r \in Runs : RedisMarkerExpires(s, r) PROVE Holds'
    <2>1. UNCHANGED <<backend, list, lru, committed, table, log>> /\ tx' = tx
      BY <1>3 DEF MemoryTick, RedisMarkerExpires
    <2> QED
      BY <2>1, QuietHolds
  <1>4. ASSUME NEW s \in Sessions,
               \/ MemoryGet(s) \/ RedisClear(s) \/ PgClear(s)
               \/ \E r \in Runs : MemoryAppendTurn(s, r)
        PROVE  Holds'
    BY <1>4, MemoryGetHolds, RedisClearHolds, PgClearHolds, MemoryAppendHolds
  <1>5. ASSUME \/ RedisTick
               \/ \E s \in Sessions, r \in Runs : RedisRefuse(s, r) \/ RedisAppendTurn(s, r)
        PROVE  Holds'
    BY <1>5, RedisStepHolds
  <1>6. ASSUME NEW w \in Writers,
               \/ \E s \in Sessions, r \in Runs : PgBegin(w, s, r)
               \/ PgRefuse(w) \/ PgMark(w) \/ PgNumber(w) \/ PgCommit(w) \/ PgAbort(w)
        PROVE  Holds'
    BY <1>6, PgStatementHolds, PgNumberHolds, PgCommitHolds
  <1>7. ASSUME UNCHANGED storeVars PROVE Holds'
    <2>1. UNCHANGED <<backend, list, lru, committed, table, log>> /\ tx' = tx
      BY <1>7 DEF storeVars
    <2> QED
      BY <2>1, QuietHolds
  <1>8. MemoryClear(Sessions) => Holds'
    BY <1>2
  <1>9. \A s \in Sessions : MemoryClear({s}) => Holds'
    BY <1>2
  <1> HIDE DEF Holds
  <1>10. StoreNext => Holds'
    BY <1>1, <1>3, <1>4, <1>5, <1>6, <1>8, <1>9, Zenon DEF StoreNext
  <1> QED
    BY <1>7, <1>10

\* What the stores hold is invariant.
LEMMA HoldsInvariant == StoreSpec => [](StoreInv /\ Holds)
  <1>1. StoreInit => StoreInv /\ Holds
    BY StoreInitially, HoldsInitially
  <1>2. (StoreInv /\ Holds) /\ [StoreNext]_storeVars => (StoreInv /\ Holds)'
    BY StoreStep, HoldsStep
  <1> QED
    BY <1>1, <1>2, PTL DEF StoreSpec

\* A reader of each store sees exactly the last MaxMessages messages of the
\* committed turns, in their order and with no gap, for any window, also one
\* that cuts a turn in two: trimming before appending loses nothing, the
\* memory and the Redis lists expire only as a whole, and the numbers that the
\* PostgreSQL transactions read and insert stay consecutive however they
\* interleave and abort, because each holds its conversation's lock.
THEOREM ReadersSeeTheLatest == StoreSpec => []WindowIsLatest
  <1>1. StoreInv /\ Holds => WindowIsLatest
    <2> SUFFICES ASSUME StoreInv, Holds, NEW s \in Sessions
                 PROVE  Visible(s) = LastN(Messages(log[s]), MaxMessages)
      BY DEF WindowIsLatest
    <2>1. Logs /\ ListKeeps /\ log[s] \in Seq(Runs)
      BY DEF StoreInv, Logs, Holds
    <2> DEFINE m == Messages(log[s])
    <2>2. m \in Seq(Message) /\ Len(m) = 2 * Len(log[s])
      BY <2>1, MessagesAre
    <2>3. CASE backend = "postgres"
      <3>1. table[s] = RowsOf(m, From(2 * Len(log[s])), 2 * Len(log[s]))
        BY <2>3 DEF Holds, PgKeeps
      <3> HIDE DEF m
      <3>2. table[s] = RowsOf(m, From(Len(m)), Len(m))
        BY <2>2, <3>1
      <3>3. Visible(s) = LastN(m, MaxMessages)
        BY <2>2, <2>3, <3>2, RowsVisible
      <3> QED
        BY <3>3 DEF m
    <2>4. CASE backend # "postgres"
      <3>1. list[s] = LastN(m, MaxMessages)
        BY <2>1, <2>4, ListIs
      <3> HIDE DEF m
      <3>2. LastN(list[s], MaxMessages) = LastN(m, MaxMessages)
        BY <2>2, <3>1, WindowTwice
      <3>3. Visible(s) = LastN(list[s], MaxMessages)
        BY <2>4 DEF Visible
      <3> QED
        BY <3>2, <3>3 DEF m
    <2> QED
      BY <2>3, <2>4
  <1> QED
    BY <1>1, HoldsInvariant, PTL

\* The memory store never holds more than MaxSessions conversations, whatever
\* calls, ages and evictions come in which order; each is once in the order of
\* use; and it remembers committed runs of just the conversations it holds.
THEOREM MemoryStaysBounded == StoreSpec => []MemoryIsBounded
  <1>1. StoreInv /\ Holds => MemoryIsBounded
    <2> SUFFICES ASSUME StoreInv, Holds, backend = "memory"
                 PROVE  /\ Len(lru) <= MaxSessions
                        /\ \A i, j \in DOMAIN lru : lru[i] = lru[j] => i = j
                        /\ \A s \in Sessions : s \in Range(lru) <=> list[s] # <<>>
                        /\ \A s \in Sessions : committed[s] # {} <=> list[s] # <<>>
      BY DEF MemoryIsBounded
    <2>1. Logs /\ ListKeeps /\ MemoryKeeps
      BY DEF StoreInv, Holds
    <2>2. \A s \in Sessions : list[s] = <<>> <=> log[s] = <<>>
      BY <2>1, ListIs
    <2>3. DOMAIN lru = 1..Len(lru)
      BY <2>1, LenProperties DEF MemoryKeeps
    <2> QED
      BY <2>1, <2>2, <2>3 DEF MemoryKeeps
  <1> QED
    BY <1>1, HoldsInvariant, PTL

-----------------------------------------------------------------------------
(* Least recently used first *)

\* The order of use is the order of the ages, the oldest conversation first.
OldestFirst ==
    backend = "memory" =>
        \A i, j \in 1..Len(lru) : i < j => idle[lru[j]] <= idle[lru[i]]

\* The ages, and what belongs to the other backends.
Ages ==
    /\ backend \in Backends
    /\ idle \in [Sessions -> 0..Ttl + 1] /\ marked \in [Sessions -> 0..Ttl]
    /\ backend # "memory" => lru = <<>>
    /\ backend = "postgres" => list = [s \in Sessions |-> <<>>]
    /\ backend # "postgres" => table = [s \in Sessions |-> {}]
    /\ \A w \in Writers : tx[w].next \in Nat

Aged == Ages /\ OldestFirst

\* The ages of the conversations of q under f fall from the first to the last.
Falls(f, q) == \A i, j \in 1..Len(q) : i < j => f[q[j]] <= f[q[i]]

\* Taking conversations out of the order of use leaves the ages falling.
LEMMA OrderAges ==
    ASSUME Holds, OldestFirst, backend = "memory", NEW C
    PROVE  Falls(idle, Without(lru, C))
  <1>1. /\ lru \in Seq(Sessions)
        /\ \A i, j \in 1..Len(lru) : lru[i] = lru[j] => i = j
        /\ \A i, j \in 1..Len(lru) : i < j => idle[lru[j]] <= idle[lru[i]]
    BY DEF Holds, MemoryKeeps, OldestFirst
  <1> DEFINE p == Without(lru, C)
  <1>2. \A i, j \in 1..Len(p) : i < j =>
            \E k, l \in 1..Len(lru) : k < l /\ p[i] = lru[k] /\ p[j] = lru[l]
    BY <1>1, WithoutKeeps
  <1> HIDE DEF p
  <1>3. Falls(idle, p)
    BY <1>1, <1>2 DEF Falls
  <1> QED
    BY <1>3 DEF p

\* So does a conversation of age 0 at the end of it.
LEMMA AppendAges ==
    ASSUME NEW q \in Seq(Sessions), NEW s \in Sessions,
           NEW f \in [Sessions -> Nat], NEW g \in [Sessions -> Nat],
           Falls(f, q), g[s] = 0, \A i \in 1..Len(q) : g[q[i]] = f[q[i]]
    PROVE  Falls(g, Append(q, s))
  <1> DEFINE p == Append(q, s)
  <1>1. /\ Len(q) \in Nat /\ Len(p) = Len(q) + 1 /\ p[Len(q) + 1] = s
        /\ \A i \in 1..Len(q) : p[i] = q[i] /\ q[i] \in Sessions
    BY AppendProperties, LenProperties, ElementOfSeq
  <1> HIDE DEF p
  <1> SUFFICES ASSUME NEW i \in 1..Len(p), NEW j \in 1..Len(p), i < j
               PROVE  g[p[j]] <= g[p[i]]
    BY DEF Falls, p
  <1>2. i \in 1..Len(q) /\ (j \in 1..Len(q) \/ j = Len(q) + 1)
    BY <1>1
  <1>3. g[p[i]] \in Nat
    BY <1>1, <1>2
  <1>4. CASE j \in 1..Len(q)
    <2>1. f[q[j]] <= f[q[i]]
      BY <1>2, <1>4 DEF Falls
    <2> QED
      BY <1>1, <1>2, <1>4, <2>1
  <1>5. CASE j = Len(q) + 1
    BY <1>1, <1>3, <1>5
  <1> QED
    BY <1>2, <1>4, <1>5

\* Session s joins the end of the order of use p, whose n oldest are then cut off.
JoinsAndCuts(s, p) ==
    \E n \in Nat : /\ n <= Len(p)
                   /\ Cut(lru', Append(p, s), n, Sessions)
                   /\ idle' = Reset(idle, Expired \cup {Append(p, s)[i] : i \in 1..n} \cup {s}, 0)

\* What the order of use becomes when a turn is appended.
LEMMA TurnInOrder ==
    ASSUME Holds, NEW s \in Sessions, NEW r \in Runs, MemoryAppendTurn(s, r)
    PROVE  JoinsAndCuts(s, Without(lru, Expired \cup {s}))
  <1> DEFINE p == Without(lru, Expired \cup {s})
             order == Append(p, s)
             over == IF Len(order) > MaxSessions THEN Len(order) - MaxSessions ELSE 0
  <1>1. /\ backend = "memory" /\ lru' = SubSeq(order, over + 1, Len(order))
        /\ idle' = Reset(idle, Expired \cup {order[i] : i \in 1..over} \cup {s}, 0)
    BY DEF MemoryAppendTurn
  <1>2. /\ p \in Seq(Sessions) /\ Len(p) \in Nat
        /\ \A i, j \in 1..Len(p) : p[i] = p[j] => i = j
        /\ Range(p) = Range(lru) \ (Expired \cup {s})
    BY <1>1, OrderLoses
  <1> HIDE DEF p
  <1>3. /\ order \in Seq(Sessions) /\ Len(order) = Len(p) + 1
        /\ \A i, j \in 1..Len(order) : order[i] = order[j] => i = j
    <2>1. s \notin Range(p)
      BY <1>2
    <2> QED
      BY <1>2, <2>1, LastInOrder
  <1> HIDE DEF order
  <1>4. over \in Nat /\ over <= Len(p) /\ over <= Len(order) /\ Len(order) \in Nat
    BY <1>2, <1>3, StoresAssumption
  <1> HIDE DEF over
  <1>5. lru' = [i \in 1..Len(order) - over |-> order[i + over]] /\ Len(order) - over \in Nat
    BY <1>1, <1>3, <1>4
  <1>6. \A i \in 1..Len(order) - over : i + over \in 1..Len(order)
    BY <1>4
  <1>7. lru' \in [1..Len(order) - over -> Sessions]
    BY <1>3, <1>5, <1>6, ElementOfSeq
  <1>8. lru' \in Seq(Sessions) /\ Len(lru') = Len(order) - over
    BY <1>5, <1>7, SeqDef
  <1>9. Cut(lru', order, over, Sessions)
    BY <1>3, <1>4, <1>5, <1>8 DEF Cut
  <1> QED
    BY <1>1, <1>4, <1>9 DEF p, order, JoinsAndCuts

\* Resetting ages keeps them in their range.
LEMMA ResetAges ==
    ASSUME Ages, NEW C
    PROVE  /\ Reset(idle, C, 0) \in [Sessions -> 0..Ttl + 1]
           /\ idle \in [Sessions -> Nat] /\ Reset(idle, C, 0) \in [Sessions -> Nat]
  BY StoresAssumption DEF Ages, Reset

\* A step of the memory store but its clock keeps the order of the ages.
LEMMA MemoryOrderAges ==
    ASSUME Holds, Aged,
           \/ MemoryPurge
           \/ \E C : MemoryClear(C)
           \/ \E s \in Sessions : MemoryGet(s)
           \/ \E s \in Sessions, r \in Runs : MemoryAppendTurn(s, r)
    PROVE  OldestFirst' /\ idle' \in [Sessions -> 0..Ttl + 1]
  <1>1. ASSUME NEW C, backend = "memory", lru' = Without(lru, C), idle' = Reset(idle, C, 0)
        PROVE  OldestFirst' /\ idle' \in [Sessions -> 0..Ttl + 1]
    <2>1. /\ lru' \in Seq(Sessions)
          /\ Range(lru') = Range(lru) \ C
      BY <1>1, OrderLoses
    <2>2. Falls(idle, lru')
      BY <1>1, OrderAges DEF Aged
    <2>3. DOMAIN lru' = 1..Len(lru')
      BY <2>1, LenProperties
    <2>4. \A i \in 1..Len(lru') : lru'[i] \in Sessions /\ lru'[i] \notin C
      BY <2>1, <2>3, ElementOfSeq DEF Range
    <2>5. \A i \in 1..Len(lru') : idle'[lru'[i]] = idle[lru'[i]]
      BY <1>1, <2>4 DEF Reset
    <2>6. OldestFirst'
      BY <2>2, <2>5 DEF OldestFirst, Falls
    <2> QED
      BY <1>1, <2>6, ResetAges DEF Aged
  <1>2. ASSUME NEW s \in Sessions, NEW p, p = Without(lru, Expired \cup {s}), backend = "memory"
        PROVE  /\ p \in Seq(Sessions) /\ Len(p) \in Nat
               /\ Reset(idle, Expired \cup {s}, 0) \in [Sessions -> Nat]
               /\ Falls(Reset(idle, Expired \cup {s}, 0), Append(p, s))
    <2> DEFINE g == Reset(idle, Expired \cup {s}, 0)
    <2>1. /\ p \in Seq(Sessions) /\ Len(p) \in Nat
          /\ Range(p) = Range(lru) \ (Expired \cup {s})
      BY <1>2, OrderLoses
    <2>2. Falls(idle, p)
      BY <1>2, OrderAges DEF Aged
    <2>3. DOMAIN p = 1..Len(p)
      BY <2>1, LenProperties
    <2>4. \A i \in 1..Len(p) : p[i] \in Sessions /\ p[i] \notin Expired \cup {s}
      BY <2>1, <2>3, ElementOfSeq DEF Range
    <2>5. g[s] = 0 /\ \A i \in 1..Len(p) : g[p[i]] = idle[p[i]]
      BY <2>4 DEF Reset
    <2>6. g \in [Sessions -> Nat] /\ idle \in [Sessions -> Nat]
      BY ResetAges DEF Aged
    <2> HIDE DEF g
    <2>7. Falls(g, Append(p, s))
      BY <2>1, <2>2, <2>5, <2>6, AppendAges
    <2> QED
      BY <2>1, <2>6, <2>7 DEF g
  <1>3. ASSUME NEW s \in Sessions, MemoryGet(s)
        PROVE  OldestFirst' /\ idle' \in [Sessions -> 0..Ttl + 1]
    <2> DEFINE p == Without(lru, Expired \cup {s})
    <2>1. /\ backend = "memory" /\ lru' = Append(p, s)
          /\ idle' = Reset(idle, Expired \cup {s}, 0)
      BY <1>3 DEF MemoryGet, MemoryDrops
    <2>2. Falls(idle', lru')
      <3> HIDE DEF p
      <3>1. p = Without(lru, Expired \cup {s})
        BY DEF p
      <3> QED
        BY <1>2, <2>1, <3>1
    <2> QED
      BY <2>1, <2>2, ResetAges DEF Aged, OldestFirst, Falls
  <1>4. ASSUME NEW s \in Sessions, NEW r \in Runs, MemoryAppendTurn(s, r)
        PROVE  OldestFirst' /\ idle' \in [Sessions -> 0..Ttl + 1]
    <2>0. PICK p : p = Without(lru, Expired \cup {s})
      OBVIOUS
    <2> DEFINE order == Append(p, s)
               g == Reset(idle, Expired \cup {s}, 0)
    <2>1. backend = "memory"
      BY <1>4 DEF MemoryAppendTurn
    <2>2. PICK n \in Nat :
               /\ n <= Len(p)
               /\ Cut(lru', order, n, Sessions)
               /\ idle' = Reset(idle, Expired \cup {order[i] : i \in 1..n} \cup {s}, 0)
      <3>1. JoinsAndCuts(s, p)
        BY <1>4, <2>0, TurnInOrder
      <3> QED
        BY <3>1 DEF JoinsAndCuts
    <2>3. p \in Seq(Sessions) /\ Len(p) \in Nat /\ Falls(g, order)
      BY <1>2, <2>0, <2>1
    <2>4. Len(order) = Len(p) + 1
      BY <2>3, AppendProperties
    <2> HIDE DEF order
    <2>5. /\ lru' \in Seq(Sessions) /\ Len(lru') = Len(order) - n
          /\ \A i \in 1..Len(order) - n : lru'[i] = order[i + n]
      BY <2>2 DEF Cut
    <2>6. \A x : x \in Range(lru') => \A i \in 1..n : order[i] # x
      BY <2>2, CutInOrder
    <2>7. \A i \in 1..Len(lru') : lru'[i] \in Sessions /\ lru'[i] \in Range(lru')
      BY <2>5, LenProperties, ElementOfSeq DEF Range
    <2>8. \A i \in 1..Len(lru') : idle'[lru'[i]] = g[lru'[i]]
      <3> SUFFICES ASSUME NEW i \in 1..Len(lru') PROVE idle'[lru'[i]] = g[lru'[i]]
        OBVIOUS
      <3>1. PICK x : x = lru'[i]
        OBVIOUS
      <3>2. x \in Sessions /\ x \notin {order[k] : k \in 1..n}
        BY <2>6, <2>7, <3>1
      <3>3. idle'[x] = g[x]
        BY <2>2, <3>2 DEF Reset
      <3> QED
        BY <3>1, <3>3
    <2> HIDE DEF g
    <2>9. \A i, j \in 1..Len(lru') : i < j => g[lru'[j]] <= g[lru'[i]]
      <3> SUFFICES ASSUME NEW i \in 1..Len(lru'), NEW j \in 1..Len(lru'), i < j
                   PROVE  g[lru'[j]] <= g[lru'[i]]
        OBVIOUS
      <3>1. i + n \in 1..Len(order) /\ j + n \in 1..Len(order) /\ i + n < j + n
        BY <2>2, <2>3, <2>4, <2>5
      <3>2. lru'[i] = order[i + n] /\ lru'[j] = order[j + n]
        BY <2>5
      <3>3. PICK k \in 1..Len(order), l \in 1..Len(order) : k = i + n /\ l = j + n
        BY <3>1
      <3>4. g[order[l]] <= g[order[k]]
        BY <2>3, <3>1, <3>3 DEF Falls
      <3> QED
        BY <3>2, <3>3, <3>4
    <2>10. OldestFirst'
      BY <2>8, <2>9 DEF OldestFirst
    <2> QED
      BY <2>2, <2>10, ResetAges DEF Aged
  <1> QED
    BY <1>1, <1>3, <1>4 DEF MemoryPurge, MemoryClear, MemoryDrops

\* The memory store and its clock keep the ages.
LEMMA MemoryAges ==
    ASSUME Holds, Aged,
           \/ MemoryTick \/ MemoryPurge
           \/ \E C : MemoryClear(C)
           \/ \E s \in Sessions : MemoryGet(s)
           \/ \E s \in Sessions, r \in Runs : MemoryAppendTurn(s, r)
    PROVE  Aged'
  <1>1. backend = "memory" /\ UNCHANGED <<backend, marked, table, tx>>
    BY DEF MemoryTick, MemoryPurge, MemoryClear, MemoryGet, MemoryAppendTurn, MemoryDrops
  <1>2. ASSUME idle' \in [Sessions -> 0..Ttl + 1] PROVE Ages'
    BY <1>1, <1>2 DEF Aged, Ages
  <1>3. CASE ~MemoryTick
    BY <1>2, <1>3, MemoryOrderAges DEF Aged
  <1>4. CASE MemoryTick
    <2>1. /\ lru' = lru
          /\ idle' = [s \in Sessions |-> IF s \in Range(lru) /\ idle[s] <= Ttl
                                         THEN idle[s] + 1 ELSE idle[s]]
      BY <1>4 DEF MemoryTick
    <2>2. idle \in [Sessions -> 0..Ttl + 1] /\ Ttl \in Nat
      BY StoresAssumption DEF Aged, Ages
    <2>3. idle' \in [Sessions -> 0..Ttl + 1]
      BY <2>1, <2>2
    <2>4. lru \in Seq(Sessions) /\ DOMAIN lru = 1..Len(lru)
      BY <1>1, LenProperties DEF Holds, MemoryKeeps
    <2>5. \A i \in 1..Len(lru) : lru[i] \in Sessions /\ lru[i] \in Range(lru)
      BY <2>4, ElementOfSeq DEF Range
    <2>6. \A s, t \in Sessions : s \in Range(lru) /\ t \in Range(lru) /\ idle[t] <= idle[s]
                                    => idle'[t] <= idle'[s]
      BY <2>1, <2>2
    <2>7. OldestFirst'
      BY <1>1, <2>1, <2>5, <2>6 DEF Aged, OldestFirst
    <2> QED
      BY <1>2, <2>3, <2>7 DEF Aged
  <1> QED
    BY <1>3, <1>4

\* Redis keys are deleted before they reach the time to live.
LEMMA RedisAges ==
    ASSUME Aged,
           \/ RedisTick
           \/ \E s \in Sessions : RedisClear(s)
           \/ \E s \in Sessions, r \in Runs : RedisRefuse(s, r) \/ RedisAppendTurn(s, r)
    PROVE  Aged'
  <1>1. backend = "redis" /\ UNCHANGED <<backend, lru, table, tx>>
    BY DEF RedisTick, RedisClear, RedisRefuse, RedisAppendTurn
  <1>2. idle \in [Sessions -> 0..Ttl + 1] /\ marked \in [Sessions -> 0..Ttl] /\ Ttl \in Nat
    BY StoresAssumption DEF Aged, Ages
  <1>3. idle' \in [Sessions -> 0..Ttl + 1] /\ marked' \in [Sessions -> 0..Ttl]
    <2>1. CASE RedisTick
      <3> DEFINE gone == {s \in Sessions : list[s] # <<>> /\ idle[s] + 1 >= Ttl}
                 unmarked == {s \in Sessions : committed[s] # {} /\ marked[s] + 1 >= Ttl}
      <3>1. /\ list' = Reset(list, gone, <<>>) /\ committed' = Reset(committed, unmarked, {})
            /\ idle' = [s \in Sessions |-> IF list'[s] = <<>> THEN 0 ELSE idle[s] + 1]
            /\ marked' = [s \in Sessions |-> IF committed'[s] = {} THEN 0 ELSE marked[s] + 1]
        BY <2>1 DEF RedisTick
      <3>2. \A s \in Sessions : list'[s] # <<>> => idle[s] + 1 < Ttl
        BY <1>2, <3>1 DEF Reset
      <3>3. \A s \in Sessions : committed'[s] # {} => marked[s] + 1 < Ttl
        BY <1>2, <3>1 DEF Reset
      <3> HIDE DEF gone, unmarked
      <3>4. \A s \in Sessions : (IF list'[s] = <<>> THEN 0 ELSE idle[s] + 1) \in 0..Ttl + 1
        BY <1>2, <3>2
      <3>5. \A s \in Sessions : (IF committed'[s] = {} THEN 0 ELSE marked[s] + 1) \in 0..Ttl
        BY <1>2, <3>3
      <3> QED
        BY <3>1, <3>4, <3>5, Zenon
    <2>2. CASE ~RedisTick
      <3>1. PICK s \in Sessions : /\ idle' = idle \/ idle' = [idle EXCEPT ![s] = 0]
                                  /\ marked' = [marked EXCEPT ![s] = 0]
        BY <2>2 DEF RedisClear, RedisRefuse, RedisAppendTurn
      <3> QED
        BY <1>2, <3>1
    <2> QED
      BY <2>1, <2>2
  <1> QED
    BY <1>1, <1>3 DEF Aged, Ages, OldestFirst

\* The transactions of PostgreSQL touch no age; their numbers are numbers.
LEMMA PgAges ==
    ASSUME StoreInv, StoreInv', Holds', Aged, NEW w \in Writers,
           \/ \E s \in Sessions, r \in Runs : PgBegin(w, s, r)
           \/ PgRefuse(w) \/ PgMark(w) \/ PgNumber(w) \/ PgCommit(w) \/ PgAbort(w)
    PROVE  Aged'
  <1>1. UNCHANGED TxVars /\ (table' = table \/ backend = "postgres")
    <2>1. CASE PgCommit(w)
      <3>1. tx[w].stage = "numbered"
        BY <2>1 DEF PgCommit
      <3>2. backend = "postgres"
        BY <3>1 DEF StoreInv, PgLocked
      <3> QED
        BY <2>1, <3>2 DEF PgCommit
    <2> QED
      BY <2>1 DEF PgBegin, PgRefuse, PgMark, PgNumber, PgAbort
  <1>2. \A v \in Writers : tx'[v].next \in Nat
    <2>1. tx \in [Writers -> TxRecord({tx[v].next : v \in Writers})]
      BY DEF StoreInv, PgLocked
    <2>2. \A v \in Writers : tx[v].next \in Nat
      BY DEF Aged, Ages
    <2>3. CASE PgNumber(w)
      <3>1. backend = "postgres" /\ backend' = "postgres"
        BY <2>3 DEF StoreInv, PgLocked, PgNumber, TxVars
      <3>2. tx'[w].stage = "numbered" /\ \A v \in Writers \ {w} : tx'[v] = tx[v]
        BY <2>1, <2>3 DEF PgNumber, TxRecord
      <3>3. tx'[w].session \in Sessions /\ log' \in [Sessions -> Seq(Runs)]
        BY <3>2 DEF StoreInv, PgLocked, Logs
      <3>4. tx'[w].next = 2 * Len(log'[tx'[w].session]) + 1
        BY <3>1, <3>2 DEF Holds, PgKeeps
      <3>5. Len(log'[tx'[w].session]) \in Nat
        BY <3>3, LenProperties
      <3>6. tx'[w].next \in Nat
        BY <3>4, <3>5
      <3> QED
        BY <2>2, <3>2, <3>6
    <2>4. CASE PgMark(w)
      <3>1. \A v \in Writers : tx'[v].next = tx[v].next
        BY <2>1, <2>4 DEF PgMark, TxRecord
      <3> QED
        BY <2>2, <3>1
    <2>5. CASE ~PgNumber(w) /\ ~PgMark(w)
      <3>1. /\ tx'[w].next = 0
            /\ \A v \in Writers \ {w} : tx'[v] = tx[v]
        BY <2>1, <2>5 DEF PgBegin, PgRefuse, PgCommit, PgAbort, Idle
      <3> QED
        BY <2>2, <3>1
    <2> QED
      BY <2>3, <2>4, <2>5
  <1> QED
    BY <1>1, <1>2 DEF Aged, Ages, OldestFirst, TxVars

\* Every step keeps the ages and their order.
LEMMA AgedStep ==
    StoreInv /\ StoreInv' /\ Holds /\ Holds' /\ Aged /\ [StoreNext]_storeVars => Aged'
  <1> SUFFICES ASSUME StoreInv, StoreInv', Holds, Holds', Aged, [StoreNext]_storeVars PROVE Aged'
    OBVIOUS
  <1>1. ASSUME \/ MemoryTick \/ MemoryPurge
               \/ \E C : MemoryClear(C)
               \/ \E s \in Sessions : MemoryGet(s)
               \/ \E s \in Sessions, r \in Runs : MemoryAppendTurn(s, r)
        PROVE  Aged'
    BY <1>1, MemoryAges
  <1>2. ASSUME \/ RedisTick
               \/ \E s \in Sessions : RedisClear(s)
               \/ \E s \in Sessions, r \in Runs : RedisRefuse(s, r) \/ RedisAppendTurn(s, r)
        PROVE  Aged'
    BY <1>2, RedisAges
  <1>3. ASSUME NEW w \in Writers,
               \/ \E s \in Sessions, r \in Runs : PgBegin(w, s, r)
               \/ PgRefuse(w) \/ PgMark(w) \/ PgNumber(w) \/ PgCommit(w) \/ PgAbort(w)
        PROVE  Aged'
    BY <1>3, PgAges
  <1>4. ASSUME NEW s \in Sessions, PgClear(s) PROVE Aged'
    BY <1>4 DEF PgClear, TxVars, Aged, Ages, OldestFirst
  <1>5. ASSUME UNCHANGED storeVars \/ \E s \in Sessions, r \in Runs : RedisMarkerExpires(s, r)
        PROVE  Aged'
    <2>1. UNCHANGED <<backend, list, lru, idle, marked, table, tx>>
      BY <1>5 DEF storeVars, RedisMarkerExpires
    <2> QED
      BY <2>1 DEF Aged, Ages, OldestFirst
  <1> HIDE DEF Aged
  <1>6. (\E C : MemoryClear(C)) => Aged'
    BY <1>1
  <1>7. MemoryClear(Sessions) => Aged'
    BY <1>6
  <1>8. \A s \in Sessions : MemoryClear({s}) => Aged'
    BY <1>6
  <1>9. StoreNext => Aged'
    BY <1>1, <1>2, <1>3, <1>4, <1>5, <1>7, <1>8, Zenon DEF StoreNext
  <1> QED
    BY <1>5, <1>9

\* The ages and their order are invariant.
LEMMA AgedInvariant == StoreSpec => [](StoreInv /\ Holds /\ Aged)
  <1>1. StoreInit => Aged
    <2> SUFFICES ASSUME StoreInit PROVE Aged
      OBVIOUS
    <2>1. Ages
      BY StoresAssumption DEF StoreInit, Ages, Idle
    <2>2. OldestFirst
      BY DEF StoreInit, OldestFirst
    <2> QED
      BY <2>1, <2>2 DEF Aged
  <1> QED
    BY <1>1, AgedStep, HoldsInvariant, PTL DEF StoreSpec

\* A turn takes a conversation out of the memory store only if no conversation
\* that it leaves there has waited longer.
OldestLeave ==
    \A s \in Sessions, r \in Runs :
        MemoryAppendTurn(s, r) =>
            \A t \in Range(lru) \ Range(lru') : \A u \in (Range(lru) \cap Range(lru')) \ {s} :
                idle[u] <= idle[t]

\* The memory store evicts and purges from the oldest conversation on: the order
\* of the keys of _data, which append_turn pops from the front, is the order of
\* the timestamps, although get, append_turn, purges, clears and the passing of
\* time change the one and the other separately.
THEOREM OldestLeaveFirst == StoreSpec => [][OldestLeave]_storeVars
  <1>1. StoreInv /\ Holds /\ Aged => OldestLeave
    <2> SUFFICES ASSUME StoreInv, Holds, Aged,
                        NEW s \in Sessions, NEW r \in Runs, MemoryAppendTurn(s, r),
                        NEW t \in Range(lru) \ Range(lru'),
                        NEW u \in (Range(lru) \cap Range(lru')) \ {s}
                 PROVE  idle[u] <= idle[t]
      BY DEF OldestLeave
    <2> DEFINE p == Without(lru, Expired \cup {s})
               order == Append(p, s)
    <2>1. backend = "memory"
      BY DEF MemoryAppendTurn
    <2>2. JoinsAndCuts(s, p)
      BY TurnInOrder
    <2>3. /\ p \in Seq(Sessions) /\ Len(p) \in Nat
          /\ \A i, j \in 1..Len(p) : p[i] = p[j] => i = j
          /\ Range(p) = Range(lru) \ (Expired \cup {s})
      BY <2>1, OrderLoses
    <2>4. Falls(idle, p)
      BY <2>1, OrderAges DEF Aged
    <2> HIDE DEF p
    <2>5. s \notin Range(p)
      BY <2>3
    <2>6. /\ Len(order) = Len(p) + 1 /\ order[Len(p) + 1] = s /\ Range(order) = Range(p) \cup {s}
      BY <2>3, <2>5, LastInOrder
    <2>7. \A i \in 1..Len(p) : order[i] = p[i]
      BY <2>3, AppendProperties
    <2>8. PICK n \in Nat : n <= Len(p) /\ Cut(lru', order, n, Sessions)
      BY <2>2 DEF JoinsAndCuts
    <2> HIDE DEF order
    <2>9. \A x : x \in Range(lru') <=> x \in Range(order) /\ \A i \in 1..n : order[i] # x
      BY <2>8, CutInOrder
    <2>10. \A i \in 1..n : order[i] = p[i]
      BY <2>3, <2>7, <2>8
    <2>11. u \in Range(p) /\ \A i \in 1..n : p[i] # u
      BY <2>6, <2>9, <2>10
    <2>12. lru \in Seq(Sessions) /\ DOMAIN lru = 1..Len(lru)
      BY <2>1, LenProperties DEF Holds, MemoryKeeps
    <2>13. t \in Sessions /\ u \in Sessions
      BY <2>12, ElementOfSeq DEF Range
    <2>14. idle[t] \in Nat /\ idle[u] \in Nat /\ Ttl \in Nat
      BY <2>13, StoresAssumption DEF Aged, Ages
    <2>15. CASE t \in Expired
      <3>1. u \notin Expired
        BY <2>3, <2>11
      <3>2. idle[t] > Ttl /\ ~(idle[u] > Ttl)
        BY <2>15, <3>1 DEF Expired
      <3> QED
        BY <2>14, <3>2
    <2>16. CASE t \notin Expired
      <3>1. s \in Range(order) /\ \A i \in 1..n : p[i] # s
        <4>1. DOMAIN p = 1..Len(p)
          BY <2>3, LenProperties
        <4>2. \A i \in 1..Len(p) : p[i] \in Range(p)
          BY <4>1 DEF Range
        <4>3. \A i \in 1..n : i \in 1..Len(p)
          BY <2>3, <2>8
        <4> QED
          BY <2>5, <2>6, <4>2, <4>3
      <3>2. s \in Range(lru')
        BY <2>9, <2>10, <3>1
      <3>3. t \in Range(p)
        BY <2>3, <2>16, <3>2
      <3>4. PICK k \in 1..n : p[k] = t
        BY <2>6, <2>9, <2>10, <3>3
      <3>5. DOMAIN p = 1..Len(p)
        BY <2>3, LenProperties
      <3>6. PICK l \in 1..Len(p) : p[l] = u
        BY <2>11, <3>5 DEF Range
      <3>7. l \notin 1..n
        BY <2>11, <3>6
      <3>8. k \in 1..Len(p) /\ k < l
        BY <2>3, <2>8, <3>7
      <3> QED
        BY <2>4, <3>4, <3>6, <3>8 DEF Falls
    <2> QED
      BY <2>15, <2>16
  <1> QED
    BY <1>1, AgedInvariant, PTL DEF StoreSpec

\* Every store keeps its state well formed for every number of sessions, runs
\* and writers: lists and orders of the right elements, ages that are purged or
\* deleted before they pass the time to live by more than a tick, and rows and
\* transactions numbered by natural numbers.
THEOREM StoresWellTyped == StoreSpec => []StoreTypeOK
  <1>1. StoreInv /\ Holds /\ Aged => StoreTypeOK
    <2> SUFFICES ASSUME StoreInv, Holds, Aged PROVE StoreTypeOK
      OBVIOUS
    <2>1. /\ backend \in Backends
          /\ idle \in [Sessions -> 0..Ttl + 1] /\ marked \in [Sessions -> 0..Ttl]
          /\ committed \in [Sessions -> SUBSET Runs] /\ legacy \in [Sessions -> SUBSET Runs]
          /\ log \in [Sessions -> Seq(Runs)]
      BY DEF Aged, Ages, StoreInv, Logs
    <2>2. lru \in Seq(Sessions)
      <3>1. CASE backend = "memory"
        BY <3>1 DEF Holds, MemoryKeeps
      <3>2. CASE backend # "memory"
        BY <3>2 DEF Aged, Ages
      <3> QED
        BY <3>1, <3>2
    <2>3. \A s \in Sessions : /\ Messages(log[s]) \in Seq(Message)
                              /\ Len(Messages(log[s])) = 2 * Len(log[s])
                              /\ Len(log[s]) \in Nat
      BY <2>1, MessagesAre, LenProperties
    <2>4. list \in [Sessions -> Seq(Message)]
      <3>1. CASE backend = "postgres"
        <4>1. list = [s \in Sessions |-> <<>>]
          BY <3>1 DEF Aged, Ages
        <4>2. <<>> \in Seq(Message)
          OBVIOUS
        <4> QED
          BY <4>1, <4>2, Zenon
      <3>2. CASE backend # "postgres"
        <4>1. \A s \in Sessions : LastN(Messages(log[s]), MaxMessages) \in Seq(Message)
          <5> SUFFICES ASSUME NEW s \in Sessions
                       PROVE  LastN(Messages(log[s]), MaxMessages) \in Seq(Message)
            OBVIOUS
          <5> DEFINE m == Messages(log[s])
          <5>1. m \in Seq(Message)
            BY <2>3
          <5> HIDE DEF m
          <5>2. LastN(m, MaxMessages) \in Seq(Message)
            BY <5>1, WindowIs
          <5> QED
            BY <5>2 DEF m
        <4> QED
          BY <3>2, <4>1 DEF Holds, ListKeeps
      <3> QED
        BY <3>1, <3>2
    <2>5. table \in [Sessions -> SUBSET Row]
      <3>1. CASE backend # "postgres"
        BY <3>1 DEF Aged, Ages
      <3>2. CASE backend = "postgres"
        <4>1. ASSUME NEW s \in Sessions
              PROVE  RowsOf(Messages(log[s]), From(2 * Len(log[s])), 2 * Len(log[s])) \in SUBSET Row
          <5> DEFINE m == Messages(log[s])
                     n == 2 * Len(log[s])
          <5>1. m \in Seq(Message) /\ n \in Nat /\ Len(m) = n
            BY <2>3
          <5> HIDE DEF m, n
          <5>2. From(n) \in Nat \ {0}
            BY <5>1, StoresAssumption DEF From
          <5>3. \A i \in From(n)..n : i \in 1..Len(m) /\ i \in Nat \ {0}
            BY <5>1, <5>2
          <5>4. \A i \in From(n)..n : m[i] \in Message
            BY <5>1, <5>3, ElementOfSeq
          <5>5. RowsOf(m, From(n), n) \in SUBSET Row
            BY <5>3, <5>4 DEF RowsOf, Row
          <5> QED
            BY <5>5 DEF m, n
        <4> QED
          BY <3>2, <4>1 DEF Holds, PgKeeps
      <3> QED
        BY <3>1, <3>2
    <2>6. tx \in [Writers -> TxRecord(Nat)]
      <3>1. tx \in [Writers -> TxRecord({tx[w].next : w \in Writers})]
        BY DEF StoreInv, PgLocked
      <3>2. \A w \in Writers : tx[w].next \in Nat
        BY DEF Aged, Ages
      <3> QED
        BY <3>1, <3>2 DEF TxRecord
    <2> QED
      BY <2>1, <2>2, <2>4, <2>5, <2>6 DEF StoreTypeOK, TxRecord
  <1> QED
    BY <1>1, AgedInvariant, PTL
=============================================================================
