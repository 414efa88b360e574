-------------------------- MODULE ConversationStores --------------------------
(***************************************************************************)
(* The three conversation stores (app/state/in_memory.py, redis.py and     *)
(* postgres.py) behind one interface.  Each bounds what it keeps in a way  *)
(* of its own - a window of max_messages, a time to live, an LRU of        *)
(* sessions - and each remembers the committed runs in a place of its own, *)
(* so that a run whose append_turn is repeated adds its turn once.         *)
(*                                                                         *)
(* The memory store never awaits under its lock and the Redis store runs   *)
(* one Lua script, so their append_turn is one step.  The PostgreSQL store *)
(* runs a transaction of several statements, which transactions of other   *)
(* processes interleave with; aborting it is losing the connection, an     *)
(* error, a cancellation or a crash at any statement.                      *)
(*                                                                         *)
(* Times are ages, so no clock is needed: idle counts since the memory     *)
(* store's timestamp or the EXPIRE of the Redis list, marked since the     *)
(* EXPIRE of the Redis set of runs.                                        *)
(***************************************************************************)
EXTENDS Naturals, Sequences, FiniteSets, SequencesExt

CONSTANTS
    Sessions, Runs,
    Writers,      \* processes that append to the PostgreSQL store
    Backends,     \* conversation backends to start with
    MaxMessages,  \* state_max_messages
    MaxSessions,  \* state_max_sessions
    Ttl,          \* state_ttl_seconds, in ticks
    None

ASSUME StoresAssumption ==
    /\ MaxMessages \in Nat \ {0} /\ MaxSessions \in Nat \ {0} /\ Ttl \in Nat \ {0}
    /\ Backends \subseteq {"memory", "redis", "postgres"}
    /\ None \notin Sessions

VARIABLES
    backend,
    list,       \* messages of each conversation (memory, Redis)
    lru,        \* keys of _data, least recently used first (memory)
    idle,       \* age of the conversation's timestamp or expiry
    marked,     \* age of the expiry of the set of runs (Redis)
    committed,  \* runs in _committed_runs, in the turns key, in turn_commits
    legacy,     \* runs with a marker key of their own, from an earlier release (Redis)
    table,      \* rows of app_conversation_messages (PostgreSQL)
    tx,         \* append_turn transactions under way (PostgreSQL)
    log         \* ghost: the turns appended since the conversation was last lost

storeVars == <<backend, list, lru, idle, marked, committed, legacy, table, tx, log>>

Message == [run : Runs, kind : {"user", "assistant"}]
Row == [seq : Nat \ {0}, msg : Message]
Idle == [stage |-> "idle", session |-> None, run |-> None, next |-> 0]

StoreTypeOK ==
    /\ backend \in Backends
    /\ list \in [Sessions -> Seq(Message)]
    /\ lru \in Seq(Sessions)
    /\ idle \in [Sessions -> 0..Ttl + 1]
    /\ marked \in [Sessions -> 0..Ttl]
    /\ committed \in [Sessions -> SUBSET Runs]
    /\ legacy \in [Sessions -> SUBSET Runs]
    /\ table \in [Sessions -> SUBSET Row]
    /\ tx \in [Writers -> [stage : {"idle", "locked", "marked", "numbered"},
                           session : Sessions \cup {None}, run : Runs \cup {None},
                           next : Nat]]
    /\ log \in [Sessions -> Seq(Runs)]

\* A store opened for the first time by this release: Redis may still hold run
\* markers of the release before, whose messages have expired.
StoreInit ==
    /\ backend \in Backends
    /\ list = [s \in Sessions |-> <<>>]
    /\ lru = <<>>
    /\ idle = [s \in Sessions |-> 0]
    /\ marked = [s \in Sessions |-> 0]
    /\ committed = [s \in Sessions |-> {}]
    /\ \/ legacy = [s \in Sessions |-> {}]
       \/ /\ backend = "redis"
          /\ \E s \in Sessions, r \in Runs : legacy = [t \in Sessions |-> IF t = s THEN {r} ELSE {}]
    /\ table = [s \in Sessions |-> {}]
    /\ tx = [w \in Writers |-> Idle]
    /\ log = [s \in Sessions |-> <<>>]

-----------------------------------------------------------------------------
(* What a reader sees *)

Turn(r) == <<[run |-> r, kind |-> "user"], [run |-> r, kind |-> "assistant"]>>

\* The last n elements of q, all of them if there are fewer.
LastN(q, n) == SubSeq(q, IF Len(q) > n THEN Len(q) - n + 1 ELSE 1, Len(q))

\* The numbers of the finite set K in ascending order.
Ascending(K) ==
    [k \in 1..Cardinality(K) |-> CHOOSE i \in K : Cardinality({j \in K : j <= i}) = k]

\* The sequence q without the elements of C, the others in their order.
Without(q, C) ==
    LET kept == Ascending({i \in DOMAIN q : q[i] \notin C})
    IN  [k \in DOMAIN kept |-> q[kept[k]]]

\* The MaxMessages rows with the highest numbers.
Newest(rows) == {x \in rows : Cardinality({y \in rows : y.seq > x.seq}) < MaxMessages}

\* get: the window of conversation s in chronological order.
Visible(s) ==
    IF backend = "postgres"
    THEN LET numbers == Ascending({x.seq : x \in Newest(table[s])})
         IN  [k \in DOMAIN numbers |-> (CHOOSE x \in table[s] : x.seq = numbers[k]).msg]
    ELSE LastN(list[s], MaxMessages)

\* F with the value v at the points of S.
Reset(f, S, v) == [s \in Sessions |-> IF s \in S THEN v ELSE f[s]]

-----------------------------------------------------------------------------
(* BoundedInMemoryStore *)

\* _purge: the sessions whose timestamp is older than the time to live.
Expired == {s \in Range(lru) : idle[s] > Ttl}

\* Mutant of MemoryDrops: the committed runs of the sessions stay.
MemoryDropsMessages(C) ==
    /\ backend = "memory"
    /\ list' = Reset(list, C, <<>>)
    /\ log' = Reset(log, C, <<>>)
    /\ UNCHANGED <<backend, marked, committed, legacy, table, tx>>

\* Sessions C leave _data and _committed_runs together.
MemoryDrops(C) ==
    /\ backend = "memory"
    /\ list' = Reset(list, C, <<>>)
    /\ committed' = Reset(committed, C, {})
    /\ log' = Reset(log, C, <<>>)
    /\ UNCHANGED <<backend, marked, legacy, table, tx>>

\* health, a get of an unknown conversation and the append_turn of a committed
\* run only purge.
MemoryPurge ==
    /\ MemoryDrops(Expired)
    /\ lru' = Without(lru, Expired)
    /\ idle' = Reset(idle, Expired, 0)

\* get of a known conversation refreshes its timestamp and LRU place.
MemoryGet(s) ==
    /\ s \in Range(lru) \ Expired
    /\ MemoryDrops(Expired)
    /\ lru' = Append(Without(lru, Expired \cup {s}), s)
    /\ idle' = Reset(idle, Expired \cup {s}, 0)

\* clear of one conversation, and of all of them; the end of the process.
MemoryClear(C) ==
    /\ MemoryDrops(C)
    /\ lru' = Without(lru, C)
    /\ idle' = Reset(idle, C, 0)

\* append_turn of a run that is not committed after the purge: the turn is
\* appended, the window cut, the session made the most recent one, and the
\* least recent ones evicted.
MemoryAppendTurn(s, r) ==
    LET order == Append(Without(lru, Expired \cup {s}), s)
        over == IF Len(order) > MaxSessions THEN Len(order) - MaxSessions ELSE 0
        lost == Expired \cup {order[i] : i \in 1..over}
        purged(f, v) == Reset(f, Expired, v)[s]
    IN  /\ backend = "memory"
        /\ r \notin purged(committed, {})
        /\ list' = [Reset(list, lost, <<>>) EXCEPT
                        ![s] = LastN(purged(list, <<>>) \o Turn(r), MaxMessages)]
        /\ committed' = [Reset(committed, lost, {}) EXCEPT ![s] = purged(committed, {}) \cup {r}]
        /\ log' = [Reset(log, lost, <<>>) EXCEPT ![s] = Append(purged(log, <<>>), r)]
        /\ lru' = SubSeq(order, over + 1, Len(order))
        /\ idle' = Reset(idle, lost \cup {s}, 0)
        /\ UNCHANGED <<backend, marked, legacy, table, tx>>

-----------------------------------------------------------------------------
(* RedisConversationStore *)

\* _APPEND_TURN_SCRIPT for a run it knows: the set of runs is kept alive, the
\* list is not.
RedisRefuse(s, r) ==
    /\ backend = "redis"
    /\ r \in committed[s] \cup legacy[s]
    /\ committed' = [committed EXCEPT ![s] = @ \cup {r}]
    /\ marked' = [marked EXCEPT ![s] = 0]
    /\ UNCHANGED <<backend, list, lru, idle, legacy, table, tx, log>>

\* Mutant of RedisAppendTurn: it looks for the run in the visible window.
RedisAppendTurnUnseen(s, r) ==
    /\ backend = "redis"
    /\ r \notin legacy[s] /\ \A i \in DOMAIN list[s] : list[s][i].run # r
    /\ committed' = [committed EXCEPT ![s] = @ \cup {r}]
    /\ marked' = [marked EXCEPT ![s] = 0]
    /\ list' = [list EXCEPT ![s] = LastN(@ \o Turn(r), MaxMessages)]
    /\ idle' = [idle EXCEPT ![s] = 0]
    /\ log' = [log EXCEPT ![s] = Append(@, r)]
    /\ UNCHANGED <<backend, lru, legacy, table, tx>>

\* _APPEND_TURN_SCRIPT for a new run.
RedisAppendTurn(s, r) ==
    /\ backend = "redis"
    /\ r \notin committed[s] \cup legacy[s]
    /\ committed' = [committed EXCEPT ![s] = @ \cup {r}]
    /\ marked' = [marked EXCEPT ![s] = 0]
    /\ list' = [list EXCEPT ![s] = LastN(@ \o Turn(r), MaxMessages)]
    /\ idle' = [idle EXCEPT ![s] = 0]
    /\ log' = [log EXCEPT ![s] = Append(@, r)]
    /\ UNCHANGED <<backend, lru, legacy, table, tx>>

\* clear: the keys of the markers are read first and deleted with the list and
\* the set.  Markers only ever disappear, so none escapes in between.
RedisClear(s) ==
    /\ backend = "redis"
    /\ list' = [list EXCEPT ![s] = <<>>]
    /\ committed' = [committed EXCEPT ![s] = {}]
    /\ legacy' = [legacy EXCEPT ![s] = {}]
    /\ idle' = [idle EXCEPT ![s] = 0]
    /\ marked' = [marked EXCEPT ![s] = 0]
    /\ log' = [log EXCEPT ![s] = <<>>]
    /\ UNCHANGED <<backend, lru, table, tx>>

\* A marker of the earlier release reaches its own expiry.
RedisMarkerExpires(s, r) ==
    /\ r \in legacy[s]
    /\ legacy' = [legacy EXCEPT ![s] = @ \ {r}]
    /\ UNCHANGED <<backend, list, lru, idle, marked, committed, table, tx, log>>

-----------------------------------------------------------------------------
(* PostgreSQLConversationStore *)

TxVars == <<backend, list, lru, idle, marked, legacy>>

\* Mutant of PgBegin: no advisory lock.
PgBeginUnlocked(w, s, r) ==
    /\ backend = "postgres"
    /\ tx[w] = Idle
    /\ tx' = [tx EXCEPT ![w] = [stage |-> "locked", session |-> s, run |-> r, next |-> 0]]
    /\ UNCHANGED TxVars /\ UNCHANGED <<committed, table, log>>

\* The transaction begins and takes the advisory lock of the conversation, which
\* it holds to its end.
PgBegin(w, s, r) ==
    /\ backend = "postgres"
    /\ tx[w] = Idle
    /\ \A v \in Writers : tx[v].session # s
    /\ tx' = [tx EXCEPT ![w] = [stage |-> "locked", session |-> s, run |-> r, next |-> 0]]
    /\ UNCHANGED TxVars /\ UNCHANGED <<committed, table, log>>

\* INSERT INTO turn_commits ... ON CONFLICT DO NOTHING finds the run: append_turn
\* answers False.
PgRefuse(w) ==
    /\ tx[w].stage = "locked"
    /\ tx[w].run \in committed[tx[w].session]
    /\ tx' = [tx EXCEPT ![w] = Idle]
    /\ UNCHANGED TxVars /\ UNCHANGED <<committed, table, log>>

\* The INSERT adds the run, unless another open transaction has inserted the
\* same key: then it waits for that one.
PgMark(w) ==
    /\ tx[w].stage = "locked"
    /\ tx[w].run \notin committed[tx[w].session]
    /\ \A v \in Writers \ {w} : ~ /\ tx[v].stage \in {"marked", "numbered"}
                                  /\ tx[v].session = tx[w].session
                                  /\ tx[v].run = tx[w].run
    /\ tx' = [tx EXCEPT ![w].stage = "marked"]
    /\ UNCHANGED TxVars /\ UNCHANGED <<committed, table, log>>

\* _next_sequence: one more than the highest number among the committed rows.
PgNumber(w) ==
    LET taken == {x.seq : x \in table[tx[w].session]}
    IN  /\ tx[w].stage = "marked"
        /\ tx' = [tx EXCEPT ![w].stage = "numbered",
                            ![w].next = 1 + (CHOOSE m \in taken \cup {0} :
                                                \A n \in taken : n <= m)]
        /\ UNCHANGED TxVars /\ UNCHANGED <<committed, table, log>>

\* The rows are inserted, those whose number is taken silently left out, the
\* table is trimmed and the transaction commits.
PgCommit(w) ==
    LET s == tx[w].session
        turn == Turn(tx[w].run)
        new == {[seq |-> tx[w].next + i - 1, msg |-> turn[i]] : i \in DOMAIN turn}
        free == {x \in new : \A y \in table[s] : y.seq # x.seq}
    IN  /\ tx[w].stage = "numbered"
        /\ committed' = [committed EXCEPT ![s] = @ \cup {tx[w].run}]
        /\ table' = [table EXCEPT ![s] = Newest(@ \cup free)]
        /\ log' = [log EXCEPT ![s] = Append(@, tx[w].run)]
        /\ tx' = [tx EXCEPT ![w] = Idle]
        /\ UNCHANGED TxVars

\* The transaction is rolled back at any statement.
PgAbort(w) ==
    /\ tx[w] # Idle
    /\ tx' = [tx EXCEPT ![w] = Idle]
    /\ UNCHANGED TxVars /\ UNCHANGED <<committed, table, log>>

\* Mutant of PgClear: only the commits are deleted.
PgClearCommits(s) ==
    /\ backend = "postgres"
    /\ \A v \in Writers : tx[v].session # s
    /\ committed' = [committed EXCEPT ![s] = {}]
    /\ UNCHANGED TxVars /\ UNCHANGED <<table, tx, log>>

\* clear deletes the messages and the commits under the same lock.
PgClear(s) ==
    /\ backend = "postgres"
    /\ \A v \in Writers : tx[v].session # s
    /\ table' = [table EXCEPT ![s] = {}]
    /\ committed' = [committed EXCEPT ![s] = {}]
    /\ log' = [log EXCEPT ![s] = <<>>]
    /\ UNCHANGED TxVars /\ UNCHANGED tx

-----------------------------------------------------------------------------
(* Time, and the specification *)

\* The ages of the sessions of _data grow; they are purged by a later call.
MemoryTick ==
    /\ backend = "memory"
    /\ idle' = [s \in Sessions |-> IF s \in Range(lru) /\ idle[s] <= Ttl
                                   THEN idle[s] + 1 ELSE idle[s]]
    /\ UNCHANGED <<backend, list, lru, marked, committed, legacy, table, tx, log>>

\* Redis deletes a key when its time is up.
RedisTick ==
    LET gone == {s \in Sessions : list[s] # <<>> /\ idle[s] + 1 >= Ttl}
        unmarked == {s \in Sessions : committed[s] # {} /\ marked[s] + 1 >= Ttl}
    IN  /\ backend = "redis"
        /\ list' = Reset(list, gone, <<>>)
        /\ log' = Reset(log, gone, <<>>)
        /\ committed' = Reset(committed, unmarked, {})
        /\ idle' = [s \in Sessions |-> IF list'[s] = <<>> THEN 0 ELSE idle[s] + 1]
        /\ marked' = [s \in Sessions |-> IF committed'[s] = {} THEN 0 ELSE marked[s] + 1]
        /\ UNCHANGED <<backend, lru, legacy, table, tx>>

StoreNext ==
    \/ MemoryPurge \/ MemoryTick \/ RedisTick
    \/ MemoryClear(Sessions)
    \/ \E s \in Sessions :
           \/ MemoryGet(s) \/ MemoryClear({s}) \/ RedisClear(s) \/ PgClear(s)
           \/ \E r \in Runs :
                  \/ MemoryAppendTurn(s, r)
                  \/ RedisRefuse(s, r) \/ RedisAppendTurn(s, r) \/ RedisMarkerExpires(s, r)
                  \/ \E w \in Writers : PgBegin(w, s, r)
    \/ \E w \in Writers :
           PgRefuse(w) \/ PgMark(w) \/ PgNumber(w) \/ PgCommit(w) \/ PgAbort(w)

StoreSpec == StoreInit /\ [][StoreNext]_storeVars

-----------------------------------------------------------------------------
(* Properties *)

\* The messages of the turns of q, two of each.
Messages(q) == [i \in 1..2 * Len(q) |-> Turn(q[(i + 1) \div 2])[IF i % 2 = 1 THEN 1 ELSE 2]]

\* A reader sees the newest messages of the turns that were committed, in the
\* order in which they were committed and with nothing missing in between
\* (base.py:24 "conversation messages in chronological order"), whatever the
\* store trims and however the transactions interleave.
WindowIsLatest ==
    \A s \in Sessions : Visible(s) = LastN(Messages(log[s]), MaxMessages)

\* While a conversation lives, no run has its turn in it twice, also when the
\* first copy has been trimmed from the window (README.md:186 "independently of
\* the bounded visible history window", test_history_idempotency.py:9).
NoTurnTwice ==
    \A s \in Sessions : \A i, j \in DOMAIN log[s] : log[s][i] = log[s][j] => i = j

\* The memory store keeps at most MaxSessions conversations, and run markers only
\* for conversations it keeps: evicting and purging forget both together.
MemoryIsBounded ==
    backend = "memory" =>
        /\ Len(lru) <= MaxSessions
        /\ \A i, j \in DOMAIN lru : lru[i] = lru[j] => i = j
        /\ \A s \in Sessions : s \in Range(lru) <=> list[s] # <<>>
        /\ \A s \in Sessions : committed[s] # {} <=> list[s] # <<>>

\* Every store implements TurnLog: a conversation is lost as a whole or not at
\* all, and a commit is forgotten only after the turn.
Turns == INSTANCE TurnLog WITH done <- [s \in Sessions |-> committed[s] \cup legacy[s]]
ImplementsTurnLog == Turns!LogSpec
=============================================================================
