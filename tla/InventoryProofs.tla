---------------------------- MODULE InventoryProofs ----------------------------
(***************************************************************************)
(* Proofs about Inventory for any number of concurrent loads and any times *)
(* to live and time-outs: one load at a time refreshes, what a load        *)
(* returns is not older than the two caches allow, and no list is lost in  *)
(* silence.                                                                *)
(***************************************************************************)
EXTENDS Inventory, SequenceTheorems, TLAPS

-----------------------------------------------------------------------------
(* Queues *)

\* q lines up the elements of S, each of them once.
LinesUp(q, S) ==
    /\ q \in Seq(S)
    /\ \A t \in S : \E i \in 1..Len(q) : q[i] = t
    /\ \A i, j \in 1..Len(q) : q[i] = q[j] => i = j

\* A sequence is one over any set that its elements are in.
LEMMA SeqOver ==
    ASSUME NEW S, NEW T, NEW q \in Seq(S), \A i \in 1..Len(q) : q[i] \in T
    PROVE  q \in Seq(T)
  <1>1. Len(q) \in Nat /\ q \in [1..Len(q) -> S]
    BY LenProperties
  <1>2. q \in [1..Len(q) -> T]
    BY <1>1
  <1> QED
    BY <1>1, <1>2, SeqDef

\* A line is empty when there is nobody to line up.
LEMMA LineEmpty ==
    ASSUME NEW S, NEW q, LinesUp(q, S)
    PROVE  q = <<>> <=> S = {}
  <1>1. q \in Seq(S)
    BY DEF LinesUp
  <1>2. CASE q = <<>>
    BY <1>2 DEF LinesUp
  <1>3. CASE q # <<>>
    <2>1. Head(q) \in S
      BY <1>1, <1>3
    <2> QED
      BY <1>3, <2>1
  <1> QED
    BY <1>2, <1>3

\* Somebody joins the line.
LEMMA LineAppend ==
    ASSUME NEW S, NEW q, LinesUp(q, S), NEW t, t \notin S
    PROVE  LinesUp(Append(q, t), S \cup {t})
  <1>1. q \in Seq(S)
    BY DEF LinesUp
  <1>2. q \in Seq(S \cup {t}) /\ \A i \in 1..Len(q) : q[i] \in S
    BY <1>1
  <1> DEFINE r == Append(q, t)
  <1>3. /\ r \in Seq(S \cup {t}) /\ Len(r) = Len(q) + 1 /\ r[Len(q) + 1] = t
        /\ \A i \in 1..Len(q) : r[i] = q[i]
    BY <1>2
  <1> HIDE DEF r
  <1>4. Len(q) \in Nat
    BY <1>1
  <1>5. ASSUME NEW u \in S \cup {t} PROVE \E i \in 1..Len(r) : r[i] = u
    <2>1. CASE u = t
      <3>1. Len(q) + 1 \in 1..Len(r)
        BY <1>3, <1>4
      <3> QED
        BY <1>3, <2>1, <3>1
    <2>2. CASE u \in S
      <3>1. PICK i \in 1..Len(q) : q[i] = u
        BY <2>2 DEF LinesUp
      <3>2. i \in 1..Len(r) /\ r[i] = u
        BY <1>3, <1>4, <3>1
      <3> QED
        BY <3>2
    <2> QED
      BY <2>1, <2>2
  <1>6. ASSUME NEW i \in 1..Len(r), NEW j \in 1..Len(r), r[i] = r[j] PROVE i = j
    <2>1. (i \in 1..Len(q) \/ i = Len(q) + 1) /\ (j \in 1..Len(q) \/ j = Len(q) + 1)
      BY <1>3, <1>4
    <2> QED
      BY <1>2, <1>3, <1>6, <2>1 DEF LinesUp
  <1> QED
    BY <1>3, <1>5, <1>6 DEF LinesUp, r

\* Somebody leaves the line, from any place; the first one stays the first.
LEMMA LineRemove ==
    ASSUME NEW S, NEW q, LinesUp(q, S), NEW t \in S
    PROVE  LET r == RemoveAt(q, CHOOSE i \in DOMAIN q : q[i] = t)
           IN  /\ LinesUp(r, S \ {t})
               /\ Head(q) # t => r # <<>> /\ Head(r) = Head(q)
  <1>1. q \in Seq(S) /\ Len(q) \in Nat /\ DOMAIN q = 1..Len(q)
    BY DEF LinesUp
  <1> DEFINE k == CHOOSE i \in DOMAIN q : q[i] = t
             r == RemoveAt(q, k)
  <1>2. k \in 1..Len(q) /\ q[k] = t
    BY <1>1 DEF LinesUp
  <1> HIDE DEF k
  <1>3. /\ r \in Seq(S) /\ Len(r) = Len(q) - 1
        /\ \A i \in 1..Len(r) : r[i] = IF i < k THEN q[i] ELSE q[i + 1]
    <2> DEFINE a == SubSeq(q, 1, k - 1)
               b == SubSeq(q, k + 1, Len(q))
    <2>1. a \in Seq(S) /\ Len(a) = k - 1 /\ \A i \in 1..k - 1 : a[i] = q[i]
      <3>1. k - 1 \in Int /\ 1 <= 1 /\ k - 1 <= Len(q)
        BY <1>1, <1>2
      <3>2. \A i \in 1..k - 1 : i \in 1..Len(q) /\ 1 + i - 1 = i
        BY <1>1, <1>2
      <3> QED
        BY <1>1, <1>2, <3>1, <3>2
    <2>2. b \in Seq(S) /\ Len(b) = Len(q) - k /\ \A i \in 1..Len(q) - k : b[i] = q[k + i]
      <3>1. k + 1 \in Int /\ Len(q) \in Int /\ \A i \in k + 1..Len(q) : q[i] \in S
        BY <1>1, <1>2
      <3>2. /\ b \in Seq(S) /\ Len(b) = IF k + 1 <= Len(q) THEN Len(q) - (k + 1) + 1 ELSE 0
            /\ \A i \in 1..Len(q) - (k + 1) + 1 : b[i] = q[(k + 1) + i - 1]
        BY <3>1, SubSeqProperties
      <3> HIDE DEF b
      <3>3. /\ (IF k + 1 <= Len(q) THEN Len(q) - (k + 1) + 1 ELSE 0) = Len(q) - k
            /\ Len(q) - (k + 1) + 1 = Len(q) - k
            /\ \A i \in 1..Len(q) - k : (k + 1) + i - 1 = k + i
        <4>1. k \in Int /\ Len(q) \in Int /\ k <= Len(q)
          BY <1>1, <1>2
        <4>2. \A m, n \in Int : m <= n =>
                 /\ (IF m + 1 <= n THEN n - (m + 1) + 1 ELSE 0) = n - m
                 /\ n - (m + 1) + 1 = n - m
                 /\ \A i \in 1..n - m : (m + 1) + i - 1 = m + i
          OBVIOUS
        <4> QED
          BY <4>1, <4>2
      <3>4. ASSUME NEW i \in 1..Len(q) - k PROVE b[i] = q[k + i]
        <4>1. i \in 1..Len(q) - (k + 1) + 1 /\ (k + 1) + i - 1 = k + i
          BY <3>3
        <4>2. b[i] = q[(k + 1) + i - 1]
          BY <3>2, <4>1
        <4> QED
          BY <4>1, <4>2
      <3>5. Len(b) = Len(q) - k
        BY <3>2, <3>3
      <3> QED
        BY <3>2, <3>4, <3>5
    <2>3. r = a \o b
      BY DEF RemoveAt
    <2> HIDE DEF a, b, r
    <2>4. Len(a) \in Nat /\ Len(b) \in Nat /\ Len(a) + Len(b) = Len(q) - 1
      BY <1>1, <1>2, <2>1, <2>2
    <2>5. /\ r \in Seq(S) /\ Len(r) = Len(a) + Len(b)
          /\ \A i \in 1..Len(a) + Len(b) : r[i] = IF i <= Len(a) THEN a[i] ELSE b[i - Len(a)]
      BY <2>1, <2>2, <2>3, ConcatProperties
    <2>6. ASSUME NEW i \in 1..Len(r) PROVE r[i] = IF i < k THEN q[i] ELSE q[i + 1]
      <3>1. CASE i < k
        <4>1. i <= Len(a) /\ i \in 1..k - 1
          BY <1>1, <1>2, <2>1, <2>4, <2>5, <3>1
        <4> QED
          BY <2>1, <2>5, <3>1, <4>1
      <3>2. CASE ~(i < k)
        <4>1. ~(i <= Len(a)) /\ i - Len(a) \in 1..Len(q) - k /\ k + (i - Len(a)) = i + 1
          BY <1>1, <1>2, <2>1, <2>4, <2>5, <3>2
        <4> QED
          BY <2>2, <2>5, <3>2, <4>1
      <3> QED
        BY <3>1, <3>2
    <2> QED
      BY <2>4, <2>5, <2>6
  <1> HIDE DEF r
  <1>4. \A i \in 1..Len(r) : (IF i < k THEN i ELSE i + 1) \in 1..Len(q) \ {k}
    BY <1>1, <1>2, <1>3
  <1>5. \A i \in 1..Len(r) : r[i] \in S \ {t}
    BY <1>1, <1>2, <1>3, <1>4 DEF LinesUp
  <1>6. r \in Seq(S \ {t})
    BY <1>3, <1>5, SeqOver
  <1>7. ASSUME NEW u \in S \ {t} PROVE \E i \in 1..Len(r) : r[i] = u
    <2>1. PICK j \in 1..Len(q) : q[j] = u
      BY DEF LinesUp
    <2>2. j # k
      BY <1>2, <2>1
    <2> DEFINE i == IF j < k THEN j ELSE j - 1
    <2>3. i \in 1..Len(r) /\ (IF i < k THEN i ELSE i + 1) = j
      BY <1>1, <1>2, <1>3, <2>2
    <2> HIDE DEF i
    <2>4. r[i] = u
      BY <1>3, <2>1, <2>3
    <2> QED
      BY <2>3, <2>4
  <1>8. ASSUME NEW i \in 1..Len(r), NEW j \in 1..Len(r), r[i] = r[j] PROVE i = j
    <2>1. (IF i < k THEN i ELSE i + 1) = (IF j < k THEN j ELSE j + 1)
      <3> DEFINE m == IF i < k THEN i ELSE i + 1
                 n == IF j < k THEN j ELSE j + 1
      <3>1. m \in 1..Len(q) /\ n \in 1..Len(q) /\ q[m] = r[i] /\ q[n] = r[j]
        BY <1>3, <1>4
      <3> HIDE DEF m, n
      <3>2. m = n
        BY <1>8, <3>1 DEF LinesUp
      <3> QED
        BY <3>2 DEF m, n
    <2>2. i \in Int /\ j \in Int /\ k \in Int
      BY <1>1, <1>2, <1>3
    <2> QED
      BY <2>1, <2>2
  <1>9. LinesUp(r, S \ {t})
    BY <1>6, <1>7, <1>8 DEF LinesUp
  <1>10. ASSUME Head(q) # t PROVE r # <<>> /\ Head(r) = Head(q)
    <2>1. Head(q) = q[1] /\ 1 \in 1..Len(q)
      BY <1>1, <1>2
    <2>2. 1 < k
      BY <1>2, <1>10, <2>1
    <2>3. 1 \in 1..Len(r) /\ r[1] = q[1]
      <3>1. 1 \in 1..Len(r)
        BY <1>1, <1>2, <1>3, <2>2
      <3> QED
        BY <1>3, <2>2, <3>1
    <2>4. r \in Seq(S) /\ Len(r) > 0
      BY <1>3, <2>3
    <2> QED
      BY <2>1, <2>3, <2>4
  <1> QED
    BY <1>9, <1>10 DEF r, k

-----------------------------------------------------------------------------
(* The inductive invariant *)

InvTypes ==
    /\ client \in [Sources -> Cached \cup {None}]
    /\ service \in [Sources -> Cached \cup {None}]
    /\ pc \in [Loads -> {"idle", "lock", "gather"}]
    /\ fetch \in [Loads -> [Sources -> Fetches]]

\* The loads that hold or wait for the lock.
Busy == {l \in Loads : pc[l] # "idle"}

\* The lock: the loads under way are lined up, and only the first one gathers.
Locked ==
    /\ LinesUp(queue, Busy)
    /\ \A l \in Loads : pc[l] = "gather" => HasLock(l)
    /\ \A l \in Loads : pc[l] # "gather" => \A s \in Sources : fetch[l][s] = NoFetch
    /\ \A l \in Loads : pc[l] = "gather" => \A s \in Sources : fetch[l][s].stage # "none"

\* A client's list is older than its place in the cache by the request that
\* brought it, the service's by the stay in the client's cache, too.
CachesAged ==
    /\ \A s \in Sources : client[s] # None => client[s].real <= client[s].at + Flight
    /\ \A s \in Sources : service[s] # None => service[s].real <= service[s].at + Ttl + Flight

\* How old a list is at most when its source is done.
Oldest(error) == IF error THEN StaleTtl + Ttl + Flight ELSE Ttl + Flight

\* How long the load of a source has taken, or can have.
Elapsed(f) == IF f.stage = "done" THEN Flight ELSE f.flight

\* A list that is under way or done: it ages while the other source is loaded.
FetchesAged ==
    \A l \in Loads, s \in Sources :
        /\ fetch[l][s].stage = "answered" =>
               fetch[l][s].list \in Ages /\ fetch[l][s].list <= fetch[l][s].flight
        /\ fetch[l][s].stage = "done" /\ fetch[l][s].list # None =>
               \A t \in Sources \ {s} :
                   fetch[l][s].list <= Oldest(fetch[l][s].error) + Elapsed(fetch[l][t])

\* A source is done without a list only after an error and when the service had
\* none to fall back to, and nobody stores one before the load returns.
LossExplained ==
    \A l \in Loads, s \in Sources :
        fetch[l][s].stage = "done" /\ fetch[l][s].list = None =>
            fetch[l][s].error /\ ~StaleUsable(service[s])

CacheInv == InvTypes /\ Locked /\ CachesAged /\ FetchesAged /\ LossExplained

-----------------------------------------------------------------------------
(* Steps that take or free the lock *)

\* The initial states.
LEMMA CacheInitially == InvInit => CacheInv
  <1> SUFFICES ASSUME InvInit PROVE CacheInv
    OBVIOUS
  <1>1. InvTypes
    BY InventoryAssumption DEF InvInit, InvTypes, Fetches, NoFetch, Sources
  <1>2. Busy = {} /\ queue = <<>> /\ \A l \in Loads, s \in Sources : pc[l] = "idle" /\ fetch[l][s] = NoFetch
    BY DEF InvInit, Busy
  <1>3. Locked
    <2>1. LinesUp(<<>>, {})
      BY DEF LinesUp
    <2>2. LinesUp(queue, Busy)
      BY <1>2, <2>1
    <2>3. \A l \in Loads : pc[l] # "gather" /\ \A s \in Sources : fetch[l][s] = NoFetch
      BY DEF InvInit
    <2> QED
      BY <2>2, <2>3 DEF Locked
  <1>4. CachesAged
    BY DEF InvInit, CachesAged
  <1>5. NoFetch.stage = "none"
    BY DEF NoFetch
  <1>6. FetchesAged /\ LossExplained
    BY <1>2, <1>5 DEF FetchesAged, LossExplained
  <1> QED
    BY <1>1, <1>3, <1>4, <1>6 DEF CacheInv

\* A step that leaves caches, lock and fetches alone.
LEMMA CacheUnchanged ==
    ASSUME CacheInv, UNCHANGED <<client, service, queue, pc, fetch>>
    PROVE  CacheInv'
  BY DEF CacheInv, InvTypes, Locked, Busy, HasLock, CachesAged, FetchesAged, LossExplained, StaleUsable

\* The fields of no fetch.
LEMMA NoFetchFacts ==
    NoFetch \in Fetches /\ NoFetch.stage = "none" /\ NoFetch.flight = 0 /\ NoFetch.list = None
    /\ NoFetch.error = FALSE
  BY InventoryAssumption DEF NoFetch, Fetches

\* The first one of the line stays the first one when somebody joins it.
LEMMA LoadMissStep ==
    ASSUME CacheInv, NEW l \in Loads, LoadMiss(l)
    PROVE  CacheInv'
  <1>1. /\ pc[l] = "idle" /\ pc' = [pc EXCEPT ![l] = "lock"] /\ queue' = Append(queue, l)
        /\ UNCHANGED <<client, service, fetch>> /\ pc \in [Loads -> {"idle", "lock", "gather"}]
        /\ LinesUp(queue, Busy)
    BY DEF LoadMiss, CacheInv, InvTypes, Locked
  <1>2. Busy' = Busy \cup {l} /\ l \notin Busy
    BY <1>1 DEF Busy
  <1>3. LinesUp(queue', Busy')
    BY <1>1, <1>2, LineAppend
  <1>4. \A m \in Loads : pc'[m] = "gather" <=> pc[m] = "gather"
    BY <1>1
  <1>5. \A m \in Loads : HasLock(m) => HasLock(m)'
    <2>1. queue \in Seq(Busy)
      BY <1>1 DEF LinesUp
    <2>2. queue # <<>> => Append(queue, l) # <<>> /\ Head(Append(queue, l)) = Head(queue)
      BY <2>1
    <2> QED
      BY <1>1, <2>2 DEF HasLock
  <1>6. Locked'
    BY <1>1, <1>3, <1>4, <1>5 DEF CacheInv, Locked
  <1> QED
    BY <1>1, <1>6 DEF CacheInv, InvTypes, CachesAged, FetchesAged, LossExplained, StaleUsable

\* Whoever ends, in the line or with the lock, the others keep their order.
LEMMA LeaveStep ==
    ASSUME CacheInv, NEW l \in Loads, pc[l] # "idle", Leave(l), UNCHANGED <<client, service>>
    PROVE  CacheInv'
  <1>1. /\ pc' = [pc EXCEPT ![l] = "idle"] /\ pc \in [Loads -> {"idle", "lock", "gather"}]
        /\ queue' = RemoveAt(queue, CHOOSE i \in DOMAIN queue : queue[i] = l)
        /\ fetch' = [fetch EXCEPT ![l] = [s \in Sources |-> NoFetch]]
        /\ fetch \in [Loads -> [Sources -> Fetches]] /\ LinesUp(queue, Busy)
    BY DEF Leave, CacheInv, InvTypes, Locked
  <1>2. Busy' = Busy \ {l} /\ l \in Busy
    BY <1>1 DEF Busy
  <1>3. LinesUp(queue', Busy') /\ (Head(queue) # l => queue' # <<>> /\ Head(queue') = Head(queue))
    BY <1>1, <1>2, LineRemove
  <1>4. /\ \A m \in Loads \ {l} : pc'[m] = pc[m]
        /\ pc'[l] = "idle"
    BY <1>1
  <1>5. /\ \A m \in Loads \ {l}, s \in Sources : fetch'[m][s] = fetch[m][s]
        /\ \A s \in Sources : fetch'[l][s] = NoFetch
    BY <1>1
  <1>6. fetch' \in [Loads -> [Sources -> Fetches]]
    BY <1>1, NoFetchFacts
  <1>7. InvTypes'
    BY <1>1, <1>6 DEF CacheInv, InvTypes
  <1>8. ASSUME NEW m \in Loads, pc'[m] = "gather" PROVE HasLock(m)'
    <2>1. m # l /\ pc[m] = "gather"
      BY <1>4, <1>8
    <2>2. queue # <<>> /\ Head(queue) = m
      BY <2>1 DEF CacheInv, Locked, HasLock
    <2> QED
      BY <1>3, <2>1, <2>2 DEF HasLock
  <1>9. Locked'
    <2>1. \A m \in Loads : pc'[m] # "gather" => \A s \in Sources : fetch'[m][s] = NoFetch
      BY <1>4, <1>5 DEF CacheInv, Locked
    <2>2. \A m \in Loads : pc'[m] = "gather" => \A s \in Sources : fetch'[m][s].stage # "none"
      BY <1>4, <1>5 DEF CacheInv, Locked
    <2> QED
      BY <1>3, <1>8, <2>1, <2>2 DEF Locked
  <1>10. FetchesAged'
    <2> SUFFICES ASSUME NEW m \in Loads, NEW s \in Sources
                 PROVE  /\ fetch'[m][s].stage = "answered" =>
                             fetch'[m][s].list \in Ages /\ fetch'[m][s].list <= fetch'[m][s].flight
                        /\ fetch'[m][s].stage = "done" /\ fetch'[m][s].list # None =>
                             \A t \in Sources \ {s} :
                                 fetch'[m][s].list <= Oldest(fetch'[m][s].error) + Elapsed(fetch'[m][t])
      BY DEF FetchesAged
    <2>1. CASE m = l
      BY <1>5, <2>1, NoFetchFacts
    <2>2. CASE m # l
      BY <1>5, <2>2 DEF CacheInv, FetchesAged
    <2> QED
      BY <2>1, <2>2
  <1>11. LossExplained'
    <2> SUFFICES ASSUME NEW m \in Loads, NEW s \in Sources,
                        fetch'[m][s].stage = "done", fetch'[m][s].list = None
                 PROVE  fetch'[m][s].error /\ ~StaleUsable(service[s])
      BY DEF LossExplained, StaleUsable
    <2>1. m # l
      BY <1>5, NoFetchFacts
    <2> QED
      BY <1>5, <2>1 DEF CacheInv, LossExplained
  <1>12. CachesAged'
    BY DEF CacheInv, CachesAged
  <1> QED
    BY <1>7, <1>9, <1>10, <1>11, <1>12 DEF CacheInv

\* The holder of the lock returns what is fresh by now, or gathers.
LEMMA EnterStep ==
    ASSUME CacheInv, NEW l \in Loads, Enter(l)
    PROVE  CacheInv'
  <1>1. pc[l] = "lock" /\ HasLock(l) /\ UNCHANGED <<client, service>>
    BY DEF Enter
  <1>2. CASE BothFresh
    BY <1>1, <1>2, LeaveStep DEF Enter
  <1>3. CASE ~BothFresh
    <2> DEFINE f == [NoFetch EXCEPT !.stage = "todo"]
    <2>1. /\ pc' = [pc EXCEPT ![l] = "gather"]
          /\ fetch' = [fetch EXCEPT ![l] = [s \in Sources |-> f]]
          /\ UNCHANGED queue
          /\ pc \in [Loads -> {"idle", "lock", "gather"}] /\ fetch \in [Loads -> [Sources -> Fetches]]
      BY <1>3 DEF Enter, CacheInv, InvTypes
    <2>2. f \in Fetches /\ f.stage = "todo"
      BY NoFetchFacts DEF Fetches, NoFetch
    <2> HIDE DEF f
    <2>3. /\ \A m \in Loads \ {l} : pc'[m] = pc[m] /\ pc'[l] = "gather"
          /\ \A m \in Loads \ {l}, s \in Sources : fetch'[m][s] = fetch[m][s]
          /\ \A s \in Sources : fetch'[l][s] = f
      BY <2>1
    <2>4. InvTypes'
      <3>1. fetch' \in [Loads -> [Sources -> Fetches]]
        BY <2>1, <2>2
      <3> QED
        BY <1>1, <2>1, <3>1 DEF CacheInv, InvTypes
    <2>5. Busy' = Busy
      BY <1>1, <2>1 DEF Busy
    <2>6. Locked'
      <3>1. \A m \in Loads : pc'[m] = "gather" => HasLock(m)'
        BY <1>1, <2>1, <2>3 DEF CacheInv, Locked, HasLock
      <3>2. \A m \in Loads : pc'[m] # "gather" => \A s \in Sources : fetch'[m][s] = NoFetch
        BY <2>1, <2>3 DEF CacheInv, Locked
      <3>3. \A m \in Loads : pc'[m] = "gather" => \A s \in Sources : fetch'[m][s].stage # "none"
        BY <2>2, <2>3 DEF CacheInv, Locked
      <3>4. LinesUp(queue', Busy')
        BY <2>1, <2>5 DEF CacheInv, Locked
      <3> QED
        BY <3>1, <3>2, <3>3, <3>4 DEF Locked
    <2>7. FetchesAged'
      <3> SUFFICES ASSUME NEW m \in Loads, NEW s \in Sources
                   PROVE  /\ fetch'[m][s].stage = "answered" =>
                               fetch'[m][s].list \in Ages /\ fetch'[m][s].list <= fetch'[m][s].flight
                          /\ fetch'[m][s].stage = "done" /\ fetch'[m][s].list # None =>
                               \A t \in Sources \ {s} :
                                   fetch'[m][s].list <= Oldest(fetch'[m][s].error) + Elapsed(fetch'[m][t])
        BY DEF FetchesAged
      <3>1. CASE m = l
        BY <2>2, <2>3, <3>1
      <3>2. CASE m # l
        BY <2>3, <3>2 DEF CacheInv, FetchesAged
      <3> QED
        BY <3>1, <3>2
    <2>8. LossExplained'
      <3> SUFFICES ASSUME NEW m \in Loads, NEW s \in Sources,
                          fetch'[m][s].stage = "done", fetch'[m][s].list = None
                   PROVE  fetch'[m][s].error /\ ~StaleUsable(service[s])
        BY <1>1 DEF LossExplained, StaleUsable
      <3>1. m # l
        BY <2>2, <2>3
      <3> QED
        BY <2>3, <3>1 DEF CacheInv, LossExplained
    <2>9. CachesAged'
      BY <1>1 DEF CacheInv, CachesAged
    <2> QED
      BY <2>4, <2>6, <2>7, <2>8, <2>9 DEF CacheInv
  <1> QED
    BY <1>2, <1>3

-----------------------------------------------------------------------------
(* Steps of the load that has the lock *)

\* Ages are numbers and None is not one.
LEMMA NoneIsNoAge == None \notin Ages /\ Ages \subseteq Nat /\ 0 \in Ages
  BY InventoryAssumption DEF Ages, Horizon

\* There is one load that gathers.
LEMMA OneGathers ==
    ASSUME CacheInv, NEW l \in Loads, NEW m \in Loads, NEW s \in Sources, NEW t \in Sources,
           fetch[l][s].stage # "none", fetch[m][t].stage # "none"
    PROVE  l = m /\ pc[l] = "gather"
  <1>1. pc[l] = "gather" /\ pc[m] = "gather"
    BY NoFetchFacts DEF CacheInv, Locked
  <1> QED
    BY <1>1 DEF CacheInv, Locked, HasLock

\* One source of load l comes to f.
LEMMA FetchMoves ==
    ASSUME CacheInv, NEW l \in Loads, NEW s \in Sources, NEW f \in Fetches,
           fetch[l][s].stage # "none", f.stage # "none",
           fetch' = [fetch EXCEPT ![l][s] = f], UNCHANGED <<queue, pc>>
    PROVE  /\ fetch' \in [Loads -> [Sources -> Fetches]] /\ Locked'
           /\ \A m \in Loads, t \in Sources :
                  fetch'[m][t] = IF m = l /\ t = s THEN f ELSE fetch[m][t]
  <1>1. fetch \in [Loads -> [Sources -> Fetches]] /\ pc[l] = "gather"
    BY OneGathers DEF CacheInv, InvTypes
  <1>2. fetch' \in [Loads -> [Sources -> Fetches]]
        /\ \A m \in Loads, t \in Sources :
               fetch'[m][t] = IF m = l /\ t = s THEN f ELSE fetch[m][t]
    BY <1>1
  <1>3. Busy' = Busy /\ \A m \in Loads : HasLock(m)' = HasLock(m)
    BY DEF Busy, HasLock
  <1>4. LinesUp(queue', Busy') /\ \A m \in Loads : pc'[m] = "gather" => HasLock(m)'
    BY <1>3 DEF CacheInv, Locked
  <1>5. \A m \in Loads : pc'[m] # "gather" => \A t \in Sources : fetch'[m][t] = NoFetch
    BY <1>1, <1>2 DEF CacheInv, Locked
  <1>6. \A m \in Loads : pc'[m] = "gather" => \A t \in Sources : fetch'[m][t].stage # "none"
    BY <1>2 DEF CacheInv, Locked
  <1> QED
    BY <1>2, <1>4, <1>5, <1>6 DEF Locked

\* No request takes longer than its time-out.
LEMMA ElapsedType ==
    ASSUME NEW f \in Fetches
    PROVE  Elapsed(f) \in 0..Flight /\ f.flight \in 0..Flight
  BY InventoryAssumption DEF Elapsed, Fetches

\* The bound on a list's age is a number.
LEMMA OldestType == \A e \in BOOLEAN : Oldest(e) \in Nat
  BY InventoryAssumption DEF Oldest

\* The ages of the lists when one source moves on.
LEMMA FetchAges ==
    ASSUME CacheInv, NEW l \in Loads, NEW s \in Sources, NEW f \in Fetches,
           \A m \in Loads, t \in Sources :
               fetch'[m][t] = IF m = l /\ t = s THEN f ELSE fetch[m][t],
           f.stage = "answered" => f.list \in Ages /\ f.list <= f.flight,
           f.stage = "done" /\ f.list # None => f.list <= Oldest(f.error),
           f.stage # "done" => fetch[l][s].stage # "done" /\ f.flight = fetch[l][s].flight
    PROVE  FetchesAged'
  <1>1. fetch \in [Loads -> [Sources -> Fetches]]
    BY DEF CacheInv, InvTypes
  <1>2. Elapsed(fetch[l][s]) <= Elapsed(f) /\ Elapsed(fetch[l][s]) \in Nat /\ Elapsed(f) \in Nat
    <2>1. fetch[l][s] \in Fetches /\ Elapsed(fetch[l][s]) \in 0..Flight /\ Elapsed(f) \in 0..Flight
      BY <1>1, ElapsedType
    <2>2. CASE f.stage = "done"
      BY <2>1, <2>2, InventoryAssumption DEF Elapsed
    <2>3. CASE f.stage # "done"
      <3>1. Elapsed(f) = Elapsed(fetch[l][s])
        BY <2>3 DEF Elapsed
      <3> QED
        BY <2>1, <3>1, InventoryAssumption
    <2> QED
      BY <2>1, <2>2, <2>3, InventoryAssumption
  <1> SUFFICES ASSUME NEW m \in Loads, NEW u \in Sources
               PROVE  /\ fetch'[m][u].stage = "answered" =>
                           fetch'[m][u].list \in Ages /\ fetch'[m][u].list <= fetch'[m][u].flight
                      /\ fetch'[m][u].stage = "done" /\ fetch'[m][u].list # None =>
                           \A t \in Sources \ {u} :
                               fetch'[m][u].list <= Oldest(fetch'[m][u].error) + Elapsed(fetch'[m][t])
    BY DEF FetchesAged
  <1>3. CASE m = l /\ u = s
    <2>1. fetch'[m][u] = f
      BY <1>3
    <2>2. ASSUME f.stage = "done", f.list # None, NEW t \in Sources \ {u}
          PROVE  f.list <= Oldest(f.error) + Elapsed(fetch'[m][t])
      <3>1. fetch'[m][t] \in Fetches
        BY <1>1, <1>3
      <3>2. Elapsed(fetch'[m][t]) \in Nat
        BY <3>1, ElapsedType, InventoryAssumption
      <3>3. Oldest(f.error) \in Nat /\ f.list \in Nat
        BY <2>2, OldestType, NoneIsNoAge DEF Fetches
      <3> QED
        BY <2>2, <3>2, <3>3
    <2> QED
      BY <2>1, <2>2
  <1>4. CASE ~(m = l /\ u = s)
    <2>1. fetch'[m][u] = fetch[m][u] /\ fetch[m][u] \in Fetches
      BY <1>1, <1>4
    <2>2. ASSUME fetch[m][u].stage = "done", fetch[m][u].list # None, NEW t \in Sources \ {u}
          PROVE  fetch[m][u].list <= Oldest(fetch[m][u].error) + Elapsed(fetch'[m][t])
      <3>1. fetch[m][u].list <= Oldest(fetch[m][u].error) + Elapsed(fetch[m][t])
        BY <2>2 DEF CacheInv, FetchesAged
      <3>2. Oldest(fetch[m][u].error) \in Nat /\ fetch[m][u].list \in Nat
        BY <2>1, <2>2, OldestType, NoneIsNoAge DEF Fetches
      <3>3. Elapsed(fetch[m][t]) <= Elapsed(fetch'[m][t])
            /\ Elapsed(fetch[m][t]) \in Nat /\ Elapsed(fetch'[m][t]) \in Nat
        <4>1. CASE m = l /\ t = s
          BY <1>2, <4>1
        <4>2. CASE ~(m = l /\ t = s)
          <5>1. fetch'[m][t] = fetch[m][t] /\ fetch[m][t] \in Fetches
            BY <1>1, <4>2
          <5>2. Elapsed(fetch[m][t]) \in Nat
            BY <5>1, ElapsedType, InventoryAssumption
          <5> QED
            BY <5>1, <5>2
        <4> QED
          BY <4>1, <4>2
      <3> QED
        BY <3>1, <3>2, <3>3
    <2>3. fetch[m][u].stage = "answered" =>
             fetch[m][u].list \in Ages /\ fetch[m][u].list <= fetch[m][u].flight
      BY DEF CacheInv, FetchesAged
    <2> QED
      BY <2>1, <2>2, <2>3
  <1> QED
    BY <1>3, <1>4

\* A list goes into the service's cache and, from a request, into the client's.
LEMMA StoredStep ==
    ASSUME CacheInv, NEW l \in Loads, NEW s \in Sources, NEW real \in Ages,
           fetch[l][s].stage # "none", Stored(l, s, real), real <= Ttl + Flight,
           \/ client' = client
           \/ client' = [client EXCEPT ![s] = [real |-> real, at |-> 0]] /\ real <= Flight,
           UNCHANGED <<queue, pc>>
    PROVE  CacheInv'
  <1> DEFINE f == [stage |-> "done", flight |-> 0, list |-> real, error |-> FALSE]
             c == [real |-> real, at |-> 0]
  <1>1. /\ service' = [service EXCEPT ![s] = c] /\ fetch' = [fetch EXCEPT ![l][s] = f]
        /\ client \in [Sources -> Cached \cup {None}] /\ service \in [Sources -> Cached \cup {None}]
    BY DEF Stored, Done, CacheInv, InvTypes
  <1>2. /\ f \in Fetches /\ f.stage = "done" /\ f.list = real /\ f.error = FALSE
        /\ c \in Cached /\ c.real = real /\ c.at = 0
    BY NoneIsNoAge, InventoryAssumption DEF Fetches, Cached
  <1>3. client' = client \/ (client' = [client EXCEPT ![s] = c] /\ real <= Flight)
    OBVIOUS
  <1> HIDE DEF f, c
  <1>4. /\ fetch' \in [Loads -> [Sources -> Fetches]] /\ Locked'
        /\ \A m \in Loads, t \in Sources :
               fetch'[m][t] = IF m = l /\ t = s THEN f ELSE fetch[m][t]
    BY <1>1, <1>2, FetchMoves
  <1>5. real # None /\ real \in Nat
    BY NoneIsNoAge
  <1>6. f.list <= Oldest(f.error)
    BY <1>2 DEF Oldest
  <1>7. FetchesAged'
    BY <1>2, <1>4, <1>6, FetchAges
  <1>8. InvTypes'
    <2>1. client' \in [Sources -> Cached \cup {None}] /\ service' \in [Sources -> Cached \cup {None}]
      BY <1>1, <1>2, <1>3
    <2> QED
      BY <1>4, <2>1 DEF CacheInv, InvTypes
  <1>9. CachesAged'
    <2>1. 0 + Flight = Flight /\ 0 + Ttl + Flight = Ttl + Flight
      BY InventoryAssumption
    <2>2. \A t \in Sources : client'[t] # None => client'[t].real <= client'[t].at + Flight
      BY <1>1, <1>2, <1>3, <2>1 DEF CacheInv, CachesAged
    <2>3. \A t \in Sources : service'[t] # None => service'[t].real <= service'[t].at + Ttl + Flight
      BY <1>1, <1>2, <2>1 DEF CacheInv, CachesAged
    <2> QED
      BY <2>2, <2>3 DEF CachesAged
  <1>10. LossExplained'
    <2> SUFFICES ASSUME NEW m \in Loads, NEW t \in Sources,
                        fetch'[m][t].stage = "done", fetch'[m][t].list = None
                 PROVE  fetch'[m][t].error /\ ~StaleUsable(service'[t])
      BY DEF LossExplained, StaleUsable
    <2>1. ~(m = l /\ t = s) /\ fetch'[m][t] = fetch[m][t]
      BY <1>2, <1>4, <1>5
    <2>2. m = l
      BY <2>1, OneGathers
    <2>3. service'[t] = service[t]
      BY <1>1, <2>1, <2>2
    <2> QED
      BY <2>1, <2>3 DEF CacheInv, LossExplained
  <1> QED
    BY <1>4, <1>7, <1>8, <1>9, <1>10 DEF CacheInv

\* A source moves on without a change of the caches.
LEMMA FetchStep ==
    ASSUME CacheInv, NEW l \in Loads, NEW s \in Sources, NEW f \in Fetches,
           fetch[l][s].stage # "none", f.stage # "none", fetch' = [fetch EXCEPT ![l][s] = f],
           f.stage = "answered" => f.list \in Ages /\ f.list <= f.flight,
           f.stage = "done" /\ f.list # None => f.list <= Oldest(f.error),
           f.stage = "done" /\ f.list = None => f.error /\ ~StaleUsable(service[s]),
           f.stage # "done" => fetch[l][s].stage # "done" /\ f.flight = fetch[l][s].flight,
           UNCHANGED <<client, service, queue, pc>>
    PROVE  CacheInv'
  <1>1. /\ fetch' \in [Loads -> [Sources -> Fetches]] /\ Locked'
        /\ \A m \in Loads, t \in Sources :
               fetch'[m][t] = IF m = l /\ t = s THEN f ELSE fetch[m][t]
    BY FetchMoves
  <1>2. FetchesAged'
    BY <1>1, FetchAges
  <1>3. InvTypes' /\ CachesAged'
    BY <1>1 DEF CacheInv, InvTypes, CachesAged
  <1>4. LossExplained'
    <2> SUFFICES ASSUME NEW m \in Loads, NEW t \in Sources,
                        fetch'[m][t].stage = "done", fetch'[m][t].list = None
                 PROVE  fetch'[m][t].error /\ ~StaleUsable(service[t])
      BY DEF LossExplained, StaleUsable
    <2>1. CASE m = l /\ t = s
      BY <1>1, <2>1
    <2>2. CASE ~(m = l /\ t = s)
      BY <1>1, <2>2 DEF CacheInv, LossExplained
    <2> QED
      BY <2>1, <2>2
  <1> QED
    BY <1>1, <1>2, <1>3, <1>4 DEF CacheInv

\* A fetch with another stage and list.
LEMMA FetchWith ==
    ASSUME CacheInv, NEW l \in Loads, NEW s \in Sources
    PROVE  /\ fetch[l][s] \in Fetches
           /\ fetch[l][s] = [stage |-> fetch[l][s].stage, flight |-> fetch[l][s].flight,
                             list |-> fetch[l][s].list, error |-> fetch[l][s].error]
  <1>1. fetch[l][s] \in Fetches
    BY DEF CacheInv, InvTypes
  <1> QED
    BY <1>1 DEF Fetches

\* A source that is off or fresh in its client needs no request.
LEMMA BeginStep ==
    ASSUME CacheInv, NEW l \in Loads, NEW s \in Sources, Begin(l, s)
    PROVE  CacheInv'
  <1>1. fetch[l][s].stage = "todo" /\ UNCHANGED <<client, queue, pc>>
    BY DEF Begin
  <1>2. CASE Stored(l, s, 0)
    BY <1>1, <1>2, StoredStep, NoneIsNoAge, InventoryAssumption
  <1>3. CASE Fresh(client[s]) /\ Stored(l, s, client[s].real)
    <2>1. client[s] \in Cached
      BY <1>3 DEF CacheInv, InvTypes, Fresh
    <2>2. client[s].real \in Ages /\ client[s].at \in Nat /\ client[s].real \in Nat
      BY <2>1, NoneIsNoAge DEF Cached
    <2>3. client[s].real <= client[s].at + Flight /\ client[s].at <= Ttl
      BY <1>3 DEF CacheInv, CachesAged, Fresh
    <2>4. client[s].real <= Ttl + Flight
      BY <2>2, <2>3, InventoryAssumption
    <2> QED
      BY <1>1, <1>3, <2>2, <2>4, StoredStep
  <1>4. CASE fetch' = [fetch EXCEPT ![l][s].stage = "sent"] /\ UNCHANGED service
    <2> DEFINE f == [fetch[l][s] EXCEPT !.stage = "sent"]
    <2>1. fetch[l][s] \in Fetches
      BY FetchWith
    <2>2. f \in Fetches /\ f.stage = "sent" /\ f.flight = fetch[l][s].flight
      BY <2>1 DEF Fetches
    <2>3. fetch' = [fetch EXCEPT ![l][s] = f]
      BY <1>4
    <2> HIDE DEF f
    <2> QED
      BY <1>1, <1>4, <2>2, <2>3, FetchStep
  <1> QED
    BY <1>2, <1>3, <1>4 DEF Begin

\* The server gives its list: it is new.
LEMMA AnswerStep ==
    ASSUME CacheInv, NEW l \in Loads, NEW s \in Sources, Answer(l, s)
    PROVE  CacheInv'
  <1> DEFINE f == [fetch[l][s] EXCEPT !.stage = "answered", !.list = 0]
  <1>1. /\ fetch[l][s].stage = "sent" /\ UNCHANGED <<client, service, queue, pc>>
        /\ fetch' = [fetch EXCEPT ![l][s].stage = "answered", ![l][s].list = 0]
    BY DEF Answer
  <1>2. fetch[l][s] \in Fetches
    BY FetchWith
  <1>3. f \in Fetches /\ f.stage = "answered" /\ f.flight = fetch[l][s].flight /\ f.list = 0
    BY <1>2, NoneIsNoAge DEF Fetches
  <1>4. fetch \in [Loads -> [Sources -> Fetches]]
    BY DEF CacheInv, InvTypes
  <1>5. fetch' = [fetch EXCEPT ![l][s] = f]
    BY <1>1, <1>4
  <1> HIDE DEF f
  <1>6. f.flight \in Nat /\ 0 \in Ages
    BY <1>3, ElapsedType, NoneIsNoAge
  <1>7. /\ fetch[l][s].stage # "none" /\ fetch[l][s].stage # "done"
        /\ f.stage # "none" /\ f.stage # "done"
        /\ f.list \in Ages /\ f.list <= f.flight
    BY <1>1, <1>3, <1>6
  <1> QED
    BY <1>1, <1>3, <1>5, <1>7, FetchStep

\* The answer arrives and goes into both caches.
LEMMA ArriveStep ==
    ASSUME CacheInv, NEW l \in Loads, NEW s \in Sources, Arrive(l, s)
    PROVE  CacheInv'
  <1> DEFINE real == fetch[l][s].list
  <1>1. /\ fetch[l][s].stage = "answered" /\ UNCHANGED <<queue, pc>> /\ Stored(l, s, real)
        /\ client' = [client EXCEPT ![s] = [real |-> real, at |-> 0]]
    BY DEF Arrive
  <1>2. real \in Ages /\ real <= fetch[l][s].flight
    BY <1>1 DEF CacheInv, FetchesAged
  <1>3. fetch[l][s].flight \in 0..Flight
    BY FetchWith, ElapsedType
  <1> HIDE DEF real
  <1>4. real <= Flight /\ real <= Ttl + Flight
    BY <1>2, <1>3, NoneIsNoAge, InventoryAssumption
  <1> QED
    BY <1>1, <1>2, <1>4, StoredStep

\* The service's own list steps in while it is not too old.
LEMMA FailStep ==
    ASSUME CacheInv, NEW l \in Loads, NEW s \in Sources, Fail(l, s)
    PROVE  CacheInv'
  <1> DEFINE list == IF StaleUsable(service[s]) THEN service[s].real ELSE None
             f == [stage |-> "done", flight |-> 0, list |-> list, error |-> TRUE]
  <1>1. /\ fetch[l][s].stage \in {"sent", "answered"} /\ UNCHANGED <<client, service, queue, pc>>
        /\ fetch' = [fetch EXCEPT ![l][s] = f]
    BY DEF Fail, Done
  <1>2. /\ list \in Ages \cup {None} /\ (list = None => ~StaleUsable(service[s]))
        /\ list # None => list <= StaleTtl + Ttl + Flight
    <2>1. CASE StaleUsable(service[s])
      <3>1. service[s] \in Cached
        BY <2>1 DEF CacheInv, InvTypes, StaleUsable
      <3>2. service[s].real \in Ages /\ service[s].at \in Nat /\ service[s].real \in Nat
        BY <3>1, NoneIsNoAge DEF Cached
      <3>3. service[s].real <= service[s].at + Ttl + Flight /\ service[s].at <= StaleTtl
        BY <2>1 DEF CacheInv, CachesAged, StaleUsable
      <3>4. service[s].real <= StaleTtl + Ttl + Flight
        BY <3>2, <3>3, InventoryAssumption
      <3> QED
        BY <2>1, <3>2, <3>4, NoneIsNoAge
    <2>2. CASE ~StaleUsable(service[s])
      BY <2>2
    <2> QED
      BY <2>1, <2>2
  <1> HIDE DEF list
  <1>3. f \in Fetches /\ f.stage = "done" /\ f.list = list /\ f.error = TRUE
    BY <1>2, InventoryAssumption DEF Fetches
  <1> HIDE DEF f
  <1>4. f.list # None => f.list <= Oldest(f.error)
    BY <1>2, <1>3 DEF Oldest
  <1>5. fetch[l][s].stage # "none"
    BY <1>1
  <1> QED
    BY <1>1, <1>2, <1>3, <1>4, <1>5, FetchStep

\* A load ends or is cancelled, with the lock or in the line.
LEMMA EndStep ==
    ASSUME CacheInv, NEW l \in Loads, Finish(l) \/ Cancel(l)
    PROVE  CacheInv'
  <1>1. Leave(l) /\ UNCHANGED <<client, service>>
    BY DEF Finish, Cancel
  <1>2. pc[l] # "idle"
    <2>1. CASE Cancel(l)
      BY <2>1 DEF Cancel
    <2>2. CASE Finish(l)
      <3>1. "mcp" \in Sources
        BY DEF Sources
      <3>2. fetch[l]["mcp"].stage = "done"
        BY <2>2, <3>1 DEF Finish
      <3>3. pc[l] = "gather"
        BY <3>1, <3>2, OneGathers
      <3> QED
        BY <3>3
    <2> QED
      BY <2>1, <2>2
  <1> QED
    BY <1>1, <1>2, LeaveStep

\* The MCP client drops its list.
LEMMA InvalidateStep ==
    ASSUME CacheInv, Invalidate
    PROVE  CacheInv'
  <1>1. client' = [client EXCEPT !["mcp"] = None] /\ UNCHANGED <<service, queue, pc, fetch>>
    BY DEF Invalidate
  <1>2. InvTypes' /\ CachesAged'
    BY <1>1 DEF CacheInv, InvTypes, CachesAged
  <1>3. Locked' /\ FetchesAged' /\ LossExplained'
    BY <1>1 DEF CacheInv, Locked, Busy, HasLock, FetchesAged, LossExplained, StaleUsable
  <1> QED
    BY <1>2, <1>3 DEF CacheInv

-----------------------------------------------------------------------------
(* Time *)

\* What Tick makes of a cached list and of a fetch.
OlderList(c) == IF c = None THEN None ELSE [real |-> Older(c.real), at |-> Older(c.at)]
AgedFetch(f) ==
    [f EXCEPT !.list = IF f.list = None THEN None ELSE Older(f.list),
              !.flight = IF f.stage \in {"sent", "answered"} THEN @ + 1 ELSE 0]

\* An age grows by one until the horizon.
LEMMA OlderFacts ==
    /\ \A n \in Ages : Older(n) \in Ages /\ n <= Older(n) /\ Older(n) <= n + 1
    /\ \A m, n \in Ages, k \in Nat : m <= n + k => Older(m) <= Older(n) + k
  BY InventoryAssumption DEF Older, Ages, Horizon

\* An aged list stays as old as its place in the cache explains, and one that
\* was too old to be used stays too old.
LEMMA OlderListFacts ==
    ASSUME NEW c \in Cached \cup {None}
    PROVE  /\ OlderList(c) \in Cached \cup {None} /\ (c = None => OlderList(c) = None)
           /\ \A k \in Nat : c # None /\ c.real <= c.at + k =>
                  OlderList(c).real <= OlderList(c).at + k
           /\ ~StaleUsable(c) => ~StaleUsable(OlderList(c))
  <1>1. CASE c = None
    BY <1>1 DEF OlderList, StaleUsable
  <1>2. CASE c # None
    <2> DEFINE d == [real |-> Older(c.real), at |-> Older(c.at)]
    <2>1. c \in Cached /\ c.real \in Ages /\ c.at \in Ages
      BY <1>2 DEF Cached
    <2>2. OlderList(c) = d
      BY <1>2 DEF OlderList
    <2>3. d \in Cached /\ d.real = Older(c.real) /\ d.at = Older(c.at)
      BY <2>1, OlderFacts DEF Cached
    <2> HIDE DEF d
    <2>4. /\ \A k \in Nat : c.real <= c.at + k => d.real <= d.at + k
          /\ c.at <= d.at
      BY <2>1, <2>3, OlderFacts
    <2>5. c.at \in Nat /\ d.at \in Nat /\ StaleTtl \in Nat
      BY <2>1, <2>3, OlderFacts, NoneIsNoAge, InventoryAssumption
    <2>6. ~(c.at <= StaleTtl) => ~(d.at <= StaleTtl)
      BY <2>4, <2>5
    <2>7. ~StaleUsable(c) => ~StaleUsable(d)
      BY <1>2, <2>6 DEF StaleUsable
    <2> QED
      BY <1>2, <2>2, <2>3, <2>4, <2>7
  <1> QED
    BY <1>1, <1>2

\* One source's fetch ages: a request under way has flown for one tick more.
LEMMA AgedFacts ==
    ASSUME NEW f \in Fetches, f.stage \in {"sent", "answered"} => f.flight < Flight
    PROVE  /\ AgedFetch(f) \in Fetches /\ AgedFetch(f).stage = f.stage /\ AgedFetch(f).error = f.error
           /\ f.list = None => AgedFetch(f).list = None
           /\ f.list # None => AgedFetch(f).list = Older(f.list) /\ f.list \in Ages
           /\ f.stage \in {"sent", "answered"} => AgedFetch(f).flight = f.flight + 1
           /\ f.stage \notin {"sent", "answered"} => AgedFetch(f).flight = 0
  <1> DEFINE n == IF f.list = None THEN None ELSE Older(f.list)
             k == IF f.stage \in {"sent", "answered"} THEN f.flight + 1 ELSE 0
             g == [f EXCEPT !.list = n, !.flight = k]
  <1>1. AgedFetch(f) = g
    BY DEF AgedFetch
  <1>2. f.flight \in 0..Flight /\ f.list \in Ages \cup {None}
    BY DEF Fetches
  <1>3. n \in Ages \cup {None}
    BY <1>2, OlderFacts
  <1>4. k \in 0..Flight
    BY <1>2, InventoryAssumption
  <1> HIDE DEF n, k
  <1>5. g \in Fetches /\ g.stage = f.stage /\ g.error = f.error /\ g.list = n /\ g.flight = k
    BY <1>3, <1>4 DEF Fetches
  <1> HIDE DEF g
  <1> QED
    BY <1>1, <1>2, <1>5 DEF n, k

\* Nothing ages where nothing is fetched.
LEMMA NoFetchAged == AgedFetch(NoFetch) = NoFetch
  <1>1. NoFetch \in Fetches
    BY NoFetchFacts
  <1>2. NoFetch.stage \notin {"sent", "answered"}
    BY NoFetchFacts
  <1> DEFINE g == AgedFetch(NoFetch)
  <1>3. /\ g \in Fetches /\ g.stage = NoFetch.stage /\ g.error = NoFetch.error
        /\ g.list = NoFetch.list /\ g.flight = NoFetch.flight
    BY <1>1, <1>2, NoFetchFacts, AgedFacts
  <1> HIDE DEF g
  <1>4. g = NoFetch
    BY <1>1, <1>3 DEF Fetches
  <1> QED
    BY <1>4 DEF g

\* While one source is done, the load waits for the other: its list grows no
\* older than the other request takes.
LEMMA TickStep ==
    ASSUME CacheInv, Tick
    PROVE  CacheInv'
  <1>1. /\ Waiting /\ UNCHANGED <<queue, pc>>
        /\ client' = [s \in Sources |-> OlderList(client[s])]
        /\ service' = [s \in Sources |-> OlderList(service[s])]
        /\ fetch' = [l \in Loads |-> [s \in Sources |-> AgedFetch(fetch[l][s])]]
    BY DEF Tick, OlderList, AgedFetch
  <1>2. /\ client \in [Sources -> Cached \cup {None}] /\ service \in [Sources -> Cached \cup {None}]
        /\ fetch \in [Loads -> [Sources -> Fetches]] /\ pc \in [Loads -> {"idle", "lock", "gather"}]
    BY DEF CacheInv, InvTypes
  <1>3. /\ \A l \in Loads, s \in Sources : fetch'[l][s] = AgedFetch(fetch[l][s])
        /\ \A s \in Sources : client'[s] = OlderList(client[s]) /\ service'[s] = OlderList(service[s])
    BY <1>1
  <1>4. ASSUME NEW l \in Loads, NEW s \in Sources
        PROVE  /\ fetch[l][s] \in Fetches
               /\ fetch[l][s].stage \in {"sent", "answered"} => fetch[l][s].flight < Flight
    <2>1. CASE pc[l] = "gather"
      BY <1>1, <1>2, <2>1 DEF Waiting
    <2>2. CASE pc[l] # "gather"
      <3>1. fetch[l][s] = NoFetch
        BY <2>2 DEF CacheInv, Locked
      <3> QED
        BY <3>1, NoFetchFacts
    <2> QED
      BY <2>1, <2>2
  <1>5. ASSUME NEW l \in Loads, NEW s \in Sources
        PROVE  /\ fetch'[l][s] \in Fetches /\ fetch'[l][s].stage = fetch[l][s].stage
               /\ fetch'[l][s].error = fetch[l][s].error
               /\ fetch[l][s].list = None => fetch'[l][s].list = None
               /\ fetch[l][s].list # None =>
                      fetch'[l][s].list = Older(fetch[l][s].list) /\ fetch[l][s].list \in Ages
               /\ fetch[l][s].stage \in {"sent", "answered"} =>
                      fetch'[l][s].flight = fetch[l][s].flight + 1
    BY <1>3, <1>4, AgedFacts
  <1>6. InvTypes'
    <2>1. client' \in [Sources -> Cached \cup {None}] /\ service' \in [Sources -> Cached \cup {None}]
      BY <1>1, <1>2, OlderListFacts
    <2>2. fetch' \in [Loads -> [Sources -> Fetches]]
      BY <1>1, <1>3, <1>5
    <2> QED
      BY <1>1, <1>2, <2>1, <2>2 DEF InvTypes
  <1>7. Locked'
    <2>1. LinesUp(queue', Busy') /\ \A l \in Loads : pc'[l] = "gather" => HasLock(l)'
      BY <1>1 DEF CacheInv, Locked, Busy, HasLock
    <2>2. \A l \in Loads : pc'[l] # "gather" => \A s \in Sources : fetch'[l][s] = NoFetch
      BY <1>1, <1>3, NoFetchAged DEF CacheInv, Locked
    <2>3. \A l \in Loads : pc'[l] = "gather" => \A s \in Sources : fetch'[l][s].stage # "none"
      BY <1>1, <1>5 DEF CacheInv, Locked
    <2> QED
      BY <2>1, <2>2, <2>3 DEF Locked
  <1>8. CachesAged'
    <2>1. Flight \in Nat /\ Ttl + Flight \in Nat /\ \A n \in Nat : n + Ttl + Flight = n + (Ttl + Flight)
      BY InventoryAssumption
    <2>2. ASSUME NEW s \in Sources, client'[s] # None
          PROVE  client'[s].real <= client'[s].at + Flight
      <3>1. client[s] # None /\ client[s] \in Cached \cup {None}
        BY <1>2, <1>3, <2>2, OlderListFacts
      <3>2. client[s].real <= client[s].at + Flight
        BY <3>1 DEF CacheInv, CachesAged
      <3> QED
        BY <1>3, <2>1, <3>1, <3>2, OlderListFacts
    <2>3. ASSUME NEW s \in Sources, service'[s] # None
          PROVE  service'[s].real <= service'[s].at + Ttl + Flight
      <3>1. service[s] # None /\ service[s] \in Cached
        BY <1>2, <1>3, <2>3, OlderListFacts
      <3>2. service[s].real <= service[s].at + Ttl + Flight /\ service[s].at \in Nat
        BY <3>1, NoneIsNoAge DEF CacheInv, CachesAged, Cached
      <3>3. service'[s].real <= service'[s].at + (Ttl + Flight)
        BY <1>3, <2>1, <3>1, <3>2, OlderListFacts
      <3>4. service'[s].at \in Nat
        BY <1>6, <2>3, NoneIsNoAge DEF InvTypes, Cached
      <3> QED
        BY <2>1, <3>3, <3>4
    <2> QED
      BY <2>2, <2>3 DEF CachesAged
  <1>9. ASSUME NEW l \in Loads, NEW s \in Sources, fetch'[l][s].stage = "answered"
        PROVE  fetch'[l][s].list \in Ages /\ fetch'[l][s].list <= fetch'[l][s].flight
    <2>1. fetch[l][s].stage = "answered"
      BY <1>5, <1>9
    <2>2. fetch[l][s].list \in Ages /\ fetch[l][s].list <= fetch[l][s].flight
      BY <2>1 DEF CacheInv, FetchesAged
    <2>3. fetch[l][s].list # None /\ fetch[l][s].list \in Nat /\ fetch[l][s].flight \in Nat
      <3>1. fetch[l][s] \in Fetches
        BY <1>4
      <3>2. fetch[l][s].flight \in 0..Flight
        BY <3>1, ElapsedType
      <3>3. fetch[l][s].flight \in Nat
        BY <3>2, InventoryAssumption
      <3>4. fetch[l][s].list # None
        BY <2>2, NoneIsNoAge
      <3>5. fetch[l][s].list \in Nat
        BY <2>2, NoneIsNoAge
      <3> QED
        BY <3>3, <3>4, <3>5
    <2>4. fetch'[l][s].list = Older(fetch[l][s].list) /\ fetch'[l][s].flight = fetch[l][s].flight + 1
      BY <1>5, <2>1, <2>3
    <2>5. Older(fetch[l][s].list) \in Ages /\ Older(fetch[l][s].list) <= fetch[l][s].list + 1
          /\ Older(fetch[l][s].list) \in Nat
      BY <2>2, OlderFacts, NoneIsNoAge
    <2> QED
      BY <2>2, <2>3, <2>4, <2>5
  <1>10. ASSUME NEW l \in Loads, NEW s \in Sources, NEW t \in Sources \ {s},
                fetch'[l][s].stage = "done", fetch'[l][s].list # None
         PROVE  fetch'[l][s].list <= Oldest(fetch'[l][s].error) + Elapsed(fetch'[l][t])
    <2>1. fetch[l][s].stage = "done" /\ fetch[l][s].list # None
      BY <1>5, <1>10
    <2>2. fetch[l][s].list <= Oldest(fetch[l][s].error) + Elapsed(fetch[l][t])
      BY <2>1 DEF CacheInv, FetchesAged
    <2>3. pc[l] = "gather"
      BY <2>1, OneGathers
    <2>4. fetch[l][t].stage # "done" /\ fetch[l][t].stage # "todo" /\ fetch[l][t].stage # "none"
      <3>1. \A u \in Sources : u = s \/ u = t
        BY DEF Sources
      <3>2. \E u \in Sources : fetch[l][u].stage # "done"
        BY <1>1, <2>3 DEF Waiting
      <3>3. fetch[l][t].stage # "done"
        BY <2>1, <3>1, <3>2
      <3>4. fetch[l][t].stage # "todo"
        BY <1>1, <2>3 DEF Waiting
      <3>5. fetch[l][t].stage # "none"
        BY <2>3 DEF CacheInv, Locked
      <3> QED
        BY <3>3, <3>4, <3>5
    <2>5. fetch[l][t].stage \in {"sent", "answered"} /\ fetch[l][t].flight \in Nat
      BY <1>4, <2>4, InventoryAssumption DEF Fetches
    <2>6. fetch'[l][t].flight = fetch[l][t].flight + 1 /\ fetch'[l][t].stage # "done"
      BY <1>5, <2>5
    <2>7. Elapsed(fetch[l][t]) = fetch[l][t].flight /\ Elapsed(fetch'[l][t]) = fetch[l][t].flight + 1
      BY <2>4, <2>6 DEF Elapsed
    <2>8. fetch'[l][s].list = Older(fetch[l][s].list) /\ fetch[l][s].list \in Ages
          /\ fetch'[l][s].error = fetch[l][s].error
      BY <1>5, <2>1
    <2>9. /\ Older(fetch[l][s].list) \in Nat /\ fetch[l][s].list \in Nat
          /\ Older(fetch[l][s].list) <= fetch[l][s].list + 1
      BY <2>8, OlderFacts, NoneIsNoAge
    <2>10. Oldest(fetch[l][s].error) \in Nat
      BY <1>4, OldestType DEF Fetches
    <2> QED
      BY <2>2, <2>5, <2>7, <2>8, <2>9, <2>10
  <1>11. FetchesAged'
    BY <1>9, <1>10 DEF FetchesAged
  <1>12. LossExplained'
    <2> SUFFICES ASSUME NEW l \in Loads, NEW s \in Sources,
                        fetch'[l][s].stage = "done", fetch'[l][s].list = None
                 PROVE  fetch'[l][s].error /\ ~StaleUsable(service'[s])
      BY DEF LossExplained, StaleUsable
    <2>1. fetch[l][s].stage = "done" /\ fetch[l][s].list = None
      BY <1>5, OlderFacts, NoneIsNoAge
    <2>2. fetch[l][s].error /\ ~StaleUsable(service[s])
      BY <2>1 DEF CacheInv, LossExplained
    <2>3. service[s] \in Cached \cup {None}
      BY <1>2
    <2>4. ~StaleUsable(OlderList(service[s]))
      BY <2>2, <2>3, OlderListFacts
    <2> QED
      BY <1>3, <1>5, <2>2, <2>4
  <1> QED
    BY <1>6, <1>7, <1>8, <1>11, <1>12 DEF CacheInv

-----------------------------------------------------------------------------
(* The invariant, and what a load returns *)

\* Every step keeps the invariant.
LEMMA CacheStep ==
    ASSUME CacheInv, [InvNext]_invVars
    PROVE  CacheInv'
  <1>1. CASE UNCHANGED invVars
    BY <1>1, CacheUnchanged DEF invVars
  <1>2. ASSUME NEW l \in Loads, LoadHit(l) PROVE CacheInv'
    BY <1>2, CacheUnchanged DEF LoadHit
  <1>3. CASE InvNext
    BY <1>2, <1>3, LoadMissStep, EnterStep, BeginStep, AnswerStep, ArriveStep, FailStep, EndStep,
       InvalidateStep, TickStep DEF InvNext, LoadStep
  <1> QED
    BY <1>1, <1>3

\* The inductive invariant of caches, lock and fetches.
LEMMA CacheInvariant == InvSpec => []CacheInv
  <1>1. InvInit => CacheInv
    BY CacheInitially
  <1>2. CacheInv /\ [InvNext]_invVars => CacheInv'
    BY CacheStep
  <1> QED
    BY <1>1, <1>2, PTL DEF InvSpec

\* What AgeBounded allows for a list with or without an error.
Limit(error) ==
    IF error THEN StaleTtl + Ttl + 2 * Flight
    ELSE Ttl + Flight + (IF Ttl > Flight THEN Ttl ELSE Flight)

\* What a load may return while the service holds what it does.
Honest(R) ==
    /\ R \in [Sources -> Outcomes]
    /\ \A s \in Sources : R[s].list # None => R[s].list <= Limit(R[s].error)
    /\ \A s \in Sources : R[s].list = None => R[s].error /\ ~StaleUsable(service[s])

\* A snapshot of two fresh lists is within the bound and loses none.
LEMMA SnapshotIsHonest ==
    ASSUME CacheInv, BothFresh
    PROVE  Honest(Snapshot)
  <1>1. ASSUME NEW s \in Sources
        PROVE  service[s].real \in Ages /\ service[s].real <= Limit(FALSE)
    <2>1. service[s] # None /\ service[s].at <= Ttl
      BY DEF BothFresh, Fresh
    <2>2. service[s] \in Cached
      BY <2>1 DEF CacheInv, InvTypes
    <2>3. service[s].real \in Ages /\ service[s].at \in Nat /\ service[s].real \in Nat
      BY <2>2, NoneIsNoAge DEF Cached
    <2>4. service[s].real <= service[s].at + Ttl + Flight
      BY <2>1 DEF CacheInv, CachesAged
    <2>5. service[s].real <= Ttl + Flight + Ttl
      BY <2>1, <2>3, <2>4, InventoryAssumption
    <2>6. Ttl + Flight + Ttl <= Limit(FALSE) /\ Limit(FALSE) \in Nat /\ Ttl + Flight + Ttl \in Nat
      BY InventoryAssumption DEF Limit
    <2>7. \A x, y, z \in Nat : x <= y /\ y <= z => x <= z
      OBVIOUS
    <2>8. service[s].real <= Limit(FALSE)
      BY <2>3, <2>5, <2>6, <2>7
    <2> QED
      BY <2>3, <2>8
  <1>3. Snapshot \in [Sources -> Outcomes]
    BY <1>1 DEF Snapshot, Outcomes
  <1>4. \A s \in Sources : Snapshot[s].list = service[s].real /\ Snapshot[s].error = FALSE
    BY DEF Snapshot
  <1> QED
    BY <1>1, <1>3, <1>4, NoneIsNoAge DEF Honest

\* What gather has of the two sources.
Gathered(l) == [s \in Sources |-> [list |-> fetch[l][s].list, error |-> fetch[l][s].error]]

\* So is what gather returns.
LEMMA GatheredIsHonest ==
    ASSUME CacheInv, NEW l \in Loads, \A s \in Sources : fetch[l][s].stage = "done"
    PROVE  Honest(Gathered(l))
  <1>1. \A s \in Sources : fetch[l][s] \in Fetches
    BY DEF CacheInv, InvTypes
  <1>2. \A s \in Sources : fetch[l][s].list \in Ages \cup {None} /\ fetch[l][s].error \in BOOLEAN
    BY <1>1 DEF Fetches
  <1>3. Gathered(l) \in [Sources -> Outcomes]
    BY <1>2 DEF Gathered, Outcomes
  <1>4. \A s \in Sources : Gathered(l)[s].list = fetch[l][s].list /\ Gathered(l)[s].error = fetch[l][s].error
    BY DEF Gathered
  <1>5. ASSUME NEW s \in Sources, fetch[l][s].list # None
        PROVE  fetch[l][s].list <= Limit(fetch[l][s].error)
    <2>1. PICK t \in Sources \ {s} : TRUE
      BY DEF Sources
    <2>2. fetch[l][s].list <= Oldest(fetch[l][s].error) + Elapsed(fetch[l][t])
      BY <1>5 DEF CacheInv, FetchesAged
    <2>3. Elapsed(fetch[l][t]) = Flight
      BY DEF Elapsed
    <2>4. fetch[l][s].list \in Nat /\ Oldest(fetch[l][s].error) \in Nat
      BY <1>2, <1>5, NoneIsNoAge, OldestType
    <2>5. ASSUME NEW e \in BOOLEAN
          PROVE  Oldest(e) + Flight <= Limit(e) /\ Limit(e) \in Nat /\ Oldest(e) + Flight \in Nat
      <3>1. CASE e
        BY <3>1, InventoryAssumption DEF Oldest, Limit
      <3>2. CASE ~e
        BY <3>2, InventoryAssumption DEF Oldest, Limit
      <3> QED
        BY <3>1, <3>2
    <2>6. /\ Oldest(fetch[l][s].error) + Flight <= Limit(fetch[l][s].error)
          /\ Limit(fetch[l][s].error) \in Nat /\ Oldest(fetch[l][s].error) + Flight \in Nat
      BY <1>2, <2>5
    <2> QED
      BY <2>2, <2>3, <2>4, <2>6
  <1>6. \A s \in Sources : fetch[l][s].list = None => fetch[l][s].error /\ ~StaleUsable(service[s])
    BY DEF CacheInv, LossExplained
  <1> QED
    BY <1>3, <1>4, <1>5, <1>6 DEF Honest

\* A step leaves what was returned, forgets it, or returns what is honest.
LEMMA StepsReturn ==
    ASSUME CacheInv, [InvNext]_invVars
    PROVE  /\ enabled' = enabled
           /\ \/ served' = served
              \/ served' = [l \in Loads |-> None]
              \/ \E l \in Loads : served' = [served EXCEPT ![l] = None]
              \/ \E l \in Loads : \E R \in [Sources -> Outcomes] :
                     Honest(R) /\ served' = [served EXCEPT ![l] = R]
  <1> DEFINE Effect ==
               /\ enabled' = enabled
               /\ \/ served' = served
                  \/ served' = [l \in Loads |-> None]
                  \/ \E l \in Loads : served' = [served EXCEPT ![l] = None]
                  \/ \E l \in Loads : \E R \in [Sources -> Outcomes] :
                         Honest(R) /\ served' = [served EXCEPT ![l] = R]
  <1> SUFFICES Effect
    OBVIOUS
  <1>1. CASE UNCHANGED invVars
    BY <1>1 DEF invVars
  <1>2. ASSUME NEW l \in Loads, BothFresh, served' = [served EXCEPT ![l] = Snapshot], enabled' = enabled
        PROVE  Effect
    <2>1. Honest(Snapshot) /\ Snapshot \in [Sources -> Outcomes]
      BY <1>2, SnapshotIsHonest DEF Honest
    <2> QED
      BY <1>2, <2>1
  <1>3. ASSUME NEW l \in Loads, LoadHit(l) PROVE Effect
    BY <1>2, <1>3 DEF LoadHit
  <1>4. ASSUME NEW l \in Loads, LoadMiss(l) PROVE Effect
    BY <1>4 DEF LoadMiss
  <1>5. ASSUME NEW l \in Loads, Enter(l) PROVE Effect
    <2>1. enabled' = enabled
      BY <1>5 DEF Enter
    <2>2. CASE BothFresh
      BY <1>2, <1>5, <2>1, <2>2 DEF Enter
    <2>3. CASE ~BothFresh
      BY <1>5, <2>1, <2>3 DEF Enter
    <2> QED
      BY <2>2, <2>3
  <1>6. ASSUME NEW l \in Loads, NEW s \in Sources,
               Begin(l, s) \/ Answer(l, s) \/ Arrive(l, s) \/ Fail(l, s)
        PROVE  Effect
    BY <1>6 DEF Begin, Answer, Arrive, Fail
  <1>7. ASSUME NEW l \in Loads, Finish(l) PROVE Effect
    <2>1. served' = [served EXCEPT ![l] = Gathered(l)] /\ enabled' = enabled
      BY <1>7 DEF Finish, Gathered
    <2>2. Honest(Gathered(l)) /\ Gathered(l) \in [Sources -> Outcomes]
      BY <1>7, GatheredIsHonest DEF Finish, Honest
    <2> QED
      BY <2>1, <2>2
  <1>8. ASSUME NEW l \in Loads, Cancel(l) PROVE Effect
    BY <1>8 DEF Cancel
  <1>9. CASE Invalidate
    BY <1>9 DEF Invalidate
  <1>10. CASE Tick
    BY <1>10 DEF Tick
  <1> HIDE DEF Effect
  <1>11. CASE InvNext
    BY <1>3, <1>4, <1>5, <1>6, <1>7, <1>8, <1>9, <1>10, <1>11 DEF InvNext, LoadStep
  <1> QED
    BY <1>1, <1>11

\* What was returned: well-formed and not too old.
ServedInv ==
    /\ enabled \in Modes
    /\ served \in [Loads -> [Sources -> Outcomes] \cup {None}]
    /\ AgeBounded

\* AgeBounded in terms of the limit.
LEMMA BoundedByLimit ==
    AgeBounded <=>
        \A l \in Loads : served[l] # None =>
            \A s \in Sources : served[l][s].list # None => served[l][s].list <= Limit(served[l][s].error)
  BY DEF AgeBounded, Limit

\* What was returned stays within the bound.
LEMMA ServedStep ==
    ASSUME CacheInv, ServedInv, [InvNext]_invVars
    PROVE  ServedInv'
  <1>1. enabled' \in Modes
    BY StepsReturn DEF ServedInv
  <1>2. served \in [Loads -> [Sources -> Outcomes] \cup {None}] /\ AgeBounded
    BY DEF ServedInv
  <1> DEFINE Kept(R) == R = None \/ (R \in [Sources -> Outcomes] /\
                 \A s \in Sources : R[s].list # None => R[s].list <= Limit(R[s].error))
  <1>3. \A l \in Loads : Kept(served[l])
    BY <1>2, BoundedByLimit
  <1>4. \A R : Honest(R) => Kept(R)
    BY DEF Honest
  <1>5. served' \in [Loads -> [Sources -> Outcomes] \cup {None}]
    BY <1>2, StepsReturn
  <1>6. Kept(None)
    OBVIOUS
  <1> HIDE DEF Kept
  <1>7. \A l \in Loads : Kept(served'[l])
    BY <1>2, <1>3, <1>4, <1>6, StepsReturn
  <1>8. AgeBounded'
    BY <1>7 DEF AgeBounded, Limit, Kept
  <1> QED
    BY <1>1, <1>5, <1>8 DEF ServedInv

\* Everything a load returned is well-formed and not too old.
LEMMA ServedInvariant == InvSpec => []ServedInv
  <1>1. InvInit => ServedInv
    <2> SUFFICES ASSUME InvInit PROVE ServedInv
      OBVIOUS
    <2>1. enabled \in Modes /\ served = [l \in Loads |-> None]
      BY DEF InvInit
    <2> QED
      BY <2>1 DEF ServedInv, AgeBounded
  <1>2. CacheInv /\ ServedInv /\ [InvNext]_invVars => ServedInv'
    BY ServedStep
  <1> QED
    BY <1>1, <1>2, CacheInvariant, PTL DEF InvSpec

-----------------------------------------------------------------------------
(* Results *)

\* Every variable of the inventory keeps its type, with any number of loads.
THEOREM InventoryTypeCorrect == InvSpec => []InvTypeOK
  <1>1. CacheInv /\ ServedInv => InvTypeOK
    <2> SUFFICES ASSUME CacheInv, ServedInv PROVE InvTypeOK
      OBVIOUS
    <2>1. queue \in Seq(Busy) /\ Busy \subseteq Loads
      BY DEF CacheInv, Locked, LinesUp, Busy
    <2>2. queue \in Seq(Loads)
      BY <2>1
    <2> QED
      BY <2>2 DEF CacheInv, InvTypes, ServedInv, InvTypeOK
  <1> QED
    BY <1>1, CacheInvariant, ServedInvariant, PTL

\* Whatever loads and cancellations coincide, InventoryService.load refreshes in
\* one task at a time, the holder of the lock, and a task waits in the line once.
THEOREM RefreshIsSingleFlight == InvSpec => []OneRefresh
  <1>1. CacheInv => OneRefresh
    <2> SUFFICES ASSUME CacheInv PROVE OneRefresh
      OBVIOUS
    <2>1. /\ queue \in Seq(Busy) /\ DOMAIN queue = 1..Len(queue)
          /\ \A t \in Busy : \E i \in 1..Len(queue) : queue[i] = t
          /\ \A i, j \in 1..Len(queue) : queue[i] = queue[j] => i = j
      <3>1. queue \in Seq(Busy)
        BY DEF CacheInv, Locked, LinesUp
      <3>2. DOMAIN queue = 1..Len(queue)
        BY <3>1
      <3>3. /\ \A t \in Busy : \E i \in 1..Len(queue) : queue[i] = t
            /\ \A i, j \in 1..Len(queue) : queue[i] = queue[j] => i = j
        BY DEF CacheInv, Locked, LinesUp
      <3> QED
        BY <3>1, <3>2, <3>3
    <2>2. \A l \in Loads : l \in Busy <=> pc[l] # "idle"
      BY DEF Busy
    <2>3. \A i \in DOMAIN queue : queue[i] \in Busy
      BY <2>1
    <2>4. \A l \in Loads : l \in Range(queue) <=> \E i \in DOMAIN queue : queue[i] = l
      BY DEF Range
    <2>5. \A l \in Loads : pc[l] # "idle" <=> l \in Range(queue)
      BY <2>1, <2>2, <2>3, <2>4
    <2> QED
      BY <2>1, <2>5 DEF CacheInv, Locked, OneRefresh
  <1> QED
    BY <1>1, CacheInvariant, PTL

\* For all times to live and time-outs, a list that load returns is no older than
\* the two caches and the requests of two loads allow, with the stale period on
\* top if an error comes with it.
THEOREM AgesAreBounded == InvSpec => []AgeBounded
  <1>1. ServedInv => AgeBounded
    BY DEF ServedInv
  <1> QED
    BY <1>1, ServedInvariant, PTL

\* load returns a source's default only with an error, and only while the service
\* has no list of that source that _source_stale_usable accepts.
THEOREM NothingIsLostInSilence == InvSpec => NoSilentLoss
  <1> DEFINE Told == \A l \in Loads : served'[l] \notin {served[l], None} =>
                        \A s \in Sources : served'[l][s].list = None =>
                            served'[l][s].error /\ ~StaleUsable(service[s])
  <1>1. ASSUME CacheInv, ServedInv, [InvNext]_invVars PROVE Told
    <2> SUFFICES ASSUME NEW l \in Loads, served'[l] \notin {served[l], None}
                 PROVE  \A s \in Sources : served'[l][s].list = None =>
                            served'[l][s].error /\ ~StaleUsable(service[s])
      OBVIOUS
    <2>1. served \in [Loads -> [Sources -> Outcomes] \cup {None}]
      BY <1>1 DEF ServedInv
    <2>2. PICK m \in Loads : \E R \in [Sources -> Outcomes] :
              Honest(R) /\ served' = [served EXCEPT ![m] = R]
      BY <1>1, <2>1, StepsReturn
    <2>3. PICK R \in [Sources -> Outcomes] : Honest(R) /\ served' = [served EXCEPT ![m] = R]
      BY <2>2
    <2>4. served'[l] = R
      BY <2>1, <2>3
    <2> QED
      BY <2>3, <2>4 DEF Honest
  <1>2. CacheInv /\ ServedInv /\ [InvNext]_invVars => [Told]_invVars
    BY <1>1
  <1> HIDE DEF Told
  <1>3. InvSpec => [][Told]_invVars
    BY <1>2, CacheInvariant, ServedInvariant, PTL DEF InvSpec
  <1> QED
    BY <1>3 DEF NoSilentLoss, Told
=============================================================================
