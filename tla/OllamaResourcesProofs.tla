------------------------- MODULE OllamaResourcesProofs -------------------------
(***************************************************************************)
(* Proofs about OllamaResources for any number of calling tasks and any    *)
(* limits: no slot of a semaphore is leaked or freed twice, and the        *)
(* manager's counters and the meter's open attempts are what they say and  *)
(* stay within the configured limits.                                      *)
(***************************************************************************)
EXTENDS OllamaResources, SequenceTheorems, FiniteSetTheorems, TLAPS

-----------------------------------------------------------------------------
(* Queues *)

\* q lines up the elements of S, each of them once.
LinesUp(q, S) ==
    /\ q \in Seq(S)
    /\ \A t \in S : \E i \in 1..Len(q) : q[i] = t
    /\ \A i, j \in 1..Len(q) : q[i] = q[j] => i = j

\* A sequence is one over any set that its elements are in.
LEMMA SeqOver ==
    ASSUME NEW S, NEW T, NEW q \in Seq(S), \A i \in 1..Len(q) : q[i] \in T
    PROVE  q \in Seq(T)
  <1>1. Len(q) \in Nat /\ q \in [1..Len(q) -> S]
    BY LenProperties
  <1>2. q \in [1..Len(q) -> T]
    BY <1>1
  <1> QED
    BY <1>1, <1>2, SeqDef

\* A line is empty when there is nobody to line up.
LEMMA LineEmpty ==
    ASSUME NEW S, NEW q, LinesUp(q, S)
    PROVE  q = <<>> <=> S = {}
  <1>1. q \in Seq(S)
    BY DEF LinesUp
  <1>2. CASE q = <<>>
    BY <1>2 DEF LinesUp
  <1>3. CASE q # <<>>
    <2>1. Head(q) \in S
      BY <1>1, <1>3
    <2> QED
      BY <1>3, <2>1
  <1> QED
    BY <1>2, <1>3

\* Somebody joins the line.
LEMMA LineAppend ==
    ASSUME NEW S, NEW q, LinesUp(q, S), NEW t, t \notin S
    PROVE  LinesUp(Append(q, t), S \cup {t})
  <1>1. q \in Seq(S)
    BY DEF LinesUp
  <1>2. q \in Seq(S \cup {t}) /\ \A i \in 1..Len(q) : q[i] \in S
    BY <1>1
  <1> DEFINE r == Append(q, t)
  <1>3. /\ r \in Seq(S \cup {t}) /\ Len(r) = Len(q) + 1 /\ r[Len(q) + 1] = t
        /\ \A i \in 1..Len(q) : r[i] = q[i]
    BY <1>2
  <1> HIDE DEF r
  <1>4. Len(q) \in Nat
    BY <1>1
  <1>5. ASSUME NEW u \in S \cup {t} PROVE \E i \in 1..Len(r) : r[i] = u
    <2>1. CASE u = t
      <3>1. Len(q) + 1 \in 1..Len(r)
        BY <1>3, <1>4
      <3> QED
        BY <1>3, <2>1, <3>1
    <2>2. CASE u \in S
      <3>1. PICK i \in 1..Len(q) : q[i] = u
        BY <2>2 DEF LinesUp
      <3>2. i \in 1..Len(r) /\ r[i] = u
        BY <1>3, <1>4, <3>1
      <3> QED
        BY <3>2
    <2> QED
      BY <2>1, <2>2
  <1>6. ASSUME NEW i \in 1..Len(r), NEW j \in 1..Len(r), r[i] = r[j] PROVE i = j
    <2>1. (i \in 1..Len(q) \/ i = Len(q) + 1) /\ (j \in 1..Len(q) \/ j = Len(q) + 1)
      BY <1>3, <1>4
    <2> QED
      BY <1>2, <1>3, <1>6, <2>1 DEF LinesUp
  <1> QED
    BY <1>3, <1>5, <1>6 DEF LinesUp, r

\* The first one leaves the line.
LEMMA LineTail ==
    ASSUME NEW S, NEW q, LinesUp(q, S), q # <<>>
    PROVE  Head(q) \in S /\ LinesUp(Tail(q), S \ {Head(q)})
  <1>1. q \in Seq(S) /\ Len(q) \in Nat /\ Len(q) > 0
    BY DEF LinesUp
  <1> DEFINE r == Tail(q)
             h == Head(q)
  <1>2. /\ h \in S /\ h = q[1] /\ r \in Seq(S) /\ Len(r) = Len(q) - 1
        /\ \A i \in 1..Len(r) : r[i] = q[i + 1]
    BY <1>1
  <1> HIDE DEF r, h
  <1>3. \A i \in 1..Len(r) : i + 1 \in 1..Len(q) /\ i + 1 # 1
    BY <1>1, <1>2
  <1>4. 1 \in 1..Len(q)
    BY <1>1
  <1>5. ASSUME NEW i \in 1..Len(r) PROVE r[i] \in S \ {h}
    <2>1. q[i + 1] = q[1] => i + 1 = 1
      BY <1>3, <1>4 DEF LinesUp
    <2>2. r[i] \in S
      BY <1>2
    <2> QED
      BY <1>2, <1>3, <2>1, <2>2
  <1>6. r \in Seq(S \ {h})
    BY <1>2, <1>5, SeqOver
  <1>7. ASSUME NEW u \in S \ {h} PROVE \E i \in 1..Len(r) : r[i] = u
    <2>1. PICK i \in 1..Len(q) : q[i] = u
      BY DEF LinesUp
    <2>2. i # 1
      BY <1>2, <2>1
    <2>3. i - 1 \in 1..Len(r) /\ (i - 1) + 1 = i
      BY <1>1, <1>2, <2>2
    <2> QED
      BY <1>2, <2>1, <2>3
  <1>8. ASSUME NEW i \in 1..Len(r), NEW j \in 1..Len(r), r[i] = r[j] PROVE i = j
    <2>1. q[i + 1] = q[j + 1]
      BY <1>2, <1>8
    <2>2. i + 1 = j + 1
      BY <1>3, <2>1 DEF LinesUp
    <2>3. i \in Int /\ j \in Int
      BY <1>1, <1>2
    <2> QED
      BY <2>2, <2>3
  <1>9. LinesUp(r, S \ {h})
    BY <1>6, <1>7, <1>8 DEF LinesUp
  <1> QED
    BY <1>2, <1>9 DEF r, h

\* Somebody leaves the line, from any place.
LEMMA LineRemove ==
    ASSUME NEW S, NEW q, LinesUp(q, S), NEW t \in S
    PROVE  LinesUp(RemoveAt(q, CHOOSE i \in DOMAIN q : q[i] = t), S \ {t})
  <1>1. q \in Seq(S) /\ Len(q) \in Nat /\ DOMAIN q = 1..Len(q)
    BY DEF LinesUp
  <1> DEFINE k == CHOOSE i \in DOMAIN q : q[i] = t
             r == RemoveAt(q, k)
  <1>2. k \in 1..Len(q) /\ q[k] = t
    BY <1>1 DEF LinesUp
  <1> HIDE DEF k
  <1>3. /\ r \in Seq(S) /\ Len(r) = Len(q) - 1
        /\ \A i \in 1..Len(r) : r[i] = IF i < k THEN q[i] ELSE q[i + 1]
    <2> DEFINE a == SubSeq(q, 1, k - 1)
               b == SubSeq(q, k + 1, Len(q))
    <2>1. a \in Seq(S) /\ Len(a) = k - 1 /\ \A i \in 1..k - 1 : a[i] = q[i]
      <3>1. k - 1 \in Int /\ 1 <= 1 /\ k - 1 <= Len(q)
        BY <1>1, <1>2
      <3>2. \A i \in 1..k - 1 : i \in 1..Len(q) /\ 1 + i - 1 = i
        BY <1>1, <1>2
      <3> QED
        BY <1>1, <1>2, <3>1, <3>2
    <2>2. b \in Seq(S) /\ Len(b) = Len(q) - k /\ \A i \in 1..Len(q) - k : b[i] = q[k + i]
      <3>1. k + 1 \in Int /\ Len(q) \in Int /\ \A i \in k + 1..Len(q) : q[i] \in S
        BY <1>1, <1>2
      <3>2. /\ b \in Seq(S) /\ Len(b) = IF k + 1 <= Len(q) THEN Len(q) - (k + 1) + 1 ELSE 0
            /\ \A i \in 1..Len(q) - (k + 1) + 1 : b[i] = q[(k + 1) + i - 1]
        BY <3>1, SubSeqProperties
      <3> HIDE DEF b
      <3>3. /\ (IF k + 1 <= Len(q) THEN Len(q) - (k + 1) + 1 ELSE 0) = Len(q) - k
            /\ Len(q) - (k + 1) + 1 = Len(q) - k
            /\ \A i \in 1..Len(q) - k : (k + 1) + i - 1 = k + i
        <4>1. k \in Int /\ Len(q) \in Int /\ k <= Len(q)
          BY <1>1, <1>2
        <4>2. \A m, n \in Int : m <= n =>
                 /\ (IF m + 1 <= n THEN n - (m + 1) + 1 ELSE 0) = n - m
                 /\ n - (m + 1) + 1 = n - m
                 /\ \A i \in 1..n - m : (m + 1) + i - 1 = m + i
          OBVIOUS
        <4> QED
          BY <4>1, <4>2
      <3>4. ASSUME NEW i \in 1..Len(q) - k PROVE b[i] = q[k + i]
        <4>1. i \in 1..Len(q) - (k + 1) + 1 /\ (k + 1) + i - 1 = k + i
          BY <3>3
        <4>2. b[i] = q[(k + 1) + i - 1]
          BY <3>2, <4>1
        <4> QED
          BY <4>1, <4>2
      <3>5. Len(b) = Len(q) - k
        BY <3>2, <3>3
      <3> QED
        BY <3>2, <3>4, <3>5
    <2>3. r = a \o b
      BY DEF RemoveAt
    <2> HIDE DEF a, b, r
    <2>4. Len(a) \in Nat /\ Len(b) \in Nat /\ Len(a) + Len(b) = Len(q) - 1
      BY <1>1, <1>2, <2>1, <2>2
    <2>5. /\ r \in Seq(S) /\ Len(r) = Len(a) + Len(b)
          /\ \A i \in 1..Len(a) + Len(b) : r[i] = IF i <= Len(a) THEN a[i] ELSE b[i - Len(a)]
      BY <2>1, <2>2, <2>3, ConcatProperties
    <2>6. ASSUME NEW i \in 1..Len(r) PROVE r[i] = IF i < k THEN q[i] ELSE q[i + 1]
      <3>1. CASE i < k
        <4>1. i <= Len(a) /\ i \in 1..k - 1
          BY <1>1, <1>2, <2>1, <2>4, <2>5, <3>1
        <4> QED
          BY <2>1, <2>5, <3>1, <4>1
      <3>2. CASE ~(i < k)
        <4>1. ~(i <= Len(a)) /\ i - Len(a) \in 1..Len(q) - k /\ k + (i - Len(a)) = i + 1
          BY <1>1, <1>2, <2>1, <2>4, <2>5, <3>2
        <4> QED
          BY <2>2, <2>5, <3>2, <4>1
      <3> QED
        BY <3>1, <3>2
    <2> QED
      BY <2>4, <2>5, <2>6
  <1> HIDE DEF r
  <1>4. \A i \in 1..Len(r) : (IF i < k THEN i ELSE i + 1) \in 1..Len(q) \ {k}
    BY <1>1, <1>2, <1>3
  <1>5. \A i \in 1..Len(r) : r[i] \in S \ {t}
    BY <1>1, <1>2, <1>3, <1>4 DEF LinesUp
  <1>6. r \in Seq(S \ {t})
    BY <1>3, <1>5, SeqOver
  <1>7. ASSUME NEW u \in S \ {t} PROVE \E i \in 1..Len(r) : r[i] = u
    <2>1. PICK j \in 1..Len(q) : q[j] = u
      BY DEF LinesUp
    <2>2. j # k
      BY <1>2, <2>1
    <2> DEFINE i == IF j < k THEN j ELSE j - 1
    <2>3. i \in 1..Len(r) /\ (IF i < k THEN i ELSE i + 1) = j
      BY <1>1, <1>2, <1>3, <2>2
    <2> HIDE DEF i
    <2>4. r[i] = u
      BY <1>3, <2>1, <2>3
    <2> QED
      BY <2>3, <2>4
  <1>8. ASSUME NEW i \in 1..Len(r), NEW j \in 1..Len(r), r[i] = r[j] PROVE i = j
    <2>1. (IF i < k THEN i ELSE i + 1) = (IF j < k THEN j ELSE j + 1)
      <3> DEFINE m == IF i < k THEN i ELSE i + 1
                 n == IF j < k THEN j ELSE j + 1
      <3>1. m \in 1..Len(q) /\ n \in 1..Len(q) /\ q[m] = r[i] /\ q[n] = r[j]
        BY <1>3, <1>4
      <3> HIDE DEF m, n
      <3>2. m = n
        BY <1>8, <3>1 DEF LinesUp
      <3> QED
        BY <3>2 DEF m, n
    <2>2. i \in Int /\ j \in Int /\ k \in Int
      BY <1>1, <1>2, <1>3
    <2> QED
      BY <2>1, <2>2
  <1>9. LinesUp(r, S \ {t})
    BY <1>6, <1>7, <1>8 DEF LinesUp
  <1> QED
    BY <1>9 DEF r, k

-----------------------------------------------------------------------------
(* Semaphores *)

\* One more.
LEMMA CardAdd ==
    ASSUME NEW S, IsFiniteSet(S), NEW t, t \notin S
    PROVE  IsFiniteSet(S \cup {t}) /\ Cardinality(S) \in Nat /\ Cardinality(S \cup {t}) = Cardinality(S) + 1
  BY FS_AddElement, FS_CardinalityType

\* One less.
LEMMA CardRemove ==
    ASSUME NEW S, IsFiniteSet(S), NEW t \in S
    PROVE  /\ IsFiniteSet(S \ {t}) /\ Cardinality(S) \in Nat /\ Cardinality(S \ {t}) \in Nat
           /\ Cardinality(S \ {t}) = Cardinality(S) - 1
  BY FS_RemoveElement, FS_CardinalityType

\* The semaphore's waiters and holders: who waits is in the queue once, who
\* holds a slot has it for himself, and nobody waits while a slot is free.
SemInv(sem, max, waiters, holders) ==
    /\ sem = [free |-> sem.free, queue |-> sem.queue] /\ sem.free \in Nat
    /\ LinesUp(sem.queue, waiters)
    /\ IsFiniteSet(holders) /\ waiters \cap holders = {}
    /\ sem.free + Cardinality(holders) = max
    /\ sem.queue # <<>> => sem.free = 0

\* The waiter that a released slot goes to, if there is one.
First(sem) == IF sem.queue = <<>> THEN {} ELSE {Head(sem.queue)}

\* A free slot is taken.
LEMMA SemTaken ==
    ASSUME NEW sem, NEW max, NEW W, NEW H, SemInv(sem, max, W, H), Available(sem),
           NEW t, t \notin W \cup H
    PROVE  SemInv(Taken(sem), max, W, H \cup {t})
  <1>1. /\ sem = [free |-> sem.free, queue |-> sem.queue] /\ sem.free \in Nat
        /\ LinesUp(sem.queue, W) /\ IsFiniteSet(H) /\ W \cap H = {}
        /\ sem.free + Cardinality(H) = max /\ sem.free > 0 /\ sem.queue = <<>>
    BY DEF SemInv, Available
  <1>2. Taken(sem) = [free |-> sem.free - 1, queue |-> sem.queue]
    BY <1>1 DEF Taken
  <1>3. Taken(sem).free = sem.free - 1 /\ Taken(sem).queue = sem.queue
    BY <1>2
  <1>4. /\ IsFiniteSet(H \cup {t}) /\ Cardinality(H) \in Nat
        /\ Cardinality(H \cup {t}) = Cardinality(H) + 1
    BY <1>1, CardAdd
  <1>5. sem.free - 1 \in Nat /\ (sem.free - 1) + Cardinality(H \cup {t}) = max
    BY <1>1, <1>4
  <1> QED
    BY <1>1, <1>2, <1>3, <1>4, <1>5 DEF SemInv

\* No slot is free: the task waits.
LEMMA SemEnqueued ==
    ASSUME NEW sem, NEW max, NEW W, NEW H, SemInv(sem, max, W, H), ~Available(sem),
           NEW t, t \notin W \cup H
    PROVE  SemInv(Enqueued(sem, t), max, W \cup {t}, H)
  <1>1. /\ sem = [free |-> sem.free, queue |-> sem.queue] /\ sem.free \in Nat
        /\ LinesUp(sem.queue, W) /\ IsFiniteSet(H) /\ W \cap H = {}
        /\ sem.free + Cardinality(H) = max /\ (sem.queue # <<>> => sem.free = 0)
    BY DEF SemInv
  <1>2. sem.free = 0
    BY <1>1 DEF Available
  <1>3. Enqueued(sem, t) = [free |-> sem.free, queue |-> Append(sem.queue, t)]
    BY <1>1 DEF Enqueued
  <1>4. Enqueued(sem, t).free = sem.free /\ Enqueued(sem, t).queue = Append(sem.queue, t)
    BY <1>3
  <1>5. LinesUp(Append(sem.queue, t), W \cup {t})
    BY <1>1, LineAppend
  <1> QED
    BY <1>1, <1>2, <1>3, <1>4, <1>5 DEF SemInv

\* A cancelled waiter leaves the queue.
LEMMA SemDequeued ==
    ASSUME NEW sem, NEW max, NEW W, NEW H, SemInv(sem, max, W, H), NEW t \in W
    PROVE  SemInv(Dequeued(sem, t), max, W \ {t}, H)
  <1>1. /\ sem = [free |-> sem.free, queue |-> sem.queue] /\ sem.free \in Nat
        /\ LinesUp(sem.queue, W) /\ IsFiniteSet(H) /\ W \cap H = {}
        /\ sem.free + Cardinality(H) = max /\ (sem.queue # <<>> => sem.free = 0)
    BY DEF SemInv
  <1>2. sem.free = 0
    BY <1>1, LineEmpty
  <1> DEFINE rest == RemoveAt(sem.queue, CHOOSE i \in DOMAIN sem.queue : sem.queue[i] = t)
  <1>3. LinesUp(rest, W \ {t})
    BY <1>1, LineRemove
  <1>4. Dequeued(sem, t) = [sem EXCEPT !.queue = rest]
    BY DEF Dequeued
  <1> HIDE DEF rest
  <1>5. Dequeued(sem, t) = [free |-> sem.free, queue |-> rest]
    BY <1>1, <1>4
  <1>6. Dequeued(sem, t).free = sem.free /\ Dequeued(sem, t).queue = rest
    BY <1>5
  <1> QED
    BY <1>1, <1>2, <1>3, <1>5, <1>6 DEF SemInv

\* Who is woken has waited.
LEMMA SemFirst ==
    ASSUME NEW sem, NEW max, NEW W, NEW H, SemInv(sem, max, W, H)
    PROVE  First(sem) \subseteq W
  <1>1. LinesUp(sem.queue, W)
    BY DEF SemInv
  <1> QED
    BY <1>1, LineTail DEF First

\* A slot that is given back goes to the first waiter, if there is one.
LEMMA SemReleased ==
    ASSUME NEW sem, NEW max, NEW W, NEW H, SemInv(sem, max, W, H), NEW t \in H
    PROVE  SemInv(Released(sem), max, W \ First(sem), (H \ {t}) \cup First(sem))
  <1>1. /\ sem = [free |-> sem.free, queue |-> sem.queue] /\ sem.free \in Nat
        /\ LinesUp(sem.queue, W) /\ IsFiniteSet(H) /\ W \cap H = {}
        /\ sem.free + Cardinality(H) = max /\ (sem.queue # <<>> => sem.free = 0)
    BY DEF SemInv
  <1>2. /\ IsFiniteSet(H \ {t}) /\ Cardinality(H) \in Nat /\ Cardinality(H \ {t}) \in Nat
        /\ Cardinality(H \ {t}) = Cardinality(H) - 1
    BY <1>1, CardRemove
  <1>3. CASE sem.queue = <<>>
    <2>1. Released(sem) = [free |-> sem.free + 1, queue |-> sem.queue]
      BY <1>1, <1>3 DEF Released
    <2>2. Released(sem).free = sem.free + 1 /\ Released(sem).queue = sem.queue
      BY <2>1
    <2>3. sem.free + 1 \in Nat /\ (sem.free + 1) + Cardinality(H \ {t}) = max
      BY <1>1, <1>2
    <2>4. W \ First(sem) = W /\ (H \ {t}) \cup First(sem) = H \ {t}
      BY <1>3 DEF First
    <2>5. SemInv(Released(sem), max, W, H \ {t})
      BY <1>1, <1>2, <1>3, <2>1, <2>2, <2>3 DEF SemInv
    <2> QED
      BY <2>4, <2>5
  <1>4. CASE sem.queue # <<>>
    <2> DEFINE h == Head(sem.queue)
    <2>1. h \in W /\ LinesUp(Tail(sem.queue), W \ {h})
      BY <1>1, <1>4, LineTail
    <2>2. First(sem) = {h}
      BY <1>4 DEF First
    <2> HIDE DEF h
    <2>3. Released(sem) = [free |-> sem.free, queue |-> Tail(sem.queue)]
      BY <1>1, <1>4 DEF Released
    <2>4. Released(sem).free = sem.free /\ Released(sem).queue = Tail(sem.queue)
      BY <2>3
    <2>5. h \notin H \ {t}
      BY <1>1, <2>1
    <2>6. /\ IsFiniteSet((H \ {t}) \cup {h})
          /\ Cardinality((H \ {t}) \cup {h}) = Cardinality(H \ {t}) + 1
      BY <1>2, <2>5, CardAdd
    <2>7. Cardinality((H \ {t}) \cup {h}) = Cardinality(H)
      BY <1>2, <2>6
    <2>8. SemInv(Released(sem), max, W \ {h}, (H \ {t}) \cup {h})
      BY <1>1, <1>4, <2>1, <2>3, <2>4, <2>6, <2>7 DEF SemInv
    <2> QED
      BY <2>2, <2>8
  <1> QED
    BY <1>3, <1>4

\* Where the tasks are when the first waiter was woken.
LEMMA WokenAt ==
    ASSUME NEW places \in [Tasks -> Places], NEW sem, First(sem) \subseteq Tasks, NEW place \in Places
    PROVE  /\ Woken(places, sem, place) \in [Tasks -> Places]
           /\ \A u \in Tasks : Woken(places, sem, place)[u] =
                                  IF u \in First(sem) THEN place ELSE places[u]
  BY DEF Woken, First

-----------------------------------------------------------------------------
(* The inductive invariant *)

\* The holders of the slots of the two semaphores.
HoldAll == At({"got_all", "wait_heavy", "got_heavy", "calling"})
HoldHeavy == At({"got_heavy"}) \cup (At({"calling"}) \cap Heavy)

AllSlots == SemInv(all, MaxAll, At({"wait_all"}), HoldAll)

HeavySlots ==
    /\ SemInv(heavy, MaxHeavy, At({"wait_heavy"}), HoldHeavy)
    /\ At({"wait_heavy", "got_heavy"}) \subseteq Heavy

\* active only ever falls short: FreeTotal lowers it for calls that never ran.
Counted ==
    /\ queued = Cardinality(At(Waiting))
    /\ active_heavy = Cardinality(At({"calling"}) \cap Heavy)
    /\ active \in Nat /\ active <= Cardinality(At({"calling"}))

Metered == unfinished = Cardinality(At(Waiting \cup {"calling"}))

ResInv == pc \in [Tasks -> Places] /\ AllSlots /\ HeavySlots /\ Counted /\ Metered

\* Sets of tasks can be counted.
LEMMA PartsAreFinite ==
    ASSUME NEW S, S \subseteq Tasks
    PROVE  IsFiniteSet(S) /\ Cardinality(S) \in Nat
  BY ResourceAssumption, FS_Subset, FS_CardinalityType

\* Where the tasks are after a step, for every set of places.
LEMMA AtPrimed ==
    ASSUME NEW P
    PROVE  At(P)' = {t \in Tasks : pc'[t] \in P} /\ At(P) \subseteq Tasks
  BY DEF At

\* The initial states.
LEMMA ResInitially == ResInit => ResInv
  <1> SUFFICES ASSUME ResInit PROVE ResInv
    OBVIOUS
  <1>1. pc \in [Tasks -> Places]
    BY DEF ResInit, Places
  <1>2. /\ At({"wait_all"}) = {} /\ At({"wait_heavy"}) = {} /\ HoldAll = {} /\ HoldHeavy = {}
        /\ At({"wait_heavy", "got_heavy"}) = {} /\ At(Waiting) = {} /\ At({"calling"}) = {}
        /\ At(Waiting \cup {"calling"}) = {}
    BY DEF ResInit, At, HoldAll, HoldHeavy, Waiting
  <1>3. IsFiniteSet({}) /\ Cardinality({}) = 0
    BY FS_EmptySet
  <1>4. LinesUp(<<>>, {})
    BY DEF LinesUp
  <1>5. ASSUME NEW max \in Nat PROVE SemInv([free |-> max, queue |-> <<>>], max, {}, {})
    BY <1>3, <1>4 DEF SemInv
  <1>6. AllSlots /\ HeavySlots
    BY <1>2, <1>5, ResourceAssumption DEF ResInit, AllSlots, HeavySlots
  <1>7. {} \cap Heavy = {}
    OBVIOUS
  <1>8. /\ Cardinality(At(Waiting)) = 0 /\ Cardinality(At({"calling"}) \cap Heavy) = 0
        /\ Cardinality(At({"calling"})) = 0 /\ Cardinality(At(Waiting \cup {"calling"})) = 0
    BY <1>2, <1>3, <1>7, Zenon
  <1>9. Counted /\ Metered
    BY <1>8 DEF ResInit, Counted, Metered
  <1> QED
    BY <1>1, <1>6, <1>9 DEF ResInv

\* A task that holds its total slot goes on: the heavy semaphore and the
\* counters.  n is the number of queued calls with this one.
LEMMA AfterAllStep ==
    ASSUME ResInv, NEW t \in Tasks, pc[t] \in {"idle", "got_all"},
           NEW n, n = Cardinality(At(Waiting) \ {t}) + 1, AfterAll(t, n)
    PROVE  /\ pc' \in [Tasks -> Places] /\ HeavySlots' /\ Counted'
           /\ pc'[t] \in {"calling", "wait_heavy"}
           /\ \A u \in Tasks \ {t} : pc'[u] = pc[u]
  <1> USE AtPrimed
  <1>1. /\ pc \in [Tasks -> Places] /\ Heavy \subseteq Tasks
        /\ SemInv(heavy, MaxHeavy, At({"wait_heavy"}), HoldHeavy)
        /\ At({"wait_heavy", "got_heavy"}) \subseteq Heavy
    BY ResourceAssumption DEF ResInv, HeavySlots
  <1>2. \E x \in {"calling", "wait_heavy"} : pc' = [pc EXCEPT ![t] = x]
    BY DEF AfterAll, Admit
  <1>3. /\ pc' \in [Tasks -> Places] /\ pc'[t] \in {"calling", "wait_heavy"}
        /\ \A u \in Tasks \ {t} : pc'[u] = pc[u]
    BY <1>1, <1>2 DEF Places, Waiting
  <1>4. t \notin At({"wait_heavy"}) \cup HoldHeavy
    BY DEF At, HoldHeavy
  <1> DEFINE C == At({"calling"})
             Q == At(Waiting)
  <1>5. t \notin C /\ C \subseteq Tasks /\ Q \subseteq Tasks
    BY DEF At
  <1>6. /\ IsFiniteSet(C) /\ IsFiniteSet(Q \ {t}) /\ IsFiniteSet(C \cap Heavy)
        /\ Cardinality(C) \in Nat /\ Cardinality(Q \ {t}) \in Nat /\ Cardinality(C \cap Heavy) \in Nat
    BY <1>1, <1>5, PartsAreFinite
  <1>7. active_heavy = Cardinality(C \cap Heavy) /\ active \in Nat /\ active <= Cardinality(C)
    BY DEF ResInv, Counted
  <1>8. ASSUME Admit(t, n), t \in Heavy => SemInv(heavy', MaxHeavy, At({"wait_heavy"}), HoldHeavy \cup {t}),
               t \notin Heavy => heavy' = heavy
        PROVE  HeavySlots' /\ Counted'
    <2>1. pc'[t] = "calling"
      BY <1>1, <1>8 DEF Admit
    <2>2. /\ At({"wait_heavy"})' = At({"wait_heavy"})
          /\ At({"wait_heavy", "got_heavy"})' \subseteq At({"wait_heavy", "got_heavy"})
          /\ C' = C \cup {t} /\ Q' = Q \ {t}
          /\ HoldHeavy' = IF t \in Heavy THEN HoldHeavy \cup {t} ELSE HoldHeavy
          /\ C' \cap Heavy = IF t \in Heavy THEN (C \cap Heavy) \cup {t} ELSE C \cap Heavy
      BY <1>3, <1>5, <2>1 DEF At, HoldHeavy, Waiting
    <2>3. HeavySlots'
      BY <1>1, <1>8, <2>2 DEF HeavySlots
    <2>4. Cardinality(C \cup {t}) = Cardinality(C) + 1
      BY <1>5, <1>6, CardAdd
    <2>5. Cardinality((C \cap Heavy) \cup {t}) = Cardinality(C \cap Heavy) + 1
      BY <1>5, <1>6, CardAdd
    <2>6. queued' = Cardinality(Q \ {t})
      BY <1>6, <1>8 DEF Admit
    <2>7. active_heavy' = Cardinality(C' \cap Heavy)
      BY <1>7, <1>8, <2>2, <2>5 DEF Admit
    <2>8. active' \in Nat /\ active' <= Cardinality(C')
      <3>1. active' = active + 1
        BY <1>8 DEF Admit
      <3>2. Cardinality(C') = Cardinality(C) + 1
        BY <2>2, <2>4, Zenon
      <3> HIDE DEF C
      <3> QED
        BY <1>6, <1>7, <3>1, <3>2
    <2> QED
      BY <2>2, <2>3, <2>6, <2>7, <2>8 DEF Counted
  <1>9. CASE t \notin Heavy /\ Admit(t, n) /\ UNCHANGED heavy
    BY <1>3, <1>8, <1>9
  <1>10. CASE t \in Heavy /\ Available(heavy) /\ heavy' = Taken(heavy) /\ Admit(t, n)
    <2>1. SemInv(heavy', MaxHeavy, At({"wait_heavy"}), HoldHeavy \cup {t})
      BY <1>1, <1>4, <1>10, SemTaken
    <2> QED
      BY <1>3, <1>8, <1>10, <2>1
  <1>11. CASE /\ t \in Heavy /\ ~Available(heavy) /\ heavy' = Enqueued(heavy, t)
              /\ pc' = [pc EXCEPT ![t] = "wait_heavy"]
              /\ queued' = n /\ UNCHANGED <<active, active_heavy>>
    <2>1. SemInv(heavy', MaxHeavy, At({"wait_heavy"}) \cup {t}, HoldHeavy)
      BY <1>1, <1>4, <1>11, SemEnqueued
    <2>2. pc'[t] = "wait_heavy"
      BY <1>1, <1>11
    <2>3. /\ At({"wait_heavy"})' = At({"wait_heavy"}) \cup {t}
          /\ At({"wait_heavy", "got_heavy"})' \subseteq At({"wait_heavy", "got_heavy"}) \cup {t}
          /\ C' = C /\ Q' = (Q \ {t}) \cup {t} /\ HoldHeavy' = HoldHeavy
      BY <1>3, <1>5, <2>2 DEF At, HoldHeavy, Waiting
    <2>4. HeavySlots'
      BY <1>1, <1>11, <2>1, <2>3 DEF HeavySlots
    <2>5. Cardinality((Q \ {t}) \cup {t}) = Cardinality(Q \ {t}) + 1
      BY <1>6, CardAdd
    <2>6. Counted'
      BY <1>7, <1>11, <2>3, <2>5 DEF Counted
    <2> QED
      BY <1>3, <2>4, <2>6
  <1> QED
    BY <1>9, <1>10, <1>11 DEF AfterAll

\* The attempts of the meter when a call begins.
LEMMA MeteredMore ==
    ASSUME ResInv, NEW t \in Tasks, pc[t] = "idle", pc'[t] \in Waiting \cup {"calling"},
           \A u \in Tasks \ {t} : pc'[u] = pc[u], unfinished' = unfinished + 1
    PROVE  Metered'
  <1> DEFINE U == At(Waiting \cup {"calling"})
  <1>1. U' = U \cup {t} /\ t \notin U /\ U \subseteq Tasks
    BY DEF At, Waiting
  <1>2. Cardinality(U \cup {t}) = Cardinality(U) + 1
    BY <1>1, PartsAreFinite, CardAdd
  <1> QED
    BY <1>1, <1>2 DEF ResInv, Metered

\* A call takes a slot or waits for one.
LEMMA BeginStep ==
    ASSUME ResInv, NEW t \in Tasks, Begin(t)
    PROVE  ResInv'
  <1>1. /\ pc \in [Tasks -> Places] /\ pc[t] = "idle" /\ unfinished' = unfinished + 1
        /\ SemInv(all, MaxAll, At({"wait_all"}), HoldAll)
    BY DEF ResInv, AllSlots, Begin
  <1>2. t \notin At({"wait_all"}) \cup HoldAll
    BY <1>1 DEF At, HoldAll
  <1>3. CASE Available(all) /\ all' = Taken(all) /\ AfterAll(t, queued + 1)
    <2>1. At(Waiting) \ {t} = At(Waiting)
      BY <1>1 DEF At, Waiting
    <2>2. queued + 1 = Cardinality(At(Waiting) \ {t}) + 1
      BY <2>1 DEF ResInv, Counted
    <2>3. /\ pc' \in [Tasks -> Places] /\ HeavySlots' /\ Counted'
          /\ pc'[t] \in {"calling", "wait_heavy"}
          /\ \A u \in Tasks \ {t} : pc'[u] = pc[u]
      BY <1>1, <1>3, <2>2, AfterAllStep
    <2>4. At({"wait_all"})' = At({"wait_all"}) /\ HoldAll' = HoldAll \cup {t}
      BY <1>1, <2>3 DEF At, HoldAll
    <2>5. SemInv(all', MaxAll, At({"wait_all"}), HoldAll \cup {t})
      BY <1>1, <1>2, <1>3, SemTaken
    <2>6. AllSlots'
      BY <2>4, <2>5 DEF AllSlots
    <2>7. Metered'
      BY <1>1, <2>3, MeteredMore DEF Waiting
    <2> QED
      BY <2>3, <2>6, <2>7 DEF ResInv
  <1>4. CASE /\ ~Available(all) /\ all' = Enqueued(all, t) /\ pc' = [pc EXCEPT ![t] = "wait_all"]
             /\ queued' = queued + 1 /\ UNCHANGED <<heavy, active, active_heavy>>
    <2>1. /\ pc' \in [Tasks -> Places] /\ pc'[t] = "wait_all"
          /\ \A u \in Tasks \ {t} : pc'[u] = pc[u]
      BY <1>1, <1>4 DEF Places, Waiting
    <2>2. /\ At({"wait_all"})' = At({"wait_all"}) \cup {t} /\ HoldAll' = HoldAll
          /\ At({"wait_heavy"})' = At({"wait_heavy"}) /\ HoldHeavy' = HoldHeavy
          /\ At({"wait_heavy", "got_heavy"})' = At({"wait_heavy", "got_heavy"})
          /\ At({"calling"})' = At({"calling"})
          /\ At(Waiting)' = At(Waiting) \cup {t} /\ t \notin At(Waiting) /\ At(Waiting) \subseteq Tasks
      BY <1>1, <2>1 DEF At, HoldAll, HoldHeavy, Waiting
    <2>3. SemInv(all', MaxAll, At({"wait_all"}) \cup {t}, HoldAll)
      BY <1>1, <1>2, <1>4, SemEnqueued
    <2>4. AllSlots' /\ HeavySlots'
      BY <1>4, <2>2, <2>3 DEF AllSlots, HeavySlots, ResInv
    <2>5. Cardinality(At(Waiting) \cup {t}) = Cardinality(At(Waiting)) + 1
      BY <2>2, PartsAreFinite, CardAdd
    <2>6. Counted'
      BY <1>4, <2>2, <2>5 DEF Counted, ResInv
    <2>7. Metered'
      BY <1>1, <2>1, MeteredMore DEF Waiting
    <2> QED
      BY <2>1, <2>4, <2>6, <2>7 DEF ResInv
  <1> QED
    BY <1>3, <1>4 DEF Begin

\* A call that was handed a slot goes on, to _heavy or to the server.
LEMMA ProceedStep ==
    ASSUME ResInv, NEW t \in Tasks, Proceed(t)
    PROVE  ResInv'
  <1>1. /\ pc \in [Tasks -> Places] /\ all' = all /\ unfinished' = unfinished
        /\ At({"wait_heavy", "got_heavy"}) \subseteq Heavy /\ Heavy \subseteq Tasks
    BY ResourceAssumption DEF ResInv, HeavySlots, Proceed
  <1>2. ASSUME pc[t] \in {"got_all", "got_heavy"}, pc' \in [Tasks -> Places],
               pc'[t] \in {"calling", "wait_heavy"}, \A u \in Tasks \ {t} : pc'[u] = pc[u]
        PROVE  AllSlots' /\ Metered'
    <2>1. At({"wait_all"})' = At({"wait_all"}) /\ HoldAll' = HoldAll
          /\ At(Waiting \cup {"calling"})' = At(Waiting \cup {"calling"})
      BY <1>2 DEF At, HoldAll, Waiting
    <2> QED
      BY <1>1, <2>1 DEF AllSlots, Metered, ResInv
  <1> DEFINE Q == At(Waiting)
             C == At({"calling"})
  <1>3. Q \subseteq Tasks /\ C \subseteq Tasks
    BY DEF At
  <1>4. IsFiniteSet(Q) /\ IsFiniteSet(C) /\ IsFiniteSet(C \cap Heavy)
        /\ Cardinality(Q) \in Nat /\ Cardinality(C) \in Nat
    BY <1>1, <1>3, PartsAreFinite
  <1>5. CASE pc[t] = "got_all" /\ AfterAll(t, queued)
    <2>1. t \in Q
      BY <1>5 DEF At, Waiting
    <2>2. Cardinality(Q \ {t}) = Cardinality(Q) - 1 /\ Cardinality(Q \ {t}) \in Nat
      BY <1>4, <2>1, CardRemove
    <2>3. queued = Cardinality(Q \ {t}) + 1
      BY <1>4, <2>2 DEF ResInv, Counted
    <2>4. /\ pc' \in [Tasks -> Places] /\ HeavySlots' /\ Counted'
          /\ pc'[t] \in {"calling", "wait_heavy"}
          /\ \A u \in Tasks \ {t} : pc'[u] = pc[u]
      BY <1>5, <2>3, AfterAllStep
    <2> QED
      BY <1>2, <1>5, <2>4 DEF ResInv
  <1>6. CASE pc[t] = "got_heavy" /\ Admit(t, queued) /\ UNCHANGED heavy
    <2>1. /\ pc' \in [Tasks -> Places] /\ pc'[t] = "calling" /\ \A u \in Tasks \ {t} : pc'[u] = pc[u]
      BY <1>1, <1>6 DEF Admit, Places
    <2>2. t \in Heavy
      BY <1>1, <1>6 DEF At
    <2>3. /\ t \in Q /\ t \notin C /\ Q' = Q \ {t} /\ C' = C \cup {t}
          /\ C' \cap Heavy = (C \cap Heavy) \cup {t}
          /\ At({"wait_heavy"})' = At({"wait_heavy"}) /\ HoldHeavy' = HoldHeavy
          /\ At({"wait_heavy", "got_heavy"})' \subseteq At({"wait_heavy", "got_heavy"})
      BY <1>6, <2>1, <2>2 DEF At, Waiting, HoldHeavy
    <2>4. HeavySlots'
      BY <1>6, <2>3 DEF ResInv, HeavySlots
    <2>5. Cardinality(Q \ {t}) = Cardinality(Q) - 1
      BY <1>4, <2>3, CardRemove
    <2>6. Cardinality(C \cup {t}) = Cardinality(C) + 1
      BY <1>4, <2>3, CardAdd
    <2>7. Cardinality((C \cap Heavy) \cup {t}) = Cardinality(C \cap Heavy) + 1
      BY <1>4, <2>3, CardAdd
    <2>8. queued' = Cardinality(Q') /\ active_heavy' = Cardinality(C' \cap Heavy)
      BY <1>6, <2>2, <2>3, <2>5, <2>7 DEF ResInv, Counted, Admit
    <2>9. active' \in Nat /\ active' <= Cardinality(C')
      <3>1. active' = active + 1 /\ active \in Nat /\ active <= Cardinality(C)
        BY <1>6 DEF ResInv, Counted, Admit
      <3>2. Cardinality(C') = Cardinality(C) + 1
        BY <2>3, <2>6, Zenon
      <3> HIDE DEF C
      <3> QED
        BY <1>4, <3>1, <3>2
    <2> QED
      BY <1>2, <1>6, <2>1, <2>4, <2>8, <2>9 DEF ResInv, Counted
  <1> QED
    BY <1>5, <1>6 DEF Proceed

\* Task t goes, and the slots it held go to the waiters FA and FH.
Goes(t, FA, FH) ==
    /\ pc' \in [Tasks -> Places] /\ pc'[t] = "idle"
    /\ \A u \in Tasks \ {t} : pc'[u] = IF u \in FA THEN "got_all"
                                       ELSE IF u \in FH THEN "got_heavy" ELSE pc[u]

\* Who waits and who holds after a task has left and others were woken.
LEMMA GoesSets ==
    ASSUME ResInv, NEW t \in Tasks, NEW FA, NEW FH, FA \subseteq At({"wait_all"}) \ {t},
           FH \subseteq At({"wait_heavy"}) \ {t}, Goes(t, FA, FH)
    PROVE  /\ At({"wait_all"})' = At({"wait_all"}) \ (FA \cup {t})
           /\ HoldAll' = (HoldAll \ {t}) \cup FA
           /\ At({"wait_heavy"})' = At({"wait_heavy"}) \ (FH \cup {t})
           /\ HoldHeavy' = (HoldHeavy \ {t}) \cup FH
           /\ At({"wait_heavy", "got_heavy"})' \subseteq At({"wait_heavy", "got_heavy"})
           /\ At(Waiting)' = At(Waiting) \ {t}
           /\ At({"calling"})' = At({"calling"}) \ {t}
           /\ At(Waiting \cup {"calling"})' = At(Waiting \cup {"calling"}) \ {t}
  <1>1. \A u \in FA : u \in Tasks /\ pc[u] = "wait_all"
    BY DEF At
  <1>2. \A u \in FH : u \in Tasks /\ pc[u] = "wait_heavy"
    BY DEF At
  <1>3. \A u \in Tasks :
           /\ u = t => pc'[u] = "idle"
           /\ u \in FA => pc'[u] = "got_all" /\ pc[u] = "wait_all" /\ u # t /\ u \notin FH
           /\ u \in FH => pc'[u] = "got_heavy" /\ pc[u] = "wait_heavy" /\ u # t
           /\ u \notin FA \cup FH \cup {t} => pc'[u] = pc[u]
    BY <1>1, <1>2 DEF Goes
  <1>4. At({"wait_all"})' = At({"wait_all"}) \ (FA \cup {t})
        /\ At({"wait_heavy"})' = At({"wait_heavy"}) \ (FH \cup {t})
    BY <1>1, <1>2, <1>3 DEF At
  <1>5. HoldAll' = (HoldAll \ {t}) \cup FA
    BY <1>1, <1>2, <1>3 DEF At, HoldAll
  <1>6. HoldHeavy' = (HoldHeavy \ {t}) \cup FH
    BY <1>1, <1>2, <1>3 DEF At, HoldHeavy
  <1>7. At({"wait_heavy", "got_heavy"})' \subseteq At({"wait_heavy", "got_heavy"})
        /\ At({"calling"})' = At({"calling"}) \ {t}
    BY <1>1, <1>2, <1>3 DEF At
  <1>8. At(Waiting)' = At(Waiting) \ {t}
        /\ At(Waiting \cup {"calling"})' = At(Waiting \cup {"calling"}) \ {t}
    BY <1>1, <1>2, <1>3 DEF At, Waiting
  <1> QED
    BY <1>4, <1>5, <1>6, <1>7, <1>8

\* The counters when a call that waited or ran has gone.
LEMMA GoesCounts ==
    ASSUME ResInv, NEW t \in Tasks, pc[t] \in Waiting \cup {"calling"},
           At(Waiting)' = At(Waiting) \ {t}, At({"calling"})' = At({"calling"}) \ {t},
           At(Waiting \cup {"calling"})' = At(Waiting \cup {"calling"}) \ {t},
           unfinished' = unfinished - 1,
           queued' = IF pc[t] = "calling" THEN queued ELSE queued - 1,
           active_heavy' = IF pc[t] = "calling" /\ t \in Heavy THEN active_heavy - 1 ELSE active_heavy,
           \/ active' = IF active > 0 THEN active - 1 ELSE active
           \/ active' = active /\ pc[t] # "calling"
    PROVE  Counted' /\ Metered'
  <1> DEFINE Q == At(Waiting)
             C == At({"calling"})
             U == At(Waiting \cup {"calling"})
  <1>1. Q \subseteq Tasks /\ C \subseteq Tasks /\ U \subseteq Tasks /\ C \cap Heavy \subseteq Tasks
        /\ t \in U /\ (t \in C <=> pc[t] = "calling") /\ (t \in Q <=> pc[t] # "calling")
    BY DEF At, Waiting
  <1>2. /\ queued = Cardinality(Q) /\ active_heavy = Cardinality(C \cap Heavy)
        /\ active \in Nat /\ active <= Cardinality(C) /\ unfinished = Cardinality(U)
    BY DEF ResInv, Counted, Metered
  <1>3. Q' = Q \ {t} /\ C' = C \ {t} /\ U' = U \ {t} /\ C' \cap Heavy = (C \cap Heavy) \ {t}
    OBVIOUS
  <1> HIDE DEF Q, C, U
  <1>4. /\ IsFiniteSet(Q) /\ IsFiniteSet(C) /\ IsFiniteSet(U) /\ IsFiniteSet(C \cap Heavy)
        /\ Cardinality(C) \in Nat
    BY <1>1, PartsAreFinite
  <1>5. Cardinality(U \ {t}) = Cardinality(U) - 1
    BY <1>1, <1>4, CardRemove
  <1>6. queued' = Cardinality(Q \ {t})
    <2>1. CASE pc[t] = "calling"
      <3>1. Q \ {t} = Q
        BY <1>1, <2>1
      <3> QED
        BY <1>2, <2>1, <3>1
    <2>2. CASE pc[t] # "calling"
      <3>1. Cardinality(Q \ {t}) = Cardinality(Q) - 1
        BY <1>1, <1>4, <2>2, CardRemove
      <3> QED
        BY <1>2, <2>2, <3>1
    <2> QED
      BY <2>1, <2>2
  <1>7. active_heavy' = Cardinality((C \cap Heavy) \ {t})
    <2>1. CASE pc[t] = "calling" /\ t \in Heavy
      <3>1. Cardinality((C \cap Heavy) \ {t}) = Cardinality(C \cap Heavy) - 1
        BY <1>1, <1>4, <2>1, CardRemove
      <3> QED
        BY <1>2, <2>1, <3>1
    <2>2. CASE ~(pc[t] = "calling" /\ t \in Heavy)
      <3>1. (C \cap Heavy) \ {t} = C \cap Heavy
        BY <1>1, <2>2
      <3> QED
        BY <1>2, <2>2, <3>1
    <2> QED
      BY <2>1, <2>2
  <1>8. active' \in Nat /\ active' <= Cardinality(C \ {t})
    <2>1. CASE pc[t] = "calling"
      <3>1. Cardinality(C \ {t}) = Cardinality(C) - 1 /\ Cardinality(C \ {t}) \in Nat
        BY <1>1, <1>4, <2>1, CardRemove
      <3> DEFINE k == Cardinality(C)
      <3>2. k \in Nat /\ k - 1 \in Nat /\ active \in Nat /\ active <= k
            /\ Cardinality(C \ {t}) = k - 1
        BY <1>2, <1>4, <3>1
      <3> HIDE DEF k
      <3>3. CASE active > 0
        <4>1. active' = active - 1
          BY <2>1, <3>3
        <4>2. active - 1 \in Nat /\ active - 1 <= k - 1
          BY <3>2, <3>3
        <4> QED
          BY <3>2, <4>1, <4>2
      <3>4. CASE ~(active > 0)
        <4>1. active' = active
          BY <2>1, <3>4
        <4>2. active <= k - 1
          BY <3>2, <3>4
        <4> QED
          BY <3>2, <4>1, <4>2
      <3> QED
        BY <3>3, <3>4
    <2>2. CASE pc[t] # "calling"
      <3>1. C \ {t} = C
        BY <1>1, <2>2
      <3> DEFINE k == Cardinality(C)
      <3>2. k \in Nat /\ active \in Nat /\ active <= k /\ Cardinality(C \ {t}) = k
        BY <1>2, <1>4, <3>1
      <3> HIDE DEF k
      <3>3. CASE active' = active
        BY <3>2, <3>3
      <3>4. CASE active' # active
        <4>1. active > 0 /\ active' = active - 1
          BY <3>4
        <4>2. active - 1 \in Nat /\ active - 1 <= k
          BY <3>2, <4>1
        <4> QED
          BY <3>2, <4>1, <4>2
      <3> QED
        BY <3>3, <3>4
    <2> QED
      BY <2>1, <2>2
  <1>9. Counted'
    BY <1>3, <1>6, <1>7, <1>8 DEF Counted, Q, C
  <1>10. Metered'
    BY <1>2, <1>3, <1>5 DEF Metered, U
  <1> QED
    BY <1>9, <1>10

\* The call returns or is cancelled, and its slots go to the next.
LEMMA ReturnStep ==
    ASSUME ResInv, NEW t \in Tasks, Return(t)
    PROVE  ResInv'
  <1> DEFINE FA == First(all)
             FH == IF t \in Heavy THEN First(heavy) ELSE {}
             places == [pc EXCEPT ![t] = "idle"]
             woken == IF t \in Heavy THEN Woken(places, heavy, "got_heavy") ELSE places
  <1>1. /\ pc \in [Tasks -> Places] /\ pc[t] = "calling"
        /\ SemInv(all, MaxAll, At({"wait_all"}), HoldAll)
        /\ SemInv(heavy, MaxHeavy, At({"wait_heavy"}), HoldHeavy)
        /\ At({"wait_heavy", "got_heavy"}) \subseteq Heavy
    BY DEF ResInv, AllSlots, HeavySlots, Return
  <1>2. /\ all' = Released(all) /\ heavy' = IF t \in Heavy THEN Released(heavy) ELSE heavy
        /\ pc' = Woken(woken, all, "got_all")
        /\ active_heavy' = (IF t \in Heavy THEN active_heavy - 1 ELSE active_heavy)
        /\ active' = (IF active > 0 THEN active - 1 ELSE active)
        /\ unfinished' = unfinished - 1 /\ queued' = queued
    BY DEF Return, FreeTotal
  <1>3. FA \subseteq At({"wait_all"}) /\ First(heavy) \subseteq At({"wait_heavy"})
    BY <1>1, SemFirst
  <1>4. /\ FA \subseteq At({"wait_all"}) \ {t} /\ FH \subseteq At({"wait_heavy"}) \ {t}
        /\ FA \subseteq Tasks /\ First(heavy) \subseteq Tasks
    BY <1>1, <1>3 DEF At
  <1>5. Goes(t, FA, FH)
    <2>1. places \in [Tasks -> Places] /\ "got_heavy" \in Places /\ "got_all" \in Places
          /\ \A u \in Tasks : places[u] = IF u = t THEN "idle" ELSE pc[u]
      BY <1>1 DEF Places, Waiting
    <2> HIDE DEF places
    <2>2. woken \in [Tasks -> Places]
          /\ \A u \in Tasks : woken[u] = IF u \in FH THEN "got_heavy" ELSE places[u]
      BY <1>4, <2>1, WokenAt
    <2> HIDE DEF woken
    <2>3. /\ pc' \in [Tasks -> Places]
          /\ \A u \in Tasks : pc'[u] = IF u \in FA THEN "got_all" ELSE woken[u]
      <3>1. First(all) \subseteq Tasks
        BY <1>4
      <3>2. /\ Woken(woken, all, "got_all") \in [Tasks -> Places]
            /\ \A u \in Tasks : Woken(woken, all, "got_all")[u]
                                  = IF u \in First(all) THEN "got_all" ELSE woken[u]
        BY <2>1, <2>2, <3>1, WokenAt
      <3> QED
        BY <1>2, <3>2
    <2> HIDE DEF FA, FH
    <2> QED
      BY <1>4, <2>1, <2>2, <2>3 DEF Goes
  <1> HIDE DEF FA, FH, places, woken
  <1>6. /\ At({"wait_all"})' = At({"wait_all"}) \ (FA \cup {t})
        /\ HoldAll' = (HoldAll \ {t}) \cup FA
        /\ At({"wait_heavy"})' = At({"wait_heavy"}) \ (FH \cup {t})
        /\ HoldHeavy' = (HoldHeavy \ {t}) \cup FH
        /\ At({"wait_heavy", "got_heavy"})' \subseteq At({"wait_heavy", "got_heavy"})
        /\ At(Waiting)' = At(Waiting) \ {t}
        /\ At({"calling"})' = At({"calling"}) \ {t}
        /\ At(Waiting \cup {"calling"})' = At(Waiting \cup {"calling"}) \ {t}
    BY <1>4, <1>5, GoesSets
  <1>7. t \in HoldAll /\ t \notin At({"wait_all"}) /\ t \notin At({"wait_heavy"})
        /\ (t \in HoldHeavy <=> t \in Heavy)
    BY <1>1 DEF At, HoldAll, HoldHeavy
  <1>8. AllSlots'
    <2>1. SemInv(all', MaxAll, At({"wait_all"}) \ FA, (HoldAll \ {t}) \cup FA)
      BY <1>1, <1>2, <1>7, SemReleased DEF FA
    <2>2. At({"wait_all"}) \ (FA \cup {t}) = At({"wait_all"}) \ FA
      BY <1>7
    <2> QED
      BY <1>6, <2>1, <2>2 DEF AllSlots
  <1>9. HeavySlots'
    <2>1. SemInv(heavy', MaxHeavy, At({"wait_heavy"}) \ FH, (HoldHeavy \ {t}) \cup FH)
      <3>1. CASE t \in Heavy
        BY <1>1, <1>2, <1>7, <3>1, SemReleased DEF FH
      <3>2. CASE t \notin Heavy
        <4>1. At({"wait_heavy"}) \ FH = At({"wait_heavy"}) /\ (HoldHeavy \ {t}) \cup FH = HoldHeavy
          BY <1>7, <3>2 DEF FH
        <4> QED
          BY <1>1, <1>2, <3>2, <4>1
      <3> QED
        BY <3>1, <3>2
    <2>2. At({"wait_heavy"}) \ (FH \cup {t}) = At({"wait_heavy"}) \ FH
      BY <1>7
    <2>3. At({"wait_heavy", "got_heavy"})' \subseteq Heavy
      BY <1>1, <1>6
    <2> QED
      BY <1>6, <2>1, <2>2, <2>3 DEF HeavySlots
  <1>10. Counted' /\ Metered'
    BY <1>1, <1>2, <1>6, GoesCounts
  <1> QED
    BY <1>5, <1>8, <1>9, <1>10 DEF ResInv, Goes

\* A cancellation in the queue of _all.
LEMMA CancelWaitAllStep ==
    ASSUME ResInv, NEW t \in Tasks, CancelWaitAll(t)
    PROVE  ResInv'
  <1> DEFINE FA == IF pc[t] = "got_all" THEN First(all) ELSE {}
             places == [pc EXCEPT ![t] = "idle"]
  <1>1. /\ pc \in [Tasks -> Places] /\ pc[t] \in {"wait_all", "got_all"}
        /\ SemInv(all, MaxAll, At({"wait_all"}), HoldAll)
        /\ queued' = queued - 1 /\ unfinished' = unfinished - 1
        /\ UNCHANGED <<heavy, active, active_heavy>>
    BY DEF ResInv, AllSlots, CancelWaitAll
  <1>2. FA \subseteq At({"wait_all"}) \ {t} /\ First(all) \subseteq Tasks
    <2>1. First(all) \subseteq At({"wait_all"})
      BY <1>1, SemFirst
    <2> QED
      BY <2>1 DEF At
  <1>3. places \in [Tasks -> Places] /\ "got_all" \in Places
        /\ \A u \in Tasks : places[u] = IF u = t THEN "idle" ELSE pc[u]
    BY <1>1 DEF Places, Waiting
  <1>4. CancelWaitAll(t) =>
           \/ pc[t] = "wait_all" /\ all' = Dequeued(all, t) /\ pc' = places
           \/ pc[t] = "got_all" /\ all' = Released(all) /\ pc' = Woken(places, all, "got_all")
    BY DEF CancelWaitAll
  <1> HIDE DEF places
  <1>5. Goes(t, FA, {})
    <2>1. CASE pc[t] = "wait_all"
      BY <1>3, <1>4, <2>1 DEF Goes
    <2>2. CASE pc[t] = "got_all"
      <3>1. /\ pc' \in [Tasks -> Places]
            /\ \A u \in Tasks : pc'[u] = IF u \in First(all) THEN "got_all" ELSE places[u]
        BY <1>2, <1>3, <1>4, <2>2, WokenAt
      <3> QED
        BY <1>2, <1>3, <2>2, <3>1 DEF Goes
    <2> QED
      BY <1>1, <2>1, <2>2
  <1>6. /\ At({"wait_all"})' = At({"wait_all"}) \ (FA \cup {t})
        /\ HoldAll' = (HoldAll \ {t}) \cup FA
        /\ At({"wait_heavy"})' = At({"wait_heavy"}) \ {t}
        /\ HoldHeavy' = HoldHeavy \ {t}
        /\ At({"wait_heavy", "got_heavy"})' \subseteq At({"wait_heavy", "got_heavy"})
        /\ At(Waiting)' = At(Waiting) \ {t}
        /\ At({"calling"})' = At({"calling"}) \ {t}
        /\ At(Waiting \cup {"calling"})' = At(Waiting \cup {"calling"}) \ {t}
    <2> DEFINE FH == {}
    <2>1. /\ FH \subseteq At({"wait_heavy"}) \ {t} /\ Goes(t, FA, FH)
          /\ At({"wait_heavy"}) \ (FH \cup {t}) = At({"wait_heavy"}) \ {t}
          /\ (HoldHeavy \ {t}) \cup FH = HoldHeavy \ {t}
      BY <1>5
    <2> HIDE DEF FA, FH
    <2>2. /\ At({"wait_all"})' = At({"wait_all"}) \ (FA \cup {t})
          /\ HoldAll' = (HoldAll \ {t}) \cup FA
          /\ At({"wait_heavy"})' = At({"wait_heavy"}) \ (FH \cup {t})
          /\ HoldHeavy' = (HoldHeavy \ {t}) \cup FH
          /\ At({"wait_heavy", "got_heavy"})' \subseteq At({"wait_heavy", "got_heavy"})
          /\ At(Waiting)' = At(Waiting) \ {t}
          /\ At({"calling"})' = At({"calling"}) \ {t}
          /\ At(Waiting \cup {"calling"})' = At(Waiting \cup {"calling"}) \ {t}
      BY <1>2, <2>1, GoesSets
    <2> QED
      BY <2>1, <2>2
  <1>7. AllSlots'
    <2>1. CASE pc[t] = "wait_all"
      <3>1. t \in At({"wait_all"}) /\ t \notin HoldAll
        BY <2>1 DEF At, HoldAll
      <3>2. SemInv(all', MaxAll, At({"wait_all"}) \ {t}, HoldAll)
        BY <1>1, <1>4, <2>1, <3>1, SemDequeued
      <3>3. At({"wait_all"}) \ (FA \cup {t}) = At({"wait_all"}) \ {t} /\ (HoldAll \ {t}) \cup FA = HoldAll
        BY <2>1, <3>1
      <3> QED
        BY <1>6, <3>2, <3>3 DEF AllSlots
    <2>2. CASE pc[t] = "got_all"
      <3>1. t \notin At({"wait_all"}) /\ t \in HoldAll /\ FA = First(all)
        BY <2>2 DEF At, HoldAll
      <3>2. SemInv(all', MaxAll, At({"wait_all"}) \ FA, (HoldAll \ {t}) \cup FA)
        BY <1>1, <1>4, <2>2, <3>1, SemReleased
      <3>3. At({"wait_all"}) \ (FA \cup {t}) = At({"wait_all"}) \ FA
        BY <3>1
      <3> QED
        BY <1>6, <3>2, <3>3 DEF AllSlots
    <2> QED
      BY <1>1, <2>1, <2>2
  <1>8. HeavySlots'
    <2>1. At({"wait_heavy"}) \ {t} = At({"wait_heavy"}) /\ HoldHeavy \ {t} = HoldHeavy
      BY <1>1 DEF At, HoldHeavy
    <2> QED
      BY <1>1, <1>6, <2>1 DEF ResInv, HeavySlots
  <1>9. Counted' /\ Metered'
    BY <1>1, <1>6, GoesCounts DEF Waiting
  <1> QED
    BY <1>5, <1>7, <1>8, <1>9 DEF ResInv, Goes

\* A cancellation in the queue of _heavy, with a slot of _all to give back.
LEMMA CancelWaitHeavyStep ==
    ASSUME ResInv, NEW t \in Tasks, CancelWaitHeavy(t)
    PROVE  ResInv'
  <1> DEFINE FA == First(all)
             FH == IF pc[t] = "got_heavy" THEN First(heavy) ELSE {}
             places == [pc EXCEPT ![t] = "idle"]
             woken == IF pc[t] = "got_heavy" THEN Woken(places, heavy, "got_heavy") ELSE places
  <1>1. /\ pc \in [Tasks -> Places] /\ pc[t] \in {"wait_heavy", "got_heavy"}
        /\ SemInv(all, MaxAll, At({"wait_all"}), HoldAll)
        /\ SemInv(heavy, MaxHeavy, At({"wait_heavy"}), HoldHeavy)
        /\ At({"wait_heavy", "got_heavy"}) \subseteq Heavy
    BY DEF ResInv, AllSlots, HeavySlots, CancelWaitHeavy
  <1>2. /\ all' = Released(all)
        /\ heavy' = IF pc[t] = "got_heavy" THEN Released(heavy) ELSE Dequeued(heavy, t)
        /\ pc' = Woken(woken, all, "got_all")
        /\ active_heavy' = active_heavy
        /\ active' = (IF active > 0 THEN active - 1 ELSE active)
        /\ unfinished' = unfinished - 1 /\ queued' = queued - 1
    BY DEF CancelWaitHeavy, FreeTotal
  <1>3. FA \subseteq At({"wait_all"}) /\ First(heavy) \subseteq At({"wait_heavy"})
    BY <1>1, SemFirst
  <1>4. /\ FA \subseteq At({"wait_all"}) \ {t} /\ FH \subseteq At({"wait_heavy"}) \ {t}
        /\ FA \subseteq Tasks /\ First(heavy) \subseteq Tasks
    BY <1>1, <1>3 DEF At
  <1>5. Goes(t, FA, FH)
    <2>1. places \in [Tasks -> Places] /\ "got_heavy" \in Places /\ "got_all" \in Places
          /\ \A u \in Tasks : places[u] = IF u = t THEN "idle" ELSE pc[u]
      BY <1>1 DEF Places, Waiting
    <2> HIDE DEF places
    <2>2. woken \in [Tasks -> Places]
          /\ \A u \in Tasks : woken[u] = IF u \in FH THEN "got_heavy" ELSE places[u]
      BY <1>4, <2>1, WokenAt
    <2> HIDE DEF woken
    <2>3. /\ pc' \in [Tasks -> Places]
          /\ \A u \in Tasks : pc'[u] = IF u \in FA THEN "got_all" ELSE woken[u]
      <3>1. First(all) \subseteq Tasks
        BY <1>4
      <3>2. /\ Woken(woken, all, "got_all") \in [Tasks -> Places]
            /\ \A u \in Tasks : Woken(woken, all, "got_all")[u]
                                  = IF u \in First(all) THEN "got_all" ELSE woken[u]
        BY <2>1, <2>2, <3>1, WokenAt
      <3> QED
        BY <1>2, <3>2
    <2> HIDE DEF FA, FH
    <2> QED
      BY <1>4, <2>1, <2>2, <2>3 DEF Goes
  <1> HIDE DEF FA, FH, places, woken
  <1>6. /\ At({"wait_all"})' = At({"wait_all"}) \ (FA \cup {t})
        /\ HoldAll' = (HoldAll \ {t}) \cup FA
        /\ At({"wait_heavy"})' = At({"wait_heavy"}) \ (FH \cup {t})
        /\ HoldHeavy' = (HoldHeavy \ {t}) \cup FH
        /\ At({"wait_heavy", "got_heavy"})' \subseteq At({"wait_heavy", "got_heavy"})
        /\ At(Waiting)' = At(Waiting) \ {t}
        /\ At({"calling"})' = At({"calling"}) \ {t}
        /\ At(Waiting \cup {"calling"})' = At(Waiting \cup {"calling"}) \ {t}
    BY <1>4, <1>5, GoesSets
  <1>7. t \in HoldAll /\ t \notin At({"wait_all"})
    BY <1>1 DEF At, HoldAll
  <1>8. AllSlots'
    <2>1. SemInv(all', MaxAll, At({"wait_all"}) \ FA, (HoldAll \ {t}) \cup FA)
      BY <1>1, <1>2, <1>7, SemReleased DEF FA
    <2>2. At({"wait_all"}) \ (FA \cup {t}) = At({"wait_all"}) \ FA
      BY <1>7
    <2> QED
      BY <1>6, <2>1, <2>2 DEF AllSlots
  <1>9. HeavySlots'
    <2>1. SemInv(heavy', MaxHeavy, At({"wait_heavy"}) \ (FH \cup {t}), (HoldHeavy \ {t}) \cup FH)
      <3>1. CASE pc[t] = "got_heavy"
        <4>1. t \in HoldHeavy /\ t \notin At({"wait_heavy"})
          BY <3>1 DEF At, HoldHeavy
        <4>2. SemInv(heavy', MaxHeavy, At({"wait_heavy"}) \ FH, (HoldHeavy \ {t}) \cup FH)
          BY <1>1, <1>2, <3>1, <4>1, SemReleased DEF FH
        <4>3. At({"wait_heavy"}) \ (FH \cup {t}) = At({"wait_heavy"}) \ FH
          BY <4>1
        <4> QED
          BY <4>2, <4>3
      <3>2. CASE pc[t] = "wait_heavy"
        <4>1. t \notin HoldHeavy /\ t \in At({"wait_heavy"})
          BY <3>2 DEF At, HoldHeavy
        <4>2. SemInv(heavy', MaxHeavy, At({"wait_heavy"}) \ {t}, HoldHeavy)
          BY <1>1, <1>2, <3>2, <4>1, SemDequeued
        <4>3. /\ At({"wait_heavy"}) \ (FH \cup {t}) = At({"wait_heavy"}) \ {t}
              /\ (HoldHeavy \ {t}) \cup FH = HoldHeavy
          BY <3>2, <4>1 DEF FH
        <4> QED
          BY <4>2, <4>3
      <3> QED
        BY <1>1, <3>1, <3>2
    <2>2. At({"wait_heavy", "got_heavy"})' \subseteq Heavy
      BY <1>1, <1>6
    <2> QED
      BY <1>6, <2>1, <2>2 DEF HeavySlots
  <1>10. Counted' /\ Metered'
    BY <1>1, <1>2, <1>6, GoesCounts DEF Waiting
  <1> QED
    BY <1>5, <1>8, <1>9, <1>10 DEF ResInv, Goes

-----------------------------------------------------------------------------
(* The theorems *)

\* Every step keeps the invariant.
LEMMA ResStep == ResInv /\ [ResNext]_resVars => ResInv'
  <1> SUFFICES ASSUME ResInv, [ResNext]_resVars PROVE ResInv'
    OBVIOUS
  <1>1. ASSUME NEW t \in Tasks, Begin(t) PROVE ResInv'
    BY <1>1, BeginStep
  <1>2. ASSUME NEW t \in Tasks, Proceed(t) PROVE ResInv'
    BY <1>2, ProceedStep
  <1>3. ASSUME NEW t \in Tasks, Return(t) PROVE ResInv'
    BY <1>3, ReturnStep
  <1>4. ASSUME NEW t \in Tasks, CancelWaitAll(t) PROVE ResInv'
    BY <1>4, CancelWaitAllStep
  <1>5. ASSUME NEW t \in Tasks, CancelWaitHeavy(t) PROVE ResInv'
    BY <1>5, CancelWaitHeavyStep
  <1>6. CASE UNCHANGED resVars
    BY <1>6 DEF resVars, ResInv, AllSlots, HeavySlots, Counted, Metered, HoldAll, HoldHeavy, At
  <1> QED
    BY <1>1, <1>2, <1>3, <1>4, <1>5, <1>6 DEF ResNext

\* The inductive invariant of semaphores and counters.
LEMMA ResInvariant == ResSpec => []ResInv
  BY ResInitially, ResStep, PTL DEF ResSpec

\* However many tasks call models and however many slots are configured, every
\* slot of both semaphores is free or held by exactly one call, and no call
\* waits while a slot is free: `acquire' of the resource manager leaks no slot
\* and frees none twice, wherever a cancellation strikes.
THEOREM SlotsAreConserved == ResSpec => []SlotsConserved
  <1>1. ResInv => SlotsConserved
    BY DEF ResInv, AllSlots, HeavySlots, SemInv, SlotsConserved, HoldAll, HoldHeavy
  <1> QED
    BY <1>1, ResInvariant, PTL

\* The snapshot's counts of queued and of active heavy calls are exact, it
\* never reports more active calls than there are, and every attempt that
\* chat, stream_chat or embed begins in the meter is finished when its call
\* ends, also when it is cancelled in one of the two queues.
THEOREM CountersAreHonest == ResSpec => []CountersHonest
  <1>1. ResInv => CountersHonest
    BY DEF ResInv, Counted, Metered, CountersHonest
  <1> QED
    BY <1>1, ResInvariant, PTL

\* The semaphores and the counters stay within the configured limits, and no
\* more calls are queued or unfinished than there are tasks; in particular
\* active, which FreeTotal also lowers for calls that never ran, stays between
\* 0 and ollama_max_concurrency.
THEOREM ResourcesStayInLimits == ResSpec => []ResTypeOK
  <1>1. ResInv => ResTypeOK
    <2> SUFFICES ASSUME ResInv PROVE ResTypeOK
      OBVIOUS
    <2>1. /\ pc \in [Tasks -> Places] /\ Counted /\ Metered
          /\ SemInv(all, MaxAll, At({"wait_all"}), HoldAll)
          /\ SemInv(heavy, MaxHeavy, At({"wait_heavy"}), HoldHeavy)
      BY DEF ResInv, AllSlots, HeavySlots
    <2>2. ASSUME NEW sem, NEW max \in Nat, NEW P, NEW H, SemInv(sem, max, At(P), H)
          PROVE  /\ sem \in Semaphore(max)
                 /\ IsFiniteSet(H) /\ Cardinality(H) \in 0..max
      <3>1. /\ sem = [free |-> sem.free, queue |-> sem.queue] /\ sem.free \in Nat
            /\ LinesUp(sem.queue, At(P)) /\ IsFiniteSet(H) /\ sem.free + Cardinality(H) = max
        BY <2>2 DEF SemInv
      <3>2. Cardinality(H) \in Nat
        BY <3>1, FS_CardinalityType
      <3>3. sem.free \in 0..max /\ Cardinality(H) \in 0..max
        BY <3>1, <3>2
      <3>4. sem.queue \in Seq(At(P)) /\ At(P) \subseteq Tasks
        BY <3>1 DEF LinesUp, At
      <3>5. sem.queue \in Seq(Tasks)
        BY <3>4, ElementOfSeq, SeqOver
      <3> QED
        BY <3>1, <3>3, <3>5 DEF Semaphore
    <2>3. MaxAll \in Nat /\ MaxHeavy \in Nat /\ IsFiniteSet(Tasks)
      BY ResourceAssumption
    <2>4. /\ all \in Semaphore(MaxAll) /\ IsFiniteSet(HoldAll) /\ Cardinality(HoldAll) \in 0..MaxAll
      BY <2>1, <2>2, <2>3
    <2>5. /\ heavy \in Semaphore(MaxHeavy) /\ IsFiniteSet(HoldHeavy)
          /\ Cardinality(HoldHeavy) \in 0..MaxHeavy
      BY <2>1, <2>2, <2>3
    <2>6. ASSUME NEW S, NEW T, IsFiniteSet(T), S \subseteq T
          PROVE  Cardinality(S) \in Nat /\ Cardinality(T) \in Nat /\ Cardinality(S) <= Cardinality(T)
      BY <2>6, FS_Subset, FS_CardinalityType
    <2>7. active \in 0..MaxAll
      <3>1. At({"calling"}) \subseteq HoldAll
        BY DEF At, HoldAll
      <3>2. Cardinality(At({"calling"})) \in Nat /\ Cardinality(At({"calling"})) <= Cardinality(HoldAll)
        BY <2>4, <2>6, <3>1
      <3> QED
        BY <2>1, <2>3, <2>4, <3>2 DEF Counted
    <2>8. active_heavy \in 0..MaxHeavy
      <3> DEFINE S == At({"calling"}) \cap Heavy
      <3>1. S \subseteq HoldHeavy /\ active_heavy = Cardinality(S)
        BY <2>1 DEF HoldHeavy, Counted
      <3> HIDE DEF S
      <3>2. Cardinality(S) \in Nat /\ Cardinality(S) <= Cardinality(HoldHeavy)
        BY <2>5, <2>6, <3>1
      <3> QED
        BY <2>3, <2>5, <3>1, <3>2
    <2>9. \A P : Cardinality(At(P)) \in 0..Cardinality(Tasks)
      <3> SUFFICES ASSUME NEW P PROVE Cardinality(At(P)) \in 0..Cardinality(Tasks)
        OBVIOUS
      <3>1. At(P) \subseteq Tasks
        BY DEF At
      <3>2. /\ Cardinality(At(P)) \in Nat /\ Cardinality(Tasks) \in Nat
            /\ Cardinality(At(P)) <= Cardinality(Tasks)
        BY <2>3, <2>6, <3>1
      <3> QED
        BY <3>2
    <2>10. queued \in 0..Cardinality(Tasks) /\ unfinished \in 0..Cardinality(Tasks)
      BY <2>1, <2>9 DEF Counted, Metered
    <2> QED
      BY <2>1, <2>4, <2>5, <2>7, <2>8, <2>10 DEF ResTypeOK
  <1> QED
    BY <1>1, ResInvariant, PTL
=============================================================================
