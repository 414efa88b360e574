---------------------------- MODULE OllamaResources ----------------------------
(***************************************************************************)
(* Admission of model calls: OllamaResourceManager of                      *)
(* app/llm/resource_manager.py under the calls of app/llm/ollama.py        *)
(* (chat, stream_chat, embed), which meter every physical attempt.         *)
(*                                                                         *)
(* The callers are asyncio tasks of one process.  _state_lock is never     *)
(* held across an await, so taking it never suspends, and the code between *)
(* two semaphore waits or HTTP awaits is one action.  A task can be        *)
(* cancelled wherever it is suspended.                                     *)
(***************************************************************************)
EXTENDS Integers, Sequences, FiniteSets, SequencesExt

CONSTANTS
    Tasks,      \* tasks that call models, again and again
    Heavy,      \* those whose model is heavy (capabilities_for)
    MaxAll,     \* ollama_max_concurrency
    MaxHeavy    \* ollama_heavy_max_concurrency

ASSUME ResourceAssumption ==
    /\ IsFiniteSet(Tasks) /\ Heavy \subseteq Tasks
    /\ MaxAll \in Nat \ {0} /\ MaxHeavy \in Nat \ {0}

VARIABLES
    pc,            \* where a task is suspended
    all,           \* the semaphore _all: free slots and waiting tasks
    heavy,         \* the semaphore _heavy
    active,        \* _active
    active_heavy,  \* _active_heavy
    queued,        \* _queued
    unfinished     \* physical attempts begun and not yet finished in the meter

resVars == <<pc, all, heavy, active, active_heavy, queued, unfinished>>

\* got_* : the semaphore has handed its slot over, the task has not run yet.
Waiting == {"wait_all", "got_all", "wait_heavy", "got_heavy"}
Places == Waiting \cup {"idle", "calling"}

Semaphore(max) == [free : 0..max, queue : Seq(Tasks)]

ResTypeOK ==
    /\ pc \in [Tasks -> Places]
    /\ all \in Semaphore(MaxAll) /\ heavy \in Semaphore(MaxHeavy)
    /\ active \in 0..MaxAll /\ active_heavy \in 0..MaxHeavy
    /\ queued \in 0..Cardinality(Tasks)
    /\ unfinished \in 0..Cardinality(Tasks)

-----------------------------------------------------------------------------
(* asyncio.Semaphore: first come, first served; a released slot goes to the  *)
(* first waiter before anybody else can take it.                            *)

Available(sem) == sem.free > 0 /\ sem.queue = <<>>
Taken(sem) == [sem EXCEPT !.free = @ - 1]
Enqueued(sem, t) == [sem EXCEPT !.queue = Append(@, t)]
Dequeued(sem, t) ==
    [sem EXCEPT !.queue = RemoveAt(@, CHOOSE i \in DOMAIN sem.queue : sem.queue[i] = t)]
Released(sem) ==
    IF sem.queue = <<>> THEN [sem EXCEPT !.free = @ + 1]
    ELSE [sem EXCEPT !.queue = Tail(@)]
Woken(places, sem, place) ==
    IF sem.queue = <<>> THEN places
    ELSE [places EXCEPT ![Head(sem.queue)] = place]

-----------------------------------------------------------------------------
ResInit ==
    /\ pc = [t \in Tasks |-> "idle"]
    /\ all = [free |-> MaxAll, queue |-> <<>>]
    /\ heavy = [free |-> MaxHeavy, queue |-> <<>>]
    /\ active = 0 /\ active_heavy = 0 /\ queued = 0 /\ unfinished = 0

\* Both slots are held: counted as active, the body of the context runs.
Admit(t, n) ==
    /\ pc' = [pc EXCEPT ![t] = "calling"]
    /\ queued' = n - 1
    /\ active' = active + 1
    /\ active_heavy' = IF t \in Heavy THEN active_heavy + 1 ELSE active_heavy

\* The total slot is held: a heavy call needs the second semaphore too.
AfterAll(t, n) ==
    \/ /\ t \notin Heavy
       /\ Admit(t, n) /\ UNCHANGED heavy
    \/ /\ t \in Heavy /\ Available(heavy)
       /\ heavy' = Taken(heavy) /\ Admit(t, n)
    \/ /\ t \in Heavy /\ ~Available(heavy)
       /\ heavy' = Enqueued(heavy, t)
       /\ pc' = [pc EXCEPT ![t] = "wait_heavy"]
       /\ queued' = n /\ UNCHANGED <<active, active_heavy>>

\* begin_model_attempt, then acquire up to its first suspension.
Begin(t) ==
    /\ pc[t] = "idle"
    /\ unfinished' = unfinished + 1
    /\ \/ Available(all) /\ all' = Taken(all) /\ AfterAll(t, queued + 1)
       \/ /\ ~Available(all)
          /\ all' = Enqueued(all, t)
          /\ pc' = [pc EXCEPT ![t] = "wait_all"]
          /\ queued' = queued + 1
          /\ UNCHANGED <<heavy, active, active_heavy>>

\* A task runs on after a semaphore has handed it its slot.
Proceed(t) ==
    /\ \/ pc[t] = "got_all" /\ AfterAll(t, queued)
       \/ pc[t] = "got_heavy" /\ Admit(t, queued) /\ UNCHANGED heavy
    /\ UNCHANGED <<all, unfinished>>

\* Mutant of FreeTotal: the total slot is freed only by calls that were active.
FreeTotalOfActive(t, places) ==
    /\ active' = IF active > 0 THEN active - 1 ELSE active
    /\ IF pc[t] = "calling"
       THEN all' = Released(all) /\ pc' = Woken(places, all, "got_all")
       ELSE all' = all /\ pc' = places

\* The part of the finally block that frees the total slot.  It lowers _active
\* for whoever acquired that slot, also for a call that was never active.
FreeTotal(t, places) ==
    /\ active' = IF active > 0 THEN active - 1 ELSE active
    /\ all' = Released(all)
    /\ pc' = Woken(places, all, "got_all")

\* The call ends, by a response, an error or a cancellation: both slots are
\* freed and the attempt is finished in the meter.
Return(t) ==
    LET places == [pc EXCEPT ![t] = "idle"] IN
    /\ pc[t] = "calling"
    /\ heavy' = IF t \in Heavy THEN Released(heavy) ELSE heavy
    /\ active_heavy' = IF t \in Heavy THEN active_heavy - 1 ELSE active_heavy
    /\ FreeTotal(t, IF t \in Heavy THEN Woken(places, heavy, "got_heavy") ELSE places)
    /\ unfinished' = unfinished - 1
    /\ UNCHANGED queued

\* CancelledError while waiting for the total slot, or right after the
\* semaphore handed it over: acquire gives it back itself.
CancelWaitAll(t) ==
    LET places == [pc EXCEPT ![t] = "idle"] IN
    /\ queued' = queued - 1 /\ unfinished' = unfinished - 1
    /\ \/ /\ pc[t] = "wait_all"
          /\ all' = Dequeued(all, t) /\ pc' = places
       \/ /\ pc[t] = "got_all"
          /\ all' = Released(all) /\ pc' = Woken(places, all, "got_all")
    /\ UNCHANGED <<heavy, active, active_heavy>>

\* Mutant of CancelWaitHeavy: the attempt is not finished in the meter.
CancelUnmetered(t) ==
    LET places == [pc EXCEPT ![t] = "idle"] IN
    /\ queued' = queued - 1
    /\ \/ /\ pc[t] = "wait_heavy"
          /\ heavy' = Dequeued(heavy, t) /\ FreeTotal(t, places)
       \/ /\ pc[t] = "got_heavy"
          /\ heavy' = Released(heavy)
          /\ FreeTotal(t, Woken(places, heavy, "got_heavy"))
    /\ UNCHANGED <<active_heavy, unfinished>>

\* The same for the heavy slot: the total slot is held already and is freed.
CancelWaitHeavy(t) ==
    LET places == [pc EXCEPT ![t] = "idle"] IN
    /\ queued' = queued - 1 /\ unfinished' = unfinished - 1
    /\ \/ /\ pc[t] = "wait_heavy"
          /\ heavy' = Dequeued(heavy, t) /\ FreeTotal(t, places)
       \/ /\ pc[t] = "got_heavy"
          /\ heavy' = Released(heavy)
          /\ FreeTotal(t, Woken(places, heavy, "got_heavy"))
    /\ UNCHANGED active_heavy

ResNext ==
    \E t \in Tasks :
        Begin(t) \/ Proceed(t) \/ Return(t) \/ CancelWaitAll(t) \/ CancelWaitHeavy(t)

ResSpec == ResInit /\ [][ResNext]_resVars

\* Ready tasks run, and an HTTP call ends by its timeout at the latest.
FairResSpec ==
    ResSpec /\ \A t \in Tasks : WF_resVars(Proceed(t)) /\ WF_resVars(Return(t))

-----------------------------------------------------------------------------
(* Properties *)

At(places) == {t \in Tasks : pc[t] \in places}

\* SlotsConserved: every slot of both semaphores is free or held by exactly
\* one call that waits for the next slot or runs, and nobody waits while a
\* slot is free: no cancellation, wherever it strikes, leaks a slot of
\* `acquire' or frees one twice.
SlotsConserved ==
    /\ all.free + Cardinality(At({"got_all", "wait_heavy", "got_heavy", "calling"}))
          = MaxAll
    /\ heavy.free + Cardinality(At({"got_heavy"}) \cup (At({"calling"}) \cap Heavy))
          = MaxHeavy
    /\ all.queue # <<>> => all.free = 0
    /\ heavy.queue # <<>> => heavy.free = 0

\* CountersHonest: the snapshot counts queued and active heavy calls exactly
\* and never reports more active calls than there are, and every physical
\* attempt the meter has begun is finished when its call ends, also if it was
\* cancelled in a queue (the finally of chat).
CountersHonest ==
    /\ queued = Cardinality(At(Waiting))
    /\ active_heavy = Cardinality(At({"calling"}) \cap Heavy)
    /\ active <= Cardinality(At({"calling"}))
    /\ unfinished = Cardinality(At(Waiting \cup {"calling"}))

\* WaitersAreServed: a waiting call is admitted or cancelled in the end, even
\* though heavy calls keep a total slot while they wait for a heavy one.
WaitersAreServed ==
    \A t \in Tasks : pc[t] \in Waiting ~> pc[t] \in {"calling", "idle"}
=============================================================================
