------------------------------ MODULE Inventory ------------------------------
(***************************************************************************)
(* The runtime inventory: InventoryService.load (app/services/inventory.py)*)
(* over the cached lists of the Ollama client (app/llm/ollama.py,          *)
(* list_models) and of the MCP client (app/mcp/client.py, list_tools).     *)
(* Chat requests, the inventory route and the readiness check all load it, *)
(* concurrently.                                                           *)
(*                                                                         *)
(* Two caches with the same time to live lie behind each other, and the    *)
(* MCP client drops its own whenever another call meets an expired session *)
(* or a tools/list_changed notification.  A list is represented by its     *)
(* age: how long ago its server gave it (real) and how long ago it was put *)
(* into the cache that holds it (at, what the code knows).                 *)
(***************************************************************************)
EXTENDS Naturals, Sequences, SequencesExt

CONSTANTS
    Loads,      \* callers of InventoryService.load
    Modes,      \* the sources that may be on: llm_backend = ollama, mcp_enabled
    Ttl,        \* inventory_cache_ttl_seconds, in ticks
    StaleTtl,   \* inventory_stale_if_error_seconds
    Flight,     \* the longest a request to a source takes until it times out
    None

Sources == {"ollama", "mcp"}

ASSUME InventoryAssumption ==
    /\ Modes \subseteq SUBSET Sources
    /\ Ttl \in Nat \ {0} /\ StaleTtl \in Nat /\ Flight \in Nat
    /\ None \notin Nat

VARIABLES
    enabled,  \* the sources that are switched on
    client,   \* models_cache and _tools_cache of the clients
    service,  \* _models and _tools of the InventoryService
    queue,    \* tasks that hold (first) or wait for the service's lock
    pc,       \* idle, waiting for the lock, or gathering
    fetch,    \* what the gathering load has of each source
    served    \* ghost: what a caller's last load returned

invVars == <<enabled, client, service, queue, pc, fetch, served>>

\* Ages count up to where nothing depends on them any more.
Horizon == StaleTtl + 2 * Ttl + 2 * Flight + 1
Ages == 0..Horizon
Older(n) == IF n < Horizon THEN n + 1 ELSE n

Cached == [real : Ages, at : Ages]

\* A list, by its age, and whether an error came with it; None is the default
\* for no list.
Outcomes == [list : Ages \cup {None}, error : BOOLEAN]

\* A coroutine that loads one source, and its outcome so far.
Fetches == [stage : {"none", "todo", "sent", "answered", "done"},
            flight : 0..Flight, list : Ages \cup {None}, error : BOOLEAN]
NoFetch == [stage |-> "none", flight |-> 0, list |-> None, error |-> FALSE]

InvTypeOK ==
    /\ enabled \in Modes
    /\ client \in [Sources -> Cached \cup {None}]
    /\ service \in [Sources -> Cached \cup {None}]
    /\ queue \in Seq(Loads)
    /\ pc \in [Loads -> {"idle", "lock", "gather"}]
    /\ fetch \in [Loads -> [Sources -> Fetches]]
    /\ served \in [Loads -> [Sources -> Outcomes] \cup {None}]

InvInit ==
    /\ enabled \in Modes
    /\ client = [s \in Sources |-> None]
    /\ service = [s \in Sources |-> None]
    /\ queue = <<>>
    /\ pc = [l \in Loads |-> "idle"]
    /\ fetch = [l \in Loads |-> [s \in Sources |-> NoFetch]]
    /\ served = [l \in Loads |-> None]

-----------------------------------------------------------------------------
(* Caches *)

\* Mutant of Fresh: a list that was fetched once is good for ever.
FreshForever(c) == c # None

\* _source_fresh, and the same test in the clients.
Fresh(c) == c # None /\ c.at <= Ttl

\* _source_stale_usable
StaleUsable(c) == c # None /\ c.at <= StaleTtl

\* _both_fresh
BothFresh == \A s \in Sources : Fresh(service[s])

\* _snapshot: what the service holds, without errors.
Snapshot == [s \in Sources |-> [list |-> service[s].real, error |-> FALSE]]

-----------------------------------------------------------------------------
(* load *)

\* The fast path, without the lock.
LoadHit(l) ==
    /\ pc[l] = "idle"
    /\ BothFresh
    /\ served' = [served EXCEPT ![l] = Snapshot]
    /\ UNCHANGED <<enabled, client, service, queue, pc, fetch>>

LoadMiss(l) ==
    /\ pc[l] = "idle"
    /\ ~BothFresh
    /\ pc' = [pc EXCEPT ![l] = "lock"]
    /\ queue' = Append(queue, l)
    /\ served' = [served EXCEPT ![l] = None]
    /\ UNCHANGED <<enabled, client, service, fetch>>

\* The lock is passed on in the order of arrival.
HasLock(l) == queue # <<>> /\ Head(queue) = l

\* The load ends and frees the lock, or its place in the queue.
Leave(l) ==
    /\ pc' = [pc EXCEPT ![l] = "idle"]
    /\ queue' = RemoveAt(queue, CHOOSE i \in DOMAIN queue : queue[i] = l)
    /\ fetch' = [fetch EXCEPT ![l] = [s \in Sources |-> NoFetch]]

\* Mutant of Enter: the refresh does not wait for the lock.
EnterUnlocked(l) ==
    /\ pc[l] = "lock"
    /\ pc' = [pc EXCEPT ![l] = "gather"]
    /\ fetch' = [fetch EXCEPT ![l] = [s \in Sources |-> [NoFetch EXCEPT !.stage = "todo"]]]
    /\ UNCHANGED <<enabled, client, service, queue, served>>

\* With the lock, another load may have refreshed both sources meanwhile.
Enter(l) ==
    /\ pc[l] = "lock" /\ HasLock(l)
    /\ \/ /\ BothFresh
          /\ served' = [served EXCEPT ![l] = Snapshot]
          /\ Leave(l)
       \/ /\ ~BothFresh
          /\ pc' = [pc EXCEPT ![l] = "gather"]
          /\ fetch' = [fetch EXCEPT ![l] = [s \in Sources |-> [NoFetch EXCEPT !.stage = "todo"]]]
          /\ UNCHANGED <<enabled, queue, served>>
    /\ UNCHANGED <<enabled, client, service>>

\* One source is loaded.
Done(l, s, list, error) ==
    fetch' = [fetch EXCEPT ![l][s] = [stage |-> "done", flight |-> 0,
                                      list |-> list, error |-> error]]

\* A list has come from the source or from its client: it is stored as new.
Stored(l, s, real) ==
    /\ service' = [service EXCEPT ![s] = [real |-> real, at |-> 0]]
    /\ Done(l, s, real, FALSE)

\* _load_models and _load_tools up to the request: a source that is switched off
\* has an empty list of its own, a client's fresh list needs no request.
Begin(l, s) ==
    /\ fetch[l][s].stage = "todo"
    /\ \/ s \notin enabled /\ Stored(l, s, 0)
       \/ s \in enabled /\ Fresh(client[s]) /\ Stored(l, s, client[s].real)
       \/ /\ s \in enabled /\ ~Fresh(client[s])
          /\ fetch' = [fetch EXCEPT ![l][s].stage = "sent"]
          /\ UNCHANGED service
    /\ UNCHANGED <<enabled, client, queue, pc, served>>

\* The server gives its list.
Answer(l, s) ==
    /\ fetch[l][s].stage = "sent"
    /\ fetch' = [fetch EXCEPT ![l][s].stage = "answered", ![l][s].list = 0]
    /\ UNCHANGED <<enabled, client, service, queue, pc, served>>

\* The answer arrives and is stored in the client, whatever happened to the
\* client's cache meanwhile, and in the service.
Arrive(l, s) ==
    /\ fetch[l][s].stage = "answered"
    /\ client' = [client EXCEPT ![s] = [real |-> fetch[l][s].list, at |-> 0]]
    /\ Stored(l, s, fetch[l][s].list)
    /\ UNCHANGED <<enabled, queue, pc, served>>

\* Mutant of Fail: the service's own list is not used.
FailEmpty(l, s) ==
    /\ fetch[l][s].stage \in {"sent", "answered"}
    /\ Done(l, s, None, TRUE)
    /\ UNCHANGED <<enabled, client, service, queue, pc, served>>

\* The request fails or times out: the service's own list is used if it is
\* not too old, else an empty one, and the error is reported.
Fail(l, s) ==
    /\ fetch[l][s].stage \in {"sent", "answered"}
    /\ Done(l, s, IF StaleUsable(service[s]) THEN service[s].real ELSE None, TRUE)
    /\ UNCHANGED <<enabled, client, service, queue, pc, served>>

\* Mutant of Finish: it waits until no source fails.
FinishClean(l) ==
    /\ \A s \in Sources : fetch[l][s].stage = "done" /\ ~fetch[l][s].error
    /\ served' = [served EXCEPT ![l] =
                     [s \in Sources |-> [list |-> fetch[l][s].list, error |-> FALSE]]]
    /\ Leave(l)
    /\ UNCHANGED <<enabled, client, service>>

\* gather has both.
Finish(l) ==
    /\ \A s \in Sources : fetch[l][s].stage = "done"
    /\ served' = [served EXCEPT ![l] =
                     [s \in Sources |-> [list |-> fetch[l][s].list,
                                         error |-> fetch[l][s].error]]]
    /\ Leave(l)
    /\ UNCHANGED <<enabled, client, service>>

\* The caller is cancelled: its fetches are cancelled with it.
Cancel(l) ==
    /\ pc[l] # "idle"
    /\ Leave(l)
    /\ UNCHANGED <<enabled, client, service, served>>

-----------------------------------------------------------------------------
(* Around it *)

\* invalidate_tools_cache, by any MCP call that meets an expired session or
\* carries a list_changed notification.
Invalidate ==
    /\ client["mcp"] # None
    /\ client' = [client EXCEPT !["mcp"] = None]
    /\ UNCHANGED <<enabled, service, queue, pc, fetch, served>>

\* Nothing is ready to run: every load that gathers waits for a server that has
\* not reached its time-out.
Waiting ==
    \A l \in Loads :
        /\ pc[l] = "lock" => ~HasLock(l)
        /\ pc[l] = "gather" =>
               /\ \E s \in Sources : fetch[l][s].stage # "done"
               /\ \A s \in Sources : /\ fetch[l][s].stage # "todo"
                                     /\ fetch[l][s].flight < Flight

\* Time passes, for the caches, the lists under way and the requests.
Tick ==
    LET older(c) == IF c = None THEN None ELSE [real |-> Older(c.real), at |-> Older(c.at)]
        aged(f) == [f EXCEPT !.list = IF f.list = None THEN None ELSE Older(f.list),
                             !.flight = IF f.stage \in {"sent", "answered"} THEN @ + 1 ELSE 0]
    IN  /\ Waiting
        /\ client' = [s \in Sources |-> older(client[s])]
        /\ service' = [s \in Sources |-> older(service[s])]
        /\ fetch' = [l \in Loads |-> [s \in Sources |-> aged(fetch[l][s])]]
        /\ served' = [l \in Loads |-> None]
        /\ UNCHANGED <<enabled, queue, pc>>

\* What a load does by itself once it has begun.
LoadStep(l) ==
    \/ Enter(l)
    \/ \E s \in Sources : Begin(l, s) \/ Arrive(l, s)
    \/ Finish(l)

InvNext ==
    \/ \E l \in Loads :
           \/ LoadHit(l) \/ LoadMiss(l) \/ LoadStep(l) \/ Cancel(l)
           \/ \E s \in Sources : Answer(l, s) \/ Fail(l, s)
    \/ Invalidate
    \/ Tick

InvSpec == InvInit /\ [][InvNext]_invVars

\* Ready tasks run, and a request that is not answered fails by its time-out.
FairInvSpec ==
    /\ InvSpec
    /\ \A l \in Loads :
           /\ WF_invVars(LoadStep(l))
           /\ \A s \in Sources : WF_invVars(Fail(l, s))

-----------------------------------------------------------------------------
(* Properties *)

\* AgeBounded: a list that load returns without an error was given by its
\* server within two times to live, one for each cache, and the time of the
\* requests of this load and of the one that fetched it, and so was the answer
\* that lets /health/ready call a dependency available; with an error it may
\* be older by the stale period.  The clients' answers that overtake an
\* invalidation (client.py:146) stay within the bound.
AgeBounded ==
    \A l \in Loads : served[l] # None =>
        \A s \in Sources : served[l][s].list # None =>
            served[l][s].list <=
                IF served[l][s].error THEN StaleTtl + Ttl + 2 * Flight
                ELSE Ttl + Flight + (IF Ttl > Flight THEN Ttl ELSE Flight)

\* NoSilentLoss: load returns a source's default only with an error and when
\* the service has no list of it that may still be used; the failure of one
\* source never costs the other one ("rather than losing both sources").
NoSilentLoss ==
    [][\A l \in Loads : served'[l] \notin {served[l], None} =>
          \A s \in Sources : served'[l][s].list = None =>
              served'[l][s].error /\ ~StaleUsable(service[s])]_invVars

\* OneRefresh: whatever loads and cancellations coincide, one load at a time
\* refreshes ("Single-flight cache"), it is the holder of the lock, and every
\* load that waits is in the queue once.
OneRefresh ==
    /\ \A l \in Loads :
           /\ pc[l] = "gather" => HasLock(l)
           /\ pc[l] # "idle" <=> l \in Range(queue)
           /\ pc[l] # "gather" => \A s \in Sources : fetch[l][s] = NoFetch
    /\ \A i, j \in DOMAIN queue : queue[i] = queue[j] => i = j

\* LoadsReturn: every load ends, although each waits for the lock behind others
\* that are cancelled or whose servers do not answer.
LoadsReturn == \A l \in Loads : pc[l] # "idle" ~> pc[l] = "idle"
=============================================================================
