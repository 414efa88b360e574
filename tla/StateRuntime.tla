----------------------------- MODULE StateRuntime -----------------------------
(***************************************************************************)
(* Start-up, memory fallback, health and shutdown of the persistence       *)
(* backends (app/state/runtime.py), driven by the agent (app/graph.py,     *)
(* app/orchestration/chat_runtime.py) and the application's lifespan.      *)
(*                                                                         *)
(* Start-up awaits one backend after the other; each of them can fail or   *)
(* be cancelled with the earlier ones already open.  The agent keeps       *)
(* references of its own to the conversation store, the run repository     *)
(* and the checkpointer, which start-up and fallback replace.              *)
(***************************************************************************)
EXTENDS Naturals

CONSTANT MaxLifespans  \* bound on how often the application is started

ASSUME LifespansAssumption == MaxLifespans \in Nat

\* The settings that choose the backends.
Settings ==
    [ conv : {"memory", "postgres", "redis"}, runs : {"memory", "postgres"},
      saver : {"memory", "postgres"}, artifacts : {"disabled", "minio"},
      neo4j : BOOLEAN, persistence_required : BOOLEAN,
      artifact_storage_required : BOOLEAN ]

Services == {"postgres", "redis", "minio", "neo4j"}
Pools == {"asyncpg", "redis", "psycopg", "bolt"}
References == {"conv", "runs", "saver"}

VARIABLES
    settings,  \* fixed for the life of the application object
    pc,        \* the await the lifespan is suspended at
    rt,        \* attributes of the StateRuntime
    open,      \* how many pools and drivers of each sort are open
    bound,     \* the attributes whose present object the agent refers to
    down,      \* services out of order
    report,    \* what the last readiness check said about persistence
    lifespan   \* how often the application was started

stateVars == <<settings, pc, rt, open, bound, down, report, lifespan>>

\* on: stores that were started; held: pools, drivers and clients it refers to.
\* The degraded_reason is None, "" or a text.  That of Neo4j is never empty, so
\* whether there is one is enough.
Runtime ==
    [ conv : {"memory", "postgres", "redis"}, runs : {"memory", "postgres"},
      saver : {"memory", "postgres"}, on : SUBSET {"conv", "runs"},
      held : SUBSET (Pools \cup {"minio"}), started : BOOLEAN,
      degraded_reason : {"none", "empty", "text"}, neo4j_degraded : BOOLEAN ]

StateTypeOK ==
    /\ settings \in Settings
    /\ pc \in {"stopped", "pool", "conv", "runs", "saver", "artifacts", "neo4j",
               "finish", "unwind", "bind", "dependencies", "serving", "closing"}
    /\ rt \in Runtime
    /\ open \in [Pools -> Nat]
    /\ bound \subseteq References
    /\ down \subseteq Services
    /\ report \in [ready : BOOLEAN, status : {"available", "degraded", "unavailable"}]
    /\ lifespan \in 0..MaxLifespans

\* The constructors: everything in memory, nothing started.
StateInit ==
    /\ settings \in Settings
    /\ pc = "stopped"
    /\ rt = [conv |-> "memory", runs |-> "memory", saver |-> "memory", on |-> {},
             held |-> {}, started |-> FALSE, degraded_reason |-> "none",
             neo4j_degraded |-> FALSE]
    /\ open = [p \in Pools |-> 0]
    /\ bound = References
    /\ down = {}
    /\ report = [ready |-> FALSE, status |-> "unavailable"]
    /\ lifespan = 0

-----------------------------------------------------------------------------
(* Start-up *)

\* How an await on a service ends: CancelledError passes the except blocks of
\* start and is left to the lifespan's finally.
Outcomes(talks) == IF talks THEN {"ok", "error", "cancel"} ELSE {"ok"}

After(outcome, next) ==
    CASE outcome = "ok" -> next
      [] outcome = "error" -> "unwind"
      [] outcome = "cancel" -> "closing"

\* The runtime becomes r, with the given pools opened, and the attributes in
\* replaced refer to objects the agent has not seen.
Becomes(r, opened, replaced) ==
    /\ rt' = r
    /\ open' = [p \in Pools |-> IF p \in opened THEN open[p] + 1 ELSE open[p]]
    /\ bound' = bound \ replaced
    /\ UNCHANGED <<settings, down, report, lifespan>>

\* lifespan: start of the agent, which starts the state runtime.
Begin ==
    /\ pc = "stopped" /\ lifespan < MaxLifespans
    /\ lifespan' = lifespan + 1
    /\ pc' = IF rt.started THEN "bind" ELSE "pool"
    /\ UNCHANGED <<settings, rt, open, bound, down, report>>

\* _start_postgres_pool: one pool for the conversations and the runs.
StartPool ==
    LET needed == "postgres" \in {settings.conv, settings.runs} /\ "asyncpg" \notin rt.held
    IN
    /\ pc = "pool"
    /\ \E outcome \in Outcomes(needed) :
          LET got == IF needed /\ outcome = "ok" THEN {"asyncpg"} ELSE {} IN
          /\ pc' = After(outcome, "conv")
          /\ Becomes([rt EXCEPT !.held = @ \cup got], got, {})

\* start of a PostgreSQL store, over the shared pool: it counts as started only
\* after its tables are there.
Started(x, outcome) == IF outcome = "ok" THEN rt.on \cup {x} ELSE rt.on \ {x}

\* start of the Redis store: a client that does not answer is closed.
RedisClient(outcome) ==
    IF settings.conv = "redis" /\ outcome = "ok" THEN {"redis"} ELSE {}

\* _build_conversation_store and its start; a missing REDIS_URL is an error too.
StartConversations ==
    /\ pc = "conv"
    /\ \E outcome \in Outcomes(settings.conv # "memory") :
          LET client == RedisClient(outcome) IN
          /\ pc' = After(outcome, "runs")
          /\ Becomes([rt EXCEPT !.conv = settings.conv, !.on = Started("conv", outcome),
                                !.held = (@ \ {"redis"}) \cup client],
                     client, {"conv"})

\* _build_run_repository and its start.
StartRuns ==
    /\ pc = "runs"
    /\ \E outcome \in Outcomes(settings.runs # "memory") :
          /\ pc' = After(outcome, "saver")
          /\ Becomes([rt EXCEPT !.runs = settings.runs, !.on = Started("runs", outcome)],
                     {}, {"runs"})

\* The checkpointer: its pool is referred to before it is opened, the saver
\* is replaced before its tables are set up.  Without DATABASE_URL there is
\* an error before there is a pool.
StartCheckpointer ==
    /\ pc = "saver"
    /\ \/ /\ settings.saver = "memory"
          /\ pc' = "artifacts"
          /\ Becomes(rt, {}, {})
       \/ /\ settings.saver = "postgres"
          /\ pc' = "unwind"
          /\ Becomes(rt, {}, {})
       \/ /\ settings.saver = "postgres"
          /\ \E outcome \in Outcomes(TRUE), opened \in BOOLEAN :
                /\ outcome = "ok" => opened
                /\ pc' = After(outcome, "artifacts")
                /\ Becomes([rt EXCEPT !.held = @ \cup {"psycopg"},
                                      !.saver = IF opened THEN "postgres" ELSE @],
                           {"psycopg"}, IF opened THEN {"saver"} ELSE {})

\* The artifact store, referred to before its bucket is looked up.
StartArtifacts ==
    LET needed == settings.artifacts = "minio" IN
    /\ pc = "artifacts"
    /\ \E outcome \in Outcomes(needed) :
          /\ pc' = After(outcome, "neo4j")
          /\ Becomes([rt EXCEPT !.held = IF needed THEN @ \cup {"minio"} ELSE @], {}, {})

\* _start_neo4j: its failure is a degradation of its own unless persistence
\* is required; the driver is closed before it is ever referred to.
StartNeo4j ==
    LET needed == settings.neo4j /\ "bolt" \notin rt.held IN
    /\ pc = "neo4j"
    /\ \E outcome \in Outcomes(needed) :
          LET got == IF needed /\ outcome = "ok" THEN {"bolt"} ELSE {}
              tolerated == outcome = "error" /\ ~settings.persistence_required
          IN
          /\ pc' = IF tolerated THEN "finish" ELSE After(outcome, "finish")
          /\ Becomes([rt EXCEPT !.held = @ \cup got,
                                !.neo4j_degraded = tolerated \/ (@ /\ got = {})],
                     got, {})

\* The end of start.
FinishStart ==
    /\ pc = "finish"
    /\ pc' = "bind"
    /\ Becomes([rt EXCEPT !.started = TRUE, !.degraded_reason = "none"], {}, {})

-----------------------------------------------------------------------------
(* Fallback and shutdown *)

\* Mutant of Closed: the pool of the checkpointer is forgotten.
ClosedButCheckpointer(r) ==
    [r EXCEPT !.on = {}, !.held = @ \cap {"psycopg"}, !.started = FALSE]

\* aclose: every backend is closed and let go of, also when one of the others
\* fails to close.
Closed(r) == [r EXCEPT !.on = {}, !.held = {}, !.started = FALSE]

\* The pools that are still open once aclose has left the given ones: each is
\* closed once, by the one who opened it; the stores over the shared asyncpg
\* pool only let go of it.
CloseOpen(left) ==
    [p \in Pools |-> IF p \in rt.held \ left THEN open[p] - 1 ELSE open[p]]

\* Mutant of MemoryRuntime: the checkpointer stays.
MemoryRuntimeKeepsSaver(r, reason) ==
    [r EXCEPT !.conv = "memory", !.runs = "memory",
              !.on = {"conv", "runs"}, !.held = @ \ {"minio", "bolt", "psycopg"},
              !.started = TRUE, !.degraded_reason = reason, !.neo4j_degraded = FALSE]

\* use_memory_fallback, after aclose.  The reason is str of the exception.
MemoryRuntime(r, reason) ==
    [r EXCEPT !.conv = "memory", !.runs = "memory", !.saver = "memory",
              !.on = {"conv", "runs"}, !.held = @ \ {"minio", "bolt", "psycopg"},
              !.started = TRUE, !.degraded_reason = reason, !.neo4j_degraded = FALSE]

\* Mutant of Required: a required artifact store does not count.
RequiredPersistence == settings.persistence_required

\* A failure to start persistence is fatal.
Required ==
    \/ settings.persistence_required
    \/ settings.artifacts = "minio" /\ settings.artifact_storage_required

\* The except blocks of StateRuntime.start and of the agent's start: close
\* what is open; then give up, or serve from memory.  Errors of the runtime's
\* own have a message, those of a driver may have none, as TimeoutError().
\* A cancellation in the midst of it leaves the rest to the lifespan's finally;
\* a pool whose close is cancelled is closed, that is left to the driver.
Unwind ==
    /\ pc = "unwind"
    /\ \/ /\ Required
          /\ pc' = "closing" /\ rt' = Closed(rt) /\ open' = CloseOpen(Closed(rt).held)
          /\ UNCHANGED bound
       \/ /\ ~Required
          /\ \E reason \in {"empty", "text"} : rt' = MemoryRuntime(Closed(rt), reason)
          /\ pc' = "bind" /\ open' = CloseOpen(Closed(rt).held) /\ bound' = {}
       \/ \E left \in SUBSET rt.held :
             /\ pc' = "closing" /\ rt' = [rt EXCEPT !.held = left] /\ open' = CloseOpen(left)
             /\ UNCHANGED bound
    /\ UNCHANGED <<settings, down, report, lifespan>>

\* The agent takes the conversation store and builds the graph over the
\* checkpointer; then Ollama and MCP are started, which may be required.
Bind ==
    /\ pc = "bind"
    /\ pc' = "dependencies"
    /\ bound' = bound \cup {"conv", "saver"}
    /\ UNCHANGED <<settings, rt, open, down, report, lifespan>>

\* ChatRuntimeAgent.start takes the run repository last.
Serve ==
    /\ pc' = "serving"
    /\ bound' = bound \cup {"runs"}

\* Ollama and MCP are up or optional; or one that is required failed, or the
\* start is cancelled.
StartDependencies ==
    /\ pc = "dependencies"
    /\ \/ Serve
       \/ pc' = "closing" /\ UNCHANGED bound
    /\ UNCHANGED <<settings, rt, open, down, report, lifespan>>

\* The server stops.
Stop ==
    /\ pc = "serving"
    /\ pc' = "closing"
    /\ UNCHANGED <<settings, rt, open, bound, down, report, lifespan>>

\* The lifespan's finally: aclose of the agent and with it of the runtime.
Close ==
    /\ pc = "closing"
    /\ pc' = "stopped"
    /\ rt' = Closed(rt) /\ open' = CloseOpen(Closed(rt).held)
    /\ UNCHANGED <<settings, bound, down, report, lifespan>>

-----------------------------------------------------------------------------
(* Health *)

\* A service fails or comes back.
Outage(s) ==
    /\ pc = "serving"
    /\ down' = IF s \in down THEN down \ {s} ELSE down \cup {s}
    /\ UNCHANGED <<settings, pc, rt, open, bound, report, lifespan>>

\* StateRuntime.health raises: nothing catches the conversation store and the
\* artifact store.
HealthRaises == rt.conv \in down \/ "minio" \in rt.held \cap down

\* The run repository is asked with its errors caught.
RunsOk == rt.runs \notin down /\ "runs" \in rt.on

\* Mutant of CheckpointOk: the checkpointer is not asked.
CheckpointAssumed == TRUE

\* _checkpoint_health: a read of the checkpointer with its errors caught.
CheckpointOk == rt.saver \notin down

\* The persistence part of ready_health; a health that raises is not ready.
\* Whether MinIO still has its bucket is told, not raised.
Ready(bucket) ==
    /\ settings.persistence_required => ~HealthRaises /\ RunsOk /\ CheckpointOk
    /\ settings.artifact_storage_required =>
          ~HealthRaises /\ (settings.artifacts = "minio" => "minio" \in rt.held /\ bucket)

\* The status of the persistence payload: an empty degraded_reason counts as none.
HealthStatus ==
    CASE HealthRaises -> "unavailable"
      [] ~HealthRaises /\ (rt.degraded_reason = "text" \/ rt.neo4j_degraded) -> "degraded"
      [] OTHER -> "available"

HealthCheck ==
    /\ pc = "serving"
    /\ \E bucket \in BOOLEAN : report' = [ready |-> Ready(bucket), status |-> HealthStatus]
    /\ UNCHANGED <<settings, pc, rt, open, bound, down, lifespan>>

StateNext ==
    \/ Begin \/ StartPool \/ StartConversations \/ StartRuns \/ StartCheckpointer
    \/ StartArtifacts \/ StartNeo4j \/ FinishStart \/ Unwind \/ Bind
    \/ StartDependencies \/ Stop \/ Close \/ HealthCheck
    \/ \E s \in Services : Outage(s)

StateSpec == StateInit /\ [][StateNext]_stateVars

-----------------------------------------------------------------------------
(* Properties *)

StoresAsConfigured == \A x \in References : rt[x] = settings[x]

AsConfigured ==
    /\ StoresAsConfigured
    /\ settings.artifacts = "minio" => "minio" \in rt.held
    /\ settings.neo4j => "bolt" \in rt.held

\* NothingLeaks: whatever start-up step fails or is cancelled, no pool or
\* driver is open that the runtime does not refer to any more, and none is
\* left open by a fallback or a shutdown (StateRuntime.start, aclose).
NothingLeaks ==
    /\ \A p \in Pools : open[p] = IF p \in rt.held THEN 1 ELSE 0
    /\ pc = "stopped" \/ (pc = "serving" /\ rt.degraded_reason # "none") => rt.held = {}

\* ServesWhatItStarted: the agent serves from the very stores the runtime
\* started last, over open pools, and never from a mixture of configured and
\* fallback stores: history, runs and checkpoints belong together
\* (use_memory_fallback: "a clean in-memory runtime").
ServesWhatItStarted ==
    pc = "serving" =>
        /\ bound = References /\ rt.on = {"conv", "runs"}
        /\ "postgres" \in {rt.conv, rt.runs} => "asyncpg" \in rt.held
        /\ rt.conv = "redis" => "redis" \in rt.held
        /\ rt.saver = "postgres" => "psycopg" \in rt.held
        /\ StoresAsConfigured \/ \A x \in References : rt[x] = "memory"

\* RequiredStopsStartup: the application never serves without a backend its
\* settings require ("required dependency failures stop startup").
RequiredStopsStartup ==
    pc = "serving" =>
        /\ settings.persistence_required => AsConfigured
        /\ settings.artifact_storage_required /\ settings.artifacts = "minio"
              => "minio" \in rt.held

\* A fallback because of an error without a message.
SilentFallback == rt.degraded_reason = "empty"

\* HealthIsHonest: a readiness check that needs persistence or artifacts passes
\* only while the configured stores are in use and their services answer.  The
\* status tells a missing backend from a complete configuration with a single
\* exception: after a fallback for an error without a message it says
\* "available", although README.md promises that "Optional dependency startup
\* failures enter explicit memory degradation" (ready_health, StateRuntime.health).
HealthIsHonest ==
    [][HealthCheck =>
         /\ report'.ready /\ settings.persistence_required =>
               StoresAsConfigured /\ {rt.conv, rt.runs, rt.saver} \cap down = {}
         /\ report'.ready /\ settings.artifact_storage_required /\ settings.artifacts = "minio"
               => "minio" \in rt.held \ down
         /\ report'.status = "available" <=>
               ~HealthRaises /\ (AsConfigured \/ SilentFallback)]_stateVars
=============================================================================
