-------------------------- MODULE StateRuntimeProofs --------------------------
(***************************************************************************)
(* Proofs about StateRuntime for any number of lifespans and every choice  *)
(* of backends: nothing leaks, what is served was started, requirements    *)
(* stop the start-up and the readiness check is honest.                    *)
(***************************************************************************)
EXTENDS StateRuntime, TLAPS

-----------------------------------------------------------------------------
(* The inductive invariant *)

Pcs == {"stopped", "pool", "conv", "runs", "saver", "artifacts", "neo4j",
        "finish", "unwind", "bind", "dependencies", "serving", "closing"}

Typed ==
    /\ settings \in Settings /\ pc \in Pcs /\ rt \in Runtime
    /\ open \in [Pools -> Nat] /\ bound \subseteq References /\ down \subseteq Services

\* The runtime refers to the pools that are open, and each is open once.
PoolsHeld == \A p \in Pools : open[p] = IF p \in rt.held THEN 1 ELSE 0

\* What each start-up step has achieved.
PoolUp == "postgres" \in {settings.conv, settings.runs} => "asyncpg" \in rt.held
ConvUp ==
    /\ rt.conv = settings.conv /\ "conv" \in rt.on
    /\ settings.conv = "redis" => "redis" \in rt.held
RunsUp == rt.runs = settings.runs /\ "runs" \in rt.on
SaverUp ==
    /\ rt.saver = settings.saver
    /\ settings.saver = "postgres" => "psycopg" \in rt.held
ArtifactsUp == settings.artifacts = "minio" => "minio" \in rt.held
Neo4jUp ==
    /\ rt.neo4j_degraded <=> settings.neo4j /\ "bolt" \notin rt.held
    /\ rt.neo4j_degraded => ~settings.persistence_required

\* The await at which a step's pool is opened, and those before it.
BeforeConv == {"stopped", "pool", "conv"}
BeforeSaver == BeforeConv \cup {"runs", "saver"}
BeforeNeo4j == BeforeSaver \cup {"artifacts", "neo4j"}
StartingUp == BeforeNeo4j \cup {"finish"}

\* The start-up steps happen in order; a pool that is to be opened is not held.
StartsInOrder ==
    /\ pc \in {"stopped", "pool"} => rt.held = {} /\ rt.on = {}
    /\ pc \in BeforeConv => "redis" \notin rt.held
    /\ pc \in BeforeSaver => "psycopg" \notin rt.held
    /\ pc \in BeforeNeo4j => "bolt" \notin rt.held
    /\ pc \in StartingUp \ {"stopped", "pool"} => PoolUp
    /\ pc \in StartingUp \ BeforeConv => ConvUp
    /\ pc \in StartingUp \ (BeforeConv \cup {"runs"}) => RunsUp
    /\ pc \in StartingUp \ BeforeSaver => SaverUp
    /\ pc \in {"neo4j", "finish"} => ArtifactsUp
    /\ pc = "finish" => Neo4jUp

\* Something is configured that the memory fallback does not have.
WantsServices ==
    \/ settings.conv # "memory" \/ settings.runs # "memory" \/ settings.saver # "memory"
    \/ settings.artifacts = "minio"

\* The two ways to be up.
Configured ==
    /\ PoolUp /\ ConvUp /\ RunsUp /\ SaverUp /\ ArtifactsUp /\ Neo4jUp
    /\ rt.degraded_reason = "none"
Fallback ==
    /\ rt.conv = "memory" /\ rt.runs = "memory" /\ rt.saver = "memory"
    /\ rt.on = {"conv", "runs"} /\ rt.held = {}
    /\ rt.degraded_reason \in {"empty", "text"} /\ ~rt.neo4j_degraded
    /\ WantsServices /\ ~Required

Up == {"bind", "dependencies", "serving"}

UpInOneWay ==
    /\ pc \in Up => Configured \/ Fallback
    /\ pc \in {"dependencies", "serving"} => {"conv", "saver"} \subseteq bound
    /\ pc = "serving" => "runs" \in bound

\* What earlier lifespans leave behind in the attributes.
Leftovers ==
    /\ rt.started => pc \in Up \cup {"closing"}
    /\ rt.neo4j_degraded => settings.neo4j
    /\ rt.saver \in {"memory", settings.saver}
    /\ pc = "unwind" => WantsServices \/ Required

StateInv ==
    /\ Typed /\ PoolsHeld /\ StartsInOrder /\ UpInOneWay /\ Leftovers

-----------------------------------------------------------------------------
\* The initial states.
LEMMA StateInitInv == StateInit => StateInv
  BY DEF StateInit, StateInv, Typed, PoolsHeld, StartsInOrder, UpInOneWay, Leftovers,
     Pcs, Runtime, References, Pools, BeforeConv, BeforeSaver, BeforeNeo4j, StartingUp, Up

USE DEF StateInv, Typed, PoolsHeld, StartsInOrder, UpInOneWay, Leftovers, Pcs,
        BeforeConv, BeforeSaver, BeforeNeo4j, StartingUp, Up,
        PoolUp, ConvUp, RunsUp, SaverUp, ArtifactsUp, Neo4jUp,
        WantsServices, Configured, Fallback

\* A lifespan begins.
LEMMA BeginInv == StateInv /\ Begin => StateInv'
  BY DEF Begin

\* The pool is opened, or is not.
LEMMA StartPoolInv == StateInv /\ StartPool => StateInv'
  BY DEF StartPool, Outcomes, After, Becomes, Runtime, Settings, Pools, Required

\* The conversation store, or its fallback.
LEMMA StartConversationsInv == StateInv /\ StartConversations => StateInv'
  <1> SUFFICES ASSUME StateInv, StartConversations PROVE StateInv'
    OBVIOUS
  <1>1. PICK outcome \in Outcomes(settings.conv # "memory") :
           /\ pc' = After(outcome, "runs")
           /\ rt' = [rt EXCEPT !.conv = settings.conv, !.on = Started("conv", outcome),
                               !.held = (@ \ {"redis"}) \cup RedisClient(outcome)]
           /\ open' = [p \in Pools |-> IF p \in RedisClient(outcome) THEN open[p] + 1
                                       ELSE open[p]]
    BY DEF StartConversations, Becomes
  <1>2. /\ pc = "conv" /\ bound' = bound \ {"conv"} /\ UNCHANGED <<settings, down>>
        /\ "redis" \notin rt.held
    BY DEF StartConversations, Becomes
  <1>3. RedisClient(outcome) \subseteq {"redis"}
    BY DEF RedisClient
  <1>4. /\ rt' \in Runtime /\ rt'.conv = settings.conv /\ rt'.on = Started("conv", outcome)
        /\ rt'.held = rt.held \cup RedisClient(outcome)
        /\ rt'.runs = rt.runs /\ rt'.saver = rt.saver
        /\ rt'.started = rt.started /\ rt'.degraded_reason = rt.degraded_reason
        /\ rt'.neo4j_degraded = rt.neo4j_degraded
    <2>1. rt' = [rt EXCEPT !.conv = settings.conv, !.on = Started("conv", outcome),
                           !.held = rt.held \cup RedisClient(outcome)]
      BY <1>1, <1>2
    <2>2. /\ rt.held \cup RedisClient(outcome) \in SUBSET (Pools \cup {"minio"})
          /\ settings.conv \in {"memory", "postgres", "redis"}
          /\ Started("conv", outcome) \in SUBSET {"conv", "runs"}
      BY <1>3 DEF Runtime, Settings, Started, Pools
    <2> QED
      BY <2>1, <2>2 DEF Runtime
  <1>5. Typed' /\ PoolsHeld'
    <2>1. pc' \in Pcs
      BY <1>1 DEF After, Outcomes
    <2> QED
      BY <1>1, <1>2, <1>3, <1>4, <2>1 DEF Pools
  <1>6. CASE outcome = "ok"
    BY <1>1, <1>2, <1>4, <1>5, <1>6 DEF After, Started, RedisClient, Required
  <1>7. CASE outcome # "ok"
    <2>1. settings.conv # "memory" /\ pc' \in {"unwind", "closing"}
      BY <1>1, <1>7 DEF After, Outcomes
    <2> QED
      BY <1>2, <1>4, <1>5, <2>1 DEF Required
  <1> QED
    BY <1>6, <1>7

\* The run repository, or its fallback.
LEMMA StartRunsInv == StateInv /\ StartRuns => StateInv'
  <1> SUFFICES ASSUME StateInv, StartRuns PROVE StateInv'
    OBVIOUS
  <1>1. PICK outcome \in Outcomes(settings.runs # "memory") :
           /\ pc' = After(outcome, "saver")
           /\ rt' = [rt EXCEPT !.runs = settings.runs, !.on = Started("runs", outcome)]
    BY DEF StartRuns, Becomes
  <1>2. /\ pc = "runs" /\ open' = open /\ bound' = bound \ {"runs"}
        /\ UNCHANGED <<settings, down>>
    BY DEF StartRuns, Becomes
  <1>3. /\ rt' \in Runtime /\ rt'.runs = settings.runs /\ rt'.on = Started("runs", outcome)
        /\ rt'.conv = rt.conv /\ rt'.saver = rt.saver /\ rt'.held = rt.held
        /\ rt'.started = rt.started /\ rt'.degraded_reason = rt.degraded_reason
        /\ rt'.neo4j_degraded = rt.neo4j_degraded
    BY <1>1 DEF Runtime, Settings, Started
  <1>4. CASE outcome = "ok"
    BY <1>1, <1>2, <1>3, <1>4 DEF After, Started, Required
  <1>5. CASE outcome # "ok"
    <2>1. settings.runs # "memory" /\ pc' \in {"unwind", "closing"}
      BY <1>1, <1>5 DEF After, Outcomes
    <2> QED
      BY <1>2, <1>3, <2>1 DEF Required
  <1> QED
    BY <1>4, <1>5

\* The checkpointer, or its fallback.
LEMMA StartCheckpointerInv == StateInv /\ StartCheckpointer => StateInv'
  <1> SUFFICES ASSUME StateInv, StartCheckpointer PROVE StateInv'
    OBVIOUS
  <1>1. CASE /\ settings.saver = "memory" /\ pc' = "artifacts" /\ Becomes(rt, {}, {})
    BY <1>1 DEF StartCheckpointer, Becomes, Required
  <1>2. CASE /\ settings.saver = "postgres" /\ pc' = "unwind" /\ Becomes(rt, {}, {})
    BY <1>2 DEF StartCheckpointer, Becomes, Required
  <1>3. ASSUME settings.saver = "postgres", NEW outcome \in Outcomes(TRUE), NEW opened \in BOOLEAN,
               outcome = "ok" => opened, pc' = After(outcome, "artifacts"),
               Becomes([rt EXCEPT !.held = @ \cup {"psycopg"},
                                  !.saver = IF opened THEN "postgres" ELSE @],
                       {"psycopg"}, IF opened THEN {"saver"} ELSE {})
        PROVE  StateInv'
    <2>1. /\ pc = "saver" /\ UNCHANGED <<settings, down>> /\ bound' \subseteq bound
          /\ "psycopg" \notin rt.held
          /\ open' = [p \in Pools |-> IF p = "psycopg" THEN open[p] + 1 ELSE open[p]]
      BY <1>3 DEF StartCheckpointer, Becomes
    <2>2. /\ rt' \in Runtime /\ rt'.held = rt.held \cup {"psycopg"}
          /\ rt'.saver = IF opened THEN "postgres" ELSE rt.saver
          /\ rt'.conv = rt.conv /\ rt'.runs = rt.runs /\ rt'.on = rt.on
          /\ rt'.started = rt.started /\ rt'.degraded_reason = rt.degraded_reason
          /\ rt'.neo4j_degraded = rt.neo4j_degraded
      <3>1. /\ rt.held \cup {"psycopg"} \in SUBSET (Pools \cup {"minio"})
            /\ (IF opened THEN "postgres" ELSE rt.saver) \in {"memory", "postgres"}
        BY DEF Runtime, Pools
      <3> QED
        BY <1>3, <3>1 DEF Becomes, Runtime
    <2>3. Typed' /\ PoolsHeld'
      <3>1. pc' \in Pcs
        BY <1>3 DEF After, Outcomes
      <3> QED
        BY <2>1, <2>2, <3>1 DEF Pools
    <2>4. CASE outcome = "ok"
      BY <1>3, <2>1, <2>2, <2>3, <2>4 DEF After, Required
    <2>5. CASE outcome # "ok"
      <3>1. pc' \in {"unwind", "closing"}
        BY <1>3, <2>5 DEF After, Outcomes
      <3> QED
        BY <1>3, <2>1, <2>2, <2>3, <3>1 DEF Required
    <2> QED
      BY <2>4, <2>5
  <1> QED
    BY <1>1, <1>2, <1>3 DEF StartCheckpointer

\* The artifact store.
LEMMA StartArtifactsInv == StateInv /\ StartArtifacts => StateInv'
  BY DEF StartArtifacts, Outcomes, After, Becomes, Runtime, Settings, Pools, References, Required

\* Neo4j, or its degradation.
LEMMA StartNeo4jInv == StateInv /\ StartNeo4j => StateInv'
  <1> SUFFICES ASSUME StateInv, StartNeo4j PROVE StateInv'
    OBVIOUS
  <1> DEFINE Needed == settings.neo4j /\ "bolt" \notin rt.held
             Got(outcome) == IF Needed /\ outcome = "ok" THEN {"bolt"} ELSE {}
             Tolerated(outcome) == outcome = "error" /\ ~settings.persistence_required
  <1>1. /\ pc = "neo4j" /\ "bolt" \notin rt.held
    BY DEF StartNeo4j
  <1>2. PICK outcome \in Outcomes(Needed) :
           /\ pc' = IF Tolerated(outcome) THEN "finish" ELSE After(outcome, "finish")
           /\ Becomes([rt EXCEPT !.held = @ \cup Got(outcome),
                                 !.neo4j_degraded =
                                     Tolerated(outcome) \/ (@ /\ Got(outcome) = {})],
                      Got(outcome), {})
    BY Zenon DEF StartNeo4j
  <1>3. /\ UNCHANGED <<settings, down, bound>>
        /\ open' = [p \in Pools |-> IF p \in Got(outcome) THEN open[p] + 1 ELSE open[p]]
    BY <1>2 DEF Becomes
  <1>4. /\ rt' \in Runtime /\ rt'.held = rt.held \cup Got(outcome)
        /\ rt'.neo4j_degraded =
               (Tolerated(outcome) \/ (rt.neo4j_degraded /\ Got(outcome) = {}))
        /\ rt'.conv = rt.conv /\ rt'.runs = rt.runs /\ rt'.saver = rt.saver
        /\ rt'.on = rt.on /\ rt'.started = rt.started /\ rt'.degraded_reason = rt.degraded_reason
    <2>1. rt.held \cup Got(outcome) \in SUBSET (Pools \cup {"minio"})
      BY DEF Runtime, Pools
    <2> QED
      BY <1>2, <2>1 DEF Becomes, Runtime
  <1>5. Typed' /\ PoolsHeld'
    <2>1. pc' \in Pcs
      BY <1>2 DEF After, Outcomes
    <2> QED
      BY <1>1, <1>3, <1>4, <2>1 DEF Pools
  <1>6. CASE pc' = "finish"
    BY <1>1, <1>2, <1>3, <1>4, <1>5, <1>6 DEF After, Outcomes, Required
  <1>7. CASE pc' # "finish"
    BY <1>1, <1>2, <1>3, <1>4, <1>5, <1>7 DEF After, Outcomes, Required
  <1> QED
    BY <1>6, <1>7

\* The runtime is started.
LEMMA FinishStartInv == StateInv /\ FinishStart => StateInv'
  <1> SUFFICES ASSUME StateInv, FinishStart PROVE StateInv'
    OBVIOUS
  <1>1. /\ pc = "finish" /\ pc' = "bind" /\ open' = open /\ UNCHANGED <<settings, down, bound>>
        /\ rt' = [rt EXCEPT !.started = TRUE, !.degraded_reason = "none"]
    BY DEF FinishStart, Becomes
  <1>2. /\ rt' \in Runtime /\ rt'.degraded_reason = "none" /\ rt'.conv = rt.conv /\ rt'.runs = rt.runs
        /\ rt'.saver = rt.saver /\ rt'.on = rt.on /\ rt'.held = rt.held
        /\ rt'.neo4j_degraded = rt.neo4j_degraded
    BY <1>1 DEF Runtime
  <1> QED
    BY <1>1, <1>2 DEF Required

\* Closing lets go of everything.
LEMMA ClosedRuntime ==
    ASSUME StateInv
    PROVE  /\ Closed(rt) \in Runtime /\ Closed(rt).held = {} /\ Closed(rt).on = {}
           /\ ~Closed(rt).started /\ Closed(rt).saver = rt.saver
           /\ Closed(rt).neo4j_degraded = rt.neo4j_degraded
  BY DEF Closed, Runtime

\* What is left open is open once, everything else is closed.
LEMMA ClosedPools ==
    ASSUME StateInv, NEW left, left \subseteq rt.held
    PROVE  /\ CloseOpen(left) \in [Pools -> Nat]
           /\ \A p \in Pools : CloseOpen(left)[p] = IF p \in left THEN 1 ELSE 0
  BY DEF CloseOpen

\* A failed start-up closes what it opened, or what it can before it is cancelled.
LEMMA UnwindInv == StateInv /\ Unwind => StateInv'
  <1> SUFFICES ASSUME StateInv, Unwind PROVE StateInv'
    OBVIOUS
  <1>1. pc = "unwind" /\ UNCHANGED <<settings, down>>
    BY DEF Unwind
  <1>2. CASE /\ Required /\ pc' = "closing" /\ rt' = Closed(rt)
             /\ open' = CloseOpen(Closed(rt).held) /\ UNCHANGED bound
    BY <1>1, <1>2, ClosedRuntime, ClosedPools
  <1>3. ASSUME NEW reason \in {"empty", "text"}, ~Required,
               rt' = MemoryRuntime(Closed(rt), reason), pc' = "bind",
               open' = CloseOpen(Closed(rt).held), bound' = {}
        PROVE  StateInv'
    <2>1. /\ rt' \in Runtime /\ rt'.conv = "memory" /\ rt'.runs = "memory"
          /\ rt'.saver = "memory" /\ rt'.on = {"conv", "runs"} /\ rt'.held = {}
          /\ rt'.degraded_reason \in {"empty", "text"} /\ rt'.neo4j_degraded = FALSE
      BY <1>3, ClosedRuntime DEF MemoryRuntime, Runtime
    <2>2. open' \in [Pools -> Nat] /\ \A p \in Pools : open'[p] = 0
      BY <1>3, ClosedRuntime, ClosedPools
    <2> QED
      BY <1>1, <1>3, <2>1, <2>2 DEF Required
  <1>4. ASSUME NEW left \in SUBSET rt.held, pc' = "closing", rt' = [rt EXCEPT !.held = left],
               open' = CloseOpen(left), UNCHANGED bound
        PROVE  StateInv'
    <2>1. /\ rt' \in Runtime /\ rt'.held = left /\ rt'.saver = rt.saver
          /\ rt'.neo4j_degraded = rt.neo4j_degraded
      BY <1>4 DEF Runtime
    <2> QED
      BY <1>1, <1>4, <2>1, ClosedPools
  <1> QED
    BY <1>2, <1>3, <1>4 DEF Unwind

\* The agent takes the stores over.
LEMMA BindInv == StateInv /\ Bind => StateInv'
  BY DEF Bind, References, Required

\* Ollama and MCP are up or optional, or the start fails.
LEMMA StartDependenciesInv == StateInv /\ StartDependencies => StateInv'
  BY DEF StartDependencies, Serve, References, Required

\* The lifespan ends.
LEMMA StopInv == StateInv /\ Stop => StateInv'
  BY DEF Stop

\* The lifespan closes the runtime.
LEMMA CloseInv == StateInv /\ Close => StateInv'
  BY ClosedRuntime, ClosedPools DEF Close

\* The readiness check changes nothing.
LEMMA HealthInv ==
    ASSUME StateInv, HealthCheck \/ \E s \in Services : Outage(s) PROVE StateInv'
  BY DEF HealthCheck, Outage, Required

\* Every step keeps the invariant.
LEMMA StateStep == StateInv /\ [StateNext]_stateVars => StateInv'
  <1> SUFFICES ASSUME StateInv, [StateNext]_stateVars PROVE StateInv'
    OBVIOUS
  <1>1. CASE UNCHANGED stateVars
    BY <1>1 DEF stateVars, Required
  <1>2. CASE StateNext
    <2> HIDE DEF StateInv
    <2> QED
      BY <1>2, BeginInv, StartPoolInv, StartConversationsInv, StartRunsInv,
         StartCheckpointerInv, StartArtifactsInv, StartNeo4jInv, FinishStartInv, UnwindInv,
         BindInv, StartDependenciesInv, StopInv, CloseInv, HealthInv DEF StateNext
  <1> QED
    BY <1>1, <1>2

-----------------------------------------------------------------------------
(* Theorems *)

\* The inductive invariant of start-up and shutdown.
LEMMA StateInvariant == StateSpec => []StateInv
  <1> HIDE DEF StateInv
  <1> QED
    BY StateInitInv, StateStep, PTL DEF StateSpec

\* Whatever start-up step fails or is cancelled, in whatever lifespan, every open
\* pool is referred to by the runtime and open once, and none is left open by a
\* fallback or a shutdown (StateRuntime.start, use_memory_fallback, aclose).
THEOREM NoPoolLeaks == StateSpec => []NothingLeaks
  <1>1. StateInv => NothingLeaks
    BY DEF NothingLeaks
  <1> HIDE DEF StateInv
  <1> QED
    BY <1>1, StateInvariant, PTL

\* The agent serves from the very stores the runtime started last, over open
\* pools, all configured or all in memory.
THEOREM ServedIsStarted == StateSpec => []ServesWhatItStarted
  <1>1. StateInv => ServesWhatItStarted
    <2> SUFFICES ASSUME StateInv, pc = "serving" PROVE ServesWhatItStarted
      BY DEF ServesWhatItStarted
    <2>1. bound = References
      BY DEF References
    <2>2. CASE Configured
      <3>1. rt.on = {"conv", "runs"}
        BY <2>2 DEF Runtime
      <3>2. StoresAsConfigured
        BY <2>2 DEF StoresAsConfigured, References
      <3> QED
        BY <2>1, <2>2, <3>1, <3>2 DEF ServesWhatItStarted
    <2>3. CASE Fallback
      <3>1. \A x \in References : rt[x] = "memory"
        BY <2>3 DEF References
      <3> QED
        BY <2>1, <2>3, <3>1 DEF ServesWhatItStarted
    <2> QED
      BY <2>2, <2>3
  <1> HIDE DEF StateInv
  <1> QED
    BY <1>1, StateInvariant, PTL

\* The application never serves without a backend its settings require.
THEOREM RequirementsHold == StateSpec => []RequiredStopsStartup
  <1>1. StateInv => RequiredStopsStartup
    BY DEF RequiredStopsStartup, AsConfigured, StoresAsConfigured, References, Required
  <1> HIDE DEF StateInv
  <1> QED
    BY <1>1, StateInvariant, PTL

\* A readiness check that needs persistence or artifacts passes only while the
\* configured stores are in use and answer; the status is "available" exactly
\* when nothing of the configuration is missing or the runtime fell back to
\* memory for an error without a message.
THEOREM ReadinessIsHonest == StateSpec => HealthIsHonest
  <1> DEFINE Passes ==
               /\ report'.ready /\ settings.persistence_required =>
                     StoresAsConfigured /\ {rt.conv, rt.runs, rt.saver} \cap down = {}
               /\ report'.ready /\ settings.artifact_storage_required /\ settings.artifacts = "minio"
                     => "minio" \in rt.held \ down
             Status ==
               report'.status = "available" <=>
                   ~HealthRaises /\ (AsConfigured \/ SilentFallback)
             Honest == HealthCheck => Passes /\ Status
  <1>1. StateInv => [Honest]_stateVars
    <2> SUFFICES ASSUME StateInv, HealthCheck PROVE Passes /\ Status
      OBVIOUS
    <2>1. PICK bucket \in BOOLEAN : report' = [ready |-> Ready(bucket), status |-> HealthStatus]
      BY DEF HealthCheck
    <2>2. pc = "serving" /\ report'.ready = Ready(bucket) /\ report'.status = HealthStatus
      BY <2>1 DEF HealthCheck
    <2>3. AsConfigured \/ SilentFallback <=> rt.degraded_reason # "text" /\ ~rt.neo4j_degraded
      <3>1. CASE Configured
        BY <3>1 DEF AsConfigured, StoresAsConfigured, References, SilentFallback
      <3>2. CASE Fallback
        BY <3>2 DEF AsConfigured, StoresAsConfigured, References, SilentFallback
      <3> QED
        BY <2>2, <3>1, <3>2
    <2>4. settings.persistence_required => StoresAsConfigured
      BY <2>2 DEF StoresAsConfigured, References, Required
    <2>5. HealthStatus = "available" <=>
              ~HealthRaises /\ rt.degraded_reason # "text" /\ ~rt.neo4j_degraded
      BY DEF HealthStatus
    <2>6. Passes
      BY <2>2, <2>4 DEF Ready, HealthRaises, RunsOk, CheckpointOk
    <2> QED
      BY <2>2, <2>3, <2>5, <2>6
  <1> HIDE DEF StateInv, Honest
  <1>2. [][Honest]_stateVars => HealthIsHonest
    BY PTL DEF HealthIsHonest, Honest
  <1> QED
    BY <1>1, <1>2, StateInvariant, PTL DEF StateSpec

\* The settings, the attributes of the runtime, the references of the agent and
\* the readiness report stay well formed through every lifespan, each pool is
\* open a natural number of times, and no more lifespans begin than are allowed.
THEOREM RuntimeIsWellTyped == StateSpec => []StateTypeOK
  <1> DEFINE Told == /\ report \in [ready : BOOLEAN, status : {"available", "degraded", "unavailable"}]
                     /\ lifespan \in 0..MaxLifespans
  <1>1. StateInit => Told
    BY LifespansAssumption DEF StateInit
  <1>2. Told /\ [StateNext]_stateVars => Told'
    <2> SUFFICES ASSUME Told, [StateNext]_stateVars PROVE Told'
      OBVIOUS
    <2>1. CASE HealthCheck
      <3>1. PICK bucket \in BOOLEAN :
               report' = [ready |-> Ready(bucket), status |-> HealthStatus] /\ lifespan' = lifespan
        BY <2>1 DEF HealthCheck
      <3>2. Ready(bucket) \in BOOLEAN
        BY DEF Ready
      <3>3. HealthStatus \in {"available", "degraded", "unavailable"}
        BY DEF HealthStatus
      <3> QED
        BY <3>1, <3>2, <3>3
    <2>2. CASE Begin
      BY <2>2, LifespansAssumption DEF Begin
    <2>3. CASE UNCHANGED <<report, lifespan>>
      BY <2>3
    <2>4. HealthCheck \/ Begin \/ UNCHANGED <<report, lifespan>>
      BY DEF StateNext, stateVars, StartPool, StartConversations, StartRuns, StartCheckpointer,
             StartArtifacts, StartNeo4j, FinishStart, Becomes, Unwind, Bind, StartDependencies,
             Stop, Close, Outage
    <2> QED
      BY <2>1, <2>2, <2>3, <2>4
  <1>3. StateInv /\ Told => StateTypeOK
    BY DEF StateTypeOK
  <1> HIDE DEF StateInv, Told
  <1> QED
    BY <1>1, <1>2, <1>3, StateInvariant, PTL DEF StateSpec
=============================================================================
