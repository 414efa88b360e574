# A TLA+ model of the agent service

The repository is a FastAPI service that answers chat requests with a LangGraph
agent graph over Ollama models and MCP tools. It promises that a run has one
owner at a time, that a finished run is replayed and never executed twice, that
an interrupted run can be resumed from its checkpoint, and that the agent graph
stays within a budget and returns only verified answers. This directory models
the parts that carry these promises, checks them with TLC and proves their safety
properties with TLAPS for every value of the constants. `PROJECT.json` lists the components, runs, hazards, findings and
theorems and maps every definition to the source lines it models.

## 1. Inventory

| Component | State | Operations | Hard behaviour | Module |
|---|---|---|---|---|
| Run repository (`app/state/run_repository.py`, SQL migration) | run records, conversation leases with fencing counter | `create_or_get`, `acquire`, `renew`, `release`, `mark_terminal`, `mark_history_committed`, `reconcile_history_committed`, `revoke_resume_tokens` | expiry, takeover, late calls of former owners, two backends | `RunRepository`, `FencedRuns` |
| Chat runtime (`app/orchestration/chat_runtime.py`) | a request's place and local variables | preflight, migration, replay, lease, execution with heartbeat, outcome, history, release | every `await` interleaves with other requests, cancellation, faults, crashes | `ChatRuntime` |
| Conversation gate (`run_identity.py`) | owner per conversation and process | `hold` | exit of a refused or cancelled entry | `ChatRuntime` |
| Identity and tokens (`run_identity.py`) | issued tokens | `normalize`, `issue_resume_token`, `_identity_from_token` | reuse of a run id with another payload | `ChatRuntime` (partly) |
| Agent graph (`app/graph.py`, `app/graphs/routes.py`) | `AgentGraphState`, next node | eleven nodes, six routes | cycles, stale reports, stops in the middle, resumption | `AgentGraph` |
| Execution meter, structured agents | attempts, rounds, deadline | `check`, `begin_model_attempt`, `invoke_json`, `invoke_text` | limits met inside an operation | `AgentGraph` (partly) |
| Ollama admission (`app/llm/resource_manager.py`) | two semaphores, counters, unfinished attempts | `acquire`, its exit, cancellation in both queues | cancellation at each suspension, nested semaphores | `OllamaResources` |
| MCP session and tool executor (`app/mcp/session.py`, `client.py`, `app/tools/executor.py`) | session state, generation, lock, the executor's slots | `execute`, `_rpc`, `ensure_initialized`, `recover_expired`, `_respond_to_server_request` | concurrent expiry, lost answers, no replay of tool calls, slots held through recoveries | `MCPSession` |
| Conversation stores (`app/state/in_memory.py`, `redis.py`, `postgres.py`) | messages and committed runs of each conversation | `get`, `append_turn`, `clear`, purge, eviction, expiry | idempotence after trimming, two things that expire apart, interleaved transactions | `ConversationStores`, `TurnLog` |
| State runtime (`app/state/runtime.py`, agent start, lifespan, readiness) | backends, pools, the agent's references | start, fallback, close, health | failure or cancellation after some backends are open | `StateRuntime` |
| Inventory (`app/services/inventory.py`, `list_models`, `list_tools`) | lists and their ages in service and clients | `load`, refresh, stale-if-error, `invalidate_tools_cache` | stacked caches, failing sources, one lock for all callers | `Inventory` |
| Routing, prompts, formatting, wire formats, HTTP routes, settings, metrics, `RunRegistry` | none, or not used | | | not modelled |

How they interact: an HTTP route calls `ChatRuntimeAgent`, which enters the
gate, reads or creates the run's record, leases the conversation, executes the
graph while a heartbeat task renews the lease, stores the outcome, appends the
turn to the history, notes that in the record and releases the lease. The graph's
nodes call models through `OllamaResourceManager` and tools through the MCP
client. Several server processes share the PostgreSQL repository, history and
checkpoints. Which backends these are is decided when the application starts.

## 2. Modules

### FencedRuns
What the repository promises: a conversation is held by at most one run, each
grant has the next token (`epoch`), a run is opened once in one conversation
(`home`), and its status changes by a grant or by the current holder only.
There is no time, no handle and no table in it.

### RunRepository
`records` is `app_runs`, `leases` is `app_conversation_leases` together with the
fencing counter, `handles` the set of every `RunLease` ever returned. One action
per operation: each runs under the memory lock or as one statement or
transaction. Operations take any handle of `handles`, however old: that is every
delayed, duplicated and reordered call. `Backend` selects the implementation
where the two differ: the memory backend validates the identity in `acquire`,
PostgreSQL compares the record's fencing columns in every write, renews the
record only where the token agrees, and reconciles terminal runs only. Time is a
countdown to the expiry instead of a clock, which keeps the state space finite
without changing any comparison with now. A response payload stands for the
answer; its `history_persisted` flag is the record's `history`. A `NULL` token is 0.

### ChatRuntime
Extends RunRepository, so all repository steps are the very actions that are
proved about. `pc[q]` names the await a request is suspended at: `load`,
`migrate`, `replay`, `reconcile`, `probe`, `acquire`, `execute`, `settle`,
`append`, `commit`, `interrupt`, `release`. `gate` is the conversation gate of
each process, `turns` the stored turn of each run, `checkpoints` the LangGraph
checkpoint of each execution thread (none, partial or the final answer), `issued` the identities with a
resume token. `deployment` is chosen at the start and never changes: which process
serves which request under which run id and conversation, and which faults may
happen: `db_error` (an operation raises without
effect), `ack_lost` (it takes effect and raises), `cancel` (a `CancelledError` at
any await), `crash` (a process dies with its requests and its gate), `revoke` (a
run's tokens are revoked). The graph's
inside is abstracted to `Checkpoint`, which stands for LangGraph's own writes after a
node, and `Finish`.

### AgentGraph
One action per node, since LangGraph checkpoints between nodes and a node that is
interrupted runs again. Models may answer anything their schemas admit, or fail:
`ModelOperation` gives the meters an operation can leave behind. A result carries
the number of the execution that produced it and a report the draft it judged,
so that a stale report is visible. A claim is abstracted to the task whose
evidence it cites. `raised` is an exception that no node handles and that the
runtime turns into a failure response. `settings` (backend, MCP) is chosen at
the start and never changes.

### OllamaResources
Tasks suspend on `_all`, on `_heavy` or in the HTTP call; `_state_lock` is never
held across an await and so never suspends. `got_all` and `got_heavy` are the
moments between a semaphore's handing over of a slot and the task's next step,
where a cancellation must give it back. `asyncio.Semaphore` (external) is first
come, first served.

### MCPSession
Calls suspend on the executor's semaphore (tool calls only, `slots`), on the
session lock and on every HTTP post. The server (external) knows the live sessions
and may drop any of them, an answer may be lost before or after the server acted
(which stands for a post the meter refuses, too), and a request of the server's may
come with an answer: the client replies to it before its call returns (`respond`).
Calls may be cancelled, also by the deadline of the run's budget. A cancelled
handshake frees the lock but does not reset the session, as the `except Exception`
does not see the `CancelledError`.

### TurnLog and ConversationStores
`TurnLog` is what a store promises the chat runtime: a conversation is a log of
whole turns, a run adds its turn once, and a store that bounds its memory may lose
a conversation as a whole, but never forgets a committed run while the log still
holds its turn. `ConversationStores` has the three implementations, one of which
(`backend`) is chosen at the start. The memory store keeps `list`, its LRU order
and ages; the Redis store `list` and `committed` with an age each, since the two
keys expire apart, and `legacy` markers of an earlier release; the PostgreSQL store
the rows of its table with their numbers and, for every writer, the statement its
transaction has reached (`tx`): lock, mark, number, insert and commit, or abort at
any of them. `log` is a ghost: the turns appended since the conversation was last
lost. The refinement maps the abstract `done` to `committed` and `legacy` together.
The stores' `append` of single messages is called by `ChatAgent.ainvoke` only,
which `ChatRuntimeAgent` overrides; it is left out.

### Inventory
A list is its age: how long ago its server gave it (`real`) and how long ago it was
put into the cache that holds it (`at`, all the code knows). `client` are the caches
of the Ollama and the MCP client, `service` those of the `InventoryService`. `pc`
and `queue` are the callers of `load` and its lock, `fetch` the two coroutines under
`gather`, and `served` what a load returned. The server's giving of its list and the
arrival of the answer are two actions, so that an invalidation falls between them.
Nothing in the repository calls `invalidate` of the service or passes
`force_refresh`; both are left out.

### StateRuntime
`pc` names the await the lifespan is suspended at: the start-up steps `pool`,
`conv`, `runs`, `saver`, `artifacts`, `neo4j`, `finish`, then `bind`,
`dependencies` and `serving`, with `unwind` for the `except` blocks and `closing`
for the lifespan's `finally`. `rt` holds the attributes of the `StateRuntime`,
`open` counts the pools and drivers that are really open, and `bound` the
attributes whose present object the agent refers to: replacing an attribute takes
it out of `bound`, binding puts it back. A step that talks to a service succeeds,
raises, or is cancelled. `settings` is any combination of backends and
requirements. Closing is one step, since every close is attempted whatever the
others do; a cancellation in the midst of it, in the `except` block of `start`, leaves
any part to the lifespan's `finally` (a superset of what the order of the closes
allows). A pool whose own close is cancelled counts as closed: that is its driver's
business. `degraded_reason` is what the code keeps of it: none, an empty string or
a text, as `str` of the error that `Unwind` falls back for may be empty. The
runtime's own errors always have a text; a driver's error may come at the same
await, so `Unwind` chooses freely. An outage while serving is an exception of the
service's health check, a missing bucket of MinIO an answer of it; Neo4j has no part
in readiness.

MC modules give the constants values (`MCChatRuntime` the deployments); they define
nothing else.

## 3. Runs

| Run | What it shows | Bounds |
|---|---|---|
| `RunRepository_postgres` | types, agreement of lease and record, unique tokens, frozen superseded runs, exclusive grants, refinement of FencedRuns | 2 runs, 1 conversation, 2 owners, TTL 2, 3 tokens |
| `Chat_faults` | a delivered reply stays the stored outcome, committed history is that reply, the gate is exclusive, only unfinished runs are resumed, a stored outcome changes only when its own request marks the run interrupted | deployment `Single`: 3 requests for a run id, 2 conversations, 2 payload hashes, 2 answers, 2 token versions, a possible legacy checkpoint, 1 process, `db_error`, `ack_lost`, `crash`, `revoke`; deployment `Turns`: 2 runs of a conversation, 2 processes, 3 requests, `db_error`, `crash` |
| `Chat_live` | requests end, leases lapse, ChatRuntime's repository steps are steps of `RepoSpec` | 2 requests for a run, 2 processes, TTL 2, a possible legacy checkpoint, `cancel`, `db_error`, `ack_lost`, `crash` |
| `Stores_turns` | a reader sees the newest turns in order, no turn twice, the memory store is bounded, each store implements `TurnLog` | 3 sessions of which the memory store keeps 2, a window of 3 messages (a turn and a half), 3 runs, 2 writers, TTL 2 |
| `Graph_runs` | plan, results and reports agree, only verified work counts, stops are final, the answer is verified, evidence comes first, work is bounded, the graph ends | both backends, MCP on and off, 2 tasks, 2 task ids, 9 model calls, 2 rounds, 1 replan, 1 final revision, 1 resumption |
| `Ollama_admission` | slots are conserved, counters and attempts settle, waiters are served | 3 slots, 1 heavy slot, 3 heavy and 2 light tasks |
| `Mcp_recovery` | one handshake at a time, one per expiry, no replay of a tool call, calls return | a `tools/list` and 2 tool calls, 1 or 2 slots, 2 expiries, lost answers, cancellations |
| `Inventory_caches` | how old a served list is, no usable list lost silently, one refresh at a time, loads return | 2 callers, MCP on and off, TTL 1, stale period 2, requests of at most 1 tick |
| `State_lifecycle` | no pool leaks, the agent serves from the stores that were started and from no mixture, required backends stop the start-up, readiness is honest and the status hides one degradation only (finding 4) | all 192 settings, 2 lifespans, errors and cancellations at every step |
| `Chat_cancelled_outcome`, `Chat_reopened_run`, `Mcp_concurrent_expiry` | the findings below | 1 to 2 requests or calls |

Why the bounds are enough to be interesting: two runs of a conversation and
three tokens allow a takeover and the return of the first run; TTL 2 lets a
renewal move an expiry that has already come closer; three requests for a run are
a first attempt, a resumption and a replay; nine model calls are a plan, two
tasks, a fallback, a synthesis, a verification, a revision and its verification,
so each limit is met at some place and missed at others; three heavy tasks fill
the heavy slot and two total slots with waiters; a window of three messages cuts a
turn in two; with times of one tick each, a list can pass through both caches at
the last moment, and the bound of `AgeBounded` is reached exactly. A second
lifespan of one application object shows whether a degradation is inherited.
Symmetry is used for owners, requests, payloads, task ids, sessions, runs and writers, in runs
without liveness. Deadlock is not checked where the system may stop: requests,
calls and lifespans are finite in number, graphs end. It is checked for
RunRepository, OllamaResources, ConversationStores and Inventory, whose callers go
on forever.

Fairness. ChatRuntime: weak fairness of each request's awaits (asyncio runs ready
tasks, database calls return or raise), of the execution (the graph ends, which
`Graph_runs` shows, and its calls have timeouts) and of the clock; none for
submissions, heartbeats, cancellations or crashes. OllamaResources: weak fairness
of a task that was handed its slot and of the HTTP call, which has a timeout.
MCPSession: weak fairness of every call, as slots and lock are handed on and posts
have timeouts; none for expiries and cancellations. Inventory: weak fairness of
ready loads, and of the failure of an unanswered request, which has a timeout; none
for answers, cancellations and the clock. AgentGraph needs none: `GraphEnds` says
that some node can always run and that a variant decreases with every step, every
deadline and every resumption.

Every component module has a type invariant, and each of them is proved (section 4);
the run of RunRepository also checks `RepoTypeOK`.

`ConversationStores` defines its operators on sequences (`Ascending`, `Without`,
`Messages`) without recursion, so that they can be reasoned about. `MCConversationStores`
assumes, and TLC evaluates, that `Without` and `Messages` are the library's `SelectSeq` and
`FlattenSeq` on all short sequences.

Each property has a mutant in `PROJECT.json`: a variant of one mapped definition,
defined right before it, under which TLC finds the property violated.

## 4. Proofs

Every component module has a proof module that extends it. Each has the same shape:
the inductive invariant as a conjunction of named parts, lemmas about the pieces of
the steps, one lemma per action, and the theorems at the end. Every inductive
invariant was checked with TLC in the component's run before it was proved. The
queue lemmas (`LinesUp`) that OllamaResources and Inventory share stand in both proof
modules.

### RunRepositoryProofs

`RunRepositoryProofs` proves for any sets of runs, conversations, owners, hashes
and payloads, any TTL and both backends, from `RepositoryAssumption` (positive
TTL and version bound, `None` is no other value):

- `RepoTypeCorrect`, `LeasesAgree`, `TokensUnique`: the invariants of the run;
- `SupersededStaysFrozen`, `GrantsExclusive`: its action properties;
- `Refinement`: `RepoSpec` implements `FencedRuns!Spec`.

The argument. `LeaseRecordAgreement` is not inductive: to know that a step on one
run leaves the lease of another run's conversation alone, one must know that no
token lies beyond its conversation's counter and that tokens identify owners. The inductive invariant `RepoInv` therefore adds
`RecordsBound` (an absent record is empty; an existing run is bound to a
conversation whose counter its token does not exceed) and `HandlesBound` (no
handle carries a token its conversation's counter has not reached). `TokensNameOneOwner`
then gives that a live lease with the token of a handle is that handle's.
`InvStep` has one lemma per action. The refinement maps a conversation's holder to
the leased run while time is left and to `None` afterwards; each repository
operation is an abstract step or, for renewals, revocations and notes without a
payload, a stutter (`RefineStep`).

### MCPSessionProofs

`MCPSessionProofs` proves for any set of calls, any number of slots and expiries and
any faults, from `SessionAssumption` (`Nobody` is no call):

- `HandshakesExclude`: `HandshakeExclusive`, the mutual exclusion of handshakes;
- `ToolCallsOnce`: `NeverReplayed`, at most one execution of a tool call;
- `RecoveryIsSingleFlight`: `SingleFlight`, one new session per expiry;
- `ExecutorSlotsAreKept`: no step changes the number of the executor's slots, free and
  held together, however a call ends;
- `SessionIsWellTyped`: `McpTypeOK`.

None of the first three is inductive. The last conjunct of `HandshakeExclusive` needs
`NegotiatedIsLast`: a call that sends the initialized notification completes the
session the server opened last, for nobody else can open one while it has the lock.
The bound of `NeverReplayed` needs `ExecutedByPlace`: up to the first answer the
server cannot have executed a call, up to the answer to its repetition once at most,
and a tool call never reaches the places of a repetition. `McpInv` joins these with
the types; `StepInv` has one lemma per action.

`SingleFlight` bounds the sessions opened by the expiries and the failed handshakes.
Its invariant `FlightInv` says who pays for a session: all sessions are paid for
(`PaidFor`) whenever the client has none that the server knows, which is when another
one is asked for (`Budget`). That a recovery starts only then needs what a call knows
of its own session (`ExpiryWitnessed`): a call that saw the present generation carried
the present id, and one that waits to recover has met the end of its session.

For the slots, every step of a call is one of three moves (`SlotMove`): it leaves the
semaphore alone, takes a free slot, or ends and gives back the slot it holds. `SlotInv`
adds that only tool calls ask for slots.

### ChatRuntimeProofs

For any sets of requests, processes, runs and conversations and any deployment, from
`RepositoryAssumption` and `RuntimeAssumption` (requests are owners, crashes are
survived by PostgreSQL only, `partial` is no answer):

- `ChatTypeCorrect`; `GateExcludes`: `GateExclusive`;
- `UsesRepositoryProperly`: `ImplementsRepository`, every step of the runtime is a step
  of the repository's specification or leaves it alone;
- `RuntimeKeepsPromises`: with the theorems of RunRepository, the repository's
  invariants hold of the running service.

The invariant `ChatInv` has what each await relies on: the gate is held by the request
that is inside, by nobody else, and by nobody when empty (`GateHeld`, `GateAlone`,
`GateUsed`); past the preflight the identity was confirmed by the record
(`RecordConfirmed`); a lease in a local variable was granted for this run
(`LeaseGranted`).

Under the hypothesis `RunsStay`, that the requests for a run reach one process:

- `RepliesAreDurable`: `ReplyIsDurable`, with cancellations and crashes included;
- `OutcomesAreKept`: `OutcomeChangesExplained`, which has `RunsStay` in its statement;
- `ResumesAreSafe`: `ResumesOnlyUnfinished`;
- `HistoryIsFaithful`: `HistoryFaithful`, if `cancel` is not among the faults.

The hypotheses are the exact border of findings 1 and 2: without `RunsStay` a second
process reopens a finished run (`Chat_reopened_run`), with `cancel` a stored outcome is
overwritten after its turn was appended (`Chat_cancelled_outcome`). The deployments
`Single` and `Turns` of `Chat_faults` satisfy `RunsStay`. The argument is a story for
each request: `StoryInv` says what its record looks like at each of its awaits, that a
reply is the stored outcome, and that nobody has a reply while somebody executes the
run; the gate keeps the story of one request safe from the others. `TurnsInv` adds that
a turn is the outcome of its run.

### AgentGraphProofs

For any plans, limits, answers of the models and number of resumptions, from
`GraphAssumption` (the limits are numbers, those of tasks, calls and rounds positive):

- `GraphStateIsWellFormed`, `ResultsAreThePlans`, `RecordedWorkIsVerified`,
  `StoppedRunsStay`, `AnswersAreVerified`, `EvidenceComesFirst`, `DraftsAreBounded`: the
  six invariants of `Graph_runs` and the types;
- `GraphRunsOut`: the variant of `GraphEnds` is a natural number and every step lowers
  it. That a node can always run is ENABLED and stays with TLC.

The six invariants are proved together (`GraphInv`), with `InTask` (a working node has a
current task), `DraftIsVerified` (the task about to be recorded has a passing report on
its last draft), `FinalIsSynthesis`, `EchoPlansOne` and `DraftsUseRounds`, which ties the
iterations to the verifier rounds that `WorkIsBounded` counts.

### OllamaResourcesProofs

For any finite set of tasks and any positive numbers of slots (`ResourceAssumption`):
`SlotsAreConserved` (`SlotsConserved`), `CountersAreHonest` (`CountersHonest`) and
`ResourcesStayInLimits` (`ResTypeOK`: the counters stay within the configured limits).
`SemInv` says of a semaphore that its queue lines up the tasks waiting for it, each
once, that free slots and holders make up its size, and that nobody waits for a free
slot; its lemmas treat `acquire`, `release` and the cancellation of a waiter once for
both semaphores.

### ConversationStoresProofs

For any sets of conversations, runs and writers, any window, time to live and number of
sessions, and each backend (`StoresAssumption`):

- `TurnsAreTakenOnce` (`NoTurnTwice`) and `StoresImplementTurnLog` (`ImplementsTurnLog`);
- `ReadersSeeTheLatest` (`WindowIsLatest`) and `MemoryStaysBounded` (`MemoryIsBounded`);
- `OldestLeaveFirst`: a turn takes a conversation out of the memory store only if none
  that stays has waited longer;
- `StoresWellTyped` (`StoreTypeOK`).

There are three invariants, each inductive relative to those before it. `StoreInv` says why each store keeps the
marker of a turn it holds: in Redis the set never expires before the list
(`RedisKeeps`), in PostgreSQL a transaction holds its conversation's lock alone, so
that the absence of its run which it saw still holds when it commits (`PgLocked`).
Every step is `Forgets` or `Takes`, which the refinement maps to TurnLog's actions.

`Holds` says what each store holds of the log. The memory store has the conversations with
a turn, as many as fit, each once in the order of use (`MemoryKeeps`); the lists of the
memory and the Redis store are the window over the log's messages (`ListKeeps`), which rests
on `WindowAppend`: cutting to the window before appending loses nothing of the window
after; the rows of the table are the messages of the window, numbered by their place in the
log, and a transaction that has read its number has the next one (`PgKeeps`), because
its lock keeps the log of its conversation still. What `Ascending` lists for every set needs
no induction: ranks are an injection of a finite set into as many numbers, so every number
is a rank (`AscendingLists`); `WithoutKeeps` follows from it.

`Aged` says that the order of use is the order of the ages (`OldestFirst`), and bounds the
ages (`Ages`). `get`, `append_turn`, purges, clears and the clock change order and ages
separately; a step keeps both in line because it puts a conversation at the end just when
it makes its age 0, and time moves all of them alike up to the point where they are purged.

### StateRuntimeProofs

For every combination of settings and any number of lifespans: `NoPoolLeaks`
(`NothingLeaks`), `ServedIsStarted` (`ServesWhatItStarted`), `RequirementsHold`
(`RequiredStopsStartup`), `ReadinessIsHonest` (`HealthIsHonest`), `RuntimeIsWellTyped`
(`StateTypeOK`). `StateInv` follows the
order of the start-up (`StartsInOrder`), says that the runtime is up as configured or
as the memory fallback and never as a mixture (`UpInOneWay`), and what an earlier
lifespan may leave behind (`Leftovers`). `ReadinessIsHonest` is an equivalence for the
status: it is "available" exactly when nothing is missing or the fallback had an empty
reason. The second case is finding 4; a corrected `health` would satisfy the
equivalence without it.

### InventoryProofs

For any number of callers and any times to live, stale periods and time-outs, from
`InventoryAssumption` (they are numbers, the time to live positive, `None` is no age):
`InventoryTypeCorrect`, `RefreshIsSingleFlight` (`OneRefresh`), `AgesAreBounded`
(`AgeBounded`), `NothingIsLostInSilence` (`NoSilentLoss`). The invariant `CacheInv`
bounds the true age of a list by what the code knows of it, in each cache and in each
fetch (`CachesAged`, `FetchesAged`: a list that is done ages only while the other
source's request is under way), lines the loads up behind the lock (`Locked`), and
keeps the reason of a missing list until the load returns (`LossExplained`).

### Only model-checked

- All liveness properties (`EveryRequestEnds`, `LeasesLapse`, `WaitersAreServed`,
  `CallsReturn`, `LoadsReturn`): the provers do not reach fairness. The half of
  `GraphEnds` that says that some node can run is ENABLED.
- That `Without` and `Messages` are `SelectSeq` and `FlattenSeq`: what these compute for
  every sequence needs induction over the sequence.

TLC runs the repository with `Backend = "postgres"`; the memory backend is covered
by the proofs.

## 5. Findings

1. **A cancellation overwrites a stored outcome** (`Chat_cancelled_outcome`,
   `chat_runtime.py:193`). The handler of `CancelledError` marks the run
   interrupted without asking `terminal_persisted`, as the handler of `Exception`
   does. The completed record loses its response; the turn may already be in the
   history, and a resumption may answer differently.
2. **A finished run is executed again** (`Chat_reopened_run`,
   `chat_runtime.py:154`). The status is judged before `acquire`, which does not
   look at it again; two processes that retry the same pending run both execute it.
3. **A concurrent expiry is not recovered** (`Mcp_concurrent_expiry`,
   `client.py:219`). A 404 that arrives while another call recovers finds
   `session_id` empty and is raised as it is.
4. **A fallback can be silent** (`State_lifecycle`, `HealthIsHonest`,
   `runtime.py:221`). The degradation is remembered as `str(exc)` and tested for
   truth. For an error without a message, such as a bare `TimeoutError()`, the
   persistence status is "available" and the `effective_*` fields are missing although
   everything is in memory; README.md:186 promises "explicit memory degradation". Only the
   `startup` part of the readiness payload shows it. Six steps lead there: the
   shared pool fails to open, the agent falls back, binds, serves, and is asked for
   its health. The run passes because `HealthIsHonest` names the case
   (`SilentFallback`); without it TLC reports that behaviour as a violation.

Observations made while modelling, without a run of their own:

- `mark_terminal` whose acknowledgement is lost leads to finding 1's state too.
- A run that is marked `running` with an expired lease can be resumed
  (`chat_runtime.py:267`); `docs/architecture.md:53` speaks of interrupted runs only.
- `AgeBounded` bounds how old a list is, it does not say that an invalidation is
  obeyed: an answer under way at the invalidation is stored after it
  (`mcp/client.py:146`).
- A resumed run gets a fresh `ExecutionBudget` (`chat_runtime.py:338`); the
  checkpointed `execution_meter_state` is not restored. `WorkIsBounded` therefore
  counts resumptions.
- `agent_max_iterations` (`settings.py:123`) is read by nobody.
- A call cancelled in the heavy queue lowers `_active` for another call
  (`resource_manager.py:82`); `CountersHonest` claims an upper bound only.
- An interrupted run without a checkpoint can be neither resumed nor retried.
- Tokens always carry version 1, so after a revocation no valid token for the run
  can be issued.
- The service restarts the age of a list that its client had already cached
  (`inventory.py:164`, `inventory.py:189`), so a list can be served without an error
  for two times `inventory_cache_ttl_seconds`; `/health/ready` judges by it.
- A run that Redis refuses keeps the set of committed runs alive but not the list
  (`redis.py:14`); the opposite order would repeat turns. Redis `append`, if it were
  called, would refresh the list only.
- The `ON CONFLICT DO NOTHING` of the messages (`postgres.py:253`) is never needed
  under the advisory lock; without the lock it would drop messages silently.
- A 404 to the client's answer to a server request (`client.py:350`) is treated as
  the expiry of the call itself: a `tools/list` is executed a second time, a tool
  call that was executed is reported as ambiguous.
- History appends and checkpoint writes are not fenced by the lease.
- A failing synthesis writes the stop notice in `_finalize` and again in
  `_terminate` (the response kind `nested`).
- The edge of `replan` leads to `worker` although `next_action` may ask for
  research; `EvidenceFirst` is stated for runs without a replan. Tasks with equal
  ids share their research.

## 6. Left out, and why

Model selection, prompts, evidence scoring, query rewriting and formatting are
text processing without state. Token signatures, key rotation and token expiry
are abstracted to the set of issued identities. PostgreSQL operations are atomic
here; under READ COMMITTED the `EXISTS` test of a fenced write sees the lease of
the statement's snapshot. The HTTP layer reaches the model as requests and
cancellations. The database client's own retries and pools are not modelled.
Two branches of the graph that its other guards make unreachable have no
counterpart: the handler of `BudgetExceeded` in the research node (`graph.py:880`) and
the test of `termination_reason` in the final node (`graph.py:1043`). The semaphore of
OllamaResources hands a slot to the first waiter at once; CPython keeps that waiter in
its queue until it runs, so that a newcomer may queue for a moment while the counter is
positive.

## 7. Plan

Done, with their proofs: RunRepository, ChatRuntime, AgentGraph, OllamaResources,
MCPSession with the tool executor, StateRuntime, ConversationStores, Inventory.

The proofs cover every safety property of the passing runs (section 4).

Left:

- the window between the snapshot of a fenced write under READ COMMITTED and its
  commit.
