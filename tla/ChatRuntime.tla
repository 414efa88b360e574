------------------------------ MODULE ChatRuntime ------------------------------
(***************************************************************************)
(* One chat turn after another through app/orchestration/chat_runtime.py:  *)
(* identity, the per-process conversation gate, the durable run record,    *)
(* the lease, the graph execution with its heartbeat, the outcome and the  *)
(* conversation history.  Requests run concurrently in several server      *)
(* processes over one repository, history store and checkpointer; every    *)
(* await of a request is a point where other requests, the clock, a        *)
(* cancellation, a database fault or a process crash can come in between.  *)
(***************************************************************************)
EXTENDS RunRepository

CONSTANTS
    Requests,    \* chat requests; a request is its own lease owner id
    Procs,       \* server processes
    Deployments  \* how requests reach the processes, and what can go wrong

\* execution_thread_id: the key of a checkpoint.
Threads == Convs \X Runs

\* proc, run, conv: the process that serves a request, and the ids it carries;
\* legacy: threads that may start with a checkpoint and a token, but no record;
\* hashes, payloads: the bodies of the requests and the answers of the graph.
Deployment ==
    [ proc : [Requests -> Procs], run : [Requests -> Runs], conv : [Requests -> Convs],
      legacy : SUBSET Threads, hashes : (SUBSET Hashes) \ {{}}, payloads : (SUBSET Payloads) \ {{}},
      faults : SUBSET {"cancel", "db_error", "ack_lost", "crash", "revoke"} ]

ASSUME RuntimeAssumption ==
    /\ Requests \subseteq Owners
    /\ Deployments \subseteq Deployment
    /\ \A d \in Deployments : "crash" \in d.faults => Backend = "postgres"
    /\ "partial" \notin Payloads

VARIABLES
    deployment,   \* the deployment, fixed
    pc,           \* the await a request is suspended at
    loc,          \* its local variables
    gate,         \* ConversationGate._owners of every process
    turns,        \* the assistant message of a run's turn in the history
    checkpoints,  \* LangGraph checkpoint of a thread: None, partial, or final
    issued        \* identities a resume token was issued for

vars == <<deployment, records, leases, handles, pc, loc, gate, turns, checkpoints, issued>>

-----------------------------------------------------------------------------
(* Values *)

BeforeLease == {"load", "migrate", "probe", "acquire", "replay", "reconcile"}
UnderLease  == {"execute", "settle", "append", "commit"}
Active      == BeforeLease \cup UnderLease \cup {"interrupt", "release"}
Labels      == Active \cup {"idle", "done"}

Local ==
    [ id : Identity, resumed : BOOLEAN, supplied : BOOLEAN,
      created : BOOLEAN, status : {"completed", "failed"},
      resp : Payloads \cup {None}, lease : Handle \cup {None},
      reply : Payloads \cup {None} ]

ChatTypeOK ==
    /\ RepoTypeOK
    /\ deployment \in Deployments
    /\ pc \in [Requests -> Labels]
    /\ loc \in [Requests -> Local]
    /\ gate \in [Procs -> [Convs -> Runs \cup {None}]]
    /\ turns \in [Runs -> Payloads \cup {None}]
    /\ checkpoints \in [Threads -> Payloads \cup {"partial", None}]
    /\ issued \subseteq Identity

ProcOf == deployment.proc
RunOf == deployment.run
ConvOf == deployment.conv
Faults == deployment.faults

Id(q)  == loc[q].id
Run(q) == loc[q].id.run
Conv(q) == loc[q].id.conv
Thread(q) == <<Conv(q), Run(q)>>
Rec(q) == records[Run(q)]

-----------------------------------------------------------------------------
(* Control *)

Goto(q, l) ==
    /\ pc' = [pc EXCEPT ![q] = l]
    /\ UNCHANGED gate

\* ConversationGate.hold's exit: the entry goes only if it is this run's.
Ungate(q) ==
    gate' = IF gate[ProcOf[q]][Conv(q)] = Run(q)
            THEN [gate EXCEPT ![ProcOf[q]][Conv(q)] = None]
            ELSE gate

\* The request ends, with a response for the client or with an error (None).
Leave(q, reply) ==
    /\ pc' = [pc EXCEPT ![q] = "done"]
    /\ loc' = [loc EXCEPT ![q].reply = reply]
    /\ Ungate(q)

Reject(q) == Leave(q, None) /\ UNCHANGED repoVars

\* A database operation that raises without having taken effect.
DbError == "db_error" \in Faults /\ UNCHANGED repoVars

\* The operation took effect but its caller sees an exception.
AckLost == "ack_lost" \in Faults

\* The same where a CancelledError ends the request as an exception does.
AnswerLost == AckLost \/ "cancel" \in Faults

-----------------------------------------------------------------------------
(* Admission: identity, gate, record *)

InitialLocal(q) ==
    [ id |-> [run |-> RunOf[q], conv |-> ConvOf[q],
              hash |-> CHOOSE h \in deployment.hashes : TRUE],
      resumed |-> FALSE, supplied |-> TRUE, created |-> FALSE,
      status |-> "completed", resp |-> None, lease |-> None, reply |-> None ]

Init ==
    /\ RepoInit
    /\ deployment \in Deployments
    /\ pc = [q \in Requests |-> "idle"]
    /\ loc = [q \in Requests |-> InitialLocal(q)]
    /\ gate = [p \in Procs |-> [c \in Convs |-> None]]
    /\ turns = [r \in Runs |-> None]
    /\ \E old \in SUBSET deployment.legacy :
          /\ checkpoints = [t \in Threads |-> IF t \in old THEN "partial" ELSE None]
          /\ issued = {InitialLocal(q).id :
                          q \in {q \in Requests : <<ConvOf[q], RunOf[q]>> \in old}}

\* Mutant of GateRefuses: the gate is cleaned up on the refused entry too.
GateRefusesAndOpens(q) ==
    /\ pc' = [pc EXCEPT ![q] = "done"]
    /\ gate' = [gate EXCEPT ![ProcOf[q]][ConvOf[q]] = None]

\* The gate raises ConversationBusyError before it was entered: its exit
\* does not run.
GateRefuses(q) == pc' = [pc EXCEPT ![q] = "done"] /\ UNCHANGED gate

\* A run id nobody has used: what uuid4 returns when the client sends none.
Fresh(r) == ~Exists(r) /\ ~\E id \in issued : id.run = r

\* issue_resume_token: a token is the signed identity.
IssueToken(id) == issued' = issued \cup {id}

\* _identity_from_token: a resumed request presents an unexpired token that was
\* issued for this very conversation, run and request payload.
PresentsToken(id) == id \in issued

\* ainvoke / astream_events: normalize the identity, issue its resume token,
\* enter the gate.
Submit(q, hash, resumed, supplied) ==
    LET id == [run |-> RunOf[q], conv |-> ConvOf[q], hash |-> hash] IN
    /\ pc[q] = "idle"
    /\ resumed => PresentsToken(id) /\ supplied
    /\ ~supplied => Fresh(id.run)
    /\ IssueToken(id)
    /\ loc' = [loc EXCEPT ![q] = [@ EXCEPT !.id = id, !.resumed = resumed,
                                           !.supplied = supplied]]
    /\ IF gate[ProcOf[q]][id.conv] # None
       THEN GateRefuses(q)
       ELSE /\ pc' = [pc EXCEPT ![q] = "load"]
            /\ gate' = [gate EXCEPT ![ProcOf[q]][id.conv] = id.run]
    /\ UNCHANGED <<repoVars, turns, checkpoints, deployment>>

\* The stored outcome can be replayed.
Replayable(rec) == rec.status \in TerminalStatuses /\ rec.payload # None

\* A lease_expires_at that is set and has passed.
LeaseExpired(rec) == rec.token > 0 /\ rec.expires = 0

\* Mutant of MayProceed: a running run may be resumed whatever its lease says.
MayProceedRunning(q, rec) ==
    IF loc[q].resumed
    THEN rec.status \in {"interrupted", "running"}
    ELSE rec.status = "pending"

\* The statuses from which a request may go on to execute an existing run.
MayProceed(q, rec) ==
    IF loc[q].resumed
    THEN \/ rec.status = "interrupted"
         \/ rec.status = "running" /\ LeaseExpired(rec)
    ELSE rec.status = "pending"

\* _preflight_existing_run on the record just read: replay, refuse or go on.
Preflight(q, rec, next) ==
    \/ /\ Replayable(rec)
       /\ loc' = [loc EXCEPT ![q].resp = rec.payload,
                             ![q].reply = IF rec.history THEN rec.payload ELSE None]
       /\ IF rec.history
          THEN pc' = [pc EXCEPT ![q] = "done"] /\ Ungate(q)
          ELSE Goto(q, "replay")
    \/ /\ ~Replayable(rec) /\ MayProceed(q, rec)
       /\ Goto(q, next)
       /\ UNCHANGED loc
    \/ /\ ~Replayable(rec) /\ ~MayProceed(q, rec)
       /\ Leave(q, None)

\* create_or_get for a request that does not resume.
LoadFresh(q) ==
    /\ pc[q] = "load" /\ ~loc[q].resumed
    /\ \/ /\ CreateRecord(Id(q))
          /\ loc' = [loc EXCEPT ![q].created = TRUE]
          /\ Goto(q, "probe")
       \/ /\ Exists(Run(q)) /\ ~Validates(Id(q))
          /\ Reject(q)
       \/ /\ Validates(Id(q))
          /\ Preflight(q, Rec(q), "probe")
          /\ UNCHANGED repoVars
       \/ /\ DbError
          /\ Leave(q, None)
       \/ /\ AnswerLost /\ CreateRecord(Id(q))
          /\ Leave(q, None)
    /\ UNCHANGED <<turns, checkpoints, issued, deployment>>

\* Tokens carry version 1: an identity is first issued with version 1 and a
\* resumed identity keeps the version of its token.
TokenRevoked(rec) == rec.version # 1

\* The comparison of a resumed identity with the durable record.
Matches(q) == Validates(Id(q))

\* get for a resumed request; without a record, the migration path.
LoadResumed(q) ==
    /\ pc[q] = "load" /\ loc[q].resumed
    /\ \/ /\ ~Exists(Run(q))
          /\ Goto(q, "migrate")
          /\ UNCHANGED loc
       \/ /\ Exists(Run(q))
          /\ ~Matches(q) \/ TokenRevoked(Rec(q))
          /\ Leave(q, None)
       \/ /\ Matches(q) /\ ~TokenRevoked(Rec(q))
          /\ Preflight(q, Rec(q), "probe")
       \/ /\ "db_error" \in Faults
          /\ Leave(q, None)
    /\ UNCHANGED <<repoVars, turns, checkpoints, issued, deployment>>

\* A token and a checkpoint, but no record when it was looked up: create the
\* record, or meet the one another process has created meanwhile.
Migrate(q) ==
    /\ pc[q] = "migrate"
    /\ \/ /\ checkpoints[Thread(q)] # None
          /\ CreateRecord(Id(q))
          /\ Goto(q, "acquire")
          /\ UNCHANGED loc
       \/ /\ checkpoints[Thread(q)] # None
          /\ Validates(Id(q)) /\ ~TokenRevoked(Rec(q))
          /\ \/ Rec(q).status = "pending" /\ Goto(q, "acquire") /\ UNCHANGED loc
             \/ Rec(q).status # "pending" /\ Preflight(q, Rec(q), "acquire")
          /\ UNCHANGED repoVars
       \/ /\ \/ checkpoints[Thread(q)] = None
             \/ Exists(Run(q)) /\ (~Validates(Id(q)) \/ TokenRevoked(Rec(q)))
             \/ "db_error" \in Faults
          /\ Reject(q)
       \/ /\ AnswerLost /\ checkpoints[Thread(q)] # None /\ CreateRecord(Id(q))
          /\ Leave(q, None)
    /\ UNCHANGED <<turns, checkpoints, issued, deployment>>

-----------------------------------------------------------------------------
(* Replay of a stored outcome *)

\* append_turn: the first turn of a run stays, whoever appends again.
AppendTurn(r, p) ==
    turns' = [turns EXCEPT ![r] = IF @ = None THEN p ELSE @]

\* Mutant of ReplayUncommitted: the history is noted as committed regardless.
ReplayRegardless(q) == Goto(q, "reconcile") /\ UNCHANGED loc

\* The turn could not be appended: the stored response is returned and
\* history_committed_at stays unset.
ReplayUncommitted(q) == Leave(q, loc[q].resp)

\* _append_history_safely of the replay path
ReplayAppend(q) ==
    /\ pc[q] = "replay"
    /\ \/ AppendTurn(Run(q), loc[q].resp) /\ Goto(q, "reconcile") /\ UNCHANGED loc
       \/ "db_error" \in Faults /\ ReplayUncommitted(q) /\ UNCHANGED turns
       \/ AckLost /\ AppendTurn(Run(q), loc[q].resp) /\ ReplayUncommitted(q)
    /\ UNCHANGED <<repoVars, checkpoints, issued, deployment>>

\* reconcile_history_committed with the response that was read before
Reconcile(q) ==
    /\ pc[q] = "reconcile"
    /\ \/ ReconcileHistory(Run(q), loc[q].resp) /\ Leave(q, loc[q].resp)
       \/ /\ Backend = "postgres" /\ Rec(q).status \notin TerminalStatuses
          /\ Reject(q)
       \/ DbError /\ Leave(q, None)
       \/ AnswerLost /\ ReconcileHistory(Run(q), loc[q].resp) /\ Leave(q, None)
    /\ UNCHANGED <<turns, checkpoints, issued, deployment>>

-----------------------------------------------------------------------------
(* Checkpoint lookup and lease *)

\* _checkpoint_exists_safely: what a lookup can answer.  One that fails raises
\* where the answer is required, and counts as none where it is not.
Lookup(q, required) ==
    {IF checkpoints[Thread(q)] # None THEN "found" ELSE "none"} \cup
    IF "db_error" \in Faults THEN {IF required THEN "error" ELSE "none"} ELSE {}

\* The lookup before the lease and the decisions on its answer.
Probe(q) ==
    LET required == loc[q].resumed \/ (loc[q].supplied /\ ~loc[q].created)
        Declines(answer) ==
            \/ answer = "error"
            \/ loc[q].resumed /\ answer = "none"
            \/ ~loc[q].resumed /\ loc[q].supplied /\ loc[q].created /\ answer = "found"
    IN
    /\ pc[q] = "probe"
    /\ \E answer \in Lookup(q, required) :
          \/ ~Declines(answer) /\ Goto(q, "acquire") /\ UNCHANGED loc
          \/ Declines(answer) /\ Leave(q, None)
    /\ UNCHANGED <<repoVars, turns, checkpoints, issued, deployment>>

GrantTo(q) ==
    [conv |-> Conv(q), run |-> Run(q), owner |-> q,
     token |-> leases[Conv(q)].token + 1]

\* acquire.  It stands before the try block: whoever loses its answer leaves
\* the lease to expire.
TakeLease(q) ==
    /\ pc[q] = "acquire"
    /\ \/ /\ Acquire(Id(q), q)
          /\ loc' = [loc EXCEPT ![q].lease = GrantTo(q)]
          /\ Goto(q, "execute")
       \/ /\ leases[Conv(q)].ttl > 0
          /\ Reject(q)
       \/ DbError /\ Leave(q, None)
       \/ AnswerLost /\ Acquire(Id(q), q) /\ Leave(q, None)
    /\ UNCHANGED <<turns, checkpoints, issued, deployment>>

-----------------------------------------------------------------------------
(* Execution under the lease *)

\* A node of the graph ended and its state was checkpointed.  A resumed run
\* whose checkpoint is final has no node left.
Checkpoint(q) ==
    /\ pc[q] = "execute"
    /\ ~loc[q].resumed \/ checkpoints[Thread(q)] \in {"partial", None}
    /\ checkpoints[Thread(q)] # "partial"
    /\ checkpoints' = [checkpoints EXCEPT ![Thread(q)] = "partial"]
    /\ UNCHANGED <<repoVars, pc, loc, gate, turns, issued, deployment>>

\* _execute_run returns: with the graph's answer, or with the safe failure
\* response of _invoke_graph_safely, which writes no further checkpoint.
Finish(q, p, status) ==
    LET final == checkpoints[Thread(q)] \in Payloads /\ loc[q].resumed IN
    /\ pc[q] = "execute"
    /\ final /\ status = "completed" => p = checkpoints[Thread(q)]
    /\ loc' = [loc EXCEPT ![q].resp = p, ![q].status = status]
    /\ checkpoints' = [checkpoints EXCEPT ![Thread(q)] =
                          IF status = "completed" THEN p ELSE @]
    /\ Goto(q, "settle")
    /\ UNCHANGED <<repoVars, turns, issued, deployment>>

\* Mutant of StaleLease: the response of the execution is returned all the same.
StaleLeaseAnswers(q) ==
    /\ Goto(q, "release")
    /\ loc' = [loc EXCEPT ![q].reply = loc[q].resp]
    /\ UNCHANGED repoVars

\* except StaleLeaseError: nothing is written any more, release follows.
StaleLease(q) == Goto(q, "release") /\ UNCHANGED <<repoVars, loc>>

\* Mutant of RuntimeFailure: the run is marked interrupted unconditionally.
RuntimeFailureInterrupts(q, terminal_persisted) ==
    Goto(q, "interrupt") /\ UNCHANGED loc

\* except Exception: the run is marked interrupted unless its outcome was
\* already stored (terminal_persisted).
RuntimeFailure(q, terminal_persisted) ==
    Goto(q, IF terminal_persisted THEN "release" ELSE "interrupt") /\ UNCHANGED loc

\* Mutant of HeartbeatAlive: the task is not cancelled when the request ends.
HeartbeatOutlives(q) == pc[q] \in {"execute", "done"} /\ loc[q].lease # None

\* The heartbeat task lives as long as the execution it guards.
HeartbeatAlive(q) == pc[q] = "execute"

\* _lease_heartbeat: renew, or stop the execution with the error.
Heartbeat(q) ==
    /\ HeartbeatAlive(q)
    /\ \/ Renew(loc[q].lease) /\ UNCHANGED <<pc, gate, loc>>
       \/ ~LeaseLive(loc[q].lease) /\ StaleLease(q)
       \/ DbError /\ RuntimeFailure(q, FALSE)
    /\ UNCHANGED <<turns, checkpoints, issued, deployment>>

\* mark_terminal with the outcome.  terminal_persisted is set only when it
\* returns, so a lost answer leads to the interruption of the run.
Settle(q) ==
    LET mark == MarkTerminal(loc[q].lease, loc[q].status, loc[q].resp) IN
    /\ pc[q] = "settle"
    /\ \/ mark /\ Goto(q, "append") /\ UNCHANGED loc
       \/ ~MayWrite(loc[q].lease) /\ StaleLease(q)
       \/ DbError /\ RuntimeFailure(q, FALSE)
       \/ AckLost /\ mark /\ RuntimeFailure(q, FALSE)
    /\ UNCHANGED <<turns, checkpoints, issued, deployment>>

\* The response is returned although its turn was not stored.
HistoryFailed(q) ==
    /\ loc' = [loc EXCEPT ![q].reply = loc[q].resp]
    /\ Goto(q, "release")

\* _append_history_safely: a failure is answered, not raised.
Append(q) ==
    /\ pc[q] = "append"
    /\ \/ AppendTurn(Run(q), loc[q].resp) /\ Goto(q, "commit") /\ UNCHANGED loc
       \/ "db_error" \in Faults /\ HistoryFailed(q) /\ UNCHANGED turns
       \/ AckLost /\ AppendTurn(Run(q), loc[q].resp) /\ HistoryFailed(q)
    /\ UNCHANGED <<repoVars, checkpoints, issued, deployment>>

\* mark_history_committed, then the response is returned.
CommitHistory(q) ==
    LET mark == MarkHistoryCommitted(loc[q].lease, loc[q].resp) IN
    /\ pc[q] = "commit"
    /\ \/ /\ mark
          /\ loc' = [loc EXCEPT ![q].reply = loc[q].resp]
          /\ Goto(q, "release")
       \/ ~MayWrite(loc[q].lease) /\ StaleLease(q)
       \/ DbError /\ RuntimeFailure(q, TRUE)
       \/ AckLost /\ mark /\ RuntimeFailure(q, TRUE)
    /\ UNCHANGED <<turns, checkpoints, issued, deployment>>

\* Mutant of InterruptFailed: the interruption is stored without the fence.
InterruptUnfenced(q) ==
    /\ Goto(q, "release")
    /\ records' = [records EXCEPT ![Run(q)].status = "interrupted"]
    /\ UNCHANGED <<leases, handles>>

\* Mutant of InterruptFailed: the interruption is retried until it is stored.
InterruptRetried(q) == Goto(q, "interrupt") /\ UNCHANGED repoVars

\* _mark_interrupted_safely swallows every error: release follows anyway.
InterruptFailed(q) == Goto(q, "release") /\ UNCHANGED repoVars

Interrupt(q) ==
    /\ pc[q] = "interrupt"
    /\ \/ MarkTerminal(loc[q].lease, "interrupted", None) /\ Goto(q, "release")
       \/ ~MayWrite(loc[q].lease) /\ InterruptFailed(q)
       \/ DbError /\ InterruptFailed(q)
    /\ UNCHANGED <<loc, turns, checkpoints, issued, deployment>>

\* The finally block.  If release raises, the response is lost with it.
ReleaseLease(q) ==
    /\ pc[q] = "release"
    /\ \/ Release(loc[q].lease) /\ Leave(q, loc[q].reply)
       \/ ~SameOwner(loc[q].lease) /\ UNCHANGED repoVars /\ Leave(q, loc[q].reply)
       \/ DbError /\ Leave(q, None)
       \/ AnswerLost /\ Release(loc[q].lease) /\ Leave(q, None)
    /\ UNCHANGED <<turns, checkpoints, issued, deployment>>

-----------------------------------------------------------------------------
(* Faults and time *)

\* CancelledError at an await: before the lease the request just ends; under
\* the lease the run is marked interrupted, whether or not its outcome was
\* already stored; in the handlers the next handler follows.
Cancel(q) ==
    /\ "cancel" \in Faults
    /\ \/ pc[q] \in BeforeLease \cup {"release"} /\ Leave(q, None)
       \/ pc[q] \in UnderLease /\ Goto(q, "interrupt") /\ UNCHANGED loc
       \/ pc[q] = "interrupt" /\ Goto(q, "release") /\ UNCHANGED loc
    /\ UNCHANGED <<repoVars, turns, checkpoints, issued, deployment>>

\* A server process dies with its requests, its gate and its heartbeats.
Crash(p) ==
    /\ "crash" \in Faults
    /\ \E q \in Requests : ProcOf[q] = p /\ pc[q] \in Active
    /\ pc' = [q \in Requests |-> IF ProcOf[q] = p /\ pc[q] \in Active
                                 THEN "done" ELSE pc[q]]
    /\ loc' = [q \in Requests |-> IF ProcOf[q] = p /\ pc[q] \in Active
                                  THEN [loc[q] EXCEPT !.reply = None] ELSE loc[q]]
    /\ gate' = [gate EXCEPT ![p] = [c \in Convs |-> None]]
    /\ UNCHANGED <<repoVars, turns, checkpoints, issued, deployment>>

Revoke(r) ==
    /\ "revoke" \in Faults
    /\ RevokeResumeTokens(r)
    /\ UNCHANGED <<pc, loc, gate, turns, checkpoints, issued, deployment>>

Clock ==
    /\ Tick
    /\ UNCHANGED <<pc, loc, gate, turns, checkpoints, issued, deployment>>

\* Every await of a request but the graph execution itself.
Step(q) ==
    \/ LoadFresh(q)
    \/ LoadResumed(q)
    \/ Migrate(q)
    \/ ReplayAppend(q)
    \/ Reconcile(q)
    \/ Probe(q)
    \/ TakeLease(q)
    \/ Settle(q)
    \/ Append(q)
    \/ CommitHistory(q)
    \/ Interrupt(q)
    \/ ReleaseLease(q)

Returns(q) ==
    \E p \in deployment.payloads, status \in {"completed", "failed"} : Finish(q, p, status)

Next ==
    \/ \E q \in Requests :
          \/ \E hash \in deployment.hashes, resumed, supplied \in BOOLEAN :
                Submit(q, hash, resumed, supplied)
          \/ Step(q)
          \/ Checkpoint(q)
          \/ Returns(q)
          \/ Heartbeat(q)
          \/ Cancel(q)
    \/ \E p \in Procs : Crash(p)
    \/ \E r \in Runs : Revoke(r)
    \/ Clock

Spec == Init /\ [][Next]_vars

\* asyncio runs every ready task, the graph ends by its execution budget, and
\* time passes.  Nothing makes clients submit, cancel or processes crash.
FairSpec ==
    /\ Spec
    /\ \A q \in Requests : WF_vars(Step(q)) /\ WF_vars(Returns(q))
    /\ WF_vars(Clock)
-----------------------------------------------------------------------------
(* Properties *)

Answered(q) == pc[q] = "done" /\ loc[q].reply # None

\* ReplyIsDurable: a response a client has received is the stored outcome of
\* its run from then on, so every later request for the run replays it
\* (README: "restart-safe completed/failed response replay").  It relates
\* _ainvoke_with_identity's return to every later write of the record by a
\* retry, a resume, an interruption or a reconciliation.
ReplyIsDurable ==
    \A q \in Requests : Answered(q) =>
        /\ Rec(q).status \in TerminalStatuses
        /\ Rec(q).payload = loc[q].reply

\* HistoryFaithful: where the record says the history is committed, the turn
\* in the conversation holds the response the record replays.  append_turn
\* keeps the first turn of a run while mark_terminal keeps the last outcome.
HistoryFaithful ==
    \A r \in Runs :
        records[r].history /\ records[r].status \in TerminalStatuses =>
            turns[r] = records[r].payload

\* GateExclusive: in one process at most one request is between the entry
\* and the exit of a conversation's gate, and the gate names its run; so the
\* exit of a request never opens the gate under another one.
GateExclusive ==
    \A p \in Procs, c \in Convs :
        LET inside == {q \in Requests : ProcOf[q] = p /\ Conv(q) = c /\ pc[q] \in Active}
        IN  /\ Cardinality(inside) <= 1
            /\ gate[p][c] # None <=> inside # {}
            /\ \A q \in inside : gate[p][c] = Run(q)

OutcomeKept(r) ==
    records[r].status \in TerminalStatuses =>
        /\ records'[r].status = records[r].status
        /\ records'[r].payload = records[r].payload

\* TerminalStable: a completed or failed run keeps its status and response
\* (architecture.md: "A terminal response is replayed for the same run and
\* request hash after restart").
TerminalStable == [][\A r \in Runs : OutcomeKept(r)]_vars

\* The requests for a run reach one process.
RunsStay == \A q, o \in Requests : RunOf[q] = RunOf[o] => ProcOf[q] = ProcOf[o]

\* OutcomeChangesExplained: where the requests for a run reach one process, a
\* stored outcome changes only when its own request marks the run interrupted
\* because a cancellation or a lost acknowledgement made it take the outcome
\* for missing; never through database errors, crashes, takeovers and retries.
OutcomeChangesExplained ==
    [][\A r \in Runs :
          \/ OutcomeKept(r)
          \/ RunsStay => \E q \in Requests :
                /\ Run(q) = r /\ pc[q] = "interrupt" /\ pc'[q] = "release"
                /\ Faults \cap {"cancel", "ack_lost"} # {}]_vars

\* ResumesOnlyUnfinished: a resume token never restarts a finished run or
\* one whose owner still has its lease.
ResumesOnlyUnfinished ==
    [][\A q \in Requests :
          loc[q].resumed /\ pc[q] = "acquire" /\ pc'[q] = "execute" =>
              \/ Rec(q).status \in {"interrupted", "pending"}
              \/ Rec(q).status = "running" /\ LeaseExpired(Rec(q))]_vars

\* ImplementsRepository: the runtime uses the repository as the repository
\* expects: acquire only for confirmed identities, leases only its own.
ImplementsRepository == RepoSpec

\* EveryRequestEnds: whatever faults occur, an admitted request ends, and so
\* frees its conversation's gate.
EveryRequestEnds == \A q \in Requests : pc[q] = "load" ~> pc[q] = "done"

\* LeasesLapse: no conversation stays leased forever, even if its owner
\* crashed, lost the answer of acquire or failed to release.
LeasesLapse == \A c \in Convs : leases[c].ttl > 0 ~> leases[c].ttl = 0
=============================================================================
