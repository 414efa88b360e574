------------------------------ MODULE AgentGraph ------------------------------
(***************************************************************************)
(* The agent graph of app/graph.py, its routes (app/graphs/routes.py) and  *)
(* the request's execution budget (app/orchestration/execution_meter.py).  *)
(*                                                                         *)
(* One action is one node: LangGraph checkpoints between nodes, so a node  *)
(* that is interrupted runs again.  The models are arbitrary: every answer *)
(* their schemas admit is a choice, and so is every failure.  The deadline *)
(* may pass at any moment.  An exception that no node handles ends the     *)
(* graph in `raised', where chat_runtime answers with a failure response.  *)
(***************************************************************************)
EXTENDS Naturals, Sequences, FiniteSets

CONSTANTS
    TaskIds,            \* ids the planner may give its tasks
    MaxTasks,           \* bound on the tasks of a plan
    LlmBackends,        \* the values of llm_backend considered
    McpModes,           \* the values of mcp_enabled considered
    FinalVerification,  \* final_verification_enabled
    MaxModelCalls,      \* execution_max_model_calls
    MaxToolCalls,       \* execution_max_tool_calls
    MaxVerifierRounds,  \* execution_max_verifier_rounds
    MaxResearchRounds,  \* agent_max_research_rounds
    MaxReplans,         \* agent_max_replans
    MaxFinalRevisions,  \* final_max_revision_rounds
    MaxResumes          \* bound on the resumptions of a run

ASSUME GraphAssumption ==
    /\ TaskIds # {} /\ "none" \notin TaskIds
    /\ {MaxTasks, MaxModelCalls, MaxVerifierRounds} \subseteq Nat \ {0}
    /\ {MaxToolCalls, MaxResearchRounds, MaxReplans, MaxFinalRevisions, MaxResumes}
          \subseteq Nat
    /\ LlmBackends \subseteq {"ollama", "echo"}
    /\ McpModes \subseteq BOOLEAN /\ FinalVerification \in BOOLEAN

VARIABLES
    settings,  \* llm_backend and mcp_enabled, fixed when the server starts
    node,      \* the node that runs next, or how the graph ended
    state,     \* AgentGraphState
    meter,     \* the request's ExecutionBudget
    resumes    \* how often the run was resumed

graphVars == <<settings, node, state, meter, resumes>>

-----------------------------------------------------------------------------
(* Values *)

Nodes == {"plan", "research", "worker", "verify", "revise", "replan", "advance",
          "finalize", "verify_final", "revise_final", "terminate"}
Ended == {"end", "raised"}

Task == [id : TaskIds, evidence : BOOLEAN]
Plans == UNION {[1..n -> Task] : n \in 0..MaxTasks}

\* A worker result: which execution produced it, and for each of its claims
\* the task whose evidence the claim cites ("none" for no valid evidence).
Results == [draft : Nat, cites : SUBSET (TaskIds \cup {"none"})]
NoResult == [draft |-> 0, cites |-> {}]

Verdicts == {"pass", "revise", "research", "replan", "terminate"}

\* A verification report, with the draft it is about and the grounding found.
Reports == [verdict : Verdicts \cup {"none"}, complete : BOOLEAN,
            of : Nat, grounded : BOOLEAN]
NoReport == [verdict |-> "none", complete |-> FALSE, of |-> 0, grounded |-> FALSE]

\* The response: its kind and the final revision that wrote it.
Responses == [kind : {"none", "answer", "synthesis", "partial", "nested"}, rev : Nat]

FinalReports == [verdict : {"none", "pass", "revise"}, complete : BOOLEAN, of : Nat]
NoFinalReport == [verdict |-> "none", complete |-> FALSE, of |-> 0]

Entries == [task : Task, worker_result : Results, verification : Reports]

GraphState ==
    [ plan : Plans, task_index : Nat, task_results : Seq(Entries),
      worker_result : Results, verification : Reports,
      evidence : SUBSET TaskIds, researched : SUBSET TaskIds,
      iterations : Nat, research_rounds : Nat, replans : Nat,
      next_action : {"", "research", "worker"},
      response : Responses, stopped : BOOLEAN,
      final_required : BOOLEAN, final_verification : FinalReports,
      final_revision_rounds : Nat ]

Meters == [calls : 0..MaxModelCalls, tools : 0..MaxToolCalls,
           rounds : 0..MaxVerifierRounds + 1, expired : BOOLEAN]

GraphTypeOK ==
    /\ settings \in [llm_backend : LlmBackends, mcp_enabled : McpModes]
    /\ node \in Nodes \cup Ended
    /\ state \in GraphState
    /\ meter \in Meters
    /\ resumes \in 0..MaxResumes

Ollama == settings.llm_backend = "ollama"

\* The task the graph works on (task_index counts from 0).
CurrentTask(s) == s.plan[s.task_index + 1]

-----------------------------------------------------------------------------
(* The execution budget *)

FreshMeter == [calls |-> 0, tools |-> 0, rounds |-> 0, expired |-> FALSE]

\* Mutant of Exhausted: the verifier rounds are not checked.
OutOfTime(m) == m.expired

\* check() raises.  Attempts are refused at their limit, never beyond it.
Exhausted(m) == m.expired \/ m.rounds > MaxVerifierRounds

\* _structured_models: the primary model and at most one fallback.
Attempts == 1..2

\* The meters a model operation with these numbers of attempts can leave
\* behind when it starts at m and ends in the outcome: "valid" output,
\* "invalid" output of every attempt, an HTTP "error", or "budget", raised
\* before the operation or before one of its attempts.
ModelOperation(m, attempts, outcome) ==
    {n \in Meters :
        LET used == n.calls - m.calls IN
        /\ n.calls >= m.calls /\ n.tools = m.tools /\ n.rounds = m.rounds
        /\ m.expired => n.expired
        /\ IF outcome = "budget"
           THEN /\ used + 1 \in attempts
                /\ used = 0 \/ ~m.expired
                /\ n.expired \/ n.calls = MaxModelCalls
           ELSE ~m.expired /\ used \in attempts}

-----------------------------------------------------------------------------
(* Routes *)

\* Mutant of after_budgeted_step: a recorded terminal condition is ignored.
after_step(s, next) == next

after_budgeted_step(s, next) == IF s.stopped THEN "terminate" ELSE next

after_plan(s) ==
    IF s.stopped THEN "terminate"
    ELSE IF s.next_action = "research" THEN "research" ELSE "worker"

after_verification(s) ==
    IF s.stopped THEN "terminate"
    ELSE CASE s.verification.verdict = "pass" ->
                IF s.verification.complete THEN "advance" ELSE "revise"
           [] s.verification.verdict = "none" -> "terminate"
           [] OTHER -> s.verification.verdict

\* Mutant of after_advance: the next task starts without its research.
after_advance_to_worker(s) ==
    IF s.task_index >= Len(s.plan) THEN "finalize" ELSE "worker"

\* The edges of advance have no "terminate": LangGraph would raise.
after_advance(s) ==
    IF s.stopped THEN "raised"
    ELSE IF s.task_index >= Len(s.plan) THEN "finalize"
    ELSE IF s.next_action = "research" THEN "research" ELSE "worker"

after_finalize(s) ==
    IF s.stopped THEN "terminate"
    ELSE IF s.final_required THEN "verify_final" ELSE "end"

\* Mutant of after_final_verification: a complete answer need not pass.
after_final_complete(s) ==
    IF s.stopped THEN "terminate"
    ELSE IF s.final_verification.complete THEN "end"
    ELSE IF s.final_revision_rounds < MaxFinalRevisions THEN "revise_final"
    ELSE "terminate"

after_final_verification(s) ==
    IF s.stopped THEN "terminate"
    ELSE IF s.final_verification.verdict = "pass" /\ s.final_verification.complete
    THEN "end"
    ELSE IF s.final_revision_rounds < MaxFinalRevisions THEN "revise_final"
    ELSE "terminate"

-----------------------------------------------------------------------------
(* Pieces of nodes *)

\* termination_reason is set and nothing else.
Stopped(s) == [s EXCEPT !.stopped = TRUE]

\* _set_next_action: research a task that needs evidence and has none yet.
set_next_action(s) ==
    [s EXCEPT !.next_action =
        IF CurrentTask(s).evidence /\ CurrentTask(s).id \notin s.researched
        THEN "research" ELSE "worker"]

\* ground_claims: every claim cites eligible evidence of its own task.
ground_claims(result, evidence, id) == result.cites \subseteq evidence \cap {id}

\* A new worker result; the model may cite anything.
Drafted(s, cites) ==
    [s EXCEPT !.worker_result = [draft |-> s.iterations + 1, cites |-> cites],
              !.iterations = s.iterations + 1]

\* The echo backend makes no claims.
Citations == IF Ollama THEN SUBSET (TaskIds \cup {"none"}) ELSE {{}}

\* _partial_response: what was there is wrapped into the stop notice, also a
\* response that is such a notice already.
partial_response(s) ==
    [kind |-> IF s.response.kind \in {"partial", "nested"} THEN "nested" ELSE "partial",
     rev |-> s.response.rev]

\* A model operation succeeds; the echo backend needs none.
Answers(m, attempts) ==
    IF Ollama THEN meter' \in ModelOperation(m, attempts, "valid")
    ELSE meter' = m

\* A model operation ends in one of the outcomes.
Fails(m, attempts, outcomes) ==
    /\ Ollama
    /\ \E outcome \in outcomes : meter' \in ModelOperation(m, attempts, outcome)

\* The node does not handle the failure: the graph ends with an exception.
Raises(m, attempts, outcomes) ==
    /\ Fails(m, attempts, outcomes)
    /\ node' = "raised"
    /\ UNCHANGED state

-----------------------------------------------------------------------------
(* Nodes *)

InitialState ==
    [ plan |-> <<>>, task_index |-> 0, task_results |-> <<>>,
      worker_result |-> NoResult, verification |-> NoReport,
      evidence |-> {}, researched |-> {}, iterations |-> 0,
      research_rounds |-> 0, replans |-> 0, next_action |-> "",
      response |-> [kind |-> "none", rev |-> 0], stopped |-> FALSE,
      final_required |-> FALSE, final_verification |-> NoFinalReport,
      final_revision_rounds |-> 0 ]

GraphInit ==
    /\ settings \in [llm_backend : LlmBackends, mcp_enabled : McpModes]
    /\ node = "plan"
    /\ state = InitialState
    /\ meter = FreshMeter
    /\ resumes = 0

\* The state a plan starts from; final_* stay as they are.
Planned(s, plan) ==
    set_next_action(
        [s EXCEPT !.plan = plan, !.task_index = 0, !.task_results = <<>>,
                  !.worker_result = NoResult, !.verification = NoReport,
                  !.evidence = {}, !.iterations = 0, !.research_rounds = 0,
                  !.replans = 0, !.stopped = FALSE,
                  !.response = [kind |-> "none", rev |-> 0],
                  !.researched = {}])

\* ExecutionPlan: at least one task.  The echo plan is the request itself.
NewPlans ==
    {p \in Plans : Len(p) \in IF Ollama THEN 1..MaxTasks ELSE {1}}

Plan ==
    /\ node = "plan"
    /\ \/ /\ Exhausted(meter)
          /\ state' = Stopped(state)
          /\ node' = after_plan(state') /\ UNCHANGED meter
       \/ /\ ~Exhausted(meter) /\ Answers(meter, Attempts)
          /\ \E plan \in NewPlans : state' = Planned(state, plan)
          /\ node' = after_plan(state')
       \/ /\ ~Exhausted(meter) /\ Fails(meter, Attempts, {"invalid"})
          /\ state' = Stopped(state)
          /\ node' = after_plan(state')
       \/ ~Exhausted(meter) /\ Raises(meter, Attempts, {"budget", "error"})
    /\ UNCHANGED <<settings, resumes>>

Worker ==
    /\ node = "worker"
    /\ \/ /\ Exhausted(meter)
          /\ state' = Stopped(state)
          /\ node' = after_budgeted_step(state', "verify") /\ UNCHANGED meter
       \/ /\ ~Exhausted(meter) /\ Answers(meter, Attempts)
          /\ \E cites \in Citations : state' = Drafted(state, cites)
          /\ node' = after_budgeted_step(state', "verify")
       \/ /\ ~Exhausted(meter) /\ Fails(meter, Attempts, {"invalid"})
          /\ state' = Stopped(state)
          /\ node' = after_budgeted_step(state', "verify")
       \/ ~Exhausted(meter) /\ Raises(meter, Attempts, {"budget", "error"})
    /\ UNCHANGED <<settings, resumes>>

\* Mutant of Report: the verdict stands although claims are ungrounded.
ReportAsGiven(s, verdict, complete) ==
    [verdict |-> verdict, complete |-> complete, of |-> s.worker_result.draft,
     grounded |-> ground_claims(s.worker_result, s.evidence, CurrentTask(s).id)]

\* The report a verdict becomes: ungrounded claims turn a pass into a revise.
Report(s, verdict, complete) ==
    LET grounded == ground_claims(s.worker_result, s.evidence, CurrentTask(s).id)
        refused == verdict = "pass" /\ ~grounded
    IN  [verdict |-> IF refused THEN "revise" ELSE verdict,
         complete |-> complete /\ ~refused,
         of |-> s.worker_result.draft, grounded |-> grounded]

\* The echo verdict follows the deterministic checks of the output.
Judgements ==
    IF Ollama THEN Verdicts \X BOOLEAN
    ELSE {<<"pass", TRUE>>, <<"revise", FALSE>>}

\* _verify's own budget failure: stopped, with a terminate verdict.
Unverified(s) ==
    [s EXCEPT !.stopped = TRUE,
              !.verification = [verdict |-> "terminate", complete |-> FALSE,
                                of |-> s.worker_result.draft, grounded |-> FALSE]]

\* Mutant of CountRound: the round is not counted.
RoundUncounted(m) == m

\* The round is counted before it is checked.
CountRound(m) == [m EXCEPT !.rounds = @ + 1]

Verify ==
    /\ node = "verify"
    /\ LET m == CountRound(meter) IN
       \/ /\ Exhausted(m)
          /\ state' = Unverified(state) /\ meter' = m
          /\ node' = after_verification(state')
       \/ /\ ~Exhausted(m) /\ Answers(m, Attempts)
          /\ \E j \in Judgements :
                state' = [state EXCEPT !.verification = Report(state, j[1], j[2])]
          /\ node' = after_verification(state')
       \/ /\ ~Exhausted(m) /\ Fails(m, Attempts, {"budget"})
          /\ state' = Unverified(state)
          /\ node' = after_verification(state')
       \/ ~Exhausted(m) /\ Raises(m, Attempts, {"invalid", "error"})
    /\ UNCHANGED <<settings, resumes>>

\* The echo backend keeps the result it has.
Revise ==
    /\ node = "revise"
    /\ \/ /\ Exhausted(meter)
          /\ state' = Stopped(state)
          /\ node' = after_budgeted_step(state', "verify") /\ UNCHANGED meter
       \/ /\ ~Exhausted(meter) /\ Answers(meter, Attempts)
          /\ \E cites \in Citations : state' = Drafted(state, cites)
          /\ node' = after_budgeted_step(state', "verify")
       \/ ~Exhausted(meter) /\ Raises(meter, Attempts, {"budget", "invalid", "error"})
    /\ UNCHANGED <<settings, resumes>>

\* _research.  Tool attempts beyond the budget come back as failed tools; only
\* the timeout for the rest of the deadline escapes the node.
Research ==
    LET rounds == state.research_rounds + 1
        id == CurrentTask(state).id
        counted == [state EXCEPT !.research_rounds = rounds]
    IN
    /\ node = "research"
    /\ \/ /\ ~settings.mcp_enabled
          /\ state' = Stopped(counted)
          /\ node' = after_budgeted_step(state', "worker") /\ UNCHANGED meter
       \/ /\ settings.mcp_enabled /\ rounds > MaxResearchRounds
          /\ state' = Stopped(state)
          /\ node' = after_budgeted_step(state', "worker") /\ UNCHANGED meter
       \/ /\ settings.mcp_enabled /\ rounds <= MaxResearchRounds
          /\ \E n \in meter.tools..MaxToolCalls :
                /\ meter.expired => n = meter.tools
                /\ meter' = [meter EXCEPT !.tools = n]
          /\ state' = Stopped(counted)
          /\ node' = after_budgeted_step(state', "worker")
       \/ /\ settings.mcp_enabled /\ rounds <= MaxResearchRounds /\ ~meter.expired
          /\ \E n \in meter.tools + 1..MaxToolCalls : meter' = [meter EXCEPT !.tools = n]
          /\ state' = [counted EXCEPT !.evidence = @ \cup {id},
                                      !.researched = @ \cup {id},
                                      !.next_action = "worker"]
          /\ node' = after_budgeted_step(state', "worker")
       \/ /\ settings.mcp_enabled /\ rounds <= MaxResearchRounds
          /\ \E n \in meter.tools..MaxToolCalls :
                meter' = [meter EXCEPT !.tools = n, !.expired = TRUE]
          /\ node' = "raised" /\ UNCHANGED state
    /\ UNCHANGED <<settings, resumes>>

\* Mutant of Replanned: the results of the old plan are kept.
ReplannedKeepingResults(s, plan, replans) ==
    set_next_action(
        [s EXCEPT !.plan = plan, !.task_index = 0,
                  !.worker_result = NoResult, !.verification = NoReport,
                  !.evidence = {}, !.research_rounds = 0, !.replans = replans,
                  !.researched = {}])

\* The state of a new plan within a run; iterations go on.
Replanned(s, plan, replans) ==
    set_next_action(
        [s EXCEPT !.plan = plan, !.task_index = 0, !.task_results = <<>>,
                  !.worker_result = NoResult, !.verification = NoReport,
                  !.evidence = {}, !.research_rounds = 0, !.replans = replans,
                  !.researched = {}])

\* The edge of replan leads to worker whatever next_action says.
Replan ==
    LET replans == state.replans + 1 IN
    /\ node = "replan"
    /\ \/ /\ replans > MaxReplans
          /\ state' = [state EXCEPT !.replans = replans, !.stopped = TRUE]
          /\ node' = after_budgeted_step(state', "worker") /\ UNCHANGED meter
       \/ /\ replans <= MaxReplans /\ Answers(meter, Attempts)
          /\ \E plan \in IF Ollama THEN NewPlans ELSE {state.plan} :
                state' = Replanned(state, plan, replans)
          /\ node' = after_budgeted_step(state', "worker")
       \/ /\ replans <= MaxReplans
          /\ Raises(meter, Attempts, {"budget", "invalid", "error"})
    /\ UNCHANGED <<settings, resumes>>

\* The finished task is recorded and the state of the next one cleared.
Advanced(s) ==
    [s EXCEPT !.task_results = Append(@, [task |-> CurrentTask(s),
                                          worker_result |-> s.worker_result,
                                          verification |-> s.verification]),
              !.task_index = @ + 1, !.verification = NoReport,
              !.worker_result = NoResult, !.evidence = {},
              !.research_rounds = 0, !.next_action = "worker"]

Advance ==
    /\ node = "advance"
    /\ state' = LET s == Advanced(state) IN
                IF s.task_index < Len(s.plan) THEN set_next_action(s) ELSE s
    /\ node' = after_advance(state')
    /\ UNCHANGED <<settings, meter, resumes>>

\* _terminate, also where _finalize calls it itself.
Terminated(s) == [s EXCEPT !.response = partial_response(s)]

Finalized(s, kind, required) ==
    [s EXCEPT !.response = [kind |-> kind, rev |-> 0], !.final_required = required,
              !.final_verification = NoFinalReport, !.final_revision_rounds = 0]

\* Several results are synthesised, one is returned as it is.
Finalize ==
    LET synthesis == Ollama /\ Len(state.task_results) > 1 IN
    /\ node = "finalize"
    /\ \/ /\ synthesis /\ Answers(meter, {1})
          /\ state' = Finalized(state, "synthesis", FinalVerification)
       \/ /\ synthesis /\ Fails(meter, {1}, {"budget", "error"})
          /\ state' = Terminated(Stopped(state))
       \/ /\ ~synthesis
          /\ state' = Finalized(state, "answer", FALSE) /\ UNCHANGED meter
    /\ node' = after_finalize(state')
    /\ UNCHANGED <<settings, resumes>>

\* FinalVerificationReport: a pass requires a complete answer.
FinalJudgements == {<<"pass", TRUE>>, <<"revise", TRUE>>, <<"revise", FALSE>>}

FinallyJudged(s, verdict, complete) ==
    [s EXCEPT !.final_verification = [verdict |-> verdict, complete |-> complete,
                                      of |-> s.response.rev],
              !.stopped = @ \/ (/\ verdict # "pass"
                                /\ s.final_revision_rounds >= MaxFinalRevisions)]

VerifyFinal ==
    /\ node = "verify_final"
    /\ \/ /\ Exhausted(meter)
          /\ state' = Stopped(state)
          /\ node' = after_final_verification(state') /\ UNCHANGED meter
       \/ /\ ~Exhausted(meter) /\ Answers(meter, Attempts)
          /\ \E j \in FinalJudgements : state' = FinallyJudged(state, j[1], j[2])
          /\ node' = after_final_verification(state')
       \/ /\ ~Exhausted(meter) /\ Fails(meter, Attempts, {"invalid"})
          /\ state' = Stopped(state)
          /\ node' = after_final_verification(state')
       \/ ~Exhausted(meter) /\ Raises(meter, Attempts, {"budget", "error"})
    /\ UNCHANGED <<settings, resumes>>

\* The edge back to verify_final is taken even if the revision stopped.
ReviseFinal ==
    LET rounds == state.final_revision_rounds + 1 IN
    /\ node = "revise_final"
    /\ \/ Exhausted(meter) /\ state' = Stopped(state) /\ UNCHANGED meter
       \/ /\ ~Exhausted(meter) /\ Answers(meter, {1})
          /\ state' = [state EXCEPT !.response = [kind |-> "synthesis", rev |-> rounds],
                                    !.final_revision_rounds = rounds,
                                    !.final_verification = NoFinalReport]
       \/ /\ ~Exhausted(meter) /\ Fails(meter, {1}, {"budget", "error"})
          /\ state' = [state EXCEPT !.stopped = TRUE, !.final_revision_rounds = rounds]
    /\ node' = "verify_final"
    /\ UNCHANGED <<settings, resumes>>

Terminate ==
    /\ node = "terminate"
    /\ state' = Terminated(state)
    /\ node' = "end"
    /\ UNCHANGED <<settings, meter, resumes>>

\* deadline_at is reached.
Deadline ==
    /\ node \in Nodes /\ ~meter.expired
    /\ meter' = [meter EXCEPT !.expired = TRUE]
    /\ UNCHANGED <<settings, node, state, resumes>>

\* The run is interrupted and resumed from its checkpoint: chat_runtime builds
\* a new budget, the checkpointed meter snapshot is not read.
Resume ==
    /\ node \in Nodes /\ resumes < MaxResumes
    /\ meter' = FreshMeter
    /\ resumes' = resumes + 1
    /\ UNCHANGED <<settings, node, state>>

GraphStep ==
    \/ Plan \/ Research \/ Worker \/ Verify \/ Revise \/ Replan \/ Advance
    \/ Finalize \/ VerifyFinal \/ ReviseFinal \/ Terminate

GraphNext == GraphStep \/ Deadline \/ Resume

GraphSpec == GraphInit /\ [][GraphNext]_graphVars
-----------------------------------------------------------------------------
(* Properties *)

\* ResultsFollowPlan: the recorded results are those of the first tasks of
\* the current plan, in order, and the answer is put together only when every
\* task has one.  _plan and _replan replace plan, index and results together,
\* and _advance moves index and results together.
ResultsFollowPlan ==
    /\ Len(state.task_results) = state.task_index
    /\ state.task_index <= Len(state.plan)
    /\ \A i \in 1..Len(state.task_results) :
          state.task_results[i].task = state.plan[i]
    /\ node \in {"finalize", "verify_final", "revise_final"} =>
          state.task_index = Len(state.plan) /\ state.plan # <<>>

\* OnlyVerifiedWorkCounts: a result is recorded only with a passing, complete
\* report about that very draft, all of whose claims are grounded in evidence
\* of that task; a report never outlives the draft it judged.
OnlyVerifiedWorkCounts ==
    \A i \in 1..Len(state.task_results) :
        LET entry == state.task_results[i] IN
        /\ entry.verification.verdict = "pass" /\ entry.verification.complete
        /\ entry.verification.grounded
        /\ entry.verification.of = entry.worker_result.draft
        /\ entry.worker_result.draft > 0
        /\ entry.worker_result.cites \subseteq {entry.task.id}

\* StoppingIsFinal: once a node has set termination_reason, no further work
\* is done; only the final verification of a failed final revision lies
\* between it and the stop notice.  In particular after_advance is never
\* asked about a stopped run, for which advance has no edge.
StoppingIsFinal ==
    state.stopped => node \in {"terminate", "verify_final"} \cup Ended

\* AnswerIsVerified: a synthesised answer that leaves the graph has passed the
\* final verification in its last revision, if that is enabled, and any other
\* answer is the result of the only task.
AnswerIsVerified ==
    node = "end" =>
        \/ state.response.kind \in {"partial", "nested"}
        \/ /\ state.response.kind = "answer"
           /\ Len(state.task_results) = 1
        \/ /\ state.response.kind = "synthesis"
           /\ FinalVerification =>
                 /\ state.final_verification.verdict = "pass"
                 /\ state.final_verification.complete
                 /\ state.final_verification.of = state.response.rev

\* EvidenceFirst: until a replan, a task that needs external evidence is
\* worked on only after research for its id succeeded (after_plan: "without
\* bypassing pre-research decisions").
EvidenceFirst ==
    /\ node \in {"worker", "verify", "revise"} /\ state.replans = 0
    /\ CurrentTask(state).evidence
    => CurrentTask(state).id \in state.researched

\* WorkIsBounded: the verifier rounds bound how often workers run, since
\* every result is verified; each resumption starts a new count.
WorkIsBounded ==
    state.iterations <= (resumes + 1) * MaxVerifierRounds + 1

-----------------------------------------------------------------------------
(* Termination *)

\* The longest way from the final nodes to the end.
FinalDistance ==
    CASE node = "finalize" -> 3 * MaxFinalRevisions + 4
      [] node = "verify_final" ->
            IF state.stopped THEN 2
            ELSE 3 * (MaxFinalRevisions - state.final_revision_rounds) + 3
      [] node = "revise_final" ->
            3 * (MaxFinalRevisions - state.final_revision_rounds) + 2
      [] node = "terminate" -> 1
      [] OTHER -> 0

\* Before that, every cycle of the graph passes through verify, which uses up a
\* verifier round.
Cycle == [plan |-> 5, advance |-> 4, replan |-> 4, research |-> 3, worker |-> 2,
          revise |-> 2, verify |-> 1]

Distance ==
    IF node \in DOMAIN Cycle
    THEN 3 * MaxFinalRevisions + 5 * (MaxVerifierRounds + 2 - meter.rounds) + Cycle[node]
    ELSE FinalDistance

\* A resumption starts a new budget, the deadline passes once in each.
Variant ==
    (MaxResumes - resumes) * 2 * (3 * MaxFinalRevisions + 5 * MaxVerifierRounds + 16)
        + 2 * Distance + (IF meter.expired THEN 0 ELSE 1)

\* EndComesNearer: every step, every deadline and every resumption lowers the
\* variant, whatever the models answer.
EndComesNearer == [][Variant' < Variant]_graphVars

\* GraphEnds: whatever the models answer, no node gets stuck, and every step,
\* every deadline and every resumption brings the end nearer: the run ends by
\* a complete answer, a stop notice or an exception.
GraphEnds ==
    /\ [](node \in Nodes => ENABLED GraphStep)
    /\ EndComesNearer
=============================================================================
