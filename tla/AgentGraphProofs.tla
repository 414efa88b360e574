--------------------------- MODULE AgentGraphProofs ---------------------------
(***************************************************************************)
(* Proofs about AgentGraph for any plans, limits and numbers of            *)
(* resumptions, whatever the models answer.                                *)
(***************************************************************************)
EXTENDS AgentGraph, TLAPS

-----------------------------------------------------------------------------
(* The inductive invariant *)

\* The nodes that work on a task.
Working == {"research", "worker", "verify", "revise", "replan", "advance"}

\* There is a current task while the graph works on one.
InTask == node \in Working => state.task_index < Len(state.plan)

\* The echo backend plans one task.
EchoPlansOne == ~Ollama => Len(state.plan) <= 1

\* A draft is there when it is verified, and the task that is about to be
\* recorded has a grounded pass for its last draft.
DraftIsVerified ==
    /\ node = "verify" => state.worker_result.draft > 0
    /\ node = "advance" =>
          /\ state.verification.verdict = "pass" /\ state.verification.complete
          /\ state.verification.grounded
          /\ state.verification.of = state.worker_result.draft
          /\ state.worker_result.draft > 0
          /\ state.worker_result.cites \subseteq {CurrentTask(state).id}

\* Only a synthesis is verified as a whole.
FinalIsSynthesis ==
    node \in {"verify_final", "revise_final"} => state.response.kind = "synthesis"

\* Before the limit is met, every draft but the one under verification has used
\* up a round of this budget or of an earlier one.
DraftsUseRounds ==
    node \in Working \cup {"plan"} =>
        /\ meter.rounds <= MaxVerifierRounds
        /\ state.iterations <= resumes * MaxVerifierRounds + meter.rounds
                                   + (IF node = "verify" THEN 1 ELSE 0)

GraphInv ==
    /\ GraphTypeOK
    /\ ResultsFollowPlan /\ InTask
    /\ EchoPlansOne
    /\ OnlyVerifiedWorkCounts /\ DraftIsVerified
    /\ StoppingIsFinal
    /\ AnswerIsVerified /\ FinalIsSynthesis
    /\ EvidenceFirst
    /\ WorkIsBounded /\ DraftsUseRounds

-----------------------------------------------------------------------------
(* What the pieces of the nodes do to the state *)

\* A plan is a sequence of tasks, within the planner's limit.
LEMMA PlanIsSeq ==
    ASSUME NEW plan \in Plans
    PROVE  plan \in Seq(Task) /\ Len(plan) \in 0..MaxTasks
  BY GraphAssumption DEF Plans

\* set_next_action writes the next action only, and asks for research exactly
\* when the current task needs evidence it does not have.
LEMMA SetNextAction ==
    ASSUME NEW s \in GraphState
    PROVE  /\ set_next_action(s) \in GraphState
           /\ \A x \in {"plan", "task_index", "task_results", "worker_result", "verification",
                        "evidence", "researched", "iterations", "research_rounds", "replans",
                        "response", "stopped", "final_required", "final_verification",
                        "final_revision_rounds"} : set_next_action(s)[x] = s[x]
           /\ set_next_action(s).next_action =
                IF CurrentTask(s).evidence /\ CurrentTask(s).id \notin s.researched
                THEN "research" ELSE "worker"
  BY DEF set_next_action, GraphState

\* A new plan starts over: index, results, drafts and the stop are reset.
LEMMA PlannedState ==
    ASSUME NEW s \in GraphState, NEW plan \in Plans
    PROVE  LET p == Planned(s, plan) IN
           /\ p \in GraphState
           /\ p.plan = plan /\ p.task_index = 0 /\ p.task_results = <<>>
           /\ p.iterations = 0 /\ p.replans = 0 /\ ~p.stopped
           /\ p.next_action # "research" /\ CurrentTask(p).evidence
                => CurrentTask(p).id \in p.researched
  <1> DEFINE q == [s EXCEPT !.plan = plan, !.task_index = 0, !.task_results = <<>>,
                  !.worker_result = NoResult, !.verification = NoReport,
                  !.evidence = {}, !.iterations = 0, !.research_rounds = 0,
                  !.replans = 0, !.stopped = FALSE,
                  !.response = [kind |-> "none", rev |-> 0],
                  !.researched = {}]
  <1>1. /\ q \in GraphState /\ q.plan = plan /\ q.task_index = 0 /\ q.task_results = <<>>
        /\ q.iterations = 0 /\ q.replans = 0 /\ q.stopped = FALSE
    <2>1. /\ NoResult \in Results /\ NoReport \in Reports /\ <<>> \in Seq(Entries)
          /\ [kind |-> "none", rev |-> 0] \in Responses
      BY DEF NoResult, NoReport, Results, Reports, Responses, Verdicts
    <2> QED
      BY <2>1 DEF GraphState
  <1> QED
    BY <1>1, SetNextAction DEF Planned, CurrentTask

\* The planner's plans have a task, and the echo backend's have one only.
LEMMA NewPlansType ==
    ASSUME NEW plan \in NewPlans
    PROVE  plan \in Plans /\ Len(plan) \in Nat \ {0} /\ (~Ollama => Len(plan) <= 1)
  <1>1. plan \in Plans /\ Len(plan) \in Nat \ {0} /\ (~Ollama => Len(plan) = 1)
    BY GraphAssumption, PlanIsSeq DEF NewPlans
  <1>2. 1 <= 1
    OBVIOUS
  <1> QED
    BY <1>1, <1>2, Zenon

\* What a piece of a node leaves alone.
Kept(s, t, fields) == \A x \in fields : t[x] = s[x]

PlanFields == {"plan", "task_index", "task_results"}

\* Stopping changes neither the plan nor what was recorded.
LEMMA StoppedState ==
    ASSUME NEW s \in GraphState
    PROVE  /\ Stopped(s) \in GraphState /\ Stopped(s).stopped
           /\ Stopped(s).response = s.response
           /\ Kept(s, Stopped(s), PlanFields \cup {"iterations"})
  BY DEF Stopped, GraphState, Kept, PlanFields

\* A draft counts as an iteration and leaves plan and results alone.
LEMMA DraftedState ==
    ASSUME NEW s \in GraphState, NEW cites \in SUBSET (TaskIds \cup {"none"})
    PROVE  LET d == Drafted(s, cites) IN
           /\ d \in GraphState
           /\ Kept(s, d, PlanFields \cup {"researched", "replans", "stopped"})
           /\ d.iterations = s.iterations + 1 /\ d.worker_result.draft > 0
  <1>1. /\ [draft |-> s.iterations + 1, cites |-> cites] \in Results /\ s.iterations + 1 \in Nat
        /\ s.iterations + 1 > 0
    <2>1. s.iterations \in Nat
      BY DEF GraphState
    <2> QED
      BY <2>1 DEF Results
  <1> QED
    BY <1>1 DEF Drafted, GraphState, Kept, PlanFields

\* A passing and complete report is about the present draft, whose claims cite
\* the evidence of the current task alone.
LEMMA ReportType ==
    ASSUME NEW s \in GraphState, s.task_index < Len(s.plan),
           NEW verdict \in Verdicts, NEW complete \in BOOLEAN
    PROVE  LET r == Report(s, verdict, complete) IN
           /\ r \in Reports /\ r.verdict \in Verdicts
           /\ r.verdict = "pass" /\ r.complete =>
                 /\ r.grounded /\ r.of = s.worker_result.draft
                 /\ s.worker_result.cites \subseteq {CurrentTask(s).id}
  BY DEF Report, Reports, Verdicts, GraphState, Results, ground_claims

\* Storing a report leaves plan, results and draft alone.
LEMMA VerifiedState ==
    ASSUME NEW s \in GraphState, NEW r \in Reports
    PROVE  LET v == [s EXCEPT !.verification = r] IN
           /\ v \in GraphState /\ v.verification = r
           /\ Kept(s, v, PlanFields \cup {"worker_result", "researched", "iterations",
                                          "replans", "stopped"})
  BY DEF GraphState, Kept, PlanFields

\* A verifier that fails stops the run and leaves plan and results alone.
LEMMA UnverifiedState ==
    ASSUME NEW s \in GraphState
    PROVE  /\ Unverified(s) \in GraphState /\ Unverified(s).stopped
           /\ Kept(s, Unverified(s), PlanFields \cup {"iterations"})
  <1>1. [verdict |-> "terminate", complete |-> FALSE, of |-> s.worker_result.draft,
         grounded |-> FALSE] \in Reports
    BY DEF Reports, Verdicts, GraphState, Results
  <1> QED
    BY <1>1 DEF Unverified, GraphState, Kept, PlanFields

\* A replan starts over with the new plan and keeps iterations and the stop.
LEMMA ReplannedState ==
    ASSUME NEW s \in GraphState, NEW plan \in Plans, NEW n \in Nat
    PROVE  LET p == Replanned(s, plan, n) IN
           /\ p \in GraphState
           /\ p.plan = plan /\ p.task_index = 0 /\ p.task_results = <<>>
           /\ p.replans = n /\ Kept(s, p, {"iterations", "stopped"})
  <1> DEFINE q == [s EXCEPT !.plan = plan, !.task_index = 0, !.task_results = <<>>,
                  !.worker_result = NoResult, !.verification = NoReport,
                  !.evidence = {}, !.research_rounds = 0, !.replans = n,
                  !.researched = {}]
  <1>1. /\ q \in GraphState /\ q.plan = plan /\ q.task_index = 0 /\ q.task_results = <<>>
        /\ q.iterations = s.iterations /\ q.replans = n /\ q.stopped = s.stopped
    <2>1. /\ NoResult \in Results /\ NoReport \in Reports /\ <<>> \in Seq(Entries)
      BY DEF NoResult, NoReport, Results, Reports, Verdicts
    <2> QED
      BY <2>1 DEF GraphState
  <1> QED
    BY <1>1, SetNextAction DEF Replanned, CurrentTask, Kept

\* Advancing appends the current task with its draft and report to the results.
LEMMA AdvancedState ==
    ASSUME NEW s \in GraphState, s.task_index < Len(s.plan)
    PROVE  LET a == Advanced(s) IN
           /\ a \in GraphState /\ a.task_index = s.task_index + 1
           /\ a.task_results = Append(s.task_results,
                                      [task |-> CurrentTask(s), worker_result |-> s.worker_result,
                                       verification |-> s.verification])
           /\ Kept(s, a, {"plan", "researched", "iterations", "replans", "stopped"})
  <1>1. CurrentTask(s) \in Task
    <2>1. s.plan \in Plans /\ s.task_index \in Nat
      BY DEF GraphState
    <2>2. s.plan \in Seq(Task)
      BY <2>1, PlanIsSeq
    <2>3. s.task_index + 1 \in 1..Len(s.plan)
      BY <2>1, <2>2
    <2> QED
      BY <2>2, <2>3 DEF CurrentTask
  <1>2. [task |-> CurrentTask(s), worker_result |-> s.worker_result,
         verification |-> s.verification] \in Entries
    BY <1>1 DEF Entries, GraphState
  <1>3. /\ NoResult \in Results /\ NoReport \in Reports
        /\ Append(s.task_results, [task |-> CurrentTask(s), worker_result |-> s.worker_result,
                                   verification |-> s.verification]) \in Seq(Entries)
        /\ s.task_index + 1 \in Nat
    <2>1. s.task_results \in Seq(Entries) /\ s.task_index \in Nat
      BY DEF GraphState
    <2>2. NoResult \in Results /\ NoReport \in Reports
      BY DEF NoResult, NoReport, Results, Reports, Verdicts
    <2> QED
      BY <1>2, <2>1, <2>2
  <1> QED
    BY <1>3 DEF Advanced, GraphState, Kept

\* A final answer leaves the plan, its results and the stop alone.
LEMMA FinalizedState ==
    ASSUME NEW s \in GraphState, NEW kind \in {"answer", "synthesis"}, NEW required \in BOOLEAN
    PROVE  LET f == Finalized(s, kind, required) IN
           /\ f \in GraphState /\ f.response.kind = kind /\ f.final_required = required
           /\ Kept(s, f, PlanFields \cup {"iterations", "stopped"})
  <1>1. [kind |-> kind, rev |-> 0] \in Responses /\ NoFinalReport \in FinalReports
    BY DEF Responses, NoFinalReport, FinalReports
  <1> QED
    BY <1>1 DEF Finalized, GraphState, Kept, PlanFields

\* Termination writes a partial response and nothing else.
LEMMA TerminatedState ==
    ASSUME NEW s \in GraphState
    PROVE  /\ Terminated(s) \in GraphState
           /\ Terminated(s).response.kind \in {"partial", "nested"}
           /\ Kept(s, Terminated(s), PlanFields \cup {"iterations", "stopped"})
  <1>1. partial_response(s) \in Responses /\ partial_response(s).kind \in {"partial", "nested"}
    BY DEF partial_response, Responses, GraphState
  <1> QED
    BY <1>1 DEF Terminated, GraphState, Kept, PlanFields

\* The final judgement is about the present revision, and a run that is not
\* stopped by it has passed or has a revision left.
LEMMA FinallyJudgedState ==
    ASSUME NEW s \in GraphState, NEW j \in FinalJudgements
    PROVE  LET f == FinallyJudged(s, j[1], j[2]) IN
           /\ f \in GraphState /\ (s.stopped => f.stopped)
           /\ f.final_verification = [verdict |-> j[1], complete |-> j[2], of |-> s.response.rev]
           /\ Kept(s, f, PlanFields \cup {"iterations", "response", "final_revision_rounds"})
           /\ ~f.stopped => \/ j[1] = "pass"
                            \/ f.final_revision_rounds < MaxFinalRevisions
  <1>1. j[1] \in {"pass", "revise"} /\ j[2] \in BOOLEAN
    <2>1. \/ j = <<"pass", TRUE>> \/ j = <<"revise", TRUE>> \/ j = <<"revise", FALSE>>
      BY DEF FinalJudgements
    <2>2. CASE j = <<"pass", TRUE>>
      BY <2>2
    <2>3. CASE j = <<"revise", TRUE>>
      BY <2>3
    <2>4. CASE j = <<"revise", FALSE>>
      BY <2>4
    <2> QED
      BY <2>1, <2>2, <2>3, <2>4
  <1>2. /\ [verdict |-> j[1], complete |-> j[2], of |-> s.response.rev] \in FinalReports
        /\ s.final_revision_rounds \in Nat /\ MaxFinalRevisions \in Nat
    BY <1>1, GraphAssumption DEF FinalReports, GraphState, Responses
  <1> DEFINE report == [verdict |-> j[1], complete |-> j[2], of |-> s.response.rev]
             stop == s.stopped \/ (j[1] # "pass" /\ s.final_revision_rounds >= MaxFinalRevisions)
  <1>3. stop \in BOOLEAN /\ (s.stopped => stop)
        /\ (~stop => j[1] = "pass" \/ s.final_revision_rounds < MaxFinalRevisions)
    BY <1>2
  <1>4. FinallyJudged(s, j[1], j[2]) = [s EXCEPT !.final_verification = report, !.stopped = stop]
    BY DEF FinallyJudged
  <1> HIDE DEF report, stop
  <1>5. /\ FinallyJudged(s, j[1], j[2]) \in GraphState
        /\ FinallyJudged(s, j[1], j[2]).final_verification = report
        /\ FinallyJudged(s, j[1], j[2]).stopped = stop
        /\ Kept(s, FinallyJudged(s, j[1], j[2]),
                PlanFields \cup {"iterations", "response", "final_revision_rounds"})
    <2>1. report \in FinalReports
      BY <1>2 DEF report
    <2> QED
      BY <1>3, <1>4, <2>1 DEF GraphState, Kept, PlanFields
  <1>6. FinallyJudged(s, j[1], j[2]).final_revision_rounds = s.final_revision_rounds
    BY <1>5 DEF Kept
  <1> QED
    BY <1>3, <1>5, <1>6 DEF report

\* No model operation touches the verifier rounds.
LEMMA ModelOperationMeter ==
    ASSUME NEW m, NEW attempts, NEW outcome, NEW n \in ModelOperation(m, attempts, outcome)
    PROVE  n \in Meters /\ n.rounds = m.rounds
  BY DEF ModelOperation

-----------------------------------------------------------------------------
(* Initial states and steps *)

\* The initial states.
LEMMA GraphInitInv == GraphInit => GraphInv
  <1> SUFFICES ASSUME GraphInit PROVE GraphInv
    OBVIOUS
  <1>1. InitialState \in GraphState
    <2>1. /\ NoResult \in Results /\ NoReport \in Reports /\ <<>> \in Seq(Entries)
          /\ [kind |-> "none", rev |-> 0] \in Responses /\ NoFinalReport \in FinalReports
      BY DEF NoResult, NoReport, Results, Reports, Responses, Verdicts, NoFinalReport, FinalReports
    <2>2. <<>> \in Plans
      BY GraphAssumption DEF Plans
    <2> QED
      BY <2>1, <2>2 DEF InitialState, GraphState
  <1>2. GraphTypeOK
    BY <1>1, GraphAssumption DEF GraphInit, GraphTypeOK, Nodes, FreshMeter, Meters
  <1>3. /\ state.plan = <<>> /\ state.task_index = 0 /\ state.task_results = <<>>
        /\ state.iterations = 0 /\ ~state.stopped /\ node = "plan" /\ resumes = 0
        /\ meter.rounds = 0
    BY DEF GraphInit, InitialState, FreshMeter
  <1> QED
    BY <1>2, <1>3, GraphAssumption
       DEF GraphInv, ResultsFollowPlan, InTask, EchoPlansOne, OnlyVerifiedWorkCounts,
           DraftIsVerified, StoppingIsFinal, AnswerIsVerified, FinalIsSynthesis, EvidenceFirst,
           WorkIsBounded, DraftsUseRounds, Working

USE DEF GraphInv, Working

\* A node that stops the run, whatever else it notes.
LEMMA StopInv ==
    ASSUME GraphInv, node' = "terminate", state' \in GraphState, state'.stopped,
           Kept(state, state', PlanFields \cup {"iterations"}), meter' \in Meters,
           UNCHANGED <<settings, resumes>>
    PROVE  GraphInv'
  <1>1. /\ state'.plan = state.plan /\ state'.task_index = state.task_index
        /\ state'.task_results = state.task_results /\ state'.iterations = state.iterations
    BY DEF Kept, PlanFields
  <1> QED
    BY <1>1 DEF GraphTypeOK, Nodes, Ended, ResultsFollowPlan, InTask, EchoPlansOne, Ollama,
       OnlyVerifiedWorkCounts, DraftIsVerified, StoppingIsFinal, AnswerIsVerified,
       FinalIsSynthesis, EvidenceFirst, WorkIsBounded, DraftsUseRounds

\* A node that raises.
LEMMA RaiseInv ==
    ASSUME GraphInv, node' = "raised", meter' \in Meters, UNCHANGED <<settings, state, resumes>>
    PROVE  GraphInv'
  BY DEF GraphTypeOK, Nodes, Ended, ResultsFollowPlan, InTask, EchoPlansOne, Ollama,
     OnlyVerifiedWorkCounts, DraftIsVerified, StoppingIsFinal, AnswerIsVerified,
     FinalIsSynthesis, EvidenceFirst, WorkIsBounded, DraftsUseRounds

\* The meter after an operation that fails.
LEMMA RaisesMeter ==
    ASSUME NEW m, NEW attempts, NEW outcomes, Fails(m, attempts, outcomes)
    PROVE  meter' \in Meters /\ meter'.rounds = m.rounds
  BY ModelOperationMeter DEF Fails

\* The meter after an operation that answers.
LEMMA AnswersMeter ==
    ASSUME NEW m \in Meters, NEW attempts, Answers(m, attempts)
    PROVE  meter' \in Meters /\ meter'.rounds = m.rounds
  BY ModelOperationMeter DEF Answers

\* The step of a product, for the provers.
LEMMA Product ==
    ASSUME NEW m \in Nat, NEW n \in Nat
    PROVE  m * n \in Nat /\ (m + 1) * n = m * n + n
  OBVIOUS

\* The numbers that DraftsUseRounds and WorkIsBounded are about.
LEMMA Counts ==
    ASSUME GraphInv
    PROVE  /\ meter.rounds \in Nat /\ MaxVerifierRounds \in Nat /\ state.iterations \in Nat
           /\ resumes \in Nat /\ resumes * MaxVerifierRounds \in Nat
           /\ (resumes + 1) * MaxVerifierRounds = resumes * MaxVerifierRounds + MaxVerifierRounds
  <1>1. meter.rounds \in Nat /\ MaxVerifierRounds \in Nat
    BY GraphAssumption DEF GraphTypeOK, Meters
  <1>2. state.iterations \in Nat
    BY DEF GraphTypeOK, GraphState
  <1>3. resumes \in Nat
    BY GraphAssumption DEF GraphTypeOK
  <1> QED
    BY <1>1, <1>2, <1>3, Product

\* A node that leaves the plan and its results alone and writes a new draft.
LEMMA DraftInv ==
    ASSUME GraphInv, node \in {"worker", "revise"}, ~Exhausted(meter), Answers(meter, Attempts),
           NEW cites \in Citations, state' = Drafted(state, cites),
           node' = after_budgeted_step(state', "verify"), UNCHANGED <<settings, resumes>>
    PROVE  GraphInv'
  <1>1. cites \in SUBSET (TaskIds \cup {"none"})
    BY DEF Citations
  <1>2. state \in GraphState /\ meter \in Meters /\ ~state.stopped
    BY DEF GraphTypeOK, StoppingIsFinal, Ended
  <1>3. /\ state' \in GraphState /\ state'.plan = state.plan
        /\ state'.task_index = state.task_index /\ state'.task_results = state.task_results
        /\ state'.researched = state.researched /\ state'.replans = state.replans
        /\ ~state'.stopped /\ state'.iterations = state.iterations + 1
        /\ state'.worker_result.draft > 0
    BY <1>1, <1>2, DraftedState DEF Kept, PlanFields
  <1>4. node' = "verify"
    BY <1>3 DEF after_budgeted_step
  <1>5. meter' \in Meters /\ meter'.rounds = meter.rounds
    BY <1>2, AnswersMeter
  <1>6. GraphTypeOK'
    BY <1>3, <1>4, <1>5 DEF GraphTypeOK, Nodes
  <1>7. ResultsFollowPlan' /\ InTask' /\ EchoPlansOne' /\ OnlyVerifiedWorkCounts'
    BY <1>3, <1>4 DEF ResultsFollowPlan, InTask, EchoPlansOne, Ollama, OnlyVerifiedWorkCounts
  <1>8. DraftIsVerified' /\ StoppingIsFinal' /\ AnswerIsVerified' /\ FinalIsSynthesis'
    BY <1>3, <1>4 DEF DraftIsVerified, StoppingIsFinal, AnswerIsVerified, FinalIsSynthesis
  <1>9. EvidenceFirst'
    BY <1>3, <1>4 DEF EvidenceFirst, CurrentTask
  <1>10. DraftsUseRounds' /\ WorkIsBounded'
    <2> DEFINE past == resumes * MaxVerifierRounds
    <2>1. /\ past \in Nat /\ (resumes + 1) * MaxVerifierRounds = past + MaxVerifierRounds
          /\ meter.rounds \in Nat /\ MaxVerifierRounds \in Nat /\ state.iterations \in Nat
      BY Counts
    <2>2. state.iterations <= past + meter.rounds /\ meter.rounds <= MaxVerifierRounds
      BY <2>1 DEF DraftsUseRounds
    <2> QED
      BY <1>3, <1>4, <1>5, <2>1, <2>2 DEF DraftsUseRounds, WorkIsBounded
  <1> QED
    BY <1>6, <1>7, <1>8, <1>9, <1>10

\* What the invariant says of a node at work.
LEMMA AtWork ==
    ASSUME GraphInv, node \in Working \cup {"plan", "finalize", "revise_final"}
    PROVE  state \in GraphState /\ meter \in Meters /\ ~state.stopped
  BY DEF GraphTypeOK, StoppingIsFinal, Ended

\* The branches that every node with a model has in common.
LEMMA StoppedInv ==
    ASSUME GraphInv, state' = Stopped(state), node' = "terminate", meter' \in Meters,
           UNCHANGED <<settings, resumes>>
    PROVE  GraphInv'
  <1>1. state \in GraphState
    BY DEF GraphTypeOK
  <1> QED
    BY <1>1, StoppedState, StopInv

\* An exception that no node handles ends the run and leaves its state.
LEMMA RaisesInv ==
    ASSUME GraphInv, NEW m, NEW attempts, NEW outcomes, Raises(m, attempts, outcomes),
           UNCHANGED <<settings, resumes>>
    PROVE  GraphInv'
  BY RaisesMeter, RaiseInv DEF Raises

\* A worker's draft replaces the verified one: it is not recorded before it is
\* verified itself.
LEMMA WorkerInv == GraphInv /\ (Worker \/ Revise) => GraphInv'
  <1> SUFFICES ASSUME GraphInv, Worker \/ Revise PROVE GraphInv'
    OBVIOUS
  <1>1. /\ node \in {"worker", "revise"} /\ UNCHANGED <<settings, resumes>>
        /\ state \in GraphState /\ meter \in Meters
    BY AtWork DEF Worker, Revise
  <1>2. ASSUME state' = Stopped(state), meter' \in Meters,
               node' = after_budgeted_step(state', "verify")
        PROVE  GraphInv'
    <2>1. node' = "terminate"
      BY <1>1, <1>2, StoppedState DEF after_budgeted_step
    <2> QED
      BY <1>1, <1>2, <2>1, StoppedInv
  <1>3. CASE /\ ~Exhausted(meter) /\ Answers(meter, Attempts)
             /\ \E cites \in Citations : state' = Drafted(state, cites)
             /\ node' = after_budgeted_step(state', "verify")
    BY <1>1, <1>3, DraftInv
  <1>4. CASE \/ Raises(meter, Attempts, {"budget", "error"})
             \/ Raises(meter, Attempts, {"budget", "invalid", "error"})
    BY <1>1, <1>4, RaisesInv
  <1>5. CASE Worker
    BY <1>1, <1>2, <1>3, <1>4, <1>5, RaisesMeter DEF Worker
  <1>6. CASE Revise
    BY <1>1, <1>2, <1>3, <1>4, <1>6, RaisesMeter DEF Revise
  <1> QED
    BY <1>5, <1>6

\* A plan begins with nothing recorded.
LEMMA PlanInv == GraphInv /\ Plan => GraphInv'
  <1> SUFFICES ASSUME GraphInv, Plan PROVE GraphInv'
    OBVIOUS
  <1>1. /\ node = "plan" /\ UNCHANGED <<settings, resumes>>
        /\ state \in GraphState /\ meter \in Meters
    BY AtWork DEF Plan
  <1>2. ASSUME state' = Stopped(state), meter' \in Meters, node' = after_plan(state')
        PROVE  GraphInv'
    <2>1. node' = "terminate"
      BY <1>1, <1>2, StoppedState DEF after_plan
    <2> QED
      BY <1>1, <1>2, <2>1, StoppedInv
  <1>3. ASSUME Answers(meter, Attempts), NEW plan \in NewPlans, state' = Planned(state, plan),
               node' = after_plan(state')
        PROVE  GraphInv'
    <2>1. plan \in Plans /\ Len(plan) \in Nat \ {0} /\ (~Ollama => Len(plan) <= 1)
      BY NewPlansType
    <2>2. /\ state' \in GraphState
          /\ state'.plan = plan /\ state'.task_index = 0 /\ state'.task_results = <<>>
          /\ state'.iterations = 0 /\ state'.replans = 0 /\ ~state'.stopped
          /\ state'.next_action # "research" /\ CurrentTask(state').evidence
               => CurrentTask(state').id \in state'.researched
      BY <1>1, <1>3, <2>1, PlannedState
    <2>3. /\ node' \in {"research", "worker"}
          /\ node' = "worker" => state'.next_action # "research"
      BY <1>3, <2>2 DEF after_plan
    <2>4. meter' \in Meters /\ meter'.rounds = meter.rounds
      BY <1>1, <1>3, AnswersMeter
    <2>5. GraphTypeOK'
      BY <1>1, <2>2, <2>3, <2>4 DEF GraphTypeOK, Nodes
    <2>6. ResultsFollowPlan' /\ InTask' /\ EchoPlansOne' /\ OnlyVerifiedWorkCounts'
      <3>1. Len(state'.task_results) = 0
        BY <2>2
      <3>2. ResultsFollowPlan' /\ OnlyVerifiedWorkCounts'
        BY <2>1, <2>2, <2>3, <3>1 DEF ResultsFollowPlan, OnlyVerifiedWorkCounts
      <3>3. InTask'
        BY <2>1, <2>2 DEF InTask
      <3>4. EchoPlansOne'
        <4>1. Ollama' <=> Ollama
          BY <1>1 DEF Ollama
        <4>2. ~Ollama => Len(state'.plan) <= 1
          BY <2>1, <2>2
        <4> QED
          BY <4>1, <4>2 DEF EchoPlansOne
      <3> QED
        BY <3>2, <3>3, <3>4
    <2>7. DraftIsVerified' /\ StoppingIsFinal' /\ AnswerIsVerified' /\ FinalIsSynthesis'
      BY <2>2, <2>3 DEF DraftIsVerified, StoppingIsFinal, AnswerIsVerified, FinalIsSynthesis
    <2>8. EvidenceFirst'
      BY <2>2, <2>3 DEF EvidenceFirst
    <2>9. DraftsUseRounds' /\ WorkIsBounded'
      BY <1>1, <2>2, <2>3, <2>4, Counts DEF DraftsUseRounds, WorkIsBounded
    <2> QED
      BY <2>5, <2>6, <2>7, <2>8, <2>9
  <1>4. CASE Raises(meter, Attempts, {"budget", "error"})
    BY <1>1, <1>4, RaisesInv
  <1> QED
    BY <1>1, <1>2, <1>3, <1>4, RaisesMeter DEF Plan

\* The verifier's report is about the draft it saw.
LEMMA VerifyInv == GraphInv /\ Verify => GraphInv'
  <1> SUFFICES ASSUME GraphInv, Verify PROVE GraphInv'
    OBVIOUS
  <1> DEFINE m == CountRound(meter)
  <1>1. /\ node = "verify" /\ UNCHANGED <<settings, resumes>>
        /\ state \in GraphState /\ meter \in Meters /\ ~state.stopped
    BY AtWork DEF Verify
  <1>2. m \in Meters /\ m.rounds = meter.rounds + 1
    <2>1. meter.rounds + 1 \in 0..MaxVerifierRounds + 1
      BY <1>1, Counts DEF DraftsUseRounds
    <2> QED
      BY <1>1, <2>1 DEF CountRound, Meters
  <1> HIDE DEF m
  <1>3. ASSUME state' = Unverified(state), meter' \in Meters, node' = after_verification(state')
        PROVE  GraphInv'
    <2>1. node' = "terminate"
      BY <1>1, <1>3, UnverifiedState DEF after_verification
    <2> QED
      BY <1>1, <1>3, <2>1, UnverifiedState, StopInv
  <1>4. ASSUME ~Exhausted(m), Answers(m, Attempts), NEW j \in Judgements,
               state' = [state EXCEPT !.verification = Report(state, j[1], j[2])],
               node' = after_verification(state')
        PROVE  GraphInv'
    <2>1. j[1] \in Verdicts /\ j[2] \in BOOLEAN
      <3>1. CASE Ollama
        BY <1>4, <3>1 DEF Judgements
      <3>2. CASE ~Ollama
        <4>1. j = <<"pass", TRUE>> \/ j = <<"revise", FALSE>>
          BY <1>4, <3>2 DEF Judgements
        <4>2. CASE j = <<"pass", TRUE>>
          BY <4>2 DEF Verdicts
        <4>3. CASE j = <<"revise", FALSE>>
          BY <4>3 DEF Verdicts
        <4> QED
          BY <4>1, <4>2, <4>3
      <3> QED
        BY <3>1, <3>2
    <2> DEFINE r == Report(state, j[1], j[2])
    <2>2. state.task_index < Len(state.plan) /\ state.worker_result.draft > 0
      BY <1>1 DEF InTask, DraftIsVerified
    <2>3. /\ r \in Reports /\ r.verdict \in Verdicts
          /\ r.verdict = "pass" /\ r.complete =>
                /\ r.grounded /\ r.of = state.worker_result.draft
                /\ state.worker_result.cites \subseteq {CurrentTask(state).id}
      BY <1>1, <2>1, <2>2, ReportType
    <2> HIDE DEF r
    <2>4. /\ state' \in GraphState /\ state'.verification = r
          /\ state'.plan = state.plan /\ state'.task_index = state.task_index
          /\ state'.task_results = state.task_results
          /\ state'.worker_result = state.worker_result
          /\ state'.researched = state.researched /\ state'.iterations = state.iterations
          /\ state'.replans = state.replans /\ ~state'.stopped
      BY <1>1, <1>4, <2>3, VerifiedState DEF r, Kept, PlanFields
    <2>5. /\ node' \in {"advance", "revise", "research", "replan", "terminate"}
          /\ node' = "advance" => r.verdict = "pass" /\ r.complete
      BY <1>4, <2>3, <2>4 DEF after_verification, Verdicts
    <2>6. meter' \in Meters /\ meter'.rounds = meter.rounds + 1
      BY <1>2, <1>4, AnswersMeter
    <2>7. GraphTypeOK'
      BY <1>1, <2>4, <2>5, <2>6 DEF GraphTypeOK, Nodes
    <2>8. ResultsFollowPlan' /\ InTask' /\ EchoPlansOne' /\ OnlyVerifiedWorkCounts'
      BY <1>1, <2>2, <2>4, <2>5
         DEF ResultsFollowPlan, InTask, EchoPlansOne, Ollama, OnlyVerifiedWorkCounts
    <2>9. DraftIsVerified' /\ StoppingIsFinal' /\ AnswerIsVerified' /\ FinalIsSynthesis'
      BY <2>2, <2>3, <2>4, <2>5
         DEF DraftIsVerified, StoppingIsFinal, AnswerIsVerified, FinalIsSynthesis, CurrentTask
    <2>10. EvidenceFirst'
      BY <1>1, <2>4, <2>5 DEF EvidenceFirst, CurrentTask
    <2>11. DraftsUseRounds' /\ WorkIsBounded'
      <3>1. meter.rounds + 1 <= MaxVerifierRounds
        BY <1>2, <1>4, Counts DEF Exhausted
      <3> QED
        BY <1>1, <2>4, <2>5, <2>6, <3>1, Counts DEF DraftsUseRounds, WorkIsBounded
    <2> QED
      BY <2>7, <2>8, <2>9, <2>10, <2>11
  <1>5. CASE Raises(m, Attempts, {"invalid", "error"})
    BY <1>1, <1>5, RaisesInv
  <1> QED
    BY <1>1, <1>2, <1>3, <1>4, <1>5, RaisesMeter DEF Verify, m

\* Research leaves plan, results and drafts alone, or stops the run.
LEMMA ResearchInv == GraphInv /\ Research => GraphInv'
  <1> SUFFICES ASSUME GraphInv, Research PROVE GraphInv'
    OBVIOUS
  <1> DEFINE counted == [state EXCEPT !.research_rounds = state.research_rounds + 1]
             id == CurrentTask(state).id
             found == [counted EXCEPT !.evidence = @ \cup {id}, !.researched = @ \cup {id},
                                      !.next_action = "worker"]
  <1>1. /\ node = "research" /\ UNCHANGED <<settings, resumes>>
        /\ state \in GraphState /\ meter \in Meters /\ ~state.stopped
        /\ state.task_index < Len(state.plan)
    BY AtWork DEF Research, InTask
  <1>2. counted \in GraphState /\ Kept(state, counted, PlanFields \cup {"iterations", "replans", "researched", "stopped"})
    <2>1. state.research_rounds \in Nat
      BY <1>1 DEF GraphState
    <2>2. state.research_rounds + 1 \in Nat
      BY <2>1
    <2> QED
      BY <1>1, <2>2 DEF GraphState, Kept, PlanFields
  <1>3. id \in TaskIds
    <2>1. state.plan \in Plans /\ state.task_index \in Nat
      BY <1>1 DEF GraphState
    <2>2. CurrentTask(state) \in Task
      BY <1>1, <2>1, PlanIsSeq DEF CurrentTask
    <2> QED
      BY <2>2 DEF Task
  <1>4. found \in GraphState /\ found.researched = state.researched \cup {id}
        /\ Kept(state, found, PlanFields \cup {"iterations", "replans", "stopped"})
    <2> HIDE DEF counted, id
    <2>1. /\ counted.evidence \cup {id} \in SUBSET TaskIds
          /\ counted.researched \cup {id} \in SUBSET TaskIds
      BY <1>2, <1>3 DEF GraphState
    <2> QED
      BY <1>2, <2>1 DEF GraphState, Kept, PlanFields
  <1> HIDE DEF counted, id, found
  <1>5. \A n \in meter.tools..MaxToolCalls :
           /\ [meter EXCEPT !.tools = n] \in Meters
           /\ [meter EXCEPT !.tools = n].rounds = meter.rounds
           /\ [meter EXCEPT !.tools = n, !.expired = TRUE] \in Meters
    <2> SUFFICES ASSUME NEW n \in meter.tools..MaxToolCalls
                 PROVE  /\ [meter EXCEPT !.tools = n] \in Meters
                        /\ [meter EXCEPT !.tools = n].rounds = meter.rounds
                        /\ [meter EXCEPT !.tools = n, !.expired = TRUE] \in Meters
      OBVIOUS
    <2>1. meter.tools \in 0..MaxToolCalls /\ MaxToolCalls \in Nat
      BY <1>1, GraphAssumption DEF Meters
    <2>2. n \in 0..MaxToolCalls
      BY <2>1
    <2> QED
      BY <1>1, <2>2 DEF Meters
  <1>6. ASSUME NEW s \in {state, counted}, state' = Stopped(s), meter' \in Meters,
               node' = after_budgeted_step(state', "worker")
        PROVE  GraphInv'
    <2>1. /\ state' \in GraphState /\ state'.stopped
          /\ Kept(state, state', PlanFields \cup {"iterations"})
      BY <1>1, <1>2, <1>6, StoppedState DEF Kept, PlanFields
    <2>2. node' = "terminate"
      BY <1>6, <2>1 DEF after_budgeted_step
    <2> QED
      BY <1>1, <1>6, <2>1, <2>2, StopInv
  <1>7. ASSUME state' = found, meter' \in Meters, meter'.rounds = meter.rounds,
               node' = after_budgeted_step(state', "worker")
        PROVE  GraphInv'
    <2>1. /\ state' \in GraphState /\ state'.plan = state.plan
          /\ state'.task_index = state.task_index /\ state'.task_results = state.task_results
          /\ state'.iterations = state.iterations /\ state'.replans = state.replans
          /\ ~state'.stopped /\ id \in state'.researched
      BY <1>1, <1>4, <1>7 DEF Kept, PlanFields
    <2>2. node' = "worker"
      BY <1>7, <2>1 DEF after_budgeted_step
    <2>3. GraphTypeOK'
      BY <1>1, <1>7, <2>1, <2>2 DEF GraphTypeOK, Nodes
    <2>4. ResultsFollowPlan' /\ InTask' /\ EchoPlansOne' /\ OnlyVerifiedWorkCounts'
      BY <1>1, <2>1, <2>2 DEF ResultsFollowPlan, InTask, EchoPlansOne, Ollama, OnlyVerifiedWorkCounts
    <2>5. DraftIsVerified' /\ StoppingIsFinal' /\ AnswerIsVerified' /\ FinalIsSynthesis'
      BY <2>1, <2>2 DEF DraftIsVerified, StoppingIsFinal, AnswerIsVerified, FinalIsSynthesis
    <2>6. EvidenceFirst'
      BY <2>1, <2>2 DEF EvidenceFirst, CurrentTask, id
    <2>7. DraftsUseRounds' /\ WorkIsBounded'
      BY <1>1, <1>7, <2>1, <2>2, Counts DEF DraftsUseRounds, WorkIsBounded
    <2> QED
      BY <2>3, <2>4, <2>5, <2>6, <2>7
  <1>8. CASE \/ ~settings.mcp_enabled /\ state' = Stopped(counted)
                /\ node' = after_budgeted_step(state', "worker") /\ UNCHANGED meter
             \/ state' = Stopped(state)
                /\ node' = after_budgeted_step(state', "worker") /\ UNCHANGED meter
             \/ /\ \E n \in meter.tools..MaxToolCalls : meter' = [meter EXCEPT !.tools = n]
                /\ state' = Stopped(counted)
                /\ node' = after_budgeted_step(state', "worker")
    BY <1>1, <1>5, <1>6, <1>8
  <1>9. CASE /\ \E n \in meter.tools + 1..MaxToolCalls : meter' = [meter EXCEPT !.tools = n]
             /\ state' = found /\ node' = after_budgeted_step(state', "worker")
    <2>1. meter.tools \in Nat /\ MaxToolCalls \in Nat
      BY <1>1, GraphAssumption DEF Meters
    <2>2. PICK n \in meter.tools + 1..MaxToolCalls : meter' = [meter EXCEPT !.tools = n]
      BY <1>9
    <2>3. n \in meter.tools..MaxToolCalls
      BY <2>1
    <2> QED
      BY <1>5, <1>7, <1>9, <2>2, <2>3
  <1>10. CASE /\ \E n \in meter.tools..MaxToolCalls :
                    meter' = [meter EXCEPT !.tools = n, !.expired = TRUE]
              /\ node' = "raised" /\ UNCHANGED state
    BY <1>1, <1>5, <1>10, RaiseInv
  <1> QED
    BY <1>8, <1>9, <1>10 DEF Research, counted, id, found

\* A replan drops what belonged to the former plan.
LEMMA ReplanInv == GraphInv /\ Replan => GraphInv'
  <1> SUFFICES ASSUME GraphInv, Replan PROVE GraphInv'
    OBVIOUS
  <1> DEFINE n == state.replans + 1
  <1>1. /\ node = "replan" /\ UNCHANGED <<settings, resumes>>
        /\ state \in GraphState /\ meter \in Meters /\ ~state.stopped
        /\ state.task_index < Len(state.plan)
    BY AtWork DEF Replan, InTask
  <1>2. n \in Nat /\ n # 0 /\ state.plan \in Plans /\ state.task_index \in Nat
    <2>1. state.replans \in Nat /\ state.plan \in Plans /\ state.task_index \in Nat
      BY <1>1 DEF GraphState
    <2> QED
      BY <2>1
  <1> HIDE DEF n
  <1>3. ASSUME state' = [state EXCEPT !.replans = n, !.stopped = TRUE], UNCHANGED meter,
               node' = after_budgeted_step(state', "worker")
        PROVE  GraphInv'
    <2>1. /\ state' \in GraphState /\ state'.stopped
          /\ Kept(state, state', PlanFields \cup {"iterations"})
      BY <1>1, <1>2, <1>3 DEF GraphState, Kept, PlanFields
    <2>2. node' = "terminate"
      BY <1>3, <2>1 DEF after_budgeted_step
    <2> QED
      BY <1>1, <1>3, <2>1, <2>2, StopInv
  <1>4. ASSUME NEW plan \in IF Ollama THEN NewPlans ELSE {state.plan}
        PROVE  plan \in Plans /\ Len(plan) \in Nat \ {0} /\ (~Ollama => Len(plan) <= 1)
    <2>1. CASE Ollama
      BY <1>4, <2>1, NewPlansType
    <2>2. CASE ~Ollama
      <3>1. plan = state.plan /\ Len(plan) <= 1
        BY <1>4, <2>2 DEF EchoPlansOne
      <3>2. Len(plan) \in Nat
        BY <1>2, <3>1, PlanIsSeq
      <3> QED
        BY <1>1, <1>2, <2>2, <3>1, <3>2
    <2> QED
      BY <2>1, <2>2
  <1>5. ASSUME Answers(meter, Attempts), NEW plan, plan \in Plans, Len(plan) \in Nat \ {0},
               ~Ollama => Len(plan) <= 1,
               state' = Replanned(state, plan, n), node' = after_budgeted_step(state', "worker")
        PROVE  GraphInv'
    <2>2. /\ state' \in GraphState
          /\ state'.plan = plan /\ state'.task_index = 0 /\ state'.task_results = <<>>
          /\ state'.replans = n /\ state'.iterations = state.iterations /\ ~state'.stopped
      <3>1. /\ state' \in GraphState
            /\ state'.plan = plan /\ state'.task_index = 0 /\ state'.task_results = <<>>
            /\ state'.replans = n /\ Kept(state, state', {"iterations", "stopped"})
        <4>1. state \in GraphState /\ plan \in Plans /\ n \in Nat
          BY <1>1, <1>2, <1>5
        <4> HIDE DEF Kept
        <4> QED
          BY <1>5, <4>1, ReplannedState
      <3> QED
        BY <1>1, <3>1 DEF Kept
    <2>3. node' = "worker"
      BY <1>5, <2>2 DEF after_budgeted_step
    <2>4. meter' \in Meters /\ meter'.rounds = meter.rounds
      BY <1>1, <1>5, AnswersMeter
    <2>5. GraphTypeOK'
      BY <1>1, <2>2, <2>3, <2>4 DEF GraphTypeOK, Nodes
    <2>6. ResultsFollowPlan' /\ InTask' /\ EchoPlansOne' /\ OnlyVerifiedWorkCounts'
      <3>1. Len(state'.task_results) = 0
        BY <2>2
      <3>2. ResultsFollowPlan' /\ OnlyVerifiedWorkCounts'
        BY <1>5, <2>2, <2>3, <3>1 DEF ResultsFollowPlan, OnlyVerifiedWorkCounts
      <3>3. InTask'
        BY <1>5, <2>2 DEF InTask
      <3>4. EchoPlansOne'
        <4>1. Ollama' <=> Ollama
          BY <1>1 DEF Ollama
        <4>2. ~Ollama => Len(state'.plan) <= 1
          BY <1>5, <2>2
        <4> QED
          BY <4>1, <4>2 DEF EchoPlansOne
      <3> QED
        BY <3>2, <3>3, <3>4
    <2>7. DraftIsVerified' /\ StoppingIsFinal' /\ AnswerIsVerified' /\ FinalIsSynthesis'
      BY <2>2, <2>3 DEF DraftIsVerified, StoppingIsFinal, AnswerIsVerified, FinalIsSynthesis
    <2>8. EvidenceFirst'
      BY <1>2, <2>2 DEF EvidenceFirst
    <2>9. DraftsUseRounds' /\ WorkIsBounded'
      BY <1>1, <2>2, <2>3, <2>4, Counts DEF DraftsUseRounds, WorkIsBounded
    <2> QED
      BY <2>5, <2>6, <2>7, <2>8, <2>9
  <1>6. CASE Raises(meter, Attempts, {"budget", "invalid", "error"})
    BY <1>1, <1>6, RaisesInv
  <1> QED
    BY <1>3, <1>4, <1>5, <1>6 DEF Replan, n

\* Advance records a task after its draft has passed.
LEMMA AdvanceInv == GraphInv /\ Advance => GraphInv'
  <1> SUFFICES ASSUME GraphInv, Advance PROVE GraphInv'
    OBVIOUS
  <1> DEFINE a == Advanced(state)
             entry == [task |-> CurrentTask(state), worker_result |-> state.worker_result,
                       verification |-> state.verification]
             results == state.task_results
  <1>1. /\ node = "advance" /\ UNCHANGED <<settings, meter, resumes>>
        /\ state \in GraphState /\ meter \in Meters /\ ~state.stopped
        /\ state.task_index < Len(state.plan)
    BY AtWork DEF Advance, InTask
  <1>2. /\ a \in GraphState /\ a.task_index = state.task_index + 1
        /\ a.task_results = Append(results, entry)
        /\ a.plan = state.plan /\ a.researched = state.researched
        /\ a.iterations = state.iterations /\ a.replans = state.replans
        /\ ~a.stopped
    BY <1>1, AdvancedState DEF Kept
  <1>3. state' = IF a.task_index < Len(a.plan) THEN set_next_action(a) ELSE a
    BY DEF Advance
  <1> HIDE DEF a
  <1>4. /\ state' \in GraphState /\ state'.task_index = state.task_index + 1
        /\ state'.task_results = Append(results, entry)
        /\ state'.plan = state.plan /\ state'.iterations = state.iterations
        /\ state'.replans = state.replans /\ ~state'.stopped
    BY <1>2, <1>3, SetNextAction
  <1>5. /\ state.task_index \in Nat /\ Len(state.plan) \in Nat /\ results \in Seq(Entries)
        /\ Len(results) = state.task_index
    <2>1. state.task_index \in Nat /\ state.plan \in Plans /\ results \in Seq(Entries)
      BY <1>1 DEF GraphState
    <2> QED
      BY <2>1, PlanIsSeq DEF ResultsFollowPlan
  <1>6. \/ /\ node' = "finalize" /\ state'.task_index = Len(state'.plan)
           /\ state'.plan # <<>>
        \/ /\ node' \in {"research", "worker"} /\ state'.task_index < Len(state'.plan)
           /\ node' = "worker" /\ CurrentTask(state').evidence
                => CurrentTask(state').id \in state'.researched
    <2>1. node' = after_advance(state')
      BY DEF Advance
    <2>2. CASE a.task_index < Len(a.plan)
      <3>1. /\ state'.task_index < Len(state'.plan)
            /\ state'.next_action = IF CurrentTask(a).evidence
                                         /\ CurrentTask(a).id \notin a.researched
                                    THEN "research" ELSE "worker"
            /\ state'.researched = a.researched
            /\ CurrentTask(state') = CurrentTask(a)
        BY <1>2, <1>3, <2>2, SetNextAction DEF CurrentTask
      <3>2. node' = IF state'.next_action = "research" THEN "research" ELSE "worker"
        <4>1. ~(state'.task_index >= Len(state'.plan))
          BY <1>4, <1>5, <3>1
        <4> QED
          BY <1>4, <2>1, <4>1 DEF after_advance
      <3> QED
        BY <3>1, <3>2
    <2>3. CASE ~(a.task_index < Len(a.plan))
      <3>1. state'.task_index = Len(state'.plan) /\ Len(state'.plan) # 0
        BY <1>1, <1>2, <1>4, <1>5, <2>3
      <3>2. state'.task_index >= Len(state'.plan)
        BY <1>4, <1>5, <3>1
      <3>3. node' = "finalize"
        BY <1>4, <2>1, <3>2 DEF after_advance
      <3> QED
        BY <3>1, <3>3
    <2> QED
      BY <2>2, <2>3
  <1>7. GraphTypeOK'
    BY <1>1, <1>4, <1>6 DEF GraphTypeOK, Nodes
  <1>8. entry \in Entries /\ entry.task = state.plan[state.task_index + 1]
    <2>1. state.plan \in Seq(Task) /\ state.worker_result \in Results
          /\ state.verification \in Reports
      <3>1. state.plan \in Plans /\ state.worker_result \in Results
            /\ state.verification \in Reports
        BY <1>1 DEF GraphState
      <3> QED
        BY <3>1, PlanIsSeq
    <2>2. CurrentTask(state) \in Task
      <3>1. state.task_index + 1 \in 1..Len(state.plan)
        BY <1>1, <1>5
      <3> QED
        BY <2>1, <3>1 DEF CurrentTask
    <2> QED
      BY <2>1, <2>2 DEF Entries, CurrentTask
  <1>9. /\ Len(state'.task_results) = state'.task_index
        /\ \A i \in 1..Len(state'.task_results) :
              \/ i \in 1..Len(results) /\ state'.task_results[i] = results[i]
              \/ i = state.task_index + 1 /\ state'.task_results[i] = entry
    <2> HIDE DEF results, entry
    <2> QED
      BY <1>4, <1>5, <1>8
  <1>10. ResultsFollowPlan' /\ InTask' /\ EchoPlansOne'
    <2>1. \A i \in 1..Len(state'.task_results) : state'.task_results[i].task = state'.plan[i]
      BY <1>4, <1>8, <1>9 DEF ResultsFollowPlan
    <2>2. ResultsFollowPlan' /\ InTask'
      BY <1>4, <1>5, <1>6, <1>9, <2>1 DEF ResultsFollowPlan, InTask
    <2>3. EchoPlansOne'
      BY <1>1, <1>4 DEF EchoPlansOne, Ollama
    <2> QED
      BY <2>2, <2>3
  <1>11. OnlyVerifiedWorkCounts'
    <2>1. /\ entry.verification.verdict = "pass" /\ entry.verification.complete
          /\ entry.verification.grounded
          /\ entry.verification.of = entry.worker_result.draft
          /\ entry.worker_result.draft > 0
          /\ entry.worker_result.cites \subseteq {entry.task.id}
      BY <1>1 DEF DraftIsVerified
    <2> HIDE DEF entry, results
    <2> SUFFICES ASSUME NEW i \in 1..Len(state'.task_results)
                 PROVE  LET e == state'.task_results[i] IN
                        /\ e.verification.verdict = "pass" /\ e.verification.complete
                        /\ e.verification.grounded
                        /\ e.verification.of = e.worker_result.draft
                        /\ e.worker_result.draft > 0
                        /\ e.worker_result.cites \subseteq {e.task.id}
      BY DEF OnlyVerifiedWorkCounts
    <2>2. CASE i \in 1..Len(results) /\ state'.task_results[i] = results[i]
      BY <2>2 DEF OnlyVerifiedWorkCounts, results
    <2>3. CASE state'.task_results[i] = entry
      BY <2>1, <2>3
    <2> QED
      BY <1>9, <2>2, <2>3
  <1>12. DraftIsVerified' /\ StoppingIsFinal' /\ AnswerIsVerified' /\ FinalIsSynthesis'
    BY <1>4, <1>6 DEF DraftIsVerified, StoppingIsFinal, AnswerIsVerified, FinalIsSynthesis
  <1>13. EvidenceFirst'
    BY <1>6 DEF EvidenceFirst
  <1>14. DraftsUseRounds' /\ WorkIsBounded'
    <2>1. node' # "verify"
      BY <1>6
    <2> QED
      BY <1>1, <1>4, <2>1, Counts DEF DraftsUseRounds, WorkIsBounded
  <1> QED
    BY <1>7, <1>10, <1>11, <1>12, <1>13, <1>14

\* A step of the final nodes that leaves the plan and the work alone.
LEMMA FinalInv ==
    ASSUME GraphInv, state' \in GraphState, Kept(state, state', PlanFields \cup {"iterations"}),
           meter' \in Meters, UNCHANGED <<settings, resumes>>,
           node' \in {"verify_final", "revise_final", "terminate", "end"},
           node' \in {"verify_final", "revise_final"}
               => node \in {"finalize", "verify_final", "revise_final"},
           StoppingIsFinal', AnswerIsVerified', FinalIsSynthesis'
    PROVE  GraphInv'
  <1>1. /\ state'.plan = state.plan /\ state'.task_index = state.task_index
        /\ state'.task_results = state.task_results /\ state'.iterations = state.iterations
    BY DEF Kept, PlanFields
  <1> QED
    BY <1>1 DEF GraphTypeOK, Nodes, Ended, ResultsFollowPlan, InTask, EchoPlansOne, Ollama,
       OnlyVerifiedWorkCounts, DraftIsVerified, EvidenceFirst, WorkIsBounded, DraftsUseRounds

\* Finalize answers from recorded work only.
LEMMA FinalizeInv == GraphInv /\ Finalize => GraphInv'
  <1> SUFFICES ASSUME GraphInv, Finalize PROVE GraphInv'
    OBVIOUS
  <1>1. /\ node = "finalize" /\ UNCHANGED <<settings, resumes>> /\ node' = after_finalize(state')
        /\ state \in GraphState /\ meter \in Meters /\ ~state.stopped
    BY AtWork DEF Finalize
  <1>2. Kept(state, state', PlanFields \cup {"iterations", "stopped"})
            => Kept(state, state', PlanFields \cup {"iterations"}) /\ ~state'.stopped
    BY <1>1 DEF Kept
  <1>3. ASSUME state' = Finalized(state, "synthesis", FinalVerification), meter' \in Meters
        PROVE  GraphInv'
    <2>1. /\ state' \in GraphState /\ state'.response.kind = "synthesis"
          /\ state'.final_required = FinalVerification
          /\ Kept(state, state', PlanFields \cup {"iterations"}) /\ ~state'.stopped
      BY <1>1, <1>2, <1>3, GraphAssumption, FinalizedState
    <2>2. node' = IF FinalVerification THEN "verify_final" ELSE "end"
      BY <1>1, <2>1 DEF after_finalize
    <2>3. StoppingIsFinal' /\ AnswerIsVerified' /\ FinalIsSynthesis'
      BY <2>1, <2>2 DEF StoppingIsFinal, AnswerIsVerified, FinalIsSynthesis
    <2> QED
      BY <1>1, <1>3, <2>1, <2>2, <2>3, FinalInv
  <1>4. ASSUME state' = Terminated(Stopped(state)), meter' \in Meters
        PROVE  GraphInv'
    <2>1. Stopped(state) \in GraphState /\ Stopped(state).stopped
          /\ Kept(state, Stopped(state), PlanFields \cup {"iterations"})
      BY <1>1, StoppedState
    <2>2. /\ state' \in GraphState
          /\ Kept(Stopped(state), state', PlanFields \cup {"iterations", "stopped"})
      BY <1>4, <2>1, TerminatedState
    <2>3. state'.stopped /\ Kept(state, state', PlanFields \cup {"iterations"})
      BY <2>1, <2>2 DEF Kept
    <2>4. node' = "terminate"
      BY <1>1, <2>3 DEF after_finalize
    <2> QED
      BY <1>1, <1>4, <2>2, <2>3, <2>4, StopInv
  <1>5. ASSUME ~(Ollama /\ Len(state.task_results) > 1),
               state' = Finalized(state, "answer", FALSE), UNCHANGED meter
        PROVE  GraphInv'
    <2>1. /\ state' \in GraphState /\ state'.response.kind = "answer"
          /\ ~state'.final_required
          /\ Kept(state, state', PlanFields \cup {"iterations"}) /\ ~state'.stopped
      BY <1>1, <1>2, <1>5, FinalizedState
    <2>2. node' = "end"
      BY <1>1, <2>1 DEF after_finalize
    <2>3. Len(state'.task_results) = 1
      <3>1. /\ Len(state.task_results) = Len(state.plan) /\ state.plan # <<>>
        BY <1>1 DEF ResultsFollowPlan
      <3>2. state.plan \in Seq(Task) /\ Len(state.plan) \in Nat
        <4>1. state.plan \in Plans
          BY <1>1 DEF GraphState
        <4> QED
          BY <4>1, PlanIsSeq
      <3>3. Len(state.plan) # 0
        BY <3>1, <3>2
      <3>4. Len(state.plan) <= 1
        BY <1>5, <3>1, <3>2 DEF EchoPlansOne
      <3>5. state'.task_results = state.task_results
        BY <2>1 DEF Kept, PlanFields
      <3>6. Len(state.plan) = 1
        <4>1. \A k \in Nat : k # 0 /\ k <= 1 => k = 1
          OBVIOUS
        <4> QED
          BY <3>2, <3>3, <3>4, <4>1, Zenon
      <3> QED
        BY <3>1, <3>5, <3>6, Zenon
    <2>4. StoppingIsFinal' /\ AnswerIsVerified' /\ FinalIsSynthesis'
      BY <2>1, <2>2, <2>3 DEF StoppingIsFinal, AnswerIsVerified, FinalIsSynthesis
    <2> QED
      BY <1>1, <1>5, <2>1, <2>2, <2>4, FinalInv
  <1> QED
    BY <1>1, <1>3, <1>4, <1>5, AnswersMeter, RaisesMeter DEF Finalize

\* The final verification judges the present revision.
LEMMA VerifyFinalInv == GraphInv /\ VerifyFinal => GraphInv'
  <1> SUFFICES ASSUME GraphInv, VerifyFinal PROVE GraphInv'
    OBVIOUS
  <1>1. /\ node = "verify_final" /\ UNCHANGED <<settings, resumes>>
        /\ state \in GraphState /\ meter \in Meters /\ state.response.kind = "synthesis"
    BY DEF VerifyFinal, GraphTypeOK, FinalIsSynthesis
  <1>2. ASSUME state' = Stopped(state), meter' \in Meters,
               node' = after_final_verification(state')
        PROVE  GraphInv'
    <2>1. node' = "terminate"
      BY <1>1, <1>2, StoppedState DEF after_final_verification
    <2> QED
      BY <1>1, <1>2, <2>1, StoppedInv
  <1>3. ASSUME Answers(meter, Attempts), NEW j \in FinalJudgements,
               state' = FinallyJudged(state, j[1], j[2]),
               node' = after_final_verification(state')
        PROVE  GraphInv'
    <2>1. /\ state' \in GraphState
          /\ state'.final_verification =
                [verdict |-> j[1], complete |-> j[2], of |-> state.response.rev]
          /\ Kept(state, state', PlanFields \cup {"iterations", "response", "final_revision_rounds"})
      BY <1>1, <1>3, FinallyJudgedState
    <2>2. Kept(state, state', PlanFields \cup {"iterations"}) /\ state'.response = state.response
      BY <2>1 DEF Kept
    <2>3. /\ state'.final_verification.verdict = j[1] /\ state'.final_verification.complete = j[2]
          /\ state'.final_verification.of = state.response.rev
      BY <2>1
    <2>4. /\ node' \in {"terminate", "end", "revise_final"}
          /\ state'.stopped => node' = "terminate"
          /\ node' = "end" => /\ state'.final_verification.verdict = "pass"
                              /\ state'.final_verification.complete
      BY <1>3 DEF after_final_verification
    <2>5. StoppingIsFinal' /\ AnswerIsVerified' /\ FinalIsSynthesis'
      BY <1>1, <2>2, <2>3, <2>4 DEF StoppingIsFinal, AnswerIsVerified, FinalIsSynthesis
    <2>6. meter' \in Meters
      BY <1>1, <1>3, AnswersMeter
    <2> QED
      BY <1>1, <2>1, <2>2, <2>4, <2>5, <2>6, FinalInv
  <1>4. CASE Raises(meter, Attempts, {"budget", "error"})
    BY <1>1, <1>4, RaisesInv
  <1> QED
    BY <1>1, <1>2, <1>3, <1>4, RaisesMeter DEF VerifyFinal

\* A revision has to be judged again.
LEMMA ReviseFinalInv == GraphInv /\ ReviseFinal => GraphInv'
  <1> SUFFICES ASSUME GraphInv, ReviseFinal PROVE GraphInv'
    OBVIOUS
  <1> DEFINE n == state.final_revision_rounds + 1
             response == [kind |-> "synthesis", rev |-> n]
  <1>1. /\ node = "revise_final" /\ node' = "verify_final" /\ UNCHANGED <<settings, resumes>>
        /\ state \in GraphState /\ meter \in Meters /\ state.response.kind = "synthesis"
    BY DEF ReviseFinal, GraphTypeOK, FinalIsSynthesis
  <1>2. n \in Nat
    <2>1. state.final_revision_rounds \in Nat
      BY <1>1 DEF GraphState
    <2> QED
      BY <2>1
  <1>3. response \in Responses /\ response.kind = "synthesis" /\ NoFinalReport \in FinalReports
    BY <1>2 DEF Responses, NoFinalReport, FinalReports
  <1>4. \/ state' = Stopped(state)
        \/ state' = [state EXCEPT !.response = response, !.final_revision_rounds = n,
                                  !.final_verification = NoFinalReport]
        \/ state' = [state EXCEPT !.stopped = TRUE, !.final_revision_rounds = n]
    BY DEF ReviseFinal
  <1> HIDE DEF n, response
  <1>5. /\ state' \in GraphState /\ state'.response.kind = "synthesis"
        /\ Kept(state, state', PlanFields \cup {"iterations"})
    <2>1. CASE state' = Stopped(state)
      BY <1>1, <2>1, StoppedState
    <2>2. CASE state' = [state EXCEPT !.response = response, !.final_revision_rounds = n,
                                      !.final_verification = NoFinalReport]
      BY <1>1, <1>2, <1>3, <2>2 DEF GraphState, Kept, PlanFields
    <2>3. CASE state' = [state EXCEPT !.stopped = TRUE, !.final_revision_rounds = n]
      BY <1>1, <1>2, <2>3 DEF GraphState, Kept, PlanFields
    <2> QED
      BY <1>4, <2>1, <2>2, <2>3
  <1>6. meter' \in Meters
    BY <1>1, AnswersMeter, RaisesMeter DEF ReviseFinal
  <1>7. StoppingIsFinal' /\ AnswerIsVerified' /\ FinalIsSynthesis'
    BY <1>1, <1>5 DEF StoppingIsFinal, AnswerIsVerified, FinalIsSynthesis
  <1> QED
    BY <1>1, <1>5, <1>6, <1>7, FinalInv

\* Termination never claims an answer.
LEMMA TerminateInv == GraphInv /\ Terminate => GraphInv'
  <1> SUFFICES ASSUME GraphInv, Terminate PROVE GraphInv'
    OBVIOUS
  <1>1. /\ node' = "end" /\ UNCHANGED <<settings, meter, resumes>>
        /\ state \in GraphState /\ meter \in Meters /\ state' = Terminated(state)
    BY DEF Terminate, GraphTypeOK
  <1>2. /\ state' \in GraphState /\ state'.response.kind \in {"partial", "nested"}
        /\ Kept(state, state', PlanFields \cup {"iterations"})
    BY <1>1, TerminatedState DEF Kept
  <1>3. StoppingIsFinal' /\ AnswerIsVerified' /\ FinalIsSynthesis'
    BY <1>1, <1>2 DEF StoppingIsFinal, AnswerIsVerified, FinalIsSynthesis, Ended
  <1> QED
    BY <1>1, <1>2, <1>3, FinalInv

\* The deadline and a resumption change only the budget.
LEMMA DeadlineInv == GraphInv /\ Deadline => GraphInv'
  <1> SUFFICES ASSUME GraphInv, Deadline PROVE GraphInv'
    OBVIOUS
  <1>1. UNCHANGED <<settings, node, state, resumes>>
    BY DEF Deadline
  <1>2. meter' \in Meters /\ meter'.rounds = meter.rounds
    BY DEF Deadline, GraphTypeOK, Meters
  <1>3. GraphTypeOK'
    BY <1>1, <1>2 DEF GraphTypeOK
  <1>4. DraftsUseRounds' /\ WorkIsBounded'
    BY <1>1, <1>2 DEF DraftsUseRounds, WorkIsBounded
  <1> QED
    BY <1>1, <1>3, <1>4 DEF ResultsFollowPlan, InTask, EchoPlansOne, Ollama,
       OnlyVerifiedWorkCounts, DraftIsVerified, StoppingIsFinal, AnswerIsVerified,
       FinalIsSynthesis, EvidenceFirst, CurrentTask

\* A resumption has a fresh budget and the checkpointed state.
LEMMA ResumeInv == GraphInv /\ Resume => GraphInv'
  <1> SUFFICES ASSUME GraphInv, Resume PROVE GraphInv'
    OBVIOUS
  <1>1. UNCHANGED <<settings, node, state>> /\ resumes' = resumes + 1 /\ resumes < MaxResumes
    BY DEF Resume
  <1>2. meter' \in Meters /\ meter'.rounds = 0
    BY GraphAssumption DEF Resume, FreshMeter, Meters
  <1>3. /\ resumes' \in 0..MaxResumes /\ resumes' \in Nat
        /\ resumes' * MaxVerifierRounds = resumes * MaxVerifierRounds + MaxVerifierRounds
        /\ (resumes' + 1) * MaxVerifierRounds
              = resumes * MaxVerifierRounds + 2 * MaxVerifierRounds
    <2>1. resumes \in Nat /\ MaxResumes \in Nat /\ MaxVerifierRounds \in Nat
      BY GraphAssumption DEF GraphTypeOK
    <2>2. resumes' \in 0..MaxResumes /\ resumes' \in Nat
      BY <1>1, <2>1
    <2>3. /\ resumes * MaxVerifierRounds \in Nat
          /\ (resumes + 1) * MaxVerifierRounds = resumes * MaxVerifierRounds + MaxVerifierRounds
          /\ (resumes' + 1) * MaxVerifierRounds = resumes' * MaxVerifierRounds + MaxVerifierRounds
      BY <2>1, <2>2, Product
    <2>4. resumes' * MaxVerifierRounds = resumes * MaxVerifierRounds + MaxVerifierRounds
      BY <1>1, <2>3
    <2>5. (resumes' + 1) * MaxVerifierRounds
              = resumes * MaxVerifierRounds + MaxVerifierRounds + MaxVerifierRounds
      BY <2>3, <2>4
    <2> DEFINE past == resumes * MaxVerifierRounds
    <2>6. past + MaxVerifierRounds + MaxVerifierRounds = past + 2 * MaxVerifierRounds
      <3>1. past \in Nat
        BY <2>3
      <3> HIDE DEF past
      <3> QED
        BY <2>1, <3>1
    <2> QED
      BY <2>2, <2>4, <2>5, <2>6, Zenon
  <1>4. GraphTypeOK'
    BY <1>1, <1>2, <1>3 DEF GraphTypeOK
  <1>5. DraftsUseRounds' /\ WorkIsBounded'
    <2> DEFINE past == resumes * MaxVerifierRounds
    <2>1. /\ past \in Nat /\ (resumes + 1) * MaxVerifierRounds = past + MaxVerifierRounds
          /\ meter.rounds \in Nat /\ MaxVerifierRounds \in Nat /\ state.iterations \in Nat
      BY Counts
    <2>2. /\ resumes' * MaxVerifierRounds = past + MaxVerifierRounds
          /\ (resumes' + 1) * MaxVerifierRounds = past + 2 * MaxVerifierRounds
      BY <1>3
    <2> HIDE DEF past
    <2>3. WorkIsBounded'
      BY <1>1, <2>1, <2>2 DEF WorkIsBounded
    <2>4. DraftsUseRounds'
      <3>1. CASE node \in Working \cup {"plan"}
        <4>1. meter.rounds <= MaxVerifierRounds
              /\ state.iterations <= past + meter.rounds + (IF node = "verify" THEN 1 ELSE 0)
          BY <3>1 DEF DraftsUseRounds, past
        <4>2. state.iterations <= past + MaxVerifierRounds + 0 + (IF node = "verify" THEN 1 ELSE 0)
          BY <2>1, <4>1
        <4> QED
          BY <1>1, <1>2, <2>1, <2>2, <4>2 DEF DraftsUseRounds
      <3>2. CASE node \notin Working \cup {"plan"}
        BY <1>1, <3>2 DEF DraftsUseRounds
      <3> QED
        BY <3>1, <3>2
    <2> QED
      BY <2>3, <2>4
  <1> QED
    BY <1>1, <1>4, <1>5 DEF ResultsFollowPlan, InTask, EchoPlansOne, Ollama,
       OnlyVerifiedWorkCounts, DraftIsVerified, StoppingIsFinal, AnswerIsVerified,
       FinalIsSynthesis, EvidenceFirst, CurrentTask

-----------------------------------------------------------------------------
(* Theorems *)

\* Every step keeps the invariant.
LEMMA GraphNextInv == GraphInv /\ [GraphNext]_graphVars => GraphInv'
  <1> SUFFICES ASSUME GraphInv, [GraphNext]_graphVars PROVE GraphInv'
    OBVIOUS
  <1>1. CASE GraphStep
    BY <1>1, PlanInv, ResearchInv, WorkerInv, VerifyInv, ReplanInv, AdvanceInv, FinalizeInv,
       VerifyFinalInv, ReviseFinalInv, TerminateInv DEF GraphStep
  <1>2. CASE Deadline \/ Resume
    BY <1>2, DeadlineInv, ResumeInv
  <1>3. CASE UNCHANGED graphVars
    <2>1. UNCHANGED <<settings, node, state, meter, resumes>>
      BY <1>3 DEF graphVars
    <2>2. GraphTypeOK' /\ WorkIsBounded' /\ DraftsUseRounds'
      BY <2>1 DEF GraphTypeOK, WorkIsBounded, DraftsUseRounds
    <2> QED
      BY <2>1, <2>2 DEF ResultsFollowPlan, InTask, EchoPlansOne, Ollama,
         OnlyVerifiedWorkCounts, DraftIsVerified, StoppingIsFinal, AnswerIsVerified,
         FinalIsSynthesis, EvidenceFirst, CurrentTask
  <1> QED
    BY <1>1, <1>2, <1>3 DEF GraphNext

\* The inductive invariant of the graph.
LEMMA GraphInvariant == GraphSpec => []GraphInv
  <1> HIDE DEF GraphInv
  <1> QED
    BY GraphInitInv, GraphNextInv, PTL DEF GraphSpec

\* The graph's state stays well formed: also the budget, whose attempts never
\* pass their limits and whose verifier rounds pass theirs by at most the one
\* that is refused (ExecutionBudget).
THEOREM GraphStateIsWellFormed == GraphSpec => []GraphTypeOK
  BY GraphInvariant, PTL

\* For every plan the planner may give and every replan, the results are those
\* of the plan's first tasks, in order, and nothing is finalized before all of
\* them are there (_plan, _replan, _advance).
THEOREM ResultsAreThePlans == GraphSpec => []ResultsFollowPlan
  BY GraphInvariant, PTL

\* Whatever the models claim, a result is recorded only with a passing report
\* about that draft, whose claims cite evidence of its own task (_verify,
\* ground_claims, _advance).
THEOREM RecordedWorkIsVerified == GraphSpec => []OnlyVerifiedWorkCounts
  BY GraphInvariant, PTL

\* A stopped run does no more work, and advance is never stopped, for which it
\* has no edge (app/graphs/routes.py).
THEOREM StoppedRunsStay == GraphSpec => []StoppingIsFinal
  BY GraphInvariant, PTL

\* An answer that leaves the graph is the only task's result, a synthesis whose
\* last revision passed the final verification, or a stop notice (_finalize,
\* _verify_final, _revise_final).
THEOREM AnswersAreVerified == GraphSpec => []AnswerIsVerified
  BY GraphInvariant, PTL

\* Until a replan no task that needs evidence is worked on before its research
\* succeeded (_set_next_action, after_plan, after_advance).
THEOREM EvidenceComesFirst == GraphSpec => []EvidenceFirst
  BY GraphInvariant, PTL

\* The verifier rounds bound the worker's executions for any number of tasks,
\* replans and resumptions (ExecutionBudget.check, _verify).
THEOREM DraftsAreBounded == GraphSpec => []WorkIsBounded
  BY GraphInvariant, PTL

-----------------------------------------------------------------------------
(* Every step brings the end nearer *)

\* A final revision is asked for only while there are rounds left.
FinalRounds ==
    /\ node = "revise_final" => state.final_revision_rounds < MaxFinalRevisions
    /\ node = "verify_final" /\ ~state.stopped
           => state.final_revision_rounds <= MaxFinalRevisions

\* The nodes of the cycle and how far they are from the next round.
LEMMA CycleValues ==
    /\ DOMAIN Cycle = Working \cup {"plan"}
    /\ Cycle["plan"] = 5 /\ Cycle["advance"] = 4 /\ Cycle["replan"] = 4
    /\ Cycle["research"] = 3 /\ Cycle["worker"] = 2 /\ Cycle["revise"] = 2
    /\ Cycle["verify"] = 1
  BY DEF Cycle

\* How far a node of the cycle is from the end, in the rounds left to it.
LEMMA CycleDistance ==
    ASSUME GraphInv, node \in Working \cup {"plan"}
    PROVE  /\ MaxVerifierRounds + 2 - meter.rounds \in 2..MaxVerifierRounds + 2
           /\ Distance = 3 * MaxFinalRevisions + 5 * (MaxVerifierRounds + 2 - meter.rounds)
                             + Cycle[node]
  <1>1. meter.rounds <= MaxVerifierRounds
    BY DEF DraftsUseRounds
  <1> QED
    BY <1>1, Counts, CycleValues DEF Distance

\* The distance after a step into the cycle of the tasks.
LEMMA CycleDistanceNext ==
    ASSUME node' \in Working \cup {"plan"}
    PROVE  Distance' = 3 * MaxFinalRevisions + 5 * (MaxVerifierRounds + 2 - meter'.rounds)
                           + Cycle[node']
  BY CycleValues DEF Distance

\* The distance after a step into the final nodes.
LEMMA FinalDistanceNext ==
    /\ node' \in Ended => Distance' = 0
    /\ node' = "terminate" => Distance' = 1
    /\ node' = "finalize" => Distance' = 3 * MaxFinalRevisions + 4
    /\ node' = "verify_final" /\ state'.stopped => Distance' = 2
    /\ node' = "verify_final" /\ ~state'.stopped =>
          Distance' = 3 * (MaxFinalRevisions - state'.final_revision_rounds) + 3
    /\ node' = "revise_final" =>
          Distance' = 3 * (MaxFinalRevisions - state'.final_revision_rounds) + 2
  BY CycleValues DEF Distance, FinalDistance, Ended

\* The distance at the final nodes.
LEMMA FinalDistanceNow ==
    /\ node = "terminate" => Distance = 1
    /\ node = "finalize" => Distance = 3 * MaxFinalRevisions + 4
    /\ node = "verify_final" /\ state.stopped => Distance = 2
    /\ node = "verify_final" /\ ~state.stopped =>
          Distance = 3 * (MaxFinalRevisions - state.final_revision_rounds) + 3
    /\ node = "revise_final" =>
          Distance = 3 * (MaxFinalRevisions - state.final_revision_rounds) + 2
  BY CycleValues DEF Distance, FinalDistance

\* A step within the cycle that is not a verification uses up the cycle.
LEMMA CycleOnward ==
    ASSUME GraphInv, node \in Working \cup {"plan"},
           \/ node' \in {"terminate", "finalize"} \cup Ended
           \/ /\ node' \in Working \cup {"plan"} /\ meter'.rounds = meter.rounds
              /\ Cycle[node'] < Cycle[node]
           \/ /\ node = "verify" /\ node' \in Working /\ meter'.rounds = meter.rounds + 1
    PROVE  Distance' < Distance
  <1> DEFINE k == MaxVerifierRounds + 2 - meter.rounds
             r == 3 * MaxFinalRevisions
  <1>1. /\ k \in 2..MaxVerifierRounds + 2 /\ Distance = r + 5 * k + Cycle[node]
        /\ r \in Nat /\ MaxVerifierRounds \in Nat /\ meter.rounds \in Nat
    BY CycleDistance, Counts, GraphAssumption
  <1>2. Cycle[node] \in 1..5 /\ (node' \in Working \cup {"plan"} => Cycle[node'] \in 1..5)
    BY CycleValues
  <1>3. CASE node' \in {"terminate", "finalize"} \cup Ended
    <2>1. Distance' <= r + 4
      BY <1>1, <1>3, FinalDistanceNext
    <2> HIDE DEF k, r
    <2>2. Distance > r + 5
      BY <1>1, <1>2
    <2>3. Distance' \in Nat
      <3> USE DEF r
      <3> QED
        BY <1>1, <1>3, FinalDistanceNext
    <2>4. Distance \in Nat
      BY <1>1, <1>2
    <2> QED
      BY <1>1, <2>1, <2>2, <2>3, <2>4
  <1>4. CASE /\ node' \in Working \cup {"plan"} /\ meter'.rounds = meter.rounds
             /\ Cycle[node'] < Cycle[node]
    <2>1. Distance' = r + 5 * k + Cycle[node']
      BY <1>4, CycleDistanceNext
    <2> HIDE DEF k, r
    <2> QED
      BY <1>1, <1>2, <1>4, <2>1
  <1>5. CASE node = "verify" /\ node' \in Working /\ meter'.rounds = meter.rounds + 1
    <2>1. Distance' = r + 5 * (k - 1) + Cycle[node'] /\ Cycle[node'] <= 4 /\ Cycle[node] = 1
      <3>1. MaxVerifierRounds + 2 - meter'.rounds = k - 1
        BY <1>1, <1>5
      <3>2. Distance' = r + 5 * (k - 1) + Cycle[node']
        BY <1>5, <3>1, CycleDistanceNext
      <3>3. Cycle[node'] <= 4 /\ Cycle[node] = 1
        BY <1>5, CycleValues
      <3> QED
        BY <3>2, <3>3
    <2> HIDE DEF k, r
    <2> QED
      BY <1>1, <1>2, <1>5, <2>1
  <1> QED
    BY <1>3, <1>4, <1>5

\* Where the nodes before the verdict lead.
LEMMA BeforeVerdictOnward ==
    ASSUME GraphInv, Plan \/ Research \/ Worker \/ Revise \/ Replan
    PROVE  Distance' < Distance
  <1> USE CycleValues
  <1>1. /\ state \in GraphState /\ meter \in Meters /\ ~state.stopped
        /\ node \in Working \cup {"plan"}
    BY AtWork DEF Plan, Research, Worker, Revise, Replan
  <1>2. ASSUME node' \in {"terminate", "raised"} PROVE Distance' < Distance
    BY <1>1, <1>2, CycleOnward DEF Ended
  <1>3. CASE Plan
    <2>1. \/ node' \in {"terminate", "raised"}
          \/ node' \in {"research", "worker"} /\ Answers(meter, Attempts)
      BY <1>1, <1>3, StoppedState DEF Plan, Raises, after_plan
    <2> QED
      BY <1>1, <1>2, <1>3, <2>1, AnswersMeter, CycleOnward DEF Plan
  <1>4. CASE Research
    <2>1. \/ node' \in {"terminate", "raised"}
          \/ node' = "worker" /\ meter'.rounds = meter.rounds
      <3>1. node' \in {"terminate", "raised", "worker"}
        BY <1>4 DEF Research, after_budgeted_step
      <3>2. node' = "raised" \/ meter'.rounds = meter.rounds
        BY <1>1, <1>4 DEF Research, Meters
      <3> QED
        BY <3>1, <3>2
    <2>2. node = "research"
      BY <1>4 DEF Research
    <2>3. CASE node' = "worker" /\ meter'.rounds = meter.rounds
      BY <2>2, <2>3, CycleOnward
    <2> QED
      BY <1>2, <2>1, <2>3
  <1>5. CASE Worker \/ Revise
    <2>1. \/ node' \in {"terminate", "raised"}
          \/ node' = "verify" /\ Answers(meter, Attempts)
      BY <1>1, <1>5, StoppedState DEF Worker, Revise, Raises, after_budgeted_step
    <2> QED
      BY <1>1, <1>2, <1>5, <2>1, AnswersMeter, CycleOnward DEF Worker, Revise
  <1>6. CASE Replan
    <2>1. \/ node' \in {"terminate", "raised"}
          \/ node' = "worker" /\ meter' \in Meters /\ meter'.rounds = meter.rounds
      <3>1. node' \in {"terminate", "raised", "worker"}
        BY <1>6 DEF Replan, Raises, after_budgeted_step
      <3>2. node' = "raised" \/ (meter' \in Meters /\ meter'.rounds = meter.rounds)
        BY <1>1, <1>6, AnswersMeter DEF Replan, Raises
      <3> QED
        BY <3>1, <3>2
    <2> QED
      BY <1>1, <1>2, <1>6, <2>1, CycleOnward DEF Replan
  <1> QED
    BY <1>3, <1>4, <1>5, <1>6

\* A verification uses up a round, whatever its verdict.
LEMMA VerifyOnward ==
    ASSUME GraphInv, Verify
    PROVE  Distance' < Distance
  <1> DEFINE m == CountRound(meter)
  <1>1. /\ state \in GraphState /\ meter \in Meters /\ ~state.stopped /\ node = "verify"
    BY AtWork DEF Verify
  <1>2. m \in Meters /\ m.rounds = meter.rounds + 1
    <2>1. meter.rounds + 1 \in 0..MaxVerifierRounds + 1
      BY <1>1, Counts DEF DraftsUseRounds
    <2> QED
      BY <1>1, <2>1 DEF CountRound, Meters
  <1>3. \/ node' = "raised"
        \/ state' = Unverified(state) /\ node' = after_verification(state')
        \/ /\ Answers(m, Attempts) /\ node' = after_verification(state')
           /\ \E j \in Judgements :
                 state' = [state EXCEPT !.verification = Report(state, j[1], j[2])]
    BY DEF Verify, Raises
  <1> HIDE DEF m
  <1>4. GraphInv'
    BY VerifyInv
  <1>5. state' \in GraphState /\ (node' # "raised" => node' = after_verification(state'))
    BY <1>3, <1>4 DEF GraphTypeOK
  <1>6. node' \in {"raised", "terminate", "advance", "revise", "research", "replan", "pass"}
    BY <1>5 DEF after_verification, GraphState, Reports, Verdicts
  <1>7. node' # "pass"
    BY <1>4 DEF GraphTypeOK, Nodes, Ended
  <1>8. CASE node' \in {"raised", "terminate"}
    BY <1>1, <1>8, CycleOnward DEF Ended
  <1>9. CASE node' \in {"advance", "revise", "research", "replan"}
    <2>1. ~(state' = Unverified(state) /\ node' = after_verification(state'))
      BY <1>1, <1>9, UnverifiedState DEF after_verification
    <2>2. meter'.rounds = meter.rounds + 1
      BY <1>2, <1>3, <1>9, <2>1, AnswersMeter
    <2> QED
      BY <1>1, <1>9, <2>2, CycleOnward
  <1> QED
    BY <1>6, <1>7, <1>8, <1>9

\* Advance comes nearer to the end.
LEMMA AdvanceOnward ==
    ASSUME GraphInv, Advance
    PROVE  Distance' < Distance
  <1>1. node = "advance" /\ meter' = meter
    BY DEF Advance
  <1>2. node' \in {"raised", "finalize", "research", "worker"}
    BY DEF Advance, after_advance
  <1> QED
    BY <1>1, <1>2, CycleValues, CycleOnward DEF Ended

\* Each final revision uses up one of its rounds, and a stop leads to the end.
LEMMA FinalOnward ==
    ASSUME GraphInv, FinalRounds, Finalize \/ VerifyFinal \/ ReviseFinal \/ Terminate
    PROVE  Distance' < Distance /\ FinalRounds'
  <1> DEFINE f == state.final_revision_rounds
             left == MaxFinalRevisions - f
  <1>1. /\ state \in GraphState /\ meter \in Meters /\ MaxFinalRevisions \in Nat /\ f \in Nat
    BY GraphAssumption DEF GraphTypeOK, GraphState
  <1>2. CASE Finalize
    <2>1. node = "finalize" /\ ~state.stopped /\ node' = after_finalize(state')
      BY <1>2, AtWork DEF Finalize
    <2>2. node' # "verify_final" \/ (~state'.stopped /\ state'.final_revision_rounds = 0)
      <3>1. CASE state' = Finalized(state, "synthesis", FinalVerification)
                 \/ state' = Finalized(state, "answer", FALSE)
        BY <1>1, <2>1, <3>1 DEF Finalized, GraphState
      <3>2. CASE state' = Terminated(Stopped(state))
        <4>1. state'.stopped
          BY <1>1, <3>2 DEF Terminated, Stopped, GraphState
        <4> QED
          BY <2>1, <4>1 DEF after_finalize
      <3> QED
        BY <1>2, <3>1, <3>2 DEF Finalize
    <2>3. node' \in {"terminate", "verify_final", "end"}
      BY <2>1 DEF after_finalize
    <2> QED
      BY <1>1, <2>1, <2>2, <2>3, FinalDistanceNext, FinalDistanceNow DEF FinalRounds, Ended
  <1>3. CASE VerifyFinal
    <2>1. node = "verify_final"
      BY <1>3 DEF VerifyFinal
    <2>2. \/ node' \in {"raised", "terminate", "end"}
          \/ /\ node' = "revise_final" /\ ~state.stopped
             /\ state'.final_revision_rounds = f /\ f < MaxFinalRevisions
      <3>1. CASE node' = after_final_verification(state') /\ state' = Stopped(state)
        BY <1>1, <3>1, StoppedState DEF after_final_verification
      <3>2. ASSUME NEW j \in FinalJudgements, state' = FinallyJudged(state, j[1], j[2]),
                   node' = after_final_verification(state')
            PROVE  \/ node' \in {"raised", "terminate", "end"}
                   \/ /\ node' = "revise_final" /\ ~state.stopped
                      /\ state'.final_revision_rounds = f /\ f < MaxFinalRevisions
        <4>1. /\ state.stopped => state'.stopped
              /\ state'.final_revision_rounds = f
          BY <1>1, <3>2, FinallyJudgedState DEF Kept
        <4> QED
          BY <3>2, <4>1 DEF after_final_verification
      <3>3. CASE node' = "raised"
        BY <3>3
      <3> QED
        BY <1>3, <3>1, <3>2, <3>3 DEF VerifyFinal, Raises
    <2>3. Distance \in Nat /\ Distance > 1
      <3>1. CASE state.stopped
        BY <2>1, <3>1, FinalDistanceNow
      <3>2. CASE ~state.stopped
        BY <1>1, <2>1, <3>2, FinalDistanceNow DEF FinalRounds
      <3> QED
        BY <3>1, <3>2
    <2>4. CASE node' \in {"raised", "terminate", "end"}
      BY <2>3, <2>4, FinalDistanceNext DEF FinalRounds, Ended
    <2>5. CASE /\ node' = "revise_final" /\ ~state.stopped
               /\ state'.final_revision_rounds = f /\ f < MaxFinalRevisions
      BY <1>1, <2>1, <2>5, FinalDistanceNext, FinalDistanceNow DEF FinalRounds
    <2> QED
      BY <2>2, <2>4, <2>5
  <1>4. CASE ReviseFinal
    <2>1. node = "revise_final" /\ node' = "verify_final" /\ f < MaxFinalRevisions
      BY <1>4 DEF ReviseFinal, FinalRounds
    <2>2. state'.stopped \/ state'.final_revision_rounds = f + 1
      <3>1. \/ state' = Stopped(state)
            \/ state' = [state EXCEPT !.response = [kind |-> "synthesis", rev |-> f + 1],
                                      !.final_revision_rounds = f + 1,
                                      !.final_verification = NoFinalReport]
            \/ state' = [state EXCEPT !.stopped = TRUE, !.final_revision_rounds = f + 1]
        BY <1>4 DEF ReviseFinal
      <3> QED
        BY <1>1, <3>1 DEF Stopped, GraphState
    <2>3. Distance = 3 * left + 2
      BY <2>1, FinalDistanceNow
    <2>4. left \in Nat /\ left > 0
      BY <1>1, <2>1
    <2>5. CASE state'.stopped
      BY <2>1, <2>3, <2>4, <2>5, FinalDistanceNext DEF FinalRounds
    <2>6. CASE ~state'.stopped
      <3>1. Distance' = 3 * (left - 1) + 3 /\ f + 1 <= MaxFinalRevisions
        BY <1>1, <2>1, <2>2, <2>6, FinalDistanceNext
      <3> HIDE DEF left
      <3>2. Distance' < Distance
        BY <2>3, <2>4, <3>1
      <3> QED
        BY <2>1, <2>2, <2>6, <3>1, <3>2 DEF FinalRounds
    <2> QED
      BY <2>5, <2>6
  <1>5. CASE Terminate
    BY <1>5, FinalDistanceNext, FinalDistanceNow DEF Terminate, FinalRounds, Ended
  <1> QED
    BY <1>2, <1>3, <1>4, <1>5

\* Every step of a node comes nearer to the end.
LEMMA GraphStepOnward == GraphInv /\ FinalRounds /\ GraphStep => Distance' < Distance /\ FinalRounds'
  <1> SUFFICES ASSUME GraphInv, FinalRounds, GraphStep PROVE Distance' < Distance /\ FinalRounds'
    OBVIOUS
  <1>1. CASE Finalize \/ VerifyFinal \/ ReviseFinal \/ Terminate
    BY <1>1, FinalOnward
  <1>2. CASE Plan \/ Research \/ Worker \/ Verify \/ Revise \/ Replan \/ Advance
    <2>1. Distance' < Distance
      BY <1>2, BeforeVerdictOnward, VerifyOnward, AdvanceOnward
    <2>2. node' \notin {"verify_final", "revise_final"}
      <3>1. CASE Plan \/ Research \/ Worker \/ Revise \/ Replan \/ Advance
        BY <3>1 DEF Plan, Research, Worker, Revise, Replan, Advance, Raises, after_plan,
                    after_budgeted_step, after_advance
      <3>2. CASE Verify
        <4>1. GraphInv'
          BY <3>2, VerifyInv
        <4> QED
          BY <3>2, <4>1 DEF Verify, Raises, after_verification, GraphTypeOK, GraphState, Reports,
                            Verdicts
      <3> QED
        BY <1>2, <3>1, <3>2
    <2> QED
      BY <2>1, <2>2 DEF FinalRounds
  <1> QED
    BY <1>1, <1>2 DEF GraphStep

\* The bound on the distance by which a resumption outweighs a fresh budget.
DistanceIsBounded ==
    Distance \in Nat /\ Distance < 3 * MaxFinalRevisions + 5 * MaxVerifierRounds + 16

\* No place of the graph is further from the end than a whole budget.
LEMMA DistanceBound == GraphInv /\ FinalRounds => DistanceIsBounded
  <1> SUFFICES ASSUME GraphInv, FinalRounds PROVE DistanceIsBounded
    OBVIOUS
  <1> USE DEF DistanceIsBounded
  <1> DEFINE k == MaxVerifierRounds + 2 - meter.rounds
             f == state.final_revision_rounds
  <1>1. MaxFinalRevisions \in Nat /\ MaxVerifierRounds \in Nat /\ f \in Nat
    BY GraphAssumption DEF GraphTypeOK, GraphState
  <1>2. CASE node \in Working \cup {"plan"}
    <2>1. /\ k \in 2..MaxVerifierRounds + 2
          /\ Distance = 3 * MaxFinalRevisions + 5 * k + Cycle[node]
      BY <1>2, CycleDistance
    <2>2. Cycle[node] \in 1..5
      BY <1>2, CycleValues
    <2> HIDE DEF k
    <2> QED
      BY <1>1, <2>1, <2>2
  <1>3. CASE node = "verify_final" /\ state.stopped
    BY <1>1, <1>3, FinalDistanceNow
  <1>4. CASE node = "verify_final" /\ ~state.stopped
    BY <1>1, <1>4, FinalDistanceNow DEF FinalRounds
  <1>5. CASE node = "revise_final"
    BY <1>1, <1>5, FinalDistanceNow DEF FinalRounds
  <1>6. CASE node \in {"finalize", "terminate"}
    BY <1>1, <1>6, FinalDistanceNow
  <1>7. CASE node \in Ended
    <2>1. Distance = 0
      BY <1>7, CycleValues DEF Distance, FinalDistance, Ended
    <2> QED
      BY <1>1, <2>1
  <1> QED
    BY <1>2, <1>3, <1>4, <1>5, <1>6, <1>7 DEF GraphTypeOK, Nodes

\* The same after a step.
LEMMA DistanceBoundNext == GraphInv' /\ FinalRounds' => DistanceIsBounded'
  <1> HIDE DEF GraphInv
  <1> QED
    BY DistanceBound, PTL

\* The weight of the resumptions that are left.
LEMMA Weight ==
    ASSUME NEW a \in Nat, NEW b \in Nat
    PROVE  a * 2 * b \in Nat /\ (a + 1) * 2 * b = a * 2 * b + 2 * b
  <1>1. a * 2 \in Nat /\ (a + 1) * 2 = a * 2 + 2
    OBVIOUS
  <1> DEFINE c == a * 2
  <1>2. c \in Nat /\ c * b \in Nat /\ (c + 2) * b = c * b + 2 * b
    <2>1. c \in Nat
      BY <1>1
    <2> HIDE DEF c
    <2>2. c * b \in Nat /\ (c + 1) * b = c * b + b /\ (c + 1 + 1) * b = (c + 1) * b + b
      BY <2>1, Product
    <2>3. c + 1 + 1 = c + 2
      BY <2>1
    <2>4. (c + 2) * b = c * b + b + b
      BY <2>2, <2>3
    <2> DEFINE d == c * b
    <2>5. d + b + b = d + 2 * b
      <3>1. d \in Nat
        BY <2>2
      <3> HIDE DEF d
      <3> QED
        BY <3>1
    <2> QED
      BY <2>1, <2>2, <2>4, <2>5
  <1> QED
    BY <1>1, <1>2

\* Resumptions, distance and deadline together.
LEMMA VariantStep ==
    ASSUME GraphInv, FinalRounds, GraphNext
    PROVE  Variant' < Variant /\ FinalRounds'
  <1> DEFINE left == MaxResumes - resumes
             B == 3 * MaxFinalRevisions + 5 * MaxVerifierRounds + 16
             W == left * 2 * B
             bit == IF meter.expired THEN 0 ELSE 1
  <1>1. B \in Nat /\ left \in Nat /\ MaxResumes \in Nat /\ resumes \in Nat
    <2>1. MaxFinalRevisions \in Nat /\ MaxVerifierRounds \in Nat /\ MaxResumes \in Nat
      BY GraphAssumption
    <2>2. resumes \in 0..MaxResumes
      BY DEF GraphTypeOK
    <2> QED
      BY <2>1, <2>2
  <1>2. Variant = W + 2 * Distance + bit /\ bit \in 0..1 /\ bit' \in 0..1
    BY DEF Variant
  <1>3. W \in Nat
    <2> HIDE DEF B, left
    <2> QED
      BY <1>1, Weight
  <1>4. Distance \in Nat /\ Distance < B
    BY DistanceBound DEF DistanceIsBounded
  <1>5. GraphInv'
    BY GraphNextInv
  <1>6. CASE GraphStep
    <2>1. Distance' < Distance /\ FinalRounds'
      BY <1>6, GraphStepOnward
    <2>2. resumes' = resumes
      BY <1>6 DEF GraphStep, Plan, Research, Worker, Verify, Revise, Replan, Advance, Finalize,
                  VerifyFinal, ReviseFinal, Terminate
    <2>3. Variant' = W + 2 * Distance' + bit'
      BY <2>2 DEF Variant
    <2>4. Distance' \in Nat
      <3>1. FinalRounds'
        BY <2>1
      <3> QED
        BY <1>1, <1>5, <3>1, DistanceBoundNext DEF DistanceIsBounded
    <2>5. \A w, d, e \in Nat, x, y \in 0..1 : e < d => w + 2 * e + y < w + 2 * d + x
      OBVIOUS
    <2> HIDE DEF W, B, left, bit
    <2> QED
      BY <1>2, <1>3, <1>4, <2>1, <2>3, <2>4, <2>5, Zenon
  <1>7. CASE Deadline
    <2>1. /\ UNCHANGED <<settings, node, state, resumes>> /\ meter'.rounds = meter.rounds
          /\ ~meter.expired /\ meter'.expired
      BY <1>7 DEF Deadline, GraphTypeOK, Meters
    <2>2. Distance' = Distance /\ FinalRounds'
      BY <2>1 DEF Distance, FinalDistance, FinalRounds
    <2>3. Variant' = W + 2 * Distance + 0 /\ bit = 1
      BY <2>1, <2>2 DEF Variant
    <2> HIDE DEF W, B, left, bit
    <2> QED
      BY <1>2, <1>3, <1>4, <2>2, <2>3
  <1>8. CASE Resume
    <2> DEFINE W2 == (left - 1) * 2 * B
    <2>1. UNCHANGED <<settings, node, state>> /\ resumes' = resumes + 1 /\ resumes < MaxResumes
      BY <1>8 DEF Resume
    <2>2. FinalRounds'
      BY <2>1 DEF FinalRounds
    <2>3. left - 1 \in Nat /\ MaxResumes - resumes' = left - 1
      BY <1>1, <2>1
    <2>4. W2 \in Nat /\ W = W2 + 2 * B
      <3>1. \A a \in Nat : a * 2 * B \in Nat /\ (a + 1) * 2 * B = a * 2 * B + 2 * B
        <4> HIDE DEF B
        <4> QED
          BY <1>1, Weight
      <3>2. left = (left - 1) + 1
        BY <1>1
      <3> HIDE DEF B, left
      <3> QED
        BY <2>3, <3>1, <3>2
    <2>5. Variant' = W2 + 2 * Distance' + bit'
      BY <2>3 DEF Variant
    <2>6. Distance' \in Nat /\ Distance' < B
      BY <1>5, <2>2, DistanceBoundNext DEF DistanceIsBounded
    <2>7. \A w, b, d, e \in Nat, x, y \in 0..1 :
             e < b => w + 2 * e + y < w + 2 * b + 2 * d + x
      OBVIOUS
    <2> HIDE DEF W, W2, B, left, bit
    <2> QED
      BY <1>1, <1>2, <1>3, <1>4, <2>2, <2>4, <2>5, <2>6, <2>7, Zenon
  <1> QED
    BY <1>6, <1>7, <1>8 DEF GraphNext

\* The variant cannot fall for ever.
LEMMA VariantIsNatural == GraphInv /\ FinalRounds => Variant \in Nat
  <1> SUFFICES ASSUME GraphInv, FinalRounds PROVE Variant \in Nat
    OBVIOUS
  <1> DEFINE left == MaxResumes - resumes
             B == 3 * MaxFinalRevisions + 5 * MaxVerifierRounds + 16
             W == left * 2 * B
             bit == IF meter.expired THEN 0 ELSE 1
  <1>1. B \in Nat /\ left \in Nat
    BY GraphAssumption DEF GraphTypeOK
  <1>2. Variant = W + 2 * Distance + bit /\ bit \in 0..1
    BY DEF Variant
  <1>3. W \in Nat
    <2> HIDE DEF B, left
    <2> QED
      BY <1>1, Weight
  <1>4. Distance \in Nat
    BY DistanceBound DEF DistanceIsBounded
  <1> HIDE DEF W, bit
  <1> QED
    BY <1>2, <1>3, <1>4

\* Every run of the graph ends: the variant is a natural number that every
\* node, deadline and resumption lowers, for any limits and any answers of the
\* models.  (That no node gets stuck, the other half of GraphEnds, is ENABLED
\* and left to TLC.)
THEOREM GraphRunsOut == GraphSpec => [](Variant \in Nat) /\ EndComesNearer
  <1>1. GraphInit => FinalRounds
    BY DEF GraphInit, FinalRounds
  <1>2. GraphInv /\ FinalRounds /\ [GraphNext]_graphVars => FinalRounds'
    <2> SUFFICES ASSUME GraphInv, FinalRounds, [GraphNext]_graphVars PROVE FinalRounds'
      OBVIOUS
    <2>1. CASE UNCHANGED graphVars
      BY <2>1 DEF graphVars, FinalRounds
    <2> QED
      BY <2>1, VariantStep
  <1>3. GraphInv /\ FinalRounds /\ [GraphNext]_graphVars => [Variant' < Variant]_graphVars
    BY VariantStep
  <1>4. GraphInv /\ FinalRounds => Variant \in Nat
    BY VariantIsNatural
  <1> HIDE DEF GraphInv
  <1> QED
    BY <1>1, <1>2, <1>3, <1>4, GraphInvariant, PTL DEF GraphSpec, EndComesNearer
=============================================================================
