--------------------------- MODULE ChatRuntimeProofs ---------------------------
(***************************************************************************)
(* Proofs about ChatRuntime for any number of requests, processes, runs    *)
(* and conversations, in every deployment: the gate excludes, and the      *)
(* repository is used as it expects.  Where the requests for a run reach   *)
(* one process, a received response is the stored outcome for good.        *)
(***************************************************************************)
EXTENDS ChatRuntime, RunRepositoryProofs, FiniteSetTheorems

-----------------------------------------------------------------------------
(* The inductive invariant, in any deployment *)

\* The places after the record was read and found to be this request's.
Confirmed == Active \ {"load", "migrate"}

\* The places where the request has a lease, if only by its own account.
Leased == UnderLease \cup {"interrupt", "release"}

OwnIds == \A q \in Requests : Run(q) = RunOf[q] /\ Conv(q) = ConvOf[q]

\* q is between the entry and the exit of the gate of p for c.
Inside(q, p, c) == ProcOf[q] = p /\ Conv(q) = c /\ pc[q] \in Active

GateHeld ==
    \A q \in Requests : pc[q] \in Active => gate[ProcOf[q]][Conv(q)] = Run(q)

GateAlone ==
    \A q, o \in Requests :
        /\ pc[q] \in Active /\ pc[o] \in Active
        /\ ProcOf[q] = ProcOf[o] /\ Conv(q) = Conv(o)
        => q = o

GateUsed ==
    \A p \in Procs, c \in Convs :
        gate[p][c] # None => \E q \in Requests : Inside(q, p, c)

RecordConfirmed == \A q \in Requests : pc[q] \in Confirmed => Validates(Id(q))

LeaseGranted ==
    \A q \in Requests : pc[q] \in Leased =>
        /\ loc[q].lease \in handles
        /\ loc[q].lease.run = Run(q) /\ loc[q].lease.conv = Conv(q)

\* Before the outcome is stored and its turn appended there is a response.
ResponseThere ==
    \A q \in Requests : pc[q] \in {"replay", "reconcile", "settle", "append", "commit"} =>
        loc[q].resp \in Payloads

ChatInv ==
    /\ ChatTypeOK
    /\ OwnIds
    /\ GateHeld /\ GateAlone /\ GateUsed
    /\ RecordConfirmed /\ LeaseGranted /\ ResponseThere

-----------------------------------------------------------------------------
(* What holds besides where the requests for a run reach one process *)

\* An outcome that is stored and can be replayed.
HasOutcome(rec, p) == rec.status \in TerminalStatuses /\ rec.payload = p

\* What a request knows of its record at each of its places.
Story(q) ==
    /\ pc[q] \in {"probe", "acquire"} =>
          \/ Rec(q).status \in {"interrupted", "pending"}
          \/ Rec(q).status = "running" /\ LeaseExpired(Rec(q))
    /\ pc[q] \in {"replay", "reconcile", "append", "commit"} => HasOutcome(Rec(q), loc[q].resp)
    /\ pc[q] \in {"execute", "settle"} => Rec(q).status = "running"
    /\ pc[q] = "interrupt" =>
          Rec(q).status = "running" \/ Faults \cap {"cancel", "ack_lost"} # {}

\* A reply is there only at the end, and it is the stored outcome.
Replied(q) ==
    loc[q].reply # None =>
        /\ pc[q] \in {"release", "done"}
        /\ HasOutcome(Rec(q), loc[q].reply)

\* While a run executes, nobody has a reply for it.
Unanswered(q) ==
    pc[q] \in Leased \ {"release"} =>
        \A o \in Requests : Run(o) = Run(q) => loc[o].reply = None

StoryInv ==
    RunsStay => \A q \in Requests : Story(q) /\ Replied(q) /\ Unanswered(q)

\* Unless requests are cancelled: a turn is the outcome of its run, and what
\* is noted as committed is there.
TurnsInv ==
    RunsStay /\ "cancel" \notin Faults =>
        /\ \A r \in Runs :
              /\ turns[r] # None => HasOutcome(records[r], turns[r])
              /\ records[r].history => turns[r] # None
        /\ \A q \in Requests :
              /\ pc[q] = "interrupt" => turns[Run(q)] = None
              /\ pc[q] \in {"reconcile", "commit"} => turns[Run(q)] # None

-----------------------------------------------------------------------------
(* What a step of a request does to its control *)

SameId(q) == loc'[q].id = loc[q].id

Stays(q)  == pc[q] \in Active /\ pc'[q] \in Active /\ gate' = gate /\ SameId(q)

Leaves(q) == pc[q] \in Active /\ pc'[q] = "done" /\ Ungate(q) /\ SameId(q)

SubmittedIds(q) == loc'[q].id.run = RunOf[q] /\ loc'[q].id.conv = ConvOf[q]

Enters(q) ==
    /\ pc[q] = "idle" /\ pc'[q] = "load" /\ SubmittedIds(q)
    /\ gate[ProcOf[q]][ConvOf[q]] = None
    /\ gate' = [gate EXCEPT ![ProcOf[q]][ConvOf[q]] = RunOf[q]]

Refused(q) == pc[q] = "idle" /\ pc'[q] = "done" /\ gate' = gate /\ SubmittedIds(q)

\* Only this request moves.
Moves(q) ==
    /\ deployment' = deployment
    /\ pc' \in [Requests -> Labels] /\ loc' \in [Requests -> Local]
    /\ \A o \in Requests \ {q} : pc'[o] = pc[o] /\ loc'[o] = loc[o]
    /\ Stays(q) \/ Leaves(q) \/ Enters(q) \/ Refused(q)

\* The types of what belongs to a request.
LEMMA RequestTypes ==
    ASSUME ChatInv, NEW q \in Requests
    PROVE  /\ deployment \in Deployment /\ ProcOf[q] \in Procs /\ RunOf[q] \in Runs
           /\ ConvOf[q] \in Convs
           /\ pc[q] \in Labels /\ loc[q] \in Local /\ Id(q) \in Identity
           /\ Run(q) \in Runs /\ Conv(q) \in Convs
           /\ Rec(q) \in RunRecord /\ q \in Owners
  <1>1. /\ deployment \in Deployment /\ ProcOf[q] \in Procs /\ RunOf[q] \in Runs
        /\ ConvOf[q] \in Convs
    BY RuntimeAssumption DEF ChatInv, ChatTypeOK, Deployment, ProcOf, RunOf, ConvOf
  <1>2. pc[q] \in Labels /\ loc[q] \in Local
    BY DEF ChatInv, ChatTypeOK
  <1>3. Id(q) \in Identity /\ Run(q) \in Runs /\ Conv(q) \in Convs
    BY <1>2 DEF Local, Id, Run, Conv, Identity
  <1>4. Rec(q) \in RunRecord
    BY <1>3 DEF ChatInv, ChatTypeOK, RepoTypeOK, Rec
  <1> QED
    BY <1>1, <1>2, <1>3, <1>4, RuntimeAssumption

\* None is not the id of a run, and the places are told apart.
LEMMA Places ==
    /\ None \notin Runs /\ "idle" \notin Active /\ "done" \notin Active /\ Active \subseteq Labels
    /\ Leased \subseteq Confirmed /\ Confirmed \subseteq Active
    /\ "load" \in Active /\ "load" \notin Confirmed /\ "migrate" \notin Confirmed
    /\ "done" \in Labels
  BY RepositoryAssumption DEF Active, BeforeLease, UnderLease, Labels, Leased, Confirmed

\* The gate excludes: a request that moves keeps its invariants.
LEMMA GateStep ==
    ASSUME ChatInv, NEW q \in Requests, Moves(q)
    PROVE  /\ gate' \in [Procs -> [Convs -> Runs \cup {None}]]
           /\ OwnIds' /\ GateHeld' /\ GateAlone' /\ GateUsed'
  <1> USE Places
  <1>1. /\ ProcOf' = ProcOf /\ RunOf' = RunOf /\ ConvOf' = ConvOf
        /\ \A o \in Requests \ {q} : pc'[o] = pc[o] /\ loc'[o] = loc[o]
        /\ gate \in [Procs -> [Convs -> Runs \cup {None}]]
    BY DEF Moves, ProcOf, RunOf, ConvOf, ChatInv, ChatTypeOK
  <1>2. \A o \in Requests : /\ ProcOf[o] \in Procs /\ RunOf[o] \in Runs /\ ConvOf[o] \in Convs
                            /\ Run(o) = RunOf[o] /\ Conv(o) = ConvOf[o]
    BY RequestTypes DEF ChatInv, OwnIds
  <1>3. OwnIds'
    <2> SUFFICES ASSUME NEW o \in Requests
                 PROVE  loc'[o].id.run = RunOf[o] /\ loc'[o].id.conv = ConvOf[o]
      BY <1>1 DEF OwnIds, Run, Conv
    <2>1. CASE o # q
      BY <1>1, <1>2, <2>1 DEF Run, Conv
    <2>2. CASE o = q
      BY <1>2, <2>2 DEF Moves, Stays, Leaves, Enters, Refused, SameId, SubmittedIds, Run, Conv
    <2> QED
      BY <2>1, <2>2
  <1>4. \A o \in Requests : Run(o)' = RunOf[o] /\ Conv(o)' = ConvOf[o]
    BY <1>1, <1>3 DEF OwnIds
  <1>5. CASE Stays(q) \/ Refused(q)
    <2>1. gate' = gate /\ \A o \in Requests : pc'[o] \in Active <=> pc[o] \in Active
      BY <1>1, <1>5 DEF Stays, Refused
    <2> QED
      BY <1>1, <1>2, <1>3, <1>4, <2>1 DEF ChatInv, GateHeld, GateAlone, GateUsed, Inside
  <1>6. CASE Leaves(q)
    <2>1. /\ pc[q] \in Active /\ pc'[q] \notin Active
          /\ gate' = [gate EXCEPT ![ProcOf[q]][ConvOf[q]] = None]
      BY <1>2, <1>6 DEF Leaves, Ungate, ChatInv, GateHeld
    <2>2. \A p \in Procs, c \in Convs :
             gate'[p][c] = IF p = ProcOf[q] /\ c = ConvOf[q] THEN None ELSE gate[p][c]
      BY <1>1, <1>2, <2>1
    <2>3. gate' \in [Procs -> [Convs -> Runs \cup {None}]]
      BY <1>1, <1>2, <2>1
    <2>4. GateHeld' /\ GateAlone'
      BY <1>1, <1>2, <1>4, <2>1, <2>2 DEF ChatInv, GateHeld, GateAlone
    <2>5. GateUsed'
      BY <1>1, <1>2, <1>4, <2>1, <2>2 DEF ChatInv, GateUsed, Inside
    <2> QED
      BY <1>3, <2>3, <2>4, <2>5
  <1>7. CASE Enters(q)
    <2>1. /\ pc[q] \notin Active /\ pc'[q] \in Active
          /\ gate[ProcOf[q]][ConvOf[q]] = None
          /\ gate' = [gate EXCEPT ![ProcOf[q]][ConvOf[q]] = RunOf[q]]
      BY <1>7 DEF Enters
    <2>2. \A p \in Procs, c \in Convs :
             gate'[p][c] = IF p = ProcOf[q] /\ c = ConvOf[q] THEN RunOf[q] ELSE gate[p][c]
      BY <1>1, <1>2, <2>1
    <2>3. gate' \in [Procs -> [Convs -> Runs \cup {None}]]
      BY <1>1, <1>2, <2>1
    <2>4. \A o \in Requests : pc[o] \in Active =>
             ~(ProcOf[o] = ProcOf[q] /\ ConvOf[o] = ConvOf[q])
      BY <1>2, <2>1 DEF ChatInv, GateHeld
    <2>5. GateHeld' /\ GateAlone'
      BY <1>1, <1>2, <1>4, <2>1, <2>2, <2>4 DEF ChatInv, GateHeld, GateAlone
    <2>6. GateUsed'
      BY <1>1, <1>2, <1>4, <2>1, <2>2 DEF ChatInv, GateUsed, Inside
    <2> QED
      BY <1>3, <2>3, <2>5, <2>6
  <1> QED
    BY <1>5, <1>6, <1>7 DEF Moves

\* What no operation of the repository takes back: that a run exists, whose it
\* is, and that a lease was granted.
BindingsKept ==
    /\ handles \subseteq handles'
    /\ \A r \in Runs : Exists(r) => /\ Exists(r)' /\ records'[r].conv = records[r].conv
                                    /\ records'[r].hash = records[r].hash

\* No step of the repository moves a run to another conversation or payload.
LEMMA RepoKeepsBindings ==
    ASSUME RepoTypeOK, [RepoNext]_repoVars
    PROVE  BindingsKept
  <1> USE DEF BindingsKept, Exists, RepoTypeOK
  <1>1. CASE UNCHANGED repoVars
    BY <1>1 DEF repoVars
  <1>2. ASSUME NEW id \in Identity, CreateRecord(id) PROVE BindingsKept
    BY <1>2 DEF CreateRecord, Identity
  <1>3. ASSUME NEW id \in Identity, NEW o \in Owners, ConfirmedAcquire(id, o) PROVE BindingsKept
    BY <1>3 DEF ConfirmedAcquire, Acquire, Identity, RunRecord
  <1>4. ASSUME NEW h \in handles, LeaseOperation(h) PROVE BindingsKept
    <2>1. h.run \in Runs
      BY DEF Handle
    <2>2. CASE Renew(h) \/ Release(h)
      BY <2>1, <2>2 DEF Renew, Release, RunRecord
    <2>3. ASSUME NEW status \in Outcomes, NEW p \in Payloads \cup {None}, MarkTerminal(h, status, p)
          PROVE  BindingsKept
      <3>1. status # "absent"
        BY DEF Outcomes, TerminalStatuses
      <3> QED
        BY <2>1, <2>3, <3>1 DEF MarkTerminal, RunRecord
    <2>4. ASSUME NEW p \in Payloads \cup {None}, MarkHistoryCommitted(h, p) PROVE BindingsKept
      BY <2>1, <2>4 DEF MarkHistoryCommitted, HistoryNoted, RunRecord
    <2> QED
      BY <1>4, <2>2, <2>3, <2>4 DEF LeaseOperation
  <1>5. ASSUME NEW r \in Runs, RunOperation(r) PROVE BindingsKept
    <2>1. ASSUME NEW p \in Payloads \cup {None}, ReconcileHistory(r, p) PROVE BindingsKept
      BY <2>1 DEF ReconcileHistory, HistoryNoted, RunRecord
    <2>2. CASE RevokeResumeTokens(r)
      BY <2>2 DEF RevokeResumeTokens, RunRecord
    <2> QED
      BY <1>5, <2>1, <2>2 DEF RunOperation
  <1>6. CASE Tick
    BY <1>6 DEF Tick, RunRecord
  <1> QED
    BY <1>1, <1>2, <1>3, <1>4, <1>5, <1>6 DEF RepoNext

\* The conversation's turns, checkpoints and tokens stay well formed.
StoresTyped ==
    /\ turns \in [Runs -> Payloads \cup {None}]
    /\ checkpoints \in [Threads -> Payloads \cup {"partial", None}]
    /\ issued \subseteq Identity

\* A step of request q in full: what the others rely on.
RequestStep(q) ==
    /\ [RepoNext]_repoVars
    /\ Moves(q)
    /\ StoresTyped'
    /\ pc'[q] \in Confirmed => pc[q] \in Confirmed \/ Validates(Id(q))'
    /\ pc'[q] \in Leased =>
          \/ pc[q] \in Leased /\ loc'[q].lease = loc[q].lease
          \/ /\ loc'[q].lease \in handles'
             /\ loc'[q].lease.run = Run(q) /\ loc'[q].lease.conv = Conv(q)
    /\ pc'[q] \in {"replay", "reconcile", "settle", "append", "commit"} =>
          loc'[q].resp \in Payloads

\* What RequestStep says of a step is enough for the invariant.
LEMMA RequestStepInv ==
    ASSUME ChatInv, NEW q \in Requests, RequestStep(q)
    PROVE  ChatInv'
  <1> USE Places
  <1>1. /\ [RepoNext]_repoVars /\ Moves(q) /\ StoresTyped'
        /\ deployment' = deployment
        /\ pc' \in [Requests -> Labels] /\ loc' \in [Requests -> Local]
        /\ \A o \in Requests \ {q} : pc'[o] = pc[o] /\ loc'[o] = loc[o]
    BY DEF RequestStep, Moves
  <1>2. RepoTypeOK' /\ BindingsKept
    BY <1>1, TypeStep, RepoKeepsBindings DEF ChatInv, ChatTypeOK
  <1>3. /\ gate' \in [Procs -> [Convs -> Runs \cup {None}]]
        /\ OwnIds' /\ GateHeld' /\ GateAlone' /\ GateUsed'
    BY <1>1, GateStep
  <1>4. ChatTypeOK'
    BY <1>1, <1>2, <1>3 DEF ChatTypeOK, StoresTyped, ChatInv
  <1>5. \A o \in Requests : Run(o) \in Runs
    BY RequestTypes
  <1>6. pc'[q] \in Confirmed => SameId(q)
    BY <1>1 DEF Moves, Stays, Leaves, Enters, Refused, SameId
  <1>7. RecordConfirmed'
    <2> SUFFICES ASSUME NEW o \in Requests, pc'[o] \in Confirmed PROVE Validates(Id(o))'
      BY DEF RecordConfirmed
    <2>1. CASE pc[o] \in Confirmed /\ loc'[o].id = loc[o].id
      <3>1. Validates(Id(o))
        BY <2>1 DEF ChatInv, RecordConfirmed
      <3> QED
        BY <1>2, <1>5, <2>1, <3>1 DEF Validates, Id, Run, BindingsKept, Exists
    <2>2. CASE o # q
      BY <1>1, <2>1, <2>2
    <2>3. CASE o = q
      BY <1>6, <2>1, <2>3 DEF RequestStep, SameId
    <2> QED
      BY <2>2, <2>3
  <1>8. LeaseGranted'
    <2> SUFFICES ASSUME NEW o \in Requests, pc'[o] \in Leased
                 PROVE  /\ loc'[o].lease \in handles'
                        /\ loc'[o].lease.run = Run(o) /\ loc'[o].lease.conv = Conv(o)
                        /\ loc'[o].id = loc[o].id
      BY DEF LeaseGranted, Run, Conv
    <2>1. CASE pc[o] \in Leased /\ loc'[o].lease = loc[o].lease /\ loc'[o].id = loc[o].id
      BY <1>2, <2>1 DEF ChatInv, LeaseGranted, BindingsKept
    <2>2. CASE o # q
      BY <1>1, <2>1, <2>2
    <2>3. CASE o = q
      BY <1>6, <2>1, <2>3 DEF RequestStep, SameId
    <2> QED
      BY <2>2, <2>3
  <1>9. ResponseThere'
    BY <1>1 DEF ResponseThere, RequestStep, ChatInv
  <1> QED
    BY <1>3, <1>4, <1>7, <1>8, <1>9 DEF ChatInv

-----------------------------------------------------------------------------
(* The ways a request moves *)

\* A request that goes on, with other local variables or the same.
LEMMA GoesOn ==
    ASSUME ChatInv, NEW q \in Requests, pc[q] \in Active, NEW l \in Active, Goto(q, l),
           deployment' = deployment, NEW x \in Local, x.id = loc[q].id,
           loc' = [loc EXCEPT ![q] = x]
    PROVE  Moves(q) /\ pc'[q] = l /\ loc'[q] = x
  BY Places DEF ChatInv, ChatTypeOK, Goto, Moves, Stays, SameId

\* A request that goes on without an assignment.
LEMMA GoesOnUnchanged ==
    ASSUME ChatInv, NEW q \in Requests, pc[q] \in Active, NEW l \in Active, Goto(q, l),
           deployment' = deployment, UNCHANGED loc
    PROVE  Moves(q) /\ pc'[q] = l /\ loc'[q] = loc[q]
  BY Places DEF ChatInv, ChatTypeOK, Goto, Moves, Stays, SameId

\* Local variables after an assignment.
LEMMA LocalUpdates ==
    ASSUME NEW x \in Local, NEW p \in Payloads \cup {None}, NEW h \in Handle \cup {None},
           NEW st \in {"completed", "failed"}, NEW r \in Payloads \cup {None}
    PROVE  /\ [x EXCEPT !.reply = p] \in Local /\ [x EXCEPT !.reply = p].id = x.id
           /\ [x EXCEPT !.resp = r, !.reply = p] \in Local
           /\ [x EXCEPT !.resp = r, !.reply = p].id = x.id
           /\ [x EXCEPT !.resp = r, !.status = st] \in Local
           /\ [x EXCEPT !.resp = r, !.status = st].id = x.id
           /\ [x EXCEPT !.lease = h] \in Local /\ [x EXCEPT !.lease = h].id = x.id
           /\ [x EXCEPT !.created = TRUE] \in Local /\ [x EXCEPT !.created = TRUE].id = x.id
  BY DEF Local

\* A request that leaves frees the gate it holds.
LEMMA LeaveMoves ==
    ASSUME ChatInv, NEW q \in Requests, pc[q] \in Active, NEW p \in Payloads \cup {None},
           Leave(q, p), deployment' = deployment
    PROVE  Moves(q) /\ pc'[q] = "done" /\ loc'[q] = [loc[q] EXCEPT !.reply = p]
  <1>1. loc[q] \in Local
    BY RequestTypes
  <1>2. [loc[q] EXCEPT !.reply = p] \in Local /\ [loc[q] EXCEPT !.reply = p].id = loc[q].id
    BY <1>1 DEF Local
  <1>3. /\ pc' = [pc EXCEPT ![q] = "done"] /\ Ungate(q)
        /\ loc' = [loc EXCEPT ![q] = [loc[q] EXCEPT !.reply = p]]
    BY DEF Leave
  <1> QED
    BY <1>2, <1>3, Places DEF ChatInv, ChatTypeOK, Moves, Leaves, SameId

\* Leaving with any reply.
LEMMA LeaveStep ==
    ASSUME ChatInv, NEW q \in Requests, pc[q] \in Active, NEW p \in Payloads \cup {None},
           Leave(q, p), deployment' = deployment, [RepoNext]_repoVars, StoresTyped'
    PROVE  RequestStep(q)
  BY LeaveMoves, Places DEF RequestStep

\* Leaving with an error.
LEMMA RejectStep ==
    ASSUME ChatInv, NEW q \in Requests, pc[q] \in Active, Reject(q) \/ (Leave(q, None) /\ DbError),
           deployment' = deployment, StoresTyped'
    PROVE  RequestStep(q)
  BY LeaveStep DEF Reject, DbError

\* A place further within the confirmed ones, local variables as they are.
LEMMA GoesOnStep ==
    ASSUME ChatInv, NEW q \in Requests, pc[q] \in Active, NEW l \in Active, Goto(q, l),
           UNCHANGED loc, deployment' = deployment, [RepoNext]_repoVars, StoresTyped',
           l \in Confirmed => pc[q] \in Confirmed \/ Validates(Id(q))',
           l \in Leased => pc[q] \in Leased,
           l \in {"replay", "reconcile", "settle", "append", "commit"} => loc[q].resp \in Payloads
    PROVE  RequestStep(q)
  BY GoesOnUnchanged DEF RequestStep

\* A step that leaves history, checkpoints and tokens alone.
LEMMA StoresKept ==
    ASSUME ChatInv, UNCHANGED <<turns, checkpoints, issued>>
    PROVE  StoresTyped'
  BY DEF ChatInv, ChatTypeOK, StoresTyped

\* The operations a request calls are those the repository expects.
LEMMA RepoCreate ==
    ASSUME ChatInv, NEW q \in Requests, CreateRecord(Id(q))
    PROVE  [RepoNext]_repoVars /\ (SameId(q) => Validates(Id(q))')
  <1>1. Id(q) \in Identity /\ Run(q) \in Runs
    BY RequestTypes
  <1>2. [RepoNext]_repoVars
    BY <1>1 DEF RepoNext
  <1>3. /\ records' = [records EXCEPT ![Id(q).run] =
                         [NoRecord EXCEPT !.conv = Id(q).conv, !.hash = Id(q).hash,
                                          !.status = "pending", !.version = 1]]
        /\ records \in [Runs -> RunRecord] /\ Id(q).run \in Runs
    BY <1>1 DEF CreateRecord, ChatInv, ChatTypeOK, RepoTypeOK, Identity
  <1>4. /\ records'[Id(q).run].conv = Id(q).conv /\ records'[Id(q).run].hash = Id(q).hash
        /\ records'[Id(q).run].status # "absent"
    BY <1>3 DEF NoRecord
  <1> QED
    BY <1>2, <1>4 DEF Validates, Exists, SameId, Id

\* As long as the identity stays the request's, what create_or_get confirmed
\* is confirmed.
LEMMA ConfirmedNext ==
    ASSUME NEW q \in Requests, UNCHANGED <<records, loc>>, Validates(Id(q))
    PROVE  Validates(Id(q))'
  BY DEF Validates, Exists, Id

\* The preflight of a record that the identity was validated against.
LEMMA PreflightStep ==
    ASSUME ChatInv, NEW q \in Requests, pc[q] \in Active, Validates(Id(q)), UNCHANGED repoVars,
           NEW next \in {"probe", "acquire"}, Preflight(q, Rec(q), next),
           deployment' = deployment, StoresTyped'
    PROVE  RequestStep(q)
  <1>1. Rec(q).payload \in Payloads \cup {None} /\ loc[q] \in Local
    BY RequestTypes DEF RunRecord
  <1>2. next \in Confirmed /\ next \in Active /\ next \notin Leased
        /\ "replay" \in Confirmed /\ "replay" \in Active /\ "replay" \notin Leased
    BY DEF Confirmed, Active, BeforeLease, UnderLease, Leased
  <1> DEFINE reply == IF Rec(q).history THEN Rec(q).payload ELSE None
             x == [loc[q] EXCEPT !.resp = Rec(q).payload, !.reply = reply]
  <1>3. reply \in Payloads \cup {None}
    BY <1>1
  <1>4. x \in Local /\ x.id = loc[q].id /\ x.resp = Rec(q).payload
    BY <1>1, <1>3 DEF Local
  <1>5. CASE Replayable(Rec(q)) /\ loc' = [loc EXCEPT ![q].resp = Rec(q).payload,
                                                     ![q].reply = reply]
    <2>1. loc' = [loc EXCEPT ![q] = x] /\ loc'[q] = x
      BY <1>5 DEF ChatInv, ChatTypeOK
    <2> HIDE DEF x, reply
    <2>2. CASE pc' = [pc EXCEPT ![q] = "done"] /\ Ungate(q)
      BY <1>4, <2>1, <2>2, Places
         DEF RequestStep, ChatInv, ChatTypeOK, Moves, Leaves, SameId
    <2>3. CASE Goto(q, "replay")
      <3>1. Moves(q) /\ pc'[q] = "replay"
        BY <1>2, <1>4, <2>1, <2>3, GoesOn
      <3>2. Validates(Id(q))'
        BY <1>4, <2>1 DEF Validates, Exists, Id, repoVars
      <3>3. Rec(q).payload \in Payloads
        BY <1>1, <1>5 DEF Replayable
      <3> QED
        BY <1>2, <1>4, <2>1, <3>1, <3>2, <3>3 DEF RequestStep
    <2> QED
      BY <1>5, <2>2, <2>3 DEF Preflight, Goto
  <1>6. CASE Goto(q, next) /\ UNCHANGED loc
    <2>1. Validates(Id(q))'
      BY <1>6, ConfirmedNext DEF repoVars
    <2>2. next \notin {"replay", "reconcile", "settle", "append", "commit"}
      OBVIOUS
    <2> QED
      BY <1>2, <1>6, <2>1, <2>2, GoesOnStep
  <1>7. CASE Leave(q, None)
    BY <1>7, LeaveStep
  <1> QED
    BY <1>5, <1>6, <1>7 DEF Preflight

-----------------------------------------------------------------------------
(* The steps *)

\* The gate admits or refuses.
LEMMA SubmitStep ==
    ASSUME ChatInv, NEW q \in Requests, NEW hash \in deployment.hashes,
           NEW resumed \in BOOLEAN, NEW supplied \in BOOLEAN, Submit(q, hash, resumed, supplied)
    PROVE  RequestStep(q)
  <1> DEFINE id == [run |-> RunOf[q], conv |-> ConvOf[q], hash |-> hash]
             x == [loc[q] EXCEPT !.id = id, !.resumed = resumed, !.supplied = supplied]
  <1>1. deployment \in Deployment /\ RunOf[q] \in Runs /\ ConvOf[q] \in Convs /\ loc[q] \in Local
        /\ ProcOf[q] \in Procs
    BY RequestTypes
  <1>2. hash \in Hashes
    BY <1>1 DEF Deployment
  <1>3. id \in Identity /\ id.run = RunOf[q] /\ id.conv = ConvOf[q]
    BY <1>1, <1>2 DEF Identity
  <1>4. x \in Local /\ x.id = id
    BY <1>1, <1>3 DEF Local
  <1>5. /\ pc[q] = "idle" /\ issued' = issued \cup {id} /\ loc' = [loc EXCEPT ![q] = x]
        /\ IF gate[ProcOf[q]][ConvOf[q]] # None
           THEN GateRefuses(q)
           ELSE /\ pc' = [pc EXCEPT ![q] = "load"]
                /\ gate' = [gate EXCEPT ![ProcOf[q]][ConvOf[q]] = RunOf[q]]
        /\ UNCHANGED <<repoVars, turns, checkpoints, deployment>>
    BY <1>3 DEF Submit, IssueToken
  <1> HIDE DEF id, x
  <1>6. StoresTyped'
    BY <1>3, <1>5 DEF ChatInv, ChatTypeOK, StoresTyped
  <1>7. Moves(q) /\ pc'[q] \in {"load", "done"}
    BY <1>1, <1>3, <1>4, <1>5, Places
       DEF ChatInv, ChatTypeOK, Moves, Enters, Refused, SubmittedIds, GateRefuses
  <1> QED
    BY <1>5, <1>6, <1>7, Places DEF RequestStep

\* The record is created or read.
LEMMA LoadStep ==
    ASSUME ChatInv, NEW q \in Requests, LoadFresh(q) \/ LoadResumed(q)
    PROVE  RequestStep(q)
  <1>1. /\ pc[q] = "load" /\ UNCHANGED <<turns, checkpoints, issued, deployment>>
        /\ pc[q] \in Active /\ "probe" \in Active /\ "probe" \notin Leased /\ "migrate" \in Active
        /\ "migrate" \notin Leased /\ "migrate" \notin Confirmed
    BY Places DEF LoadFresh, LoadResumed, Active, BeforeLease, UnderLease, Leased
  <1>2. StoresTyped'
    BY <1>1, StoresKept
  <1>3. CASE CreateRecord(Id(q)) /\ loc' = [loc EXCEPT ![q].created = TRUE] /\ Goto(q, "probe")
    <2> DEFINE x == [loc[q] EXCEPT !.created = TRUE]
    <2>1. x \in Local /\ x.id = loc[q].id /\ loc' = [loc EXCEPT ![q] = x]
      BY <1>3, RequestTypes DEF Local
    <2> HIDE DEF x
    <2>2. Moves(q) /\ pc'[q] = "probe" /\ loc'[q] = x
      BY <1>1, <1>3, <2>1, GoesOn
    <2>3. [RepoNext]_repoVars /\ Validates(Id(q))'
      BY <1>3, <2>1, <2>2, RepoCreate DEF SameId
    <2> QED
      BY <1>1, <1>2, <2>2, <2>3 DEF RequestStep
  <1>4. CASE UNCHANGED repoVars /\ Validates(Id(q)) /\ Preflight(q, Rec(q), "probe")
    BY <1>1, <1>2, <1>4, PreflightStep
  <1>5. CASE Leave(q, None) /\ (UNCHANGED repoVars \/ CreateRecord(Id(q)))
    BY <1>1, <1>2, <1>5, LeaveStep, RepoCreate
  <1>6. CASE Goto(q, "migrate") /\ UNCHANGED <<repoVars, loc>>
    BY <1>1, <1>2, <1>6, GoesOnStep
  <1>7. CASE LoadFresh(q)
    BY <1>3, <1>4, <1>5, <1>7 DEF LoadFresh, Reject, DbError
  <1>8. CASE LoadResumed(q)
    BY <1>4, <1>5, <1>6, <1>8 DEF LoadResumed, Matches
  <1> QED
    BY <1>7, <1>8

\* A run from before the repository gets its record.
LEMMA MigrateStep ==
    ASSUME ChatInv, NEW q \in Requests, Migrate(q)
    PROVE  RequestStep(q)
  <1>1. /\ pc[q] = "migrate" /\ UNCHANGED <<turns, checkpoints, issued, deployment>>
        /\ pc[q] \in Active /\ "acquire" \in Active /\ "acquire" \notin Leased
    BY DEF Migrate, Active, BeforeLease, UnderLease, Leased
  <1>2. StoresTyped'
    BY <1>1, StoresKept
  <1>3. CASE CreateRecord(Id(q)) /\ Goto(q, "acquire") /\ UNCHANGED loc
    <2>1. [RepoNext]_repoVars /\ Validates(Id(q))'
      BY <1>3, RepoCreate DEF SameId
    <2> QED
      BY <1>1, <1>2, <1>3, <2>1, GoesOnStep
  <1>4. CASE /\ Validates(Id(q)) /\ Goto(q, "acquire") /\ UNCHANGED loc /\ UNCHANGED repoVars
    <2>1. Validates(Id(q))'
      BY <1>4, ConfirmedNext DEF repoVars
    <2> QED
      BY <1>1, <1>2, <1>4, <2>1, GoesOnStep
  <1>5. CASE UNCHANGED repoVars /\ Validates(Id(q)) /\ Preflight(q, Rec(q), "acquire")
    BY <1>1, <1>2, <1>5, PreflightStep
  <1>6. CASE Reject(q)
    BY <1>1, <1>2, <1>6, RejectStep
  <1>7. CASE CreateRecord(Id(q)) /\ Leave(q, None)
    BY <1>1, <1>2, <1>7, LeaveStep, RepoCreate
  <1> QED
    BY <1>3, <1>4, <1>5, <1>6, <1>7 DEF Migrate

\* append_turn keeps the turns well formed.
LEMMA AppendTurnTyped ==
    ASSUME ChatInv, NEW r \in Runs, NEW p \in Payloads, AppendTurn(r, p) \/ UNCHANGED turns,
           UNCHANGED <<checkpoints, issued>>
    PROVE  StoresTyped'
  BY DEF ChatInv, ChatTypeOK, StoresTyped, AppendTurn

\* A replay repairs the history.
LEMMA ReplayAppendStep ==
    ASSUME ChatInv, NEW q \in Requests, ReplayAppend(q)
    PROVE  RequestStep(q)
  <1>1. /\ pc[q] = "replay" /\ UNCHANGED <<repoVars, checkpoints, issued, deployment>>
        /\ pc[q] \in Active /\ "reconcile" \in Active /\ "reconcile" \notin Leased
        /\ pc[q] \in Confirmed
    BY DEF ReplayAppend, Active, BeforeLease, UnderLease, Leased, Confirmed
  <1>2. loc[q].resp \in Payloads /\ Run(q) \in Runs
    BY <1>1, RequestTypes DEF ChatInv, ResponseThere
  <1>3. StoresTyped'
    BY <1>1, <1>2, AppendTurnTyped DEF ReplayAppend
  <1>4. CASE Goto(q, "reconcile") /\ UNCHANGED loc
    BY <1>1, <1>2, <1>3, <1>4, GoesOnStep
  <1>5. CASE Leave(q, loc[q].resp)
    BY <1>1, <1>2, <1>3, <1>5, LeaveStep
  <1> QED
    BY <1>4, <1>5 DEF ReplayAppend, ReplayUncommitted

\* A replay notes the repaired history.
LEMMA ReconcileStep ==
    ASSUME ChatInv, NEW q \in Requests, Reconcile(q)
    PROVE  RequestStep(q)
  <1>1. /\ pc[q] = "reconcile" /\ UNCHANGED <<turns, checkpoints, issued, deployment>>
        /\ pc[q] \in Active
    BY DEF Reconcile, Active, BeforeLease
  <1>2. loc[q].resp \in Payloads /\ Run(q) \in Runs /\ StoresTyped'
    BY <1>1, RequestTypes, StoresKept DEF ChatInv, ResponseThere
  <1>3. ReconcileHistory(Run(q), loc[q].resp) => RepoNext
    BY <1>2 DEF RepoNext, RunOperation
  <1>4. ASSUME NEW p \in {loc[q].resp, None}, Leave(q, p), [RepoNext]_repoVars PROVE RequestStep(q)
    BY <1>1, <1>2, <1>4, LeaveStep
  <1> QED
    BY <1>3, <1>4 DEF Reconcile, Reject, DbError

\* A resumption asks for the checkpoint.
LEMMA ProbeStep ==
    ASSUME ChatInv, NEW q \in Requests, Probe(q)
    PROVE  RequestStep(q)
  <1>1. /\ pc[q] = "probe" /\ UNCHANGED <<repoVars, turns, checkpoints, issued, deployment>>
        /\ pc[q] \in Active /\ "acquire" \in Active /\ "acquire" \notin Leased
        /\ pc[q] \in Confirmed
    BY DEF Probe, Active, BeforeLease, UnderLease, Leased, Confirmed
  <1>2. StoresTyped'
    BY <1>1, StoresKept
  <1>3. CASE Goto(q, "acquire") /\ UNCHANGED loc
    BY <1>1, <1>2, <1>3, GoesOnStep
  <1>4. CASE Leave(q, None)
    BY <1>1, <1>2, <1>4, LeaveStep
  <1> QED
    BY <1>3, <1>4 DEF Probe

\* What acquire gives a request whose identity was confirmed.
LEMMA RepoAcquire ==
    ASSUME ChatInv, NEW q \in Requests, pc[q] = "acquire", Acquire(Id(q), q)
    PROVE  /\ [RepoNext]_repoVars
           /\ GrantTo(q) \in Handle /\ GrantTo(q) \in handles'
           /\ GrantTo(q).run = Run(q) /\ GrantTo(q).conv = Conv(q)
  <1>1. Validates(Id(q)) /\ Id(q) \in Identity /\ q \in Owners /\ Run(q) \in Runs
        /\ Conv(q) \in Convs
    BY RequestTypes DEF ChatInv, RecordConfirmed, Confirmed, Active, BeforeLease
  <1>2. [RepoNext]_repoVars
    BY <1>1 DEF RepoNext, ConfirmedAcquire
  <1>3. leases[Conv(q)].token \in Nat
    BY <1>1 DEF ChatInv, ChatTypeOK, RepoTypeOK, LeaseRow
  <1>4. leases[Conv(q)].token + 1 \in Nat
    BY <1>3
  <1>5. GrantTo(q) \in Handle /\ GrantTo(q).run = Run(q) /\ GrantTo(q).conv = Conv(q)
    BY <1>1, <1>4 DEF GrantTo, Handle
  <1>6. GrantTo(q) \in handles'
    BY DEF Acquire, GrantTo, Id, Run, Conv
  <1> QED
    BY <1>2, <1>5, <1>6

\* The lease is granted or refused.
LEMMA TakeLeaseStep ==
    ASSUME ChatInv, NEW q \in Requests, TakeLease(q)
    PROVE  RequestStep(q)
  <1>1. /\ pc[q] = "acquire" /\ UNCHANGED <<turns, checkpoints, issued, deployment>>
        /\ pc[q] \in Active /\ "execute" \in Active /\ pc[q] \in Confirmed
    BY DEF TakeLease, Active, BeforeLease, UnderLease, Leased, Confirmed
  <1>2. StoresTyped'
    BY <1>1, StoresKept
  <1>3. CASE Acquire(Id(q), q) /\ loc' = [loc EXCEPT ![q].lease = GrantTo(q)] /\ Goto(q, "execute")
    <2> DEFINE x == [loc[q] EXCEPT !.lease = GrantTo(q)]
    <2>1. /\ [RepoNext]_repoVars /\ GrantTo(q) \in Handle /\ GrantTo(q) \in handles'
          /\ GrantTo(q).run = Run(q) /\ GrantTo(q).conv = Conv(q)
      BY <1>1, <1>3, RepoAcquire
    <2>2. /\ x \in Local /\ x.id = loc[q].id /\ x.lease = GrantTo(q)
          /\ loc' = [loc EXCEPT ![q] = x]
      BY <1>3, <2>1, RequestTypes DEF Local
    <2> HIDE DEF x
    <2>3. Moves(q) /\ pc'[q] = "execute" /\ loc'[q] = x
      BY <1>1, <1>3, <2>2, GoesOn
    <2> QED
      BY <1>1, <1>2, <2>1, <2>2, <2>3 DEF RequestStep
  <1>4. CASE Leave(q, None) /\ (UNCHANGED repoVars \/ Acquire(Id(q), q))
    BY <1>1, <1>2, <1>4, LeaveStep, RepoAcquire
  <1> QED
    BY <1>3, <1>4 DEF TakeLease, Reject, DbError

\* The graph writes a checkpoint.
LEMMA CheckpointStep ==
    ASSUME ChatInv, NEW q \in Requests, Checkpoint(q)
    PROVE  RequestStep(q)
  <1>1. /\ pc[q] = "execute" /\ UNCHANGED <<repoVars, pc, loc, gate, turns, issued, deployment>>
        /\ checkpoints' = [checkpoints EXCEPT ![Thread(q)] = "partial"]
    BY DEF Checkpoint
  <1>2. StoresTyped'
    BY <1>1 DEF ChatInv, ChatTypeOK, StoresTyped
  <1>3. Moves(q)
    BY <1>1 DEF ChatInv, ChatTypeOK, Moves, Stays, SameId, Active, UnderLease
  <1> QED
    BY <1>1, <1>2, <1>3 DEF RequestStep, Confirmed, Leased, Active, UnderLease

\* The graph ends or raises.
LEMMA ReturnsStep ==
    ASSUME ChatInv, NEW q \in Requests, Returns(q)
    PROVE  RequestStep(q)
  <1>1. PICK p \in deployment.payloads, status \in {"completed", "failed"} : Finish(q, p, status)
    BY DEF Returns
  <1>2. deployment \in Deployment /\ loc[q] \in Local
    BY RequestTypes
  <1>3. p \in Payloads
    BY <1>2 DEF Deployment
  <1> DEFINE x == [loc[q] EXCEPT !.resp = p, !.status = status]
  <1>4. x \in Local /\ x.id = loc[q].id /\ x.resp = p /\ x.lease = loc[q].lease
    BY <1>2, <1>3 DEF Local
  <1>5. /\ pc[q] = "execute" /\ UNCHANGED <<repoVars, turns, issued, deployment>>
        /\ pc[q] \in Active /\ pc[q] \in Confirmed /\ pc[q] \in Leased /\ "settle" \in Active
    BY <1>1 DEF Finish, Active, UnderLease, Confirmed, Leased
  <1>6. loc' = [loc EXCEPT ![q] = x] /\ Goto(q, "settle")
    BY <1>1 DEF Finish
  <1>7. StoresTyped'
    BY <1>1, <1>3, <1>5 DEF Finish, ChatInv, ChatTypeOK, StoresTyped
  <1> HIDE DEF x
  <1>8. Moves(q) /\ pc'[q] = "settle" /\ loc'[q] = x
    BY <1>4, <1>5, <1>6, GoesOn
  <1> QED
    BY <1>3, <1>4, <1>5, <1>7, <1>8 DEF RequestStep

\* A request under its lease goes on within the leased places.
LEMMA LeasedStep ==
    ASSUME ChatInv, NEW q \in Requests, pc[q] \in Leased, NEW l \in Leased, Goto(q, l),
           deployment' = deployment, [RepoNext]_repoVars, StoresTyped',
           \/ UNCHANGED loc
           \/ loc' = [loc EXCEPT ![q].reply = loc[q].resp],
           l \in {"settle", "append", "commit"} => loc[q].resp \in Payloads
    PROVE  RequestStep(q)
  <1>1. pc[q] \in Active /\ l \in Active /\ pc[q] \in Confirmed
        /\ l \notin {"replay", "reconcile"}
    BY Places DEF Leased, UnderLease
  <1>2. CASE UNCHANGED loc
    BY <1>1, <1>2, GoesOnStep
  <1>3. CASE loc' = [loc EXCEPT ![q].reply = loc[q].resp]
    <2> DEFINE x == [loc[q] EXCEPT !.reply = loc[q].resp]
    <2>1. /\ x \in Local /\ x.id = loc[q].id /\ x.lease = loc[q].lease /\ x.resp = loc[q].resp
          /\ loc' = [loc EXCEPT ![q] = x]
      BY <1>3, RequestTypes DEF Local
    <2> HIDE DEF x
    <2>2. Moves(q) /\ pc'[q] = l /\ loc'[q] = x
      BY <1>1, <2>1, GoesOn
    <2> QED
      BY <1>1, <2>1, <2>2 DEF RequestStep
  <1> QED
    BY <1>2, <1>3

\* The fenced operations, presented with a lease that was granted.
LEMMA RepoFenced ==
    ASSUME ChatInv, NEW q \in Requests, pc[q] \in Leased
    PROVE  /\ Renew(loc[q].lease) => RepoNext
           /\ Release(loc[q].lease) => RepoNext
           /\ \A status \in Outcomes, p \in Payloads \cup {None} :
                 MarkTerminal(loc[q].lease, status, p) => RepoNext
           /\ \A p \in Payloads \cup {None} : MarkHistoryCommitted(loc[q].lease, p) => RepoNext
  <1>1. loc[q].lease \in handles
    BY DEF ChatInv, LeaseGranted
  <1> QED
    BY <1>1 DEF RepoNext, LeaseOperation

\* The heartbeat renews the lease or finds it lost.
LEMMA HeartbeatStep ==
    ASSUME ChatInv, NEW q \in Requests, Heartbeat(q)
    PROVE  RequestStep(q)
  <1>1. /\ pc[q] = "execute" /\ UNCHANGED <<turns, checkpoints, issued, deployment>>
        /\ pc[q] \in Leased /\ "release" \in Leased /\ "interrupt" \in Leased
        /\ pc[q] \in Active /\ pc[q] \in Confirmed
    BY DEF Heartbeat, HeartbeatAlive, Leased, UnderLease, Active, Confirmed
  <1>2. StoresTyped'
    BY <1>1, StoresKept
  <1>3. CASE Renew(loc[q].lease) /\ UNCHANGED <<pc, gate, loc>>
    <2>1. [RepoNext]_repoVars
      BY <1>1, <1>3, RepoFenced
    <2>2. Moves(q)
      BY <1>1, <1>3 DEF ChatInv, ChatTypeOK, Moves, Stays, SameId
    <2> QED
      BY <1>1, <1>2, <1>3, <2>1, <2>2 DEF RequestStep
  <1>4. ASSUME NEW l \in {"release", "interrupt"}, Goto(q, l), UNCHANGED loc, UNCHANGED repoVars
        PROVE  RequestStep(q)
    BY <1>1, <1>2, <1>4, LeasedStep
  <1> QED
    BY <1>3, <1>4 DEF Heartbeat, StaleLease, DbError, RuntimeFailure

\* The outcome is stored.
LEMMA SettleStep ==
    ASSUME ChatInv, NEW q \in Requests, Settle(q)
    PROVE  RequestStep(q)
  <1>1. /\ pc[q] = "settle" /\ UNCHANGED <<turns, checkpoints, issued, deployment>>
        /\ pc[q] \in Leased
    BY DEF Settle, Leased, UnderLease
  <1>2. StoresTyped' /\ loc[q].resp \in Payloads /\ loc[q].status \in Outcomes
    BY <1>1, StoresKept, RequestTypes
       DEF ChatInv, ResponseThere, Local, Outcomes, TerminalStatuses
  <1>3. MarkTerminal(loc[q].lease, loc[q].status, loc[q].resp) => RepoNext
    BY <1>1, <1>2, RepoFenced
  <1>4. ASSUME NEW l \in {"append", "release", "interrupt"}, Goto(q, l), UNCHANGED loc,
               [RepoNext]_repoVars
        PROVE  RequestStep(q)
    <2>1. l \in Leased
      BY DEF Leased, UnderLease
    <2> QED
      BY <1>1, <1>2, <1>4, <2>1, LeasedStep
  <1> QED
    BY <1>3, <1>4 DEF Settle, StaleLease, DbError, RuntimeFailure

\* The turn is appended to the history.
LEMMA AppendStep ==
    ASSUME ChatInv, NEW q \in Requests, Append(q)
    PROVE  RequestStep(q)
  <1>1. /\ pc[q] = "append" /\ UNCHANGED <<repoVars, checkpoints, issued, deployment>>
        /\ pc[q] \in Leased /\ "commit" \in Leased /\ "release" \in Leased
    BY DEF Append, Leased, UnderLease
  <1>2. loc[q].resp \in Payloads /\ Run(q) \in Runs
    BY <1>1, RequestTypes DEF ChatInv, ResponseThere
  <1>3. StoresTyped'
    BY <1>1, <1>2, AppendTurnTyped DEF Append
  <1>4. CASE Goto(q, "commit") /\ UNCHANGED loc
    BY <1>1, <1>2, <1>3, <1>4, LeasedStep
  <1>5. CASE HistoryFailed(q)
    BY <1>1, <1>2, <1>3, <1>5, LeasedStep DEF HistoryFailed
  <1> QED
    BY <1>4, <1>5 DEF Append

\* The history is noted in the record.
LEMMA CommitHistoryStep ==
    ASSUME ChatInv, NEW q \in Requests, CommitHistory(q)
    PROVE  RequestStep(q)
  <1>1. /\ pc[q] = "commit" /\ UNCHANGED <<turns, checkpoints, issued, deployment>>
        /\ pc[q] \in Leased /\ "release" \in Leased
    BY DEF CommitHistory, Leased, UnderLease
  <1>2. StoresTyped' /\ loc[q].resp \in Payloads
    BY <1>1, StoresKept DEF ChatInv, ResponseThere
  <1>3. MarkHistoryCommitted(loc[q].lease, loc[q].resp) => RepoNext
    BY <1>1, <1>2, RepoFenced
  <1>4. ASSUME Goto(q, "release"), [RepoNext]_repoVars,
               UNCHANGED loc \/ loc' = [loc EXCEPT ![q].reply = loc[q].resp]
        PROVE  RequestStep(q)
    BY <1>1, <1>2, <1>4, LeasedStep
  <1> QED
    BY <1>3, <1>4 DEF CommitHistory, StaleLease, DbError, RuntimeFailure

\* The run is marked interrupted.
LEMMA InterruptStep ==
    ASSUME ChatInv, NEW q \in Requests, Interrupt(q)
    PROVE  RequestStep(q)
  <1>1. /\ pc[q] = "interrupt" /\ UNCHANGED <<loc, turns, checkpoints, issued, deployment>>
        /\ pc[q] \in Leased /\ "release" \in Leased
    BY DEF Interrupt, Leased, UnderLease
  <1>2. StoresTyped'
    BY <1>1, StoresKept
  <1>3. MarkTerminal(loc[q].lease, "interrupted", None) => RepoNext
    BY <1>1, RepoFenced DEF Outcomes
  <1>4. ASSUME Goto(q, "release"), [RepoNext]_repoVars PROVE RequestStep(q)
    BY <1>1, <1>2, <1>4, LeasedStep
  <1> QED
    BY <1>3, <1>4 DEF Interrupt, InterruptFailed, DbError

\* The lease is released.
LEMMA ReleaseLeaseStep ==
    ASSUME ChatInv, NEW q \in Requests, ReleaseLease(q)
    PROVE  RequestStep(q)
  <1>1. /\ pc[q] = "release" /\ UNCHANGED <<turns, checkpoints, issued, deployment>>
        /\ pc[q] \in Leased /\ pc[q] \in Active
    BY DEF ReleaseLease, Leased, UnderLease, Active
  <1>2. StoresTyped' /\ loc[q].reply \in Payloads \cup {None}
    BY <1>1, StoresKept, RequestTypes DEF Local
  <1>3. Release(loc[q].lease) => RepoNext
    BY <1>1, RepoFenced
  <1>4. ASSUME NEW p \in {loc[q].reply, None}, Leave(q, p), [RepoNext]_repoVars
        PROVE  RequestStep(q)
    BY <1>1, <1>2, <1>4, LeaveStep
  <1> QED
    BY <1>3, <1>4 DEF ReleaseLease, DbError

\* A cancellation at any await.
LEMMA CancelStep ==
    ASSUME ChatInv, NEW q \in Requests, Cancel(q)
    PROVE  RequestStep(q)
  <1>1. /\ UNCHANGED <<repoVars, turns, checkpoints, issued, deployment>> /\ StoresTyped'
        /\ "release" \in Leased /\ "interrupt" \in Leased
        /\ BeforeLease \cup {"release"} \subseteq Active /\ UnderLease \subseteq Leased
    BY StoresKept DEF Cancel, Leased, Active
  <1>2. CASE pc[q] \in BeforeLease \cup {"release"} /\ Leave(q, None)
    BY <1>1, <1>2, LeaveStep
  <1>3. CASE pc[q] \in UnderLease /\ Goto(q, "interrupt") /\ UNCHANGED loc
    BY <1>1, <1>3, LeasedStep
  <1>4. CASE pc[q] = "interrupt" /\ Goto(q, "release") /\ UNCHANGED loc
    BY <1>1, <1>4, LeasedStep
  <1> QED
    BY <1>2, <1>3, <1>4 DEF Cancel

\* Whatever a request does is such a step.
RequestNext(q) ==
    \/ \E hash \in deployment.hashes, resumed, supplied \in BOOLEAN :
          Submit(q, hash, resumed, supplied)
    \/ Step(q) \/ Checkpoint(q) \/ Returns(q) \/ Heartbeat(q) \/ Cancel(q)

\* Every step of a request.
LEMMA RequestNextStep ==
    ASSUME ChatInv, NEW q \in Requests, RequestNext(q)
    PROVE  RequestStep(q)
  <1>1. CASE Step(q)
    BY <1>1, LoadStep, MigrateStep, ReplayAppendStep, ReconcileStep, ProbeStep, TakeLeaseStep,
       SettleStep, AppendStep, CommitHistoryStep, InterruptStep, ReleaseLeaseStep DEF Step
  <1> QED
    BY <1>1, SubmitStep, CheckpointStep, ReturnsStep, HeartbeatStep, CancelStep DEF RequestNext

\* A crash ends the requests of one process and empties its gate.
LEMMA CrashInv ==
    ASSUME ChatInv, NEW p \in Procs, Crash(p)
    PROVE  ChatInv'
  <1> DEFINE dies(q) == ProcOf[q] = p /\ pc[q] \in Active
  <1>1. /\ UNCHANGED <<records, leases, handles, turns, checkpoints, issued, deployment>>
        /\ ProcOf' = ProcOf /\ RunOf' = RunOf /\ ConvOf' = ConvOf
        /\ gate' = [gate EXCEPT ![p] = [c \in Convs |-> None]]
    BY DEF Crash, repoVars, ProcOf, RunOf, ConvOf
  <1>2. \A q \in Requests : /\ loc[q] \in Local /\ pc[q] \in Labels /\ ProcOf[q] \in Procs
                            /\ [loc[q] EXCEPT !.reply = None] \in Local
                            /\ [loc[q] EXCEPT !.reply = None].id = loc[q].id
                            /\ Conv(q) \in Convs
    <2> SUFFICES ASSUME NEW q \in Requests
                 PROVE  /\ loc[q] \in Local /\ pc[q] \in Labels /\ ProcOf[q] \in Procs
                        /\ [loc[q] EXCEPT !.reply = None] \in Local
                        /\ [loc[q] EXCEPT !.reply = None].id = loc[q].id
                        /\ Conv(q) \in Convs
      OBVIOUS
    <2>1. loc[q] \in Local /\ pc[q] \in Labels /\ ProcOf[q] \in Procs /\ Conv(q) \in Convs
      BY RequestTypes
    <2> QED
      BY <2>1 DEF Local
  <1>3. \A q \in Requests : /\ pc'[q] = IF dies(q) THEN "done" ELSE pc[q]
                            /\ loc'[q] = IF dies(q) THEN [loc[q] EXCEPT !.reply = None] ELSE loc[q]
    BY DEF Crash
  <1>4. pc' \in [Requests -> Labels] /\ loc' \in [Requests -> Local]
    BY <1>2, Places DEF Crash
  <1>5. \A q \in Requests : /\ loc'[q].id = loc[q].id
                            /\ pc'[q] \in Active => pc'[q] = pc[q] /\ loc'[q] = loc[q] /\ ProcOf[q] # p
    BY <1>2, <1>3, Places
  <1>6. ChatTypeOK'
    <2>1. gate' \in [Procs -> [Convs -> Runs \cup {None}]]
      BY <1>1 DEF ChatInv, ChatTypeOK
    <2> QED
      BY <1>1, <1>4, <2>1 DEF ChatInv, ChatTypeOK, RepoTypeOK
  <1>7. OwnIds'
    BY <1>1, <1>5 DEF ChatInv, OwnIds, Run, Conv
  <1>8. GateHeld' /\ GateAlone'
    <2>1. \A x \in Procs : x # p => gate'[x] = gate[x]
      BY <1>1 DEF ChatInv, ChatTypeOK
    <2> QED
      BY <1>1, <1>2, <1>5, <2>1 DEF ChatInv, GateHeld, GateAlone, Run, Conv
  <1>9. GateUsed'
    <2> SUFFICES ASSUME NEW x \in Procs, NEW c \in Convs, gate'[x][c] # None
                 PROVE  \E q \in Requests : Inside(q, x, c)'
      BY DEF GateUsed
    <2>1. x # p /\ gate[x][c] # None
      BY <1>1 DEF ChatInv, ChatTypeOK
    <2>2. PICK q \in Requests : Inside(q, x, c)
      BY <2>1 DEF ChatInv, GateUsed
    <2>3. Inside(q, x, c)'
      BY <1>1, <1>3, <1>5, <2>1, <2>2 DEF Inside, Conv
    <2> QED
      BY <2>3
  <1>10. RecordConfirmed' /\ LeaseGranted' /\ ResponseThere'
    <2>1. \A q \in Requests : pc'[q] \in Active => pc'[q] = pc[q] /\ loc'[q] = loc[q]
      BY <1>5
    <2>2. RecordConfirmed'
      BY <1>1, <2>1, Places DEF ChatInv, RecordConfirmed, Validates, Exists, Id
    <2>3. LeaseGranted'
      BY <1>1, <2>1, Places DEF ChatInv, LeaseGranted, Run, Conv
    <2>4. ResponseThere'
      BY <1>1, <2>1 DEF ChatInv, ResponseThere, Active, BeforeLease, UnderLease
    <2> QED
      BY <2>2, <2>3, <2>4
  <1> QED
    BY <1>6, <1>7, <1>8, <1>9, <1>10 DEF ChatInv

\* Time and revocations change only the repository.
LEMMA RepoOnlyInv ==
    ASSUME ChatInv, [RepoNext]_repoVars,
           UNCHANGED <<pc, loc, gate, turns, checkpoints, issued, deployment>>
    PROVE  ChatInv'
  <1>1. RepoTypeOK' /\ BindingsKept
    BY TypeStep, RepoKeepsBindings DEF ChatInv, ChatTypeOK
  <1>2. \A q \in Requests : Run(q) \in Runs
    BY RequestTypes
  <1>3. ProcOf' = ProcOf /\ RunOf' = RunOf /\ ConvOf' = ConvOf
    BY DEF ProcOf, RunOf, ConvOf
  <1>4. ChatTypeOK' /\ OwnIds' /\ ResponseThere'
    BY <1>1, <1>3 DEF ChatInv, ChatTypeOK, OwnIds, ResponseThere, Run, Conv
  <1>5. GateHeld' /\ GateAlone' /\ GateUsed'
    BY <1>3 DEF ChatInv, GateHeld, GateAlone, GateUsed, Inside, Run, Conv
  <1>6. RecordConfirmed' /\ LeaseGranted'
    BY <1>1, <1>2 DEF ChatInv, RecordConfirmed, LeaseGranted, BindingsKept, Validates, Exists,
                      Id, Run, Conv
  <1> QED
    BY <1>4, <1>5, <1>6 DEF ChatInv

\* The steps of the runtime, for the proofs by cases.
LEMMA NextCases ==
    ASSUME ChatInv, [Next]_vars
    PROVE  \/ \E q \in Requests : RequestNext(q) /\ RequestStep(q)
           \/ \E p \in Procs : Crash(p)
           \/ /\ [RepoNext]_repoVars
              /\ UNCHANGED <<pc, loc, gate, turns, checkpoints, issued, deployment>>
              /\ (\E r \in Runs : Revoke(r)) \/ Clock \/ UNCHANGED repoVars
  <1>1. CASE \E q \in Requests : RequestNext(q)
    BY <1>1, RequestNextStep
  <1>2. ASSUME NEW r \in Runs, Revoke(r)
        PROVE  [RepoNext]_repoVars /\ UNCHANGED <<pc, loc, gate, turns, checkpoints, issued, deployment>>
    BY <1>2 DEF Revoke, RepoNext, RunOperation
  <1>3. CASE Clock
    BY <1>3 DEF Clock, RepoNext
  <1>4. CASE UNCHANGED vars
    BY <1>4 DEF vars, repoVars
  <1> QED
    BY <1>1, <1>2, <1>3, <1>4 DEF Next, RequestNext

\* Every step keeps the invariant and is a step of the repository or none.
LEMMA ChatStep == ChatInv /\ [Next]_vars => ChatInv' /\ [RepoNext]_repoVars
  <1> SUFFICES ASSUME ChatInv, [Next]_vars PROVE ChatInv' /\ [RepoNext]_repoVars
    OBVIOUS
  <1>1. CASE \E q \in Requests : RequestNext(q) /\ RequestStep(q)
    BY <1>1, RequestStepInv DEF RequestStep
  <1>2. CASE \E p \in Procs : Crash(p)
    BY <1>2, CrashInv DEF Crash
  <1>3. CASE /\ [RepoNext]_repoVars
             /\ UNCHANGED <<pc, loc, gate, turns, checkpoints, issued, deployment>>
    BY <1>3, RepoOnlyInv
  <1> QED
    BY <1>1, <1>2, <1>3, NextCases

\* A request's identity before it is submitted.
LEMMA InitialTypes ==
    ASSUME deployment \in Deployments, NEW q \in Requests
    PROVE  /\ InitialLocal(q) \in Local /\ InitialLocal(q).id \in Identity
           /\ InitialLocal(q).id.run = RunOf[q] /\ InitialLocal(q).id.conv = ConvOf[q]
           /\ InitialLocal(q).reply = None
  <1>1. /\ RunOf[q] \in Runs /\ ConvOf[q] \in Convs
        /\ deployment.hashes \subseteq Hashes /\ deployment.hashes # {}
    <2>1. deployment \in Deployment
      BY RuntimeAssumption
    <2>2. /\ deployment.run \in [Requests -> Runs] /\ deployment.conv \in [Requests -> Convs]
      BY <2>1 DEF Deployment
    <2>3. deployment.hashes \in (SUBSET Hashes) \ {{}}
      BY <2>1 DEF Deployment
    <2>4. deployment.hashes \subseteq Hashes /\ deployment.hashes # {}
      BY <2>3, Zenon
    <2> QED
      BY <2>2, <2>4 DEF RunOf, ConvOf
  <1> DEFINE h == CHOOSE h \in deployment.hashes : TRUE
  <1>2. h \in Hashes
    BY <1>1
  <1> HIDE DEF h
  <1>3. InitialLocal(q) =
          [ id |-> [run |-> RunOf[q], conv |-> ConvOf[q], hash |-> h],
            resumed |-> FALSE, supplied |-> TRUE, created |-> FALSE,
            status |-> "completed", resp |-> None, lease |-> None, reply |-> None ]
    BY DEF InitialLocal, h
  <1>4. [run |-> RunOf[q], conv |-> ConvOf[q], hash |-> h] \in Identity
    BY <1>1, <1>2 DEF Identity
  <1> QED
    BY <1>3, <1>4 DEF Local

\* The initial states.
LEMMA ChatInit == Init => ChatInv
  <1> SUFFICES ASSUME Init PROVE ChatInv
    OBVIOUS
  <1>1. /\ deployment \in Deployments /\ pc = [q \in Requests |-> "idle"]
        /\ loc = [q \in Requests |-> InitialLocal(q)]
        /\ gate = [p \in Procs |-> [c \in Convs |-> None]]
        /\ turns = [r \in Runs |-> None] /\ RepoTypeOK
    BY InvInit DEF Init, RepoInv
  <1>2. \A q \in Requests : /\ InitialLocal(q) \in Local /\ InitialLocal(q).id \in Identity
                            /\ InitialLocal(q).id.run = RunOf[q]
                            /\ InitialLocal(q).id.conv = ConvOf[q]
    BY <1>1, InitialTypes
  <1>3. checkpoints \in [Threads -> Payloads \cup {"partial", None}] /\ issued \subseteq Identity
    <2>1. PICK old \in SUBSET deployment.legacy :
            /\ checkpoints = [t \in Threads |-> IF t \in old THEN "partial" ELSE None]
            /\ issued = {InitialLocal(q).id :
                            q \in {q \in Requests : <<ConvOf[q], RunOf[q]>> \in old}}
      BY DEF Init
    <2> QED
      BY <1>2, <2>1
  <1>4. ChatTypeOK
    BY <1>1, <1>2, <1>3 DEF ChatTypeOK, Labels
  <1>5. OwnIds
    BY <1>1, <1>2 DEF OwnIds, Run, Conv
  <1>6. GateHeld /\ GateAlone /\ RecordConfirmed /\ LeaseGranted /\ ResponseThere
    BY <1>1, Places DEF GateHeld, GateAlone, RecordConfirmed, LeaseGranted, ResponseThere
  <1>7. GateUsed
    BY <1>1 DEF GateUsed
  <1> QED
    BY <1>4, <1>5, <1>6, <1>7 DEF ChatInv

\* The inductive invariant of the runtime, for any deployment.
LEMMA ChatInvariant == Spec => []ChatInv
  BY ChatInit, ChatStep, PTL DEF Spec

-----------------------------------------------------------------------------
(* Theorems for any deployment *)

\* The runtime's state stays well formed (chat_runtime.py as a whole).
THEOREM ChatTypeCorrect == Spec => []ChatTypeOK
  <1>1. ChatInv => ChatTypeOK
    BY DEF ChatInv
  <1> QED
    BY <1>1, ChatInvariant, PTL

\* In every process a conversation's gate admits one request at a time and is
\* taken exactly while one is inside (ConversationGate.hold), whatever the
\* interleaving, the faults and the crashes.
THEOREM GateExcludes == Spec => []GateExclusive
  <1>1. ChatInv => GateExclusive
    <2> SUFFICES ASSUME ChatInv, NEW p \in Procs, NEW c \in Convs
                 PROVE  LET inside == {q \in Requests : /\ ProcOf[q] = p /\ Conv(q) = c
                                                        /\ pc[q] \in Active}
                        IN  /\ Cardinality(inside) <= 1
                            /\ gate[p][c] # None <=> inside # {}
                            /\ \A q \in inside : gate[p][c] = Run(q)
      BY DEF GateExclusive
    <2> DEFINE inside == {q \in Requests : ProcOf[q] = p /\ Conv(q) = c /\ pc[q] \in Active}
    <2>1. \A q \in inside : gate[p][c] = Run(q) /\ Run(q) # None
      BY RequestTypes, Places DEF ChatInv, GateHeld
    <2>2. gate[p][c] # None <=> inside # {}
      BY <2>1 DEF ChatInv, GateUsed, Inside
    <2>3. Cardinality(inside) <= 1
      <3>1. CASE inside = {}
        BY <3>1, FS_EmptySet
      <3>2. CASE inside # {}
        <4>1. PICK q \in inside : TRUE
          BY <3>2
        <4>2. inside = {q}
          BY <4>1 DEF ChatInv, GateAlone
        <4>3. Cardinality(inside) = 1
          BY <4>2, FS_Singleton
        <4> QED
          BY <4>3
      <3> QED
        BY <3>1, <3>2
    <2> QED
      BY <2>1, <2>2, <2>3
  <1> QED
    BY <1>1, ChatInvariant, PTL

\* The runtime implements the repository's specification in every deployment:
\* acquire is called only with identities that create_or_get or get confirmed,
\* and fenced operations only with leases that were granted.
THEOREM UsesRepositoryProperly == Spec => ImplementsRepository
  <1>1. Init => RepoInit
    BY DEF Init
  <1>2. ChatInv /\ [Next]_vars => [RepoNext]_repoVars
    BY ChatStep
  <1> QED
    BY <1>1, <1>2, ChatInvariant, PTL DEF Spec, ImplementsRepository, RepoSpec

\* So what the repository promises holds of the runtime: leases agree with
\* records, and fencing tokens name one owner.
THEOREM RuntimeKeepsPromises == Spec => [](LeaseRecordAgreement /\ TokensNameOneOwner)
  BY UsesRepositoryProperly, LeasesAgree, TokensUnique, PTL DEF ImplementsRepository

-----------------------------------------------------------------------------
(* What the repository's operations do to a record *)

\* Nothing that the story of a run depends on.
SameOutcome(r) ==
    /\ records'[r].status = records[r].status /\ records'[r].payload = records[r].payload
    /\ records'[r].history = records[r].history

Elsewhere(r) == \A s \in Runs \ {r} : records'[s] = records[s]

\* What the repository's operations do to the records: a creation,
LEMMA CreateEffect ==
    ASSUME RepoTypeOK, NEW id \in Identity, CreateRecord(id)
    PROVE  /\ Elsewhere(id.run) /\ records[id.run].status = "absent"
           /\ records'[id.run].status = "pending" /\ records'[id.run].payload = None
           /\ ~records'[id.run].history
  BY DEF RepoTypeOK, CreateRecord, Identity, Elsewhere, NoRecord, Exists

\* a grant,
LEMMA AcquireEffect ==
    ASSUME RepoTypeOK, NEW id \in Identity, NEW o \in Owners, Acquire(id, o)
    PROVE  /\ Elsewhere(id.run) /\ records'[id.run].status = "running"
           /\ records'[id.run].payload = records[id.run].payload
           /\ records'[id.run].history = records[id.run].history
  BY DEF RepoTypeOK, Acquire, Identity, Elsewhere, RunRecord

\* a renewal,
LEMMA RenewEffect ==
    ASSUME RepoTypeOK, NEW h \in handles, Renew(h)
    PROVE  Elsewhere(h.run) /\ SameOutcome(h.run)
  <1>1. h.run \in Runs
    BY DEF RepoTypeOK, Handle
  <1> QED
    BY <1>1 DEF RepoTypeOK, Renew, Elsewhere, SameOutcome, RunRecord

\* a stored outcome,
LEMMA MarkEffect ==
    ASSUME RepoTypeOK, NEW h \in handles, NEW status, NEW p, MarkTerminal(h, status, p)
    PROVE  /\ Elsewhere(h.run) /\ records'[h.run].status = status
           /\ records'[h.run].payload = p
           /\ records'[h.run].history = records[h.run].history
  <1>1. h.run \in Runs
    BY DEF RepoTypeOK, Handle
  <1> QED
    BY <1>1 DEF RepoTypeOK, MarkTerminal, Elsewhere, RunRecord

\* and a note of the history.
LEMMA HistoryEffect ==
    ASSUME RepoTypeOK, NEW r \in Runs, NEW p \in Payloads,
           records' = [records EXCEPT ![r] = HistoryNoted(@, p)]
    PROVE  /\ Elsewhere(r) /\ records'[r].status = records[r].status
           /\ records'[r].payload = p
  BY RepositoryAssumption DEF RepoTypeOK, HistoryNoted, Elsewhere, RunRecord

-----------------------------------------------------------------------------
(* One process for the requests of a run *)

\* Two requests whose identities the record bears out are one.
LEMMA Alone ==
    ASSUME ChatInv, RunsStay, NEW q \in Requests, NEW o \in Requests, Run(o) = Run(q),
           pc[q] \in Active, Validates(Id(q)), pc[o] \in Confirmed
    PROVE  o = q
  <1>1. Validates(Id(o)) /\ pc[o] \in Active
    BY Places DEF ChatInv, RecordConfirmed
  <1>2. Conv(o) = Conv(q)
    BY <1>1 DEF Validates, Id, Run, Conv
  <1>3. ProcOf[o] = ProcOf[q]
    BY DEF ChatInv, OwnIds, RunsStay
  <1> QED
    BY <1>1, <1>2, <1>3 DEF ChatInv, GateAlone

\* What the step of request q does to the record and the turn of its run.
StoryStep(q) ==
    /\ Elsewhere(Run(q))
    /\ Story(q)' /\ Replied(q)'
    /\ pc[q] \in Confirmed \/ ~Exists(Run(q)) \/ records'[Run(q)] = records[Run(q)]
    /\ \/ OutcomeKept(Run(q))
       \/ /\ pc[q] = "interrupt" /\ pc'[q] = "release"
          /\ Faults \cap {"cancel", "ack_lost"} # {}
    /\ loc'[q].reply # None =>
          (pc[q] \in Active /\ Validates(Id(q))) \/ loc'[q].reply = loc[q].reply
    /\ pc'[q] \in Leased \ {"release"} =>
          /\ loc'[q].reply = None
          /\ \A o \in Requests : Run(o) = Run(q) => loc[o].reply = None

\* What StoryStep says of a step is enough for the story of every request.
LEMMA StoryStepInv ==
    ASSUME ChatInv, StoryInv, RunsStay, NEW q \in Requests, Moves(q), OwnIds', StoryStep(q)
    PROVE  \A o \in Requests : (Story(o) /\ Replied(o) /\ Unanswered(o))'
  <1>1. /\ \A o \in Requests \ {q} : pc'[o] = pc[o] /\ loc'[o] = loc[o]
        /\ Faults' = Faults /\ RunOf' = RunOf
    BY DEF Moves, Faults, RunOf
  <1>2. \A o \in Requests : Run(o)' = Run(o) /\ Run(o) \in Runs
    BY <1>1, RequestTypes DEF ChatInv, OwnIds
  <1>3. \A o \in Requests : Story(o) /\ Replied(o) /\ Unanswered(o)
    BY DEF StoryInv
  <1>4. ASSUME NEW o \in Requests, o # q
        PROVE  (Story(o) /\ Replied(o) /\ Unanswered(o))'
    <2>1. pc'[o] = pc[o] /\ loc'[o] = loc[o] /\ Run(o)' = Run(o)
      BY <1>1, <1>2, <1>4
    <2>2. pc[o] \in Confirmed => records'[Run(o)] = records[Run(o)]
      <3>1. CASE Run(o) # Run(q)
        BY <1>2, <3>1 DEF StoryStep, Elsewhere
      <3>2. CASE Run(o) = Run(q) /\ pc[o] \in Confirmed
        <4>1. Exists(Run(o))
          BY <3>2 DEF ChatInv, RecordConfirmed, Validates, Id, Run
        <4>2. pc[q] \notin Confirmed
          <5>1. SUFFICES ASSUME pc[q] \in Confirmed PROVE FALSE
            OBVIOUS
          <5>2. Validates(Id(q)) /\ pc[q] \in Active
            BY <5>1, Places DEF ChatInv, RecordConfirmed
          <5> QED
            BY <1>4, <3>2, <5>2, Alone
        <4> QED
          BY <3>2, <4>1, <4>2 DEF StoryStep
      <3> QED
        BY <3>1, <3>2
    <2>3. Story(o)'
      <3>1. CASE pc[o] \in Confirmed
        <4>1. Rec(o)' = Rec(o)
          BY <2>1, <2>2, <3>1 DEF Rec
        <4> QED
          BY <1>1, <1>3, <2>1, <4>1 DEF Story
      <3>2. CASE pc[o] \notin Confirmed
        BY <2>1, <3>2 DEF Story, Confirmed, Active, BeforeLease, UnderLease
      <3> QED
        BY <3>1, <3>2
    <2>4. Replied(o)'
      <3> SUFFICES ASSUME loc[o].reply # None PROVE Replied(o)'
        BY <2>1 DEF Replied
      <3>1. pc[o] \in {"release", "done"} /\ HasOutcome(Rec(o), loc[o].reply)
        BY <1>3 DEF Replied
      <3>2. CASE Run(o) # Run(q)
        <4>1. records'[Run(o)] = records[Run(o)]
          BY <1>2, <3>2 DEF StoryStep, Elsewhere
        <4>2. Rec(o)' = Rec(o)
          BY <2>1, <4>1 DEF Rec
        <4> QED
          BY <2>1, <3>1, <4>2 DEF Replied
      <3>3. CASE Run(o) = Run(q)
        <4>1. OutcomeKept(Run(o))
          <5>1. pc[q] # "interrupt"
            BY <1>3, <3>3 DEF Unanswered, Leased
          <5> QED
            BY <3>3, <5>1 DEF StoryStep
        <4>2. Rec(o)'.status = Rec(o).status /\ Rec(o)'.payload = Rec(o).payload
          BY <2>1, <3>1, <4>1 DEF Rec, OutcomeKept, HasOutcome
        <4> QED
          BY <2>1, <3>1, <4>2 DEF Replied, HasOutcome
      <3> QED
        BY <3>2, <3>3
    <2>5. Unanswered(o)'
      <3> SUFFICES ASSUME pc[o] \in Leased \ {"release"}, NEW u \in Requests, Run(u) = Run(o)
                   PROVE  loc'[u].reply = None
        BY <1>2, <2>1 DEF Unanswered
      <3>1. loc[u].reply = None
        BY <1>3 DEF Unanswered
      <3>2. CASE u # q
        BY <1>1, <3>1, <3>2
      <3>3. CASE u = q
        <4>1. pc[o] \in Confirmed
          BY Places
        <4>2. ~(pc[q] \in Active /\ Validates(Id(q)))
          BY <1>4, <3>3, <4>1, Alone
        <4> QED
          BY <3>1, <3>3, <4>2 DEF StoryStep
      <3> QED
        BY <3>2, <3>3
    <2> QED
      BY <2>3, <2>4, <2>5
  <1>5. Unanswered(q)'
    <2> SUFFICES ASSUME pc'[q] \in Leased \ {"release"}, NEW u \in Requests, Run(u) = Run(q)
                 PROVE  loc'[u].reply = None
      BY <1>2 DEF Unanswered
    <2> QED
      BY <1>1 DEF StoryStep
  <1> QED
    BY <1>4, <1>5 DEF StoryStep

\* A step of request q, where the requests for a run reach one process.
Setting(q) == ChatInv /\ StoryInv /\ RunsStay /\ RequestStep(q) /\ ChatInv'

\* What is known of a request before its step.
LEMMA StoryFacts ==
    ASSUME NEW q \in Requests, Setting(q)
    PROVE  /\ Run(q) \in Runs /\ Run(q)' = Run(q) /\ Faults' = Faults
           /\ Story(q) /\ Replied(q) /\ Unanswered(q)
           /\ pc[q] \notin {"release", "done"} => loc[q].reply = None
           /\ pc[q] \in Confirmed => Validates(Id(q))
  <1>1. Run(q) \in Runs /\ Story(q) /\ Replied(q) /\ Unanswered(q)
    BY RequestTypes DEF Setting, StoryInv
  <1>2. deployment' = deployment
    BY DEF Setting, RequestStep, Moves
  <1>3. Run(q)' = Run(q) /\ Faults' = Faults
    BY <1>2 DEF Setting, ChatInv, OwnIds, RunOf, Faults
  <1> QED
    BY <1>1, <1>3 DEF Setting, ChatInv, RecordConfirmed, Replied

\* The record is left as it is, for all that matters.
Undisturbed(q) ==
    /\ Elsewhere(Run(q)) /\ OutcomeKept(Run(q))
    /\ pc[q] \in Confirmed \/ ~Exists(Run(q)) \/ records'[Run(q)] = records[Run(q)]

\* A step without a write disturbs nobody.
LEMMA SameRecords ==
    ASSUME NEW q \in Requests, records' = records
    PROVE  Undisturbed(q)
  BY DEF Undisturbed, Elsewhere, OutcomeKept

\* A request may leave with a response only if it is the stored outcome.
LEMMA StoryLeaves ==
    ASSUME NEW q \in Requests, Setting(q), pc[q] \in Active, NEW p \in Payloads \cup {None},
           Leave(q, p), Undisturbed(q),
           p # None => pc[q] \in Confirmed /\ HasOutcome(records'[Run(q)], p)
    PROVE  StoryStep(q)
  <1>1. pc'[q] = "done" /\ loc'[q] = [loc[q] EXCEPT !.reply = p] /\ loc[q] \in Local
    BY LeaveMoves, RequestTypes DEF Setting, RequestStep, Moves
  <1>2. loc'[q].reply = p
    BY <1>1 DEF Local
  <1>3. Run(q)' = Run(q)
    BY StoryFacts
  <1>4. Rec(q)' = records'[Run(q)]
    BY <1>3 DEF Rec
  <1>5. Story(q)' /\ Replied(q)'
    BY <1>1, <1>2, <1>4 DEF Story, Replied
  <1>6. p # None => Validates(Id(q))
    BY StoryFacts
  <1> QED
    BY <1>1, <1>2, <1>5, <1>6, Places DEF StoryStep, Undisturbed

\* A request goes on; to work under the lease nobody may have been answered.
LEMMA StoryGoesOn ==
    ASSUME NEW q \in Requests, Setting(q), pc[q] \in Active \ {"release"}, Undisturbed(q),
           loc'[q].reply = loc[q].reply, Story(q)',
           pc'[q] \in Leased \ {"release"} =>
              \A o \in Requests : Run(o) = Run(q) => loc[o].reply = None
    PROVE  StoryStep(q)
  <1>1. loc'[q].reply = None
    BY StoryFacts, Places
  <1> QED
    BY <1>1 DEF StoryStep, Undisturbed, Replied

\* A reply is given out: the outcome is stored.
LEMMA StoryAnswers ==
    ASSUME NEW q \in Requests, Setting(q), pc[q] \in Confirmed, Undisturbed(q),
           pc'[q] = "release", loc'[q].reply # None => HasOutcome(records'[Run(q)], loc'[q].reply)
    PROVE  StoryStep(q)
  <1>1. Run(q)' = Run(q) /\ Validates(Id(q))
    BY StoryFacts
  <1>2. Rec(q)' = records'[Run(q)]
    BY <1>1 DEF Rec
  <1> QED
    BY <1>1, <1>2, Places DEF StoryStep, Undisturbed, Replied, Story

-----------------------------------------------------------------------------
(* Their steps *)

\* A request enters without a reply.
LEMMA StorySubmit ==
    ASSUME NEW q \in Requests, Setting(q), NEW hash \in deployment.hashes,
           NEW resumed \in BOOLEAN, NEW supplied \in BOOLEAN, Submit(q, hash, resumed, supplied)
    PROVE  StoryStep(q)
  <1>1. pc[q] = "idle" /\ records' = records /\ pc'[q] \in {"load", "done"} /\ loc[q] \in Local
    BY RequestTypes DEF Setting, RequestStep, ChatInv, ChatTypeOK, Submit, GateRefuses, repoVars
  <1>2. loc'[q].reply = loc[q].reply
    BY <1>1 DEF Setting, ChatInv, ChatTypeOK, Submit, Local
  <1>3. loc[q].reply = None
    BY <1>1, StoryFacts
  <1> QED
    BY <1>1, <1>2, <1>3, SameRecords DEF StoryStep, Undisturbed, Story, Replied, Leased, UnderLease

\* The record is created: it was not there, so nothing is lost.
LEMMA StoryCreates ==
    ASSUME NEW q \in Requests, Setting(q), pc[q] \in {"load", "migrate"}, CreateRecord(Id(q)),
           pc'[q] \in {"probe", "acquire", "done"}, loc'[q].reply = None
    PROVE  StoryStep(q)
  <1>1. RepoTypeOK /\ Id(q) \in Identity /\ Id(q).run = Run(q)
    BY RequestTypes DEF Setting, ChatInv, ChatTypeOK, Id, Run
  <1>2. /\ Elsewhere(Run(q)) /\ records[Run(q)].status = "absent"
        /\ records'[Run(q)].status = "pending"
    BY <1>1, CreateEffect
  <1>3. Run(q)' = Run(q)
    BY StoryFacts
  <1>4. Rec(q)' = records'[Run(q)]
    BY <1>3 DEF Rec
  <1>5. OutcomeKept(Run(q)) /\ ~Exists(Run(q))
    BY <1>2 DEF OutcomeKept, TerminalStatuses, Exists
  <1>6. Story(q)' /\ Replied(q)'
    BY <1>2, <1>4 DEF Story, Replied
  <1> QED
    BY <1>2, <1>5, <1>6 DEF StoryStep, Leased, UnderLease

\* A replay returns the stored outcome; only an unfinished run goes on.
LEMMA StoryPreflight ==
    ASSUME NEW q \in Requests, Setting(q), pc[q] \in {"load", "migrate"}, Validates(Id(q)),
           UNCHANGED repoVars, NEW next \in {"probe", "acquire"}, Preflight(q, Rec(q), next)
    PROVE  StoryStep(q)
  <1>1. /\ loc[q] \in Local /\ Rec(q).payload \in Payloads \cup {None} /\ pc[q] \in Active
        /\ loc \in [Requests -> Local] /\ pc \in [Requests -> Labels]
    BY RequestTypes DEF Setting, ChatInv, ChatTypeOK, RunRecord, Active, BeforeLease
  <1>2. Run(q)' = Run(q) /\ loc[q].reply = None /\ records' = records /\ Undisturbed(q)
    BY StoryFacts, SameRecords DEF repoVars
  <1>3. Rec(q)' = Rec(q)
    BY <1>2 DEF Rec
  <1> DEFINE reply == IF Rec(q).history THEN Rec(q).payload ELSE None
             x == [loc[q] EXCEPT !.resp = Rec(q).payload, !.reply = reply]
  <1>4. x.resp = Rec(q).payload /\ x.reply = reply
    BY <1>1 DEF Local
  <1>5. CASE Replayable(Rec(q)) /\ loc' = [loc EXCEPT ![q].resp = Rec(q).payload,
                                                     ![q].reply = reply]
    <2>1. loc'[q] = x
      BY <1>1, <1>5
    <2>2. HasOutcome(Rec(q), Rec(q).payload)
      BY <1>5 DEF Replayable, HasOutcome
    <2>3. CASE pc'[q] = "done"
      <3>1. Story(q)' /\ Replied(q)'
        BY <1>3, <1>4, <2>1, <2>2, <2>3 DEF Story, Replied
      <3> QED
        BY <1>1, <1>2, <2>3, <3>1, Places DEF StoryStep, Undisturbed
    <2>4. CASE pc'[q] = "replay" /\ ~Rec(q).history
      <3>1. Story(q)' /\ loc'[q].reply = None
        BY <1>3, <1>4, <2>1, <2>2, <2>4 DEF Story
      <3> QED
        BY <1>1, <1>2, <2>4, <3>1, StoryGoesOn DEF Leased, UnderLease
    <2> QED
      BY <1>1, <1>5, <2>3, <2>4 DEF Preflight, Goto
  <1>6. CASE MayProceed(q, Rec(q)) /\ Goto(q, next) /\ UNCHANGED loc
    <2>1. pc'[q] = next
      BY <1>1, <1>6 DEF Goto
    <2>2. Story(q)'
      BY <1>3, <1>6, <2>1 DEF Story, MayProceed, LeaseExpired
    <2> QED
      BY <1>1, <1>2, <1>6, <2>1, <2>2, StoryGoesOn DEF Leased, UnderLease
  <1>7. CASE Leave(q, None)
    BY <1>1, <1>2, <1>7, StoryLeaves
  <1> QED
    BY <1>5, <1>6, <1>7 DEF Preflight

\* The status is read while the gate keeps the other requests out.
LEMMA StoryLoad ==
    ASSUME NEW q \in Requests, Setting(q), LoadFresh(q) \/ LoadResumed(q)
    PROVE  StoryStep(q)
  <1>1. /\ pc[q] = "load" /\ pc[q] \in Active /\ loc[q] \in Local
        /\ loc \in [Requests -> Local] /\ pc \in [Requests -> Labels]
    BY RequestTypes, Places DEF LoadFresh, LoadResumed, Setting, ChatInv, ChatTypeOK
  <1>2. loc[q].reply = None
    BY <1>1, StoryFacts
  <1>3. CASE CreateRecord(Id(q)) /\ loc' = [loc EXCEPT ![q].created = TRUE] /\ Goto(q, "probe")
    <2>1. loc'[q].reply = None /\ pc'[q] = "probe"
      BY <1>1, <1>2, <1>3 DEF Goto, Local
    <2> QED
      BY <1>1, <1>3, <2>1, StoryCreates
  <1>4. CASE UNCHANGED repoVars /\ Validates(Id(q)) /\ Preflight(q, Rec(q), "probe")
    BY <1>1, <1>4, StoryPreflight
  <1>5. CASE Leave(q, None) /\ UNCHANGED repoVars
    BY <1>1, <1>5, StoryLeaves, SameRecords DEF repoVars
  <1>6. CASE Leave(q, None) /\ CreateRecord(Id(q))
    <2>1. loc'[q].reply = None /\ pc'[q] = "done"
      BY <1>1, <1>6 DEF Leave, Local
    <2> QED
      BY <1>1, <1>6, <2>1, StoryCreates
  <1>7. CASE Goto(q, "migrate") /\ UNCHANGED <<repoVars, loc>>
    <2>1. pc'[q] = "migrate"
      BY <1>1, <1>7 DEF Goto
    <2>2. Story(q)'
      BY <2>1 DEF Story
    <2> QED
      BY <1>1, <1>7, <2>1, <2>2, StoryGoesOn, SameRecords DEF repoVars, Leased, UnderLease
  <1>8. CASE LoadFresh(q)
    BY <1>3, <1>4, <1>5, <1>6, <1>8 DEF LoadFresh, Reject, DbError
  <1>9. CASE LoadResumed(q)
    BY <1>4, <1>5, <1>7, <1>9 DEF LoadResumed, Matches
  <1> QED
    BY <1>8, <1>9

\* A migrated run has no outcome yet.
LEMMA StoryMigrate ==
    ASSUME NEW q \in Requests, Setting(q), Migrate(q)
    PROVE  StoryStep(q)
  <1>1. /\ pc[q] = "migrate" /\ pc[q] \in Active /\ pc \in [Requests -> Labels]
        /\ loc[q].reply = None
    BY StoryFacts DEF Migrate, Setting, ChatInv, ChatTypeOK, Active, BeforeLease
  <1>2. CASE CreateRecord(Id(q)) /\ Goto(q, "acquire") /\ UNCHANGED loc
    <2>1. pc'[q] = "acquire"
      BY <1>1, <1>2 DEF Goto
    <2> QED
      BY <1>1, <1>2, <2>1, StoryCreates
  <1>3. CASE Rec(q).status = "pending" /\ Goto(q, "acquire") /\ UNCHANGED <<loc, repoVars>>
    <2>1. pc'[q] = "acquire"
      BY <1>1, <1>3 DEF Goto
    <2>2. Rec(q)' = Rec(q)
      BY <1>3, StoryFacts DEF Rec, repoVars
    <2>3. Story(q)'
      BY <1>3, <2>1, <2>2 DEF Story
    <2> QED
      BY <1>1, <1>3, <2>1, <2>3, StoryGoesOn, SameRecords DEF repoVars, Leased, UnderLease
  <1>4. CASE Validates(Id(q)) /\ Preflight(q, Rec(q), "acquire") /\ UNCHANGED repoVars
    BY <1>1, <1>4, StoryPreflight
  <1>5. CASE Reject(q)
    BY <1>1, <1>5, StoryLeaves, SameRecords DEF Reject, repoVars
  <1>6. CASE Leave(q, None) /\ CreateRecord(Id(q))
    <2>1. loc'[q].reply = None /\ pc'[q] = "done"
      BY <1>1, <1>6, RequestTypes DEF Leave, Local, Setting, ChatInv, ChatTypeOK
    <2> QED
      BY <1>1, <1>6, <2>1, StoryCreates
  <1> QED
    BY <1>2, <1>3, <1>4, <1>5, <1>6 DEF Migrate

\* A replay returns what is stored, whether or not the history is repaired.
LEMMA StoryReplay ==
    ASSUME NEW q \in Requests, Setting(q), ReplayAppend(q)
    PROVE  StoryStep(q)
  <1>1. /\ pc[q] = "replay" /\ pc[q] \in Confirmed /\ pc[q] \in Active
        /\ pc \in [Requests -> Labels] /\ records' = records /\ loc[q].resp \in Payloads
    BY DEF ReplayAppend, Setting, ChatInv, ChatTypeOK, ResponseThere, Confirmed, Active, BeforeLease,
           repoVars
  <1>2. HasOutcome(Rec(q), loc[q].resp) /\ Run(q)' = Run(q) /\ Undisturbed(q)
    BY <1>1, StoryFacts, SameRecords DEF Story
  <1>3. CASE Goto(q, "reconcile") /\ UNCHANGED loc
    <2>1. pc'[q] = "reconcile" /\ Rec(q)' = Rec(q)
      BY <1>1, <1>2, <1>3 DEF Goto, Rec
    <2>2. Story(q)'
      BY <1>2, <1>3, <2>1 DEF Story
    <2> QED
      BY <1>1, <1>2, <1>3, <2>1, <2>2, StoryGoesOn DEF Leased, UnderLease
  <1>4. CASE Leave(q, loc[q].resp)
    BY <1>1, <1>2, <1>4, StoryLeaves DEF Rec
  <1> QED
    BY <1>3, <1>4 DEF ReplayAppend, ReplayUncommitted

\* Noting the history keeps the outcome.
LEMMA StoryReconcile ==
    ASSUME NEW q \in Requests, Setting(q), Reconcile(q)
    PROVE  StoryStep(q)
  <1>1. /\ pc[q] = "reconcile" /\ pc[q] \in Confirmed /\ pc[q] \in Active
        /\ loc[q].resp \in Payloads /\ RepoTypeOK
    BY DEF Reconcile, Setting, ChatInv, ChatTypeOK, ResponseThere, Confirmed, Active, BeforeLease
  <1>2. HasOutcome(Rec(q), loc[q].resp) /\ Run(q) \in Runs
    BY <1>1, StoryFacts DEF Story
  <1>3. CASE ReconcileHistory(Run(q), loc[q].resp)
    <2>1. Undisturbed(q) /\ HasOutcome(records'[Run(q)], loc[q].resp)
      BY <1>1, <1>2, <1>3, HistoryEffect
         DEF ReconcileHistory, Undisturbed, OutcomeKept, HasOutcome, Rec
    <2> QED
      BY <1>1, <1>3, <2>1, StoryLeaves DEF Reconcile, Reject, DbError
  <1>4. CASE UNCHANGED repoVars /\ Leave(q, None)
    BY <1>1, <1>4, StoryLeaves, SameRecords DEF repoVars
  <1> QED
    BY <1>3, <1>4 DEF Reconcile, Reject, DbError

\* A probe writes nothing.
LEMMA StoryProbe ==
    ASSUME NEW q \in Requests, Setting(q), Probe(q)
    PROVE  StoryStep(q)
  <1>1. /\ pc[q] = "probe" /\ pc[q] \in Active /\ pc \in [Requests -> Labels]
        /\ records' = records /\ Undisturbed(q)
    BY SameRecords DEF Probe, Setting, ChatInv, ChatTypeOK, Active, BeforeLease, repoVars
  <1>2. CASE Goto(q, "acquire") /\ UNCHANGED loc
    <2>1. pc'[q] = "acquire" /\ Rec(q)' = Rec(q) /\ Story(q)
      BY <1>1, <1>2, StoryFacts DEF Goto, Rec
    <2>2. Story(q)'
      BY <1>1, <2>1 DEF Story, LeaseExpired
    <2> QED
      BY <1>1, <1>2, <2>1, <2>2, StoryGoesOn DEF Leased, UnderLease
  <1>3. CASE Leave(q, None)
    BY <1>1, <1>3, StoryLeaves
  <1> QED
    BY <1>2, <1>3 DEF Probe

\* A run that is taken up is unfinished, so nobody has a reply for it.
LEMMA StoryTakeLease ==
    ASSUME NEW q \in Requests, Setting(q), TakeLease(q)
    PROVE  StoryStep(q)
  <1>1. /\ pc[q] = "acquire" /\ pc[q] \in Confirmed /\ pc[q] \in Active
        /\ pc \in [Requests -> Labels] /\ loc \in [Requests -> Local] /\ RepoTypeOK
    BY DEF TakeLease, Setting, ChatInv, ChatTypeOK, Confirmed, Active, BeforeLease
  <1>2. /\ Rec(q).status \notin TerminalStatuses /\ loc[q].reply = None /\ Run(q)' = Run(q)
        /\ Id(q) \in Identity /\ Id(q).run = Run(q) /\ q \in Owners /\ loc[q] \in Local
    BY <1>1, StoryFacts, RequestTypes DEF Story, TerminalStatuses, Setting, Id, Run
  <1>3. ASSUME NEW o \in Requests, Run(o) = Run(q) PROVE loc[o].reply = None
    BY <1>2, <1>3 DEF Setting, StoryInv, Replied, HasOutcome, Rec
  <1>4. CASE Acquire(Id(q), q)
    <2>1. Elsewhere(Run(q)) /\ records'[Run(q)].status = "running"
      BY <1>1, <1>2, <1>4, AcquireEffect
    <2>2. Undisturbed(q)
      BY <1>1, <1>2, <2>1 DEF Undisturbed, OutcomeKept, Rec
    <2>3. CASE loc' = [loc EXCEPT ![q].lease = GrantTo(q)] /\ Goto(q, "execute")
      <3>1. loc'[q].reply = loc[q].reply /\ pc'[q] = "execute" /\ Rec(q)' = records'[Run(q)]
        BY <1>1, <1>2, <2>3 DEF Goto, Local, Rec
      <3>2. Story(q)'
        BY <2>1, <3>1 DEF Story
      <3> QED
        BY <1>1, <1>3, <2>2, <3>1, <3>2, StoryGoesOn
    <2>4. CASE Leave(q, None)
      BY <1>1, <2>2, <2>4, StoryLeaves
    <2> QED
      BY <1>4, <2>3, <2>4 DEF TakeLease, Reject
  <1>5. CASE UNCHANGED repoVars /\ Leave(q, None)
    BY <1>1, <1>5, StoryLeaves, SameRecords DEF repoVars
  <1> QED
    BY <1>4, <1>5 DEF TakeLease, Reject, DbError

\* A request under its lease that changes nothing in the record.
LEMMA StoryLeased ==
    ASSUME NEW q \in Requests, Setting(q), pc[q] \in Leased \ {"release"}, Undisturbed(q),
           loc'[q].reply = loc[q].reply, Story(q)'
    PROVE  StoryStep(q)
  <1>1. Unanswered(q) /\ pc[q] \in Active
    BY StoryFacts, Places
  <1> QED
    BY <1>1, StoryGoesOn DEF Unanswered

\* A checkpoint is no outcome.
LEMMA StoryCheckpoint ==
    ASSUME NEW q \in Requests, Setting(q), Checkpoint(q)
    PROVE  StoryStep(q)
  <1>1. pc[q] = "execute" /\ pc[q] \in Leased \ {"release"} /\ records' = records /\ UNCHANGED <<pc, loc>>
    BY DEF Checkpoint, Leased, UnderLease, repoVars
  <1>2. Rec(q)' = Rec(q) /\ Story(q) /\ Undisturbed(q)
    BY <1>1, StoryFacts, SameRecords DEF Rec
  <1>3. Story(q)'
    BY <1>1, <1>2 DEF Story
  <1> QED
    BY <1>1, <1>2, <1>3, StoryLeased

\* The answer of the graph is not stored yet.
LEMMA StoryReturns ==
    ASSUME NEW q \in Requests, Setting(q), Returns(q)
    PROVE  StoryStep(q)
  <1>1. PICK p \in deployment.payloads, status \in {"completed", "failed"} : Finish(q, p, status)
    BY DEF Returns
  <1>2. /\ pc[q] = "execute" /\ pc[q] \in Leased \ {"release"} /\ records' = records
        /\ loc' = [loc EXCEPT ![q].resp = p, ![q].status = status] /\ Goto(q, "settle")
    BY <1>1 DEF Finish, Leased, UnderLease, repoVars
  <1>3. loc \in [Requests -> Local] /\ pc \in [Requests -> Labels]
    BY DEF Setting, ChatInv, ChatTypeOK
  <1>4. pc'[q] = "settle" /\ loc'[q].reply = loc[q].reply
    BY <1>2, <1>3 DEF Goto, Local
  <1>5. Rec(q)' = Rec(q) /\ Story(q) /\ Undisturbed(q)
    BY <1>2, StoryFacts, SameRecords DEF Rec
  <1>6. Story(q)'
    BY <1>2, <1>4, <1>5 DEF Story
  <1> QED
    BY <1>2, <1>4, <1>5, <1>6, StoryLeased

\* A lease a request holds is one that was granted for its run.
LEMMA OwnLease ==
    ASSUME NEW q \in Requests, Setting(q), pc[q] \in Leased
    PROVE  loc[q].lease \in handles /\ loc[q].lease.run = Run(q) /\ RepoTypeOK
  BY DEF Setting, ChatInv, LeaseGranted, ChatTypeOK

\* A heartbeat moves an expiry and no outcome.
LEMMA StoryHeartbeat ==
    ASSUME NEW q \in Requests, Setting(q), Heartbeat(q)
    PROVE  StoryStep(q)
  <1>1. /\ pc[q] = "execute" /\ pc[q] \in Leased \ {"release"} /\ pc[q] \in Confirmed
        /\ pc \in [Requests -> Labels] /\ UNCHANGED loc
    BY DEF Heartbeat, HeartbeatAlive, StaleLease, RuntimeFailure, Leased, UnderLease, Confirmed,
           Active, Setting, ChatInv, ChatTypeOK
  <1>2. Rec(q).status = "running" /\ Run(q)' = Run(q)
    BY <1>1, StoryFacts DEF Story
  <1>3. CASE Renew(loc[q].lease) /\ UNCHANGED pc
    <2>1. Elsewhere(Run(q)) /\ SameOutcome(Run(q))
      BY <1>1, <1>3, OwnLease, RenewEffect
    <2>2. Undisturbed(q) /\ Rec(q)'.status = "running"
      BY <1>1, <1>2, <2>1 DEF Undisturbed, OutcomeKept, SameOutcome, Rec
    <2>3. Story(q)'
      BY <1>1, <1>3, <2>2 DEF Story
    <2> QED
      BY <1>1, <2>2, <2>3, StoryLeased
  <1>4. ASSUME NEW l \in {"release", "interrupt"}, Goto(q, l), UNCHANGED repoVars PROVE StoryStep(q)
    <2>1. pc'[q] = l /\ Rec(q)' = Rec(q) /\ Undisturbed(q)
      BY <1>1, <1>2, <1>4, SameRecords DEF Goto, Rec, repoVars
    <2>2. Story(q)'
      BY <1>2, <2>1 DEF Story
    <2> QED
      BY <1>1, <2>1, <2>2, StoryLeased
  <1> QED
    BY <1>3, <1>4 DEF Heartbeat, StaleLease, DbError, RuntimeFailure

\* The outcome is stored before anybody can receive it.
LEMMA StorySettle ==
    ASSUME NEW q \in Requests, Setting(q), Settle(q)
    PROVE  StoryStep(q)
  <1>1. /\ pc[q] = "settle" /\ pc[q] \in Leased \ {"release"} /\ pc[q] \in Confirmed
        /\ pc \in [Requests -> Labels] /\ UNCHANGED loc
    BY DEF Settle, StaleLease, RuntimeFailure, Leased, UnderLease, Confirmed,
           Active, Setting, ChatInv, ChatTypeOK
  <1>2. Rec(q).status = "running" /\ Run(q)' = Run(q) /\ Faults' = Faults
    BY <1>1, StoryFacts DEF Story
  <1>3. CASE MarkTerminal(loc[q].lease, loc[q].status, loc[q].resp)
    <2>1. /\ Elsewhere(Run(q)) /\ records'[Run(q)].status = loc[q].status
          /\ records'[Run(q)].payload = loc[q].resp
      BY <1>1, <1>3, OwnLease, MarkEffect
    <2>2. loc[q].status \in TerminalStatuses
      BY RequestTypes DEF Setting, Local, TerminalStatuses
    <2>3. Undisturbed(q) /\ HasOutcome(Rec(q)', loc[q].resp)
      BY <1>1, <1>2, <2>1, <2>2
         DEF Undisturbed, OutcomeKept, Rec, HasOutcome, TerminalStatuses
    <2>4. CASE Goto(q, "append")
      <3>1. pc'[q] = "append"
        BY <1>1, <2>4 DEF Goto
      <3>2. Story(q)'
        BY <1>1, <2>3, <3>1 DEF Story
      <3> QED
        BY <1>1, <2>3, <3>2, StoryLeased
    <2>5. CASE AckLost /\ Goto(q, "interrupt")
      <3>1. pc'[q] = "interrupt" /\ Faults' \cap {"cancel", "ack_lost"} # {}
        BY <1>1, <1>2, <2>5 DEF Goto, AckLost
      <3>2. Story(q)'
        BY <3>1 DEF Story
      <3> QED
        BY <1>1, <2>3, <3>2, StoryLeased
    <2>6. CASE ~MayWrite(loc[q].lease)
      BY <1>3, <2>6 DEF MarkTerminal
    <2>7. CASE UNCHANGED repoVars /\ Goto(q, "interrupt")
      <3>1. records'[Run(q)] = records[Run(q)]
        BY <2>7 DEF repoVars
      <3> QED
        BY <1>2, <2>1, <2>2, <3>1 DEF Rec, TerminalStatuses
    <2> QED
      BY <2>4, <2>5, <2>6, <2>7 DEF Settle, StaleLease, DbError, RuntimeFailure
  <1>4. ASSUME NEW l \in {"release", "interrupt"}, Goto(q, l), UNCHANGED repoVars PROVE StoryStep(q)
    <2>1. pc'[q] = l /\ Rec(q)' = Rec(q) /\ Undisturbed(q)
      BY <1>1, <1>2, <1>4, SameRecords DEF Goto, Rec, repoVars
    <2>2. Story(q)'
      BY <1>2, <2>1 DEF Story
    <2> QED
      BY <1>1, <2>1, <2>2, StoryLeased
  <1> QED
    BY <1>3, <1>4 DEF Settle, StaleLease, DbError, RuntimeFailure

\* The append of the turn keeps the record.
LEMMA StoryAppend ==
    ASSUME NEW q \in Requests, Setting(q), Append(q)
    PROVE  StoryStep(q)
  <1>1. /\ pc[q] = "append" /\ pc[q] \in Leased \ {"release"} /\ pc[q] \in Confirmed
        /\ pc \in [Requests -> Labels] /\ loc \in [Requests -> Local] /\ records' = records
    BY DEF Append, Leased, UnderLease, Confirmed, Active, Setting, ChatInv, ChatTypeOK, repoVars
  <1>2. HasOutcome(Rec(q), loc[q].resp) /\ Rec(q)' = Rec(q) /\ Undisturbed(q)
    BY <1>1, StoryFacts, SameRecords DEF Story, Rec
  <1>3. CASE Goto(q, "commit") /\ UNCHANGED loc
    <2>1. pc'[q] = "commit"
      BY <1>1, <1>3 DEF Goto
    <2>2. Story(q)'
      BY <1>2, <1>3, <2>1 DEF Story
    <2> QED
      BY <1>1, <1>2, <1>3, <2>2, StoryLeased
  <1>4. CASE HistoryFailed(q)
    <2>1. pc'[q] = "release" /\ loc'[q].reply = loc[q].resp
      BY <1>1, <1>4 DEF HistoryFailed, Goto, Local
    <2> QED
      BY <1>1, <1>2, <2>1, StoryAnswers DEF Rec
  <1> QED
    BY <1>3, <1>4 DEF Append

\* The note in the record keeps the outcome, which the client receives.
LEMMA StoryCommit ==
    ASSUME NEW q \in Requests, Setting(q), CommitHistory(q)
    PROVE  StoryStep(q)
  <1>1. /\ pc[q] = "commit" /\ pc[q] \in Leased \ {"release"} /\ pc[q] \in Confirmed
        /\ pc \in [Requests -> Labels] /\ loc \in [Requests -> Local] /\ loc[q].resp \in Payloads
        /\ RepoTypeOK
    BY DEF CommitHistory, Leased, UnderLease, Confirmed, Active, Setting, ChatInv, ChatTypeOK,
           ResponseThere
  <1>2. /\ HasOutcome(Rec(q), loc[q].resp) /\ Run(q) \in Runs /\ loc[q].reply = None
        /\ loc[q].lease.run = Run(q)
    BY <1>1, StoryFacts, OwnLease DEF Story
  <1>3. Undisturbed(q) /\ HasOutcome(records'[Run(q)], loc[q].resp)
    <2>1. CASE MarkHistoryCommitted(loc[q].lease, loc[q].resp)
      BY <1>1, <1>2, <2>1, HistoryEffect
         DEF MarkHistoryCommitted, Undisturbed, OutcomeKept, HasOutcome, Rec
    <2>2. CASE records' = records
      BY <1>2, <2>2, SameRecords DEF Rec
    <2> QED
      BY <2>1, <2>2 DEF CommitHistory, StaleLease, DbError, repoVars
  <1>4. pc'[q] = "release" /\ loc'[q].reply \in {None, loc[q].resp}
    <2>1. pc'[q] = "release"
      BY <1>1 DEF CommitHistory, StaleLease, RuntimeFailure, Goto
    <2>2. loc'[q].reply \in {None, loc[q].resp}
      BY <1>1, <1>2 DEF CommitHistory, StaleLease, RuntimeFailure, Local
    <2> QED
      BY <2>1, <2>2
  <1> QED
    BY <1>1, <1>3, <1>4, StoryAnswers

\* An interruption, after which nobody receives a response.
LEMMA StoryInterrupt ==
    ASSUME NEW q \in Requests, Setting(q), Interrupt(q)
    PROVE  StoryStep(q)
  <1>1. /\ pc[q] = "interrupt" /\ pc[q] \in Leased \ {"release"} /\ pc[q] \in Confirmed
        /\ pc \in [Requests -> Labels] /\ UNCHANGED loc /\ pc'[q] = "release"
    BY DEF Interrupt, InterruptFailed, Goto, Leased, UnderLease, Confirmed, Active, Setting, ChatInv,
           ChatTypeOK
  <1>2. /\ Rec(q).status = "running" \/ Faults \cap {"cancel", "ack_lost"} # {}
        /\ loc[q].reply = None
    BY <1>1, StoryFacts DEF Story
  <1>3. CASE MarkTerminal(loc[q].lease, "interrupted", None)
    <2>1. Elsewhere(Run(q))
      BY <1>1, <1>3, OwnLease, MarkEffect
    <2>2. OutcomeKept(Run(q)) \/ Faults \cap {"cancel", "ack_lost"} # {}
      BY <1>2 DEF OutcomeKept, Rec, TerminalStatuses
    <2> QED
      BY <1>1, <1>2, <2>1, <2>2, Places DEF StoryStep, Story, Replied
  <1>4. CASE UNCHANGED repoVars
    BY <1>1, <1>2, <1>4, StoryAnswers, SameRecords DEF repoVars
  <1> QED
    BY <1>3, <1>4 DEF Interrupt, InterruptFailed, DbError

\* The release comes last and keeps the record.
LEMMA StoryRelease ==
    ASSUME NEW q \in Requests, Setting(q), ReleaseLease(q)
    PROVE  StoryStep(q)
  <1>1. /\ pc[q] = "release" /\ pc[q] \in Active /\ pc[q] \in Confirmed /\ records' = records
    BY DEF ReleaseLease, Release, DbError, repoVars, Active, Confirmed
  <1>2. /\ loc[q].reply # None => HasOutcome(records'[Run(q)], loc[q].reply)
        /\ loc[q].reply \in Payloads \cup {None} /\ Undisturbed(q)
    BY <1>1, StoryFacts, SameRecords, RequestTypes DEF Replied, Rec, Setting, Local
  <1> QED
    BY <1>1, <1>2, StoryLeaves DEF ReleaseLease

\* A cancelled request leaves without a response.
LEMMA StoryCancel ==
    ASSUME NEW q \in Requests, Setting(q), Cancel(q)
    PROVE  StoryStep(q)
  <1>1. /\ "cancel" \in Faults /\ records' = records /\ pc \in [Requests -> Labels]
        /\ UnderLease \subseteq Leased \ {"release"}
        /\ "interrupt" \in Leased \ {"release"} /\ BeforeLease \cup {"release"} \subseteq Active
    BY DEF Cancel, repoVars, Setting, ChatInv, ChatTypeOK, Active, Leased, UnderLease
  <1>2. Undisturbed(q) /\ Faults' = Faults
    BY <1>1, SameRecords, StoryFacts
  <1>3. CASE pc[q] \in BeforeLease \cup {"release"} /\ Leave(q, None)
    BY <1>1, <1>2, <1>3, StoryLeaves
  <1>4. ASSUME NEW l \in {"interrupt", "release"}, pc[q] \in Leased \ {"release"}, Goto(q, l),
               UNCHANGED loc
        PROVE  StoryStep(q)
    <2>1. pc'[q] = l
      BY <1>1, <1>4 DEF Goto
    <2>2. Story(q)'
      BY <1>1, <1>2, <2>1 DEF Story
    <2> QED
      BY <1>2, <1>4, <2>2, StoryLeased
  <1> QED
    BY <1>1, <1>3, <1>4 DEF Cancel

\* Every step of a request.
LEMMA StoryRequest ==
    ASSUME NEW q \in Requests, Setting(q), RequestNext(q)
    PROVE  StoryStep(q)
  <1>1. CASE Step(q)
    BY <1>1, StoryLoad, StoryMigrate, StoryReplay, StoryReconcile, StoryProbe, StoryTakeLease,
       StorySettle, StoryAppend, StoryCommit, StoryInterrupt, StoryRelease DEF Step
  <1> QED
    BY <1>1, StorySubmit, StoryCheckpoint, StoryReturns, StoryHeartbeat, StoryCancel DEF RequestNext

\* What a crash, a revocation or the clock leaves of a record.
Quiet(r) == SameOutcome(r) /\ (LeaseExpired(records[r]) => LeaseExpired(records'[r]))

\* Steps of the surroundings take replies away at most.
LEMMA QuietStory ==
    ASSUME ChatInv, StoryInv, RunsStay, deployment' = deployment, \A r \in Runs : Quiet(r),
           \A q \in Requests :
              /\ loc'[q].id = loc[q].id
              /\ \/ pc'[q] = pc[q] /\ loc'[q] = loc[q]
                 \/ pc'[q] = "done" /\ loc'[q].reply = None
    PROVE  \A q \in Requests : (Story(q) /\ Replied(q) /\ Unanswered(q))'
  <1> SUFFICES ASSUME NEW q \in Requests PROVE (Story(q) /\ Replied(q) /\ Unanswered(q))'
    OBVIOUS
  <1>1. Run(q) \in Runs /\ Story(q) /\ Replied(q) /\ Unanswered(q)
    BY RequestTypes DEF StoryInv
  <1>2. (\A o \in Requests : Run(o)' = Run(o)) /\ Faults' = Faults
    BY DEF Run, Faults
  <1>3. Rec(q)' = records'[Run(q)] /\ Quiet(Run(q))
    BY <1>1, <1>2 DEF Rec
  <1>4. CASE pc'[q] = "done" /\ loc'[q].reply = None
    BY <1>4 DEF Story, Replied, Unanswered, Leased, UnderLease
  <1>5. CASE pc'[q] = pc[q] /\ loc'[q] = loc[q]
    <2>1. Story(q)'
      BY <1>1, <1>2, <1>3, <1>5 DEF Story, Rec, Quiet, SameOutcome, HasOutcome
    <2>2. Replied(q)'
      BY <1>1, <1>2, <1>3, <1>5 DEF Replied, Rec, Quiet, SameOutcome, HasOutcome
    <2>3. Unanswered(q)'
      BY <1>1, <1>2, <1>5 DEF Unanswered
    <2> QED
      BY <2>1, <2>2, <2>3
  <1> QED
    BY <1>4, <1>5

\* A crash ends the requests of a process and writes nothing.
LEMMA CrashQuiet ==
    ASSUME ChatInv, NEW p \in Procs, Crash(p)
    PROVE  /\ records' = records /\ turns' = turns /\ deployment' = deployment
           /\ \A q \in Requests :
                 /\ loc'[q].id = loc[q].id
                 /\ \/ pc'[q] = pc[q] /\ loc'[q] = loc[q]
                    \/ pc'[q] = "done" /\ loc'[q].reply = None
  <1>1. records' = records /\ turns' = turns /\ deployment' = deployment
    BY DEF Crash, repoVars
  <1>2. ASSUME NEW q \in Requests
        PROVE  /\ loc'[q].id = loc[q].id
               /\ \/ pc'[q] = pc[q] /\ loc'[q] = loc[q]
                  \/ pc'[q] = "done" /\ loc'[q].reply = None
    <2>1. loc[q] \in Local
      BY RequestTypes
    <2>2. /\ [loc[q] EXCEPT !.reply = None].id = loc[q].id
          /\ [loc[q] EXCEPT !.reply = None].reply = None
      BY <2>1 DEF Local
    <2> QED
      BY <2>2 DEF Crash
  <1> QED
    BY <1>1, <1>2

\* A record's lease that has expired stays so: time does not run backwards.
LEMMA ClockQuiet ==
    ASSUME ChatInv, (\E r \in Runs : Revoke(r)) \/ Clock \/ UNCHANGED repoVars
    PROVE  \A r \in Runs : Quiet(r)
  <1> SUFFICES ASSUME NEW r \in Runs PROVE Quiet(r)
    OBVIOUS
  <1>1. records[r] \in RunRecord /\ records \in [Runs -> RunRecord]
    BY DEF ChatInv, ChatTypeOK, RepoTypeOK
  <1>2. CASE UNCHANGED repoVars
    BY <1>2 DEF Quiet, SameOutcome, repoVars
  <1>3. ASSUME NEW s \in Runs, Revoke(s) PROVE Quiet(r)
    <2>1. records' = [records EXCEPT ![s].version = @ + 1]
      BY <1>3 DEF Revoke, RevokeResumeTokens
    <2>2. /\ SameOutcome(r) /\ records'[r].token = records[r].token
          /\ records'[r].expires = records[r].expires
      BY <1>1, <2>1 DEF SameOutcome, RunRecord
    <2> QED
      BY <2>2 DEF Quiet, LeaseExpired
  <1>4. CASE Clock
    <2>1. records'[r] = [records[r] EXCEPT !.expires = Elapse(@)]
      BY <1>4 DEF Clock, Tick
    <2>2. /\ SameOutcome(r) /\ records'[r].token = records[r].token
          /\ records'[r].expires = Elapse(records[r].expires)
      BY <1>1, <2>1 DEF SameOutcome, RunRecord
    <2>3. Elapse(0) = 0
      BY DEF Elapse
    <2> QED
      BY <2>2, <2>3 DEF Quiet, LeaseExpired
  <1> QED
    BY <1>2, <1>3, <1>4

\* What every step does to the outcomes.
Explained ==
    \A r \in Runs :
        \/ OutcomeKept(r)
        \/ \E q \in Requests :
              /\ Run(q) = r /\ pc[q] = "interrupt" /\ pc'[q] = "release"
              /\ Faults \cap {"cancel", "ack_lost"} # {}

\* Every step keeps the story, and explains a change of an outcome.
LEMMA StoryInvStep ==
    ASSUME ChatInv, ChatInv', StoryInv, RunsStay, [Next]_vars
    PROVE  /\ \A q \in Requests : (Story(q) /\ Replied(q) /\ Unanswered(q))'
           /\ Explained
  <1>1. ASSUME NEW q \in Requests, RequestNext(q), RequestStep(q)
        PROVE  /\ \A o \in Requests : (Story(o) /\ Replied(o) /\ Unanswered(o))'
               /\ Explained
    <2>1. Setting(q)
      BY <1>1 DEF Setting
    <2>2. StoryStep(q) /\ Moves(q) /\ OwnIds' /\ Run(q) \in Runs
      BY <1>1, <2>1, StoryRequest, StoryFacts DEF RequestStep, ChatInv
    <2>3. Explained
      <3> SUFFICES ASSUME NEW r \in Runs, ~OutcomeKept(r)
                   PROVE  /\ Run(q) = r /\ pc[q] = "interrupt" /\ pc'[q] = "release"
                          /\ Faults \cap {"cancel", "ack_lost"} # {}
        BY DEF Explained
      <3>1. r = Run(q)
        BY <2>2 DEF StoryStep, Elsewhere, OutcomeKept
      <3> QED
        BY <2>2, <3>1 DEF StoryStep
    <2> QED
      BY <2>2, <2>3, StoryStepInv
  <1>2. ASSUME NEW p \in Procs, Crash(p)
        PROVE  /\ \A o \in Requests : (Story(o) /\ Replied(o) /\ Unanswered(o))'
               /\ Explained
    <2>1. /\ records' = records /\ deployment' = deployment
          /\ \A q \in Requests :
                /\ loc'[q].id = loc[q].id
                /\ \/ pc'[q] = pc[q] /\ loc'[q] = loc[q]
                   \/ pc'[q] = "done" /\ loc'[q].reply = None
      BY <1>2, CrashQuiet
    <2>2. \A r \in Runs : Quiet(r) /\ OutcomeKept(r)
      BY <2>1 DEF Quiet, SameOutcome, OutcomeKept
    <2> QED
      BY <2>1, <2>2, QuietStory DEF Explained
  <1>3. ASSUME UNCHANGED <<pc, loc, deployment>>,
               (\E r \in Runs : Revoke(r)) \/ Clock \/ UNCHANGED repoVars
        PROVE  /\ \A o \in Requests : (Story(o) /\ Replied(o) /\ Unanswered(o))'
               /\ Explained
    <2>1. \A r \in Runs : Quiet(r)
      BY <1>3, ClockQuiet
    <2>2. \A r \in Runs : OutcomeKept(r)
      BY <2>1 DEF Quiet, SameOutcome, OutcomeKept
    <2> QED
      BY <1>3, <2>1, <2>2, QuietStory DEF Explained
  <1> QED
    BY <1>1, <1>2, <1>3, NextCases

\* The deployment is fixed.
LEMMA DeploymentFixed ==
    ASSUME ChatInv, [Next]_vars
    PROVE  deployment' = deployment
  <1>1. ASSUME NEW q \in Requests, RequestStep(q) PROVE deployment' = deployment
    BY <1>1 DEF RequestStep, Moves
  <1>2. ASSUME NEW p \in Procs, Crash(p) PROVE deployment' = deployment
    BY <1>2, CrashQuiet
  <1> QED
    BY <1>1, <1>2, NextCases

\* The story of every request holds where the requests for a run reach one
\* process.
LEMMA StoryInvariant == Spec => []StoryInv /\ [][RunsStay => Explained]_vars
  <1>1. Init => StoryInv
    <2> SUFFICES ASSUME Init, NEW q \in Requests PROVE Story(q) /\ Replied(q) /\ Unanswered(q)
      BY DEF StoryInv
    <2>1. pc[q] = "idle" /\ loc[q].reply = None
      BY DEF Init, InitialLocal
    <2> QED
      BY <2>1 DEF Story, Replied, Unanswered, Leased, UnderLease
  <1>2. ChatInv /\ ChatInv' /\ StoryInv /\ [Next]_vars => StoryInv' /\ (RunsStay => Explained)
    <2> SUFFICES ASSUME ChatInv, ChatInv', StoryInv, [Next]_vars
                 PROVE  StoryInv' /\ (RunsStay => Explained)
      OBVIOUS
    <2>1. RunsStay' <=> RunsStay
      BY DeploymentFixed DEF RunsStay, RunOf, ProcOf
    <2> QED
      BY <2>1, StoryInvStep DEF StoryInv
  <1> QED
    BY <1>1, <1>2, ChatInvariant, PTL DEF Spec

\* The deployment does not change.
LEMMA RunsStayForGood == Spec /\ RunsStay => []RunsStay
  <1>1. ChatInv /\ [Next]_vars /\ RunsStay => RunsStay'
    BY DeploymentFixed DEF RunsStay, RunOf, ProcOf
  <1> QED
    BY <1>1, ChatInvariant, PTL DEF Spec

\* Where the requests for a run reach one process, a response that a client has
\* received is the stored outcome of the run from then on, whatever is
\* cancelled, fails or crashes, however many requests retry or resume the run.
THEOREM RepliesAreDurable == Spec /\ RunsStay => []ReplyIsDurable
  <1>1. StoryInv /\ RunsStay => ReplyIsDurable
    BY DEF StoryInv, ReplyIsDurable, Answered, Replied, HasOutcome
  <1> QED
    BY <1>1, StoryInvariant, RunsStayForGood, PTL

\* Where the requests for a run reach one process, a stored outcome changes only
\* when its own request marks the run interrupted after a cancellation or a lost
\* acknowledgement.
THEOREM OutcomesAreKept == Spec => OutcomeChangesExplained
  <1> DEFINE Told == \A r \in Runs :
                        \/ OutcomeKept(r)
                        \/ RunsStay => \E q \in Requests :
                              /\ Run(q) = r /\ pc[q] = "interrupt" /\ pc'[q] = "release"
                              /\ Faults \cap {"cancel", "ack_lost"} # {}
  <1>1. [RunsStay => Explained]_vars => [Told]_vars
    BY DEF Explained
  <1> HIDE DEF Told
  <1>2. Spec => [][Told]_vars
    BY <1>1, StoryInvariant, PTL
  <1> QED
    BY <1>2 DEF OutcomeChangesExplained, Told

\* Where the requests for a run reach one process, a resume token never
\* restarts a finished run, nor one whose owner still has time.
THEOREM ResumesAreSafe == Spec /\ RunsStay => ResumesOnlyUnfinished
  <1>1. StoryInv /\ RunsStay =>
           \A q \in Requests :
              loc[q].resumed /\ pc[q] = "acquire" /\ pc'[q] = "execute" =>
                  \/ Rec(q).status \in {"interrupted", "pending"}
                  \/ Rec(q).status = "running" /\ LeaseExpired(Rec(q))
    BY DEF StoryInv, Story
  <1> QED
    BY <1>1, StoryInvariant, RunsStayForGood, PTL DEF ResumesOnlyUnfinished

-----------------------------------------------------------------------------
(* Turns: where requests are not cancelled *)

\* What a step of request q does to the turn of its run and to the note that
\* the turn is committed.
TurnStep(q) ==
    /\ \/ turns' = turns
       \/ AppendTurn(Run(q), loc[q].resp) /\ pc[q] \in {"replay", "append"}
    /\ records'[Run(q)].history => records[Run(q)].history \/ pc[q] \in {"reconcile", "commit"}
    /\ pc'[q] = "interrupt" => pc[q] \in {"execute", "settle"}
    /\ pc'[q] \in {"reconcile", "commit"} =>
          AppendTurn(Run(q), loc[q].resp) /\ pc[q] \in {"replay", "append"}

\* No turn is appended before the run is finished.
LEMMA TurnStepBeforeLease ==
    ASSUME NEW q \in Requests, Setting(q), LoadFresh(q) \/ LoadResumed(q) \/ Migrate(q)
    PROVE  TurnStep(q)
  <1>1. turns' = turns /\ pc \in [Requests -> Labels]
    BY DEF LoadFresh, LoadResumed, Migrate, Setting, ChatInv, ChatTypeOK
  <1>2. pc'[q] \in {"probe", "replay", "acquire", "migrate", "done"}
    <2>1. ASSUME NEW next \in {"probe", "acquire"}, Preflight(q, Rec(q), next)
          PROVE  pc'[q] \in {"probe", "acquire", "replay", "done"}
      BY <1>1, <2>1 DEF Preflight, Leave, Goto
    <2>2. CASE LoadFresh(q)
      BY <1>1, <2>1, <2>2 DEF LoadFresh, Reject, Leave, Goto
    <2>3. CASE LoadResumed(q)
      BY <1>1, <2>1, <2>3 DEF LoadResumed, Leave, Goto
    <2>4. CASE Migrate(q)
      BY <1>1, <2>1, <2>4 DEF Migrate, Reject, Leave, Goto
    <2> QED
      BY <2>2, <2>3, <2>4
  <1>3. records'[Run(q)].history => records[Run(q)].history
    <2>1. CASE CreateRecord(Id(q))
      <3>1. RepoTypeOK /\ Id(q) \in Identity /\ Id(q).run = Run(q)
        BY RequestTypes DEF Setting, ChatInv, ChatTypeOK, Id, Run
      <3> QED
        BY <2>1, <3>1, CreateEffect
    <2>2. CASE records' = records
      BY <2>2
    <2> QED
      BY <2>1, <2>2 DEF LoadFresh, LoadResumed, Migrate, Reject, DbError, repoVars
  <1> QED
    BY <1>1, <1>2, <1>3 DEF TurnStep

\* An append stores the response that the record holds.
LEMMA TurnStepAppends ==
    ASSUME NEW q \in Requests, Setting(q), ReplayAppend(q) \/ Append(q)
    PROVE  TurnStep(q)
  <1>1. records' = records /\ pc \in [Requests -> Labels] /\ pc[q] \in {"replay", "append"}
    BY DEF ReplayAppend, Append, Setting, ChatInv, ChatTypeOK, repoVars
  <1>2. CASE ReplayAppend(q)
    BY <1>1, <1>2 DEF ReplayAppend, ReplayUncommitted, Goto, Leave, TurnStep
  <1>3. CASE Append(q)
    BY <1>1, <1>3 DEF Append, HistoryFailed, Goto, TurnStep
  <1> QED
    BY <1>2, <1>3

\* The history is noted only here.
LEMMA TurnStepNotes ==
    ASSUME NEW q \in Requests, Setting(q), Reconcile(q) \/ CommitHistory(q)
    PROVE  TurnStep(q)
  <1>1. turns' = turns /\ pc \in [Requests -> Labels] /\ pc[q] \in {"reconcile", "commit"}
    BY DEF Reconcile, CommitHistory, Setting, ChatInv, ChatTypeOK
  <1>2. pc'[q] \in {"done", "release"}
    BY <1>1 DEF Reconcile, CommitHistory, Reject, Leave, StaleLease, RuntimeFailure, Goto
  <1> QED
    BY <1>1, <1>2 DEF TurnStep

\* Heartbeat, outcome and interruption leave the turns alone.
LEMMA TurnStepUnderLease ==
    ASSUME NEW q \in Requests, Setting(q), Heartbeat(q) \/ Settle(q) \/ Interrupt(q)
    PROVE  TurnStep(q)
  <1>1. /\ turns' = turns /\ pc \in [Requests -> Labels] /\ pc[q] \in Leased
        /\ pc[q] \in {"execute", "settle", "interrupt"}
    BY DEF Heartbeat, HeartbeatAlive, Settle, Interrupt, Setting, ChatInv, ChatTypeOK, Leased, UnderLease
  <1>2. pc'[q] \in {"execute", "append", "interrupt", "release"}
        /\ (pc[q] = "interrupt" => pc'[q] = "release")
    <2>1. CASE Heartbeat(q)
      BY <1>1, <2>1 DEF Heartbeat, HeartbeatAlive, StaleLease, RuntimeFailure, Goto
    <2>2. CASE Settle(q)
      BY <1>1, <2>2 DEF Settle, StaleLease, RuntimeFailure, Goto
    <2>3. CASE Interrupt(q)
      BY <1>1, <2>3 DEF Interrupt, InterruptFailed, Goto
    <2> QED
      BY <2>1, <2>2, <2>3
  <1>3. records'[Run(q)].history => records[Run(q)].history
    <2>1. CASE records' = records
      BY <2>1
    <2>2. CASE Renew(loc[q].lease)
      BY <1>1, <2>2, OwnLease, RenewEffect DEF SameOutcome
    <2>3. ASSUME NEW status, NEW p, MarkTerminal(loc[q].lease, status, p)
          PROVE  records'[Run(q)].history = records[Run(q)].history
      BY <1>1, <2>3, OwnLease, MarkEffect
    <2> QED
      BY <2>1, <2>2, <2>3 DEF Heartbeat, Settle, Interrupt, StaleLease, InterruptFailed, DbError, repoVars
  <1> QED
    BY <1>1, <1>2, <1>3 DEF TurnStep

\* A grant leaves the turns alone.
LEMMA TurnStepAcquires ==
    ASSUME NEW q \in Requests, Setting(q), TakeLease(q)
    PROVE  TurnStep(q)
  <1>1. turns' = turns /\ pc \in [Requests -> Labels] /\ pc[q] = "acquire"
    BY DEF TakeLease, Setting, ChatInv, ChatTypeOK
  <1>2. pc'[q] \in {"execute", "done"}
    BY <1>1 DEF TakeLease, Reject, Leave, Goto
  <1>3. records'[Run(q)].history => records[Run(q)].history
    <2>1. CASE Acquire(Id(q), q)
      <3>1. RepoTypeOK /\ Id(q) \in Identity /\ Id(q).run = Run(q) /\ q \in Owners
        BY RequestTypes DEF Setting, ChatInv, ChatTypeOK, Id, Run
      <3> QED
        BY <2>1, <3>1, AcquireEffect
    <2>2. CASE records' = records
      BY <2>2
    <2> QED
      BY <2>1, <2>2 DEF TakeLease, Reject, DbError, repoVars
  <1> QED
    BY <1>1, <1>2, <1>3 DEF TurnStep

\* The other steps write neither turns nor records.
LEMMA TurnStepOthers ==
    ASSUME NEW q \in Requests, Setting(q),
           \/ \E hash \in deployment.hashes, resumed, supplied \in BOOLEAN :
                 Submit(q, hash, resumed, supplied)
           \/ Probe(q) \/ Checkpoint(q) \/ Returns(q) \/ ReleaseLease(q)
    PROVE  TurnStep(q)
  <1>1. turns' = turns /\ records' = records
    BY DEF Submit, Probe, Checkpoint, Returns, Finish, ReleaseLease, Release, DbError, repoVars
  <1>2. pc \in [Requests -> Labels]
    BY DEF Setting, ChatInv, ChatTypeOK
  <1>3. pc'[q] \in {"load", "done", "acquire", "execute", "settle"}
    <2>1. ASSUME NEW hash, NEW resumed, NEW supplied, Submit(q, hash, resumed, supplied)
          PROVE  pc'[q] \in {"load", "done"}
      BY <1>2, <2>1 DEF Submit, GateRefuses
    <2>2. CASE Probe(q)
      BY <1>2, <2>2 DEF Probe, Goto, Leave
    <2>3. CASE Checkpoint(q)
      BY <1>2, <2>3 DEF Checkpoint
    <2>4. CASE Returns(q)
      BY <1>2, <2>4 DEF Returns, Finish, Goto
    <2>5. CASE ReleaseLease(q)
      BY <1>2, <2>5 DEF ReleaseLease, Leave
    <2> QED
      BY <2>1, <2>2, <2>3, <2>4, <2>5
  <1> QED
    BY <1>1, <1>3 DEF TurnStep

\* Every step of a request, without cancellations.
LEMMA TurnRequest ==
    ASSUME NEW q \in Requests, Setting(q), RequestNext(q), "cancel" \notin Faults
    PROVE  TurnStep(q)
  <1>1. ~Cancel(q)
    BY DEF Cancel
  <1> QED
    BY <1>1, TurnStepBeforeLease, TurnStepAppends, TurnStepNotes, TurnStepUnderLease,
       TurnStepAcquires, TurnStepOthers DEF RequestNext, Step

\* The invariant's two halves.
TurnOf(r) ==
    /\ turns[r] # None => HasOutcome(records[r], turns[r])
    /\ records[r].history => turns[r] # None

TurnAt(q) ==
    /\ pc[q] = "interrupt" => turns[Run(q)] = None
    /\ pc[q] \in {"reconcile", "commit"} => turns[Run(q)] # None

\* What TurnStep says of a step is enough for turns and records to agree.
LEMMA TurnStepInv ==
    ASSUME NEW q \in Requests, Setting(q), StoryStep(q), TurnStep(q),
           \A r \in Runs : TurnOf(r), \A o \in Requests : TurnAt(o)
    PROVE  (\A r \in Runs : TurnOf(r)') /\ (\A o \in Requests : TurnAt(o)')
  <1> DEFINE R == Run(q)
  <1>1. /\ R \in Runs /\ Story(q) /\ turns \in [Runs -> Payloads \cup {None}]
        /\ TurnOf(R) /\ TurnAt(q)
    BY StoryFacts DEF Setting, ChatInv, ChatTypeOK
  <1>2. \A o \in Requests : Run(o)' = Run(o) /\ Run(o) \in Runs
    <2> SUFFICES ASSUME NEW o \in Requests PROVE Run(o)' = Run(o) /\ Run(o) \in Runs
      OBVIOUS
    <2>1. Run(o) \in Runs
      BY RequestTypes DEF Setting
    <2>2. RunOf' = RunOf
      BY DEF Setting, RequestStep, Moves, RunOf
    <2> QED
      BY <2>1, <2>2 DEF Setting, ChatInv, OwnIds
  <1>3. ASSUME turns' # turns
        PROVE  /\ AppendTurn(R, loc[q].resp) /\ pc[q] \in {"replay", "append"}
               /\ HasOutcome(records[R], loc[q].resp) /\ loc[q].resp \in Payloads
    BY <1>1, <1>3 DEF TurnStep, Story, Rec, Setting, ChatInv, ResponseThere
  <1>4. \A s \in Runs \ {R} : turns'[s] = turns[s] /\ records'[s] = records[s]
    BY <1>1, <1>3 DEF AppendTurn, StoryStep, Elsewhere
  <1>5. turns[R] # None => turns'[R] = turns[R]
    BY <1>1, <1>3 DEF AppendTurn
  <1>6. turns'[R] # None => HasOutcome(records'[R], turns'[R])
    <2>1. CASE turns' = turns
      BY <1>1, <2>1 DEF StoryStep, TurnOf, TurnAt, OutcomeKept, HasOutcome
    <2>2. CASE turns' # turns
      <3>1. turns'[R] = loc[q].resp
        BY <1>1, <1>3, <2>2 DEF AppendTurn
      <3>2. OutcomeKept(R)
        BY <1>3, <2>2 DEF StoryStep
      <3> QED
        BY <1>3, <2>2, <3>1, <3>2 DEF OutcomeKept, HasOutcome
    <2> QED
      BY <2>1, <2>2
  <1>7. records'[R].history => turns'[R] # None
    <2>1. pc[q] \in {"reconcile", "commit"} => turns[R] # None
      BY <1>1 DEF TurnAt
    <2> QED
      BY <1>1, <1>5, <2>1 DEF TurnStep, TurnOf
  <1>8. \A r \in Runs : TurnOf(r)'
    BY <1>1, <1>4, <1>6, <1>7 DEF TurnOf
  <1>9. TurnAt(q)'
    <2>1. ASSUME pc'[q] = "interrupt" PROVE turns'[R] = None
      <3>1. pc[q] \in {"execute", "settle"} /\ Rec(q).status = "running"
        BY <1>1, <2>1 DEF TurnStep, Story
      <3>2. turns[R] = None
        BY <1>1, <3>1 DEF TurnOf, HasOutcome, Rec, TerminalStatuses
      <3> QED
        BY <1>3, <3>1, <3>2
    <2>2. ASSUME pc'[q] \in {"reconcile", "commit"} PROVE turns'[R] # None
      <3>1. AppendTurn(R, loc[q].resp) /\ loc[q].resp \in Payloads
        BY <2>2 DEF TurnStep, Setting, ChatInv, ResponseThere
      <3> QED
        BY <1>1, <3>1, RepositoryAssumption DEF AppendTurn
    <2> QED
      BY <1>2, <2>1, <2>2 DEF TurnAt
  <1>10. ASSUME NEW o \in Requests, o # q PROVE TurnAt(o)'
    <2>1. pc'[o] = pc[o] /\ Run(o)' = Run(o) /\ Run(o) \in Runs /\ TurnAt(o)
      BY <1>2, <1>10 DEF Setting, RequestStep, Moves
    <2>2. CASE Run(o) # R
      BY <1>4, <2>1, <2>2 DEF TurnAt
    <2>3. CASE Run(o) = R /\ pc[o] \in Confirmed
      <3>1. pc[q] \notin Confirmed
        <4> SUFFICES ASSUME pc[q] \in Confirmed PROVE FALSE
          OBVIOUS
        <4>1. Validates(Id(q)) /\ pc[q] \in Active
          BY StoryFacts, Places
        <4> QED
          BY <1>10, <2>3, <4>1, Alone DEF Setting
      <3>2. turns' = turns
        BY <1>3, <3>1 DEF Confirmed, Active, BeforeLease, UnderLease
      <3> QED
        BY <2>1, <3>2 DEF TurnAt
    <2>4. CASE pc[o] \notin Confirmed
      BY <2>1, <2>4 DEF TurnAt, Confirmed, Active, BeforeLease, UnderLease
    <2> QED
      BY <2>2, <2>3, <2>4
  <1> QED
    BY <1>8, <1>9, <1>10

\* Turns and records agree in deployments without cancellations.
LEMMA TurnsInvariant == Spec => []TurnsInv
  <1>1. Init => TurnsInv
    BY DEF Init, RepoInit, NoRecord, TurnsInv
  <1>2. ChatInv /\ ChatInv' /\ StoryInv /\ TurnsInv /\ [Next]_vars => TurnsInv'
    <2> SUFFICES ASSUME ChatInv, ChatInv', StoryInv, TurnsInv, [Next]_vars,
                        (RunsStay /\ "cancel" \notin Faults)'
                 PROVE  (\A r \in Runs : TurnOf(r)') /\ (\A o \in Requests : TurnAt(o)')
      BY DEF TurnsInv, TurnOf, TurnAt
    <2>1. deployment' = deployment /\ RunsStay /\ "cancel" \notin Faults
      BY DeploymentFixed DEF RunsStay, RunOf, ProcOf, Faults
    <2>2. (\A r \in Runs : TurnOf(r)) /\ (\A o \in Requests : TurnAt(o))
      BY <2>1 DEF TurnsInv, TurnOf, TurnAt
    <2>3. ASSUME NEW q \in Requests, RequestNext(q), RequestStep(q)
          PROVE  (\A r \in Runs : TurnOf(r)') /\ (\A o \in Requests : TurnAt(o)')
      <3>1. Setting(q)
        BY <2>1, <2>3 DEF Setting
      <3>2. StoryStep(q) /\ TurnStep(q)
        BY <2>1, <2>3, <3>1, StoryRequest, TurnRequest
      <3> QED
        BY <2>2, <3>1, <3>2, TurnStepInv
    <2>4. ASSUME turns' = turns, \A r \in Runs : SameOutcome(r),
                 \A q \in Requests : loc'[q].id = loc[q].id /\ pc'[q] \in {pc[q], "done"}
          PROVE  (\A r \in Runs : TurnOf(r)') /\ (\A o \in Requests : TurnAt(o)')
      BY <2>2, <2>4 DEF TurnOf, TurnAt, SameOutcome, HasOutcome, Run
    <2>5. ASSUME NEW p \in Procs, Crash(p)
          PROVE  (\A r \in Runs : TurnOf(r)') /\ (\A o \in Requests : TurnAt(o)')
      <3>1. \A r \in Runs : SameOutcome(r)
        BY <2>5, CrashQuiet DEF SameOutcome
      <3> QED
        BY <2>4, <2>5, <3>1, CrashQuiet
    <2>6. ASSUME UNCHANGED <<pc, loc, turns>>,
                 (\E r \in Runs : Revoke(r)) \/ Clock \/ UNCHANGED repoVars
          PROVE  (\A r \in Runs : TurnOf(r)') /\ (\A o \in Requests : TurnAt(o)')
      <3>1. \A r \in Runs : SameOutcome(r)
        BY <2>6, ClockQuiet DEF Quiet
      <3> QED
        BY <2>4, <2>6, <3>1
    <2> QED
      BY <2>3, <2>5, <2>6, NextCases
  <1> QED
    BY <1>1, <1>2, ChatInvariant, StoryInvariant, PTL DEF Spec

\* Where the requests for a run reach one process and are not cancelled, a turn
\* that is noted as committed holds the response the record replays, although
\* append_turn keeps the first turn and mark_terminal the last outcome.
THEOREM HistoryIsFaithful ==
    Spec /\ RunsStay /\ "cancel" \notin Faults => []HistoryFaithful
  <1>1. TurnsInv /\ RunsStay /\ "cancel" \notin Faults => HistoryFaithful
    BY DEF TurnsInv, HistoryFaithful, HasOutcome
  <1>2. ChatInv /\ [Next]_vars /\ "cancel" \notin Faults => ("cancel" \notin Faults)'
    BY DeploymentFixed DEF Faults
  <1> QED
    BY <1>1, <1>2, ChatInvariant, TurnsInvariant, RunsStayForGood, PTL DEF Spec
=============================================================================
