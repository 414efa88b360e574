-------------------------- MODULE RunRepositoryProofs --------------------------
(***************************************************************************)
(* Proofs about RunRepository for every set of runs, conversations and     *)
(* owners, every TTL, every bound and both backends.                       *)
(***************************************************************************)
EXTENDS RunRepository, TLAPS

\* A run that exists is bound to a conversation whose counter its token does
\* not exceed; a run that does not exist has the all-NULL record.
RecordsBound ==
    \A r \in Runs :
        IF Exists(r)
        THEN /\ records[r].conv \in Convs
             /\ records[r].token <= leases[records[r].conv].token
        ELSE records[r] = NoRecord

\* Every lease ever granted carries a token the counter has reached.
HandlesBound ==
    \A h \in handles : h.token <= leases[h.conv].token

\* The inductive invariant.
RepoInv ==
    /\ RepoTypeOK
    /\ RecordsBound
    /\ HandlesBound
    /\ TokensNameOneOwner
    /\ LeaseRecordAgreement

-----------------------------------------------------------------------------
(* Type correctness *)

\* The all-NULL record, which stands for a run that was never created, is a record.
LEMMA NoRecordType == NoRecord \in RunRecord
  BY RepositoryAssumption DEF NoRecord, RunRecord, Statuses, Outcomes

\* A remaining time stays within the TTL when a second passes.
LEMMA ElapseType == \A n \in 0..TTL : Elapse(n) \in 0..TTL
  BY RepositoryAssumption DEF Elapse

\* mark_history_committed and reconcile_history_committed keep a record a record.
LEMMA HistoryNotedType ==
    ASSUME NEW rec \in RunRecord, NEW p \in Payloads \cup {None}
    PROVE  HistoryNoted(rec, p) \in RunRecord
  BY DEF HistoryNoted, RunRecord

\* acquire keeps a record a record.
LEMMA AcquiredType ==
    ASSUME NEW rec \in RunRecord, NEW o \in Owners, NEW t \in Nat
    PROVE  [rec EXCEPT !.status = "running", !.owner = o,
                       !.token = t, !.expires = TTL] \in RunRecord
  <1>1. "running" \in Statuses /\ TTL \in 0..TTL
    BY RepositoryAssumption DEF Statuses
  <1> QED BY <1>1 DEF RunRecord

\* RepoTypeOK is inductive on its own: no operation of the repository stores
\* a value outside the tables' column types.
LEMMA TypeStep == RepoTypeOK /\ [RepoNext]_repoVars => RepoTypeOK'
  <1> SUFFICES ASSUME RepoTypeOK, [RepoNext]_repoVars PROVE RepoTypeOK'
    OBVIOUS
  <1> USE RepositoryAssumption DEF RepoTypeOK
  <1>0. TTL \in 0..TTL /\ 0 \in 0..TTL
    OBVIOUS
  <1>1. ASSUME NEW id \in Identity, CreateRecord(id) PROVE RepoTypeOK'
    <2>1. [NoRecord EXCEPT !.conv = id.conv, !.hash = id.hash,
                           !.status = "pending", !.version = 1] \in RunRecord
      BY NoRecordType DEF RunRecord, Identity, Statuses
    <2> QED BY <1>1, <2>1 DEF CreateRecord, Identity
  <1>2. ASSUME NEW id \in Identity, NEW o \in Owners, ConfirmedAcquire(id, o)
        PROVE RepoTypeOK'
    <2> DEFINE t == leases[id.conv].token + 1
    <2>1. id.run \in Runs /\ id.conv \in Convs
      BY DEF Identity
    <2>2. t \in Nat
      BY <2>1 DEF LeaseRow
    <2>3. [run |-> id.run, owner |-> o, token |-> t, ttl |-> TTL] \in LeaseRow
      BY <1>0, <2>1, <2>2 DEF LeaseRow
    <2>4. leases' \in [Convs -> LeaseRow]
      BY <1>2, <2>1, <2>3 DEF ConfirmedAcquire, Acquire
    <2>5. [records[id.run] EXCEPT !.status = "running", !.owner = o,
                                  !.token = t, !.expires = TTL] \in RunRecord
      BY <2>1, <2>2, AcquiredType
    <2>6. records' \in [Runs -> RunRecord]
      BY <1>2, <2>1, <2>5 DEF ConfirmedAcquire, Acquire
    <2>7. handles' \subseteq Handle
      BY <1>2, <2>1, <2>2 DEF ConfirmedAcquire, Acquire, Handle
    <2> QED BY <2>4, <2>6, <2>7
  <1>3. ASSUME NEW h \in handles, LeaseOperation(h) PROVE RepoTypeOK'
    <2>0. h.conv \in Convs /\ h.run \in Runs
      BY DEF Handle
    <2>1. leases[h.conv] \in LeaseRow /\ records[h.run] \in RunRecord
      BY <2>0
    <2>2. [leases[h.conv] EXCEPT !.ttl = TTL] \in LeaseRow
      BY <1>0, <2>1 DEF LeaseRow
    <2>3. [leases[h.conv] EXCEPT !.ttl = 0] \in LeaseRow
      BY <1>0, <2>1 DEF LeaseRow
    <2>4. [records[h.run] EXCEPT !.expires = TTL] \in RunRecord
      BY <1>0, <2>1 DEF RunRecord
    <2>5. CASE Renew(h)
      BY <2>0, <2>2, <2>4, <2>5 DEF Renew
    <2>6. CASE Release(h)
      BY <2>0, <2>3, <2>6 DEF Release
    <2>7. ASSUME NEW status \in Outcomes, NEW p \in Payloads \cup {None},
                 MarkTerminal(h, status, p)
          PROVE  RepoTypeOK'
      <3>1. [records[h.run] EXCEPT !.status = status, !.payload = p]
              \in RunRecord
        BY <2>1 DEF RunRecord, Statuses
      <3> QED BY <2>0, <2>7, <3>1 DEF MarkTerminal
    <2>8. ASSUME NEW p \in Payloads \cup {None}, MarkHistoryCommitted(h, p)
          PROVE  RepoTypeOK'
      BY <2>0, <2>1, <2>8, HistoryNotedType DEF MarkHistoryCommitted
    <2> QED BY <1>3, <2>5, <2>6, <2>7, <2>8 DEF LeaseOperation
  <1>4. ASSUME NEW r \in Runs, RunOperation(r) PROVE RepoTypeOK'
    <2>0. records[r] \in RunRecord
      OBVIOUS
    <2>1. ASSUME NEW p \in Payloads \cup {None}, ReconcileHistory(r, p)
          PROVE  RepoTypeOK'
      BY <2>0, <2>1, HistoryNotedType DEF ReconcileHistory
    <2>2. CASE RevokeResumeTokens(r)
      BY <2>0, <2>2 DEF RevokeResumeTokens, RunRecord
    <2> QED BY <1>4, <2>1, <2>2 DEF RunOperation
  <1>5. CASE Tick
    <2>1. \A c \in Convs : [leases[c] EXCEPT !.ttl = Elapse(@)] \in LeaseRow
      BY ElapseType DEF LeaseRow
    <2>2. \A r \in Runs : [records[r] EXCEPT !.expires = Elapse(@)] \in RunRecord
      BY ElapseType DEF RunRecord
    <2> QED BY <1>5, <2>1, <2>2 DEF Tick
  <1>6. CASE UNCHANGED repoVars
    BY <1>6 DEF repoVars
  <1> QED BY <1>1, <1>2, <1>3, <1>4, <1>5, <1>6 DEF RepoNext

\* Every reachable table content has the column types of the schema.
THEOREM RepoTypeCorrect == RepoSpec => []RepoTypeOK
  <1>1. RepoInit => RepoTypeOK
    BY NoRecordType, RepositoryAssumption
       DEF RepoInit, RepoTypeOK, NoLease, LeaseRow
  <1> QED BY <1>1, TypeStep, PTL DEF RepoSpec

-----------------------------------------------------------------------------
(* The inductive invariant *)

\* What a live lease of a granted handle tells about the handle's record.
LEMMA LiveLeaseRecord ==
    ASSUME RepoInv, NEW h \in handles, LeaseLive(h)
    PROVE  /\ h.run \in Runs /\ h.conv \in Convs
           /\ Exists(h.run)
           /\ records[h.run].conv = h.conv
           /\ records[h.run].owner = h.owner
           /\ records[h.run].token = h.token
           /\ records[h.run].expires = leases[h.conv].ttl
  <1>1. h.run \in Runs /\ h.conv \in Convs
    BY DEF RepoInv, RepoTypeOK, Handle
  <1>2. PICK r \in Runs :
            /\ leases[h.conv].run = r
            /\ records[r].conv = h.conv
            /\ records[r].owner = leases[h.conv].owner
            /\ records[r].token = leases[h.conv].token
            /\ records[r].expires = leases[h.conv].ttl
    BY <1>1 DEF RepoInv, LeaseRecordAgreement, LeaseLive
  <1>3. r = h.run
    BY <1>2 DEF LeaseLive, SameOwner
  <1>4. records[h.run].conv \in Convs
    BY <1>1, <1>2, <1>3
  <1>5. Exists(h.run)
    BY <1>1, <1>4, RepositoryAssumption
       DEF RepoInv, RecordsBound, NoRecord
  <1> QED BY <1>1, <1>2, <1>3, <1>5 DEF LeaseLive, SameOwner

\* A step that keeps every lease row and, of a record, at most the status,
\* the response, the history flag and the token version, keeps the fencing
\* facts: mark_terminal, mark_history_committed, reconcile, revoke.
LEMMA OutcomeStep ==
    ASSUME RepoInv, NEW r \in Runs,
           UNCHANGED <<leases, handles>>, RepoTypeOK',
           Exists(r),
           \A q \in Runs : q # r => records'[q] = records[q],
           records'[r].status # "absent",
           records'[r].conv = records[r].conv,
           records'[r].owner = records[r].owner,
           records'[r].token = records[r].token,
           records'[r].expires = records[r].expires
    PROVE  RepoInv'
  <1>1. \A q \in Runs : Exists(q)' <=> Exists(q)
    BY DEF Exists
  <1>2. RecordsBound'
    BY <1>1 DEF RepoInv, RecordsBound
  <1>3. HandlesBound' /\ TokensNameOneOwner'
    BY DEF RepoInv, HandlesBound, TokensNameOneOwner
  <1>4. LeaseRecordAgreement'
    <2> SUFFICES ASSUME NEW c \in Convs, leases[c].ttl > 0
                 PROVE  \E q \in Runs :
                            /\ leases[c].run = q
                            /\ records'[q].conv = c
                            /\ records'[q].owner = leases[c].owner
                            /\ records'[q].token = leases[c].token
                            /\ records'[q].expires = leases[c].ttl
      BY DEF LeaseRecordAgreement
    <2>1. PICK q \in Runs :
                /\ leases[c].run = q
                /\ records[q].conv = c
                /\ records[q].owner = leases[c].owner
                /\ records[q].token = leases[c].token
                /\ records[q].expires = leases[c].ttl
      BY DEF RepoInv, LeaseRecordAgreement
    <2> QED BY <2>1
  <1> QED BY <1>2, <1>3, <1>4 DEF RepoInv

\* create_or_get preserves the invariant: the new record has no token and no lease.
LEMMA CreateStep ==
    ASSUME RepoInv, RepoTypeOK', NEW id \in Identity, CreateRecord(id)
    PROVE  RepoInv'
  <1>0. id.run \in Runs /\ id.conv \in Convs
    BY DEF Identity
  <1>1. /\ \A q \in Runs : q # id.run => records'[q] = records[q]
        /\ records'[id.run].status = "pending"
        /\ records'[id.run].conv = id.conv
        /\ records'[id.run].token = 0
    BY <1>0 DEF CreateRecord, RepoInv, RepoTypeOK, NoRecord
  <1>2. leases' = leases /\ handles' = handles
    BY DEF CreateRecord
  <1>3. \A c \in Convs : leases[c].token \in Nat
    BY DEF RepoInv, RepoTypeOK, LeaseRow
  <1>4. RecordsBound'
    BY <1>0, <1>1, <1>2, <1>3 DEF RepoInv, RecordsBound, Exists
  <1>5. HandlesBound' /\ TokensNameOneOwner'
    BY <1>2 DEF RepoInv, HandlesBound, TokensNameOneOwner
  <1>6. records[id.run].conv = None
    BY <1>0 DEF CreateRecord, RepoInv, RecordsBound, NoRecord
  <1>7. LeaseRecordAgreement'
    BY <1>0, <1>1, <1>2, <1>6, RepositoryAssumption
       DEF RepoInv, LeaseRecordAgreement
  <1> QED BY <1>4, <1>5, <1>7 DEF RepoInv

\* acquire preserves the invariant: the token it hands out is above every earlier one
\* of the conversation, and it writes lease row and record alike.
LEMMA AcquireStep ==
    ASSUME RepoInv, RepoTypeOK', NEW id \in Identity, NEW o \in Owners,
           ConfirmedAcquire(id, o)
    PROVE  RepoInv'
  <1> DEFINE t == leases[id.conv].token + 1
             g == [conv |-> id.conv, run |-> id.run, owner |-> o, token |-> t]
  <1>0. id.run \in Runs /\ id.conv \in Convs /\ leases[id.conv].token \in Nat
    BY DEF Identity, RepoInv, RepoTypeOK, LeaseRow
  <1>1. /\ \A q \in Runs : q # id.run => records'[q] = records[q]
        /\ records'[id.run].status = "running"
        /\ records'[id.run].conv = id.conv
        /\ records'[id.run].owner = o
        /\ records'[id.run].token = t
        /\ records'[id.run].expires = TTL
    BY <1>0 DEF ConfirmedAcquire, Acquire, Validates, RepoInv, RepoTypeOK, RunRecord
  <1>2. /\ \A c \in Convs : c # id.conv => leases'[c] = leases[c]
        /\ leases'[id.conv].run = id.run
        /\ leases'[id.conv].owner = o
        /\ leases'[id.conv].token = t
        /\ leases'[id.conv].ttl = TTL
        /\ leases[id.conv].ttl = 0
    BY <1>0 DEF ConfirmedAcquire, Acquire, RepoInv, RepoTypeOK
  <1>3. handles' = handles \cup {g}
    BY DEF ConfirmedAcquire, Acquire
  <1>4. \A c \in Convs : leases[c].token \in Nat /\ leases[c].token <= leases'[c].token
    BY <1>0, <1>2 DEF RepoInv, RepoTypeOK, LeaseRow
  <1>5. \A q \in Runs : records[q].token \in Nat
    BY DEF RepoInv, RepoTypeOK, RunRecord
  <1>6. RecordsBound'
    <2> SUFFICES ASSUME NEW q \in Runs
                 PROVE  IF Exists(q)'
                        THEN /\ records'[q].conv \in Convs
                             /\ records'[q].token <= leases'[records'[q].conv].token
                        ELSE records'[q] = NoRecord
      BY DEF RecordsBound
    <2>1. CASE q = id.run
      BY <1>0, <1>1, <1>2, <2>1 DEF Exists
    <2>2. CASE q # id.run
      <3>1. records'[q] = records[q]
        BY <1>1, <2>2
      <3>2. CASE Exists(q)
        <4>1. leases[records[q].conv].token \in Nat /\ leases'[records[q].conv].token \in Nat
          BY <1>0, <1>2, <1>4, <3>2 DEF RepoInv, RecordsBound
        <4> QED BY <1>4, <1>5, <3>1, <3>2, <4>1 DEF RepoInv, RecordsBound, Exists
      <3>3. CASE ~Exists(q)
        BY <3>1, <3>3 DEF RepoInv, RecordsBound, Exists
      <3> QED BY <3>2, <3>3
    <2> QED BY <2>1, <2>2
  <1>7. \A h \in handles : h.conv \in Convs /\ h.token \in Nat
    BY DEF RepoInv, RepoTypeOK, Handle
  <1>8. \A h \in handles : h.conv = id.conv => h.token < t
    BY <1>0, <1>7 DEF RepoInv, HandlesBound
  <1>9. HandlesBound'
    <2> SUFFICES ASSUME NEW h \in handles' PROVE h.token <= leases'[h.conv].token
      BY DEF HandlesBound
    <2>1. CASE h = g
      BY <1>0, <1>2, <2>1
    <2>2. CASE h \in handles
      BY <1>0, <1>2, <1>4, <1>7, <1>8, <2>2 DEF RepoInv, HandlesBound
    <2> QED BY <1>3, <2>1, <2>2
  <1>10. TokensNameOneOwner'
    <2> SUFFICES ASSUME NEW a \in handles', NEW b \in handles',
                        a.conv = b.conv, a.token = b.token
                 PROVE  a = b
      BY DEF TokensNameOneOwner
    <2>1. CASE a \in handles /\ b \in handles
      BY <2>1 DEF RepoInv, TokensNameOneOwner
    <2>2. CASE a = g /\ b = g
      BY <2>2
    <2>3. CASE a = g /\ b \in handles
      BY <1>0, <1>7, <1>8, <2>3
    <2>4. CASE a \in handles /\ b = g
      BY <1>0, <1>7, <1>8, <2>4
    <2> QED BY <1>3, <2>1, <2>2, <2>3, <2>4
  <1>11. LeaseRecordAgreement'
    <2> SUFFICES ASSUME NEW c \in Convs, leases'[c].ttl > 0
                 PROVE  \E q \in Runs :
                            /\ leases'[c].run = q
                            /\ records'[q].conv = c
                            /\ records'[q].owner = leases'[c].owner
                            /\ records'[q].token = leases'[c].token
                            /\ records'[q].expires = leases'[c].ttl
      BY DEF LeaseRecordAgreement
    <2>1. CASE c = id.conv
      BY <1>0, <1>1, <1>2, <2>1
    <2>2. CASE c # id.conv
      <3>1. PICK q \in Runs :
                /\ leases[c].run = q
                /\ records[q].conv = c
                /\ records[q].owner = leases[c].owner
                /\ records[q].token = leases[c].token
                /\ records[q].expires = leases[c].ttl
        BY <1>2, <2>2 DEF RepoInv, LeaseRecordAgreement
      <3>2. q # id.run
        BY <2>2, <3>1 DEF ConfirmedAcquire, Acquire, Validates
      <3> QED BY <1>1, <1>2, <2>2, <3>1, <3>2
    <2> QED BY <2>1, <2>2
  <1> QED BY <1>6, <1>9, <1>10, <1>11 DEF RepoInv

\* A step that keeps every token, owner and conversation and moves the two
\* copies of an expiry together wherever a lease is still live: renew,
\* release and the passing of time.
LEMMA TimeStep ==
    ASSUME RepoInv, RepoTypeOK', UNCHANGED handles,
           \A r \in Runs :
               /\ records'[r].status = records[r].status
               /\ records'[r].conv = records[r].conv
               /\ records'[r].owner = records[r].owner
               /\ records'[r].token = records[r].token
               /\ ~Exists(r) => records'[r] = records[r],
           \A c \in Convs :
               /\ leases'[c].run = leases[c].run
               /\ leases'[c].owner = leases[c].owner
               /\ leases'[c].token = leases[c].token
               /\ leases'[c].ttl > 0 =>
                     /\ leases[c].ttl > 0
                     /\ records'[leases[c].run].expires = leases'[c].ttl
    PROVE  RepoInv'
  <1>1. RecordsBound'
    BY DEF RepoInv, RecordsBound, Exists
  <1>2. HandlesBound'
    BY DEF RepoInv, RepoTypeOK, Handle, HandlesBound
  <1>3. TokensNameOneOwner'
    BY DEF RepoInv, TokensNameOneOwner
  <1>4. LeaseRecordAgreement'
    <2> SUFFICES ASSUME NEW c \in Convs, leases'[c].ttl > 0
                 PROVE  \E q \in Runs :
                            /\ leases'[c].run = q
                            /\ records'[q].conv = c
                            /\ records'[q].owner = leases'[c].owner
                            /\ records'[q].token = leases'[c].token
                            /\ records'[q].expires = leases'[c].ttl
      BY DEF LeaseRecordAgreement
    <2>1. PICK q \in Runs :
                /\ leases[c].run = q
                /\ records[q].conv = c
                /\ records[q].owner = leases[c].owner
                /\ records[q].token = leases[c].token
      BY DEF RepoInv, LeaseRecordAgreement
    <2> QED BY <2>1
  <1> QED BY <1>1, <1>2, <1>3, <1>4 DEF RepoInv

\* renew preserves the invariant: it moves both expiries, as the tokens agree.
LEMMA RenewStep ==
    ASSUME RepoInv, RepoTypeOK', NEW h \in handles, Renew(h)
    PROVE  RepoInv'
  <1>1. LeaseLive(h)
    BY DEF Renew
  <1>2. /\ h.run \in Runs /\ h.conv \in Convs
        /\ Exists(h.run)
        /\ records[h.run].conv = h.conv
        /\ records[h.run].token = h.token
    BY <1>1, LiveLeaseRecord
  <1>3. /\ records' = [records EXCEPT ![h.run] = [@ EXCEPT !.expires = TTL]]
        /\ leases' = [leases EXCEPT ![h.conv] = [@ EXCEPT !.ttl = TTL]]
        /\ UNCHANGED handles
    BY <1>2 DEF Renew
  <1>4. ASSUME NEW r \in Runs
        PROVE  /\ records'[r].status = records[r].status
               /\ records'[r].conv = records[r].conv
               /\ records'[r].owner = records[r].owner
               /\ records'[r].token = records[r].token
               /\ ~Exists(r) => records'[r] = records[r]
    BY <1>2, <1>3 DEF RepoInv, RepoTypeOK, RunRecord
  <1>5. ASSUME NEW c \in Convs
        PROVE  /\ leases'[c].run = leases[c].run
               /\ leases'[c].owner = leases[c].owner
               /\ leases'[c].token = leases[c].token
               /\ leases'[c].ttl > 0 =>
                     /\ leases[c].ttl > 0
                     /\ records'[leases[c].run].expires = leases'[c].ttl
    <2>1. CASE c = h.conv
      <3>1. leases[c].run = h.run /\ leases[c].ttl > 0
        BY <1>1, <2>1 DEF LeaseLive, SameOwner
      <3> QED BY <1>2, <1>3, <2>1, <3>1 DEF RepoInv, RepoTypeOK, RunRecord, LeaseRow
    <2>2. CASE c # h.conv
      <3>1. leases'[c] = leases[c]
        BY <1>3, <2>2 DEF RepoInv, RepoTypeOK
      <3>2. CASE leases[c].ttl > 0
        <4>1. PICK q \in Runs : /\ leases[c].run = q
                                /\ records[q].conv = c
                                /\ records[q].expires = leases[c].ttl
          BY <3>2 DEF RepoInv, LeaseRecordAgreement
        <4>2. q # h.run
          BY <1>2, <2>2, <4>1
        <4> QED BY <1>3, <3>1, <3>2, <4>1, <4>2 DEF RepoInv, RepoTypeOK
      <3> QED BY <3>1, <3>2
    <2> QED BY <2>1, <2>2
  <1> QED BY <1>3, <1>4, <1>5, TimeStep

\* release preserves the invariant: it only takes time from a lease.
LEMMA ReleaseStep ==
    ASSUME RepoInv, RepoTypeOK', NEW h \in handles, Release(h)
    PROVE  RepoInv'
  <1>1. h.conv \in Convs
    BY DEF RepoInv, RepoTypeOK, Handle
  <1>2. /\ leases' = [leases EXCEPT ![h.conv] = [@ EXCEPT !.ttl = 0]]
        /\ UNCHANGED <<records, handles>>
    BY DEF Release
  <1>3. ASSUME NEW c \in Convs
        PROVE  /\ leases'[c].run = leases[c].run
               /\ leases'[c].owner = leases[c].owner
               /\ leases'[c].token = leases[c].token
               /\ leases'[c].ttl > 0 =>
                     /\ leases[c].ttl > 0
                     /\ records'[leases[c].run].expires = leases'[c].ttl
    <2>1. CASE c = h.conv
      BY <1>1, <1>2, <2>1 DEF RepoInv, RepoTypeOK, LeaseRow
    <2>2. CASE c # h.conv
      <3>1. leases'[c] = leases[c]
        BY <1>2, <2>2 DEF RepoInv, RepoTypeOK
      <3> QED BY <1>2, <3>1 DEF RepoInv, LeaseRecordAgreement
    <2> QED BY <2>1, <2>2
  <1> QED BY <1>2, <1>3, TimeStep

\* The passing of time preserves the invariant: both expiries come nearer together.
LEMMA TickStep ==
    ASSUME RepoInv, RepoTypeOK', Tick
    PROVE  RepoInv'
  <1>1. ASSUME NEW r \in Runs
        PROVE  /\ records'[r] = [records[r] EXCEPT !.expires = Elapse(@)]
               /\ records[r] \in RunRecord
    BY DEF Tick, RepoInv, RepoTypeOK
  <1>2. ASSUME NEW c \in Convs
        PROVE  /\ leases'[c] = [leases[c] EXCEPT !.ttl = Elapse(@)]
               /\ leases[c] \in LeaseRow
    BY DEF Tick, RepoInv, RepoTypeOK
  <1>3. ASSUME NEW r \in Runs
        PROVE  /\ records'[r].status = records[r].status
               /\ records'[r].conv = records[r].conv
               /\ records'[r].owner = records[r].owner
               /\ records'[r].token = records[r].token
               /\ records'[r].expires = Elapse(records[r].expires)
    BY <1>1 DEF RunRecord
  <1>4. ASSUME NEW r \in Runs, ~Exists(r) PROVE records'[r] = records[r]
    <2>1. records[r] = NoRecord
      BY <1>4 DEF RepoInv, RecordsBound
    <2>2. Elapse(0) = 0
      BY DEF Elapse
    <2> QED BY <1>1, <2>1, <2>2 DEF NoRecord
  <1>5. ASSUME NEW c \in Convs
        PROVE  /\ leases'[c].run = leases[c].run
               /\ leases'[c].owner = leases[c].owner
               /\ leases'[c].token = leases[c].token
               /\ leases'[c].ttl = Elapse(leases[c].ttl)
    BY <1>2 DEF LeaseRow
  <1>6. ASSUME NEW c \in Convs, leases'[c].ttl > 0
        PROVE  /\ leases[c].ttl > 0
               /\ records'[leases[c].run].expires = leases'[c].ttl
    <2>1. leases[c].ttl \in 0..TTL
      BY <1>2 DEF LeaseRow
    <2>2. leases[c].ttl > 0
      BY <1>5, <1>6, <2>1 DEF Elapse
    <2>3. PICK q \in Runs : /\ leases[c].run = q
                            /\ records[q].expires = leases[c].ttl
      BY <2>2 DEF RepoInv, LeaseRecordAgreement
    <2> QED BY <1>3, <1>5, <2>2, <2>3
  <1>7. UNCHANGED handles
    BY DEF Tick
  <1> QED BY <1>3, <1>4, <1>5, <1>6, <1>7, TimeStep

\* mark_terminal preserves the invariant: it writes outcome columns only.
LEMMA MarkTerminalStep ==
    ASSUME RepoInv, RepoTypeOK', NEW h \in handles,
           NEW status \in Outcomes, NEW p \in Payloads \cup {None},
           MarkTerminal(h, status, p)
    PROVE  RepoInv'
  <1>1. h.run \in Runs /\ Exists(h.run)
    BY LiveLeaseRecord DEF MarkTerminal, MayWrite
  <1>2. status # "absent"
    BY DEF Outcomes, TerminalStatuses
  <1>3. records[h.run] \in RunRecord
    BY <1>1 DEF RepoInv, RepoTypeOK
  <1>4. /\ records'[h.run] = [records[h.run] EXCEPT !.status = status, !.payload = p]
        /\ \A q \in Runs : q # h.run => records'[q] = records[q]
    BY <1>1 DEF MarkTerminal, RepoInv, RepoTypeOK
  <1>5. /\ records'[h.run].status = status
        /\ records'[h.run].conv = records[h.run].conv
        /\ records'[h.run].owner = records[h.run].owner
        /\ records'[h.run].token = records[h.run].token
        /\ records'[h.run].expires = records[h.run].expires
    BY <1>3, <1>4 DEF RunRecord
  <1> QED BY <1>1, <1>2, <1>4, <1>5, OutcomeStep DEF MarkTerminal

\* Noting the history preserves the invariant: it writes outcome columns only.
LEMMA HistoryStep ==
    ASSUME RepoInv, RepoTypeOK', NEW r \in Runs, Exists(r),
           NEW p \in Payloads \cup {None},
           records' = [records EXCEPT ![r] = HistoryNoted(@, p)],
           UNCHANGED <<leases, handles>>
    PROVE  RepoInv'
  <1>1. records[r] \in RunRecord
    BY DEF RepoInv, RepoTypeOK
  <1>2. /\ records'[r] = HistoryNoted(records[r], p)
        /\ \A q \in Runs : q # r => records'[q] = records[q]
    BY DEF RepoInv, RepoTypeOK
  <1>3. /\ records'[r].status = records[r].status
        /\ records'[r].conv = records[r].conv
        /\ records'[r].owner = records[r].owner
        /\ records'[r].token = records[r].token
        /\ records'[r].expires = records[r].expires
    BY <1>1, <1>2 DEF HistoryNoted, RunRecord
  <1> QED BY <1>2, <1>3, OutcomeStep DEF Exists

\* revoke_resume_tokens preserves the invariant: it writes the token version only.
LEMMA RevokeStep ==
    ASSUME RepoInv, RepoTypeOK', NEW r \in Runs, RevokeResumeTokens(r)
    PROVE  RepoInv'
  <1>1. records[r] \in RunRecord
    BY DEF RepoInv, RepoTypeOK
  <1>2. /\ records'[r].status = records[r].status
        /\ records'[r].conv = records[r].conv
        /\ records'[r].owner = records[r].owner
        /\ records'[r].token = records[r].token
        /\ records'[r].expires = records[r].expires
        /\ \A q \in Runs : q # r => records'[q] = records[q]
    BY <1>1 DEF RevokeResumeTokens, RepoInv, RepoTypeOK, RunRecord
  <1> QED BY <1>2, OutcomeStep DEF RevokeResumeTokens, Exists

\* The invariant is inductive: one case per operation.
LEMMA InvStep == RepoInv /\ [RepoNext]_repoVars => RepoInv'
  <1> SUFFICES ASSUME RepoInv, [RepoNext]_repoVars PROVE RepoInv'
    OBVIOUS
  <1>0. RepoTypeOK'
    BY TypeStep DEF RepoInv
  <1>1. ASSUME NEW id \in Identity, CreateRecord(id) PROVE RepoInv'
    BY <1>0, <1>1, CreateStep
  <1>2. ASSUME NEW id \in Identity, NEW o \in Owners, ConfirmedAcquire(id, o)
        PROVE  RepoInv'
    BY <1>0, <1>2, AcquireStep
  <1>3. ASSUME NEW h \in handles, LeaseOperation(h) PROVE RepoInv'
    <2>1. CASE Renew(h)
      BY <1>0, <2>1, RenewStep
    <2>2. CASE Release(h)
      BY <1>0, <2>2, ReleaseStep
    <2>3. ASSUME NEW status \in Outcomes, NEW p \in Payloads \cup {None},
                 MarkTerminal(h, status, p)
          PROVE  RepoInv'
      BY <1>0, <2>3, MarkTerminalStep
    <2>4. ASSUME NEW p \in Payloads \cup {None}, MarkHistoryCommitted(h, p)
          PROVE  RepoInv'
      <3>1. h.run \in Runs /\ Exists(h.run)
        BY <2>4, LiveLeaseRecord DEF MarkHistoryCommitted, MayWrite
      <3> QED BY <1>0, <2>4, <3>1, HistoryStep DEF MarkHistoryCommitted
    <2> QED BY <1>3, <2>1, <2>2, <2>3, <2>4 DEF LeaseOperation
  <1>4. ASSUME NEW r \in Runs, RunOperation(r) PROVE RepoInv'
    <2>1. ASSUME NEW p \in Payloads \cup {None}, ReconcileHistory(r, p)
          PROVE  RepoInv'
      BY <1>0, <2>1, HistoryStep DEF ReconcileHistory
    <2>2. CASE RevokeResumeTokens(r)
      BY <1>0, <2>2, RevokeStep
    <2> QED BY <1>4, <2>1, <2>2 DEF RunOperation
  <1>5. CASE Tick
    BY <1>0, <1>5, TickStep
  <1>6. CASE UNCHANGED repoVars
    BY <1>0, <1>6
       DEF repoVars, RepoInv, RecordsBound, HandlesBound, TokensNameOneOwner,
           LeaseRecordAgreement, Exists
  <1> QED BY <1>1, <1>2, <1>3, <1>4, <1>5, <1>6 DEF RepoNext

\* The empty tables satisfy the invariant.
LEMMA InvInit == RepoInit => RepoInv
  <1> SUFFICES ASSUME RepoInit PROVE RepoInv
    OBVIOUS
  <1>1. RepoTypeOK
    BY NoRecordType, RepositoryAssumption
       DEF RepoInit, RepoTypeOK, NoLease, LeaseRow
  <1>2. RecordsBound
    BY DEF RepoInit, RecordsBound, Exists, NoRecord
  <1>3. HandlesBound /\ TokensNameOneOwner
    BY DEF RepoInit, HandlesBound, TokensNameOneOwner
  <1>4. LeaseRecordAgreement
    BY DEF RepoInit, LeaseRecordAgreement, NoLease
  <1> QED BY <1>1, <1>2, <1>3, <1>4 DEF RepoInv

\* The inductive invariant holds in every reachable state of the repository: types,
\* records and handles bound by the fencing counter, tokens naming one owner, and
\* the agreement of live leases with their records.
THEOREM RepoInvariant == RepoSpec => []RepoInv
  BY InvInit, InvStep, PTL DEF RepoSpec

\* While a conversation is leased, the lease row and the run's record agree
\* on conversation, owner, token and expiry.
THEOREM LeasesAgree == RepoSpec => []LeaseRecordAgreement
  <1>1. RepoInv => LeaseRecordAgreement
    BY DEF RepoInv
  <1> QED BY <1>1, RepoInvariant, PTL

\* No fencing token of a conversation is ever handed out twice.
THEOREM TokensUnique == RepoSpec => []TokensNameOneOwner
  <1>1. RepoInv => TokensNameOneOwner
    BY DEF RepoInv
  <1> QED BY <1>1, RepoInvariant, PTL

-----------------------------------------------------------------------------
(* Refinement of the abstract ledger *)

\* A step of one run that changes neither its conversation, its status nor
\* its response, and no lease's holder, is invisible to the ledger.
LEMMA InvisibleStep ==
    ASSUME \A r \in Runs : /\ records'[r].conv = records[r].conv
                           /\ records'[r].status = records[r].status
                           /\ records'[r].payload = records[r].payload,
           \A c \in Convs : /\ leases'[c].run = leases[c].run
                            /\ leases'[c].token = leases[c].token
                            /\ leases'[c].ttl > 0 <=> leases[c].ttl > 0
    PROVE  UNCHANGED Fenced!vars
  BY DEF Fenced!vars

\* Losing leases only is a Drop.
LEMMA DropStep ==
    ASSUME RepoInv,
           \A r \in Runs : /\ records'[r].conv = records[r].conv
                           /\ records'[r].status = records[r].status
                           /\ records'[r].payload = records[r].payload,
           \A c \in Convs : /\ leases'[c].run = leases[c].run
                            /\ leases'[c].token = leases[c].token
                            /\ leases'[c].ttl > 0 => leases[c].ttl > 0
    PROVE  \E S \in SUBSET Convs : Fenced!Drop(S)
  <1> DEFINE S == {c \in Convs : ~(leases'[c].ttl > 0)}
  <1>1. [c \in Convs |-> IF leases'[c].ttl > 0 THEN leases'[c].run ELSE None]
        = [c \in Convs |-> IF c \in S THEN None
             ELSE [d \in Convs |-> IF leases[d].ttl > 0
                                   THEN leases[d].run ELSE None][c]]
    OBVIOUS
  <1>2. Fenced!Drop(S)
    BY <1>1 DEF Fenced!Drop
  <1>3. S \in SUBSET Convs
    OBVIOUS
  <1> HIDE DEF S
  <1> QED BY <1>2, <1>3 DEF Fenced!Drop

\* A response changes only under a run that exists, and the rest stays:
\* the ledger annotates the run, or nothing happened to it.
LEMMA AnnotateStep ==
    ASSUME RepoInv, NEW r \in Runs, Exists(r),
           NEW p \in Payloads \cup {None},
           records' = [records EXCEPT ![r] = HistoryNoted(@, p)],
           UNCHANGED <<leases, handles>>
    PROVE  Fenced!Next \/ UNCHANGED Fenced!vars
  <1>1. records[r] \in RunRecord /\ records[r].conv \in Convs
    BY DEF RepoInv, RepoTypeOK, RecordsBound
  <1>2. /\ records'[r] = HistoryNoted(records[r], p)
        /\ \A q \in Runs : q # r => records'[q] = records[q]
    BY DEF RepoInv, RepoTypeOK
  <1>3. /\ records'[r].status = records[r].status
        /\ records'[r].conv = records[r].conv
        /\ records'[r].payload = (IF p = None THEN records[r].payload ELSE p)
    <2>1. \A rec \in RunRecord :
              /\ HistoryNoted(rec, p).status = rec.status
              /\ HistoryNoted(rec, p).conv = rec.conv
              /\ HistoryNoted(rec, p).payload = (IF p = None THEN rec.payload ELSE p)
      BY DEF HistoryNoted, RunRecord
    <2> QED BY <1>1, <1>2, <2>1
  <1>4. CASE p = None
    BY <1>2, <1>3, <1>4, InvisibleStep
  <1>5. CASE p # None
    <2> DEFINE out == [q \in Runs |-> [status |-> records[q].status,
                                       payload |-> records[q].payload]]
    <2>1. out' = [out EXCEPT ![r] = [status |-> records[r].status, payload |-> p]]
      BY <1>2, <1>3, <1>5
    <2>2. out[r].status = records[r].status
      OBVIOUS
    <2>3. [q \in Runs |-> records[q].conv][r] # None
      BY <1>1, RepositoryAssumption
    <2>4. UNCHANGED <<[q \in Runs |-> records[q].conv],
                      [c \in Convs |-> IF leases[c].ttl > 0
                                       THEN leases[c].run ELSE None],
                      [c \in Convs |-> leases[c].token]>>
      BY <1>2, <1>3
    <2>5. Fenced!Annotate(r, p)
      BY <2>1, <2>2, <2>3, <2>4 DEF Fenced!Annotate
    <2> QED BY <1>5, <2>5 DEF Fenced!Next
  <1> QED BY <1>4, <1>5

\* Every operation of the repository is a step of the ledger of fenced runs, or
\* invisible to it.
LEMMA RefineStep ==
    RepoInv /\ [RepoNext]_repoVars => [Fenced!Next]_(Fenced!vars)
  <1> SUFFICES ASSUME RepoInv, [RepoNext]_repoVars
               PROVE  Fenced!Next \/ UNCHANGED Fenced!vars
    OBVIOUS
  <1>0. /\ \A r \in Runs : records[r] \in RunRecord
        /\ \A c \in Convs : leases[c] \in LeaseRow
        /\ DOMAIN records = Runs /\ DOMAIN leases = Convs
    BY DEF RepoInv, RepoTypeOK
  <1>1. ASSUME NEW id \in Identity, CreateRecord(id)
        PROVE  Fenced!Next
    <2>1. id.run \in Runs /\ id.conv \in Convs
      BY DEF Identity
    <2>2. records[id.run].conv = None /\ records[id.run].payload = None
      BY <1>1, <2>1 DEF CreateRecord, RepoInv, RecordsBound, NoRecord
    <2>3. /\ records'[id.run].conv = id.conv
          /\ records'[id.run].status = "pending"
          /\ records'[id.run].payload = None
          /\ \A q \in Runs : q # id.run => records'[q] = records[q]
          /\ leases' = leases
      BY <1>0, <1>1, <2>1 DEF CreateRecord, NoRecord
    <2>4. Fenced!Open(id.run, id.conv)
      BY <2>1, <2>2, <2>3 DEF Fenced!Open
    <2> QED BY <2>1, <2>4 DEF Fenced!Next
  <1>2. ASSUME NEW id \in Identity, NEW o \in Owners, ConfirmedAcquire(id, o)
        PROVE  Fenced!Next
    <2>1. id.run \in Runs /\ id.conv \in Convs
      BY DEF Identity
    <2>2. /\ records[id.run].conv = id.conv
          /\ leases[id.conv].ttl = 0
      BY <1>2 DEF ConfirmedAcquire, Acquire, Validates
    <2>3. /\ records'[id.run].conv = id.conv
          /\ records'[id.run].status = "running"
          /\ records'[id.run].payload = records[id.run].payload
          /\ \A q \in Runs : q # id.run => records'[q] = records[q]
      BY <1>0, <1>2, <2>1, <2>2 DEF ConfirmedAcquire, Acquire, RunRecord
    <2>4. /\ leases'[id.conv].run = id.run
          /\ leases'[id.conv].token = leases[id.conv].token + 1
          /\ leases'[id.conv].ttl > 0
          /\ \A c \in Convs : c # id.conv => leases'[c] = leases[c]
      BY <1>0, <1>2, <2>1, RepositoryAssumption DEF ConfirmedAcquire, Acquire
    <2> DEFINE out == [q \in Runs |-> [status |-> records[q].status,
                                       payload |-> records[q].payload]]
    <2>5. out' = [out EXCEPT ![id.run] = [status |-> "running",
                                          payload |-> out[id.run].payload]]
      BY <2>1, <2>3
    <2> DEFINE hold == [c \in Convs |-> IF leases[c].ttl > 0
                                         THEN leases[c].run ELSE None]
               ep == [c \in Convs |-> leases[c].token]
               hm == [q \in Runs |-> records[q].conv]
    <2>6. hold' = [hold EXCEPT ![id.conv] = id.run] /\ hold[id.conv] = None
      BY <2>1, <2>2, <2>4
    <2>7. ep' = [ep EXCEPT ![id.conv] = ep[id.conv] + 1]
      BY <2>1, <2>4
    <2>8. hm' = hm /\ hm[id.run] = id.conv
      BY <2>1, <2>2, <2>3
    <2>9. Fenced!Grant(id.run, id.conv)
      BY <2>5, <2>6, <2>7, <2>8 DEF Fenced!Grant
    <2> QED BY <2>1, <2>9 DEF Fenced!Next
  <1>3. ASSUME NEW h \in handles, LeaseOperation(h)
        PROVE  Fenced!Next \/ UNCHANGED Fenced!vars
    <2>0. h.run \in Runs /\ h.conv \in Convs
      BY DEF RepoInv, RepoTypeOK, Handle
    <2>1. CASE Renew(h)
      <3>1. /\ \A r \in Runs : /\ records'[r].conv = records[r].conv
                               /\ records'[r].status = records[r].status
                               /\ records'[r].payload = records[r].payload
        BY <1>0, <2>0, <2>1 DEF Renew, RunRecord
      <3>2. \A c \in Convs : /\ leases'[c].run = leases[c].run
                             /\ leases'[c].token = leases[c].token
                             /\ leases'[c].ttl > 0 <=> leases[c].ttl > 0
        BY <1>0, <2>0, <2>1, RepositoryAssumption DEF Renew, LeaseLive, LeaseRow
      <3> QED BY <3>1, <3>2, InvisibleStep
    <2>2. CASE Release(h)
      <3>1. records' = records
        BY <2>2 DEF Release
      <3>2. \A c \in Convs : /\ leases'[c].run = leases[c].run
                             /\ leases'[c].token = leases[c].token
                             /\ leases'[c].ttl > 0 => leases[c].ttl > 0
        BY <1>0, <2>0, <2>2 DEF Release, LeaseRow
      <3>3. \E S \in SUBSET Convs : Fenced!Drop(S)
        BY <3>1, <3>2, DropStep
      <3> QED BY <3>3 DEF Fenced!Next
    <2>3. ASSUME NEW status \in Outcomes, NEW p \in Payloads \cup {None},
                 MarkTerminal(h, status, p)
          PROVE  Fenced!Next
      <3>1. LeaseLive(h) /\ leases' = leases
        BY <2>3 DEF MarkTerminal, MayWrite
      <3>2. records[h.run].conv = h.conv
        BY <3>1, LiveLeaseRecord
      <3>3. leases[h.conv].run = h.run /\ leases[h.conv].ttl > 0
        BY <3>1 DEF LeaseLive, SameOwner
      <3>4. /\ records'[h.run].conv = records[h.run].conv
            /\ records'[h.run].status = status
            /\ records'[h.run].payload = p
            /\ \A q \in Runs : q # h.run => records'[q] = records[q]
        BY <1>0, <2>0, <2>3 DEF MarkTerminal, RunRecord
      <3>5. Fenced!Settle(h.run, h.conv, status, p)
        BY <2>0, <3>1, <3>2, <3>3, <3>4 DEF Fenced!Settle
      <3> QED BY <2>0, <3>5 DEF Fenced!Next
    <2>4. ASSUME NEW p \in Payloads \cup {None}, MarkHistoryCommitted(h, p)
          PROVE  Fenced!Next \/ UNCHANGED Fenced!vars
      <3>1. Exists(h.run)
        BY <2>4, LiveLeaseRecord DEF MarkHistoryCommitted, MayWrite
      <3> QED BY <2>0, <2>4, <3>1, AnnotateStep DEF MarkHistoryCommitted
    <2> QED BY <1>3, <2>1, <2>2, <2>3, <2>4 DEF LeaseOperation
  <1>4. ASSUME NEW r \in Runs, RunOperation(r)
        PROVE  Fenced!Next \/ UNCHANGED Fenced!vars
    <2>1. ASSUME NEW p \in Payloads \cup {None}, ReconcileHistory(r, p)
          PROVE  Fenced!Next \/ UNCHANGED Fenced!vars
      BY <2>1, AnnotateStep DEF ReconcileHistory
    <2>2. CASE RevokeResumeTokens(r)
      <3>1. \A q \in Runs : /\ records'[q].conv = records[q].conv
                            /\ records'[q].status = records[q].status
                            /\ records'[q].payload = records[q].payload
        BY <1>0, <2>2 DEF RevokeResumeTokens, RunRecord
      <3> QED BY <2>2, <3>1, InvisibleStep DEF RevokeResumeTokens
    <2> QED BY <1>4, <2>1, <2>2 DEF RunOperation
  <1>5. CASE Tick
    <2>1. \A r \in Runs : /\ records'[r].conv = records[r].conv
                          /\ records'[r].status = records[r].status
                          /\ records'[r].payload = records[r].payload
      BY <1>0, <1>5 DEF Tick, RunRecord
    <2>2. \A c \in Convs : /\ leases'[c].run = leases[c].run
                           /\ leases'[c].token = leases[c].token
                           /\ leases'[c].ttl > 0 => leases[c].ttl > 0
      BY <1>0, <1>5 DEF Tick, LeaseRow, Elapse
    <2>3. \E S \in SUBSET Convs : Fenced!Drop(S)
      BY <2>1, <2>2, DropStep
    <2> QED BY <2>3 DEF Fenced!Next
  <1>6. CASE UNCHANGED repoVars
    BY <1>6 DEF repoVars, Fenced!vars
  <1> QED BY <1>1, <1>2, <1>3, <1>4, <1>5, <1>6 DEF RepoNext

\* The repository, with either backend, is an implementation of the ledger of
\* fenced runs.
THEOREM Refinement == RepoSpec => ImplementsFencedRuns
  <1>1. RepoInit => Fenced!Init
    BY DEF RepoInit, Fenced!Init, NoRecord, NoLease
  <1> QED
    BY <1>1, RefineStep, RepoInvariant, PTL
       DEF RepoSpec, ImplementsFencedRuns, Fenced!Spec

-----------------------------------------------------------------------------
(* Action properties *)

\* The status of a run that was superseded in its conversation does not
\* change until the run is granted a later token.
THEOREM SupersededStaysFrozen == RepoSpec => SupersededRunFrozen
  <1>1. ASSUME RepoInv, RepoNext, NEW r \in Runs, Superseded(r)
        PROVE  \/ records'[r].status = records[r].status
               \/ records'[r].token > leases[records[r].conv].token
    <2>0. /\ \A q \in Runs : records[q] \in RunRecord
          /\ \A c \in Convs : leases[c].token \in Nat
          /\ DOMAIN records = Runs
          /\ records[r].conv \in Convs
          /\ records[r].token < leases[records[r].conv].token
      BY <1>1 DEF RepoInv, RepoTypeOK, LeaseRow, RecordsBound, Superseded
    <2>1. ASSUME NEW id \in Identity, CreateRecord(id)
          PROVE  records'[r].status = records[r].status
      BY <1>1, <2>0, <2>1 DEF CreateRecord, Identity, Superseded
    <2>2. ASSUME NEW id \in Identity, NEW o \in Owners, ConfirmedAcquire(id, o),
                 records'[r].status # records[r].status
          PROVE  records'[r].token > leases[records[r].conv].token
      <3>1. r = id.run /\ records[r].conv = id.conv
        BY <2>0, <2>2 DEF ConfirmedAcquire, Acquire, Identity, Validates
      <3>2. records'[r].token = leases[id.conv].token + 1
        BY <2>0, <2>2, <3>1 DEF ConfirmedAcquire, Acquire, RunRecord
      <3> QED BY <2>0, <3>1, <3>2
    <2>3. ASSUME NEW h \in handles, LeaseOperation(h)
          PROVE  records'[r].status = records[r].status
      <3>0. h.run \in Runs /\ h.conv \in Convs
        BY <1>1 DEF RepoInv, RepoTypeOK, Handle
      <3>1. CASE Renew(h)
        BY <2>0, <3>0, <3>1 DEF Renew, RunRecord
      <3>2. CASE Release(h)
        BY <3>2 DEF Release
      <3>3. ASSUME NEW status \in Outcomes, NEW p \in Payloads \cup {None},
                   MarkTerminal(h, status, p)
            PROVE  records'[r].status = records[r].status
        <4>1. LeaseLive(h)
          BY <3>3 DEF MarkTerminal, MayWrite
        <4>2. records[h.run].token = leases[h.conv].token
              /\ records[h.run].conv = h.conv
          BY <1>1, <4>1, LiveLeaseRecord DEF LeaseLive, SameOwner
        <4>3. r # h.run
          BY <2>0, <4>2
        <4> QED BY <2>0, <3>3, <4>3 DEF MarkTerminal
      <3>4. ASSUME NEW p \in Payloads \cup {None}, MarkHistoryCommitted(h, p)
            PROVE  records'[r].status = records[r].status
        BY <2>0, <3>0, <3>4 DEF MarkHistoryCommitted, HistoryNoted, RunRecord
      <3> QED BY <2>3, <3>1, <3>2, <3>3, <3>4 DEF LeaseOperation
    <2>4. ASSUME NEW q \in Runs, RunOperation(q)
          PROVE  records'[r].status = records[r].status
      <3>1. ASSUME NEW p \in Payloads \cup {None}, ReconcileHistory(q, p)
            PROVE  records'[r].status = records[r].status
        BY <2>0, <3>1 DEF ReconcileHistory, HistoryNoted, RunRecord
      <3>2. CASE RevokeResumeTokens(q)
        BY <2>0, <3>2 DEF RevokeResumeTokens, RunRecord
      <3> QED BY <2>4, <3>1, <3>2 DEF RunOperation
    <2>5. CASE Tick
      BY <2>0, <2>5 DEF Tick, RunRecord
    <2> QED BY <1>1, <2>1, <2>2, <2>3, <2>4, <2>5 DEF RepoNext
  <1>2. RepoInv /\ [RepoNext]_repoVars =>
            [\A r \in Runs : Superseded(r) =>
                \/ records'[r].status = records[r].status
                \/ records'[r].token > leases[records[r].conv].token]_repoVars
    BY <1>1
  <1> QED BY <1>2, RepoInvariant, PTL DEF RepoSpec, SupersededRunFrozen

\* A live lease is never replaced, and tokens never decrease.
THEOREM GrantsExclusive == RepoSpec => ExclusiveGrant
  <1>1. ASSUME RepoInv, RepoNext, NEW c \in Convs
        PROVE  /\ leases'[c].token >= leases[c].token
               /\ leases[c].ttl > 0 => leases'[c].token = leases[c].token
    <2>0. /\ \A d \in Convs : leases[d] \in LeaseRow
          /\ DOMAIN leases = Convs
          /\ leases[c].token \in Nat /\ leases[c].ttl \in Nat
      BY <1>1 DEF RepoInv, RepoTypeOK, LeaseRow
    <2>1. ASSUME NEW id \in Identity, NEW o \in Owners, ConfirmedAcquire(id, o)
          PROVE  /\ leases'[c].token >= leases[c].token
                 /\ leases[c].ttl > 0 => leases'[c].token = leases[c].token
      BY <2>0, <2>1 DEF ConfirmedAcquire, Acquire, Identity
    <2>2. CASE \A id \in Identity, o \in Owners : ~ConfirmedAcquire(id, o)
      <3>1. ASSUME NEW h \in handles, LeaseOperation(h)
            PROVE  leases'[c].token = leases[c].token
        <4>0. h.conv \in Convs
          BY <1>1 DEF RepoInv, RepoTypeOK, Handle
        <4>1. CASE Renew(h)
          BY <2>0, <4>0, <4>1 DEF Renew, LeaseRow
        <4>2. CASE Release(h)
          BY <2>0, <4>0, <4>2 DEF Release, LeaseRow
        <4>3. CASE leases' = leases
          BY <4>3
        <4> QED
          BY <3>1, <4>1, <4>2, <4>3
             DEF LeaseOperation, MarkTerminal, MarkHistoryCommitted
      <3>2. ASSUME Tick PROVE leases'[c].token = leases[c].token
        BY <2>0, <3>2 DEF Tick, LeaseRow
      <3>3. ASSUME NEW id \in Identity, CreateRecord(id) PROVE leases' = leases
        BY <3>3 DEF CreateRecord
      <3>4. ASSUME NEW r \in Runs, RunOperation(r) PROVE leases' = leases
        BY <3>4 DEF RunOperation, ReconcileHistory, RevokeResumeTokens
      <3>5. leases'[c].token = leases[c].token
        <4>1. CASE \E id \in Identity, o \in Owners : ConfirmedAcquire(id, o)
          BY <2>2, <4>1
        <4>2. CASE \E h \in handles : LeaseOperation(h)
          BY <3>1, <4>2
        <4>3. CASE \E id \in Identity : CreateRecord(id)
          BY <3>3, <4>3
        <4>4. CASE \E r \in Runs : RunOperation(r)
          BY <3>4, <4>4
        <4> QED BY <1>1, <3>2, <4>1, <4>2, <4>3, <4>4 DEF RepoNext
      <3> QED BY <2>0, <3>5
    <2> QED BY <2>1, <2>2
  <1>2. RepoInv /\ [RepoNext]_repoVars =>
            [\A c \in Convs :
                /\ leases'[c].token >= leases[c].token
                /\ leases[c].ttl > 0 =>
                      leases'[c].token = leases[c].token]_repoVars
    BY <1>1
  <1> QED BY <1>2, RepoInvariant, PTL DEF RepoSpec, ExclusiveGrant
=============================================================================
