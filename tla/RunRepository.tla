----------------------------- MODULE RunRepository -----------------------------
(***************************************************************************)
(* The durable authority for run ownership, outcomes and replay:           *)
(* app/state/run_repository.py, in its process-local (Memory) and its      *)
(* PostgreSQL implementation, which Backend selects.                       *)
(*                                                                         *)
(* Every operation runs under the repository lock (memory) or in one       *)
(* statement or transaction (PostgreSQL), so each is one action.  An       *)
(* operation that raises leaves the state alone and is no action here.     *)
(* The callers are arbitrary: any lease that was ever granted may be       *)
(* presented again at any time, which covers delayed, duplicated and       *)
(* reordered calls of owners that lost their lease.                        *)
(*                                                                         *)
(* Time is a countdown: `ttl' and `expires' are the seconds an expiry      *)
(* timestamp lies in the future, 0 once it is <= now.                      *)
(***************************************************************************)
EXTENDS Naturals, FiniteSets

CONSTANTS
    Runs,        \* run ids
    Convs,       \* conversation ids
    Owners,      \* lease owner ids (a uuid4 per execution)
    Hashes,      \* request hash, hash version and state schema version
    Payloads,    \* response payloads
    None,        \* SQL NULL / Python None
    TTL,         \* run_lease_ttl_seconds, in ticks
    Backend,     \* "memory" or "postgres"
    MaxToken,    \* bound on the fencing tokens of a conversation
    MaxVersion   \* bound on resume_token_version

ASSUME RepositoryAssumption ==
    /\ TTL \in Nat \ {0}
    /\ MaxToken \in Nat
    /\ MaxVersion \in Nat \ {0}
    /\ Backend \in {"memory", "postgres"}
    /\ None \notin Runs \cup Convs \cup Owners \cup Hashes \cup Payloads

VARIABLES
    records,     \* app_runs, by run id
    leases,      \* app_conversation_leases with the fencing counter
    handles      \* every RunLease that was returned to some caller

repoVars == <<records, leases, handles>>

-----------------------------------------------------------------------------
(* Values *)

TerminalStatuses == {"completed", "failed", "cancelled"}
Outcomes == TerminalStatuses \cup {"interrupted"}
Statuses == Outcomes \cup {"absent", "pending", "running"}

\* The identity a caller presents (conversation, run and request).
Identity == [run : Runs, conv : Convs, hash : Hashes]

\* A granted lease as its owner remembers it.
Handle == [conv : Convs, run : Runs, owner : Owners, token : Nat]

\* token = 0 stands for the NULL fencing token of a run never acquired.
RunRecord ==
    [ conv : Convs \cup {None}, hash : Hashes \cup {None},
      status : Statuses, owner : Owners \cup {None},
      token : Nat, expires : 0..TTL,
      payload : Payloads \cup {None},
      history : BOOLEAN, version : Nat ]

\* A conversation nobody ever held has token 0 and no time left.
LeaseRow ==
    [ run : Runs \cup {None}, owner : Owners \cup {None},
      token : Nat, ttl : 0..TTL ]

NoRecord ==
    [ conv |-> None, hash |-> None, status |-> "absent", owner |-> None,
      token |-> 0, expires |-> 0, payload |-> None, history |-> FALSE,
      version |-> 0 ]

NoLease == [run |-> None, owner |-> None, token |-> 0, ttl |-> 0]

RepoTypeOK ==
    /\ records \in [Runs -> RunRecord]
    /\ leases \in [Convs -> LeaseRow]
    /\ handles \subseteq Handle

-----------------------------------------------------------------------------
(* Tests *)

Exists(r) == records[r].status # "absent"

\* _validate_record_identity: the record is bound to this very request.
Validates(id) ==
    /\ Exists(id.run)
    /\ records[id.run].conv = id.conv
    /\ records[id.run].hash = id.hash

\* _same_owner: the lease row still names this grant.
SameOwner(h) ==
    /\ leases[h.conv].run = h.run
    /\ leases[h.conv].owner = h.owner
    /\ leases[h.conv].token = h.token

\* Mutant of LeaseLive: the expiry is not tested.
LeaseNamed(h) == SameOwner(h)

\* _assert_lease: it does, and it has not expired.
LeaseLive(h) == SameOwner(h) /\ leases[h.conv].ttl > 0

\* Mutant of MayWrite: only the record's own fencing columns are compared,
\* without the EXISTS test on the lease row.
RecordNamesOwner(h) ==
    /\ records[h.run].owner = h.owner
    /\ records[h.run].token = h.token
    /\ records[h.run].conv = h.conv

\* The condition of every fenced write.  PostgreSQL tests the record's own
\* fencing columns as well as the lease row.
MayWrite(h) ==
    /\ LeaseLive(h)
    /\ Backend = "postgres" =>
          /\ records[h.run].owner = h.owner
          /\ records[h.run].token = h.token
          /\ records[h.run].conv = h.conv

-----------------------------------------------------------------------------
(* Operations *)

RepoInit ==
    /\ records = [r \in Runs |-> NoRecord]
    /\ leases = [c \in Convs |-> NoLease]
    /\ handles = {}

\* create_or_get, when the run is unknown.  Otherwise it only reads.
CreateRecord(id) ==
    /\ ~Exists(id.run)
    /\ records' = [records EXCEPT ![id.run] =
                     [NoRecord EXCEPT !.conv = id.conv, !.hash = id.hash,
                                      !.status = "pending", !.version = 1]]
    /\ UNCHANGED <<leases, handles>>

\* Mutant of Acquire: the lease is taken over while its owner still has time.
AcquireUnexpired(id, o) ==
    LET t == leases[id.conv].token + 1 IN
    /\ Exists(id.run)
    /\ t <= MaxToken
    /\ leases' = [leases EXCEPT ![id.conv] =
                    [run |-> id.run, owner |-> o, token |-> t, ttl |-> TTL]]
    /\ records' = [records EXCEPT ![id.run] =
                     [@ EXCEPT !.status = "running", !.owner = o,
                               !.token = t, !.expires = TTL]]
    /\ handles' = handles \cup
          {[conv |-> id.conv, run |-> id.run, owner |-> o, token |-> t]}

\* acquire.  The memory implementation validates the identity itself;
\* PostgreSQL leaves that to its caller.
Acquire(id, o) ==
    LET t == leases[id.conv].token + 1 IN
    /\ Exists(id.run)
    /\ Backend = "memory" => Validates(id)
    /\ leases[id.conv].ttl = 0
    /\ t <= MaxToken
    /\ leases' = [leases EXCEPT ![id.conv] =
                    [run |-> id.run, owner |-> o, token |-> t, ttl |-> TTL]]
    /\ records' = [records EXCEPT ![id.run] =
                     [@ EXCEPT !.status = "running", !.owner = o,
                               !.token = t, !.expires = TTL]]
    /\ handles' = handles \cup
          {[conv |-> id.conv, run |-> id.run, owner |-> o, token |-> t]}

\* Mutant of Renew: the new expiry counts from the old one, not from now.
RenewFromExpiry(h) ==
    /\ LeaseLive(h)
    /\ leases' = [leases EXCEPT ![h.conv] = [@ EXCEPT !.ttl = leases[h.conv].ttl + TTL]]
    /\ UNCHANGED <<records, handles>>

\* Mutant of Renew: only the lease row is moved.
RenewLeaseOnly(h) ==
    /\ LeaseLive(h)
    /\ leases' = [leases EXCEPT ![h.conv] = [@ EXCEPT !.ttl = TTL]]
    /\ UNCHANGED <<records, handles>>

\* renew.  PostgreSQL moves the record's expiry only where the token agrees.
Renew(h) ==
    /\ LeaseLive(h)
    /\ leases' = [leases EXCEPT ![h.conv] = [@ EXCEPT !.ttl = TTL]]
    /\ records' = IF Backend = "postgres" /\ records[h.run].token # h.token
                  THEN records
                  ELSE [records EXCEPT ![h.run] = [@ EXCEPT !.expires = TTL]]
    /\ UNCHANGED handles

\* Mutant of Release: the lease row is deleted, and its counter with it.
ReleaseDeletes(h) ==
    /\ SameOwner(h)
    /\ leases' = [leases EXCEPT ![h.conv] = NoLease]
    /\ UNCHANGED <<records, handles>>

\* release.  The record keeps its lease_expires_at.
Release(h) ==
    /\ SameOwner(h)
    /\ leases' = [leases EXCEPT ![h.conv] = [@ EXCEPT !.ttl = 0]]
    /\ UNCHANGED <<records, handles>>

\* mark_terminal, with every status its signature admits.
MarkTerminal(h, status, p) ==
    /\ MayWrite(h)
    /\ records' = [records EXCEPT ![h.run] =
                     [@ EXCEPT !.status = status, !.payload = p]]
    /\ UNCHANGED <<leases, handles>>

\* The record with history_committed_at set; the optional response_payload
\* replaces the stored one only when it is given.
HistoryNoted(rec, p) ==
    [rec EXCEPT !.history = TRUE,
                !.payload = IF p = None THEN rec.payload ELSE p]

\* mark_history_committed
MarkHistoryCommitted(h, p) ==
    /\ MayWrite(h)
    /\ records' = [records EXCEPT ![h.run] = HistoryNoted(@, p)]
    /\ UNCHANGED <<leases, handles>>

\* reconcile_history_committed: not fenced.  Only PostgreSQL insists on a
\* terminal run.
ReconcileHistory(r, p) ==
    /\ Exists(r)
    /\ Backend = "postgres" => records[r].status \in TerminalStatuses
    /\ records' = [records EXCEPT ![r] = HistoryNoted(@, p)]
    /\ UNCHANGED <<leases, handles>>

\* revoke_resume_tokens
RevokeResumeTokens(r) ==
    /\ Exists(r)
    /\ records[r].version < MaxVersion
    /\ records' = [records EXCEPT ![r].version = @ + 1]
    /\ UNCHANGED <<leases, handles>>

Elapse(n) == IF n > 0 THEN n - 1 ELSE 0

\* A second passes: _utcnow() and NOW() move towards every expiry.
Tick ==
    /\ \/ \E c \in Convs : leases[c].ttl > 0
       \/ \E r \in Runs : records[r].expires > 0
    /\ leases' = [c \in Convs |-> [leases[c] EXCEPT !.ttl = Elapse(@)]]
    /\ records' = [r \in Runs |-> [records[r] EXCEPT !.expires = Elapse(@)]]
    /\ UNCHANGED handles

LeaseOperation(h) ==
    \/ Renew(h)
    \/ Release(h)
    \/ \E status \in Outcomes, p \in Payloads \cup {None} :
          MarkTerminal(h, status, p)
    \/ \E p \in Payloads \cup {None} : MarkHistoryCommitted(h, p)

RunOperation(r) ==
    \/ \E p \in Payloads \cup {None} : ReconcileHistory(r, p)
    \/ RevokeResumeTokens(r)

\* What the repository expects of its callers: an identity is presented to
\* acquire only after create_or_get or get confirmed it.
ConfirmedAcquire(id, o) == Validates(id) /\ Acquire(id, o)

RepoNext ==
    \/ \E id \in Identity : CreateRecord(id)
    \/ \E id \in Identity, o \in Owners : ConfirmedAcquire(id, o)
    \/ \E h \in handles : LeaseOperation(h)
    \/ \E r \in Runs : RunOperation(r)
    \/ Tick

RepoSpec == RepoInit /\ [][RepoNext]_repoVars

-----------------------------------------------------------------------------
(* Properties *)

\* LeaseRecordAgreement: while a conversation is leased, the run named by
\* the lease belongs to that conversation and its record carries the same
\* owner, token and expiry.  acquire writes both tables, renew moves both
\* expiries, and no operation on another run comes between them.
LeaseRecordAgreement ==
    \A c \in Convs : leases[c].ttl > 0 =>
        \E r \in Runs :
            /\ leases[c].run = r
            /\ records[r].conv = c
            /\ records[r].owner = leases[c].owner
            /\ records[r].token = leases[c].token
            /\ records[r].expires = leases[c].ttl

\* TokensNameOneOwner: a fencing token of a conversation was handed to one
\* owner of one run only, so comparing tokens identifies the owner.
TokensNameOneOwner ==
    \A g, h \in handles : g.conv = h.conv /\ g.token = h.token => g = h

\* The run lost its conversation to a later grant.
Superseded(r) ==
    Exists(r) /\ records[r].token < leases[records[r].conv].token

\* SupersededRunFrozen: after a takeover the status of the run that lost the
\* conversation stays as it is, until that run is granted a still later token
\* itself: mark_terminal refuses every owner with an earlier token, however
\* late its call arrives.
SupersededRunFrozen ==
    [][\A r \in Runs : Superseded(r) =>
          \/ records'[r].status = records[r].status
          \/ records'[r].token > leases[records[r].conv].token]_repoVars

\* ExclusiveGrant: the lease of a conversation never passes from one grant
\* to the next while the first still has time left, and tokens only grow.
ExclusiveGrant ==
    [][\A c \in Convs :
          /\ leases'[c].token >= leases[c].token
          /\ leases[c].ttl > 0 =>
                leases'[c].token = leases[c].token]_repoVars

\* The repository implements the abstract ledger of fenced runs: statuses
\* change by opening, by a grant, or by the current holder, and by nothing
\* else (chat_runtime's "RunRepository.acquire is the correctness boundary").
Fenced == INSTANCE FencedRuns WITH
    home <- [r \in Runs |-> records[r].conv],
    outcome <- [r \in Runs |-> [status |-> records[r].status,
                                payload |-> records[r].payload]],
    holder <- [c \in Convs |-> IF leases[c].ttl > 0
                               THEN leases[c].run ELSE None],
    epoch <- [c \in Convs |-> leases[c].token]

ImplementsFencedRuns == Fenced!Spec
=============================================================================
