------------------------------ MODULE MCPSession ------------------------------
(***************************************************************************)
(* The MCP client's session: single-flight initialization and recovery of  *)
(* an expired session (app/mcp/session.py) under concurrent JSON-RPC calls *)
(* (app/mcp/client.py, _rpc), those of tools admitted by the ToolExecutor  *)
(* (app/tools/executor.py).  The server keeps the set of live sessions and *)
(* may drop any of them; requests and answers may be lost, which stands    *)
(* for a post the execution meter refuses, too.                            *)
(*                                                                         *)
(* Calls are asyncio tasks.  They suspend on the executor's semaphore, on  *)
(* the session lock and on every HTTP post; what lies between two          *)
(* suspensions is one action.                                              *)
(***************************************************************************)
EXTENDS Integers, FiniteSets

CONSTANTS
    Calls,       \* concurrent RPC calls
    Retryable,   \* those with retry_on_expiry (tools/list); the others are tools/call
    MaxSlots,    \* bound on mcp_max_concurrency
    Nobody,      \* the session lock is free
    MaxExpiries, \* bound on the sessions the server drops
    Faults       \* of "lost", "cancel"

ASSUME SessionAssumption ==
    /\ IsFiniteSet(Calls) /\ Retryable \subseteq Calls /\ Nobody \notin Calls
    /\ MaxSlots \in Nat \ {0} /\ MaxExpiries \in Nat /\ Faults \subseteq {"lost", "cancel"}

VARIABLES
    pc,        \* where a call is suspended, or how it ended
    observed,  \* observed_generation of a call
    sid,       \* the session id its request carried
    slots,     \* free slots of the executor's semaphore
    session,   \* MCPSessionState: initialized, session id (0 for None), generation
    lock,      \* holder of the session lock
    live,      \* sessions the server knows
    opened,    \* sessions the server has created
    expiries,  \* sessions the server has dropped
    aborted,   \* handshakes that failed or were cancelled
    executed   \* how often the server executed a call

mcpVars == <<pc, observed, sid, slots, session, lock, live, opened, expiries, aborted, executed>>

Suspended == {"wait_slot", "got_slot", "wait_init", "initialize", "notify", "sent", "respond",
              "wait_recover", "reinitialize", "renotify", "resent", "rerespond"}
Handshake == {"initialize", "notify", "reinitialize", "renotify"}
Finished == {"denied", "ok", "failed", "expired", "raw_404"}

McpTypeOK ==
    /\ pc \in [Calls -> Suspended \cup Finished \cup {"idle"}]
    /\ observed \in [Calls -> Nat] /\ sid \in [Calls -> Nat]
    /\ slots \in 0..MaxSlots
    /\ session \in [initialized : BOOLEAN, id : Nat, generation : Nat]
    /\ lock \in Calls \cup {Nobody}
    /\ live \subseteq 1..opened
    /\ opened \in Nat /\ aborted \in Nat /\ expiries \in 0..MaxExpiries
    /\ executed \in [Calls -> Nat]

McpInit ==
    /\ pc = [c \in Calls |-> "idle"]
    /\ observed = [c \in Calls |-> 0] /\ sid = [c \in Calls |-> 0]
    /\ slots \in 1..MaxSlots
    /\ session = [initialized |-> FALSE, id |-> 0, generation |-> 0]
    /\ lock = Nobody /\ live = {} /\ opened = 0 /\ expiries = 0 /\ aborted = 0
    /\ executed = [c \in Calls |-> 0]

serverVars == <<live, opened, expiries>>

-----------------------------------------------------------------------------
(* Session state *)

\* _reset_unlocked
Reset(s) == [initialized |-> FALSE, id |-> 0, generation |-> s.generation + 1]

\* Mutant of Negotiated: initialized before the server was notified.
NegotiatedEarly(s, id) == [initialized |-> TRUE, id |-> id, generation |-> s.generation]

\* The answer to initialize: a session id, not yet initialized.
Negotiated(s, id) == [initialized |-> FALSE, id |-> id, generation |-> s.generation]

\* After the initialized notification.
Initialized(s) == [initialized |-> TRUE, id |-> s.id, generation |-> s.generation + 1]

-----------------------------------------------------------------------------
(* A call moves on *)

Goto(c, place) == pc' = [pc EXCEPT ![c] = place] /\ UNCHANGED <<observed, sid, slots>>

\* Calls that are inside the executor's semaphore.
Holds(c) == c \notin Retryable /\ pc[c] \in Suspended \ {"wait_slot"}

\* Mutant of End: a call that did not succeed keeps its slot.
EndKeepingSlot(c, how) ==
    /\ pc' = [pc EXCEPT ![c] = how]
    /\ slots' = IF Holds(c) /\ how = "ok" THEN slots + 1 ELSE slots
    /\ UNCHANGED <<observed, sid>>

\* The call returns or raises, and so frees its slot.
End(c, how) ==
    /\ pc' = [pc EXCEPT ![c] = how]
    /\ slots' = IF Holds(c) THEN slots + 1 ELSE slots
    /\ UNCHANGED <<observed, sid>>

\* _send_for_session with the headers of the session s; the generation is
\* read in the same step.
Send(c, s, label) ==
    /\ pc' = [pc EXCEPT ![c] = label]
    /\ observed' = [observed EXCEPT ![c] = s.generation]
    /\ sid' = [sid EXCEPT ![c] = s.id]
    /\ UNCHANGED slots

\* Mutant of Recovered: tool calls are repeated as well.
RecoveredAny(c, s) == Send(c, s, "resent")

\* The session was recovered: repeat the call if that is safe.
Recovered(c, s) ==
    IF c \in Retryable THEN Send(c, s, "resent") ELSE End(c, "expired")

-----------------------------------------------------------------------------
(* The server's side of an exchange whose answer never arrives *)

\* It may have opened a session.
Orphaned ==
    /\ opened' \in {opened, opened + 1}
    /\ live' = live \cup (opened + 1..opened')
    /\ UNCHANGED expiries

\* It may have executed the call.
Unheard(c) ==
    executed' \in {executed} \cup
        IF sid[c] \in live THEN {[executed EXCEPT ![c] = @ + 1]} ELSE {}

-----------------------------------------------------------------------------
(* A call *)

clientVars == <<session, lock, aborted>>

\* ToolExecutor.execute of a tool call: the policy refuses it, or it takes a
\* slot, or it waits for one.
Execute(c) ==
    /\ pc[c] = "idle" /\ c \notin Retryable
    /\ \/ End(c, "denied")
       \/ /\ slots > 0
          /\ pc' = [pc EXCEPT ![c] = "got_slot"] /\ slots' = slots - 1
          /\ UNCHANGED <<observed, sid>>
       \/ slots = 0 /\ Goto(c, "wait_slot")
    /\ UNCHANGED <<clientVars, serverVars, executed>>

\* A slot has become free.
Admit(c) ==
    /\ pc[c] = "wait_slot" /\ slots > 0
    /\ pc' = [pc EXCEPT ![c] = "got_slot"] /\ slots' = slots - 1
    /\ UNCHANGED <<observed, sid, clientVars, serverVars, executed>>

\* _rpc up to its first suspension: ensure_initialized, then the request.
Call(c) ==
    /\ pc[c] = IF c \in Retryable THEN "idle" ELSE "got_slot"
    /\ IF session.initialized THEN Send(c, session, "sent") ELSE Goto(c, "wait_init")
    /\ UNCHANGED <<clientVars, serverVars, executed>>

\* ensure_initialized has the lock and looks again.
EnterInitialize(c) ==
    /\ pc[c] = "wait_init" /\ lock = Nobody
    /\ IF session.initialized
       THEN Send(c, session, "sent") /\ UNCHANGED lock
       ELSE Goto(c, "initialize") /\ lock' = c
    /\ UNCHANGED <<session, serverVars, aborted, executed>>

\* The except block of _initialize_locked: reset, raise, and so free the lock.
Abort(c) ==
    /\ session' = Reset(session)
    /\ lock' = Nobody
    /\ aborted' = aborted + 1
    /\ End(c, "failed")

\* The answer to initialize, of the first or of a recovering handshake.
InitializeReply(c) ==
    /\ pc[c] \in {"initialize", "reinitialize"}
    /\ \/ /\ opened' = opened + 1
          /\ live' = live \cup {opened + 1}
          /\ session' = Negotiated(session, opened + 1)
          /\ Goto(c, IF pc[c] = "initialize" THEN "notify" ELSE "renotify")
          /\ UNCHANGED <<lock, expiries, aborted>>
       \/ "lost" \in Faults /\ Abort(c) /\ Orphaned
    /\ UNCHANGED executed

\* The answer to the notification completes the handshake and frees the lock.
NotifyReply(c) ==
    LET s == Initialized(session) IN
    /\ pc[c] \in {"notify", "renotify"}
    /\ \/ /\ session.id \in live
          /\ session' = s /\ lock' = Nobody
          /\ IF pc[c] = "notify" THEN Send(c, s, "sent") ELSE Recovered(c, s)
          /\ UNCHANGED aborted
       \/ ("lost" \in Faults \/ session.id \notin live) /\ Abort(c)
    /\ UNCHANGED <<serverVars, executed>>

\* A 404 starts the recovery only for the first attempt, and only if the client
\* still has a session id at that moment; otherwise it is raised as it is.
NotFound(c) ==
    IF pc[c] \in {"resent", "rerespond"} THEN End(c, "failed")
    ELSE IF session.id # 0 THEN Goto(c, "wait_recover") ELSE End(c, "raw_404")

\* The answer to the call, or to the repeated one.  A request of the server's
\* that came with it is answered, in the session the client has by now, before
\* the call returns.
Reply(c) ==
    /\ pc[c] \in {"sent", "resent"}
    /\ \/ /\ sid[c] \in live
          /\ executed' = [executed EXCEPT ![c] = @ + 1]
          /\ \/ End(c, "ok")
             \/ /\ pc' = [pc EXCEPT ![c] = IF @ = "sent" THEN "respond" ELSE "rerespond"]
                /\ sid' = [sid EXCEPT ![c] = session.id]
                /\ UNCHANGED <<observed, slots>>
       \/ sid[c] \notin live /\ NotFound(c) /\ UNCHANGED executed
       \/ "lost" \in Faults /\ Unheard(c) /\ End(c, "failed")
    /\ UNCHANGED <<clientVars, serverVars>>

\* The post of _respond_to_server_request; its 404 counts as one of the call.
Respond(c) ==
    /\ pc[c] \in {"respond", "rerespond"}
    /\ \/ sid[c] \in live /\ End(c, "ok")
       \/ sid[c] \notin live /\ NotFound(c)
       \/ "lost" \in Faults /\ End(c, "failed")
    /\ UNCHANGED <<clientVars, serverVars, executed>>

\* Mutant of Reusable: every caller reinitializes for itself.
NeverReusable(c) == FALSE

\* Somebody else has replaced the session this call saw expire.
Reusable(c) == session.initialized /\ session.generation # observed[c]

\* recover_expired has the lock.
EnterRecover(c) ==
    /\ pc[c] = "wait_recover" /\ lock = Nobody
    /\ IF Reusable(c)
       THEN Recovered(c, session) /\ UNCHANGED <<session, lock>>
       ELSE session' = Reset(session) /\ lock' = c /\ Goto(c, "reinitialize")
    /\ UNCHANGED <<serverVars, aborted, executed>>

\* CancelledError at a suspension, also by the deadline of the run's budget.  A
\* cancelled handshake frees the lock but leaves the session as it is: the
\* except block is for Exception only.  The server may have received the
\* request that nobody waits for any more.
Cancel(c) ==
    /\ "cancel" \in Faults /\ pc[c] \in Suspended
    /\ lock' = IF lock = c THEN Nobody ELSE lock
    /\ aborted' = IF pc[c] \in Handshake THEN aborted + 1 ELSE aborted
    /\ IF pc[c] \in {"initialize", "reinitialize"} THEN Orphaned ELSE UNCHANGED serverVars
    /\ IF pc[c] \in {"sent", "resent"} THEN Unheard(c) ELSE UNCHANGED executed
    /\ End(c, "failed")
    /\ UNCHANGED session

\* The server drops a session.
Expire(s) ==
    /\ s \in live /\ expiries < MaxExpiries
    /\ live' = live \ {s}
    /\ expiries' = expiries + 1
    /\ UNCHANGED <<pc, observed, sid, slots, session, lock, opened, aborted, executed>>

McpStep(c) ==
    \/ Admit(c) \/ (c \notin Retryable /\ Call(c))
    \/ EnterInitialize(c) \/ InitializeReply(c) \/ NotifyReply(c)
    \/ Reply(c) \/ Respond(c) \/ EnterRecover(c)

McpNext ==
    \/ \E c \in Calls : Execute(c) \/ Call(c) \/ McpStep(c) \/ Cancel(c)
    \/ \E s \in live : Expire(s)

McpSpec == McpInit /\ [][McpNext]_mcpVars

\* Slots and the lock are handed on, and an HTTP post ends by its timeout at the latest.
FairMcpSpec == McpSpec /\ \A c \in Calls : WF_mcpVars(McpStep(c))

-----------------------------------------------------------------------------
(* Properties *)

\* SingleFlight: however many calls meet an expired session, it is replaced
\* once: sessions are opened only for the first call, for a session the server
\* dropped and for a handshake that failed (recover_expired: "later callers
\* reuse the new session").
SingleFlight == opened <= 1 + expiries + aborted

\* NeverReplayed: the server executes a tool call at most once, although the
\* session can expire after the call has taken effect, while the client still
\* answers a request of the server's, and answers get lost ("not automatically
\* replayed because its completion is ambiguous"); a tools/list twice at most.
NeverReplayed ==
    \A c \in Calls : executed[c] <= IF c \in Retryable THEN 2 ELSE 1

\* HandshakeExclusive: the calls in a handshake are the holder of the lock,
\* and nobody sees an initialized session while it is being replaced.
HandshakeExclusive ==
    /\ \A c \in Calls : pc[c] \in Handshake <=> lock = c
    /\ lock # Nobody => ~session.initialized
    /\ session.initialized => session.id = opened

\* CallsReturn: every call ends, with an answer or an error, although it waits
\* for a slot of the executor behind calls that fail, expire or are cancelled,
\* and for the session lock behind their handshakes.
CallsReturn ==
    \A c \in Calls : pc[c] \in Suspended ~> pc[c] \in Finished

\* ExpiryIsRecovered: a call that meets an expired session waits for the
\* recovery (recover_expired: "Concurrent callers that saw the same expired
\* session wait on the lock") and never ends with the bare 404.
ExpiryIsRecovered == \A c \in Calls : pc[c] # "raw_404"
=============================================================================
