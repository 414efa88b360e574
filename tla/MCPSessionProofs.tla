--------------------------- MODULE MCPSessionProofs ---------------------------
(***************************************************************************)
(* Proofs about MCPSession: the handshake is exclusive, an expired session *)
(* is replaced once, a tool call is executed at most once and the slots of *)
(* the executor are conserved, for any number of calls, slots, expiries    *)
(* and any combination of faults.                                          *)
(***************************************************************************)
EXTENDS MCPSession, FiniteSetTheorems, TLAPS

-----------------------------------------------------------------------------
(* The inductive invariant *)

\* A call that has negotiated a session id is about to complete the session
\* the server opened last.
NegotiatedIsLast == \A c \in Calls : pc[c] \in {"notify", "renotify"} => session.id = opened

\* Places before the server can have seen the request, and places of the one
\* attempt that may follow a first one.
Unsent == {"idle", "denied", "wait_slot", "got_slot", "wait_init", "initialize", "notify", "sent"}
Repeating == {"respond", "wait_recover", "reinitialize", "renotify", "resent"}

\* How often the server can have executed a call, by the place of the call.
ExecutedByPlace ==
    \A c \in Calls :
        /\ pc[c] \in Unsent => executed[c] = 0
        /\ pc[c] \in Repeating => executed[c] <= 1
        /\ executed[c] <= IF c \in Retryable THEN 2 ELSE 1
        /\ c \notin Retryable => pc[c] \notin {"resent", "rerespond"}

\* The session as it is between two steps; types as far as the proofs need them.
SessionTyped ==
    /\ pc \in [Calls -> Suspended \cup Finished \cup {"idle"}]
    /\ session \in [initialized : BOOLEAN, id : Nat, generation : Nat]
    /\ lock \in Calls \cup {Nobody}
    /\ opened \in Nat
    /\ executed \in [Calls -> Nat]

McpInv == SessionTyped /\ HandshakeExclusive /\ NegotiatedIsLast /\ ExecutedByPlace

-----------------------------------------------------------------------------
(* Initial states *)

\* The initial states.
LEMMA McpInitInv == McpInit => McpInv
  BY SessionAssumption DEF McpInit, McpInv, SessionTyped, HandshakeExclusive,
     NegotiatedIsLast, ExecutedByPlace, Suspended, Finished, Handshake, Unsent, Repeating

-----------------------------------------------------------------------------
(* What a handshake does to the session's record *)

SessionState == [initialized : BOOLEAN, id : Nat, generation : Nat]

\* A negotiated session is not initialized yet.
LEMMA NegotiatedState ==
    ASSUME NEW s \in SessionState, NEW i \in Nat
    PROVE  /\ Negotiated(s, i) \in SessionState
           /\ Negotiated(s, i).id = i /\ Negotiated(s, i).initialized = FALSE
  BY DEF SessionState, Negotiated

\* The initialized notification keeps the session's id.
LEMMA InitializedState ==
    ASSUME NEW s \in SessionState
    PROVE  Initialized(s) \in SessionState /\ Initialized(s).id = s.id
  BY DEF SessionState, Initialized

-----------------------------------------------------------------------------
(* Steps *)

USE DEF McpInv, SessionTyped, HandshakeExclusive, NegotiatedIsLast, ExecutedByPlace,
        Suspended, Finished, Handshake, Unsent, Repeating

\* A tool call asks for a slot.
LEMMA ExecuteInv == ASSUME McpInv, NEW c \in Calls, Execute(c) PROVE McpInv'
  BY SessionAssumption DEF Execute, End, Goto, clientVars, serverVars

\* A slot is handed over.
LEMMA AdmitInv == ASSUME McpInv, NEW c \in Calls, Admit(c) PROVE McpInv'
  BY SessionAssumption DEF Admit, clientVars, serverVars

\* A call finds the session ready or waits for the lock.
LEMMA CallInv == ASSUME McpInv, NEW c \in Calls, Call(c) PROVE McpInv'
  BY SessionAssumption DEF Call, Send, Goto, clientVars, serverVars

\* The holder of the lock starts a handshake if nobody has completed one.
LEMMA EnterInitializeInv == ASSUME McpInv, NEW c \in Calls, EnterInitialize(c) PROVE McpInv'
  BY SessionAssumption DEF EnterInitialize, Send, Goto, serverVars

\* The server's answer to initialize.
LEMMA InitializeReplyInv == ASSUME McpInv, NEW c \in Calls, InitializeReply(c) PROVE McpInv'
  <1>1. /\ lock = c /\ lock # Nobody /\ ~session.initialized
        /\ pc[c] \in {"initialize", "reinitialize"} /\ UNCHANGED executed
    BY SessionAssumption DEF InitializeReply
  <1>2. CASE /\ opened' = opened + 1 /\ session' = Negotiated(session, opened + 1)
             /\ Goto(c, IF pc[c] = "initialize" THEN "notify" ELSE "renotify")
             /\ UNCHANGED lock
    <2>1. PICK place \in {"notify", "renotify"} :
             /\ pc' = [pc EXCEPT ![c] = place]
             /\ pc[c] = "initialize" => place = "notify"
             /\ pc[c] # "initialize" => place = "renotify"
      BY <1>2 DEF Goto
    <2>2. session' \in [initialized : BOOLEAN, id : Nat, generation : Nat]
          /\ session'.id = opened' /\ session'.initialized = FALSE
      <3>1. session \in SessionState /\ opened + 1 \in Nat
        BY DEF SessionState
      <3> QED
        BY <1>2, <3>1, NegotiatedState DEF SessionState
    <2>3. SessionTyped'
      BY <1>1, <1>2, <2>1, <2>2
    <2>4. HandshakeExclusive' /\ NegotiatedIsLast'
      BY <1>1, <1>2, <2>1, <2>2
    <2>5. ExecutedByPlace'
      BY <1>1, <2>1
    <2> QED
      BY <2>3, <2>4, <2>5
  <1>3. CASE Abort(c) /\ Orphaned
    <2>1. /\ pc' = [pc EXCEPT ![c] = "failed"] /\ lock' = Nobody /\ opened' \in Nat
      BY <1>3 DEF Abort, End, Orphaned
    <2>2. session' \in [initialized : BOOLEAN, id : Nat, generation : Nat]
          /\ session'.initialized = FALSE
      BY <1>3 DEF Abort, Reset
    <2> QED
      BY <1>1, <2>1, <2>2, SessionAssumption
  <1> QED
    BY <1>2, <1>3 DEF InitializeReply

\* The answer to the initialized notification.
LEMMA NotifyReplyInv == ASSUME McpInv, NEW c \in Calls, NotifyReply(c) PROVE McpInv'
  <1>1. /\ lock = c /\ lock # Nobody /\ ~session.initialized
        /\ pc[c] \in {"notify", "renotify"} /\ session.id = opened
        /\ UNCHANGED <<opened, executed>>
    BY SessionAssumption DEF NotifyReply, serverVars
  <1>2. CASE /\ session' = Initialized(session) /\ lock' = Nobody
             /\ IF pc[c] = "notify" THEN Send(c, Initialized(session), "sent")
                ELSE Recovered(c, Initialized(session))
    <2>1. session' \in [initialized : BOOLEAN, id : Nat, generation : Nat]
          /\ session'.id = opened'
      <3>1. session \in SessionState
        BY DEF SessionState
      <3> QED
        BY <1>1, <1>2, <3>1, InitializedState DEF SessionState
    <2>2. PICK place \in {"sent", "resent", "expired"} :
             /\ pc' = [pc EXCEPT ![c] = place]
             /\ place = "sent" => pc[c] = "notify"
             /\ place = "resent" => pc[c] = "renotify" /\ c \in Retryable
      BY <1>1, <1>2 DEF Send, Recovered, End
    <2> QED
      BY <1>1, <1>2, <2>1, <2>2, SessionAssumption
  <1>3. CASE Abort(c)
    <2>1. pc' = [pc EXCEPT ![c] = "failed"] /\ lock' = Nobody
      BY <1>3 DEF Abort, End
    <2>2. session' \in [initialized : BOOLEAN, id : Nat, generation : Nat]
          /\ session'.initialized = FALSE
      BY <1>3 DEF Abort, Reset
    <2> QED
      BY <1>1, <2>1, <2>2, SessionAssumption
  <1> QED
    BY <1>2, <1>3 DEF NotifyReply

\* The answer to the call itself.
LEMMA ReplyInv == ASSUME McpInv, NEW c \in Calls, Reply(c) PROVE McpInv'
  BY SessionAssumption DEF Reply, End, Goto, NotFound, Unheard, clientVars, serverVars

\* The client answers a request of the server.
LEMMA RespondInv == ASSUME McpInv, NEW c \in Calls, Respond(c) PROVE McpInv'
  BY SessionAssumption DEF Respond, End, Goto, NotFound, clientVars, serverVars

\* A recovery starts unless another call has recovered already.
LEMMA EnterRecoverInv == ASSUME McpInv, NEW c \in Calls, EnterRecover(c) PROVE McpInv'
  <1>1. /\ pc[c] = "wait_recover" /\ lock = Nobody
        /\ UNCHANGED <<opened, executed>>
    BY DEF EnterRecover, serverVars
  <1>2. CASE Reusable(c)
    <2>1. /\ UNCHANGED <<session, lock>>
          /\ pc' = [pc EXCEPT ![c] = IF c \in Retryable THEN "resent" ELSE "expired"]
      BY <1>1, <1>2 DEF EnterRecover, Recovered, Send, End
    <2> QED
      BY <1>1, <2>1, SessionAssumption
  <1>3. CASE ~Reusable(c)
    <2>1. /\ pc' = [pc EXCEPT ![c] = "reinitialize"] /\ lock' = c
          /\ session' = Reset(session)
      BY <1>1, <1>3 DEF EnterRecover, Goto
    <2>2. session'.initialized = FALSE /\ SessionTyped'
      BY <1>1, <2>1 DEF Reset
    <2> QED
      BY <1>1, <2>1, <2>2, SessionAssumption
  <1> QED
    BY <1>2, <1>3

\* A cancellation at any await.
LEMMA CancelInv == ASSUME McpInv, NEW c \in Calls, Cancel(c) PROVE McpInv'
  BY SessionAssumption DEF Cancel, End, Orphaned, Unheard, serverVars

\* The server drops a session.
LEMMA ExpireInv == ASSUME McpInv, NEW s \in live, Expire(s) PROVE McpInv'
  BY DEF Expire

\* Every step keeps the invariant.
LEMMA StepInv == McpInv /\ [McpNext]_mcpVars => McpInv'
  <1> SUFFICES ASSUME McpInv, [McpNext]_mcpVars PROVE McpInv'
    OBVIOUS
  <1>1. CASE UNCHANGED mcpVars
    BY <1>1 DEF mcpVars
  <1>2. CASE McpNext
    BY <1>2, ExecuteInv, AdmitInv, CallInv, EnterInitializeInv, InitializeReplyInv,
       NotifyReplyInv, ReplyInv, RespondInv, EnterRecoverInv, CancelInv, ExpireInv
       DEF McpNext, McpStep
  <1> QED
    BY <1>1, <1>2

-----------------------------------------------------------------------------
(* Theorems *)

\* The inductive invariant of session and calls.
LEMMA SpecInv == McpSpec => []McpInv
  BY McpInitInv, StepInv, PTL DEF McpSpec

\* The calls in a handshake are the holder of the session lock, and nobody sees
\* an initialized session while session.py replaces it.
THEOREM HandshakesExclude == McpSpec => []HandshakeExclusive
  <1>1. McpInv => HandshakeExclusive
    OBVIOUS
  <1> QED
    BY <1>1, SpecInv, PTL

\* The server executes a tool call at most once: _rpc repeats a tools/list only,
\* and that once.
THEOREM ToolCallsOnce == McpSpec => []NeverReplayed
  <1>1. McpInv => NeverReplayed
    BY DEF NeverReplayed
  <1> QED
    BY <1>1, SpecInv, PTL

-----------------------------------------------------------------------------
(* Why a session is replaced once *)

\* What the calls know of sessions is not newer than the client's, and sessions
\* of the server's past stay in the past.
SessionsKnown ==
    /\ observed \in [Calls -> Nat] /\ sid \in [Calls -> Nat]
    /\ expiries \in Nat /\ aborted \in Nat
    /\ live \subseteq 1..opened /\ session.id <= opened
    /\ \A c \in Calls : observed[c] <= session.generation /\ sid[c] <= opened

\* A call that observed the generation of the client's session carried its id,
\* and one that waits to recover has seen its own session gone.
ExpiryWitnessed ==
    \A c \in Calls :
        /\ session.initialized /\ observed[c] = session.generation => sid[c] = session.id
        /\ pc[c] = "wait_recover" => sid[c] \notin live

\* Every session but one is paid for by an expiry or a failed handshake, and
\* all of them are when the client has no session that the server knows: only
\* then is another one asked for.
PaidFor == opened <= expiries + aborted
Budget ==
    /\ SingleFlight
    /\ lock = Nobody /\ ~session.initialized => PaidFor
    /\ \A c \in Calls : pc[c] \in {"initialize", "reinitialize"} => PaidFor
    /\ session.initialized /\ session.id \notin live => PaidFor

FlightInv == SessionsKnown /\ ExpiryWitnessed /\ Budget

HIDE DEF McpInv, SessionTyped, HandshakeExclusive, NegotiatedIsLast, ExecutedByPlace,
         Finished, Unsent, Repeating

\* The initial states, for the number of sessions.
LEMMA FlightInitially == McpInit => FlightInv
  BY SessionAssumption DEF McpInit, FlightInv, SessionsKnown, ExpiryWitnessed, Budget, SingleFlight, PaidFor

\* What McpInv says of a handshake.
LEMMA HandshakeFacts ==
    ASSUME McpInv
    PROVE  /\ pc \in [Calls -> Suspended \cup Finished \cup {"idle"}]
           /\ session \in [initialized : BOOLEAN, id : Nat, generation : Nat]
           /\ lock \in Calls \cup {Nobody} /\ opened \in Nat
           /\ \A c \in Calls : pc[c] \in Handshake <=> lock = c
           /\ lock # Nobody => ~session.initialized
           /\ session.initialized => session.id = opened
           /\ \A c \in Calls : pc[c] \in {"notify", "renotify"} => session.id = opened
  BY DEF McpInv, SessionTyped, HandshakeExclusive, NegotiatedIsLast

\* A step of call c that leaves client and server alone, and does not begin a
\* handshake: c stays where it is, sends its request in the client's session,
\* answers in it, or has seen its session gone.
LEMMA QuietFlight ==
    ASSUME McpInv, FlightInv, NEW c \in Calls,
           UNCHANGED <<session, lock, live, opened, expiries, aborted>>,
           NEW place, place \notin {"initialize", "reinitialize"},
           pc' = [pc EXCEPT ![c] = place],
           place = "wait_recover" => sid[c] \notin live /\ UNCHANGED sid,
           observed' \in {observed, [observed EXCEPT ![c] = session.generation]},
           sid' \in {sid, [sid EXCEPT ![c] = session.id]},
           observed' = observed \/ sid' = [sid EXCEPT ![c] = session.id]
    PROVE  FlightInv'
  <1>1. /\ session \in [initialized : BOOLEAN, id : Nat, generation : Nat]
        /\ pc \in [Calls -> Suspended \cup Finished \cup {"idle"}]
    BY HandshakeFacts
  <1>2. \A d \in Calls : pc'[d] = IF d = c THEN place ELSE pc[d]
    BY <1>1
  <1>3. SessionsKnown'
    BY <1>1 DEF FlightInv, SessionsKnown
  <1>4. \A d \in Calls : session.initialized /\ observed'[d] = session.generation => sid'[d] = session.id
    BY <1>1 DEF FlightInv, SessionsKnown, ExpiryWitnessed
  <1>5. \A d \in Calls : pc'[d] = "wait_recover" => sid'[d] \notin live
    BY <1>2 DEF FlightInv, SessionsKnown, ExpiryWitnessed
  <1>6. ExpiryWitnessed'
    BY <1>4, <1>5 DEF ExpiryWitnessed
  <1>7. Budget'
    BY <1>2 DEF FlightInv, Budget, SingleFlight, PaidFor
  <1> QED
    BY <1>3, <1>6, <1>7 DEF FlightInv

\* Sending opens no session.
LEMMA SendFlight ==
    ASSUME McpInv, FlightInv, NEW c \in Calls, NEW place \in {"sent", "resent"}, Send(c, session, place),
           UNCHANGED <<session, lock, live, opened, expiries, aborted>>
    PROVE  FlightInv'
  <1>1. place \notin {"initialize", "reinitialize"} /\ place # "wait_recover"
    OBVIOUS
  <1>2. /\ pc' = [pc EXCEPT ![c] = place]
        /\ observed' = [observed EXCEPT ![c] = session.generation]
        /\ sid' = [sid EXCEPT ![c] = session.id]
    BY DEF Send
  <1> QED
    BY <1>1, <1>2, QuietFlight

\* Waiting for slot or lock opens no session.
LEMMA ExecuteFlight ==
    ASSUME McpInv, FlightInv, NEW c \in Calls, Execute(c) \/ Admit(c) \/ Call(c)
    PROVE  FlightInv'
  <1>1. UNCHANGED <<session, lock, live, opened, expiries, aborted>>
    BY DEF Execute, Admit, Call, clientVars, serverVars
  <1>2. \/ \E place \in {"denied", "got_slot", "wait_slot", "wait_init"} :
              pc' = [pc EXCEPT ![c] = place] /\ UNCHANGED <<observed, sid>>
        \/ Send(c, session, "sent")
    BY DEF Execute, Admit, Call, End, Goto
  <1>3. CASE Send(c, session, "sent")
    BY <1>1, <1>3, SendFlight
  <1>4. ASSUME NEW place \in {"denied", "got_slot", "wait_slot", "wait_init"},
               pc' = [pc EXCEPT ![c] = place], UNCHANGED <<observed, sid>>
        PROVE  FlightInv'
    <2>1. place \notin {"initialize", "reinitialize"} /\ place # "wait_recover"
      OBVIOUS
    <2> QED
      BY <1>1, <1>4, <2>1, QuietFlight
  <1> QED
    BY <1>2, <1>3, <1>4

\* An answer that reports an expiry is a witness of it.
LEMMA ReplyFlight ==
    ASSUME McpInv, FlightInv, NEW c \in Calls, Reply(c) \/ Respond(c)
    PROVE  FlightInv'
  <1>1. UNCHANGED <<session, lock, live, opened, expiries, aborted>>
    BY DEF Reply, Respond, clientVars, serverVars
  <1>2. \/ \E place \in {"ok", "failed", "raw_404", "wait_recover"} :
              /\ pc' = [pc EXCEPT ![c] = place] /\ UNCHANGED <<observed, sid>>
              /\ place = "wait_recover" => sid[c] \notin live
        \/ \E place \in {"respond", "rerespond"} :
              pc' = [pc EXCEPT ![c] = place] /\ sid' = [sid EXCEPT ![c] = session.id] /\ UNCHANGED observed
    BY HandshakeFacts DEF Reply, Respond, NotFound, End, Goto
  <1>3. ASSUME NEW place \in {"ok", "failed", "raw_404", "wait_recover"},
               pc' = [pc EXCEPT ![c] = place], UNCHANGED <<observed, sid>>,
               place = "wait_recover" => sid[c] \notin live
        PROVE  FlightInv'
    <2>1. place \notin {"initialize", "reinitialize"}
      OBVIOUS
    <2> QED
      BY <1>1, <1>3, <2>1, QuietFlight
  <1>4. ASSUME NEW place \in {"respond", "rerespond"},
               pc' = [pc EXCEPT ![c] = place], sid' = [sid EXCEPT ![c] = session.id], UNCHANGED observed
        PROVE  FlightInv'
    <2>1. place \notin {"initialize", "reinitialize"} /\ place # "wait_recover"
      OBVIOUS
    <2> QED
      BY <1>1, <1>4, <2>1, QuietFlight
  <1> QED
    BY <1>2, <1>3, <1>4

\* A handshake begins when the client has no session that the server knows.
LEMMA EnterFlight ==
    ASSUME McpInv, FlightInv, NEW c \in Calls, NEW place, lock = Nobody, PaidFor,
           pc' = [pc EXCEPT ![c] = place], place # "wait_recover", lock' = c,
           session'.initialized = FALSE, session'.id \in Nat, session'.generation \in Nat,
           session'.id <= opened, session'.generation >= session.generation,
           UNCHANGED <<observed, sid, live, opened, expiries, aborted>>
    PROVE  FlightInv'
  <1>1. /\ session \in [initialized : BOOLEAN, id : Nat, generation : Nat] /\ opened \in Nat
        /\ pc \in [Calls -> Suspended \cup Finished \cup {"idle"}]
    BY HandshakeFacts
  <1>3. SessionsKnown'
    <2>1. \A d \in Calls : observed[d] <= session'.generation
      BY <1>1 DEF FlightInv, SessionsKnown
    <2> QED
      BY <2>1 DEF FlightInv, SessionsKnown
  <1>4. ExpiryWitnessed'
    <2>1. \A d \in Calls : pc'[d] = "wait_recover" => pc[d] = "wait_recover"
      BY <1>1
    <2> QED
      BY <2>1 DEF FlightInv, ExpiryWitnessed
  <1>5. PaidFor' /\ SingleFlight'
    BY DEF FlightInv, Budget, PaidFor, SingleFlight
  <1>6. Budget'
    BY <1>5 DEF Budget
  <1> QED
    BY <1>3, <1>4, <1>6 DEF FlightInv

\* A first handshake.
LEMMA EnterInitializeFlight ==
    ASSUME McpInv, FlightInv, NEW c \in Calls, EnterInitialize(c)
    PROVE  FlightInv'
  <1>1. lock = Nobody /\ UNCHANGED <<session, live, opened, expiries, aborted>>
    BY DEF EnterInitialize, serverVars
  <1>2. CASE session.initialized
    <2>1. Send(c, session, "sent") /\ UNCHANGED lock
      BY <1>2 DEF EnterInitialize
    <2> QED
      BY <1>1, <2>1, SendFlight
  <1>3. CASE ~session.initialized
    <2>1. pc' = [pc EXCEPT ![c] = "initialize"] /\ lock' = c /\ UNCHANGED <<observed, sid>>
      BY <1>3 DEF EnterInitialize, Goto
    <2>2. PaidFor /\ session.id <= opened
      BY <1>1, <1>3 DEF FlightInv, Budget, SessionsKnown
    <2>3. session \in [initialized : BOOLEAN, id : Nat, generation : Nat]
      BY HandshakeFacts
    <2>4. session'.initialized = FALSE /\ session'.id \in Nat /\ session'.generation \in Nat
          /\ session'.id <= opened /\ session'.generation >= session.generation
      BY <1>1, <1>3, <2>2, <2>3
    <2> QED
      BY <1>1, <2>1, <2>2, <2>4, EnterFlight
  <1> QED
    BY <1>2, <1>3

\* A recovery spends the expiry that its call has met.
LEMMA EnterRecoverFlight ==
    ASSUME McpInv, FlightInv, NEW c \in Calls, EnterRecover(c)
    PROVE  FlightInv'
  <1>1. pc[c] = "wait_recover" /\ lock = Nobody /\ UNCHANGED <<live, opened, expiries, aborted>>
    BY DEF EnterRecover, serverVars
  <1>2. session \in [initialized : BOOLEAN, id : Nat, generation : Nat] /\ opened \in Nat
    BY HandshakeFacts
  <1>3. CASE Reusable(c)
    <2>1. Recovered(c, session) /\ UNCHANGED <<session, lock>>
      BY <1>3 DEF EnterRecover
    <2>2. CASE c \in Retryable
      <3>1. Send(c, session, "resent")
        BY <2>1, <2>2 DEF Recovered
      <3> QED
        BY <1>1, <2>1, <3>1, SendFlight
    <2>3. CASE c \notin Retryable
      <3>1. pc' = [pc EXCEPT ![c] = "expired"] /\ UNCHANGED <<observed, sid>>
        BY <2>1, <2>3 DEF Recovered, End
      <3> QED
        BY <1>1, <2>1, <3>1, QuietFlight
    <2> QED
      BY <2>2, <2>3
  <1>4. CASE ~Reusable(c)
    <2>1. /\ pc' = [pc EXCEPT ![c] = "reinitialize"] /\ lock' = c
          /\ session' = Reset(session) /\ UNCHANGED <<observed, sid>>
      BY <1>4 DEF EnterRecover, Goto
    <2>2. PaidFor
      <3>1. CASE ~session.initialized
        BY <1>1, <3>1 DEF FlightInv, Budget
      <3>2. CASE session.initialized
        <4>1. sid[c] = session.id /\ sid[c] \notin live
          BY <1>1, <1>4, <3>2 DEF FlightInv, ExpiryWitnessed, Reusable
        <4> QED
          BY <3>2, <4>1 DEF FlightInv, Budget
      <3> QED
        BY <3>1, <3>2
    <2>3. session'.initialized = FALSE /\ session'.id \in Nat /\ session'.generation \in Nat
          /\ session'.id <= opened /\ session'.generation >= session.generation
      BY <1>2, <2>1 DEF Reset
    <2> QED
      BY <1>1, <2>1, <2>2, <2>3, EnterFlight
  <1> QED
    BY <1>3, <1>4

\* A handshake that fails or is cancelled pays for the session it may have opened.
LEMMA AbortFlight ==
    ASSUME McpInv, FlightInv, NEW c \in Calls, pc[c] \in Handshake,
           pc' = [pc EXCEPT ![c] = "failed"], lock' = Nobody, aborted' = aborted + 1,
           session'.initialized = FALSE, session'.id \in Nat, session'.generation \in Nat,
           session'.id <= opened, session'.generation >= session.generation,
           opened' \in {opened, opened + 1}, live' = live \cup (opened + 1..opened'),
           opened' # opened => pc[c] \in {"initialize", "reinitialize"},
           UNCHANGED <<observed, sid, expiries>>
    PROVE  FlightInv'
  <1>1. /\ session \in [initialized : BOOLEAN, id : Nat, generation : Nat] /\ opened \in Nat
        /\ pc \in [Calls -> Suspended \cup Finished \cup {"idle"}] /\ lock = c
    BY HandshakeFacts
  <1>2. /\ expiries \in Nat /\ aborted \in Nat /\ live \subseteq 1..opened
        /\ \A d \in Calls : observed[d] \in Nat /\ observed[d] <= session.generation
                            /\ sid[d] \in Nat /\ sid[d] <= opened
    BY DEF FlightInv, SessionsKnown
  <1>3. opened <= 1 + expiries + aborted /\ (opened' # opened => opened <= expiries + aborted)
    BY DEF FlightInv, Budget, SingleFlight, PaidFor
  <1>4. PaidFor' /\ SingleFlight'
    BY <1>1, <1>2, <1>3 DEF PaidFor, SingleFlight
  <1>5. Budget'
    BY <1>4 DEF Budget
  <1>6. \A d \in Calls : sid[d] \notin live => sid[d] \notin live'
    BY <1>1, <1>2
  <1>7. \A d \in Calls : pc'[d] = "wait_recover" => pc[d] = "wait_recover"
    BY <1>1
  <1>8. ExpiryWitnessed'
    BY <1>6, <1>7 DEF FlightInv, ExpiryWitnessed
  <1>9. SessionsKnown'
    <2>1. \A d \in Calls : observed[d] <= session'.generation /\ sid[d] <= opened'
      BY <1>1, <1>2
    <2>2. live' \subseteq 1..opened' /\ session'.id <= opened' /\ aborted' \in Nat
      BY <1>1, <1>2
    <2> QED
      BY <2>1, <2>2 DEF FlightInv, SessionsKnown
  <1> QED
    BY <1>5, <1>8, <1>9 DEF FlightInv

\* The one step that opens a session.
LEMMA InitializeReplyFlight ==
    ASSUME McpInv, FlightInv, NEW c \in Calls, InitializeReply(c)
    PROVE  FlightInv'
  <1>1. /\ session \in [initialized : BOOLEAN, id : Nat, generation : Nat] /\ opened \in Nat
        /\ pc \in [Calls -> Suspended \cup Finished \cup {"idle"}]
        /\ pc[c] \in {"initialize", "reinitialize"} /\ lock = c /\ ~session.initialized
    BY HandshakeFacts, SessionAssumption DEF InitializeReply
  <1>2. CASE /\ opened' = opened + 1 /\ live' = live \cup {opened + 1}
             /\ session' = Negotiated(session, opened + 1)
             /\ Goto(c, IF pc[c] = "initialize" THEN "notify" ELSE "renotify")
             /\ UNCHANGED <<lock, expiries, aborted>>
    <2>1. /\ session'.initialized = FALSE /\ session'.id = opened + 1
          /\ session'.generation = session.generation
      BY <1>1, <1>2 DEF Negotiated
    <2>2. /\ expiries \in Nat /\ aborted \in Nat /\ live \subseteq 1..opened
          /\ \A d \in Calls : observed[d] \in Nat /\ observed[d] <= session.generation
                              /\ sid[d] \in Nat /\ sid[d] <= opened
          /\ opened <= expiries + aborted
      BY <1>1 DEF FlightInv, SessionsKnown, Budget, PaidFor
    <2>3. SingleFlight'
      BY <1>1, <1>2, <2>2 DEF SingleFlight
    <2>4. /\ UNCHANGED <<observed, sid>> /\ lock' # Nobody
          /\ \A d \in Calls : pc'[d] = "wait_recover" => pc[d] = "wait_recover"
      BY <1>1, <1>2, SessionAssumption DEF Goto
    <2>5. \A d \in Calls : pc'[d] \notin {"initialize", "reinitialize"}
      <3> SUFFICES ASSUME NEW d \in Calls PROVE pc'[d] \notin {"initialize", "reinitialize"}
        OBVIOUS
      <3>1. CASE d = c
        BY <1>1, <1>2, <3>1 DEF Goto
      <3>2. CASE d # c
        <4>1. pc'[d] = pc[d] /\ pc[d] \notin Handshake
          BY <1>1, <1>2, <3>2, HandshakeFacts DEF Goto
        <4> QED
          BY <4>1
      <3> QED
        BY <3>1, <3>2
    <2>6. Budget'
      BY <2>1, <2>3, <2>4, <2>5 DEF Budget
    <2>7. \A d \in Calls : sid[d] \notin live => sid[d] \notin live'
      BY <1>1, <1>2, <2>2
    <2>8. ExpiryWitnessed'
      BY <2>1, <2>4, <2>7 DEF FlightInv, ExpiryWitnessed
    <2>9. SessionsKnown'
      <3>1. \A d \in Calls : sid[d] <= opened'
        <4>1. \A n \in Nat : n <= opened => n <= opened + 1
          BY <1>1
        <4> QED
          BY <1>2, <2>2, <4>1
      <3>2. live' \subseteq 1..opened'
        <4>1. \A n \in 1..opened : n \in 1..opened + 1
          BY <1>1
        <4>2. opened + 1 \in 1..opened + 1
          BY <1>1
        <4> QED
          BY <1>2, <2>2, <4>1, <4>2
      <3> QED
        BY <1>1, <1>2, <2>1, <2>2, <2>4, <3>1, <3>2 DEF FlightInv, SessionsKnown
    <2> QED
      BY <2>6, <2>8, <2>9 DEF FlightInv
  <1>3. CASE Abort(c) /\ Orphaned
    <2>1. session'.initialized = FALSE /\ session'.id = 0 /\ session'.generation = session.generation + 1
      BY <1>3 DEF Abort, Reset
    <2>2. /\ pc' = [pc EXCEPT ![c] = "failed"] /\ lock' = Nobody /\ aborted' = aborted + 1
          /\ UNCHANGED <<observed, sid, expiries>>
          /\ opened' \in {opened, opened + 1} /\ live' = live \cup (opened + 1..opened')
      BY <1>3 DEF Abort, End, Orphaned
    <2>3. pc[c] \in Handshake
      BY <1>1
    <2>4. session'.id \in Nat /\ session'.id <= opened /\ session'.generation \in Nat
          /\ session'.generation >= session.generation
      BY <1>1, <2>1
    <2> QED
      BY <1>1, <2>1, <2>2, <2>3, <2>4, AbortFlight
  <1> QED
    BY <1>2, <1>3 DEF InitializeReply

\* The end of a handshake, or its failure.
LEMMA NotifyReplyFlight ==
    ASSUME McpInv, FlightInv, NEW c \in Calls, NotifyReply(c)
    PROVE  FlightInv'
  <1>1. /\ session \in [initialized : BOOLEAN, id : Nat, generation : Nat] /\ opened \in Nat
        /\ pc \in [Calls -> Suspended \cup Finished \cup {"idle"}]
        /\ pc[c] \in {"notify", "renotify"} /\ lock = c /\ ~session.initialized
        /\ UNCHANGED <<live, opened, expiries>>
    BY HandshakeFacts, SessionAssumption DEF NotifyReply, serverVars
  <1>2. /\ expiries \in Nat /\ aborted \in Nat /\ live \subseteq 1..opened /\ session.id <= opened
        /\ observed \in [Calls -> Nat] /\ sid \in [Calls -> Nat]
        /\ \A d \in Calls : observed[d] <= session.generation /\ sid[d] <= opened
    BY DEF FlightInv, SessionsKnown
  <1>3. CASE /\ session.id \in live
             /\ session' = Initialized(session) /\ lock' = Nobody
             /\ IF pc[c] = "notify" THEN Send(c, Initialized(session), "sent")
                ELSE Recovered(c, Initialized(session))
             /\ UNCHANGED aborted
    <2> DEFINE s == Initialized(session)
    <2>1. s.initialized = TRUE /\ s.id = session.id /\ s.generation = session.generation + 1
      BY DEF Initialized
    <2>2. /\ \E place \in {"sent", "resent", "expired"} : pc' = [pc EXCEPT ![c] = place]
          /\ \/ UNCHANGED <<observed, sid>>
             \/ observed' = [observed EXCEPT ![c] = s.generation] /\ sid' = [sid EXCEPT ![c] = s.id]
      BY <1>3 DEF Send, Recovered, End
    <2>3. session' = s
      BY <1>3
    <2> HIDE DEF s
    <2>4. \A d \in Calls : /\ pc'[d] \in {"wait_recover", "initialize", "reinitialize"}
                                => d # c /\ pc'[d] = pc[d]
      BY <1>1, <2>2
    <2>5. \A d \in Calls \ {c} : pc[d] \notin Handshake
      BY <1>1, HandshakeFacts
    <2>6. SingleFlight'
      BY <1>1, <1>3 DEF FlightInv, Budget, SingleFlight
    <2>7. Budget'
      BY <1>1, <1>3, <2>1, <2>3, <2>4, <2>5, <2>6 DEF Budget
    <2>8. \A d \in Calls : \/ observed'[d] = observed[d] /\ sid'[d] = sid[d]
                           \/ d = c /\ observed'[d] = s.generation /\ sid'[d] = s.id
      BY <1>2, <2>2
    <2>9. observed' \in [Calls -> Nat] /\ sid' \in [Calls -> Nat]
      <3>1. s.generation \in Nat /\ s.id \in Nat
        BY <1>1, <2>1
      <3> QED
        BY <1>2, <2>2, <3>1
    <2>10. SessionsKnown'
      <3>1. \A d \in Calls : observed'[d] <= s.generation /\ sid'[d] <= opened
        BY <1>1, <1>2, <2>1, <2>8, <2>9
      <3> QED
        BY <1>1, <1>2, <1>3, <2>1, <2>3, <2>9, <3>1 DEF SessionsKnown
    <2>11. \A d \in Calls : observed'[d] = s.generation => sid'[d] = s.id
      <3>1. \A d \in Calls : observed[d] # s.generation
        BY <1>1, <1>2, <2>1
      <3> QED
        BY <2>8, <3>1
    <2>12. \A d \in Calls : pc'[d] = "wait_recover" => sid'[d] \notin live
      BY <2>4, <2>8 DEF FlightInv, ExpiryWitnessed
    <2>13. ExpiryWitnessed'
      BY <1>1, <2>3, <2>11, <2>12 DEF ExpiryWitnessed
    <2> QED
      BY <2>7, <2>10, <2>13 DEF FlightInv
  <1>4. CASE Abort(c)
    <2>1. session'.initialized = FALSE /\ session'.id = 0 /\ session'.generation = session.generation + 1
      BY <1>4 DEF Abort, Reset
    <2>2. /\ pc' = [pc EXCEPT ![c] = "failed"] /\ lock' = Nobody /\ aborted' = aborted + 1
          /\ UNCHANGED <<observed, sid, expiries>>
      BY <1>1, <1>4 DEF Abort, End
    <2>3. pc[c] \in Handshake
      BY <1>1
    <2>4. session'.id \in Nat /\ session'.id <= opened /\ session'.generation \in Nat
          /\ session'.generation >= session.generation
      BY <1>1, <2>1
    <2>5. opened' \in {opened, opened + 1} /\ live' = live \cup (opened + 1..opened')
      <3>1. opened + 1..opened = {}
        BY <1>1
      <3> QED
        BY <1>1, <3>1
    <2> QED
      BY <1>1, <2>1, <2>2, <2>3, <2>4, <2>5, AbortFlight
  <1> QED
    BY <1>3, <1>4 DEF NotifyReply

\* A cancelled handshake is counted as aborted.
LEMMA CancelFlight ==
    ASSUME McpInv, FlightInv, NEW c \in Calls, Cancel(c)
    PROVE  FlightInv'
  <1>1. /\ session \in [initialized : BOOLEAN, id : Nat, generation : Nat] /\ opened \in Nat
        /\ pc \in [Calls -> Suspended \cup Finished \cup {"idle"}]
        /\ (pc[c] \in Handshake <=> lock = c)
    BY HandshakeFacts
  <1>2. pc' = [pc EXCEPT ![c] = "failed"] /\ UNCHANGED <<observed, sid, session>>
    BY DEF Cancel, End
  <1>3. CASE pc[c] \in Handshake
    <2>1. session.initialized = FALSE /\ session.id <= opened
      BY <1>1, <1>3, HandshakeFacts, SessionAssumption DEF FlightInv, SessionsKnown
    <2>2. lock' = Nobody /\ aborted' = aborted + 1
      BY <1>1, <1>3 DEF Cancel
    <2>3. /\ opened' \in {opened, opened + 1} /\ live' = live \cup (opened + 1..opened')
          /\ opened' # opened => pc[c] \in {"initialize", "reinitialize"}
          /\ UNCHANGED expiries
      <3>1. CASE pc[c] \in {"initialize", "reinitialize"}
        BY <3>1 DEF Cancel, Orphaned
      <3>2. CASE pc[c] \notin {"initialize", "reinitialize"}
        <4>1. opened + 1..opened = {}
          BY <1>1
        <4>2. UNCHANGED <<live, opened, expiries>>
          BY <3>2 DEF Cancel, serverVars
        <4> QED
          BY <4>1, <4>2
      <3> QED
        BY <3>1, <3>2
    <2>4. /\ session'.initialized = FALSE /\ session'.id \in Nat /\ session'.generation \in Nat
          /\ session'.id <= opened /\ session'.generation >= session.generation
      BY <1>1, <1>2, <2>1
    <2> QED
      BY <1>2, <1>3, <2>2, <2>3, <2>4, AbortFlight
  <1>4. CASE pc[c] \notin Handshake
    <2>1. UNCHANGED <<session, lock, live, opened, expiries, aborted>>
      BY <1>1, <1>2, <1>4 DEF Cancel, serverVars
    <2> QED
      BY <1>2, <2>1, QuietFlight
  <1> QED
    BY <1>3, <1>4

\* An expiry pays for one more session.
LEMMA ExpireFlight ==
    ASSUME McpInv, FlightInv, NEW s \in live, Expire(s)
    PROVE  FlightInv'
  <1>1. /\ live' = live \ {s} /\ expiries' = expiries + 1
        /\ UNCHANGED <<pc, observed, sid, session, lock, opened, aborted>>
    BY DEF Expire
  <1>2. /\ expiries \in Nat /\ aborted \in Nat /\ opened \in Nat /\ opened <= 1 + expiries + aborted
    BY HandshakeFacts DEF FlightInv, SessionsKnown, Budget, SingleFlight
  <1>3. PaidFor' /\ SingleFlight'
    BY <1>1, <1>2 DEF PaidFor, SingleFlight
  <1>4. Budget'
    BY <1>3 DEF Budget
  <1>5. SessionsKnown' /\ ExpiryWitnessed'
    BY <1>1, <1>2 DEF FlightInv, SessionsKnown, ExpiryWitnessed
  <1> QED
    BY <1>4, <1>5 DEF FlightInv

\* Every step keeps the count of sessions.
LEMMA FlightStep == McpInv /\ FlightInv /\ [McpNext]_mcpVars => FlightInv'
  <1> SUFFICES ASSUME McpInv, FlightInv, [McpNext]_mcpVars PROVE FlightInv'
    OBVIOUS
  <1>1. CASE UNCHANGED mcpVars
    BY <1>1 DEF mcpVars, FlightInv, SessionsKnown, ExpiryWitnessed, Budget, SingleFlight, PaidFor
  <1>2. CASE McpNext
    BY <1>2, ExecuteFlight, ReplyFlight, EnterInitializeFlight, EnterRecoverFlight,
       InitializeReplyFlight, NotifyReplyFlight, CancelFlight, ExpireFlight
       DEF McpNext, McpStep
  <1> QED
    BY <1>1, <1>2

\* However many calls meet an expired session at once, recover_expired replaces
\* it once: the server opens sessions only for the first call, for a session it
\* dropped and for a handshake that failed or was cancelled.
THEOREM RecoveryIsSingleFlight == McpSpec => []SingleFlight
  <1>1. FlightInv => SingleFlight
    BY DEF FlightInv, Budget
  <1> QED
    BY <1>1, SpecInv, FlightInitially, FlightStep, PTL DEF McpSpec

-----------------------------------------------------------------------------
(* The slots of the tool executor *)

\* The calls inside the executor's semaphore, and the slots there are.
Holders == {c \in Calls : Holds(c)}
AllSlots == slots + Cardinality(Holders)

\* Slots are free or held, and only tool calls ask for them.
SlotInv ==
    /\ slots \in Nat /\ AllSlots \in 1..MaxSlots
    /\ \A c \in Calls : pc[c] \in {"wait_slot", "got_slot"} => c \notin Retryable
    /\ expiries \in 0..MaxExpiries

\* Calls can be counted.
LEMMA HoldersCount ==
    ASSUME NEW S, S \subseteq Calls
    PROVE  IsFiniteSet(S) /\ Cardinality(S) \in Nat
  BY SessionAssumption, FS_Subset, FS_CardinalityType

\* What a step of call c does to the executor's semaphore: nothing, or it takes
\* a free slot, or it ends and frees the slot if it has one.
SlotMove(c) ==
    \E place \in Suspended \cup Finished :
        /\ pc' = [pc EXCEPT ![c] = place]
        /\ \/ /\ slots' = slots
              /\ place \in Suspended
              /\ \/ place = "wait_slot" /\ pc[c] = "idle" /\ c \notin Retryable
                 \/ place \notin {"wait_slot", "got_slot"} /\ pc[c] = "idle" /\ c \in Retryable
                 \/ place \notin {"wait_slot", "got_slot"} /\ pc[c] \in Suspended \ {"wait_slot"}
           \/ /\ slots > 0 /\ slots' = slots - 1
              /\ place = "got_slot" /\ pc[c] \in {"idle", "wait_slot"} /\ c \notin Retryable
           \/ /\ slots' = IF Holds(c) THEN slots + 1 ELSE slots
              /\ place \in Finished

\* Every such step keeps the slots there are.
LEMMA SlotsMove ==
    ASSUME McpInv, SlotInv, NEW c \in Calls, SlotMove(c)
    PROVE  /\ slots' \in Nat /\ AllSlots' = AllSlots
           /\ \A d \in Calls : pc'[d] \in {"wait_slot", "got_slot"} => d \notin Retryable
  <1>1. PICK place \in Suspended \cup Finished :
        /\ pc' = [pc EXCEPT ![c] = place]
        /\ \/ /\ slots' = slots
              /\ place \in Suspended
              /\ \/ place = "wait_slot" /\ pc[c] = "idle" /\ c \notin Retryable
                 \/ place \notin {"wait_slot", "got_slot"} /\ pc[c] = "idle" /\ c \in Retryable
                 \/ place \notin {"wait_slot", "got_slot"} /\ pc[c] \in Suspended \ {"wait_slot"}
           \/ /\ slots > 0 /\ slots' = slots - 1
              /\ place = "got_slot" /\ pc[c] \in {"idle", "wait_slot"} /\ c \notin Retryable
           \/ /\ slots' = IF Holds(c) THEN slots + 1 ELSE slots
              /\ place \in Finished
    BY DEF SlotMove
  <1>2. /\ pc \in [Calls -> Suspended \cup Finished \cup {"idle"}]
        /\ slots \in Nat
    BY HandshakeFacts DEF SlotInv
  <1>3. \A d \in Calls : pc'[d] = IF d = c THEN place ELSE pc[d]
    BY <1>1, <1>2
  <1>4. \A d \in Calls : pc'[d] \in {"wait_slot", "got_slot"} => d \notin Retryable
    BY <1>1, <1>3 DEF SlotInv, Finished
  <1>5. /\ Holders \subseteq Calls
        /\ \A d \in Calls : d \in Holders <=> d \notin Retryable /\ pc[d] \in Suspended \ {"wait_slot"}
        /\ \A d \in Calls : d \in Holders' <=> d \notin Retryable /\ pc'[d] \in Suspended \ {"wait_slot"}
        /\ Holders' \subseteq Calls
    BY DEF Holders, Holds
  <1>6. /\ IsFiniteSet(Holders) /\ Cardinality(Holders) \in Nat
        /\ IsFiniteSet(Holders') /\ Cardinality(Holders') \in Nat
    BY <1>5, HoldersCount
  <1>7. Holds(c) <=> c \in Holders
    BY DEF Holders
  <1>8. CASE Holders' = Holders /\ slots' = slots
    BY <1>2, <1>4, <1>8 DEF AllSlots
  <1>9. CASE c \notin Holders /\ Holders' = Holders \cup {c} /\ slots > 0 /\ slots' = slots - 1
    <2>1. Cardinality(Holders') = Cardinality(Holders) + 1
      BY <1>6, <1>9, FS_AddElement
    <2> QED
      BY <1>2, <1>4, <1>6, <1>9, <2>1 DEF AllSlots
  <1>10. CASE c \in Holders /\ Holders' = Holders \ {c} /\ slots' = slots + 1
    <2>1. Cardinality(Holders') = Cardinality(Holders) - 1
      BY <1>6, <1>10, FS_RemoveElement
    <2> QED
      BY <1>2, <1>4, <1>6, <1>10, <2>1 DEF AllSlots
  <1>11. \A d \in Calls \ {c} : d \in Holders' <=> d \in Holders
    BY <1>3, <1>5
  <1>12. c \in Holders' <=> c \notin Retryable /\ place \in Suspended \ {"wait_slot"}
    BY <1>3, <1>5
  <1>13. CASE slots' = slots /\ place \in Suspended
              /\ \/ place = "wait_slot" /\ pc[c] = "idle" /\ c \notin Retryable
                 \/ place \notin {"wait_slot", "got_slot"} /\ pc[c] = "idle" /\ c \in Retryable
                 \/ place \notin {"wait_slot", "got_slot"} /\ pc[c] \in Suspended \ {"wait_slot"}
    <2>1. c \in Holders' <=> c \in Holders
      BY <1>5, <1>12, <1>13 DEF Suspended
    <2>2. Holders' = Holders
      BY <1>5, <1>11, <2>1
    <2> QED
      BY <1>8, <1>13, <2>2
  <1>14. CASE /\ slots > 0 /\ slots' = slots - 1
              /\ place = "got_slot" /\ pc[c] \in {"idle", "wait_slot"} /\ c \notin Retryable
    <2>1. c \in Holders' /\ c \notin Holders
      BY <1>5, <1>12, <1>14 DEF Suspended
    <2>2. Holders' = Holders \cup {c}
      BY <1>5, <1>11, <2>1
    <2> QED
      BY <1>9, <1>14, <2>1, <2>2
  <1>15. CASE slots' = (IF Holds(c) THEN slots + 1 ELSE slots) /\ place \in Finished
    <2>1. c \notin Holders'
      BY <1>12, <1>15 DEF Suspended, Finished
    <2>2. Holders' = Holders \ {c}
      BY <1>5, <1>11, <2>1
    <2>3. c \notin Holders => Holders' = Holders
      BY <2>2
    <2> QED
      BY <1>7, <1>8, <1>10, <1>15, <2>2, <2>3
  <1> QED
    BY <1>1, <1>13, <1>14, <1>15

\* Every step of a call is such a move.
LEMMA CallsMoveSlots ==
    ASSUME McpInv, SlotInv, NEW c \in Calls,
           Execute(c) \/ Call(c) \/ McpStep(c) \/ Cancel(c)
    PROVE  SlotMove(c) /\ expiries' = expiries
  <1>0. /\ pc \in [Calls -> Suspended \cup Finished \cup {"idle"}]
        /\ pc[c] = "wait_slot" => c \notin Retryable
    BY HandshakeFacts DEF SlotInv
  <1>1. ASSUME NEW how \in Finished, End(c, how) PROVE SlotMove(c)
    BY <1>1 DEF End, SlotMove
  <1>2. ASSUME NEW place \in Suspended \ {"wait_slot", "got_slot"}, pc' = [pc EXCEPT ![c] = place],
               slots' = slots, pc[c] \in Suspended \ {"wait_slot"} \/ (pc[c] = "idle" /\ c \in Retryable)
        PROVE  SlotMove(c)
    BY <1>2 DEF SlotMove
  <1>3. CASE Execute(c)
    BY <1>1, <1>3 DEF Execute, Goto, SlotMove, Suspended, Finished, serverVars
  <1>4. CASE Admit(c)
    BY <1>0, <1>4 DEF Admit, SlotMove, Suspended, serverVars
  <1>5. CASE Call(c)
    BY <1>2, <1>5 DEF Call, Send, Goto, Suspended, serverVars
  <1>6. CASE EnterInitialize(c)
    BY <1>2, <1>6 DEF EnterInitialize, Send, Goto, Suspended, serverVars
  <1>7. CASE InitializeReply(c)
    BY <1>1, <1>2, <1>7 DEF InitializeReply, Abort, Orphaned, Goto, Suspended, Finished
  <1>8. CASE NotifyReply(c)
    BY <1>1, <1>2, <1>8 DEF NotifyReply, Abort, Recovered, Send, Suspended, Finished, serverVars
  <1>9. CASE Reply(c)
    BY <1>1, <1>2, <1>9 DEF Reply, NotFound, Goto, Suspended, Finished, serverVars
  <1>10. CASE Respond(c)
    BY <1>1, <1>2, <1>10 DEF Respond, NotFound, Goto, Suspended, Finished, serverVars
  <1>11. CASE EnterRecover(c)
    BY <1>1, <1>2, <1>11 DEF EnterRecover, Recovered, Send, Goto, Suspended, Finished, serverVars
  <1>12. CASE Cancel(c)
    BY <1>1, <1>12 DEF Cancel, Orphaned, Finished, serverVars
  <1> QED
    BY <1>3, <1>4, <1>5, <1>6, <1>7, <1>8, <1>9, <1>10, <1>11, <1>12 DEF McpStep

\* Every step keeps the slots there are.
LEMMA SlotStep ==
    McpInv /\ SlotInv /\ [McpNext]_mcpVars => SlotInv' /\ AllSlots' = AllSlots
  <1> SUFFICES ASSUME McpInv, SlotInv, [McpNext]_mcpVars PROVE SlotInv' /\ AllSlots' = AllSlots
    OBVIOUS
  <1>1. CASE UNCHANGED mcpVars
    BY <1>1 DEF mcpVars, SlotInv, AllSlots, Holders, Holds
  <1>2. CASE \E c \in Calls : Execute(c) \/ Call(c) \/ McpStep(c) \/ Cancel(c)
    <2>1. PICK c \in Calls : SlotMove(c) /\ expiries' = expiries
      BY <1>2, CallsMoveSlots
    <2>2. /\ slots' \in Nat /\ AllSlots' = AllSlots
          /\ \A d \in Calls : pc'[d] \in {"wait_slot", "got_slot"} => d \notin Retryable
      BY <2>1, SlotsMove
    <2> HIDE DEF AllSlots
    <2> QED
      BY <2>1, <2>2 DEF SlotInv
  <1>3. CASE \E s \in live : Expire(s)
    <2>1. UNCHANGED <<pc, slots>> /\ expiries' = expiries + 1 /\ expiries < MaxExpiries
      BY <1>3 DEF Expire
    <2> QED
      BY <2>1, SessionAssumption DEF SlotInv, AllSlots, Holders, Holds
  <1> QED
    BY <1>1, <1>2, <1>3 DEF McpNext

\* The initial states, for the slots.
LEMMA SlotInitially == McpInit => SlotInv
  <1> SUFFICES ASSUME McpInit PROVE SlotInv
    OBVIOUS
  <1>1. Holders = {}
    BY DEF McpInit, Holders, Holds, Suspended
  <1>2. Cardinality(Holders) = 0
    BY <1>1, FS_EmptySet
  <1> QED
    BY <1>2, SessionAssumption DEF McpInit, SlotInv, AllSlots

\* The number of slots of the executor's semaphore never changes: whichever way
\* a tool call ends - refused, answered, failed, expired or cancelled at any
\* await - it gives back the slot it holds, once, and one that holds none gives
\* none back (the async with of ToolExecutor.execute).
THEOREM ExecutorSlotsAreKept == McpSpec => [][AllSlots' = AllSlots]_mcpVars
  <1> HIDE DEF AllSlots
  <1> QED
    BY SpecInv, SlotInitially, SlotStep, PTL DEF McpSpec

\* The session, the calls and the server's sessions are well formed, the number
\* of free slots stays between none and the configured ones, and the server
\* knows only sessions that it has opened.
THEOREM SessionIsWellTyped == McpSpec => []McpTypeOK
  <1>1. McpInv /\ FlightInv /\ SlotInv => McpTypeOK
    <2> SUFFICES ASSUME McpInv, FlightInv, SlotInv PROVE McpTypeOK
      OBVIOUS
    <2>1. Cardinality(Holders) \in Nat
      BY HoldersCount DEF Holders
    <2>2. slots \in 0..MaxSlots /\ expiries \in 0..MaxExpiries
      BY <2>1, SessionAssumption DEF SlotInv, AllSlots, FlightInv, SessionsKnown
    <2> QED
      BY <2>2 DEF McpInv, SessionTyped, FlightInv, SessionsKnown, McpTypeOK
  <1> HIDE DEF AllSlots
  <1> QED
    BY <1>1, SpecInv, FlightInitially, FlightStep, SlotInitially, SlotStep, PTL DEF McpSpec
=============================================================================
