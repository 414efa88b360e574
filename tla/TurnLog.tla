------------------------------- MODULE TurnLog -------------------------------
(***************************************************************************)
(* What the conversation stores promise the chat runtime, whatever holds   *)
(* the messages (app/state/base.py): a conversation is a log of whole      *)
(* turns, a run adds its turn once, and a store that bounds its memory may *)
(* lose a conversation as a whole, but never forgets that a run has        *)
(* committed while the log still holds that run's turn.                    *)
(***************************************************************************)
EXTENDS Naturals, Sequences, FiniteSets

CONSTANTS Sessions, Runs

VARIABLES
    log,  \* per conversation, the runs whose turns it holds, oldest first
    done  \* per conversation, the runs an append_turn is refused for

logVars == <<log, done>>

LogTypeOK ==
    /\ log \in [Sessions -> Seq(Runs)]
    /\ done \in [Sessions -> SUBSET Runs]

LogInit ==
    /\ log = [s \in Sessions |-> <<>>]
    /\ done \in [Sessions -> SUBSET Runs]

\* The runs whose turns conversation s holds.
Held(s) == {log[s][i] : i \in DOMAIN log[s]}

\* The logs after conversations C lost their messages.
Without(C) == [s \in Sessions |-> IF s \in C THEN <<>> ELSE log[s]]

\* Commits are forgotten only of runs whose turns are not held any more.
Remembers(C) == \A s \in Sessions \ C : Held(s) \subseteq done'[s]

\* Expiry, eviction, clear and restart.
Forget(C) ==
    /\ log' = Without(C)
    /\ done' \in [Sessions -> SUBSET Runs]
    /\ \A s \in Sessions : done'[s] \subseteq done[s]
    /\ Remembers(C)

\* The append_turn that answers True; it may purge or evict on the way.  Only a
\* conversation that was lost takes a turn of a run it had committed.
Commit(s, r, C) ==
    /\ s \notin C => r \notin done[s]
    /\ log' = [Without(C) EXCEPT ![s] = Append(@, r)]
    /\ done' \in [Sessions -> SUBSET Runs]
    /\ r \in done'[s]
    /\ \A t \in Sessions : done'[t] \subseteq done[t] \cup (IF t = s THEN {r} ELSE {})
    /\ Remembers(C)

LogNext ==
    \E C \in SUBSET Sessions :
        \/ Forget(C)
        \/ \E s \in Sessions, r \in Runs : Commit(s, r, C)

LogSpec == LogInit /\ [][LogNext]_logVars

\* No turn is in a conversation's log twice, and a run whose turn is there is
\* refused (what append_turn's run markers are for, redis.py:10-22,
\* postgres.py:204-258, in_memory.py:66-90).
EachTurnOnce ==
    \A s \in Sessions :
        /\ \A i, j \in DOMAIN log[s] : log[s][i] = log[s][j] => i = j
        /\ Held(s) \subseteq done[s]
=============================================================================
