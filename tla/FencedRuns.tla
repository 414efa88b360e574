------------------------------ MODULE FencedRuns ------------------------------
(***************************************************************************)
(* What a run repository promises, without time, tokens that are passed    *)
(* around, or tables: a conversation is held by at most one run at a time, *)
(* each grant carries a larger token than the one before, and only the     *)
(* run that holds its conversation can settle its outcome.                 *)
(***************************************************************************)
EXTENDS Naturals

CONSTANTS Runs, Convs, Payloads, None, Outcomes

VARIABLES
    home,      \* the conversation a run was opened in
    outcome,   \* status and response of every run
    holder,    \* the run that holds a conversation, or None
    epoch      \* number of grants of a conversation so far

vars == <<home, outcome, holder, epoch>>

Init ==
    /\ home = [r \in Runs |-> None]
    /\ outcome = [r \in Runs |-> [status |-> "absent", payload |-> None]]
    /\ holder = [c \in Convs |-> None]
    /\ epoch = [c \in Convs |-> 0]

\* A run is opened once, in one conversation.
Open(r, c) ==
    /\ home[r] = None
    /\ home' = [home EXCEPT ![r] = c]
    /\ outcome' = [outcome EXCEPT ![r] = [status |-> "pending",
                                          payload |-> None]]
    /\ UNCHANGED <<holder, epoch>>

\* A run takes its own conversation, which nobody holds.
Grant(r, c) ==
    /\ home[r] = c
    /\ holder[c] = None
    /\ holder' = [holder EXCEPT ![c] = r]
    /\ epoch' = [epoch EXCEPT ![c] = @ + 1]
    /\ outcome' = [outcome EXCEPT ![r] = [status |-> "running",
                                          payload |-> outcome[r].payload]]
    /\ UNCHANGED home

\* The holder settles its outcome.
Settle(r, c, status, p) ==
    /\ home[r] = c
    /\ holder[c] = r
    /\ outcome' = [outcome EXCEPT ![r] = [status |-> status, payload |-> p]]
    /\ UNCHANGED <<home, holder, epoch>>

\* The stored response of an open run is annotated; its status is not.
Annotate(r, p) ==
    /\ home[r] # None
    /\ outcome' = [outcome EXCEPT ![r] = [status |-> outcome[r].status,
                                          payload |-> p]]
    /\ UNCHANGED <<home, holder, epoch>>

\* Conversations are given up, or their leases run out.
Drop(S) ==
    /\ holder' = [c \in Convs |-> IF c \in S THEN None ELSE holder[c]]
    /\ UNCHANGED <<home, outcome, epoch>>

Next ==
    \/ \E r \in Runs, c \in Convs :
          \/ Open(r, c)
          \/ Grant(r, c)
          \/ \E status \in Outcomes, p \in Payloads \cup {None} :
                Settle(r, c, status, p)
    \/ \E r \in Runs, p \in Payloads : Annotate(r, p)
    \/ \E S \in SUBSET Convs : Drop(S)

Spec == Init /\ [][Next]_vars
=============================================================================
