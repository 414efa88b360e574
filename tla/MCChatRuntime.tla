----------------------------- MODULE MCChatRuntime -----------------------------
(***************************************************************************)
(* ChatRuntime for TLC, in several deployments:                            *)
(*   Single   one process, all requests under the same run id, the third   *)
(*            of them in another conversation with a run from before there *)
(*            was a run repository;                                        *)
(*   Turns    two processes, two runs of one conversation, the second      *)
(*            process also retries the second run;                         *)
(*   Shared   two processes that receive requests for the same run.        *)
(***************************************************************************)
EXTENDS ChatRuntime, TLC

CONSTANTS q1, q2, q3, r1, r2, c1, c2, s1, s2, h1, h2, p1, p2

Single ==
    [ proc |-> [q \in Requests |-> s1], run |-> [q \in Requests |-> r1],
      conv |-> [q \in Requests |-> IF q = q3 THEN c2 ELSE c1], legacy |-> {<<c2, r1>>},
      hashes |-> {h1, h2}, payloads |-> {p1, p2},
      faults |-> {"db_error", "ack_lost", "crash", "revoke"} ]

Shared ==
    [ proc |-> [q \in Requests |-> IF q = q1 THEN s1 ELSE s2],
      run |-> [q \in Requests |-> r1], conv |-> [q \in Requests |-> c1],
      legacy |-> {<<c1, r1>>}, hashes |-> {h1}, payloads |-> {p1},
      faults |-> {"cancel", "db_error", "ack_lost", "crash"} ]

Turns ==
    [ Shared EXCEPT !.run = [q \in Requests |-> IF q = q1 THEN r1 ELSE r2],
                    !.legacy = {}, !.faults = {"db_error", "crash"} ]

SingleOrTurns == {Single, Turns}

\* The specification is the same for every deployment, so requests and payloads
\* may be exchanged.
Symmetry == Permutations({q2, q3}) \cup Permutations({p1, p2})
OnlyShared == {Shared}

\* The two deployments in which a finding shows.
OnlyReopened == {[Shared EXCEPT !.legacy = {}, !.payloads = {p1, p2}, !.faults = {}]}
OnlyCancelled ==
    {[Single EXCEPT !.conv = [q \in Requests |-> c1], !.legacy = {},
                    !.hashes = {h1}, !.payloads = {p1}, !.faults = {"cancel"}]}
=============================================================================
