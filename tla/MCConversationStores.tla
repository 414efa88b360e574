------------------------ MODULE MCConversationStores ------------------------
(***************************************************************************)
(* ConversationStores for TLC: three conversations compete for two places, *)
(* the window holds one and a half turns.                                  *)
(***************************************************************************)
EXTENDS ConversationStores, TLC

Symmetry == Permutations(Sessions) \cup Permutations(Runs) \cup Permutations(Writers)

\* The operators on sequences, which are written without recursion, against the
\* library's recursive ones.
ShortLogs == UNION {[1..n -> Runs] : n \in 0..3}
ASSUME MessagesFlatten ==
    \A q \in ShortLogs : Messages(q) = FlattenSeq([i \in DOMAIN q |-> Turn(q[i])])
ASSUME WithoutSelects ==
    \A q \in ShortLogs, C \in SUBSET Runs : Without(q, C) = SelectSeq(q, LAMBDA r : r \notin C)
=============================================================================
