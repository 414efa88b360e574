----------------------------- MODULE MCMCPSession -----------------------------
(***************************************************************************)
(* MCPSession for TLC: three concurrent calls, two of which may be         *)
(* repeated, while the server drops up to two sessions.                    *)
(***************************************************************************)
EXTENDS MCPSession, TLC
=============================================================================
