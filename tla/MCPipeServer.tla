---------------------------- MODULE MCPipeServer -----------------------------
(* PipeServer for TLC: two connections.                                    *)
EXTENDS PipeServer

CONSTANTS a1, a2

TwoApps == {a1, a2}
=============================================================================
