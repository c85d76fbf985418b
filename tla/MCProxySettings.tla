-------------------------- MODULE MCProxySettings ---------------------------
(* Two settings of the user besides a direct connection.                   *)
EXTENDS ProxySettings

CONSTANTS u1, u2
=============================================================================
