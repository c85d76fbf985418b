--------------------------- MODULE MCWindowsBridge ---------------------------
(* WindowsBridge for TLC: the methods that differ in what they do.         *)
EXTENDS WindowsBridge

Request(method, mode) == [method |-> method, mode |-> mode]

AllRequests ==
  {Request("connect", "tunnel"), Request("connect", "proxy"),
   Request("disconnect", "tunnel"), Request("status", "tunnel")}
=============================================================================
