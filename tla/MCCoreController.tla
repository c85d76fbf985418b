-------------------------- MODULE MCCoreController --------------------------
EXTENDS CoreController, TLC

Production == [tunnel |-> TRUE, follow |-> TRUE, leak |-> TRUE,
               dns |-> TRUE, port53 |-> TRUE]
Proxy == DefaultOptions

CONSTANTS c1, c2, n1, n2, a1, a2, ip1, ip2
MCOptions == {Production, Proxy}
MCForeign == {ServerRoute(n1, ip1)}
MCNoForeign == {}

\* The networks are interchangeable: start on the first.
InitFromN1 == Init /\ net = n1
SpecFromN1 == InitFromN1 /\ [][Next]_vars
FairSpecFromN1 == SpecFromN1 /\ Fairness
=============================================================================
