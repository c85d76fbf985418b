--------------------------- MODULE MCVpnProvider ----------------------------
(* VpnProvider for TLC.                                                    *)
EXTENDS VpnProvider, FiniteSets

CONSTANTS
  s1, s2,
  MaxRaces  \* bound on the races and failures that are met in one behaviour

TwoServers == {s1, s2}

\* What comes after more races than that is not followed.
FewRaces == Cardinality(tangled) <= MaxRaces
=============================================================================
