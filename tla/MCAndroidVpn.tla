---------------------------- MODULE MCAndroidVpn -----------------------------
(* AndroidVpn for TLC.                                                     *)
EXTENDS AndroidVpn, FiniteSets

CONSTANT MaxRaces  \* bound on the races that are met in one behaviour

\* What comes after more races than that is not followed.
FewRaces == Cardinality(races) <= MaxRaces
=============================================================================
