----------------------- MODULE MCEnforcementRegistry -----------------------
(* Instances of EnforcementRegistry for TLC.                               *)
EXTENDS EnforcementRegistry

CONSTANTS c1, c2, k1, k2, p1, p2, p3, p4, p5

TwoClients == {c1, c2}
TwoKeys == {k1, k2}
SecondKey == {k2}
FivePollers == {p1, p2, p3, p4, p5}
=============================================================================
