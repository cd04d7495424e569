------------------------ MODULE MCRetryThroughBreaker ------------------------
(* Instances of RetryThroughBreaker for TLC.                               *)
EXTENDS RetryThroughBreaker

CONSTANTS c1, c2, g1, g2, g3, g4

TwoCallers == {c1, c2}
FourGenerations == {g1, g2, g3, g4}
=============================================================================
