-------------------------- MODULE MCCircuitBreaker --------------------------
(* Instances of CircuitBreaker for TLC.                                    *)
EXTENDS CircuitBreaker, TLC

CONSTANTS c1, c2, c3, g1, g2, g3, g4, g5

TwoCallers == {c1, c2}
ThreeCallers == {c1, c2, c3}
FourGenerations == {g1, g2, g3, g4}
FiveGenerations == {g1, g2, g3, g4, g5}
Symmetric == Permutations(Callers) \cup Permutations(Generations)
=============================================================================
