-------------------------- MODULE MCMeteringClient --------------------------
(* Instances of MeteringClient for TLC.                                    *)
EXTENDS MeteringClient, TLC

CONSTANTS r1, r2, drain, drain2, loop1, none

OneRecord == {r1}
TwoRecords == {r1, r2}
OneDrainer == {drain}
TwoDrainers == {drain, drain2}
UnitSize == [r \in Records |-> 1]
Symmetric == Permutations(Records)
=============================================================================
