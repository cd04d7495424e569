-------------------------- MODULE MCMeteringBuffer --------------------------
(* Instances of MeteringBuffer for TLC.                                    *)
EXTENDS MeteringBuffer

CONSTANTS r1, r2, r3, r4, drain, loop1, none

ThreeRecords == {r1, r2, r3}
FourRecords == {r1, r2, r3, r4}
NoDrainer == {}
OneDrainer == {drain}

\* Two records fill the limit, the third is larger than a half, the fourth
\* larger than the whole.
MixedSize == [r \in Records |-> IF r = r1 THEN 1 ELSE IF r = r4 THEN 5 ELSE 2]
UnitSize == [r \in Records |-> 1]
=============================================================================
