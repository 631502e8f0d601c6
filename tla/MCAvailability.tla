--------------------------- MODULE MCAvailability ---------------------------
\* Instances of Availability for TLC.
EXTENDS Availability, TLC

CONSTANTS r1, r2, r3, basic, premium, w1

Rows      == {r1, r2, r3}
Offerings == {basic, premium}
Times     == {11, 12, 14}
OneWorker == {w1}

Symmetric == Permutations(Rows) \cup Permutations(Offerings)
=============================================================================
