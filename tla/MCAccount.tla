----------------------------- MODULE MCAccount -----------------------------
(* One account with two addresses, and two workers that store tokens or    *)
(* invalidate them.                                                        *)
EXTENDS Account, TLC
CONSTANTS e1, e2, p1, p2
TwoEmails  == {e1, e2}
TwoWorkers == {p1, p2}
Symmetric  == Permutations(TwoEmails) \cup Permutations(TwoWorkers)

\* Bound: while a worker is between two steps no code is stored but one that lets
\* a second worker begin, and no message has failed lately; while both are between
\* two steps, no code is stored.
CodesApart ==
    LET Busy == {p \in Proc : job[p] # Idle}
    IN  /\ Busy # {} => ~otp["email"].stored /\ lost = {}
        /\ Cardinality(Busy) > 1 => \A k \in Kind : ~otp[k].stored
=============================================================================
