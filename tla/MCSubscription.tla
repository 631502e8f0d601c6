--------------------------- MODULE MCSubscription ---------------------------
(* One vendor with up to two cards, and a voucher that two workers redeem.  *)
EXTENDS Subscription, TLC
CONSTANTS v1, c1, c2, p1, p2
OneVendor  == {v1}
TwoCards   == {c1, c2}
TwoWorkers == {p1, p2}
Symmetric  == Permutations(TwoCards) \cup Permutations(TwoWorkers)

\* Bound: after its second change at Stripe a subscription is followed with one
\* worker at a time, but for two that redeem a voucher, and after its third
\* with one card and one worker.
OneAtATime ==
    LET Busy == {p \in Proc : job[p] # Idle}
    IN  \A v \in Vendor :
            /\ stripe[v].version > 1 =>
                   \/ Cardinality(Busy) <= 1
                   \/ \A p \in Busy : job[p].at = "apply"
            /\ stripe[v].version > 2 => Cardinality(Rows(v)) <= 1 /\ Cardinality(Busy) <= 1
=============================================================================
