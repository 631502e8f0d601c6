---------------------------- MODULE MCOnboarding ----------------------------
(* A user with two sessions and two workers, who becomes a lawyer or not.  *)
EXTENDS Onboarding, TLC
CONSTANTS s1, s2, p1, p2
TwoSessions == {s1, s2}
TwoWorkers  == {p1, p2}
Others      == {"Notary"}
Fields      == {"address"}
Symmetric   == Permutations(TwoSessions) \cup Permutations(TwoWorkers)

InWizard(p) == job[p].at \in Completing \cup {"step"}
InCheck(p)  == job[p].at \notin Completing \cup {"idle", "step"}

\* Bound: nobody is in the wizard while the identity check goes on, and it
\* begins when one session was completed.
CheckAlone ==
    (kyc # "none" \/ \E p \in Proc : InCheck(p)) =>
        /\ ~reopened /\ \A p \in Proc : ~InWizard(p)
        /\ \A s \in Session : row[s].state \in {"absent", "completed"} /\ ~expired[s]
        /\ \E s \in Session : row[s].state = "absent"

\* Bound: with two sessions, one worker saves steps only when the other has
\* nothing to do in the wizard.
StepAlone ==
    (\E s, t \in Session : s # t /\ row[s].state # "absent" /\ row[t].state # "absent") =>
        \A p, q \in Proc : p # q /\ job[p].at = "step" => ~InWizard(q)

\* Bound: the steps of a session are first taken in the order of the wizard.
InOrder ==
    \A s \in Session :
        /\ row[s].filled # {} => row[s].category # "none"
        /\ row[s].legal => Required \subseteq row[s].filled

\* Bound: a session stays.
OneExpires == \E s \in Session : ~expired[s]
=============================================================================
