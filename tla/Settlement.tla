----------------------------- MODULE Settlement -----------------------------
(***************************************************************************)
(* What the escrow of an appointment promises its two parties: the money   *)
(* is held from the booking on, and then either added to the lawyer's      *)
(* wallet, once, or kept from the lawyer for good; only money kept from    *)
(* the lawyer is ever paid back to the client.                             *)
(***************************************************************************)
EXTENDS Naturals

CONSTANT Appointment  \* appointment ids

VARIABLES
    escrow,    \* "none", "held", "released" to the lawyer, or "closed"
    credited,  \* times the fee was added to the lawyer's wallet
    refund     \* the client's refund: "none", "asked" or "made"

SettlementInit ==
    /\ escrow = [a \in Appointment |-> "none"]
    /\ credited = [a \in Appointment |-> 0]
    /\ refund = [a \in Appointment |-> "none"]

HoldEscrow(a) ==
    /\ escrow[a] = "none"
    /\ escrow' = [escrow EXCEPT ![a] = "held"]
    /\ UNCHANGED <<credited, refund>>

ReleaseEscrow(a) ==
    /\ escrow[a] = "held" /\ refund[a] = "none"
    /\ escrow' = [escrow EXCEPT ![a] = "released"]
    /\ credited' = [credited EXCEPT ![a] = 1]
    /\ UNCHANGED refund

CloseEscrow(a) ==
    /\ escrow[a] = "held"
    /\ escrow' = [escrow EXCEPT ![a] = "closed"]
    /\ UNCHANGED <<credited, refund>>

\* A cancellation in time asks for a refund and closes the escrow with it; a
\* booking that a late payment event revived may be cancelled once more.
AskRefund(a) ==
    /\ escrow[a] \in {"held", "closed"}
    /\ escrow' = [escrow EXCEPT ![a] = "closed"]
    /\ refund' = [refund EXCEPT ![a] = IF @ = "none" THEN "asked" ELSE @]
    /\ UNCHANGED credited

PayBack(a) ==
    /\ escrow[a] = "closed" /\ refund[a] = "asked"
    /\ refund' = [refund EXCEPT ![a] = "made"]
    /\ UNCHANGED <<escrow, credited>>

\* The bank did not take the money: it has to be paid back again.
RefundFails(a) ==
    /\ refund[a] = "made"
    /\ refund' = [refund EXCEPT ![a] = "asked"]
    /\ UNCHANGED <<escrow, credited>>

SettlementNext ==
    \E a \in Appointment :
        \/ HoldEscrow(a) \/ ReleaseEscrow(a) \/ CloseEscrow(a)
        \/ AskRefund(a) \/ PayBack(a) \/ RefundFails(a)

SettlementSpec == SettlementInit /\ [][SettlementNext]_<<escrow, credited, refund>>
=============================================================================
