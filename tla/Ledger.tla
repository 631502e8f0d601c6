------------------------------- MODULE Ledger -------------------------------
(***************************************************************************)
(* What a lawyer's wallet promises: a balance that every released          *)
(* appointment raises by its fee, every withdrawal request lowers at once  *)
(* by its amount, and every rejected request raises again, each of them    *)
(* once and in one step.                                                   *)
(***************************************************************************)
EXTENDS Naturals, Functions

CONSTANTS
    Appointment,  \* appointments of this lawyer whose escrow can be released
    Payout,       \* withdrawal requests, by idempotency key
    Fee,          \* lawyer_amount of each appointment, a positive integer
    Amount        \* amount of each withdrawal, a positive integer

VARIABLES
    balance,   \* the wallet's balance
    released,  \* the appointments paid into it
    payout     \* each withdrawal: "none", "pending", "completed" or "failed"

LedgerTypeOK ==
    /\ balance \in Nat
    /\ released \subseteq Appointment
    /\ payout \in [Payout -> {"none", "pending", "completed", "failed"}]

LedgerInit ==
    /\ balance = 0
    /\ released = {}
    /\ payout = [k \in Payout |-> "none"]

ReleaseFunds(a) ==
    /\ a \notin released
    /\ released' = released \cup {a}
    /\ balance' = balance + Fee[a]
    /\ UNCHANGED payout

RequestPayout(k) ==
    /\ payout[k] = "none" /\ Amount[k] <= balance
    /\ payout' = [payout EXCEPT ![k] = "pending"]
    /\ balance' = balance - Amount[k]
    /\ UNCHANGED released

CompletePayout(k) ==
    /\ payout[k] = "pending"
    /\ payout' = [payout EXCEPT ![k] = "completed"]
    /\ UNCHANGED <<balance, released>>

FailPayout(k) ==
    /\ payout[k] = "pending"
    /\ payout' = [payout EXCEPT ![k] = "failed"]
    /\ balance' = balance + Amount[k]
    /\ UNCHANGED released

LedgerNext ==
    \/ \E a \in Appointment : ReleaseFunds(a)
    \/ \E k \in Payout : RequestPayout(k) \/ CompletePayout(k) \/ FailPayout(k)

LedgerSpec == LedgerInit /\ [][LedgerNext]_<<balance, released, payout>>

\* The books: what came in is what is left and what is or will be paid out.
Outgoing == {k \in Payout : payout[k] \in {"pending", "completed"}}

BooksBalance ==
    balance + SumFunctionOnSet(Amount, Outgoing) = SumFunctionOnSet(Fee, released)
=============================================================================
