--------------------------- MODULE MCWalletLedger ---------------------------
(* Small instances of WalletLedger: two appointments with different fees,   *)
(* two withdrawals, of which the balance can cover one or both, and up to   *)
(* three workers.                                                           *)
EXTENDS WalletLedger, TLC

CONSTANTS a1, a2, k1, k2, p1, p2, p3

TwoAppointments == {a1, a2}
Fees            == a1 :> 2 @@ a2 :> 3
TwoPayouts      == {k1, k2}
Amounts         == k1 :> 2 @@ k2 :> 3

OneWorker    == {p1}
TwoWorkers   == {p1, p2}
ThreeWorkers == {p1, p2, p3}

LockingHandlers == {"mark_as_completed", "withdraw", "approve", "lock_wallets"}
=============================================================================
