---------------------------- MODULE WalletLedger ----------------------------
(***************************************************************************)
(* The handlers that write one lawyer's wallet, at the grain of their      *)
(* database statements: PostgreSQL at READ COMMITTED, where a plain SELECT *)
(* sees the last committed row, an UPDATE waits for the row lock of an     *)
(* open transaction, and SELECT ... FOR UPDATE waits and then reads.       *)
(*                                                                         *)
(* A worker runs one handler at a time. A statement that is followed only  *)
(* by the commit is one step with it. The wallet's row is only ever locked *)
(* within one step, so its lock needs no variable; the rows of an          *)
(* appointment or of a withdrawal stay locked from a handler's first       *)
(* UPDATE to its commit, and writes are visible from the commit on.        *)
(*                                                                         *)
(* The appointments are confirmed, charged and over: Escrow is the module  *)
(* about how they get there.                                               *)
(***************************************************************************)
EXTENDS Integers, Functions, FiniteSets

CONSTANTS
    Appointment,  \* ended appointments of the lawyer, payment in escrow
    Payout,       \* withdrawal requests, by idempotency key
    Fee,          \* Appointment.lawyer_amount
    Amount,       \* Transaction.amount of a withdrawal
    Proc,         \* web and Celery workers
    Handler,      \* the handlers that run in this instance
    MaxSelected   \* bound: withdrawals selected for one admin action

AllHandlers == {"mark_appointment_completed", "mark_as_completed", "withdraw",
                "approve", "reject", "bulk_reject", "lock_wallets"}

ASSUME WalletFeeAssumption == Fee \in [Appointment -> Nat \ {0}]
ASSUME WalletAmountAssumption == Amount \in [Payout -> Nat \ {0}]
ASSUME HandlerAssumption == Handler \subseteq AllHandlers
ASSUME RowAssumption == Appointment \cap Payout = {} /\ "free" \notin Proc

VARIABLES
    balance,     \* Wallet.balance
    is_locked,   \* Wallet.is_locked
    apptStatus,  \* Appointment.status
    payment,     \* status of the appointment's PAYMENT transaction
    payout,      \* status of the PAYOUT transaction, or "none"
    rowLock,     \* the worker holding the row lock of an appointment or payout
    pc,          \* where each worker is: "idle" or inside a handler
    arg,         \* the appointments or payouts it still has to handle
    seen         \* the wallet instance it has read, as <<balance, is_locked>>

walletVars == <<balance, is_locked>>
txVars     == <<apptStatus, payment, payout>>
vars == <<walletVars, txVars, rowLock, pc, arg, seen>>

Free == "free"
Row  == Appointment \cup Payout
Step == {"idle", "completing", "crediting", "marking", "withdrawing",
         "approving", "rejecting", "returning", "bulk_rejecting"}

TypeOK ==
    /\ balance \in Int /\ is_locked \in BOOLEAN
    /\ apptStatus \in [Appointment -> {"confirmed", "completed"}]
    /\ payment \in [Appointment -> {"pending", "completed"}]
    /\ payout \in [Payout -> {"none", "pending", "completed", "failed"}]
    /\ rowLock \in [Row -> Proc \cup {Free}]
    /\ pc \in [Proc -> Step]
    /\ arg \in [Proc -> SUBSET Row]
    /\ seen \in [Proc -> Int \X BOOLEAN]

Init ==
    /\ balance = 0 /\ is_locked = FALSE
    /\ apptStatus = [a \in Appointment |-> "confirmed"]
    /\ payment = [a \in Appointment |-> "pending"]
    /\ payout = [k \in Payout |-> "none"]
    /\ rowLock = [r \in Row |-> Free]
    /\ pc = [p \in Proc |-> "idle"]
    /\ arg = [p \in Proc |-> {}]
    /\ seen = [p \in Proc |-> <<0, FALSE>>]

-----------------------------------------------------------------------------
(* A worker's progress through its handler.                                *)

Start(p, h, step, S) ==
    /\ pc[p] = "idle" /\ h \in Handler
    /\ pc' = [pc EXCEPT ![p] = step]
    /\ arg' = [arg EXCEPT ![p] = S]

\* The handler is done with row r, and returns when it was the last one.
Done(p, r) ==
    /\ arg' = [arg EXCEPT ![p] = @ \ {r}]
    /\ pc' = [pc EXCEPT ![p] = IF arg[p] = {r} THEN "idle" ELSE @]

ReadWallet(p) == seen' = [seen EXCEPT ![p] = <<balance, is_locked>>]

-----------------------------------------------------------------------------
(* mark_appointment_completed, the API view.                               *)

CompleteRead(p, a) ==
    /\ apptStatus[a] = "confirmed"
    /\ Start(p, "mark_appointment_completed", "completing", {a})
    /\ UNCHANGED <<walletVars, txVars, rowLock, seen>>

\* Fault: the payment is read before the UPDATE that waits.
CompletePay_BeforeUpdate(p, a) ==
    /\ pc[p] = "completing" /\ a \in arg[p] /\ payment[a] = "pending"
    /\ pc' = [pc EXCEPT ![p] = "crediting"]
    /\ ReadWallet(p)
    /\ UNCHANGED <<walletVars, txVars, rowLock, arg>>

\* UPDATE appointment, SELECT the pending payment, UPDATE it, SELECT its
\* wallet: the first statement waits for the row, so the second is fresh.
CompletePay(p, a) ==
    /\ pc[p] = "completing" /\ a \in arg[p]
    /\ rowLock[a] = Free /\ payment[a] = "pending"
    /\ rowLock' = [rowLock EXCEPT ![a] = p]
    /\ pc' = [pc EXCEPT ![p] = "crediting"]
    /\ ReadWallet(p)
    /\ UNCHANGED <<walletVars, txVars, arg>>

\* The same when the payment is no longer pending: only the status is saved.
CompleteOnly(p, a) ==
    /\ pc[p] = "completing" /\ a \in arg[p]
    /\ rowLock[a] = Free /\ payment[a] # "pending"
    /\ apptStatus' = [apptStatus EXCEPT ![a] = "completed"]
    /\ Done(p, a)
    /\ UNCHANGED <<walletVars, payment, payout, rowLock, seen>>

\* UPDATE of every field of the wallet instance, and the commit.
CompleteCommit(p, a) ==
    /\ pc[p] = "crediting" /\ a \in arg[p]
    /\ apptStatus' = [apptStatus EXCEPT ![a] = "completed"]
    /\ payment' = [payment EXCEPT ![a] = "completed"]
    /\ balance' = seen[p][1] + Fee[a]
    /\ is_locked' = seen[p][2]
    /\ rowLock' = [rowLock EXCEPT ![a] = Free]
    /\ Done(p, a)
    /\ UNCHANGED <<payout, seen>>

(* Appointment.mark_as_completed, called by end_session and by the admin.  *)

MarkRead(p, a) ==
    /\ apptStatus[a] = "confirmed"
    /\ Start(p, "mark_as_completed", "marking", {a})
    /\ UNCHANGED <<walletVars, txVars, rowLock, seen>>

\* Fault: the status of the payment is not checked.
MarkCommit_AnyPayment(p, a) ==
    /\ pc[p] = "marking" /\ a \in arg[p] /\ rowLock[a] = Free
    /\ apptStatus' = [apptStatus EXCEPT ![a] = "completed"]
    /\ payment' = [payment EXCEPT ![a] = "completed"]
    /\ balance' = balance + Fee[a]
    /\ Done(p, a)
    /\ UNCHANGED <<is_locked, payout, rowLock, seen>>

\* The same statements with SELECT FOR UPDATE on the wallet before its
\* UPDATE, which writes the balance only.
MarkCommit(p, a) ==
    /\ pc[p] = "marking" /\ a \in arg[p] /\ rowLock[a] = Free
    /\ apptStatus' = [apptStatus EXCEPT ![a] = "completed"]
    /\ \/ /\ payment[a] = "pending"
          /\ payment' = [payment EXCEPT ![a] = "completed"]
          /\ balance' = balance + Fee[a]
       \/ payment[a] # "pending" /\ UNCHANGED <<payment, balance>>
    /\ Done(p, a)
    /\ UNCHANGED <<is_locked, payout, rowLock, seen>>

-----------------------------------------------------------------------------
(* WithdrawView: the serializer's checks, then the same checks again under *)
(* the wallet's row lock. A request may be sent twice with one key.        *)

CanWithdraw(k) ==
    ~is_locked /\ Amount[k] <= balance /\ payout[k] = "none"

WithdrawCheck(p, k) ==
    /\ CanWithdraw(k)
    /\ Start(p, "withdraw", "withdrawing", {k})
    /\ UNCHANGED <<walletVars, txVars, rowLock, seen>>

\* Fault: no second check under the row lock.
WithdrawCommit_TrustsSerializer(p, k) ==
    /\ pc[p] = "withdrawing" /\ k \in arg[p]
    /\ payout' = [payout EXCEPT ![k] = "pending"]
    /\ balance' = balance - Amount[k]
    /\ Done(p, k)
    /\ UNCHANGED <<is_locked, apptStatus, payment, rowLock, seen>>

\* The unique key of the transaction makes a repetition fail like the checks.
WithdrawCommit(p, k) ==
    /\ pc[p] = "withdrawing" /\ k \in arg[p]
    /\ \/ /\ CanWithdraw(k)
          /\ payout' = [payout EXCEPT ![k] = "pending"]
          /\ balance' = balance - Amount[k]
       \/ ~CanWithdraw(k) /\ UNCHANGED <<payout, balance>>
    /\ Done(p, k)
    /\ UNCHANGED <<is_locked, apptStatus, payment, rowLock, seen>>

-----------------------------------------------------------------------------
(* The admin site.                                                         *)

PendingPayouts == {k \in Payout : payout[k] = "pending"}

\* approve_withdrawal_view and approve_selected_withdrawals: the instances
\* are read first; _approve_withdrawal looks at the instance's status only.
ApproveRead(p, S) ==
    /\ S # {} /\ S \subseteq PendingPayouts
    /\ Start(p, "approve", "approving", S)
    /\ UNCHANGED <<walletVars, txVars, rowLock, seen>>

ApproveCommit(p, k) ==
    /\ pc[p] = "approving" /\ k \in arg[p] /\ rowLock[k] = Free
    /\ payout' = [payout EXCEPT ![k] = "completed"]
    /\ Done(p, k)
    /\ UNCHANGED <<walletVars, apptStatus, payment, rowLock, seen>>

\* reject_withdrawal_view: the wallet is read after the UPDATE of the
\* transaction, without a lock of its own.
RejectRead(p, k) ==
    /\ k \in PendingPayouts
    /\ Start(p, "reject", "rejecting", {k})
    /\ UNCHANGED <<walletVars, txVars, rowLock, seen>>

RejectUpdate(p, k) ==
    /\ pc[p] = "rejecting" /\ k \in arg[p] /\ rowLock[k] = Free
    /\ rowLock' = [rowLock EXCEPT ![k] = p]
    /\ pc' = [pc EXCEPT ![p] = "returning"]
    /\ ReadWallet(p)
    /\ UNCHANGED <<walletVars, txVars, arg>>

\* Fault: the amount is not returned to the balance.
RejectCommit_KeepsMoney(p, k) ==
    /\ pc[p] = "returning" /\ k \in arg[p]
    /\ payout' = [payout EXCEPT ![k] = "failed"]
    /\ rowLock' = [rowLock EXCEPT ![k] = Free]
    /\ Done(p, k)
    /\ UNCHANGED <<walletVars, apptStatus, payment, seen>>

\* Fault: the transaction is left open, with its row lock.
RejectCommit_StaysOpen(p, k) ==
    /\ pc[p] = "returning" /\ k \in arg[p]
    /\ Done(p, k)
    /\ UNCHANGED <<walletVars, txVars, rowLock, seen>>

RejectCommit(p, k) ==
    /\ pc[p] = "returning" /\ k \in arg[p]
    /\ payout' = [payout EXCEPT ![k] = "failed"]
    /\ balance' = seen[p][1] + Amount[k]
    /\ rowLock' = [rowLock EXCEPT ![k] = Free]
    /\ Done(p, k)
    /\ UNCHANGED <<is_locked, apptStatus, payment, seen>>

\* reject_selected_withdrawals: get_queryset has select_related("wallet"),
\* so one query reads the transactions, each with a copy of the wallet.
BulkRejectRead(p, S) ==
    /\ S # {} /\ S \subseteq PendingPayouts
    /\ Start(p, "bulk_reject", "bulk_rejecting", S)
    /\ ReadWallet(p)
    /\ UNCHANGED <<walletVars, txVars, rowLock>>

BulkRejectCommit(p, k) ==
    /\ pc[p] = "bulk_rejecting" /\ k \in arg[p] /\ rowLock[k] = Free
    /\ payout' = [payout EXCEPT ![k] = "failed"]
    /\ balance' = seen[p][1] + Amount[k]
    /\ Done(p, k)
    /\ UNCHANGED <<is_locked, apptStatus, payment, rowLock, seen>>

\* lock_wallets and unlock_wallets: one UPDATE.
SetLocked(b) ==
    /\ "lock_wallets" \in Handler
    /\ is_locked' = b
    /\ UNCHANGED <<balance, txVars, rowLock, pc, arg, seen>>

-----------------------------------------------------------------------------
ProcStep(p) ==
    \/ \E a \in Appointment :
          \/ CompleteRead(p, a) \/ CompletePay(p, a) \/ CompleteOnly(p, a)
          \/ CompleteCommit(p, a) \/ MarkRead(p, a) \/ MarkCommit(p, a)
    \/ \E k \in Payout :
          \/ WithdrawCheck(p, k) \/ WithdrawCommit(p, k) \/ ApproveCommit(p, k)
          \/ RejectRead(p, k) \/ RejectUpdate(p, k) \/ RejectCommit(p, k)
          \/ BulkRejectCommit(p, k)
    \/ \E S \in {T \in SUBSET PendingPayouts : Cardinality(T) <= MaxSelected} :
          ApproveRead(p, S) \/ BulkRejectRead(p, S)

Next == (\E p \in Proc : ProcStep(p)) \/ (\E b \in BOOLEAN : SetLocked(b))

Spec == Init /\ [][Next]_vars

\* A worker that is inside a handler goes on with it, and PostgreSQL grants a
\* row lock that was released. No worker has to start a handler.
Fairness == \A p \in Proc : WF_vars(pc[p] # "idle" /\ ProcStep(p))

FairSpec == Spec /\ Fairness

-----------------------------------------------------------------------------
(* The wallet's promise, kept when every writer of the balance locks the   *)
(* wallet's row, and when handlers run one at a time.                      *)

L == INSTANCE Ledger
       WITH released <- {a \in Appointment : payment[a] = "completed"}

\* Every step of the handlers is one step of the ledger, or none.
LedgerImplemented == L!LedgerSpec

\* The balance is what was earned minus what is or will be paid out.
BooksBalance == L!BooksBalance

\* A locked wallet accepts no withdrawal, even one whose checks passed before
\* it was locked.
LockedWalletAcceptsNothing ==
    [][is_locked => PendingPayouts' \subseteq PendingPayouts]_vars

\* Two completions of one appointment, by whichever path, release its escrow
\* once: the payment a handler found pending under the appointment's row lock
\* is still pending when it commits the credit.
ReleasedOnce ==
    [][\A p \in Proc, a \in Appointment :
          CompleteCommit(p, a) => payment[a] = "pending"]_vars

\* No request waits for ever: the row locks cannot be held in a cycle.
RequestsFinish == \A p \in Proc : pc[p] # "idle" ~> pc[p] = "idle"

-----------------------------------------------------------------------------
(* What the documents and comments of the repository say, and the code     *)
(* does not do. README.md gives the shortest behaviour that breaks each.   *)

\* README.md: the deduction prevents double withdrawal, and an approval makes
\* the bank transfer. An approved withdrawal is therefore never returned to
\* the balance, nor a returned one approved.
SettledPayoutIsFinal ==
    [][\A k \in Payout : payout[k] \in {"completed", "failed"} =>
          payout'[k] = payout[k]]_vars

\* lock_wallets, "Lock selected wallets": only unlock_wallets undoes it, since
\* README.md makes "Wallet is not locked" a condition of every withdrawal.
LockLasts == [][is_locked /\ ~is_locked' => SetLocked(FALSE)]_vars
=============================================================================
