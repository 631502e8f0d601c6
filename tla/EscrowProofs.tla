---------------------------- MODULE EscrowProofs ----------------------------
(***************************************************************************)
(* The safety of Escrow, for every set of appointments and every bound on  *)
(* the refunds. EscrowInv is inductive: the conjuncts it adds to the       *)
(* invariants of the runs say that a booking which was never made has no   *)
(* money (AbsentHasNothing), that a credited payment is not pending any    *)
(* more (CreditedIsSettled), and that Stripe only reports on REFUND        *)
(* transactions that exist (RefundsNumbered).                              *)
(*                                                                         *)
(* From it: Escrow implements Settlement; what the liveness properties of  *)
(* the runs rest on; how often Stripe pays back; and, for two statements   *)
(* of the documents which the code breaks, the only step that breaks them. *)
(***************************************************************************)
EXTENDS Escrow, TLAPS

\* Completion and rejection change a payment and its credit together, and
\* only from PENDING: the typing part.
LEMMA ReleaseType ==
    ASSUME TypeOK, NEW a \in Appointment, Release(a)
    PROVE  /\ pay' \in [Appointment -> TxStatus]
           /\ credited' \in [Appointment -> Nat]
<1>1. CASE pay[a] = "pending"
  BY <1>1 DEF Release, TypeOK, TxStatus
<1>2. CASE UNCHANGED moneyVars
  BY <1>2 DEF TypeOK, moneyVars
<1> QED BY <1>1, <1>2 DEF Release

\* The same step by its effect on each appointment: only the one released
\* can be credited, and that is its first credit.
LEMMA ReleaseEffect ==
    ASSUME EscrowInv, NEW a \in Appointment, Release(a)
    PROVE  \A b \in Appointment :
             \/ pay'[b] = pay[b] /\ credited'[b] = credited[b]
             \/ /\ b = a /\ pay[a] = "pending" /\ pay'[a] = "completed"
                /\ credited[a] = 0 /\ credited'[a] = 1
<1>1. TypeOK /\ CreditedIsSettled
  BY DEF EscrowInv
<1>2. CASE pay[a] = "pending"
  <2>1. credited[a] = 0
    BY <1>1, <1>2 DEF TypeOK, CreditedIsSettled
  <2> QED BY <1>1, <1>2, <2>1 DEF Release, TypeOK, TxStatus
<1>3. CASE UNCHANGED moneyVars
  BY <1>3 DEF moneyVars
<1> QED BY <1>2, <1>3 DEF Release

-----------------------------------------------------------------------------
(* Types.                                                                  *)

\* Before the first booking every variable has its type.
LEMMA TypeOKInit == Init => TypeOK
BY MaxRefundsAssumption
DEF Init, TypeOK, RefundId, Status, RefundStatus, TxStatus, Event

\* Every handler keeps the types.
LEMMA TypeOKStep == TypeOK /\ [Next]_vars => TypeOK'
<1> SUFFICES ASSUME TypeOK, [Next]_vars PROVE TypeOK'
  OBVIOUS
<1> USE DEF TypeOK, RefundId, Status, RefundStatus, TxStatus, Event,
            PaymentEvent, RefundEvent, vars, apptVars, moneyVars, refundVars,
            stripeVars
<1>1. ASSUME NEW a \in Appointment, RequestStep(a) PROVE TypeOK'
  <2>1. CASE BookPaid(a)
    BY <2>1 DEF BookPaid
  <2>2. CASE BookPhysical(a)
    BY <2>2 DEF BookPhysical
  <2>3. CASE Reschedule(a)
    BY <2>3 DEF Reschedule
  <2>4. CASE CancelPhysical(a)
    BY <2>4 DEF CancelPhysical
  <2>5. CASE CancelWithRefund(a)
    BY <2>5, MaxRefundsAssumption DEF CancelWithRefund
  <2>6. CASE CancelWithoutRefund(a)
    BY <2>6 DEF CancelWithoutRefund
  <2>7. CASE CancelTooLate(a)
    BY <2>7 DEF CancelTooLate
  <2>8. CASE MarkAppointmentCompleted(a)
    BY <2>8, ReleaseType DEF MarkAppointmentCompleted
  <2>9. CASE MarkAsCompleted(a)
    BY <2>9, ReleaseType DEF MarkAsCompleted
  <2> QED BY <1>1, <2>1, <2>2, <2>3, <2>4, <2>5, <2>6, <2>7, <2>8, <2>9
          DEF RequestStep
<1>2. ASSUME NEW a \in Appointment, AdminStep(a) PROVE TypeOK'
  <2>1. CASE MarkAsNoShow(a)
    BY <2>1 DEF MarkAsNoShow
  <2>2. CASE ApproveRefund(a)
    BY <2>2 DEF ApproveRefund, MakeStripeRefund, Send
  <2>3. CASE ApproveRefundAnswerLost(a)
    BY <2>3 DEF ApproveRefundAnswerLost, MakeStripeRefund, Send
  <2>4. CASE ApproveRefundAgain(a)
    BY <2>4 DEF ApproveRefundAgain
  <2>5. CASE ApproveRefundNothingPending(a)
    BY <2>5 DEF ApproveRefundNothingPending
  <2>6. CASE RejectRefund(a)
    BY <2>6, ReleaseType DEF RejectRefund
  <2> QED BY <1>2, <2>1, <2>2, <2>3, <2>4, <2>5, <2>6 DEF AdminStep
<1>3. ASSUME NEW a \in Appointment, WebhookStep(a) PROVE TypeOK'
  <2>1. CASE HandlePaymentSucceeded(a)
    BY <2>1 DEF HandlePaymentSucceeded
  <2>2. CASE HandlePaymentFailed(a)
    BY <2>2 DEF HandlePaymentFailed, DeleteRow
  <2>3. CASE HandlePaymentCanceled(a)
    BY <2>3 DEF HandlePaymentCanceled, DeleteRow
  <2>4. CASE HandleChargeDisputed(a)
    <3>1. pay' \in [Appointment -> TxStatus]
      BY <2>4 DEF HandleChargeDisputed
    <3>2. refundTx' \in [RefundId -> TxStatus]
      BY <2>4 DEF HandleChargeDisputed
    <3> QED BY <2>4, <3>1, <3>2 DEF HandleChargeDisputed
  <2> QED BY <1>3, <2>1, <2>2, <2>3, <2>4 DEF WebhookStep
<1>4. ASSUME NEW a \in Appointment, StripeStep(a) PROVE TypeOK'
  <2>1. CASE StripeCharges(a)
    BY <2>1 DEF StripeCharges, Send
  <2>2. CASE StripeDeclines(a)
    BY <2>2 DEF StripeDeclines, Send
  <2>3. CASE StripeCancels(a)
    BY <2>3 DEF StripeCancels, Send
  <2>4. CASE StripeOpensDispute(a)
    BY <2>4 DEF StripeOpensDispute, Send
  <2> QED BY <1>4, <2>1, <2>2, <2>3, <2>4 DEF StripeStep
<1>5. ASSUME NEW a \in Appointment, DeleteUnpaidAppointment(a) PROVE TypeOK'
  <2>1. CASE DeleteRow(a, pay[a])
    BY <1>5, <2>1 DEF DeleteUnpaidAppointment, DeleteRow
  <2>2. CASE UNCHANGED <<status, pay, refundTx>>
    BY <1>5, <2>2 DEF DeleteUnpaidAppointment
  <2> QED BY <1>5, <2>1, <2>2 DEF DeleteUnpaidAppointment
<1>6. ASSUME NEW a \in Appointment, TimePasses(a) \/ LowerThreshold(a)
      PROVE  TypeOK'
  <2>1. CASE TimePasses(a)
    BY <2>1 DEF TimePasses
  <2>2. CASE LowerThreshold(a)
    BY <2>2 DEF LowerThreshold
  <2> QED BY <1>6, <2>1, <2>2
<1>7. ASSUME NEW i \in RefundId, RefundWebhookStep(i) PROVE TypeOK'
  <2>1. CASE HandleRefundCreated(i)
    BY <2>1 DEF HandleRefundCreated
  <2>2. CASE HandleRefundFailed(i)
    BY <2>2 DEF HandleRefundFailed
  <2> QED BY <1>7, <2>1, <2>2 DEF RefundWebhookStep
<1>8. ASSUME NEW i \in RefundId, StripeFailsRefund(i) PROVE TypeOK'
  BY <1>8 DEF StripeFailsRefund, Send
<1>9. CASE UNCHANGED vars
  BY <1>9
<1> QED BY <1>1, <1>2, <1>3, <1>4, <1>5, <1>6, <1>7, <1>8, <1>9 DEF Next

\* Every value the handlers store is one its field can hold.
THEOREM TypeCorrect == Spec => []TypeOK
BY TypeOKInit, TypeOKStep, PTL DEF Spec

-----------------------------------------------------------------------------
(* The inductive invariant: the handlers that need more than one leaf.     *)

\* A cancellation with a refund opens a new REFUND transaction on an
\* appointment that nobody was paid for, since its deadline has not passed.
LEMMA CancelWithRefundKeeps ==
    ASSUME EscrowInv, TypeOK', NEW a \in Appointment, CancelWithRefund(a)
    PROVE  EscrowInv'
<1> DEFINE n == nRefunds + 1
<1>1. CreditedOnlyAfterEnd /\ DeletedLeavesNothingPending
  BY DEF EscrowInv
<1>2. credited[a] = 0
  <2>1. credited[a] \in Nat /\ window[a] = "open"
    BY DEF EscrowInv, TypeOK, CancelWithRefund, CanBeModified
  <2> QED BY <1>1, <2>1 DEF CreditedOnlyAfterEnd
<1>3. DeletedLeavesNothingPending'
  <2>1. \A b \in Appointment : status'[b] = "deleted" =>
          b # a /\ status[b] = "deleted" /\ pay'[b] = pay[b]
    BY DEF EscrowInv, TypeOK, CancelWithRefund
  <2>2. \A b \in Appointment : b # a => PendingRefunds(b)' = PendingRefunds(b)
    BY MaxRefundsAssumption DEF EscrowInv, TypeOK, RefundId, CancelWithRefund,
                                PendingRefunds, RefundsNumbered
  <2> QED BY <1>1, <2>1, <2>2 DEF DeletedLeavesNothingPending
<1> USE MaxRefundsAssumption
    DEF EscrowInv, TypeOK, RefundId, moneyVars, stripeVars, CancelWithRefund
<1>4. n \in RefundId /\ nRefunds \in Nat
  OBVIOUS
<1>5. \A b \in Appointment :
        RefundsOf(b)' = IF b = a THEN RefundsOf(b) \cup {n} ELSE RefundsOf(b)
  BY <1>4 DEF RefundsOf
<1>6. AbsentHasNothing'
  BY <1>5 DEF AbsentHasNothing, CanBeModified, Active
<1>7. CreditedIsSettled'
  BY <1>2 DEF CreditedIsSettled
<1>8. RefundsNumbered'
  <2>1. ASSUME NEW i \in RefundId, i <= nRefunds' PROVE refundOf'[i] \in Appointment
    BY <1>4, <2>1 DEF RefundsNumbered
  <2>2. ASSUME NEW i \in RefundId, ~(i <= nRefunds')
        PROVE  /\ refundTx'[i] = "none" /\ stripeRefund'[i] = "none"
               /\ \A k \in RefundEvent : <<k, i>> \notin sent'
    <3>1. i # n /\ ~(i <= nRefunds)
      BY <1>4, <2>2
    <3> QED BY <3>1 DEF RefundsNumbered
  <2> QED BY <2>1, <2>2 DEF RefundsNumbered
<1>9. CreditedAtMostOnce' /\ CreditedOnlyAfterEnd'
  BY DEF CreditedAtMostOnce, CreditedOnlyAfterEnd
<1>10. EscrowOrRefund'
  BY <1>2, <1>5 DEF EscrowOrRefund
<1>11. ReviewedEscrowIsClosed'
  <2>1. \A b \in Appointment : RefundsOf(b) # {} \/ b = a => RefundsOf(b)' # {}
    BY ONLY <1>5
  <2> QED BY <2>1 DEF ReviewedEscrowIsClosed
<1> QED BY <1>3, <1>6, <1>7, <1>8, <1>9, <1>10, <1>11

\* Both completion paths: an ended appointment is credited, at most once, and
\* only when its escrow was open, so that it has no refund.
LEMMA CompletionKeeps ==
    ASSUME EscrowInv, TypeOK', NEW a \in Appointment,
           MarkAppointmentCompleted(a) \/ MarkAsCompleted(a)
    PROVE  EscrowInv'
<1> USE DEF EscrowInv, TypeOK, RefundId, refundVars, stripeVars
<1>1. /\ status[a] = "confirmed" /\ window[a] = "ended"
      /\ status' = [status EXCEPT ![a] = "completed"]
      /\ UNCHANGED <<refundStatus, window, refundVars, stripeVars>>
  BY DEF MarkAppointmentCompleted, MarkAsCompleted, CanBeCompleted
<1>2. \A b \in Appointment :
        \/ pay'[b] = pay[b] /\ credited'[b] = credited[b]
        \/ /\ b = a /\ pay[a] = "pending" /\ pay'[a] = "completed"
           /\ credited[a] = 0 /\ credited'[a] = 1
  BY ReleaseEffect DEF MarkAppointmentCompleted, MarkAsCompleted, moneyVars
<1>3. \A b \in Appointment : /\ RefundsOf(b)' = RefundsOf(b)
                             /\ PendingRefunds(b)' = PendingRefunds(b)
  BY <1>1 DEF RefundsOf, PendingRefunds
<1>4. AbsentHasNothing'
  BY <1>1, <1>2, <1>3 DEF AbsentHasNothing
<1>5. CreditedIsSettled'
  BY <1>2 DEF CreditedIsSettled
<1>6. RefundsNumbered'
  BY <1>1 DEF RefundsNumbered
<1>7. CreditedAtMostOnce'
  <2>1. \A b \in Appointment : credited[b] <= 1
    BY DEF CreditedAtMostOnce
  <2> QED BY ONLY <1>2, <2>1 DEF CreditedAtMostOnce
<1>8. CreditedOnlyAfterEnd'
  BY <1>1, <1>2 DEF CreditedOnlyAfterEnd
<1>9. EscrowOrRefund'
  <2>1. ASSUME NEW b \in Appointment, RefundsOf(b) # {}
        PROVE  credited'[b] = 0 /\ pay'[b] \in {"cancelled", "failed"}
    <3>1. credited[b] = 0 /\ pay[b] \in {"cancelled", "failed"}
      BY <2>1 DEF EscrowOrRefund
    <3> QED BY <1>2, <3>1
  <2> QED BY <1>3, <2>1 DEF EscrowOrRefund
<1>10. ReviewedEscrowIsClosed'
  BY <1>1, <1>2, <1>3 DEF ReviewedEscrowIsClosed
<1>11. DeletedLeavesNothingPending'
  BY <1>1, <1>2, <1>3 DEF DeletedLeavesNothingPending
<1> QED BY <1>4, <1>5, <1>6, <1>7, <1>8, <1>9, <1>10, <1>11

\* A dispute settles one transaction as FAILED, whichever it picks.
LEMMA HandleChargeDisputedKeeps ==
    ASSUME EscrowInv, TypeOK', NEW a \in Appointment, HandleChargeDisputed(a)
    PROVE  EscrowInv'
<1> USE DEF EscrowInv, TypeOK, apptVars, stripeVars, AbsentHasNothing,
            CreditedIsSettled, CreditedAtMostOnce, CreditedOnlyAfterEnd,
            EscrowOrRefund, ReviewedEscrowIsClosed, DeletedLeavesNothingPending,
            RefundsOf, PendingRefunds, HandleChargeDisputed
<1>1. /\ UNCHANGED <<apptVars, credited, nRefunds, refundOf, stripeVars>>
      /\ \A b \in Appointment :
            pay'[b] = pay[b] \/ (pay[b] = "pending" /\ pay'[b] = "failed")
      /\ \A i \in RefundId :
            \/ refundTx'[i] = refundTx[i]
            \/ refundTx[i] = "pending" /\ refundTx'[i] = "failed"
  BY DEF IsNewest
<1>2. RefundsNumbered'
  BY <1>1 DEF RefundsNumbered
<1> QED BY <1>1, <1>2

\* The task either deletes the row with its pending transactions or leaves
\* everything but itself alone.
LEMMA DeleteUnpaidAppointmentKeeps ==
    ASSUME EscrowInv, TypeOK', NEW a \in Appointment, DeleteUnpaidAppointment(a)
    PROVE  EscrowInv'
<1> USE DEF EscrowInv, TypeOK, stripeVars, AbsentHasNothing,
            CreditedIsSettled, RefundsNumbered, CreditedAtMostOnce,
            CreditedOnlyAfterEnd, EscrowOrRefund, ReviewedEscrowIsClosed,
            DeletedLeavesNothingPending, RefundsOf, PendingRefunds,
            DeleteUnpaidAppointment
<1>1. CASE status[a] = "pending" /\ DeleteRow(a, pay[a])
  BY <1>1 DEF DeleteRow
<1>2. CASE UNCHANGED <<status, pay, refundTx>>
  BY <1>2
<1> QED BY <1>1, <1>2

\* A failed refund goes back to review; Stripe only fails refunds of REFUND
\* transactions that exist, whose escrow is therefore closed.
LEMMA HandleRefundFailedKeeps ==
    ASSUME EscrowInv, TypeOK', NEW i \in RefundId, HandleRefundFailed(i)
    PROVE  EscrowInv'
<1> USE DEF EscrowInv, TypeOK, moneyVars, stripeVars, RefundsOf, HandleRefundFailed
<1>1. i <= nRefunds /\ refundOf[i] \in Appointment
  BY DEF RefundsNumbered, RefundEvent
<1>2. RefundsNumbered'
  BY <1>1 DEF RefundsNumbered
<1>3. ReviewedEscrowIsClosed'
  <2>1. i \in RefundsOf(refundOf[i])
    BY <1>1 DEF RefundId
  <2> QED BY <1>1, <2>1 DEF ReviewedEscrowIsClosed, EscrowOrRefund
<1>4. DeletedLeavesNothingPending'
  BY DEF DeletedLeavesNothingPending, PendingRefunds
<1>5. AbsentHasNothing' /\ EscrowOrRefund'
  BY <1>1 DEF AbsentHasNothing, EscrowOrRefund, Exists
<1> QED BY <1>2, <1>3, <1>4, <1>5
        DEF CreditedIsSettled, CreditedAtMostOnce, CreditedOnlyAfterEnd

-----------------------------------------------------------------------------
(* The inductive invariant: every step.                                    *)

\* Before the first booking there is no money and no refund.
LEMMA EscrowInvInit == Init => EscrowInv
BY TypeOKInit, MaxRefundsAssumption
DEF Init, EscrowInv, RefundId, AbsentHasNothing, CreditedIsSettled,
    RefundsNumbered, CreditedAtMostOnce, CreditedOnlyAfterEnd, EscrowOrRefund,
    ReviewedEscrowIsClosed, DeletedLeavesNothingPending, RefundsOf,
    PendingRefunds

\* Every handler, webhook and task preserves the inductive invariant.
LEMMA EscrowInvStep == EscrowInv /\ [Next]_vars => EscrowInv'
<1> SUFFICES ASSUME EscrowInv, [Next]_vars PROVE EscrowInv'
  OBVIOUS
<1>1. TypeOK'
  BY TypeOKStep DEF EscrowInv
<1> USE DEF EscrowInv, TypeOK, RefundId, vars, apptVars, moneyVars, refundVars,
            stripeVars, AbsentHasNothing, CreditedIsSettled, RefundsNumbered,
            CreditedAtMostOnce, CreditedOnlyAfterEnd, EscrowOrRefund,
            ReviewedEscrowIsClosed, DeletedLeavesNothingPending, RefundsOf,
            PendingRefunds
<1>2. ASSUME NEW a \in Appointment, RequestStep(a) PROVE EscrowInv'
  <2> USE DEF CanBeModified, Active
  <2>1. CASE BookPaid(a)
    BY <1>1, <2>1 DEF BookPaid
  <2>2. CASE BookPhysical(a)
    BY <1>1, <2>2 DEF BookPhysical
  <2>3. CASE Reschedule(a)
    BY <1>1, <2>3 DEF Reschedule
  <2>4. CASE CancelPhysical(a)
    BY <1>1, <2>4 DEF CancelPhysical
  <2>5. CASE CancelWithoutRefund(a)
    BY <1>1, <2>5 DEF CancelWithoutRefund
  <2>6. CASE CancelTooLate(a)
    BY <1>1, <2>6 DEF CancelTooLate
  <2> QED BY <1>1, <1>2, <2>1, <2>2, <2>3, <2>4, <2>5, <2>6,
             CancelWithRefundKeeps, CompletionKeeps DEF RequestStep
<1>3. ASSUME NEW a \in Appointment, AdminStep(a) PROVE EscrowInv'
  <2> USE DEF MakeStripeRefund, Send, IsNewest, Exists, Active, RefundEvent
  <2>1. CASE MarkAsNoShow(a)
    BY <1>1, <2>1 DEF MarkAsNoShow
  <2>2. CASE ApproveRefund(a)
    BY <1>1, <2>2 DEF ApproveRefund
  <2>3. CASE ApproveRefundAnswerLost(a)
    BY <1>1, <2>3 DEF ApproveRefundAnswerLost
  <2>4. CASE ApproveRefundAgain(a)
    BY <1>1, <2>4 DEF ApproveRefundAgain
  <2>5. CASE ApproveRefundNothingPending(a)
    BY <1>1, <2>5 DEF ApproveRefundNothingPending
  <2>6. CASE RejectRefund(a)
    <3>1. UNCHANGED moneyVars
      BY <2>6 DEF RejectRefund, Release
    <3> QED BY <1>1, <2>6, <3>1 DEF RejectRefund
  <2> QED BY <1>3, <2>1, <2>2, <2>3, <2>4, <2>5, <2>6 DEF AdminStep
<1>4. ASSUME NEW a \in Appointment, WebhookStep(a) PROVE EscrowInv'
  <2> USE DEF DeleteRow, Exists
  <2>1. CASE HandlePaymentSucceeded(a)
    BY <1>1, <2>1 DEF HandlePaymentSucceeded
  <2>2. CASE HandlePaymentFailed(a)
    BY <1>1, <2>2 DEF HandlePaymentFailed
  <2>3. CASE HandlePaymentCanceled(a)
    BY <1>1, <2>3 DEF HandlePaymentCanceled
  <2> QED BY <1>1, <1>4, <2>1, <2>2, <2>3, HandleChargeDisputedKeeps
          DEF WebhookStep
<1>5. ASSUME NEW a \in Appointment, DeleteUnpaidAppointment(a) PROVE EscrowInv'
  BY <1>1, <1>5, DeleteUnpaidAppointmentKeeps
<1>6. ASSUME NEW a \in Appointment, TimePasses(a) \/ LowerThreshold(a)
      PROVE  EscrowInv'
  <2>1. CASE TimePasses(a)
    BY <1>1, <2>1 DEF TimePasses, Exists
  <2>2. CASE LowerThreshold(a)
    BY <1>1, <2>2 DEF LowerThreshold, Exists
  <2> QED BY <1>6, <2>1, <2>2
<1>7. ASSUME NEW a \in Appointment, StripeStep(a) PROVE EscrowInv'
  <2> USE DEF Send, RefundEvent
  <2>1. CASE StripeCharges(a)
    BY <1>1, <2>1 DEF StripeCharges
  <2>2. CASE StripeDeclines(a)
    BY <1>1, <2>2 DEF StripeDeclines
  <2>3. CASE StripeCancels(a)
    BY <1>1, <2>3 DEF StripeCancels
  <2>4. CASE StripeOpensDispute(a)
    BY <1>1, <2>4 DEF StripeOpensDispute
  <2> QED BY <1>7, <2>1, <2>2, <2>3, <2>4 DEF StripeStep
<1>8. ASSUME NEW i \in RefundId, RefundWebhookStep(i) PROVE EscrowInv'
  <2>1. CASE HandleRefundCreated(i)
    BY <1>1, <2>1 DEF HandleRefundCreated, RefundEvent
  <2> QED BY <1>1, <1>8, <2>1, HandleRefundFailedKeeps DEF RefundWebhookStep
<1>9. ASSUME NEW i \in RefundId, StripeFailsRefund(i) PROVE EscrowInv'
  BY <1>1, <1>9 DEF StripeFailsRefund, Send, RefundEvent
<1>10. CASE UNCHANGED vars
  BY <1>10
<1> QED BY <1>2, <1>3, <1>4, <1>5, <1>6, <1>7, <1>8, <1>9, <1>10 DEF Next

-----------------------------------------------------------------------------
(* The theorems.                                                           *)

\* The inductive invariant holds in every reachable state, whatever the
\* number of appointments and of refunds.
THEOREM EscrowInvariant == Spec => []EscrowInv
BY EscrowInvInit, EscrowInvStep, PTL DEF Spec

\* A lawyer is paid at most once for an appointment, whatever the order of
\* completions, rejections and repeated webhooks.
THEOREM PaidOnce == Spec => []CreditedAtMostOnce
<1>1. EscrowInv => CreditedAtMostOnce
  BY DEF EscrowInv
<1> QED BY <1>1, EscrowInvariant, PTL

\* No order of reschedules, threshold changes and late webhooks pays a lawyer
\* before the end of the appointment.
THEOREM PaidAfterEnd == Spec => []CreditedOnlyAfterEnd
<1>1. EscrowInv => CreditedOnlyAfterEnd
  BY DEF EscrowInv
<1> QED BY <1>1, EscrowInvariant, PTL

\* The money of an appointment goes to the lawyer or to a refund, never to
\* both: once a REFUND transaction exists the escrow is closed for good.
THEOREM NeverPaidAndRefunded == Spec => []EscrowOrRefund
<1>1. EscrowInv => EscrowOrRefund
  BY DEF EscrowInv
<1> QED BY <1>1, EscrowInvariant, PTL

\* Whenever an admin reviews a refund there is one to review, and the payment
\* it is about cannot be released any more.
THEOREM ReviewFollowsClosing == Spec => []ReviewedEscrowIsClosed
<1>1. EscrowInv => ReviewedEscrowIsClosed
  BY DEF EscrowInv
<1> QED BY <1>1, EscrowInvariant, PTL

\* The deletion of an appointment, by the task or by a webhook, leaves no
\* transaction of it pending.
THEOREM DeletionSettles == Spec => []DeletedLeavesNothingPending
<1>1. EscrowInv => DeletedLeavesNothingPending
  BY DEF EscrowInv
<1> QED BY <1>1, EscrowInvariant, PTL

\* After a dispute the payment cannot be released, although the handler
\* fails whichever pending transaction is the newest: a pending refund and a
\* pending payment never coexist.
THEOREM DisputeFreezes == Spec => DisputeFreezesEscrow
<1>1. ASSUME EscrowInv, NEW a \in Appointment, HandleChargeDisputed(a)
      PROVE  pay'[a] # "pending"
  <2>1. CASE PendingRefunds(a) # {}
    <3>1. TypeOK /\ RefundsNumbered /\ EscrowOrRefund
      BY <1>1 DEF EscrowInv
    <3>2. PICK i \in RefundId : refundOf[i] = a /\ refundTx[i] = "pending"
      BY <2>1 DEF PendingRefunds
    <3>3. i \in RefundsOf(a)
      BY <3>1, <3>2 DEF TypeOK, RefundsNumbered, RefundsOf, RefundId
    <3>4. pay[a] # "pending"
      BY <3>1, <3>3 DEF EscrowOrRefund
    <3> QED BY <1>1, <3>1, <3>4 DEF HandleChargeDisputed, TypeOK
  <2>2. CASE PendingRefunds(a) = {}
    BY <1>1, <2>2 DEF HandleChargeDisputed, IsNewest, EscrowInv, TypeOK
  <2> QED BY <2>1, <2>2
<1>2. EscrowInv =>
        [\A a \in Appointment : HandleChargeDisputed(a) => pay'[a] # "pending"]_vars
  BY <1>1
<1> QED BY <1>2, EscrowInvariant, PTL DEF DisputeFreezesEscrow

-----------------------------------------------------------------------------
(* The settlement.                                                         *)

\* A video or audio booking has its payment from the first moment on, nothing
\* else has one, and Stripe only knows of payments that exist.
BookedHasPayment ==
    \A a \in Appointment :
        /\ pay[a] = "none" <=> (a \notin Paid \/ status[a] = "absent")
        /\ pay[a] = "none" =>
              intent[a] = "none" /\ \A k \in PaymentEvent : <<k, a>> \notin sent

\* A release changes a payment that was made into one that was made.
LEMMA ReleaseNames ==
    ASSUME TypeOK, NEW a \in Appointment, Release(a)
    PROVE  \A b \in Appointment : (pay'[b] = "none") <=> (pay[b] = "none")
BY DEF Release, TypeOK, moneyVars

\* A payment comes with the booking and stays; Stripe's intents and events
\* come after it.
LEMMA BookedHasPaymentStep ==
    ASSUME TypeOK, BookedHasPayment, [Next]_vars
    PROVE  BookedHasPayment'
<1>0. /\ status \in [Appointment -> Status] /\ pay \in [Appointment -> TxStatus]
      /\ intent \in [Appointment -> {"none", "open", "succeeded", "canceled"}]
  BY DEF TypeOK
<1> USE <1>0, PaidAssumption DEF BookedHasPayment, PaymentEvent,
        RefundEvent, Exists, Send, vars, apptVars, moneyVars, refundVars, stripeVars
<1>1. ASSUME NEW a \in Appointment, RequestStep(a) PROVE BookedHasPayment'
  <2> USE DEF CanBeModified, Active
  <2>1. CASE BookPaid(a)
    BY <2>1 DEF BookPaid
  <2>2. CASE BookPhysical(a)
    BY <2>2 DEF BookPhysical
  <2>3. CASE Reschedule(a) \/ CancelPhysical(a) \/ CancelWithoutRefund(a)
    <3>1. /\ status[a] # "absent" /\ UNCHANGED <<pay, stripeVars>>
          /\ \E s \in {"confirmed", "cancelled"} : status' = [status EXCEPT ![a] = s]
      BY <2>3 DEF Reschedule, CancelPhysical, CancelWithoutRefund
    <3> QED BY <3>1
  <2>4. CASE CancelWithRefund(a)
    <3>1. /\ a \in Paid /\ status[a] # "absent" /\ UNCHANGED stripeVars
          /\ status' = [status EXCEPT ![a] = "cancelled"]
          /\ pay' = [pay EXCEPT ![a] = "cancelled"]
      BY <2>4 DEF CancelWithRefund
    <3> QED BY <3>1
  <2>5. CASE CancelTooLate(a)
    BY <2>5 DEF CancelTooLate
  <2>6. CASE MarkAppointmentCompleted(a) \/ MarkAsCompleted(a)
    <3>1. /\ \A b \in Appointment : (pay'[b] = "none") <=> (pay[b] = "none")
          /\ status[a] = "confirmed" /\ status' = [status EXCEPT ![a] = "completed"]
          /\ UNCHANGED stripeVars
      BY <2>6, ReleaseNames DEF MarkAppointmentCompleted, MarkAsCompleted, CanBeCompleted
    <3> QED BY <3>1
  <2> QED BY <1>1, <2>1, <2>2, <2>3, <2>4, <2>5, <2>6 DEF RequestStep
<1>2. ASSUME NEW a \in Appointment, AdminStep(a) PROVE BookedHasPayment'
  <2>1. CASE RejectRefund(a)
    <3>1. /\ \A b \in Appointment : (pay'[b] = "none") <=> (pay[b] = "none")
          /\ UNCHANGED <<status, stripeVars>>
      BY <2>1, ReleaseNames DEF RejectRefund
    <3> QED BY <3>1
  <2>2. CASE ApproveRefund(a) \/ ApproveRefundAnswerLost(a)
    <3>1. PICK i \in RefundId : sent' = sent \cup {<<"refund.created", i>>}
      BY <2>2 DEF ApproveRefund, ApproveRefundAnswerLost, MakeStripeRefund
    <3>2. UNCHANGED <<status, pay, intent>>
      BY <2>2 DEF ApproveRefund, ApproveRefundAnswerLost, MakeStripeRefund
    <3> QED BY <3>1, <3>2
  <2>3. CASE \/ MarkAsNoShow(a) \/ ApproveRefundAgain(a)
             \/ ApproveRefundNothingPending(a)
    BY <2>3 DEF MarkAsNoShow, Active, ApproveRefundAgain, ApproveRefundNothingPending
  <2> QED BY <1>2, <2>1, <2>2, <2>3 DEF AdminStep
<1>3. ASSUME NEW a \in Appointment, WebhookStep(a) PROVE BookedHasPayment'
  <2>1. CASE HandlePaymentSucceeded(a)
    BY <2>1 DEF HandlePaymentSucceeded
  <2>2. CASE HandlePaymentFailed(a) \/ HandlePaymentCanceled(a)
    <3>1. pay[a] # "none"
      BY <2>2 DEF HandlePaymentFailed, HandlePaymentCanceled
    <3>2. \E q \in {"failed", "cancelled"} :
            pay' = [pay EXCEPT ![a] = q] /\ status' = [status EXCEPT ![a] = "deleted"]
      BY <2>2 DEF HandlePaymentFailed, HandlePaymentCanceled, DeleteRow
    <3>3. UNCHANGED stripeVars
      BY <2>2 DEF HandlePaymentFailed, HandlePaymentCanceled
    <3> QED BY <3>1, <3>2, <3>3
  <2>3. CASE HandleChargeDisputed(a)
    BY <2>3 DEF HandleChargeDisputed
  <2> QED BY <1>3, <2>1, <2>2, <2>3 DEF WebhookStep
<1>4. ASSUME NEW a \in Appointment, DeleteUnpaidAppointment(a) PROVE BookedHasPayment'
  <2>1. CASE status[a] = "pending" /\ DeleteRow(a, pay[a])
    BY <1>4, <2>1 DEF DeleteUnpaidAppointment, DeleteRow
  <2>2. CASE UNCHANGED <<status, pay, refundTx>>
    BY <1>4, <2>2 DEF DeleteUnpaidAppointment
  <2> QED BY <1>4, <2>1, <2>2 DEF DeleteUnpaidAppointment
<1>5. ASSUME NEW a \in Appointment, TimePasses(a) \/ LowerThreshold(a)
      PROVE  BookedHasPayment'
  BY <1>5 DEF TimePasses, LowerThreshold
<1>6. ASSUME NEW a \in Appointment, StripeStep(a) PROVE BookedHasPayment'
  <2>1. UNCHANGED <<status, pay>>
    BY <1>6 DEF StripeStep, StripeCharges, StripeDeclines, StripeCancels,
       StripeOpensDispute
  <2>2. pay[a] # "none"
    BY <1>6 DEF StripeStep, StripeCharges, StripeDeclines, StripeCancels,
       StripeOpensDispute
  <2>3. \A b \in Appointment : b # a => intent'[b] = intent[b]
    BY <1>6 DEF StripeStep, StripeCharges, StripeDeclines, StripeCancels,
       StripeOpensDispute
  <2>4. \E k \in PaymentEvent : sent' = sent \cup {<<k, a>>}
    BY <1>6 DEF StripeStep, StripeCharges, StripeDeclines, StripeCancels,
       StripeOpensDispute
  <2> QED BY <2>1, <2>2, <2>3, <2>4
<1>7. ASSUME NEW i \in RefundId, RefundWebhookStep(i) \/ StripeFailsRefund(i)
      PROVE  BookedHasPayment'
  <2>1. UNCHANGED <<status, pay, intent>>
    BY <1>7 DEF RefundWebhookStep, HandleRefundCreated, HandleRefundFailed,
       StripeFailsRefund
  <2>2. \A k \in PaymentEvent, b \in Appointment : <<k, b>> \in sent' => <<k, b>> \in sent
    BY <1>7 DEF RefundWebhookStep, HandleRefundCreated, HandleRefundFailed,
       StripeFailsRefund
  <2> QED BY <2>1, <2>2
<1>8. CASE UNCHANGED vars
  BY <1>8
<1> HIDE DEF BookedHasPayment, vars
<1> QED BY <1>1, <1>2, <1>3, <1>4, <1>5, <1>6, <1>7, <1>8 DEF Next

\* What a step of the settlement leaves alone, and what it changes.
settlement == <<[a \in Appointment |-> EscrowOf(a)], credited,
                [a \in Appointment |-> RefundFor(a)]>>

\* The settlement depends on the payments, the credits and Stripe's refunds
\* alone: most handlers do not touch them.
LEMMA SettlementStays ==
    ASSUME UNCHANGED <<pay, credited, nRefunds, refundOf, stripeRefund>>
    PROVE  UNCHANGED settlement
BY DEF settlement, EscrowOf, RefundFor, RefundsOf

\* The booking of a video or audio appointment holds its money.
LEMMA BookingHolds ==
    ASSUME EscrowInv, NEW a \in Appointment, BookPaid(a), BookedHasPayment
    PROVE  S!HoldEscrow(a)
<1>1. TypeOK /\ AbsentHasNothing
  BY DEF EscrowInv
<1>2. credited[a] = 0 /\ pay[a] = "none" /\ pay' = [pay EXCEPT ![a] = "pending"]
  BY <1>1 DEF AbsentHasNothing, BookedHasPayment, BookPaid
<1>3. UNCHANGED <<credited, nRefunds, refundOf, stripeRefund>>
  BY DEF BookPaid, refundVars
<1>4. EscrowOf(a) = "none"
  BY <1>1, <1>2 DEF EscrowOf
<1>5. \A b \in Appointment : EscrowOf(b)' = IF b = a THEN "held" ELSE EscrowOf(b)
  BY <1>1, <1>2, <1>3 DEF EscrowOf, TypeOK
<1>6. \A b \in Appointment : RefundFor(b)' = RefundFor(b)
  BY <1>3 DEF RefundFor, RefundsOf
<1> QED BY <1>3, <1>4, <1>5, <1>6 DEF S!HoldEscrow

\* A release finds the payment pending or does nothing; with a REFUND
\* transaction the payment would not be pending.
LEMMA ReleaseReleases ==
    ASSUME EscrowInv, NEW a \in Appointment, Release(a),
           UNCHANGED <<nRefunds, refundOf, stripeRefund>>
    PROVE  S!ReleaseEscrow(a) \/ UNCHANGED settlement
<1>1. CASE pay[a] = "pending"
  <2>1. TypeOK /\ EscrowOrRefund /\ CreditedIsSettled
    BY DEF EscrowInv
  <2>2. credited[a] = 0 /\ RefundsOf(a) = {}
    BY <1>1, <2>1 DEF TypeOK, EscrowOrRefund, CreditedIsSettled
  <2>3. /\ pay' = [pay EXCEPT ![a] = "completed"]
        /\ credited' = [credited EXCEPT ![a] = 1]
    BY <1>1, <2>1, <2>2 DEF Release, TypeOK, moneyVars
  <2>4. EscrowOf(a) = "held" /\ RefundFor(a) = "none"
    BY <1>1, <2>2 DEF EscrowOf, RefundFor
  <2>5. \A b \in Appointment :
          EscrowOf(b)' = IF b = a THEN "released" ELSE EscrowOf(b)
    BY <2>1, <2>3 DEF EscrowOf, TypeOK
  <2>6. \A b \in Appointment : RefundFor(b)' = RefundFor(b)
    BY DEF RefundFor, RefundsOf
  <2> QED BY <2>3, <2>4, <2>5, <2>6 DEF S!ReleaseEscrow
<1>2. CASE pay[a] # "pending"
  BY <1>2, SettlementStays DEF Release, moneyVars
<1> QED BY <1>1, <1>2

\* A payment that is marked failed or cancelled closes the escrow, unless it
\* was closed or released before.
LEMMA MarkingCloses ==
    ASSUME TypeOK, NEW a \in Appointment, NEW q \in {"failed", "cancelled"},
           pay[a] # "none", pay' = [pay EXCEPT ![a] = q],
           UNCHANGED <<credited, nRefunds, refundOf, stripeRefund>>
    PROVE  S!CloseEscrow(a) \/ UNCHANGED settlement
<1>1. \A b \in Appointment : RefundFor(b)' = RefundFor(b)
  BY DEF RefundFor, RefundsOf
<1>2. CASE credited[a] = 0 /\ pay[a] = "pending"
  <2>1. EscrowOf(a) = "held"
    BY <1>2 DEF EscrowOf
  <2>2. \A b \in Appointment : EscrowOf(b)' = IF b = a THEN "closed" ELSE EscrowOf(b)
    BY <1>2 DEF EscrowOf, TypeOK
  <2> QED BY <1>1, <2>1, <2>2 DEF S!CloseEscrow
<1>3. CASE ~(credited[a] = 0 /\ pay[a] = "pending")
  <2>1. \A b \in Appointment : EscrowOf(b)' = EscrowOf(b)
    BY <1>3 DEF EscrowOf, TypeOK
  <2> QED BY <1>1, <2>1 DEF settlement
<1> QED BY <1>2, <1>3

\* A cancellation in time with a refund closes the escrow and asks.
LEMMA CancellationAsks ==
    ASSUME EscrowInv, BookedHasPayment, NEW a \in Appointment, CancelWithRefund(a)
    PROVE  S!AskRefund(a)
<1> DEFINE n == nRefunds + 1
<1>1. TypeOK /\ RefundsNumbered /\ CreditedOnlyAfterEnd /\ nRefunds \in Nat
  BY MaxRefundsAssumption DEF EscrowInv, TypeOK
<1>2. credited[a] = 0 /\ pay[a] # "none"
  BY <1>1 DEF TypeOK, CreditedOnlyAfterEnd, CancelWithRefund, CanBeModified, Active,
              BookedHasPayment
<1>3. /\ pay' = [pay EXCEPT ![a] = "cancelled"] /\ UNCHANGED <<credited, stripeRefund>>
      /\ nRefunds' = n /\ refundOf' = [refundOf EXCEPT ![n] = a]
  BY DEF CancelWithRefund, stripeVars
<1>4. n \in RefundId /\ stripeRefund[n] = "none"
  BY <1>1, MaxRefundsAssumption DEF RefundId, RefundsNumbered, CancelWithRefund
<1>5. \A b \in Appointment :
        RefundsOf(b)' = IF b = a THEN RefundsOf(b) \cup {n} ELSE RefundsOf(b)
  BY <1>1, <1>3, <1>4, MaxRefundsAssumption DEF RefundsOf, TypeOK, RefundId
<1>6. EscrowOf(a) \in {"held", "closed"}
  BY <1>2 DEF EscrowOf
<1>7. \A b \in Appointment : EscrowOf(b)' = IF b = a THEN "closed" ELSE EscrowOf(b)
  BY <1>1, <1>2, <1>3 DEF EscrowOf, TypeOK
<1>8. RefundFor(a)' = IF RefundFor(a) = "none" THEN "asked" ELSE RefundFor(a)
  BY <1>3, <1>4, <1>5 DEF RefundFor
<1>9. \A b \in Appointment : b # a => RefundFor(b)' = RefundFor(b)
  BY <1>3, <1>5 DEF RefundFor
<1>10. UNCHANGED credited
  BY <1>3
<1> QED BY <1>6, <1>7, <1>8, <1>9, <1>10 DEF S!AskRefund

\* Stripe pays back what was kept from the lawyer, once.
LEMMA ApprovalPaysBack ==
    ASSUME EscrowInv, NEW a \in Appointment, Refundable(a),
           NEW i \in RefundId, i \in PendingRefunds(a), MakeStripeRefund(i),
           UNCHANGED <<pay, credited, nRefunds, refundOf>>
    PROVE  S!PayBack(a)
<1>1. TypeOK /\ RefundsNumbered /\ EscrowOrRefund
  BY DEF EscrowInv
<1>2. i \in RefundsOf(a)
  BY <1>1, MaxRefundsAssumption
  DEF TypeOK, RefundsNumbered, RefundsOf, RefundId, PendingRefunds
<1>3. EscrowOf(a) = "closed"
  BY <1>1, <1>2 DEF EscrowOrRefund, EscrowOf
<1>4. RefundFor(a) = "asked"
  <2>1. \A j \in RefundsOf(a) : j \in RefundId /\ refundOf[j] = a
    BY <1>1, MaxRefundsAssumption DEF RefundsOf, RefundId, TypeOK
  <2> QED BY <1>2, <2>1 DEF Refundable, RefundFor
<1>5. stripeRefund' = [stripeRefund EXCEPT ![i] = "created"]
  BY DEF MakeStripeRefund
<1>6. \A b \in Appointment : RefundFor(b)' = IF b = a THEN "made" ELSE RefundFor(b)
  <2>1. \A b \in Appointment : RefundsOf(b)' = RefundsOf(b)
    BY DEF RefundsOf
  <2>2. RefundFor(a)' = "made"
    BY <1>1, <1>2, <1>5, <2>1 DEF RefundFor, TypeOK
  <2>3. ASSUME NEW b \in Appointment, b # a PROVE RefundFor(b)' = RefundFor(b)
    <3>1. i \notin RefundsOf(b)
      BY <1>2, <2>3 DEF RefundsOf
    <3>2. \A j \in RefundsOf(b) : stripeRefund'[j] = stripeRefund[j]
      BY <1>1, <1>5, <3>1 DEF RefundsOf, TypeOK
    <3> QED BY <2>1, <3>2 DEF RefundFor
  <2> QED BY <2>2, <2>3
<1>7. \A b \in Appointment : EscrowOf(b)' = EscrowOf(b)
  BY DEF EscrowOf
<1> QED BY <1>3, <1>4, <1>6, <1>7 DEF S!PayBack

\* Stripe fails a refund that it had made, which was the client's only one
\* or was not.
LEMMA FailureAsksAgain ==
    ASSUME EscrowInv, NEW i \in RefundId, StripeFailsRefund(i)
    PROVE  S!RefundFails(refundOf[i]) \/ UNCHANGED settlement
<1>1. TypeOK /\ RefundsNumbered
  BY DEF EscrowInv
<1>2. PICK a \in Appointment : a = refundOf[i] /\ i \in RefundsOf(a)
  BY <1>1, MaxRefundsAssumption
  DEF StripeFailsRefund, TypeOK, RefundsNumbered, RefundsOf, RefundId
<1>3. /\ stripeRefund[i] = "created"
      /\ stripeRefund' = [stripeRefund EXCEPT ![i] = "failed"]
      /\ UNCHANGED <<pay, credited, nRefunds, refundOf>>
  BY DEF StripeFailsRefund, moneyVars, refundVars
<1>4. \A b \in Appointment : EscrowOf(b)' = EscrowOf(b) /\ RefundsOf(b)' = RefundsOf(b)
  BY <1>3 DEF EscrowOf, RefundsOf
<1>5. RefundFor(a) = "made" /\ RefundFor(a)' \in {"made", "asked"}
  BY <1>2, <1>3, <1>4 DEF RefundFor
<1>6. ASSUME NEW b \in Appointment, b # a PROVE RefundFor(b)' = RefundFor(b)
  <2>1. \A j \in RefundsOf(b) : stripeRefund'[j] = stripeRefund[j]
    BY <1>1, <1>2, <1>3, <1>6 DEF RefundsOf, TypeOK
  <2> QED BY <1>4, <2>1 DEF RefundFor
<1>7. CASE RefundFor(a)' = "made"
  BY <1>3, <1>4, <1>5, <1>6, <1>7 DEF settlement
<1>8. CASE RefundFor(a)' = "asked"
  <2>1. S!RefundFails(a)
    BY <1>3, <1>4, <1>5, <1>6, <1>8 DEF S!RefundFails
  <2> QED BY <1>2, <2>1
<1> QED BY <1>5, <1>7, <1>8

\* Before the first booking nothing is held, credited or asked for.
LEMMA SettlementStarts == Init => S!SettlementInit /\ BookedHasPayment
BY DEF Init, S!SettlementInit, EscrowOf, RefundFor, RefundsOf, BookedHasPayment

\* Every handler, webhook and task takes one step of the settlement, or none.
LEMMA SettlementStep ==
    ASSUME EscrowInv, BookedHasPayment, [Next]_vars
    PROVE  [S!SettlementNext]_settlement
<1>1. TypeOK
  BY DEF EscrowInv
<1> USE DEF S!SettlementNext, moneyVars, refundVars, stripeVars
<1>2. ASSUME NEW a \in Appointment, RequestStep(a) PROVE [S!SettlementNext]_settlement
  <2>1. CASE BookPaid(a)
    BY <2>1, BookingHolds
  <2>2. CASE BookPhysical(a) \/ Reschedule(a)
    BY <2>2, SettlementStays DEF BookPhysical, Reschedule
  <2>3. CASE CancelPhysical(a) \/ CancelWithoutRefund(a)
    BY <2>3, SettlementStays DEF CancelPhysical, CancelWithoutRefund
  <2>4. CASE CancelWithRefund(a)
    BY <2>4, CancellationAsks
  <2>5. CASE CancelTooLate(a)
    <3>1. pay[a] # "none"
      BY <2>5 DEF CancelTooLate, CanBeModified, Active, BookedHasPayment
    <3> QED BY <1>1, <2>5, <3>1, MarkingCloses DEF CancelTooLate
  <2>6. CASE MarkAppointmentCompleted(a)
    BY <2>6, ReleaseReleases DEF MarkAppointmentCompleted
  <2>7. CASE MarkAsCompleted(a)
    BY <2>7, ReleaseReleases, SettlementStays DEF MarkAsCompleted
  <2> QED BY <1>2, <2>1, <2>2, <2>3, <2>4, <2>5, <2>6, <2>7 DEF RequestStep
<1>3. ASSUME NEW a \in Appointment, AdminStep(a) PROVE [S!SettlementNext]_settlement
  <2>1. CASE MarkAsNoShow(a)
    BY <2>1, SettlementStays DEF MarkAsNoShow
  <2>2. CASE ApproveRefund(a) \/ ApproveRefundAnswerLost(a)
    <3>1. PICK i \in RefundId : i \in PendingRefunds(a) /\ MakeStripeRefund(i)
      BY <2>2 DEF ApproveRefund, ApproveRefundAnswerLost, IsNewest
    <3>2. Refundable(a) /\ UNCHANGED <<pay, credited, nRefunds, refundOf>>
      BY <2>2 DEF ApproveRefund, ApproveRefundAnswerLost
    <3> QED BY <3>1, <3>2, ApprovalPaysBack
  <2>3. CASE ApproveRefundAgain(a) \/ ApproveRefundNothingPending(a)
    BY <2>3, SettlementStays DEF ApproveRefundAgain, ApproveRefundNothingPending
  <2>4. CASE RejectRefund(a)
    BY <2>4, ReleaseReleases DEF RejectRefund
  <2> QED BY <1>3, <2>1, <2>2, <2>3, <2>4 DEF AdminStep
<1>4. ASSUME NEW a \in Appointment, WebhookStep(a) PROVE [S!SettlementNext]_settlement
  <2>1. CASE HandlePaymentSucceeded(a)
    BY <2>1, SettlementStays DEF HandlePaymentSucceeded
  <2>2. CASE HandlePaymentFailed(a) \/ HandlePaymentCanceled(a)
    <3>1. pay[a] # "none"
      BY <2>2 DEF HandlePaymentFailed, HandlePaymentCanceled, BookedHasPayment,
                  PaymentEvent
    <3>2. PICK q \in {"failed", "cancelled"} : pay' = [pay EXCEPT ![a] = q]
      BY <2>2 DEF HandlePaymentFailed, HandlePaymentCanceled, DeleteRow
    <3>3. UNCHANGED <<credited, nRefunds, refundOf, stripeRefund>>
      BY <2>2 DEF HandlePaymentFailed, HandlePaymentCanceled
    <3> QED BY <1>1, <3>1, <3>2, <3>3, MarkingCloses
  <2>3. CASE HandleChargeDisputed(a)
    <3>1. UNCHANGED <<credited, nRefunds, refundOf, stripeRefund>>
      BY <2>3 DEF HandleChargeDisputed
    <3>2. CASE UNCHANGED pay
      BY <3>1, <3>2, SettlementStays
    <3>3. CASE pay[a] = "pending" /\ pay' = [pay EXCEPT ![a] = "failed"]
      BY <1>1, <3>1, <3>3, MarkingCloses
    <3> QED BY <2>3, <3>2, <3>3 DEF HandleChargeDisputed
  <2> QED BY <1>4, <2>1, <2>2, <2>3 DEF WebhookStep
<1>5. ASSUME NEW a \in Appointment, DeleteUnpaidAppointment(a)
      PROVE  [S!SettlementNext]_settlement
  <2>1. UNCHANGED <<credited, nRefunds, refundOf, stripeRefund>>
    BY <1>5 DEF DeleteUnpaidAppointment
  <2>2. CASE pay[a] = "pending" /\ pay' = [pay EXCEPT ![a] = "cancelled"]
    BY <1>1, <2>1, <2>2, MarkingCloses
  <2>3. CASE UNCHANGED pay
    BY <2>1, <2>3, SettlementStays
  <2>4. (pay[a] = "pending" /\ pay' = [pay EXCEPT ![a] = "cancelled"]) \/ UNCHANGED pay
    BY <1>1, <1>5 DEF DeleteUnpaidAppointment, DeleteRow, TypeOK
  <2> QED BY <2>2, <2>3, <2>4
<1>6. ASSUME NEW a \in Appointment, TimePasses(a) \/ LowerThreshold(a)
      PROVE  [S!SettlementNext]_settlement
  BY <1>6, SettlementStays DEF TimePasses, LowerThreshold
<1>7. ASSUME NEW a \in Appointment, StripeStep(a) PROVE [S!SettlementNext]_settlement
  BY <1>7, SettlementStays DEF StripeStep, StripeCharges, StripeDeclines,
     StripeCancels, StripeOpensDispute
<1>8. ASSUME NEW i \in RefundId, RefundWebhookStep(i)
      PROVE  [S!SettlementNext]_settlement
  BY <1>8, SettlementStays DEF RefundWebhookStep, HandleRefundCreated,
     HandleRefundFailed
<1>9. ASSUME NEW i \in RefundId, StripeFailsRefund(i)
      PROVE  [S!SettlementNext]_settlement
  <2>1. CASE UNCHANGED settlement
    BY <2>1
  <2>2. CASE S!RefundFails(refundOf[i])
    <3>1. refundOf[i] \in Appointment
      BY <1>9, MaxRefundsAssumption
      DEF EscrowInv, TypeOK, RefundsNumbered, RefundId, StripeFailsRefund
    <3> QED BY <2>2, <3>1
  <2> QED BY <1>9, <2>1, <2>2, FailureAsksAgain
<1>10. CASE UNCHANGED vars
  BY <1>10, SettlementStays DEF vars
<1> QED BY <1>2, <1>3, <1>4, <1>5, <1>6, <1>7, <1>8, <1>9, <1>10 DEF Next

\* The handlers of an appointment implement its settlement: whatever their
\* order, and however often Stripe repeats its events, the money is held,
\* then released once or kept, and paid back only when it was kept.
THEOREM EscrowImplementsSettlement == Spec => SettlementImplemented
<1> DEFINE Inv == EscrowInv /\ BookedHasPayment
<1>1. Init => Inv /\ S!SettlementInit
  BY EscrowInvInit, SettlementStarts
<1>2. Inv /\ [Next]_vars => Inv'
  BY EscrowInvStep, BookedHasPaymentStep DEF EscrowInv
<1>3. Inv /\ [Next]_vars => [S!SettlementNext]_settlement
  BY SettlementStep
<1> QED BY <1>1, <1>2, <1>3, PTL DEF Spec, SettlementImplemented, S!SettlementSpec, settlement

\* What is decided about an escrow stays decided: released money is not kept
\* afterwards nor released again, kept money is never released, and what was
\* released is never paid back to the client.
DecidedForGood ==
    [][\A a \in Appointment :
          /\ EscrowOf(a) \in {"released", "closed"} => EscrowOf(a)' = EscrowOf(a)
          /\ EscrowOf(a) = "released" =>
                RefundFor(a)' = "none" /\ credited'[a] = credited[a]]_vars

\* The promise of the settlement gives this, without a look at the handlers.
THEOREM EscrowDecidedForGood == Spec => DecidedForGood
<1> DEFINE Typed ==
             /\ credited \in [Appointment -> Nat]
             /\ \A a \in Appointment : EscrowOf(a) = "released" => RefundFor(a) = "none"
           Decided ==
             \A a \in Appointment :
                /\ EscrowOf(a) \in {"released", "closed"} => EscrowOf(a)' = EscrowOf(a)
                /\ EscrowOf(a) = "released" =>
                      RefundFor(a)' = "none" /\ credited'[a] = credited[a]
<1>1. S!SettlementInit => Typed
  BY DEF S!SettlementInit
<1>2. Typed /\ [S!SettlementNext]_settlement => Decided /\ Typed'
  <2> SUFFICES ASSUME Typed, [S!SettlementNext]_settlement PROVE Decided /\ Typed'
    OBVIOUS
  <2>1. CASE UNCHANGED settlement
    <3>1. \A a \in Appointment : /\ EscrowOf(a)' = EscrowOf(a) /\ RefundFor(a)' = RefundFor(a)
                                 /\ credited'[a] = credited[a]
      BY <2>1 DEF settlement
    <3>2. credited' = credited
      BY <2>1 DEF settlement
    <3> QED BY <3>1, <3>2
  <2>2. ASSUME NEW b \in Appointment, S!HoldEscrow(b) PROVE Decided /\ Typed'
    BY <2>2 DEF S!HoldEscrow
  <2>3. ASSUME NEW b \in Appointment, S!ReleaseEscrow(b) PROVE Decided /\ Typed'
    BY <2>3 DEF S!ReleaseEscrow
  <2>4. ASSUME NEW b \in Appointment, S!CloseEscrow(b) PROVE Decided /\ Typed'
    BY <2>4 DEF S!CloseEscrow
  <2>5. ASSUME NEW b \in Appointment, S!AskRefund(b) PROVE Decided /\ Typed'
    BY <2>5 DEF S!AskRefund
  <2>6. ASSUME NEW b \in Appointment, S!PayBack(b) \/ S!RefundFails(b)
        PROVE  Decided /\ Typed'
    BY <2>6 DEF S!PayBack, S!RefundFails
  <2> HIDE DEF Decided, Typed
  <2> QED BY <2>1, <2>2, <2>3, <2>4, <2>5, <2>6 DEF S!SettlementNext
<1>3. Typed /\ [S!SettlementNext]_settlement => [Decided]_vars
  BY <1>2
<1> QED BY <1>1, <1>2, <1>3, EscrowImplementsSettlement, PTL
        DEF SettlementImplemented, S!SettlementSpec, settlement, DecidedForGood

-----------------------------------------------------------------------------
(* What the liveness properties rest on: whoever waits in them waits for a  *)
(* step that can be taken.                                                 *)

\* An unpaid booking has a task that is going to look at it.
PendingHasTask ==
    \A a \in Appointment : status[a] = "pending" => task[a] = "scheduled"

\* A booking becomes pending with its task; the task is only revoked by the
\* handler that confirms the booking, and done when it has deleted it.
LEMMA PendingHasTaskStep ==
    ASSUME TypeOK, PendingHasTask, [Next]_vars
    PROVE  PendingHasTask'
<1> USE DEF TypeOK, PendingHasTask, apptVars, vars
<1>1. ASSUME NEW a \in Appointment, RequestStep(a) PROVE PendingHasTask'
  BY <1>1 DEF RequestStep, BookPaid, BookPhysical, Reschedule, CancelPhysical,
     CancelWithRefund, CancelWithoutRefund, CancelTooLate, MarkAppointmentCompleted,
     MarkAsCompleted
<1>2. ASSUME NEW a \in Appointment, AdminStep(a) PROVE PendingHasTask'
  BY <1>2 DEF AdminStep, MarkAsNoShow, ApproveRefund, ApproveRefundAnswerLost,
     ApproveRefundAgain, ApproveRefundNothingPending, RejectRefund
<1>3. ASSUME NEW a \in Appointment, WebhookStep(a) PROVE PendingHasTask'
  BY <1>3 DEF WebhookStep, HandlePaymentSucceeded, HandlePaymentFailed,
     HandlePaymentCanceled, HandleChargeDisputed, DeleteRow
<1>4. ASSUME NEW a \in Appointment, DeleteUnpaidAppointment(a) PROVE PendingHasTask'
  BY <1>4 DEF DeleteUnpaidAppointment, DeleteRow
<1>5. ASSUME NEW a \in Appointment, TimePasses(a) \/ LowerThreshold(a) \/ StripeStep(a)
      PROVE  PendingHasTask'
  BY <1>5 DEF TimePasses, LowerThreshold, StripeStep, StripeCharges, StripeDeclines,
     StripeCancels, StripeOpensDispute
<1>6. ASSUME NEW i \in RefundId, RefundWebhookStep(i) \/ StripeFailsRefund(i)
      PROVE  PendingHasTask'
  BY <1>6 DEF RefundWebhookStep, HandleRefundCreated, HandleRefundFailed, StripeFailsRefund
<1>7. CASE UNCHANGED vars
  BY <1>7
<1> HIDE DEF TypeOK, PendingHasTask, vars
<1> QED BY <1>1, <1>2, <1>3, <1>4, <1>5, <1>6, <1>7 DEF Next

\* No order of payments, reschedules, webhooks and deletions leaves a booking
\* pending without a task that will still run; and the task, when it runs,
\* ends the wait. This is what PendingIsTemporary needs besides fairness.
THEOREM PendingIsWatched ==
    Spec => []PendingHasTask /\ [][\A a \in Appointment :
                DeleteUnpaidAppointment(a) => status'[a] # "pending"]_vars
<1>1. Init => PendingHasTask
  BY DEF Init, PendingHasTask
<1>2. EscrowInv /\ PendingHasTask /\ [Next]_vars => PendingHasTask'
  BY PendingHasTaskStep DEF EscrowInv
<1>3. EscrowInv => [\A a \in Appointment :
                DeleteUnpaidAppointment(a) => status'[a] # "pending"]_vars
  BY DEF EscrowInv, TypeOK, DeleteUnpaidAppointment, DeleteRow
<1> QED BY <1>1, <1>2, <1>3, EscrowInvariant, PTL DEF Spec

\* Stripe has told of every refund it has made, made them of charges only,
\* and has not made two that both stand for one charge.
StripeInv ==
    /\ \A i \in RefundId : stripeRefund[i] # "none" =>
          <<"refund.created", i>> \in sent /\ intent[refundOf[i]] = "succeeded"
    /\ \A i, j \in RefundId :
          /\ stripeRefund[i] = "created" /\ stripeRefund[j] = "created"
          /\ refundOf[i] = refundOf[j]
          => i = j

\* What Stripe has said or charged stays so, and REFUND transactions keep
\* their appointment; refunds are made by an approval or fail at Stripe.
LEMMA StripeMoves ==
    ASSUME EscrowInv, BookedHasPayment, [Next]_vars
    PROVE  /\ sent \subseteq sent'
           /\ \A a \in Appointment : intent[a] = "succeeded" => intent'[a] = "succeeded"
           /\ \A i \in RefundId : i <= nRefunds => refundOf'[i] = refundOf[i]
           /\ \/ stripeRefund' = stripeRefund
              \/ \E i \in RefundId : StripeFailsRefund(i)
              \/ \E a \in Appointment : \E i \in PendingRefunds(a) :
                    Refundable(a) /\ MakeStripeRefund(i) /\ refundOf' = refundOf
<1> DEFINE Goal ==
      /\ sent \subseteq sent'
      /\ \A a \in Appointment : intent[a] = "succeeded" => intent'[a] = "succeeded"
      /\ \A i \in RefundId : i <= nRefunds => refundOf'[i] = refundOf[i]
      /\ \/ stripeRefund' = stripeRefund
         \/ \E i \in RefundId : StripeFailsRefund(i)
         \/ \E a \in Appointment : \E i \in PendingRefunds(a) :
               Refundable(a) /\ MakeStripeRefund(i) /\ refundOf' = refundOf
<1>1. TypeOK
  BY DEF EscrowInv
<1> USE <1>1, MaxRefundsAssumption DEF TypeOK, RefundId, vars, refundVars, stripeVars
<1>2. ASSUME NEW a \in Appointment, RequestStep(a) PROVE Goal
  <2>1. CASE BookPaid(a)
    BY <2>1 DEF BookPaid, BookedHasPayment
  <2>2. CASE CancelWithRefund(a)
    BY <2>2 DEF CancelWithRefund
  <2>3. CASE ~BookPaid(a) /\ ~CancelWithRefund(a)
    BY <1>2, <2>3 DEF RequestStep, BookPhysical, Reschedule, CancelPhysical,
       CancelWithoutRefund, CancelTooLate, MarkAppointmentCompleted, MarkAsCompleted
  <2> QED BY <2>1, <2>2, <2>3
<1>3. ASSUME NEW a \in Appointment, AdminStep(a) PROVE Goal
  <2>1. CASE ApproveRefund(a) \/ ApproveRefundAnswerLost(a)
    <3>1. PICK i \in PendingRefunds(a) : MakeStripeRefund(i)
      BY <2>1 DEF ApproveRefund, ApproveRefundAnswerLost, IsNewest
    <3>2. Refundable(a) /\ UNCHANGED <<nRefunds, refundOf>>
      BY <2>1 DEF ApproveRefund, ApproveRefundAnswerLost
    <3> QED BY <3>1, <3>2 DEF MakeStripeRefund, Send
  <2>2. CASE \/ MarkAsNoShow(a) \/ ApproveRefundAgain(a)
             \/ ApproveRefundNothingPending(a) \/ RejectRefund(a)
    BY <2>2 DEF MarkAsNoShow, ApproveRefundAgain, ApproveRefundNothingPending, RejectRefund
  <2> QED BY <1>3, <2>1, <2>2 DEF AdminStep
<1>4. ASSUME NEW a \in Appointment, WebhookStep(a) \/ DeleteUnpaidAppointment(a) PROVE Goal
  BY <1>4 DEF WebhookStep, HandlePaymentSucceeded, HandlePaymentFailed,
     HandlePaymentCanceled, HandleChargeDisputed, DeleteUnpaidAppointment
<1>5. ASSUME NEW a \in Appointment, TimePasses(a) \/ LowerThreshold(a) PROVE Goal
  BY <1>5 DEF TimePasses, LowerThreshold
<1>6. ASSUME NEW a \in Appointment, StripeStep(a) PROVE Goal
  BY <1>6 DEF StripeStep, StripeCharges, StripeDeclines, StripeCancels,
     StripeOpensDispute, Send
<1>7. ASSUME NEW i \in RefundId, RefundWebhookStep(i) PROVE Goal
  BY <1>7 DEF RefundWebhookStep, HandleRefundCreated, HandleRefundFailed
<1>8. ASSUME NEW i \in RefundId, StripeFailsRefund(i) PROVE Goal
  BY <1>8 DEF StripeFailsRefund, Send
<1>9. ASSUME UNCHANGED vars PROVE Goal
  BY <1>9
<1> HIDE DEF Goal, TypeOK, RefundId, vars
<1>10. Goal
  BY <1>2, <1>3, <1>4, <1>5, <1>6, <1>7, <1>8, <1>9 DEF Next
<1> QED BY <1>10 DEF Goal

\* An approval asks Stripe for a charge of which no refund stands, so it makes
\* the only one.
LEMMA StripeInvStep ==
    ASSUME EscrowInv, BookedHasPayment, StripeInv, [Next]_vars
    PROVE  StripeInv'
<1>1. /\ TypeOK /\ RefundsNumbered
      /\ \A i \in RefundId : stripeRefund[i] # "none" => i <= nRefunds
      /\ \A i \in RefundId : i <= nRefunds => refundOf[i] \in Appointment
  BY DEF EscrowInv, RefundsNumbered
<1>2. /\ sent \subseteq sent'
      /\ \A a \in Appointment : intent[a] = "succeeded" => intent'[a] = "succeeded"
      /\ \A i \in RefundId : i <= nRefunds => refundOf'[i] = refundOf[i]
  BY StripeMoves
<1>3. CASE stripeRefund' = stripeRefund
  BY <1>1, <1>2, <1>3 DEF StripeInv
<1>4. ASSUME NEW k \in RefundId, StripeFailsRefund(k) PROVE StripeInv'
  <2>1. stripeRefund[k] = "created" /\ stripeRefund' = [stripeRefund EXCEPT ![k] = "failed"]
    BY <1>4 DEF StripeFailsRefund
  <2>2. \A i \in RefundId : /\ stripeRefund'[i] # "none" => stripeRefund[i] # "none"
                            /\ stripeRefund'[i] = "created" => stripeRefund[i] = "created"
    BY <1>1, <2>1 DEF TypeOK
  <2> QED BY <1>1, <1>2, <2>2 DEF StripeInv
<1>5. ASSUME NEW a \in Appointment, NEW k \in PendingRefunds(a), Refundable(a),
             MakeStripeRefund(k), refundOf' = refundOf
      PROVE  StripeInv'
  <2>1. /\ k \in RefundId /\ refundOf[k] = a /\ intent[a] = "succeeded"
        /\ \A i \in RefundId : refundOf[i] = a => stripeRefund[i] # "created"
        /\ <<"refund.created", k>> \in sent'
        /\ \A i \in RefundId : i # k => stripeRefund'[i] = stripeRefund[i]
    BY <1>1, <1>5 DEF PendingRefunds, Refundable, MakeStripeRefund, Send, TypeOK
  <2> QED BY <1>1, <1>2, <1>5, <2>1 DEF StripeInv
<1> QED BY <1>3, <1>4, <1>5, StripeMoves

\* A client gets a charge back at most once, and never what the lawyer was
\* paid for: a lost answer, a repeated approval or a second cancellation of a
\* revived appointment makes no second refund that stands.
StripeRefundsOnce ==
    \A i, j \in RefundId :
        stripeRefund[i] = "created" =>
            /\ refundOf[i] \in Appointment
            /\ intent[refundOf[i]] = "succeeded" /\ credited[refundOf[i]] = 0
            /\ stripeRefund[j] = "created" /\ refundOf[j] = refundOf[i] => j = i

\* A refund that Stripe has made can be recorded until the appointment is deleted,
\* whatever became of its transaction: Stripe has sent its event, and the handler
\* finds the appointment.
RefundIsAnnounced ==
    \A i \in RefundId : stripeRefund[i] = "created" =>
        /\ <<"refund.created", i>> \in sent
        /\ Exists(refundOf[i]) \/ status[refundOf[i]] = "deleted"

\* Both follow from what Stripe knows and the inductive invariant.
LEMMA StripeInvImplies ==
    ASSUME EscrowInv, StripeInv
    PROVE  StripeRefundsOnce /\ RefundIsAnnounced
<1>1. /\ TypeOK /\ RefundsNumbered /\ EscrowOrRefund /\ DeletedLeavesNothingPending
      /\ AbsentHasNothing
  BY DEF EscrowInv
<1>2. ASSUME NEW i \in RefundId, stripeRefund[i] = "created"
      PROVE  refundOf[i] \in Appointment /\ i \in RefundsOf(refundOf[i])
  BY <1>1, <1>2, MaxRefundsAssumption DEF TypeOK, RefundsNumbered, RefundsOf, RefundId
<1>3. StripeRefundsOnce
  BY <1>1, <1>2 DEF StripeInv, StripeRefundsOnce, EscrowOrRefund
<1>4. ASSUME NEW i \in RefundId, stripeRefund[i] = "created"
      PROVE  /\ <<"refund.created", i>> \in sent
             /\ Exists(refundOf[i]) \/ status[refundOf[i]] = "deleted"
  BY <1>1, <1>2, <1>4 DEF StripeInv, Exists, AbsentHasNothing
<1> QED BY <1>3, <1>4 DEF RefundIsAnnounced

\* The refunds that Stripe makes, whatever the admins press, and however often.
THEOREM ChargeRefundedOnce == Spec => []StripeRefundsOnce /\ []RefundIsAnnounced
<1> DEFINE Inv == EscrowInv /\ BookedHasPayment /\ StripeInv
<1>1. Init => Inv
  BY EscrowInvInit, SettlementStarts DEF Init, StripeInv
<1>2. Inv /\ [Next]_vars => Inv'
  BY EscrowInvStep, BookedHasPaymentStep, StripeInvStep DEF EscrowInv
<1>3. Inv => StripeRefundsOnce /\ RefundIsAnnounced
  BY StripeInvImplies
<1> QED BY <1>1, <1>2, <1>3, PTL DEF Spec

-----------------------------------------------------------------------------
(* Two statements of the documents that the code breaks: each is broken in  *)
(* one way only.                                                           *)

\* Only a reschedule makes a paid appointment confirmed that was not, besides
\* the event of a payment.
LEMMA WhoConfirms ==
    ASSUME TypeOK, [Next]_vars, NEW a \in Paid, status'[a] = "confirmed",
           status[a] # "confirmed"
    PROVE  Reschedule(a) \/ HandlePaymentSucceeded(a)
<1> DEFINE Goal == Reschedule(a) \/ HandlePaymentSucceeded(a)
<1> USE PaidAssumption DEF TypeOK, apptVars
<1>1. ASSUME NEW b \in Appointment, RequestStep(b) PROVE Goal
  BY <1>1 DEF RequestStep, BookPaid, BookPhysical, Reschedule, CancelPhysical,
     CancelWithRefund, CancelWithoutRefund, CancelTooLate, MarkAppointmentCompleted,
     MarkAsCompleted
<1>2. ASSUME NEW b \in Appointment, AdminStep(b) PROVE Goal
  BY <1>2 DEF AdminStep, MarkAsNoShow, ApproveRefund, ApproveRefundAnswerLost,
     ApproveRefundAgain, ApproveRefundNothingPending, RejectRefund
<1>3. ASSUME NEW b \in Appointment, WebhookStep(b) PROVE Goal
  BY <1>3 DEF WebhookStep, HandlePaymentSucceeded, HandlePaymentFailed,
     HandlePaymentCanceled, HandleChargeDisputed, DeleteRow
<1>4. ASSUME NEW b \in Appointment,
             \/ DeleteUnpaidAppointment(b) \/ TimePasses(b) \/ LowerThreshold(b)
             \/ StripeStep(b)
      PROVE  Goal
  BY <1>4 DEF DeleteUnpaidAppointment, DeleteRow, TimePasses, LowerThreshold, StripeStep,
     StripeCharges, StripeDeclines, StripeCancels, StripeOpensDispute
<1>5. ASSUME NEW i \in RefundId, RefundWebhookStep(i) \/ StripeFailsRefund(i) PROVE Goal
  BY <1>5 DEF RefundWebhookStep, HandleRefundCreated, HandleRefundFailed, StripeFailsRefund
<1>6. ASSUME UNCHANGED vars PROVE Goal
  BY <1>6 DEF vars
<1> HIDE DEF Goal, TypeOK
<1>7. Goal
  BY <1>1, <1>2, <1>3, <1>4, <1>5, <1>6 DEF Next
<1> QED BY <1>7 DEF Goal

\* Only a charge makes Stripe say that a payment succeeded.
LEMMA WhoAnnouncesPayment ==
    ASSUME [Next]_vars, NEW a \in Appointment,
           <<"payment_intent.succeeded", a>> \in sent' \ sent
    PROVE  StripeCharges(a)
<1> DEFINE Goal == StripeCharges(a)
<1> USE DEF Send, stripeVars
<1>1. ASSUME NEW b \in Appointment, RequestStep(b) PROVE Goal
  BY <1>1 DEF RequestStep, BookPaid, BookPhysical, Reschedule, CancelPhysical,
     CancelWithRefund, CancelWithoutRefund, CancelTooLate, MarkAppointmentCompleted,
     MarkAsCompleted
<1>2. ASSUME NEW b \in Appointment, AdminStep(b) PROVE Goal
  BY <1>2 DEF AdminStep, MarkAsNoShow, ApproveRefund, ApproveRefundAnswerLost,
     ApproveRefundAgain, ApproveRefundNothingPending, RejectRefund, MakeStripeRefund
<1>3. ASSUME NEW b \in Appointment,
             \/ WebhookStep(b) \/ DeleteUnpaidAppointment(b) \/ TimePasses(b)
             \/ LowerThreshold(b)
      PROVE  Goal
  BY <1>3 DEF WebhookStep, HandlePaymentSucceeded, HandlePaymentFailed,
     HandlePaymentCanceled, HandleChargeDisputed, DeleteUnpaidAppointment, TimePasses,
     LowerThreshold
<1>4. ASSUME NEW b \in Appointment, StripeStep(b) PROVE Goal
  BY <1>4 DEF StripeStep, StripeCharges, StripeDeclines, StripeCancels, StripeOpensDispute
<1>5. ASSUME NEW i \in RefundId, RefundWebhookStep(i) \/ StripeFailsRefund(i) PROVE Goal
  BY <1>5 DEF RefundWebhookStep, HandleRefundCreated, HandleRefundFailed, StripeFailsRefund
<1>6. ASSUME UNCHANGED vars PROVE Goal
  BY <1>6 DEF vars
<1> HIDE DEF Goal
<1>7. Goal
  BY <1>1, <1>2, <1>3, <1>4, <1>5, <1>6 DEF Next
<1> QED BY <1>7 DEF Goal

\* Only the completion of a confirmed paid appointment credits anything.
LEMMA WhoIsCredited ==
    ASSUME EscrowInv, BookedHasPayment, [Next]_vars, NEW a \in Appointment,
           credited'[a] # credited[a]
    PROVE  a \in Paid /\ status[a] = "confirmed"
<1> USE DEF moneyVars
<1>1. ASSUME NEW b \in Appointment, Release(b)
      PROVE  b = a /\ pay[a] = "pending"
  BY <1>1, ReleaseEffect
<1>2. pay[a] = "pending" => a \in Paid
  BY DEF BookedHasPayment
<1>3. ASSUME NEW b \in Appointment, MarkAppointmentCompleted(b) \/ MarkAsCompleted(b)
      PROVE  a \in Paid /\ status[a] = "confirmed"
  <2>1. Release(b) /\ status[b] = "confirmed"
    BY <1>3 DEF MarkAppointmentCompleted, MarkAsCompleted, CanBeCompleted
  <2> QED BY <1>1, <1>2, <2>1
<1>4. ASSUME NEW b \in Appointment, RejectRefund(b) PROVE FALSE
  <2>1. pay[b] # "pending"
    BY <1>4 DEF EscrowInv, ReviewedEscrowIsClosed, RejectRefund
  <2> QED BY <1>1, <1>4, <2>1 DEF RejectRefund
<1>5. ASSUME NEW b \in Appointment, RequestStep(b) \/ AdminStep(b)
      PROVE  \/ MarkAppointmentCompleted(b) \/ MarkAsCompleted(b) \/ RejectRefund(b)
             \/ credited' = credited
  BY <1>5 DEF RequestStep, BookPaid, BookPhysical, Reschedule, CancelPhysical,
     CancelWithRefund, CancelWithoutRefund, CancelTooLate, AdminStep, MarkAsNoShow,
     ApproveRefund, ApproveRefundAnswerLost, ApproveRefundAgain,
     ApproveRefundNothingPending
<1>6. ASSUME NEW b \in Appointment,
             \/ WebhookStep(b) \/ DeleteUnpaidAppointment(b) \/ TimePasses(b)
             \/ LowerThreshold(b) \/ StripeStep(b)
      PROVE  credited' = credited
  BY <1>6 DEF WebhookStep, HandlePaymentSucceeded, HandlePaymentFailed,
     HandlePaymentCanceled, HandleChargeDisputed, DeleteUnpaidAppointment, TimePasses,
     LowerThreshold, StripeStep, StripeCharges, StripeDeclines, StripeCancels,
     StripeOpensDispute
<1>7. ASSUME NEW i \in RefundId, RefundWebhookStep(i) \/ StripeFailsRefund(i)
      PROVE  credited' = credited
  BY <1>7 DEF RefundWebhookStep, HandleRefundCreated, HandleRefundFailed, StripeFailsRefund
<1>8. ASSUME UNCHANGED vars PROVE credited' = credited
  BY <1>8 DEF vars
<1> QED BY <1>3, <1>4, <1>5, <1>6, <1>7, <1>8 DEF Next

\* As long as nobody reschedules an unpaid booking, who is confirmed has paid.
ChargedInv ==
    /\ \A a \in Paid : status[a] = "confirmed" => intent[a] = "succeeded"
    /\ \A a \in Appointment :
          <<"payment_intent.succeeded", a>> \in sent => intent[a] = "succeeded"
    /\ CreditedOnlyIfCharged

OnlyPaidIsRescheduled == \A a \in Appointment : Reschedule(a) => status[a] = "confirmed"

\* A charge comes before its event, the event before the confirmation, and
\* that before the credit.
LEMMA ChargedInvStep ==
    ASSUME EscrowInv, BookedHasPayment, ChargedInv, OnlyPaidIsRescheduled, [Next]_vars
    PROVE  ChargedInv'
<1>1. TypeOK
  BY DEF EscrowInv
<1>2. \A a \in Appointment : intent[a] = "succeeded" => intent'[a] = "succeeded"
  BY StripeMoves
<1>3. ASSUME NEW a \in Paid, status'[a] = "confirmed" PROVE intent'[a] = "succeeded"
  <2>1. CASE status[a] = "confirmed"
    BY <1>2, <2>1, PaidAssumption DEF ChargedInv
  <2>2. CASE status[a] # "confirmed"
    <3>1. HandlePaymentSucceeded(a)
      BY <1>1, <1>3, <2>2, WhoConfirms, PaidAssumption DEF OnlyPaidIsRescheduled
    <3> QED BY <1>2, <3>1, PaidAssumption DEF HandlePaymentSucceeded, ChargedInv
  <2> QED BY <2>1, <2>2
<1>4. ASSUME NEW a \in Appointment, <<"payment_intent.succeeded", a>> \in sent'
      PROVE  intent'[a] = "succeeded"
  <2>1. CASE <<"payment_intent.succeeded", a>> \in sent
    BY <1>2, <2>1 DEF ChargedInv
  <2>2. CASE StripeCharges(a)
    BY <1>1, <2>2 DEF StripeCharges, TypeOK
  <2> QED BY <1>4, <2>1, <2>2, WhoAnnouncesPayment
<1>5. ASSUME NEW a \in Appointment, credited'[a] > 0 PROVE intent'[a] = "succeeded"
  <2>1. CASE credited'[a] = credited[a]
    BY <1>2, <1>5, <2>1 DEF ChargedInv, CreditedOnlyIfCharged
  <2>2. CASE credited'[a] # credited[a]
    BY <1>2, <2>2, WhoIsCredited DEF ChargedInv
  <2> QED BY <2>1, <2>2
<1> QED BY <1>3, <1>4, <1>5 DEF ChargedInv, CreditedOnlyIfCharged

\* The documents' promise that only charged money reaches the wallet is broken
\* in one way only: by the reschedule of a booking that is not paid, which
\* RescheduleAppointmentView makes CONFIRMED.
THEOREM OnlyRescheduleSkipsCharge ==
    Spec /\ [][OnlyPaidIsRescheduled]_vars => []CreditedOnlyIfCharged
<1> DEFINE Inv == EscrowInv /\ BookedHasPayment /\ ChargedInv
<1>1. Init => Inv
  BY EscrowInvInit, SettlementStarts, PaidAssumption
  DEF Init, ChargedInv, CreditedOnlyIfCharged
<1>2. Inv /\ [Next]_vars /\ [OnlyPaidIsRescheduled]_vars => Inv'
  <2>1. ASSUME Inv, [Next]_vars, OnlyPaidIsRescheduled PROVE Inv'
    BY <2>1, EscrowInvStep, BookedHasPaymentStep, ChargedInvStep DEF EscrowInv
  <2>2. ASSUME Inv, UNCHANGED vars PROVE Inv'
    <3>1. EscrowInv' /\ BookedHasPayment'
      BY <2>2, EscrowInvStep, BookedHasPaymentStep DEF EscrowInv
    <3>2. ChargedInv'
      BY <2>2 DEF ChargedInv, CreditedOnlyIfCharged, vars, apptVars, moneyVars, stripeVars
    <3> QED BY <3>1, <3>2
  <2> QED BY <2>1, <2>2
<1>3. Inv => CreditedOnlyIfCharged
  BY DEF ChargedInv
<1> QED BY <1>1, <1>2, <1>3, PTL DEF Spec

NoUnrefundedCancel == \A a \in Appointment : ~CancelWithoutRefund(a)

\* A step that leaves an appointment cancelled leaves its payment settled.
LEMMA CancelledClosedStep ==
    ASSUME EscrowInv, BookedHasPayment, CancelledEscrowIsClosed, NoUnrefundedCancel,
           [Next]_vars
    PROVE  CancelledEscrowIsClosed'
<1>1. TypeOK
  BY DEF EscrowInv
<1> USE <1>1 DEF CancelledEscrowIsClosed, TypeOK, apptVars, moneyVars
<1>2. ASSUME NEW a \in Appointment, RequestStep(a) PROVE CancelledEscrowIsClosed'
  <2>1. CASE BookPaid(a) \/ BookPhysical(a) \/ Reschedule(a)
    BY <2>1 DEF BookPaid, BookPhysical, Reschedule
  <2>2. CASE CancelPhysical(a)
    BY <2>2 DEF CancelPhysical, BookedHasPayment
  <2>3. CASE CancelWithRefund(a) \/ CancelTooLate(a)
    BY <2>3 DEF CancelWithRefund, CancelTooLate
  <2>4. CASE MarkAppointmentCompleted(a) \/ MarkAsCompleted(a)
    <3>1. status' = [status EXCEPT ![a] = "completed"]
      BY <2>4 DEF MarkAppointmentCompleted, MarkAsCompleted
    <3>2. Release(a) \/ UNCHANGED moneyVars
      BY <2>4 DEF MarkAppointmentCompleted, MarkAsCompleted
    <3>3. \A b \in Appointment : pay'[b] = pay[b] \/ pay'[b] = "completed"
      BY <3>2, ReleaseEffect
    <3> QED BY <3>1, <3>3
  <2>5. ~CancelWithoutRefund(a)
    BY DEF NoUnrefundedCancel
  <2> QED BY <1>2, <2>1, <2>2, <2>3, <2>4, <2>5 DEF RequestStep
<1>3. ASSUME NEW a \in Appointment, AdminStep(a) PROVE CancelledEscrowIsClosed'
  <2>1. CASE RejectRefund(a)
    BY <2>1, ReleaseEffect DEF RejectRefund
  <2>2. CASE \/ MarkAsNoShow(a) \/ ApproveRefund(a) \/ ApproveRefundAnswerLost(a)
             \/ ApproveRefundAgain(a) \/ ApproveRefundNothingPending(a)
    BY <2>2 DEF MarkAsNoShow, ApproveRefund, ApproveRefundAnswerLost, ApproveRefundAgain,
       ApproveRefundNothingPending
  <2> QED BY <1>3, <2>1, <2>2 DEF AdminStep
<1>4. ASSUME NEW a \in Appointment, WebhookStep(a) \/ DeleteUnpaidAppointment(a)
      PROVE  CancelledEscrowIsClosed'
  BY <1>4 DEF WebhookStep, HandlePaymentSucceeded, HandlePaymentFailed,
     HandlePaymentCanceled, HandleChargeDisputed, DeleteUnpaidAppointment, DeleteRow
<1>5. ASSUME NEW a \in Appointment, TimePasses(a) \/ LowerThreshold(a) \/ StripeStep(a)
      PROVE  CancelledEscrowIsClosed'
  BY <1>5 DEF TimePasses, LowerThreshold, StripeStep, StripeCharges, StripeDeclines,
     StripeCancels, StripeOpensDispute
<1>6. ASSUME NEW i \in RefundId, RefundWebhookStep(i) \/ StripeFailsRefund(i)
      PROVE  CancelledEscrowIsClosed'
  BY <1>6 DEF RefundWebhookStep, HandleRefundCreated, HandleRefundFailed, StripeFailsRefund
<1>7. CASE UNCHANGED vars
  BY <1>7 DEF vars
<1> HIDE DEF TypeOK, CancelledEscrowIsClosed
<1> QED BY <1>2, <1>3, <1>4, <1>5, <1>6, <1>7 DEF Next

\* Nor is the payment of a cancelled appointment left in escrow in any other
\* way than by the cancellation that returns from inside its transaction.
THEOREM OnlyRefusedCancelKeepsEscrow ==
    Spec /\ [][NoUnrefundedCancel]_vars => []CancelledEscrowIsClosed
<1> DEFINE Inv == EscrowInv /\ BookedHasPayment /\ CancelledEscrowIsClosed
<1>1. Init => Inv
  BY EscrowInvInit, SettlementStarts DEF Init, CancelledEscrowIsClosed
<1>2. Inv /\ [Next]_vars /\ [NoUnrefundedCancel]_vars => Inv'
  <2>1. ASSUME Inv, [Next]_vars, NoUnrefundedCancel PROVE Inv'
    BY <2>1, EscrowInvStep, BookedHasPaymentStep, CancelledClosedStep DEF EscrowInv
  <2>2. ASSUME Inv, UNCHANGED vars PROVE Inv'
    <3>1. EscrowInv' /\ BookedHasPayment'
      BY <2>2, EscrowInvStep, BookedHasPaymentStep DEF EscrowInv
    <3>2. CancelledEscrowIsClosed'
      BY <2>2 DEF CancelledEscrowIsClosed, vars, apptVars, moneyVars
    <3> QED BY <3>1, <3>2
  <2> QED BY <2>1, <2>2
<1>3. Inv => CancelledEscrowIsClosed
  OBVIOUS
<1> QED BY <1>1, <1>2, <1>3, PTL DEF Spec
=============================================================================
