------------------------------- MODULE Escrow -------------------------------
(***************************************************************************)
(* The life of an appointment and of the money paid for it: the booking,   *)
(* its PAYMENT transaction held in escrow, the REFUND transactions that a  *)
(* cancellation creates, the Celery task that removes unpaid bookings, and *)
(* Stripe, whose webhooks drive most of the transitions.                   *)
(*                                                                         *)
(* Every request handler, webhook handler, admin action and task is one    *)
(* step: this module is about the order of handlers, each run to its end.  *)
(* Webhooks are delivered at least once and in any order, so an event that *)
(* Stripe has sent stays in "sent" and can be handled again at any time.   *)
(*                                                                         *)
(* Time is kept relative to each appointment, as far as the code asks:     *)
(* "open" until the lawyer's modification deadline, "closed" from there to *)
(* the end of the appointment, "ended" afterwards.                         *)
(***************************************************************************)
EXTENDS Naturals

CONSTANTS
    Appointment,  \* appointment ids; a booking uses a fresh one
    Paid,         \* the audio and video appointments; the others are physical
    MaxRefunds    \* bound: REFUND transactions ever created

ASSUME PaidAssumption == Paid \subseteq Appointment
ASSUME MaxRefundsAssumption == MaxRefunds \in Nat

VARIABLES
    status,        \* Appointment.status, or "absent" / "deleted" without a row
    refundStatus,  \* Appointment.refund_status
    window,        \* where now is relative to the appointment's times
    pay,           \* status of the PAYMENT transaction, or "none"
    credited,      \* times lawyer_amount was added to the wallet's balance
    task,          \* delete_unpaid_appointment for this appointment
    intent,        \* Stripe's PaymentIntent
    nRefunds,      \* REFUND transactions created; ids are in creation order
    refundOf,      \* the appointment a REFUND transaction was created for
    refundTx,      \* status of a REFUND transaction, or "none"
    stripeRefund,  \* Stripe's Refund made for a REFUND transaction
    sent           \* webhook events Stripe has sent

apptVars   == <<status, refundStatus, window>>
moneyVars  == <<pay, credited>>
refundVars == <<nRefunds, refundOf, refundTx>>
stripeVars == <<intent, stripeRefund, sent>>
vars == <<apptVars, moneyVars, task, refundVars, stripeVars>>

RefundId == 1..MaxRefunds
Nobody   == "nobody"

Status       == {"absent", "pending", "confirmed", "cancelled", "completed",
                 "no_show", "deleted"}
RefundStatus == {"none", "pending", "approved", "rejected", "not_applicable"}
TxStatus     == {"none", "pending", "completed", "failed", "cancelled"}
PaymentEvent == {"payment_intent.succeeded", "payment_intent.payment_failed",
                 "payment_intent.canceled", "charge.dispute.created"}
RefundEvent  == {"refund.created", "refund.failed"}
Event        == (PaymentEvent \X Appointment) \cup (RefundEvent \X RefundId)

TypeOK ==
    /\ status \in [Appointment -> Status]
    /\ refundStatus \in [Appointment -> RefundStatus]
    /\ window \in [Appointment -> {"open", "closed", "ended"}]
    /\ pay \in [Appointment -> TxStatus]
    /\ credited \in [Appointment -> Nat]
    /\ task \in [Appointment -> {"none", "scheduled", "revoked", "done"}]
    /\ intent \in [Appointment -> {"none", "open", "succeeded", "canceled"}]
    /\ nRefunds \in 0..MaxRefunds
    /\ refundOf \in [RefundId -> Appointment \cup {Nobody}]
    /\ refundTx \in [RefundId -> TxStatus]
    /\ stripeRefund \in [RefundId -> {"none", "created", "failed"}]
    /\ sent \subseteq Event

Init ==
    /\ status = [a \in Appointment |-> "absent"]
    /\ refundStatus = [a \in Appointment |-> "none"]
    /\ window = [a \in Appointment |-> "open"]
    /\ pay = [a \in Appointment |-> "none"]
    /\ credited = [a \in Appointment |-> 0]
    /\ task = [a \in Appointment |-> "none"]
    /\ intent = [a \in Appointment |-> "none"]
    /\ nRefunds = 0
    /\ refundOf = [i \in RefundId |-> Nobody]
    /\ refundTx = [i \in RefundId |-> "none"]
    /\ stripeRefund = [i \in RefundId |-> "none"]
    /\ sent = {}

-----------------------------------------------------------------------------
(* The helpers the handlers share.                                         *)

Exists(a) == status[a] \notin {"absent", "deleted"}

Active(a) == status[a] \in {"pending", "confirmed"}

\* Fault: the modification deadline is not checked.
CanBeModified_AnyTime(a) == Active(a)

\* can_be_cancelled and can_be_rescheduled are the same test.
CanBeModified(a) == Active(a) /\ window[a] = "open"

\* Fault: the end time of the appointment is not checked.
CanBeCompleted_BeforeEnd(a) == status[a] = "confirmed"

\* The completion guard: a confirmed appointment that has ended.
CanBeCompleted(a) == status[a] = "confirmed" /\ window[a] = "ended"

PendingRefunds(a) ==
    {i \in RefundId : refundOf[i] = a /\ refundTx[i] = "pending"}

\* .first() under Meta.ordering = ["-created_at"]: the newest row.
IsNewest(i, S) == i \in S /\ \A j \in S : j <= i

\* Fault: the payment is released whatever its status.
Release_AnyStatus(a) ==
    /\ pay' = [pay EXCEPT ![a] = "completed"]
    /\ credited' = [credited EXCEPT ![a] = @ + 1]

\* Release of the escrow: only a PENDING payment is completed and credited.
Release(a) ==
    \/ /\ pay[a] = "pending"
       /\ pay' = [pay EXCEPT ![a] = "completed"]
       /\ credited' = [credited EXCEPT ![a] = @ + 1]
    \/ pay[a] # "pending" /\ UNCHANGED moneyVars

\* Fault: delete() does not touch the transactions.
DeleteRow_KeepTransactions(a, p) ==
    /\ status' = [status EXCEPT ![a] = "deleted"]
    /\ pay' = [pay EXCEPT ![a] = p]
    /\ UNCHANGED refundTx

\* Appointment.delete(): the row goes and its pending transactions are
\* cancelled; p is the status its payment was given just before.
DeleteRow(a, p) ==
    /\ status' = [status EXCEPT ![a] = "deleted"]
    /\ pay' = [pay EXCEPT ![a] = IF p = "pending" THEN "cancelled" ELSE p]
    /\ refundTx' = [i \in RefundId |->
           IF i \in PendingRefunds(a) THEN "cancelled" ELSE refundTx[i]]

Send(e) == sent' = sent \cup {e}

-----------------------------------------------------------------------------
(* Requests of clients and lawyers.                                        *)

\* Fault: the deletion task is not scheduled.
BookPaid_NoTask(a) ==
    /\ a \in Paid /\ status[a] = "absent"
    /\ status' = [status EXCEPT ![a] = "pending"]
    /\ \E w \in {"open", "closed"} : window' = [window EXCEPT ![a] = w]
    /\ pay' = [pay EXCEPT ![a] = "pending"]
    /\ intent' = [intent EXCEPT ![a] = "open"]
    /\ UNCHANGED <<refundStatus, credited, task, refundVars, stripeRefund, sent>>

\* CreateAppointmentView for an audio or video appointment: the row, its
\* escrow transaction, the PaymentIntent and the deletion task, in one
\* database transaction. At least one hour ahead, so not yet ended.
BookPaid(a) ==
    /\ a \in Paid /\ status[a] = "absent"
    /\ status' = [status EXCEPT ![a] = "pending"]
    /\ \E w \in {"open", "closed"} : window' = [window EXCEPT ![a] = w]
    /\ pay' = [pay EXCEPT ![a] = "pending"]
    /\ intent' = [intent EXCEPT ![a] = "open"]
    /\ task' = [task EXCEPT ![a] = "scheduled"]
    /\ UNCHANGED <<refundStatus, credited, refundVars, stripeRefund, sent>>

\* The same view for a physical appointment: confirmed at once, no payment.
BookPhysical(a) ==
    /\ a \notin Paid /\ status[a] = "absent"
    /\ status' = [status EXCEPT ![a] = "confirmed"]
    /\ refundStatus' = [refundStatus EXCEPT ![a] = "not_applicable"]
    /\ \E w \in {"open", "closed"} : window' = [window EXCEPT ![a] = w]
    /\ UNCHANGED <<moneyVars, task, refundVars, stripeVars>>

\* RescheduleAppointmentView: whatever the status was, it becomes CONFIRMED.
\* Conflicts and availability are not the concern of this module.
Reschedule(a) ==
    /\ CanBeModified(a)
    /\ status' = [status EXCEPT ![a] = "confirmed"]
    /\ \E w \in {"open", "closed"} : window' = [window EXCEPT ![a] = w]
    /\ UNCHANGED <<refundStatus, moneyVars, task, refundVars, stripeVars>>

\* CancelAppointmentView, physical appointment: either party.
CancelPhysical(a) ==
    /\ a \notin Paid /\ CanBeModified(a)
    /\ status' = [status EXCEPT ![a] = "cancelled"]
    /\ UNCHANGED <<refundStatus, window, moneyVars, task, refundVars, stripeVars>>

\* Fault: the payment transaction is left as it is.
CancelWithRefund_KeepsEscrow(a) ==
    /\ a \in Paid /\ CanBeModified(a)
    /\ nRefunds < MaxRefunds
    /\ status' = [status EXCEPT ![a] = "cancelled"]
    /\ refundStatus' = [refundStatus EXCEPT ![a] = "pending"]
    /\ nRefunds' = nRefunds + 1
    /\ refundOf' = [refundOf EXCEPT ![nRefunds + 1] = a]
    /\ refundTx' = [refundTx EXCEPT ![nRefunds + 1] = "pending"]
    /\ UNCHANGED <<window, moneyVars, task, stripeVars>>

\* CancelAppointmentView, paid appointment, in time, with a fresh refund key:
\* the escrow is cancelled and a pending REFUND transaction is created.
CancelWithRefund(a) ==
    /\ a \in Paid /\ CanBeModified(a)
    /\ nRefunds < MaxRefunds
    /\ status' = [status EXCEPT ![a] = "cancelled"]
    /\ refundStatus' = [refundStatus EXCEPT ![a] = "pending"]
    /\ pay' = [pay EXCEPT ![a] = "cancelled"]
    /\ nRefunds' = nRefunds + 1
    /\ refundOf' = [refundOf EXCEPT ![nRefunds + 1] = a]
    /\ refundTx' = [refundTx EXCEPT ![nRefunds + 1] = "pending"]
    /\ UNCHANGED <<window, credited, task, stripeVars>>

\* The same view without a refund key, or with the key of a REFUND
\* transaction that already exists: both return from inside the atomic
\* block, so the cancellation is committed and nothing else is.
CancelWithoutRefund(a) ==
    /\ a \in Paid /\ CanBeModified(a)
    /\ status' = [status EXCEPT ![a] = "cancelled"]
    /\ UNCHANGED <<refundStatus, window, moneyVars, task, refundVars, stripeVars>>

\* The same view when the deadline passes between the serializer's check and
\* the cancelled_at stamp: no refund, the escrow is cancelled.
CancelTooLate(a) ==
    /\ a \in Paid /\ CanBeModified(a)
    /\ status' = [status EXCEPT ![a] = "cancelled"]
    /\ window' = [window EXCEPT ![a] = "closed"]
    /\ pay' = [pay EXCEPT ![a] = "cancelled"]
    /\ UNCHANGED <<refundStatus, credited, task, refundVars, stripeVars>>

\* mark_appointment_completed: the API view; it does not look at the payment.
MarkAppointmentCompleted(a) ==
    /\ CanBeCompleted(a)
    /\ status' = [status EXCEPT ![a] = "completed"]
    /\ Release(a)
    /\ UNCHANGED <<refundStatus, window, task, refundVars, stripeVars>>

\* Appointment.mark_as_completed, called by end_session and by the admin: it
\* asks for a payment transaction with a Stripe id, which booking has set.
HasCompletedPayment(a) == a \notin Paid \/ pay[a] # "none"

MarkAsCompleted(a) ==
    /\ CanBeCompleted(a) /\ HasCompletedPayment(a)
    /\ status' = [status EXCEPT ![a] = "completed"]
    /\ \/ a \in Paid /\ Release(a)
       \/ a \notin Paid /\ UNCHANGED moneyVars
    /\ UNCHANGED <<refundStatus, window, task, refundVars, stripeVars>>

-----------------------------------------------------------------------------
(* The admin site.                                                         *)

MarkAsNoShow(a) ==
    /\ Active(a)
    /\ status' = [status EXCEPT ![a] = "no_show"]
    /\ UNCHANGED <<refundStatus, window, moneyVars, task, refundVars, stripeVars>>

\* What stripe.Refund.create accepts: a charge that is not yet refunded.
Refundable(a) ==
    /\ intent[a] = "succeeded"
    /\ \A i \in RefundId : refundOf[i] = a => stripeRefund[i] # "created"

MakeStripeRefund(i) ==
    /\ stripeRefund' = [stripeRefund EXCEPT ![i] = "created"]
    /\ Send(<<"refund.created", i>>)
    /\ UNCHANGED intent

\* _approve_refund with a pending REFUND transaction and Stripe accepting.
ApproveRefund(a) ==
    /\ Exists(a) /\ refundStatus[a] = "pending" /\ Refundable(a)
    /\ \E i \in RefundId : IsNewest(i, PendingRefunds(a)) /\ MakeStripeRefund(i)
    /\ refundStatus' = [refundStatus EXCEPT ![a] = "approved"]
    /\ UNCHANGED <<status, window, moneyVars, task, refundVars>>

\* _approve_refund when Stripe makes the refund but the call fails (a lost
\* answer): the StripeError branch puts the refund back to PENDING.
ApproveRefundAnswerLost(a) ==
    /\ Exists(a) /\ refundStatus[a] = "pending" /\ Refundable(a)
    /\ \E i \in RefundId : IsNewest(i, PendingRefunds(a)) /\ MakeStripeRefund(i)
    /\ UNCHANGED <<apptVars, moneyVars, task, refundVars>>

\* _approve_refund repeated for a transaction Stripe has already refunded:
\* the idempotency key makes Stripe answer with the first refund.
ApproveRefundAgain(a) ==
    /\ Exists(a) /\ refundStatus[a] = "pending"
    /\ \E i \in RefundId : IsNewest(i, PendingRefunds(a)) /\ stripeRefund[i] # "none"
    /\ refundStatus' = [refundStatus EXCEPT ![a] = "approved"]
    /\ UNCHANGED <<status, window, moneyVars, task, refundVars, stripeVars>>

\* _approve_refund without a pending REFUND transaction: the view reports a
\* failure, but it returns inside the atomic block, so APPROVED is committed.
ApproveRefundNothingPending(a) ==
    /\ Exists(a) /\ refundStatus[a] = "pending" /\ PendingRefunds(a) = {}
    /\ refundStatus' = [refundStatus EXCEPT ![a] = "approved"]
    /\ UNCHANGED <<status, window, moneyVars, task, refundVars, stripeVars>>

\* Fault: the escrow that the cancellation closed is paid to the lawyer.
RejectRefund_Pays(a) ==
    /\ Exists(a) /\ refundStatus[a] = "pending"
    /\ refundStatus' = [refundStatus EXCEPT ![a] = "rejected"]
    /\ refundTx' = [i \in RefundId |->
           IF IsNewest(i, PendingRefunds(a)) THEN "cancelled" ELSE refundTx[i]]
    /\ pay' = [pay EXCEPT ![a] = "completed"]
    /\ credited' = [credited EXCEPT ![a] = @ + 1]
    /\ UNCHANGED <<status, window, task, nRefunds, refundOf, stripeVars>>

\* _reject_refund
RejectRefund(a) ==
    /\ Exists(a) /\ refundStatus[a] = "pending"
    /\ refundStatus' = [refundStatus EXCEPT ![a] = "rejected"]
    /\ refundTx' = [i \in RefundId |->
           IF IsNewest(i, PendingRefunds(a)) THEN "cancelled" ELSE refundTx[i]]
    /\ Release(a)
    /\ UNCHANGED <<status, window, task, nRefunds, refundOf, stripeVars>>

-----------------------------------------------------------------------------
(* Webhooks and the Celery task.                                           *)

\* handle_appointment_payment_succeeded: confirms whatever the status is.
HandlePaymentSucceeded(a) ==
    /\ <<"payment_intent.succeeded", a>> \in sent /\ Exists(a)
    /\ status' = [status EXCEPT ![a] = "confirmed"]
    /\ task' = [task EXCEPT ![a] = IF @ = "scheduled" THEN "revoked" ELSE @]
    /\ UNCHANGED <<refundStatus, window, moneyVars, refundVars, stripeVars>>

\* handle_appointment_payment_failed: fails the payment, deletes the row.
HandlePaymentFailed(a) ==
    /\ <<"payment_intent.payment_failed", a>> \in sent /\ Exists(a)
    /\ DeleteRow(a, "failed")
    /\ UNCHANGED <<refundStatus, window, credited, task, nRefunds, refundOf, stripeVars>>

\* handle_appointment_payment_canceled
HandlePaymentCanceled(a) ==
    /\ <<"payment_intent.canceled", a>> \in sent /\ Exists(a)
    /\ DeleteRow(a, "cancelled")
    /\ UNCHANGED <<refundStatus, window, credited, task, nRefunds, refundOf, stripeVars>>

\* Fault: only a transaction that is still pending is completed.
HandleRefundCreated_PendingOnly(i) ==
    /\ <<"refund.created", i>> \in sent /\ Exists(refundOf[i])
    /\ refundTx[i] = "pending"
    /\ refundTx' = [refundTx EXCEPT ![i] = "completed"]
    /\ UNCHANGED <<apptVars, moneyVars, task, nRefunds, refundOf, stripeVars>>

\* handle_refund_succeeded: whatever the status of the transaction is.
HandleRefundCreated(i) ==
    /\ <<"refund.created", i>> \in sent /\ Exists(refundOf[i])
    /\ refundTx' = [refundTx EXCEPT ![i] = "completed"]
    /\ UNCHANGED <<apptVars, moneyVars, task, nRefunds, refundOf, stripeVars>>

\* handle_refund_failed: back to PENDING, for manual review.
HandleRefundFailed(i) ==
    /\ <<"refund.failed", i>> \in sent /\ Exists(refundOf[i])
    /\ refundTx' = [refundTx EXCEPT ![i] = "failed"]
    /\ refundStatus' = [refundStatus EXCEPT ![refundOf[i]] = "pending"]
    /\ UNCHANGED <<status, window, moneyVars, task, nRefunds, refundOf, stripeVars>>

\* handle_charge_disputed: fails the newest pending transaction, of any type;
\* a REFUND transaction is always newer than the PAYMENT.
HandleChargeDisputed(a) ==
    /\ <<"charge.dispute.created", a>> \in sent /\ Exists(a)
    /\ \/ \E i \in RefundId :
             /\ IsNewest(i, PendingRefunds(a))
             /\ refundTx' = [refundTx EXCEPT ![i] = "failed"]
             /\ UNCHANGED pay
       \/ /\ PendingRefunds(a) = {} /\ pay[a] = "pending"
          /\ pay' = [pay EXCEPT ![a] = "failed"]
          /\ UNCHANGED refundTx
    /\ UNCHANGED <<apptVars, credited, task, nRefunds, refundOf, stripeVars>>

\* delete_unpaid_appointment. A revoke only reaches the workers alive at that
\* moment, so a revoked task may still run.
DeleteUnpaidAppointment(a) ==
    /\ task[a] \in {"scheduled", "revoked"}
    /\ task' = [task EXCEPT ![a] = "done"]
    /\ \/ status[a] = "pending" /\ DeleteRow(a, pay[a])
       \/ status[a] # "pending" /\ UNCHANGED <<status, pay, refundTx>>
    /\ UNCHANGED <<refundStatus, window, credited, nRefunds, refundOf, stripeVars>>

-----------------------------------------------------------------------------
(* Time, and Stripe with the client's browser.                             *)

TimePasses(a) ==
    /\ Exists(a) /\ window[a] # "ended"
    /\ window' = [window EXCEPT ![a] = IF @ = "open" THEN "closed" ELSE "ended"]
    /\ UNCHANGED <<status, refundStatus, moneyVars, task, refundVars, stripeVars>>

\* The lawyer's profile: a smaller cancellation_threshold_hours moves the
\* deadline of an appointment, though never past its start (the least is 1).
LowerThreshold(a) ==
    /\ Exists(a) /\ window[a] = "closed"
    /\ window' = [window EXCEPT ![a] = "open"]
    /\ UNCHANGED <<status, refundStatus, moneyVars, task, refundVars, stripeVars>>

StripeCharges(a) ==
    /\ intent[a] = "open"
    /\ intent' = [intent EXCEPT ![a] = "succeeded"]
    /\ Send(<<"payment_intent.succeeded", a>>)
    /\ UNCHANGED <<apptVars, moneyVars, task, refundVars, stripeRefund>>

\* A declined card leaves the PaymentIntent open for another attempt.
StripeDeclines(a) ==
    /\ intent[a] = "open"
    /\ Send(<<"payment_intent.payment_failed", a>>)
    /\ UNCHANGED <<apptVars, moneyVars, task, refundVars, intent, stripeRefund>>

StripeCancels(a) ==
    /\ intent[a] = "open"
    /\ intent' = [intent EXCEPT ![a] = "canceled"]
    /\ Send(<<"payment_intent.canceled", a>>)
    /\ UNCHANGED <<apptVars, moneyVars, task, refundVars, stripeRefund>>

StripeOpensDispute(a) ==
    /\ intent[a] = "succeeded"
    /\ Send(<<"charge.dispute.created", a>>)
    /\ UNCHANGED <<apptVars, moneyVars, task, refundVars, intent, stripeRefund>>

StripeFailsRefund(i) ==
    /\ stripeRefund[i] = "created"
    /\ stripeRefund' = [stripeRefund EXCEPT ![i] = "failed"]
    /\ Send(<<"refund.failed", i>>)
    /\ UNCHANGED <<apptVars, moneyVars, task, refundVars, intent>>

-----------------------------------------------------------------------------
RequestStep(a) ==
    \/ BookPaid(a) \/ BookPhysical(a) \/ Reschedule(a)
    \/ CancelPhysical(a) \/ CancelWithRefund(a) \/ CancelWithoutRefund(a)
    \/ CancelTooLate(a) \/ MarkAppointmentCompleted(a) \/ MarkAsCompleted(a)

AdminStep(a) ==
    \/ MarkAsNoShow(a) \/ ApproveRefund(a) \/ ApproveRefundAnswerLost(a)
    \/ ApproveRefundAgain(a) \/ ApproveRefundNothingPending(a) \/ RejectRefund(a)

WebhookStep(a) ==
    \/ HandlePaymentSucceeded(a) \/ HandlePaymentFailed(a)
    \/ HandlePaymentCanceled(a) \/ HandleChargeDisputed(a)

RefundWebhookStep(i) == HandleRefundCreated(i) \/ HandleRefundFailed(i)

StripeStep(a) ==
    \/ StripeCharges(a) \/ StripeDeclines(a) \/ StripeCancels(a)
    \/ StripeOpensDispute(a)

Next ==
    \/ \E a \in Appointment :
          \/ RequestStep(a) \/ AdminStep(a) \/ WebhookStep(a)
          \/ DeleteUnpaidAppointment(a) \/ StripeStep(a)
          \/ TimePasses(a) \/ LowerThreshold(a)
    \/ \E i \in RefundId : RefundWebhookStep(i) \/ StripeFailsRefund(i)

Spec == Init /\ [][Next]_vars

\* No refund.created for i was handled yet: one makes the transaction completed,
\* and after that only refund.failed moves it. A rejection or a deletion cancels
\* it before, and a dispute fails it.
RefundUnreported(i) ==
    \/ refundTx[i] \in {"pending", "cancelled"}
    \/ refundTx[i] = "failed" /\ <<"refund.failed", i>> \notin sent

\* Celery runs a scheduled task, and Stripe retries a webhook until the
\* server has answered it: the first refund.created for a refund is handled
\* some day. Nobody is obliged to press a button.
Fairness ==
    /\ \A a \in Appointment : WF_vars(DeleteUnpaidAppointment(a))
    /\ \A i \in RefundId : WF_vars(RefundUnreported(i) /\ HandleRefundCreated(i))

FairSpec == Spec /\ Fairness

-----------------------------------------------------------------------------
(* Safety.                                                                 *)

RefundsOf(a) == {i \in 1..nRefunds : refundOf[i] = a}

\* A lawyer is paid once for an appointment, although a repeated
\* payment_intent.succeeded makes a completed appointment CONFIRMED again
\* and so lets both completion paths run a second time.
CreditedAtMostOnce == \A a \in Appointment : credited[a] <= 1

\* Nothing reaches the wallet before the appointment has ended: neither by
\* completion nor by the third release site, the rejection of a refund.
CreditedOnlyAfterEnd ==
    \A a \in Appointment : credited[a] > 0 => window[a] = "ended"

\* The money goes one way: once a REFUND transaction exists the escrow is
\* closed and the lawyer has been paid nothing, and a credited payment is
\* never cancelled with a refund afterwards.
EscrowOrRefund ==
    \A a \in Appointment : RefundsOf(a) # {} =>
        credited[a] = 0 /\ pay[a] \in {"cancelled", "failed"}

\* A refund under review always belongs to a closed escrow, so a rejection
\* cannot release a payment that another handler could release as well.
ReviewedEscrowIsClosed ==
    \A a \in Appointment : refundStatus[a] \in {"pending", "approved", "rejected"} =>
        RefundsOf(a) # {} /\ pay[a] \notin {"none", "pending"}

\* Whichever handler removes the row, no transaction of a deleted
\* appointment is left PENDING: nothing could settle it any more.
DeletedLeavesNothingPending ==
    \A a \in Appointment : status[a] = "deleted" =>
        pay[a] # "pending" /\ PendingRefunds(a) = {}

\* "Freeze any pending payment transaction to prevent fund release": the
\* handler picks the newest pending transaction of ANY type, and that is the
\* payment whenever the payment is pending.
DisputeFreezesEscrow ==
    [][\A a \in Appointment : HandleChargeDisputed(a) => pay'[a] # "pending"]_vars

\* The inductive strengthening that the proofs of EscrowProofs use. A booking
\* that was never made has no money; a credited payment is settled; REFUND
\* transactions are numbered without gaps, and Stripe only reports on those.
AbsentHasNothing ==
    \A a \in Appointment : status[a] = "absent" =>
        /\ refundStatus[a] = "none" /\ credited[a] = 0 /\ RefundsOf(a) = {}

CreditedIsSettled ==
    \A a \in Appointment : credited[a] > 0 => pay[a] \notin {"none", "pending"}

RefundsNumbered ==
    \A i \in RefundId :
        IF i <= nRefunds
        THEN refundOf[i] \in Appointment
        ELSE /\ refundTx[i] = "none" /\ stripeRefund[i] = "none"
             /\ \A k \in RefundEvent : <<k, i>> \notin sent

EscrowInv ==
    /\ TypeOK
    /\ AbsentHasNothing /\ CreditedIsSettled /\ RefundsNumbered
    /\ CreditedAtMostOnce /\ CreditedOnlyAfterEnd
    /\ EscrowOrRefund /\ ReviewedEscrowIsClosed /\ DeletedLeavesNothingPending

-----------------------------------------------------------------------------
(* The settlement of each escrow, as Settlement specifies it.              *)

\* The wallet decides first: a late payment_intent.payment_failed marks the
\* payment of a completed appointment FAILED and takes nothing back.
EscrowOf(a) ==
    IF credited[a] > 0 THEN "released"
    ELSE IF pay[a] = "none" THEN "none"
    ELSE IF pay[a] = "pending" THEN "held" ELSE "closed"

RefundFor(a) ==
    IF RefundsOf(a) = {} THEN "none"
    ELSE IF \E i \in RefundsOf(a) : stripeRefund[i] = "created" THEN "made"
    ELSE "asked"

S == INSTANCE Settlement
       WITH escrow <- [a \in Appointment |-> EscrowOf(a)],
            refund <- [a \in Appointment |-> RefundFor(a)]

\* Three places release an escrow, four close it, and events make finished
\* appointments active again: all the same every step settles the money as
\* promised, once and one way, or leaves the settlement alone.
SettlementImplemented == S!SettlementSpec

-----------------------------------------------------------------------------
(* Liveness, under FairSpec.                                               *)

\* An unpaid booking does not hold its slot for ever.
PendingIsTemporary ==
    \A a \in Appointment : status[a] = "pending" ~> status[a] # "pending"

\* A refund that Stripe has made is recorded as completed in the end, though the
\* answer to the request that made it was lost and the request was then rejected,
\* or a dispute failed its transaction. Only two things can come first: Stripe
\* reports that the refund failed, or an event deletes the appointment.
StripeRefundIsRecorded ==
    \A i \in RefundId :
        stripeRefund[i] = "created" ~>
            \/ refundTx[i] = "completed"
            \/ <<"refund.failed", i>> \in sent
            \/ \E a \in Appointment : refundOf[i] = a /\ status[a] = "deleted"

-----------------------------------------------------------------------------
(* What the documents and comments of the repository say, and the code     *)
(* does not do. README.md gives the shortest behaviour that breaks each.   *)

\* README.md: the funds in escrow are those of a payment that Stripe has
\* confirmed; only such a payment is released to the lawyer.
CreditedOnlyIfCharged ==
    \A a \in Appointment : credited[a] > 0 => intent[a] = "succeeded"

\* TRANSACTION.md 3C: the cancellation of a paid appointment cancels its
\* payment transaction.
CancelledEscrowIsClosed ==
    \A a \in Appointment : status[a] = "cancelled" => pay[a] # "pending"

\* README.md: payment_intent.succeeded makes the appointment CONFIRMED; a
\* charge never outlives its appointment.
ChargedAppointmentExists ==
    \A a \in Appointment : intent[a] = "succeeded" => status[a] # "deleted"

\* TRANSACTION.md 4: approving a refund makes the system process it, unless
\* Stripe has made it already.
ApprovalProcessesRefund ==
    [][\A a \in Appointment :
          refundStatus[a] = "pending" /\ refundStatus'[a] = "approved" =>
              \/ PendingRefunds(a) # {}
              \/ \E i \in RefundsOf(a) : stripeRefund[i] = "created"]_vars

\* _reject_refund: "Reject refund and complete payment transaction".
RejectionCompletesPayment ==
    [][\A a \in Appointment :
          refundStatus[a] = "pending" /\ refundStatus'[a] = "rejected" =>
              pay'[a] = "completed"]_vars

\* README.md: the life cycle is pending -> confirmed -> completed (or
\* cancelled, or no-show); a finished appointment is not confirmed again.
FinishedStaysFinished ==
    [][\A a \in Appointment :
          status[a] \in {"completed", "cancelled", "no_show"} =>
              status'[a] # "confirmed"]_vars

\* _approve_refund: "Rollback appointment status if Stripe fails": a request
\* is put back to PENDING, and can be rejected, only if nothing was refunded.
RejectedIsNotRefunded ==
    \A a \in Appointment : refundStatus[a] = "rejected" =>
        \A i \in RefundsOf(a) : stripeRefund[i] # "created"
=============================================================================
