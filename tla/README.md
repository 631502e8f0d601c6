# Juris: TLA+ models, checks and proofs

Juris is a Django back end of a marketplace where clients book consultations
with lawyers. The client pays when booking; Juris holds the money in escrow
until the consultation is over, then adds the lawyer's share to a wallet from
which the lawyer withdraws. This directory holds TLA+ models of that system,
their TLC configurations and TLAPS proofs. Paths below are relative to the
repository; `views.py`, `models.py`, `admin.py`, `serializers.py` and `tasks.py`
without a directory are those of `lawyer_appointment/`, and `webhook.py` is
`subscriptions/webhook.py`.

1. [The system](#1-the-system)
2. [The modules](#2-the-modules)
3. [The runs](#3-the-runs)
4. [Fairness](#4-fairness)
5. [The proofs](#5-the-proofs)
6. [Where code and documents disagree](#6-where-code-and-documents-disagree)
7. [What is not modelled](#7-what-is-not-modelled)
8. [Plan](#8-plan)

## 1. The system

Web workers (Django REST views, the admin site), Celery workers (tasks) and
Stripe's webhooks share one PostgreSQL database at READ COMMITTED. OTPs, the
token store and cached subscription data are in Redis. Nothing is kept in a
process between two requests, so all concurrency is that of database
transactions, Redis commands and calls to Stripe.

| component | state it keeps | operations that change it | talks to | hard behaviour |
|---|---|---|---|---|
| appointments and escrow (`lawyer_appointment/`, `subscriptions/webhook.py`) | `Appointment` (status, times, refund fields, cancellation stamps), `Transaction` of type PAYMENT and REFUND | create, reschedule, cancel, complete (three paths), no-show, approve or reject a refund, `delete_unpaid_appointment`, six webhook handlers | Stripe, Celery, wallet, lawyer, availability | webhooks late, repeated and out of order; a task racing a webhook; returns from inside `transaction.atomic()`; answers lost after Stripe has acted |
| booking rules (`views.py:43-421`, `serializers.py`) | the rows above, the lawyer's row lock, the idempotency key | create, reschedule | availability, lawyer | two requests for one slot; a repeated request; conflict checks outside the lock |
| consultation session (`views.py:1003-1342`) | `AppointmentParticipant`, actual start and end, duration | join, leave, end | Agora tokens, completion | two participants joining and leaving in any order, rejoining, ending early |
| wallet (`lawyer_wallet/`) | `Wallet` (balance, lock), `Transaction` of type PAYOUT | credit on completion, withdraw, approve, reject, lock, unlock, the bulk admin actions | completion, KYC | read-modify-write of the balance, some of it without a row lock; stale instances in admin actions |
| availability (`lawyer_availability/`) | `Availability` (weekly slots), `Unavailability` (dates and ranges) | create, update, delete, bulk create, copy a day, clear | lawyer, booking | overlap checked before an insert; half-open or closed interval ends |
| lawyer profile and offerings (`lawyer/`) | `LawyerProfile` (threshold), `LawyerOffering`, `OfferingType` (price) | CRUD | booking | a price or threshold that changes under an open booking |
| subscriptions (`subscriptions/`) | `VendorSubscription`, `SubscriptionInvoice`, `PaymentMethod`, a cache in Redis | trial, activate, cancel, reactivate, change the card, six webhook handlers, a management command | Stripe, Redis, profiles (listing on or off) | out-of-order webhooks that overwrite status and period; a cache that outlives its row |
| vouchers (`subscriptions/views.py`) | `Voucher.used_count`, `VoucherUsage` | redeem on activation, apply | subscriptions | the last use redeemed twice |
| KYC (`kyc/`, `webhook.py:592`) | `KYCVerification`, the status in `LawyerProfile` | start, webhooks, admin actions | Stripe Identity | one result kept in two rows; events late, repeated, cut short |
| accounts, OTP and tokens (`users/`) | `User`, `PasswordResetToken`, Redis keys for OTPs, attempts and tokens | sign up, log in, verify and resend codes, refresh, log out, reset a password, change an email | Twilio, e-mail, Google, Redis | a cooldown, a counter and a validity in one record; get-then-set |
| vendor wizard (`profiles/`) | `ProfileCompletionSession`, `VendorProfile` and its parts | seven steps, complete, update, media and certificates | lawyer, subscriptions | steps repeated or out of order, an expired session, a completion that half succeeds |
| live notifications (`subscriptions/consumers.py`) | none besides `Notification` rows | forward | channel layer | no state worth a model |
| configuration and admin pages (`juris/`, `*/admin.py`) | settings, forms | admin actions | all | the actions are part of the component they change |

Correctness, component by component:

* **escrow**: the money of an appointment goes to the lawyer or back to the
  client, once; the lawyer is paid after the end only; no transaction stays
  pending once nothing can settle it; a dispute freezes the money.
* **booking**: no lawyer has two overlapping active appointments; a repeated
  request makes one appointment; an unpaid booking gives its slot back.
* **wallet**: the balance is what was earned minus what is or will be paid out;
  it is never overdrawn; a locked wallet pays nothing; every request ends.
* **session**: the recorded duration is that of the call; an ended session stays
  ended; no session stays active with nobody in it.
* **availability**: active slots of a day never overlap, nor do the blocks of a
  date; what the calendar lists passes the time check.
* **subscriptions and vouchers**: who does not pay is not listed; a vendor has one
  default card; no voucher is used more often than it may be.
* **KYC**: a lawyer is verified only on Stripe's word or an admin's, and the two
  rows that say so agree.
* **accounts**: a code works once and for a limited number of tries, and is not
  sent again too soon; a rotated, replaced or logged-out refresh token is dead,
  as is one stored before a change of password.
* **wizard**: what a completed session stands for exists; a user fills in one
  session at a time.

## 2. The modules

| module | what it is | actions or definitions of interest |
|---|---|---|
| `Settlement` | what an escrow promises its two parties: abstract specification | `HoldEscrow`, `ReleaseEscrow`, `CloseEscrow`, `AskRefund`, `PayBack`, `RefundFails` |
| `Escrow` | an appointment's life and its money, one handler = one step | 9 requests, 6 admin actions, 6 webhook handlers, 1 task, time, Stripe |
| `EscrowProofs` | the inductive invariant of `Escrow`; it implements `Settlement`; what liveness rests on; the only ways two promises are broken | 14 theorems |
| `Ledger` | what a wallet promises: abstract specification | `ReleaseFunds`, `RequestPayout`, `CompletePayout`, `FailPayout` |
| `WalletLedger` | the writers of one wallet, one database statement = one step | 15 worker steps, `SetLocked` |
| `WalletLedgerProofs` | `WalletLedger` implements `Ledger`, by locking or one at a time; the books balance; credit once; locks | 12 theorems |
| `Booking` | the slots of a lawyer, handlers split at reads, locks and commits | 13 worker steps |
| `BookingProofs` | no double booking; one appointment for a key; nobody holds and waits | 6 theorems |
| `Availability` | slots, blocks and offerings of a lawyer, validation and write as two steps; calendar and time check | 12 requests, `Write`, time; `Calendar`, `IsAvailableAt` |
| `AvailabilityProofs` | no overlap; the calendar and the time check agree | 4 theorems |
| `Session` | the video session of an appointment, one saved row = one step | 4 requests and the 6 steps they continue with |
| `SessionProofs` | duration, end, no active session without anybody | 4 theorems |
| `Subscription` | subscriptions with Stripe's events, the listing, cards, a voucher | 2 Stripe steps, 5 webhook handlers and a crash, 18 view steps |
| `SubscriptionProofs` | listing, default card, limit of a voucher | 6 theorems |
| `Account` | one account: codes, tokens, password, address | 27 requests and steps, the end of a worker, time and expiry |
| `AccountProofs` | use, tries and cooldown of codes; live tokens | 7 theorems |
| `Onboarding` | the wizard's sessions, completion, the identity check | 10 wizard steps, 6 check steps, Stripe, admin, expiry |
| `OnboardingProofs` | completed sessions; the two rows of the check | 5 theorems |
| `MCEscrow`, `MCWalletLedger`, `MCBooking`, `MCAvailability`, `MCSession`, `MCSubscription`, `MCAccount`, `MCOnboarding` | the small instances TLC checks | constants, symmetry, state constraints |

A definition whose name ends in `_Something` and whose comment begins with
`Fault:` is a seeded bug: it takes the place of the definition with the plain
name, and the property aimed at it must then fail. No specification uses it.

### Escrow

An appointment id stands for one `Appointment` row together with its PAYMENT
`Transaction`, its PaymentIntent and its Celery task; REFUND transactions are
numbered in creation order, which is what `.first()` on `-created_at` needs.

| variable | code |
|---|---|
| `status` | `Appointment.status`; `"absent"` before the booking, `"deleted"` when the row is gone |
| `refundStatus` | `Appointment.refund_status` |
| `window` | where `timezone.now()` is: `"open"` while `can_be_modified` would allow a change, then `"closed"`, then `"ended"` (`can_be_completed`) |
| `pay`, `refundTx`, `refundOf`, `nRefunds` | the transactions' `status`, `appointment` and order |
| `credited` | how often `lawyer_amount` was added to `Wallet.balance` |
| `task` | `delete_unpaid_appointment.apply_async(countdown=...)` and its revocation |
| `intent`, `stripeRefund`, `sent` | Stripe's side: PaymentIntent, Refund, and the events it has sent |

Each action is a whole handler. `DeleteRow` is `Appointment.delete()`, which
cancels the pending transactions before the row goes (`models.py:380`), and
`Release` is the part that three handlers share: the pending payment becomes
completed and its amount is added to the wallet. A webhook is delivered at least
once, in any order with other events, and at any time after Stripe sent it, so
an event never leaves `sent`. Returns from inside `transaction.atomic()` commit,
which is why `CancelWithoutRefund` and `ApproveRefundNothingPending` are
actions. `ApproveRefundAnswerLost` is the `StripeError` branch when Stripe did
make the refund. `LowerThreshold` is a lawyer editing
`cancellation_threshold_hours`, which moves deadlines of existing appointments.

`Settlement` is the specification without handlers: for each appointment the
money is held, then released to the lawyer once or closed for good, and a refund
is asked for and made only of a closed escrow. `EscrowOf` and `RefundFor` are the
refinement mapping. It looks at the wallet first, because a late
`payment_intent.payment_failed` marks the payment of a completed appointment
FAILED and takes nothing back; and at what Stripe did before what was recorded.

Abstracted: amounts (one fee per appointment, as `lawyer_amount` is stored when
booking), texts, reasons and stamps, e-mails and notifications, `Charge.retrieve`
failing (the dispute event is then lost, as if it was not sent), and the admin's
change forms, which can set any field to anything.

### WalletLedger and Ledger

One lawyer's wallet, `Appointment` a set of charged and ended appointments,
`Payout` a set of withdrawal requests by idempotency key. A worker has `pc`
(where in a handler it is), `arg` (the rows it still has to handle) and `seen`
(the wallet instance its ORM object holds). `rowLock` is PostgreSQL's row lock
on an appointment or a payout, from a handler's first UPDATE to its commit. The
wallet's own row is locked only in steps that end with the commit, so that lock
needs no variable.

| step | code |
|---|---|
| `CompleteRead`, `CompletePay`, `CompleteOnly`, `CompleteCommit` | `mark_appointment_completed`, `views.py:930-975`: the status check outside the transaction; UPDATE of the appointment and reading the payment and the wallet; UPDATE of every field of the wallet instance |
| `MarkRead`, `MarkCommit` | `Appointment.mark_as_completed`, `models.py:330-378`: the wallet is read with `select_for_update` and saved with `update_fields` |
| `WithdrawCheck`, `WithdrawCommit` | the serializer's checks, and the view's under `select_for_update` |
| `ApproveRead`, `ApproveCommit` | the approval view and action; `_approve_withdrawal` |
| `RejectRead`, `RejectUpdate`, `RejectCommit` | the rejection view; `_reject_withdrawal` |
| `BulkRejectRead`, `BulkRejectCommit` | the bulk action, whose queryset joins the wallet to every transaction |
| `SetLocked` | `lock_wallets`, `unlock_wallets`: one UPDATE |

`Handler` names the handlers of an instance, so that one can ask what holds for
the handlers that lock the wallet's row and what for all of them. `Ledger` is the
specification without workers; the refinement maps `released` to the
appointments whose payment is completed, and `balance` and `payout` to themselves.

### Booking

An appointment is named after the POST request that creates it, and what the
request asks for besides its start (lawyer, client, length, key, paid or
physical) is a constant function of it. Creation is `CreateStart` (the key
lookup), `CreateLock` (`select_for_update` on the lawyer), `CreateValidate`
(rules 6 and 7 of `_validate_booking_rules`) and `CreateCommit` or `CreateFail`.
Reschedule, cancel, confirm and the deletions read the row without a lock and end
with `save()`, which writes all fields: `Save` puts back the start that was read,
and inserts a row that was deleted meanwhile, as Django does. `keyTx` is the
unique `idempotency_key` of a transaction and `detached` the transactions whose
`appointment` became NULL, which `CreateStart` therefore does not find.

Abstracted: prices, and availability (`Availability` has it; here a request asks for times at which the
lawyer offers the slot), time windows (all before the deadline: `Escrow` has
them), and the money.

### Availability

`row` is the table of weekly slots and the table of blocks, by primary key:
both models' `save()` is `full_clean()` followed by the INSERT or UPDATE, and
`Clash` is the overlap test of either `clean`. `work[p]` holds the rows that a
worker has validated and not yet written, so `CreateSlot`, `UpdateSlot`,
`BulkCreate`, `CopyTemplate`, `CreateBlock` and `UpdateBlock` end before the
write, and `Write` is the write and the commit. `UpdateSlot` holds only the times
that a PATCH gives to the hours of the serializer; a slot made in bulk may keep its own. `Accepted` is the loop of
`get_or_create()` calls, which skips what exists or clashes; it takes a maximal
set of candidates that fit, whatever the order. `Written` is what the unique
constraint and the foreign key let in. `Calendar` and `IsAvailableAt` are the
readers that clients and bookings rely on.

Abstracted: the rows of a bulk request are validated at one point instead of one
after the other, other lawyers (no test looks at their rows), kinds and reasons
of blocks, prices, and the order of the lists.

### Session

One appointment's `AppointmentSession`, its `AppointmentParticipant` rows and
the requests of `views.py:1003-1342`. A join or a leave is not a transaction: it
reads, then saves a participant and the session one after the other, each save
writing the row as first read, so `pc`, `user` and `seen` say where a worker is
and what it holds.

| step | code |
|---|---|
| `GetSessionDetails` | GET: creates the session and the participants that are missing |
| `JoinSession`, `StartSession`, `EnterSession` | join: the read; the session saved as active if it was read as not started; the participant saved as online |
| `LeaveSession`, `SaveLeft`, `CheckOthers`, `CloseSession` | leave: the read; the participant saved; the query for somebody online; the session saved as ended |
| `EndSession`, `EndTransaction` | end: the read outside, the writes inside the transaction |

`raced` remembers that two requests ever overlapped. Without an overlap, an ended
session stays ended and its duration is that of the call. With one, a join that
read "not started" can make an ended session active again, and an old copy can
overwrite a duration: `DurationIsMeasured` and `EndedStaysEnded` say so in their
premise. `ActiveHasSomeone` holds under every overlap. Three things the code
does that the model keeps: a leave before anybody joined ends the session for
good; joining after the end leaves it ENDED with a participant online; two
overlapping requests to end it are ordered by the row lock of the UPDATE, and the
second completes nothing again (`Escrow`, `WalletLedger`).

### Subscription

`stripe` is a subscription at Stripe, with a version for each change; `mail` is
the events not yet answered, each with the version and status of its time. Stripe
itself numbers nothing, so the handlers do not see versions; they serve to say
"an event handled after a newer one" (`upset` is then "reordered"; it is
"disturbed" when a worker died between its two saves or a view saved a status, and
"edited" when an edit of the profile changed the listing to what it had read).
`sub` is the row, `listed` is `VendorProfile.is_active`.

| step | code |
|---|---|
| `PeriodEnds`, `Dunning` | Stripe: end of a trial or period, retries of a failed charge |
| `HandleCreated`, `HandleUpdated`, `HandleDeleted`, `HandlePaymentSucceeded`, `HandlePaymentFailed` | the handlers in `webhook.py`: the row and the listing each leaves |
| `Deliver`, `Crash` | a handler run to its end, or to its first save only; the event may come again |
| `InitTrial`, `InsertRow`, `Cancel`, `Reactivate`, `RetryFailedPayment` | the views of `subscriptions/views.py`, which save a status and leave the listing |
| `AddCard`, `ChooseDefault`, `SaveDefault`, `ClearOthers`, `ReadForDelete`, `DeleteCard` | the card views, one statement a step, and the signals of `PaymentMethod` |
| `ReadForActivation`, `Activate`, `ReadForVoucher`, `ApplyVoucher`, `Refuse` | activation and the voucher, with what was read in `job` |
| `ReadProfile`, `SaveProfile` | the views of `profiles/views.py` that read a `VendorProfile`, change some field and save them all, `is_active` as it was read (lines 542-577, 689-695, 733-734, 784-820); `CompleteProfileView` does so for a user who has a profile |

What the code does that the properties leave room for: the first invoice of a
trial, over nothing, makes the row "active"; `canceled_at` set by an event is
never cleared by one; a view that saves "active" after a failure makes the
webhook see no change, so the vendor stays off the list; activation does not
lock the voucher and does not look at whom it is restricted to; `Apply` saves
the subscription as it was read before the lock; two overlapping deletions can
remove every card, as can one by the router's own DELETE of a payment method, which
does not count them (`subscriptions/urls.py:8`); two overlapping choices can leave none the default, and a
deleted card that is being chosen is inserted again. A crash between the two saves
followed by the retry leaves the listing as it was, because the retry finds
nothing changed; `UnpaidIsDelisted` holds all the same, since a failure or a
deletion delists whatever the row says. An edit of the profile that was read before
such a webhook and saved after it lists the vendor again (section 6): the properties
of the listing leave out a vendor to whom that happened.

Abstracted: invoices (a row for each delivery), plans and prices, the Redis keys
(written and never read back), two trials started at once (an orphan at Stripe),
`trial_end_cleared`, and the overlap of two webhooks (each is one step).

### Account

The rows `User` and `PasswordResetToken` of one account, the Redis records of
`RedisOTPService` (three kinds of code) and of `RedisTokenStore`. Time is how
long ago something happened, up to the longest time anybody asks for. `sent`,
`lost`, `hasty`, `tries`, `uses`, `raced` and `owed` are history, for the properties:
`lost` are the kinds of code of which a message failed within the cooldown of an
earlier one, `owed` says that a password was saved and the tokens were not
invalidated since.

| definitions | code |
|---|---|
| `SendCode`, `MayResend`, `Right`, `Wrong`, `NotCompared`, `Increment`, `Deleted` | `redis_otp_service.py`: storing and sending, cooldown and lock, the comparison and its outcomes |
| `ReadOld`, `StoreTokens`, `Blacklist`, `InvalidateUserTokens` | `redis_token_store.py`: `store_tokens` is a read of the old pair, then the delete and the write |
| `Signup` ... `GoogleLogin`, `Refresh`, `Rotate`, `Logout`, `LogoutAll` | signing up and in, `CustomTokenRefreshView`, logout |
| `Enable2FA`, `VerifyOTP`, `RefuseOTP`, `ResendOTP`, ... | two-factor authentication |
| `ChangeEmailRequest`, `ResendEmailChange`, `VerifyEmailChange` | change of address |
| `ChangePassword`, `ForgotBy...`, `ResetBy...`, `RefuseReset` | the password; the link of a reset is used up before the new password is validated |
| `SetPassword`, `Revoke`, `Die` | `user.save()` and then `invalidate_user_tokens`, two steps; the worker, or Redis, may fail before the second |

Requests that store tokens or set a password are several steps, so that two of them
overlap. When one stores its pair over a pair that it did not read, both refresh
tokens stay live and a logout from all devices finds one, which is what `raced`
excludes. A code that sets a password is deleted in the step that saves it. The
other requests are single steps: two entries of a code at once
(get, then setex), two requests for a reset at once (`get_or_create`) and two
full-row saves of `User` are not modelled. Left out because nothing reads them:
`password_attempt` and the keys of access tokens.

### Onboarding

One user: the rows of `ProfileCompletionSession`, the profile, the legal
information, the lawyer's profile, `KYCVerification`, and the verification
session at Stripe. Only the start of a session locks anything; every other save
is a step, and a request may end after any of them (`Fail`).

| step | code |
|---|---|
| `Start`, `ReadStep`, `SaveStep`, `Expire`, `Cleanup` | `StartProfileCompletionView`, the steps' views, `expires_at`, the management command |
| `Complete`, `ReadProfile`, `DetachAddress`, `FillProfile`, `CreateProfile`, `SaveLegalInfo`, `CreateLawyer`, `CloseSession` | `CompleteProfileView`, save by save |
| `ReadKyc`, `InsertKyc` | `KYCVerificationView.post` |
| `IdentityChange`, `HandleKyc`, `SaveKyc` | Stripe; the webhook, which saves the lawyer's status (`update_from_stripe_data`) and then the check |
| `AdminSets`, `ReadLawyer`, `SaveLawyer` | the admin's actions; the lawyer's edit of the profile, which saves every field as read |

What the code does that the model keeps: a step saved after a completion opens
the session again (`reopened`); a step or a completion saved after the cleanup
inserts the deleted session again; a canceled check is never started anew; while
two different events are handled at once, an edit is saved late or an admin acts,
the lawyer's row and the check may differ until the next event (`disturbed`).

Abstracted: what a step enters besides the category, the required fields and the
legal information; the address itself (a crash between detaching the old one and
saving leaves a profile without); an identity event that comes before the row is
inserted (it is logged and lost: events here follow the insert); and the session
at Stripe that the later of two overlapping starts leaves behind.

## 3. The runs

All runs are in `PROJECT.json`. State counts are those of the given constants.

| run | asks | bounds and why they are enough |
|---|---|---|
| `EscrowSafe` | does the money go one way only, once, after the end, and is nothing pending left behind, in any order of handlers, events and tasks; is the settlement as `Settlement` promises; does an unpaid booking end, is every refund of Stripe's recorded | one video and one physical appointment, two refunds: 303,754 states. Two refunds are the fewest with an old and a new REFUND for one appointment (`.first()` matters then). Appointments share no state besides the refund numbering, so a second video appointment adds little but states (more than 3 million) |
| `WalletLocking` | do the handlers that lock the wallet implement `Ledger`; do the books balance; does a lock stop withdrawals | three workers, two appointments (fees 2 and 3), two withdrawals (2 and 3): 6,310 states. With three workers one can be between check and commit while two others complete or withdraw; the amounts make the balance cover none, one or both withdrawals |
| `WalletSerial` | does every handler implement `Ledger` when it runs alone | one worker, all handlers, one withdrawal per admin action: 1,046 states |
| `WalletAll` | is an escrow released once; does every request end | two workers, all handlers, admin actions on up to two withdrawals: 263,218 states |
| `BookingSafe` | does the lawyer's lock prevent double booking | two workers, three requests (an hour, its repetition, half an hour), three starts: 13,706 states. An hour on half-hour starts overlaps partly, wholly or not at all with the others |
| `BookingAll` | one appointment for a key, every request answered, with every handler | two workers, three requests, two starts: 25,403 states |
| `BookingReschedule` | finding: `NoLawyerDoubleBooking` | two workers, creation and reschedule |
| `AvailabilitySafe` | do slots and blocks stay apart; do calendar and time check agree | one worker, three rows, two offerings, two weekdays, two dates, three times: 711,144 states. Three rows let a copy meet a slot in its way, and a block lie on a slot next to another; the times give intervals that touch, contain and equal each other, and one of them before 06:00, which only a bulk request brings in |
| `SessionSafe` | does an active session have somebody; is the duration measured; does an ended one stay ended | two participants, two workers, three clock readings, the end of the appointment at the second: 546,138 states. Two workers suffice for every pair of requests to overlap, of one participant or both; three readings separate start, leave and a return |
| `SubscriptionSafe` | is who does not pay off the list, though events are repeated or cut short and views save a status; is a row that ends unpaid delisted, in any order of events (both but for edits of the profile); is the listing right when nothing went wrong; one default card; is a voucher applied within its limit | one vendor, two cards, two workers, a voucher of one use, three changes at Stripe: 822,955 states. Three changes are a trial, a failure and a recovery (or a cancellation), of which the events may come in any order; vendors share the voucher only, which the two workers compete for |
| `AccountSafe` | does a code work once, are its tries counted, is the cooldown kept; is no token live but the last, none from before a password change | two addresses, two workers, two tries, cooldown 1, validity 2, signed tokens valid for 3 and for resending for 2, two pairs of tokens, one change of password: 806,029 states. The cooldown ends strictly inside the validity, and that inside the life of the signed tokens, so that resending, locking and expiry are told apart |
| `OnboardingSafe` | does a completed session have what it stands for, however completions overlap or end halfway; one open session; do the two rows of the check agree; verified only by Stripe or an admin | two sessions, two workers, lawyers and notaries, one required field: 1,443,018 states. Two workers complete one session, or two, at once; two events are handled at once |

`SubscriptionSafe`, `AccountSafe` and `OnboardingSafe` have state constraints, each
named with its reason in the MC module. `OneAtATime` follows a subscription past its second
change with one worker (or two that redeem the voucher), because the cards and
the billing touch only where Stripe is told of a card. `CheckAlone` begins the identity check when
the wizard is done and `StepAlone`, `InOrder` and `OneExpires` bound how steps
and expiries interleave: the two halves of `Onboarding` share the lawyer's row
only at its creation. `CodesApart` lets codes and overlapping token
requests meet only where one lets the other in. The theorems about the three
modules have no such bound.

`CHECK_DEADLOCK FALSE` in every configuration: the systems may stop, since ids,
requests and refunds are finite and nobody has to press a button. That no
handler is stuck in the middle is `RequestsFinish`. It does not show that the
database never finds a deadlock: in `WalletLedger` the wallet's row is only locked
in a step that ends with the commit, so nobody waits there while holding it.

Type invariants and the strengthenings the proofs use (`EscrowInv` and those in
the proof modules) are proved, so no run checks them again.
`DisputeFreezesEscrow` is an action property: after a dispute the payment is not
pending, although the handler picks the newest pending transaction of any type.
`StripeRefundIsRecorded` asks that a refund Stripe made ends as a completed
transaction, also when a rejection had cancelled that or a dispute failed it,
unless Stripe reports that the refund failed or the appointment was deleted.
`WalletLocking` leaves out `mark_appointment_completed`, which does not lock the
wallet: what it does to the books is in section 6. `WalletSerial` is about the
bookkeeping of each handler, not about overlaps.

## 4. Fairness

* `Escrow`: weak fairness of `delete_unpaid_appointment`, because Celery runs
  every scheduled task and retries it when it fails. A task is revoked only by
  the handler that confirms the appointment, so `PendingIsTemporary` uses the
  fairness of a task that nobody revoked. A task that is lost with its worker
  (Celery acknowledges it before it runs) is outside this assumption. Weak
  fairness of the first handling of `refund.created`, because Stripe retries an
  event until it is answered; `RefundUnreported` says of which refunds none was
  handled yet, whatever a rejection or a dispute did to the transaction. No fairness of users, admins, time, or of Stripe
  sending anything.
* `WalletLedger`: weak fairness of each worker that is inside a handler.
* `Booking`: the same, and strong fairness of `CreateLock`, because PostgreSQL
  queues the waiters of a row lock: a worker that waits for the lawyer's row is
  not overtaken for ever.
* `Availability`, `Session`, `Subscription`, `Account` and `Onboarding` state no
  fairness and no liveness: nothing there has to happen, but for Stripe's
  deliveries, and what holds when those are through is stated as an invariant of
  the states without mail (`UnpaidIsDelisted`, `ListedIffPaid`, `KycAgrees`).

## 5. The proofs

`tlapm` checks every proof to its last leaf. Every invariant and every action
property of the runs is a theorem, and so are both refinements. Only checked by
TLC is liveness (`PendingIsTemporary`, `StripeRefundIsRecorded`, `RequestsFinish`
of `Booking` and of `WalletLedger`), for which `tlapm` has no reasoning about
`ENABLED`. What each rests on besides fairness is proved: whoever waits there
waits for a step that can be taken (`PendingIsWatched`, `ChargeRefundedOnce` and
`NobodyHoldsAndWaits`, once for each of the two modules).

**`EscrowProofs`**, from `PaidAssumption` and `MaxRefundsAssumption`, for any
set of appointments and any bound on refunds. `EscrowInv` is inductive. Its safety
parts are not inductive alone: that a completion credits for the first time needs
`CreditedIsSettled` (a credited payment is no longer pending, and only a pending
one is released); that a cancellation refunds nothing that was paid needs
`CreditedOnlyAfterEnd` together with the deadline in its guard, since the
deadline is before the end; that a new REFUND transaction is fresh needs
`RefundsNumbered`, as does that Stripe's events are about refunds that exist; and
that a booking starts from nothing needs `AbsentHasNothing`. Proved from it:
`PaidOnce`, `PaidAfterEnd`, `NeverPaidAndRefunded` (in particular the wallet
credit inside `_reject_refund` is never reached), `ReviewFollowsClosing`,
`DeletionSettles`, `DisputeFreezes`.

`EscrowImplementsSettlement` is the refinement of `Settlement`. It needs one more
invariant, `BookedHasPayment` (a paid booking has its payment from the start, and
Stripe reports on no other). The proof has one lemma per kind of step: what
books, releases, marks a payment, cancels, pays back or fails a refund maps to the
action of that name in `Settlement`, and everything else to a stutter.
`EscrowDecidedForGood` follows from the refinement without a look at a handler:
released and closed are final, and released money is never refunded.

`PendingIsWatched`: an unpaid booking always has a scheduled task, and the task
ends the wait. `ChargeRefundedOnce` is about Stripe's side: its invariant
`StripeInv` says that a refund was announced when it was made, that it is of a
charge, and that no two stand for one appointment. A repeated approval, a lost
answer or the second cancellation of a revived appointment therefore pays nobody
twice, and a refund Stripe has made has its event, which finds the appointment
until it is deleted (`RefundIsAnnounced`).

`OnlyRescheduleSkipsCharge` and `OnlyRefusedCancelKeepsEscrow` are about promises
that the code breaks (section 6). Each says that in every behaviour without the
one step named in its hypothesis the promise holds; so nothing else breaks it.

**`WalletLedgerProofs`**, from `WalletFeeAssumption`, `WalletAmountAssumption`,
`HandlerAssumption` and `RowAssumption`, for any number of workers, appointments
and withdrawals. `LockingImplementsLedger` assumes that `Handler` is within the four
handlers that lock the wallet's row (or do not touch its balance); its invariant `LockingInv` says that a worker inside an
approval approves payouts that are pending or completed, so approving one twice
is a stutter of the ledger. `SerialImplementsLedger` is about all handlers, one
worker, and admin actions on one withdrawal each: `SerialInv` says that what the
worker has read is still so when it writes, but for the lock. So it is the
overlap, or two withdrawals in one bulk rejection, that loses money.

`LedgerKeepsBooks` proves `BooksBalance` of `Ledger`, hence of everything that
implements it (`LockingKeepsBooks`, `SerialKeepsBooks`). The sum in it is a
recursive function over the subsets of a finite set; that the function exists,
and that a sum changes by what is added or taken away, are lemmas, proved by an
induction which is stated of a set of naturals instead of a predicate
(`NatInductionOnSet`) and rests on the well-ordering of the naturals.

About every handler: `CompletionReleasesOnce` and `LockedWalletRefuses`, where
`CreditInv` says that a worker about to credit holds the appointment's row lock
and the payment is still pending; `NobodyHoldsAndWaits`, where a rejection holds
the row of the one withdrawal it is about; `WalletTypeCorrect`; and
`NeverOverdrawn`, where `WalletTyped` says that nobody ever read a negative balance
either. Updates may be lost, but each writes what was once the balance with
something added, or takes from it what it covers, read in the same step.

`SettlesOnce` and `LockLastsWithoutCompletion` say when the promises of section
6 do hold. In `SettlesOnce` the admins only approve or only reject (`VerdictInv`:
what a worker read as pending is pending, or decided as the worker will), or
handlers run one at a time. The lock of a wallet lasts without
`mark_appointment_completed`.

**`BookingProofs`**, from `RequestAssumption`, `TimeAssumption`, `KeyAssumption`,
`ProcAssumption`. `LawyerNeverDoubleBooked` assumes creation, cancellation and
the deletions only: `BookingReschedule` shows that it is false with reschedule, and a
confirmation can bring a deleted booking back on a slot taken since. `CalendarInv` says that
a worker between lock and commit holds the lawyer's row and that what it
validated still stands. `KeyBooksOnce` is about every handler; `KeyInv` says that
a request that was ever created owns its key's transaction for good, and that a
worker changing an appointment changes one that was created. `BookingTypeCorrect`
is the type invariant that both need.

`ClientOfOneLawyerNeverDoubleBooked` is rule 7 as far as the lawyer's lock carries
it: `ClientStands` says that what was validated for the client still stands, since
the other bookings of that client need the same lock. `SerialNeverDoubleBooks` is
about one worker and all handlers but the late confirmation: reschedules included,
each of them takes a slot that it found free. `NobodyHoldsAndWaits` is about every
handler.

**`AvailabilityProofs`**, from `TimeOfDayAssumption` and `DateAssumption`.
`ScheduleNeverOverlaps` and `WindowHasOneOffering` assume one worker at a time;
the invariant adds `WorkStands` to the absence of clashes: what the worker is
about to write clashes neither with the rows nor with the rest of what it
writes. `ListedSlotsAreBookable` assumes nothing about workers: a block that
overlaps a window inside a slot overlaps the slot.

**`SessionProofs`**, from `SessionTimeAssumption`, for any participants and any
number of workers. `SessionTypeCorrect` needs `StartsArePast`: durations are
computed from old copies and are natural numbers all the same.
`ActiveHasSomeone` (theorem `ActiveSessionHasSomeone`) is about every overlap;
its invariant is that who joins has a row. `DurationIsThatOfTheCall` and
`EndedSessionStaysEnded` are about requests that never overlapped: `SerialInv`
says that what the one worker holds is the row as it is, and that the row is
that of one call.

**`SubscriptionProofs`**, from `UsageAssumption` and `VersionAssumption`, for any
vendors, cards, workers and number of changes. `UnpaidVendorIsDelisted` rests on
`Told`: from some version on the vendor does not pay, and either the event that
says so is still in the mail, or the vendor is off the list and only an event older
than one already handled could put it back; it is kept as long as no edit of the
profile changes the listing. `ListingFollowsPayment` is the exact statement for a
vendor whom no view, no end of a worker and no such edit disturbed: `Reported` says
that from some version on all events in the mail have the present standing, and
either one of them is still to be handled, or one was and the row and the listing
say the same. The unpaid statuses are one standing (`Standing`), because the handlers
treat them alike. `DelistedWithUnpaidRow` needs what events of each type may carry. `OneDefaultCard` and `VoucherWithinLimit` are
invariants of the card and voucher statements by themselves, with the types of
what the workers have read (`JobInv`).

**`AccountProofs`**, from `AttemptAssumption`, `TimeAssumption`, `BoundAssumption`,
for any attempts, times, addresses and number of workers. `OneRequestPerCode`,
`WrongEntriesAreCounted` and `NoCodeWithinCooldown` follow from `CodesAgree`: a
stored code was never used, its counter is the number of wrong entries, and its
age is the time since it was sent; `NoCodeWithinCooldown` leaves out the kinds of
which a message failed (`lost`), since the failure deletes the record. `StoredCodeIsExpected` says that no view which
takes back `has_initiate_login` leaves a code behind. `LiveTokenIsTheLast` and
`NewPasswordRevokes` are about requests none of which stored its pair over one it
had not read, and the second about the tokens that are there when a password is
saved and a revocation that came to its end; `Room` bounds the pairs that may still
be stored.

**`OnboardingProofs`**, from `CategoryAssumption`, for any sessions, categories,
required steps and number of workers. `WizardInv` says what a worker has done of a
completion is there (`WizardJob`), with which `CompletedSessionHasProfile` and
`UserHasOneOpenSession` hold. `CheckInv` says that results handled without
disturbance are all the same, that the lawyer's row has theirs already, and that the
check has it too or the event is still to be answered (`ResultInv`); from it
`StatusOfCheckAgrees` and `VerifiedMeansVerified`.

## 6. Where code and documents disagree

`BookingReschedule` is a finding with a run that ends in the shortest
counterexample: a reschedule checks, a creation checks and commits under its
lock, the reschedule saves, and two appointments are on one slot (`views.py:680`).

Further statements of the documents are defined in `Escrow` and `WalletLedger`,
and are not in a run because each is broken by a short behaviour of the code that
was found while modelling. For some a theorem shows that there is no other way, or
what remains:

| definition | shortest behaviour that breaks it |
|---|---|
| `CreditedOnlyIfCharged` | book, reschedule before paying (the reschedule confirms, `views.py:670`), the deletion task keeps what is not pending, complete after the end: the lawyer is credited and nobody was charged. `OnlyRescheduleSkipsCharge`: no other step does it |
| `BooksBalance`, with every handler | two completions read one balance, one credit is lost (`views.py:961`; `README.md:278`); or two rejections in one bulk action add to two copies of the same old balance (`lawyer_wallet/admin.py:524`). `LockingKeepsBooks`, `SerialKeepsBooks`: only overlap and bulk actions |
| `CancelledEscrowIsClosed` | book, pay, cancel in time without a refund key: answered with 400, but the return is inside `transaction.atomic()`, so the cancellation is committed and the payment stays pending (`views.py:470`; `docs/guide/TRANSACTION.md:23-25`). `OnlyRefusedCancelKeepsEscrow`: no other step does it |
| `ChargedAppointmentExists` | book; the card is declined; `payment_intent.payment_failed` deletes the row but the PaymentIntent stays open; the client tries again and is charged; the event finds no appointment and is logged (`webhook.py:149,182`). The deletion task has the same effect (`tasks.py:45`) |
| `ApprovalProcessesRefund` | book, pay, cancel with a refund; a dispute fails the pending REFUND transaction; the approval finds none and returns `False` inside the atomic block, so APPROVED is committed (`admin.py:457-458`; `docs/guide/TRANSACTION.md:29-31`) |
| `RejectionCompletesPayment` | book, pay, cancel with a refund, reject: the cancellation has already made the payment CANCELLED (`views.py:545-553`), so the rejection finds nothing to complete (`admin.py:464,487`) |
| `FinishedStaysFinished` | book, pay, cancel, then `payment_intent.succeeded` arrives (again): CONFIRMED (`webhook.py:123`; `README.md:88`) |
| `RejectedIsNotRefunded` | book, pay, cancel with a refund, approve with the answer lost (Stripe has refunded; the request is PENDING again, `admin.py:450-452`), reject |
| `SettledPayoutIsFinal` | two admins open one withdrawal, one approves, the other rejects: both instances say PENDING (`lawyer_wallet/admin.py:488-529`). `SettlesOnce`: it takes an approval that overlaps a rejection |
| `LockLasts` | a completion reads the wallet, an admin locks it, the completion saves every field (`views.py:962`). `LockLastsWithoutCompletion`: no other handler does it |

Every view that edits a `VendorProfile` saves all its fields as it read them,
`is_active` among them (`profiles/views.py:577`, 695, 734, 791, 820; the last with an
upload to Cloudinary between read and save). A webhook that delists the vendor in
between is undone, and a vendor who does not pay stays listed with every event
handled, against `README.md:460-462`. `SaveProfile` is that save, and
`UnpaidIsDelisted`, `UnpaidRowIsDelisted` and `ListedIffPaid` are about vendors to whom
it did not happen.

`ListedIffPaid` of `Subscription` is about subscriptions that no view touched: when
`RetryFailedPayment` or activation saves "active" first, the webhook sees no
change and the vendor stays off the list (`subscriptions/views.py:498`), against
`README.md:460-462` (the listing is active while the subscription is, and comes
back when billing is resolved). `AppliedWithinLimit` is about vouchers that no
activation redeemed: two activations at once read one `used_count`
(`subscriptions/views.py:170`), against `README.md:315`.

`README.md:366` ("After 5 failed attempts the account is locked for 30 minutes")
describes something the code does not have: `password_attempt` is counted and
`MAX_LOGIN_ATTEMPTS` is read by nothing, so `Account` has no lockout of logins. The
attempts of a one-time code are limited, and `TriesAreCounted` is about those.

A message that fails deletes the record of its code (`redis_otp_service.py:411-414`,
736-740), and with it the only record of when the code before it was sent. A login
or a reset sends with `force`; when that message fails within 60 seconds of an
earlier code, the next request to resend finds nothing to wait for, against
`docs/guide/Auth.md:30`. `CooldownIsKept` excludes exactly that (`lost`).

`users/views.py:1263` says "Invalidate all existing tokens for security" after a
change of password. A login that was let in under the old password (line 246) and
stores its pair (line 379) after the change keeps it. `PasswordChangeRevokes` does
not claim otherwise: it is about the tokens stored before the password was saved. Nor
are the save and the revocation one (lines 1260-1264, 1491-1500): when the worker
ends or Redis fails in between, the old tokens stay until the next revocation
(`owed`).

`NoOverlap` of `Availability` is kept by one worker at a time only: two requests
find one date free and both block it, or two find one day free and both put a
slot on it, since nothing is locked between `clean` and the INSERT
(`lawyer_availability/models.py:103,233`), against `README.md:60` ("Full overlap
validation on save").

Smaller disagreements, noted and not checked: a reschedule sets CONFIRMED where
`TRANSACTION.md:20` says RESCHEDULED; `README.md:538` lets a lawyer cancel and
`serializers.py:194-198` does not for paid appointments; `README.md:418` calls
the refund automatic and it waits for an admin; `calculate_refund_amount`,
`process_refund_via_stripe` and two notification tasks are never called; a
no-show leaves its payment pending; rule 7 (no two appointments of one client at
one time, `views.py:369`) is checked under the lawyer's lock, so two requests to
two lawyers pass it at once (`ClientOfOneLawyerNeverDoubleBooked`: clients of one
lawyer are safe); a `refund.failed` handled before its
`refund.created` leaves the REFUND transaction completed; the calendar and the
time check look at slots and blocks and not at appointments, while
`README.md:489` has the time check "confirm the slot is still free"; a copy does
not switch on an inactive slot that is there already, so `README.md:588` ("Clone
one day's schedule") holds for active days only; the calendar drops a slot that a
block touches, of which the time check still accepts the rest.

## 7. What is not modelled

* Kept out for good: serializers' formats, statistics and list views, e-mail and
  notification texts, Agora tokens, Cloudinary uploads, the WebSocket consumer
  (no state), settings, and edits of raw fields in the admin's change forms; reminders
  (messages only); services, media and certificates of a profile (rows of one owner with
  no rule between them), and of the edits of a finished one everything but the
  listing that they save; offerings' prices
  and service types; plans and the list of invoices.
* Of the modelled components: handlers of `Escrow` are not interleaved inside
  (see the plan; `WalletLedger` and `Booking` are), and the crash of a
  worker inside a transaction is a rollback, that is, no step; after Stripe has
  been called it is `ApproveRefundAnswerLost`. Webhooks of `Subscription` and all
  requests of `Account` but those that store tokens or set a password are single steps. What each
  module abstracts is listed with it above.

## 8. Plan

Built, in this order: `Escrow`, `WalletLedger` with `Ledger`, `Booking` and
`Availability`, because money and slots are what the system is for; then
`Session`, `Subscription`, `Account`, `Onboarding`, and `Settlement`, which `Escrow`
implements. Each has its proofs. What is left:

1. `EscrowRace`: cancellation, approval, payment webhook and deletion split at
   their reads and saves. The refund handlers take no row lock, so much of what
   `Escrow` promises fails there; the work is in stating what remains, such as
   which side the money can go to when two handlers of one appointment overlap.
2. Webhooks of `Subscription` that overlap, and code entries of `Account` that do:
   both are get-then-set on one record.
3. Prices: an offering's price and an appointment's `lawyer_amount` under edits.
4. Proofs: of the present modules, the statements that survive an overlap which the
   runs show to be harmful, as `SettlesOnce` is one: the books with one bulk action
   at a time, and the calendar with reschedules of different lawyers.
