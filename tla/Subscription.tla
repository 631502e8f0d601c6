---------------------------- MODULE Subscription ----------------------------
(***************************************************************************)
(* Vendors' subscriptions: the row of VendorSubscription, whether the      *)
(* vendor is listed, the cards, one voucher, and the events by which       *)
(* Stripe reports what happened to a subscription.                         *)
(*                                                                         *)
(* Stripe numbers nothing; it delivers events in any order, and again when *)
(* it got no answer. Here each change of a subscription at Stripe has a    *)
(* version, and its events carry the version and the status of that time.  *)
(* A webhook is one step, which may be cut short by the end of the worker  *)
(* (Crash). The views that redeem a voucher, choose a card or save a       *)
(* profile are several steps, with what they have read kept in job; the    *)
(* others are one.                                                         *)
(***************************************************************************)
EXTENDS Integers, FiniteSets

CONSTANTS
    Vendor,
    Card,
    Proc,         \* web workers
    UsageLimit,   \* of the voucher
    MaxVersion    \* bound on the changes of a subscription at Stripe

ASSUME UsageAssumption == UsageLimit \in Nat
ASSUME VersionAssumption == MaxVersion \in Nat

VARIABLES
    stripe,      \* the subscription at Stripe
    mail,        \* the events Stripe delivers until it gets an answer,
    last,        \* and the version of the newest that was handled
    sub,         \* the rows of VendorSubscription
    listed,      \* VendorProfile.is_active
    upset,       \* how it went another way than one event after the other
    card,        \* the rows of PaymentMethod
    blind,       \* an activation did not see a card that was added meanwhile
    used,        \* Voucher.used_count
    redeemed,    \* how often the voucher was redeemed, by which kind of view
    job          \* what each worker has read

billing == <<stripe, mail, last, sub, listed, upset>>
cards   == <<card, blind>>
voucher == <<used, redeemed>>
vars    == <<billing, cards, voucher, job>>

Paid   == {"trialing", "active"}
Unpaid == {"past_due", "unpaid", "canceled"}
Status == Paid \cup Unpaid

Version == 0 .. MaxVersion
Event   == [type : {"created", "updated", "deleted", "succeeded", "failed"},
            status : Status, canceled : BOOLEAN, version : Version]
Row     == [status : Status \cup {"none"}, canceled : BOOLEAN]
AtStripe == [status : Status \cup {"none"}, cancel : BOOLEAN, card : BOOLEAN,
             version : Version]

Idle == [at |-> "idle"]
Job  == {Idle}
        \cup [at : {"activate"}, vendor : Vendor, row : Row, seen : SUBSET Card,
              voucher : BOOLEAN, used : Nat]
        \cup [at : {"apply"}, vendor : Vendor, row : Row, used : Nat]
        \cup [at : {"choose", "clear", "delete"}, vendor : Vendor, card : Card]
        \cup [at : {"edit"}, vendor : Vendor, listed : BOOLEAN]

TypeOK ==
    /\ stripe \in [Vendor -> AtStripe]
    /\ mail \in [Vendor -> SUBSET Event] /\ last \in [Vendor -> Version]
    /\ sub \in [Vendor -> Row] /\ listed \in [Vendor -> BOOLEAN]
    /\ upset \in [Vendor -> {"no", "reordered", "disturbed", "edited"}]
    /\ card \in [Vendor -> [Card -> {"absent", "plain", "default"}]]
    /\ blind \in [Vendor -> BOOLEAN]
    /\ used \in Nat /\ redeemed \in [{"activate", "apply"} -> Nat]
    /\ job \in [Proc -> Job]

Init ==
    /\ stripe = [v \in Vendor |-> [status |-> "none", cancel |-> FALSE,
                                   card |-> FALSE, version |-> 0]]
    /\ mail = [v \in Vendor |-> {}] /\ last = [v \in Vendor |-> 0]
    /\ sub = [v \in Vendor |-> [status |-> "none", canceled |-> FALSE]]
    /\ listed = [v \in Vendor |-> TRUE]
    /\ upset = [v \in Vendor |-> "no"]
    /\ card = [v \in Vendor |-> [c \in Card |-> "absent"]]
    /\ blind = [v \in Vendor |-> FALSE]
    /\ used = 0 /\ redeemed = [k \in {"activate", "apply"} |-> 0]
    /\ job = [p \in Proc |-> Idle]

-----------------------------------------------------------------------------
(* Stripe.                                                                 *)

\* The subscription of v changes to s, which is reported by events of types T.
StripeChange(v, s, T) ==
    /\ stripe[v].version < MaxVersion
    /\ stripe' = [stripe EXCEPT ![v] = [s EXCEPT !.version = stripe[v].version + 1]]
    /\ mail' = [mail EXCEPT ![v] = @ \cup
                   [type : T, status : {s.status}, canceled : {s.cancel},
                    version : {stripe[v].version + 1}]]

Billed(v, status, T) ==
    /\ StripeChange(v, [stripe[v] EXCEPT !.status = status], T)
    /\ UNCHANGED <<last, sub, listed, upset, cards, voucher, job>>

\* The trial or a period ends: cancelled, or a card is charged. That takes
\* days, so the row was inserted long before.
PeriodEnds(v) ==
    /\ stripe[v].status \in Paid /\ sub[v].status # "none"
    /\ IF stripe[v].cancel
       THEN Billed(v, "canceled", {"deleted"})
       ELSE \/ stripe[v].card /\ Billed(v, "active", {"updated", "succeeded"})
            \/ Billed(v, "past_due", {"updated", "failed"})

\* Stripe charges a failed payment again, or stops doing so.
Dunning(v) ==
    /\ stripe[v].status = "past_due"
    /\ \/ stripe[v].card /\ Billed(v, "active", {"updated", "succeeded"})
       \/ Billed(v, "unpaid", {"updated"})
       \/ Billed(v, "canceled", {"deleted"})

-----------------------------------------------------------------------------
(* Webhooks: the row and the listing that each handler leaves.             *)

\* When a subscription has left its trial at Stripe, trial_end has passed.
TrialJustEnded(v, new) ==
    sub[v].status = "trialing" /\ (new # "trialing" \/ stripe[v].status # "trialing")

\* handle_trial_to_paid_transition: any other status than active delists.
TrialToPaid(e) == e.status = "active"

HandleCreated(v, e) ==
    [row |-> [sub[v] EXCEPT !.status = e.status], listed |-> listed[v]]

\* Fault: what ends the trial of a row leaves the listing alone.
HandleUpdated_NoTrial(v, e) ==
    [row    |-> [status |-> e.status, canceled |-> sub[v].canceled \/ e.canceled],
     listed |-> IF sub[v].status = "trialing" THEN listed[v] ELSE e.status \in Paid]

\* canceled_at is set and never cleared.
HandleUpdated(v, e) ==
    [row    |-> [status |-> e.status, canceled |-> sub[v].canceled \/ e.canceled],
     listed |-> CASE TrialJustEnded(v, e.status) -> TrialToPaid(e)
                  [] ~TrialJustEnded(v, e.status) /\ e.status = "active"
                        /\ sub[v].status # "active" -> TRUE
                  [] ~TrialJustEnded(v, e.status) /\ e.status \in Unpaid
                        /\ sub[v].status \notin Unpaid -> FALSE
                  [] OTHER -> listed[v]]

HandleDeleted(v, e) ==
    [row |-> [status |-> "canceled", canceled |-> TRUE], listed |-> FALSE]

\* Fault: only an update lists the vendor again.
HandlePaymentSucceeded_RowOnly(v, e) ==
    [row |-> [sub[v] EXCEPT !.status = "active"], listed |-> listed[v]]

\* Also for the first invoice of a trial, which is over nothing.
HandlePaymentSucceeded(v, e) ==
    [row    |-> [sub[v] EXCEPT !.status = "active"],
     listed |-> sub[v].status # "active" \/ listed[v]]

\* Fault: a row that is past due already is left as it is.
HandlePaymentFailed_Once(v, e) ==
    [row    |-> [sub[v] EXCEPT !.status = "past_due"],
     listed |-> listed[v] /\ sub[v].status = "past_due"]

HandlePaymentFailed(v, e) ==
    [row |-> [sub[v] EXCEPT !.status = "past_due"], listed |-> FALSE]

Handler(v, e) ==
    CASE e.type = "created"   -> HandleCreated(v, e)
      [] e.type = "updated"   -> HandleUpdated(v, e)
      [] e.type = "deleted"   -> HandleDeleted(v, e)
      [] e.type = "succeeded" -> HandlePaymentSucceeded(v, e)
      [] e.type = "failed"    -> HandlePaymentFailed(v, e)

\* Bound: a subscription is disturbed in one way only.
Upset(v, what) ==
    /\ upset[v] \in {"no", what}
    /\ upset' = [upset EXCEPT ![v] = what]

\* A webhook for e that gets as far as saving the row.
SaveEvent(v, e) ==
    /\ sub' = [sub EXCEPT ![v] = Handler(v, e).row]
    /\ last' = [last EXCEPT ![v] = IF @ < e.version THEN e.version ELSE @]

\* An event is delivered; Stripe may miss the answer and deliver it again.
\* Without the row of its subscription it is logged and answered.
Deliver(v) ==
    \E e \in mail[v] :
        /\ IF sub[v].status = "none" THEN UNCHANGED <<sub, listed, last>>
           ELSE /\ SaveEvent(v, e)
                /\ listed' = [listed EXCEPT ![v] = Handler(v, e).listed]
        /\ IF e.version < last[v] THEN Upset(v, "reordered") ELSE UNCHANGED upset
        /\ \/ mail' = [mail EXCEPT ![v] = @ \ {e}]
           \/ UNCHANGED mail
        /\ UNCHANGED <<stripe, cards, voucher, job>>

\* The worker ends after it saved the subscription and before it saved the
\* vendor. Stripe gets no answer.
Crash(v) ==
    \E e \in mail[v] :
        /\ sub[v].status # "none" /\ e.version >= last[v]
        /\ SaveEvent(v, e)
        /\ Upset(v, "disturbed")
        /\ UNCHANGED <<stripe, mail, listed, cards, voucher, job>>

-----------------------------------------------------------------------------
(* Views of the subscription.                                              *)

\* A completed profile, or InitTrialView, creates the subscription at Stripe;
\* then the row is inserted.
InitTrial(v) ==
    /\ stripe[v].status = "none"
    /\ StripeChange(v, [stripe[v] EXCEPT !.status = "trialing"], {"created", "succeeded"})
    /\ UNCHANGED <<last, sub, listed, upset, cards, voucher, job>>

InsertRow(v) ==
    /\ stripe[v].status # "none" /\ sub[v].status = "none"
    /\ sub' = [sub EXCEPT ![v].status = "trialing"]
    /\ UNCHANGED <<stripe, mail, last, listed, upset, cards, voucher, job>>

\* A view saves a status, which it took from Stripe, and not the listing.
SaveRow(v, row) ==
    /\ sub' = [sub EXCEPT ![v] = row]
    /\ IF row = sub[v] THEN UNCHANGED upset ELSE Upset(v, "disturbed")
    /\ UNCHANGED <<last, listed>>

\* Stripe lets a subscription be modified that has not ended.
Modifiable(v) == stripe[v].status \notin {"none", "canceled"} /\ sub[v].status # "none"

\* With cancel_at_period_end; without it, canceled_at is cleared.
Cancel(v, atEnd) ==
    /\ Modifiable(v)
    /\ StripeChange(v, [stripe[v] EXCEPT !.cancel = atEnd], {"updated"})
    /\ SaveRow(v, [status |-> stripe[v].status, canceled |-> atEnd])
    /\ UNCHANGED <<cards, voucher, job>>

Reactivate(v) ==
    /\ Modifiable(v) /\ sub[v].canceled
    /\ StripeChange(v, [stripe[v] EXCEPT !.cancel = FALSE], {"updated"})
    /\ SaveRow(v, [status |-> stripe[v].status, canceled |-> FALSE])
    /\ UNCHANGED <<cards, voucher, job>>

\* Pays the open invoice; when the card is declined nothing changes.
RetryFailedPayment(v) ==
    /\ sub[v].status \in {"past_due", "unpaid"}
    /\ stripe[v].status \in {"past_due", "unpaid"} /\ stripe[v].card
    /\ StripeChange(v, [stripe[v] EXCEPT !.status = "active"], {"updated", "succeeded"})
    /\ SaveRow(v, [sub[v] EXCEPT !.status = "active"])
    /\ UNCHANGED <<cards, voucher, job>>

-----------------------------------------------------------------------------
(* Cards. Each statement commits at once; Stripe is told last, and its     *)
(* refusal undoes nothing.                                                 *)

Rows(v) == {c \in Card : card[v][c] # "absent"}

Begin(p, j) == job[p] = Idle /\ job' = [job EXCEPT ![p] = j]
Goto(p, at) == job' = [job EXCEPT ![p].at = at]
Finish(p)   == job' = [job EXCEPT ![p] = Idle]

\* The rows C of the vendor are no longer the default.
Cleared(v, C) == [c \in Card |-> IF c \in C /\ card[v][c] = "default" THEN "plain"
                                 ELSE card[v][c]]

AddCard(v, c) ==
    /\ sub[v].status # "none" /\ card[v][c] = "absent"
    /\ card' = [card EXCEPT ![v][c] = "plain"]
    /\ UNCHANGED <<billing, blind, voucher, job>>

\* A card that was added, or is chosen, becomes the default: the others are
\* cleared, it is saved, which inserts it again if it was deleted,
ChooseDefault(p, v, c) ==
    /\ card[v][c] = "plain"
    /\ Begin(p, [at |-> "choose", vendor |-> v, card |-> c])
    /\ card' = [card EXCEPT ![v] = Cleared(v, Card)]
    /\ UNCHANGED <<billing, blind, voucher>>

SaveDefault(p) ==
    /\ job[p].at = "choose" /\ Goto(p, "clear")
    /\ card' = [card EXCEPT ![job[p].vendor][job[p].card] = "default"]
    /\ UNCHANGED <<billing, blind, voucher>>

\* Fault: the signal is not connected.
ClearOthers_NoSignal(p) ==
    /\ job[p].at = "clear" /\ Finish(p)
    /\ UNCHANGED <<billing, cards, voucher>>

\* and the signal of its save clears the others again.
ClearOthers(p) ==
    LET v == job[p].vendor
    IN  /\ job[p].at = "clear" /\ Finish(p)
        /\ card' = [card EXCEPT ![v] = Cleared(v, Card \ {job[p].card})]
        /\ \/ stripe' = [stripe EXCEPT ![v].card = TRUE]
           \/ UNCHANGED stripe
        /\ UNCHANGED <<mail, last, sub, listed, upset, blind, voucher>>

\* The view counts the cards and keeps the last one, but the router gives the
\* deletion an address of its own that does not come past the count.
ReadForDelete(p, v, c) ==
    /\ c \in Rows(v)
    /\ Begin(p, [at |-> "delete", vendor |-> v, card |-> c])
    /\ UNCHANGED <<billing, cards, voucher>>

\* In the transaction of the deletion a signal makes another the default.
DeleteCard(p) ==
    LET v == job[p].vendor
        c == job[p].card
    IN  /\ job[p].at = "delete" /\ Finish(p)
        /\ \/ /\ Rows(v) \subseteq {c}
              /\ card' = [card EXCEPT ![v][c] = "absent"]
           \/ \E d \in Rows(v) \ {c} :
                  card' = [card EXCEPT ![v] =
                              [Cleared(v, Card) EXCEPT ![c] = "absent", ![d] = "default"]]
        /\ UNCHANGED <<billing, blind, voucher>>

-----------------------------------------------------------------------------
(* The voucher.                                                            *)

\* Activation reads the row, and checks the voucher if it was given one.
ReadForActivation(p, v, withVoucher) ==
    /\ sub[v].status # "none"
    /\ withVoucher => used < UsageLimit
    /\ Begin(p, [at |-> "activate", vendor |-> v, row |-> sub[v], seen |-> Rows(v),
                 voucher |-> withVoucher, used |-> IF withVoucher THEN used ELSE 0])
    /\ UNCHANGED <<billing, cards, voucher>>

\* Then, in one transaction: it gives Stripe a new card and saves it as the
\* default, of which the signal clears the others it can see; it saves the
\* status Stripe answers, and the voucher as it was read, used once more.
Activate(p, c) ==
    LET j == job[p]
        v == j.vendor
    IN  /\ j.at = "activate" /\ Modifiable(v) /\ card[v][c] = "absent"
        /\ StripeChange(v, [stripe[v] EXCEPT !.card = TRUE], {"updated"})
        /\ \E added \in SUBSET (Rows(v) \ j.seen) :
               /\ card' = [card EXCEPT ![v] =
                              [Cleared(v, j.seen \cup added) EXCEPT ![c] = "default"]]
               /\ blind' = [blind EXCEPT ![v] = @ \/ Rows(v) \ j.seen # added]
        /\ SaveRow(v, [j.row EXCEPT !.status = stripe[v].status])
        /\ IF j.voucher
           THEN used' = j.used + 1 /\ redeemed' = [redeemed EXCEPT !["activate"] = @ + 1]
           ELSE UNCHANGED voucher
        /\ Finish(p)

\* Only an active subscription that is no longer on trial takes a voucher.
ReadForVoucher(p, v) ==
    /\ sub[v].status = "active" /\ stripe[v].status # "trialing"
    /\ Begin(p, [at |-> "apply", vendor |-> v, row |-> sub[v], used |-> used])
    /\ UNCHANGED <<billing, cards, voucher>>

\* Fault: the voucher is checked and used as it was read, not as it is locked.
ApplyVoucher_Unlocked(p) ==
    LET j == job[p]
        v == j.vendor
    IN  /\ j.at = "apply" /\ j.used < UsageLimit /\ Modifiable(v)
        /\ SaveRow(v, j.row)
        /\ used' = j.used + 1
        /\ redeemed' = [redeemed EXCEPT !["apply"] = @ + 1]
        /\ Finish(p)
        /\ UNCHANGED <<stripe, mail, cards>>

\* The voucher is read again under a lock, the subscription is not. Stripe's
\* event says nothing that the last one did not.
ApplyVoucher(p) ==
    LET j == job[p]
        v == j.vendor
    IN  /\ j.at = "apply" /\ used < UsageLimit /\ Modifiable(v)
        /\ SaveRow(v, j.row)
        /\ used' = used + 1
        /\ redeemed' = [redeemed EXCEPT !["apply"] = @ + 1]
        /\ Finish(p)
        /\ UNCHANGED <<stripe, mail, cards>>

\* The voucher is used up, or Stripe refuses.
Refuse(p) ==
    /\ job[p].at \in {"activate", "apply"} /\ Finish(p)
    /\ UNCHANGED <<billing, cards, voucher>>

-----------------------------------------------------------------------------
(* The profile.                                                            *)

\* A view reads the profile to edit it: names, address, avatar, or all of it.
ReadProfile(p, v) ==
    /\ Begin(p, [at |-> "edit", vendor |-> v, listed |-> listed[v]])
    /\ UNCHANGED <<billing, cards, voucher>>

\* It saves every field, and so the listing as it was read.
SaveProfile(p) ==
    LET j == job[p]
        v == j.vendor
    IN  /\ j.at = "edit" /\ Finish(p)
        /\ listed' = [listed EXCEPT ![v] = j.listed]
        /\ IF j.listed = listed[v] THEN UNCHANGED upset ELSE Upset(v, "edited")
        /\ UNCHANGED <<stripe, mail, last, sub, cards, voucher>>

-----------------------------------------------------------------------------

StripeStep(v) == PeriodEnds(v) \/ Dunning(v)

WebhookStep(v) == Deliver(v) \/ Crash(v)

ViewStep(v) ==
    \/ InitTrial(v) \/ InsertRow(v)
    \/ \E atEnd \in BOOLEAN : Cancel(v, atEnd)
    \/ Reactivate(v) \/ RetryFailedPayment(v)
    \/ \E c \in Card : AddCard(v, c)

WorkerStep(p) ==
    \/ \E v \in Vendor, c \in Card : ChooseDefault(p, v, c) \/ ReadForDelete(p, v, c)
    \/ SaveDefault(p) \/ ClearOthers(p) \/ DeleteCard(p)
    \/ \E v \in Vendor, withVoucher \in BOOLEAN : ReadForActivation(p, v, withVoucher)
    \/ \E v \in Vendor : ReadForVoucher(p, v)
    \/ \E c \in Card : Activate(p, c)
    \/ ApplyVoucher(p) \/ Refuse(p)
    \/ \E v \in Vendor : ReadProfile(p, v)
    \/ SaveProfile(p)

Next ==
    \/ \E v \in Vendor : StripeStep(v) \/ WebhookStep(v) \/ ViewStep(v)
    \/ \E p \in Proc : WorkerStep(p)

Spec == Init /\ [][Next]_vars

-----------------------------------------------------------------------------
(* Properties.                                                             *)

\* Every event was handled, and the row exists.
Quiet(v) == mail[v] = {} /\ sub[v].status # "none"

\* Once all events were handled, none after a newer one, a vendor who does not
\* pay is not listed: neither by a worker that died inside a webhook, nor by
\* an event that came twice, nor by any view that saved a status meanwhile. One
\* kind of request does list such a vendor, and is excluded here: an edit of the
\* profile that had read it before a webhook changed the listing.
UnpaidIsDelisted ==
    \A v \in Vendor :
        Quiet(v) /\ stripe[v].status \in Unpaid /\ upset[v] \notin {"reordered", "edited"}
            => ~listed[v]

\* And when no view saved a status, no worker died, and no edit put back an old
\* listing, the listing and the row say whether the vendor pays.
ListedIffPaid ==
    \A v \in Vendor :
        Quiet(v) /\ upset[v] = "no" =>
            /\ listed[v] <=> stripe[v].status \in Paid
            /\ sub[v].status \in Paid <=> stripe[v].status \in Paid

\* In whatever order the events come, and however often, a row that they left
\* unpaid is that of a vendor they have taken off the list, unless an edit put
\* back an old listing.
UnpaidRowIsDelisted ==
    \A v \in Vendor :
        sub[v].status \in Unpaid /\ upset[v] \notin {"disturbed", "edited"} => ~listed[v]

\* However the requests that choose, delete and add cards overlap, when they
\* are through no vendor has two default cards.
AtMostOneDefault ==
    \A v \in Vendor :
        ~blind[v] /\ (\A p \in Proc : job[p].at = "clear" => job[p].vendor # v) =>
            \A c, d \in Card : card[v][c] = "default" /\ card[v][d] = "default" => c = d

\* A voucher that is redeemed by applying it to active subscriptions only is
\* not redeemed more often than it may, whoever does so at once.
AppliedWithinLimit ==
    redeemed["activate"] = 0 => used = redeemed["apply"] /\ used <= UsageLimit
=============================================================================
