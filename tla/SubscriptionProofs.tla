------------------------- MODULE SubscriptionProofs --------------------------
(***************************************************************************)
(* Subscription, for any vendors, cards, workers and number of changes.    *)
(***************************************************************************)
EXTENDS Subscription, TLAPS

(***************************************************************************)
(* Types.                                                                  *)
(***************************************************************************)

BillingTypes ==
    /\ stripe \in [Vendor -> AtStripe]
    /\ mail \in [Vendor -> SUBSET Event] /\ last \in [Vendor -> Version]
    /\ sub \in [Vendor -> Row] /\ listed \in [Vendor -> BOOLEAN]
    /\ upset \in [Vendor -> {"no", "reordered", "disturbed", "edited"}]

CardTypes ==
    /\ card \in [Vendor -> [Card -> {"absent", "plain", "default"}]]
    /\ blind \in [Vendor -> BOOLEAN]

VoucherTypes == used \in Nat /\ redeemed \in [{"activate", "apply"} -> Nat]

\* Only an active subscription is given a voucher.
JobInv ==
    /\ job \in [Proc -> Job]
    /\ \A p \in Proc : job[p].at = "apply" => job[p].row.status = "active"

LEMMA JobTypes ==
  /\ Idle \in Job /\ Idle.at = "idle"
  /\ \A v \in Vendor, r \in Row, S \in SUBSET Card, w \in BOOLEAN, n \in Nat :
         [at |-> "activate", vendor |-> v, row |-> r, seen |-> S, voucher |-> w,
          used |-> n] \in Job
  /\ \A v \in Vendor, r \in Row, n \in Nat :
         [at |-> "apply", vendor |-> v, row |-> r, used |-> n] \in Job
  /\ \A v \in Vendor, c \in Card :
         /\ [at |-> "choose", vendor |-> v, card |-> c] \in Job
         /\ [at |-> "delete", vendor |-> v, card |-> c] \in Job
  /\ \A v \in Vendor, l \in BOOLEAN : [at |-> "edit", vendor |-> v, listed |-> l] \in Job
  /\ \A j \in Job :
         /\ j.at = "activate" => /\ j.vendor \in Vendor /\ j.row \in Row
                                 /\ j.seen \in SUBSET Card /\ j.used \in Nat
         /\ j.at = "apply" => j.vendor \in Vendor /\ j.row \in Row /\ j.used \in Nat
         /\ j.at \in {"choose", "clear", "delete"} => j.vendor \in Vendor /\ j.card \in Card
         /\ j.at = "choose" => [j EXCEPT !.at = "clear"] \in Job
         /\ j.at = "edit" => j.vendor \in Vendor /\ j.listed \in BOOLEAN
  <1>. DEFINE a == [at : {"activate"}, vendor : Vendor, row : Row, seen : SUBSET Card,
                    voucher : BOOLEAN, used : Nat]
              b == [at : {"apply"}, vendor : Vendor, row : Row, used : Nat]
              c == [at : {"choose", "clear", "delete"}, vendor : Vendor, card : Card]
              e == [at : {"edit"}, vendor : Vendor, listed : BOOLEAN]
  <1>1. Job = {Idle} \cup a \cup b \cup c \cup e /\ Idle.at = "idle"
    BY DEF Job, Idle
  <1>2. \A j \in a : /\ j.at = "activate" /\ j.vendor \in Vendor /\ j.row \in Row
                     /\ j.seen \in SUBSET Card /\ j.used \in Nat
    OBVIOUS
  <1>3. \A j \in b : /\ j.at = "apply" /\ j.vendor \in Vendor /\ j.row \in Row
                     /\ j.used \in Nat
    OBVIOUS
  <1>4. \A j \in c : /\ j.at \in {"choose", "clear", "delete"} /\ j.vendor \in Vendor
                     /\ j.card \in Card /\ [j EXCEPT !.at = "clear"] \in c
    OBVIOUS
  <1>5. \A v \in Vendor, r \in Row, S \in SUBSET Card, w \in BOOLEAN, n \in Nat :
           [at |-> "activate", vendor |-> v, row |-> r, seen |-> S, voucher |-> w,
            used |-> n] \in a
    OBVIOUS
  <1>6. \A v \in Vendor, r \in Row, n \in Nat :
           [at |-> "apply", vendor |-> v, row |-> r, used |-> n] \in b
    OBVIOUS
  <1>7. \A v \in Vendor, d \in Card :
           /\ [at |-> "choose", vendor |-> v, card |-> d] \in c
           /\ [at |-> "delete", vendor |-> v, card |-> d] \in c
    OBVIOUS
  <1>8. \A j \in e : j.at = "edit" /\ j.vendor \in Vendor /\ j.listed \in BOOLEAN
    OBVIOUS
  <1>9. \A v \in Vendor, l \in BOOLEAN : [at |-> "edit", vendor |-> v, listed |-> l] \in e
    OBVIOUS
  <1>. HIDE DEF a, b, c, e
  <1>. QED
    BY <1>1, <1>2, <1>3, <1>4, <1>5, <1>6, <1>7, <1>8, <1>9

LEMMA InitTypes == Init => BillingTypes /\ CardTypes /\ VoucherTypes /\ JobInv
  <1>. SUFFICES ASSUME Init
                PROVE  BillingTypes /\ CardTypes /\ VoucherTypes /\ JobInv
    OBVIOUS
  <1>1. stripe \in [Vendor -> AtStripe] /\ last \in [Vendor -> Version]
    BY VersionAssumption DEF Init, AtStripe, Version
  <1>2. mail \in [Vendor -> SUBSET Event] /\ listed \in [Vendor -> BOOLEAN]
        /\ upset \in [Vendor -> {"no", "reordered", "disturbed", "edited"}]
    BY DEF Init
  <1>3. sub \in [Vendor -> Row]
    BY DEF Init, Row
  <1>4. CardTypes /\ VoucherTypes
    BY DEF Init, CardTypes, VoucherTypes
  <1>5. JobInv
    BY JobTypes DEF Init, JobInv
  <1>. QED
    BY <1>1, <1>2, <1>3, <1>4, <1>5 DEF BillingTypes

-----------------------------------------------------------------------------
(* What the steps of billing do, whatever the invariant.                   *)

EventType == {"created", "updated", "deleted", "succeeded", "failed"}

LEMMA StripeChangeTypes ==
  ASSUME BillingTypes, NEW v \in Vendor, NEW s \in AtStripe, NEW T \in SUBSET EventType,
         s.status \in Status, StripeChange(v, s, T)
  PROVE  /\ stripe' \in [Vendor -> AtStripe] /\ mail' \in [Vendor -> SUBSET Event]
         /\ stripe'[v].status = s.status /\ stripe'[v].version = stripe[v].version + 1
         /\ \A w \in Vendor \ {v} : stripe'[w] = stripe[w] /\ mail'[w] = mail[w]
         /\ mail[v] \subseteq mail'[v]
         /\ \A e \in mail'[v] \ mail[v] : /\ e.type \in T /\ e.status = s.status
                                          /\ e.version = stripe[v].version + 1
         /\ \A t \in T : \E e \in mail'[v] : /\ e.type = t
                                             /\ e.version = stripe[v].version + 1
  <1>. DEFINE n == stripe[v].version + 1
              new == [type : T, status : {s.status}, canceled : {s.cancel}, version : {n}]
  <1>1. stripe[v] \in AtStripe /\ stripe[v].version \in Version
    BY DEF BillingTypes, AtStripe
  <1>2. n \in Version /\ s.status \in Status \cup {"none"} /\ s.cancel \in BOOLEAN
    BY <1>1, VersionAssumption DEF StripeChange, Version, AtStripe
  <1>3. \A e \in new : e.type \in T /\ e.status = s.status /\ e.version = n
    OBVIOUS
  <1>4. \A t \in T : \E e \in new : e.type = t /\ e.version = n
    <2>. SUFFICES ASSUME NEW t \in T
                  PROVE  \E e \in new : e.type = t /\ e.version = n
      OBVIOUS
    <2>. DEFINE e == [type |-> t, status |-> s.status, canceled |-> s.cancel, version |-> n]
    <2>. QED
      <3>1. e \in new /\ e.type = t /\ e.version = n
        OBVIOUS
      <3>. QED
        BY <3>1
  <1>5. new \subseteq Event
    BY <1>2 DEF Event, EventType
  <1>6. stripe' = [stripe EXCEPT ![v] = [s EXCEPT !.version = n]]
        /\ mail' = [mail EXCEPT ![v] = @ \cup new]
    BY DEF StripeChange
  <1>7. [s EXCEPT !.version = n] \in AtStripe
    BY <1>2 DEF AtStripe
  <1>8. mail'[v] = mail[v] \cup new /\ mail' \in [Vendor -> SUBSET Event]
        /\ \A w \in Vendor \ {v} : mail'[w] = mail[w]
    BY <1>5, <1>6 DEF BillingTypes
  <1>9. /\ stripe' \in [Vendor -> AtStripe]
        /\ stripe'[v] = [s EXCEPT !.version = n]
        /\ \A w \in Vendor \ {v} : stripe'[w] = stripe[w]
    BY <1>6, <1>7 DEF BillingTypes
  <1>10. stripe'[v].status = s.status /\ stripe'[v].version = n
    BY <1>9 DEF AtStripe
  <1>. HIDE DEF new
  <1>. QED
    BY <1>3, <1>4, <1>8, <1>9, <1>10

\* What a handler leaves.
LEMMA HandlerTypes ==
  ASSUME BillingTypes, NEW v \in Vendor, NEW e \in Event
  PROVE  Handler(v, e).row \in Row /\ Handler(v, e).listed \in BOOLEAN
  <1>. USE DEF Handler
  <1>1. sub[v] \in Row /\ sub[v].canceled \in BOOLEAN /\ listed[v] \in BOOLEAN
        /\ e.status \in Status /\ e.canceled \in BOOLEAN /\ e.type \in EventType
    BY DEF BillingTypes, Row, Event, EventType
  <1>2. CASE e.type = "created"
    BY <1>1, <1>2 DEF HandleCreated, Row
  <1>3. CASE e.type = "updated"
    <2>1. (sub[v].canceled \/ e.canceled) \in BOOLEAN
      BY <1>1
    <2>2. Handler(v, e).row \in Row
      BY <1>1, <1>3, <2>1 DEF HandleUpdated, Row
    <2>3. Handler(v, e).listed \in BOOLEAN
      BY <1>1, <1>3 DEF HandleUpdated, TrialToPaid
    <2>. QED
      BY <2>2, <2>3
  <1>4. CASE e.type = "deleted"
    BY <1>4 DEF HandleDeleted, Row, Status, Unpaid
  <1>5. CASE e.type = "succeeded"
    <2>1. (sub[v].status # "active" \/ listed[v]) \in BOOLEAN
      BY <1>1
    <2>. QED
      BY <1>1, <1>5, <2>1 DEF HandlePaymentSucceeded, Row, Status, Paid
  <1>6. CASE e.type = "failed"
    BY <1>1, <1>6 DEF HandlePaymentFailed, Row, Status, Unpaid
  <1>. QED
    BY <1>1, <1>2, <1>3, <1>4, <1>5, <1>6 DEF EventType

\* An event that says the vendor does not pay lists nobody, and one of two
\* types takes the vendor off the list.
LEMMA HandlerOfUnpaid ==
  ASSUME BillingTypes, NEW v \in Vendor, NEW e \in Event, e.type # "succeeded"
  PROVE  /\ Handler(v, e).row.status # "none"
         /\ e.status \in Unpaid => (Handler(v, e).listed => listed[v])
         /\ e.type \in {"failed", "deleted"} => ~Handler(v, e).listed
  <1>. USE DEF Handler, Status, Paid, Unpaid
  <1>1. e.status \in Status /\ e.type \in EventType
    BY DEF Event, EventType
  <1>2. CASE e.type = "created"
    BY <1>1, <1>2 DEF HandleCreated, BillingTypes, Row
  <1>3. CASE e.type = "updated"
    BY <1>1, <1>3 DEF HandleUpdated, TrialJustEnded, TrialToPaid
  <1>4. CASE e.type = "deleted"
    BY <1>4 DEF HandleDeleted
  <1>5. CASE e.type = "failed"
    BY <1>5 DEF HandlePaymentFailed, BillingTypes, Row
  <1>. QED
    BY <1>1, <1>2, <1>3, <1>4, <1>5 DEF EventType

\* No handler takes the row away.
LEMMA HandlerLeavesRow ==
  ASSUME BillingTypes, NEW v \in Vendor, NEW e \in Event
  PROVE  Handler(v, e).row.status # "none"
  <1>1. CASE e.type = "succeeded"
    BY <1>1 DEF Handler, HandlePaymentSucceeded, BillingTypes, Row
  <1>. QED
    BY <1>1, HandlerOfUnpaid

\* A handler that leaves the row unpaid leaves the vendor off the list, if one
\* whose row was unpaid was.
LEMMA HandlerDelists ==
  ASSUME BillingTypes, NEW v \in Vendor, NEW e \in Event,
         e.type = "created" => e.status = "trialing",
         sub[v].status \in Unpaid => ~listed[v]
  PROVE  Handler(v, e).row.status \in Unpaid => ~Handler(v, e).listed
  <1>. USE DEF Handler, Status, Paid, Unpaid
  <1>1. e.status \in Status /\ e.type \in EventType
    BY DEF Event, EventType
  <1>2. CASE e.type = "created"
    BY <1>1, <1>2 DEF HandleCreated, BillingTypes, Row
  <1>3. CASE e.type = "updated"
    BY <1>1, <1>3 DEF HandleUpdated, TrialJustEnded, TrialToPaid
  <1>4. CASE e.type = "deleted"
    BY <1>4 DEF HandleDeleted
  <1>5. CASE e.type = "succeeded"
    BY <1>5 DEF HandlePaymentSucceeded, BillingTypes, Row
  <1>6. CASE e.type = "failed"
    BY <1>6 DEF HandlePaymentFailed
  <1>. QED
    BY <1>1, <1>2, <1>3, <1>4, <1>5, <1>6 DEF EventType

-----------------------------------------------------------------------------
(* The inductive invariant of billing, one vendor at a time.               *)

EventInv(v, e) ==
    /\ e.version <= stripe[v].version
    /\ e.type = "created" => e.status = "trialing"
    /\ e.type = "succeeded" => e.status \in Paid

\* From version k on the vendor does not pay, and either an event that says so
\* is still to come, or the vendor was taken off the list and no older event
\* can come but after a newer one.
Told(v, k) ==
    /\ \A e \in mail[v] : e.version >= k => e.status \in Unpaid
    /\ \/ \E e \in mail[v] : e.type \in {"failed", "deleted"} /\ e.version = k
       \/ k <= last[v] /\ ~listed[v]

\* The statuses at Stripe that the handlers need not tell apart, and the time
\* before the trial ends.
Standing(s) == IF s \in Unpaid THEN Unpaid ELSE {s}
OnTrial(v)  == stripe[v].status \in {"none", "trialing"}

\* From version k on Stripe reports the present standing, and either an event
\* that does is still to come, or one was handled: the row and the listing say
\* the same, and no older event can come but after a newer one.
Reported(v, k) ==
    /\ \A e \in mail[v] : e.version >= k => e.status \in Standing(stripe[v].status)
    /\ \/ \E e \in mail[v] : e.version = k
       \/ /\ k <= last[v] /\ sub[v].status \in Standing(stripe[v].status)
          /\ listed[v] <=> stripe[v].status \in Paid

\* What the events leave behind when nothing else writes the row or the listing.
Reporting(v) ==
    /\ sub[v].status = "active" => listed[v]
    /\ OnTrial(v) => /\ listed[v] /\ sub[v].status \in {"none", "trialing", "active"}
                     /\ \A e \in mail[v] : e.status = "trialing"
    /\ ~OnTrial(v) => \E k \in Version : Reported(v, k)

ReportInv(v) ==
    /\ \A e \in mail[v] : e.type \in {"failed", "deleted"} => e.status \in Unpaid
    /\ stripe[v].status = "none" => mail[v] = {} /\ sub[v].status = "none"
    /\ ~OnTrial(v) => sub[v].status # "none"
    /\ upset[v] = "no" => Reporting(v)

VendorInv(v) ==
    /\ ReportInv(v)
    /\ \A e \in mail[v] : EventInv(v, e)
    /\ sub[v].status \in Unpaid /\ upset[v] \notin {"disturbed", "edited"} => ~listed[v]
    /\ stripe[v].status \in Unpaid => sub[v].status # "none"
    /\ stripe[v].status \in Unpaid /\ upset[v] \notin {"reordered", "edited"} =>
           \E k \in Version : Told(v, k)

BillingInv == BillingTypes /\ \A v \in Vendor : VendorInv(v)

Same(v) ==
    /\ stripe'[v].status = stripe[v].status /\ stripe'[v].version = stripe[v].version
    /\ mail'[v] = mail[v] /\ last'[v] = last[v] /\ sub'[v] = sub[v]
    /\ listed'[v] = listed[v] /\ upset'[v] = upset[v]

\* The handlers of one event: when the trial is over, one that reports the
\* present standing leaves it to the row and the listing.
LEMMA HandlerReports ==
  ASSUME BillingTypes, NEW v \in Vendor, NEW e \in Event, EventInv(v, e), ~OnTrial(v),
         e.type \in {"failed", "deleted"} => e.status \in Unpaid,
         e.status \in Standing(stripe[v].status),
         sub[v].status \in Unpaid => ~listed[v], sub[v].status = "active" => listed[v]
  PROVE  /\ Handler(v, e).row.status \in Standing(stripe[v].status)
         /\ Handler(v, e).listed <=> stripe[v].status \in Paid
  <1>. USE DEF Handler, Status, Paid, Unpaid, Standing, OnTrial, EventInv
  <1>1. e.status \in Status /\ e.type \in EventType /\ stripe[v].status \in Status
        /\ sub[v] \in Row
    BY DEF Event, EventType, BillingTypes, AtStripe
  <1>2. e.type # "created"
    BY <1>1
  <1>3. CASE e.type = "updated"
    BY <1>1, <1>3 DEF HandleUpdated, TrialJustEnded, TrialToPaid
  <1>4. CASE e.type = "deleted"
    BY <1>1, <1>4 DEF HandleDeleted
  <1>5. CASE e.type = "succeeded"
    BY <1>1, <1>5 DEF HandlePaymentSucceeded, Row
  <1>6. CASE e.type = "failed"
    BY <1>1, <1>6 DEF HandlePaymentFailed, Row
  <1>. QED
    BY <1>1, <1>2, <1>3, <1>4, <1>5, <1>6 DEF EventType

\* During the trial none takes the vendor off the list.
LEMMA HandlerOnTrial ==
  ASSUME BillingTypes, NEW v \in Vendor, NEW e \in Event, EventInv(v, e),
         e.type \in {"failed", "deleted"} => e.status \in Unpaid,
         stripe[v].status = "trialing", e.status = "trialing",
         sub[v].status \in {"trialing", "active"}, listed[v]
  PROVE  Handler(v, e).row.status \in {"trialing", "active"} /\ Handler(v, e).listed
  <1>. USE DEF Handler, Status, Paid, Unpaid
  <1>1. e.type \in {"created", "updated", "succeeded"} /\ sub[v] \in Row
    BY DEF Event, BillingTypes
  <1>2. CASE e.type = "created"
    BY <1>1, <1>2 DEF HandleCreated, Row
  <1>3. CASE e.type = "updated"
    BY <1>1, <1>3 DEF HandleUpdated, TrialJustEnded, TrialToPaid
  <1>4. CASE e.type = "succeeded"
    BY <1>1, <1>4 DEF HandlePaymentSucceeded, Row
  <1>. QED
    BY <1>1, <1>2, <1>3, <1>4

\* And a row is not made active without listing the vendor.
LEMMA HandlerLists ==
  ASSUME BillingTypes, NEW v \in Vendor, NEW e \in Event, EventInv(v, e),
         sub[v].status = "active" => listed[v]
  PROVE  Handler(v, e).row.status = "active" => Handler(v, e).listed
  <1>. USE DEF Handler, Status, Paid, Unpaid, EventInv
  <1>1. e.type \in EventType /\ sub[v] \in Row
    BY DEF Event, EventType, BillingTypes
  <1>2. CASE e.type = "created"
    BY <1>1, <1>2 DEF HandleCreated, Row
  <1>3. CASE e.type = "updated"
    BY <1>1, <1>3 DEF HandleUpdated, TrialJustEnded, TrialToPaid
  <1>4. CASE e.type = "succeeded"
    BY <1>1, <1>4 DEF HandlePaymentSucceeded, Row
  <1>5. CASE e.type \in {"failed", "deleted"}
    BY <1>1, <1>5 DEF HandlePaymentFailed, HandleDeleted, Row
  <1>. QED
    BY <1>1, <1>2, <1>3, <1>4, <1>5 DEF EventType

LEMMA SameKeepsReportInv ==
  ASSUME NEW v \in Vendor, ReportInv(v), Same(v)
  PROVE  ReportInv(v)'
  <1>1. \A k : Reported(v, k) => Reported(v, k)'
    BY DEF Reported, Same
  <1>2. OnTrial(v)' <=> OnTrial(v)
    BY DEF OnTrial, Same
  <1>. QED
    BY <1>1, <1>2 DEF ReportInv, Reporting, Same

LEMMA SameKeepsVendorInv ==
  ASSUME NEW v \in Vendor, VendorInv(v), Same(v)
  PROVE  VendorInv(v)'
  <1>1. \A k : Told(v, k) => Told(v, k)'
    BY DEF Told, Same
  <1>2. \A e : EventInv(v, e) => EventInv(v, e)'
    BY DEF EventInv, Same
  <1>. QED
    BY <1>1, <1>2, SameKeepsReportInv DEF VendorInv, Same

LEMMA InitBillingInv == Init => BillingInv
  <1>. SUFFICES ASSUME Init
                PROVE  BillingInv
    OBVIOUS
  <1>1. \A v \in Vendor : /\ mail[v] = {} /\ sub[v].status = "none" /\ stripe[v].status = "none"
                         /\ listed[v]
    BY DEF Init
  <1>2. \A v \in Vendor : ReportInv(v)
    BY <1>1 DEF ReportInv, Reporting, OnTrial
  <1>. QED
    BY <1>1, <1>2, InitTypes DEF BillingInv, VendorInv, Unpaid

LEMMA InsertKeepsBillingInv ==
  ASSUME BillingInv, NEW v \in Vendor, InsertRow(v)
  PROVE  BillingInv'
  <1>1. /\ UNCHANGED <<stripe, mail, last, listed, upset>>
        /\ sub' = [sub EXCEPT ![v].status = "trialing"]
    BY DEF InsertRow
  <1>2. sub' \in [Vendor -> Row] /\ sub'[v].status = "trialing"
        /\ \A w \in Vendor \ {v} : sub'[w] = sub[w]
    BY <1>1 DEF BillingInv, BillingTypes, Row, Status, Paid
  <1>3. BillingTypes'
    BY <1>1, <1>2 DEF BillingInv, BillingTypes
  <1>4. \A w \in Vendor \ {v} : Same(w)
    BY <1>1, <1>2 DEF Same
  <1>5. VendorInv(v)'
    <2>1. \A k : Told(v, k) => Told(v, k)'
      BY <1>1 DEF Told
    <2>2. \A e : EventInv(v, e) => EventInv(v, e)'
      BY <1>1 DEF EventInv
    <2>3. ReportInv(v)'
      <3>1. ReportInv(v) /\ sub[v].status = "none" /\ stripe[v].status # "none"
        BY DEF BillingInv, VendorInv, InsertRow
      <3>. QED
        BY <1>1, <1>2, <3>1 DEF ReportInv, Reporting, OnTrial
    <2>. QED
      BY <1>1, <1>2, <2>1, <2>2, <2>3 DEF BillingInv, VendorInv, Unpaid
  <1>. QED
    BY <1>3, <1>4, <1>5, SameKeepsVendorInv DEF BillingInv

\* What is saved by a view, next to a change at Stripe or alone.
LEMMA SaveRowTypes ==
  ASSUME BillingTypes, NEW v \in Vendor, NEW row \in Row, SaveRow(v, row)
  PROVE  /\ sub' \in [Vendor -> Row]
         /\ upset' \in [Vendor -> {"no", "reordered", "disturbed", "edited"}]
         /\ UNCHANGED <<last, listed>>
         /\ \A w \in Vendor \ {v} : sub'[w] = sub[w] /\ upset'[w] = upset[w]
         /\ sub'[v] = row
         /\ \/ row = sub[v] /\ upset'[v] = upset[v]
            \/ upset'[v] = "disturbed" /\ upset[v] \notin {"reordered", "edited"}
  BY DEF BillingTypes, SaveRow, Upset

LEMMA SavingKeepsBillingInv ==
  ASSUME BillingInv, NEW v \in Vendor, NEW row \in Row, row.status # "none",
         stripe[v].status # "none", SaveRow(v, row), UNCHANGED <<stripe, mail>>
  PROVE  BillingInv'
  <1>1. /\ UNCHANGED <<last, listed>>
        /\ \A w \in Vendor \ {v} : sub'[w] = sub[w] /\ upset'[w] = upset[w]
        /\ sub'[v] = row
        /\ \/ row = sub[v] /\ upset'[v] = upset[v]
           \/ upset'[v] = "disturbed" /\ upset[v] \notin {"reordered", "edited"}
    BY SaveRowTypes DEF BillingInv
  <1>2. BillingTypes'
    BY SaveRowTypes DEF BillingInv, BillingTypes
  <1>3. \A w \in Vendor \ {v} : Same(w)
    BY <1>1 DEF Same
  <1>4. VendorInv(v)'
    <2>1. \A k : Told(v, k) => Told(v, k)'
      BY <1>1 DEF Told
    <2>2. \A e : EventInv(v, e) => EventInv(v, e)'
      BY DEF EventInv
    <2>3. ReportInv(v)'
      <3>1. ReportInv(v)
        BY DEF BillingInv, VendorInv
      <3>2. CASE Same(v)
        BY <3>1, <3>2, SameKeepsReportInv
      <3>3. CASE ~Same(v)
        BY <1>1, <3>1, <3>3 DEF ReportInv, OnTrial, Same
      <3>. QED
        BY <3>2, <3>3
    <2>. QED
      BY <1>1, <2>1, <2>2, <2>3 DEF BillingInv, VendorInv
  <1>. QED
    BY <1>2, <1>3, <1>4, SameKeepsVendorInv DEF BillingInv

\* A change at Stripe to a status that its events may report.
LEMMA ChangeKeepsBillingInv ==
  ASSUME BillingInv, NEW v \in Vendor, NEW s \in AtStripe, NEW T \in SUBSET EventType,
         s.status \in Status, StripeChange(v, s, T),
         "created" \in T => s.status = "trialing",
         "succeeded" \in T => s.status \in Paid,
         "failed" \in T \/ "deleted" \in T => s.status \in Unpaid,
         T # {}, s.status = "trialing" => OnTrial(v),
         s.status \in Unpaid => \/ stripe[v].status \in Unpaid
                               \/ "failed" \in T \/ "deleted" \in T,
         sub' \in [Vendor -> Row],
         upset' \in [Vendor -> {"no", "reordered", "disturbed", "edited"}],
         UNCHANGED <<last, listed>>,
         \A w \in Vendor \ {v} : sub'[w] = sub[w] /\ upset'[w] = upset[w],
         s.status # "trialing" => sub'[v].status # "none",
         \/ sub'[v] = sub[v] /\ upset'[v] = upset[v]
         \/ upset'[v] = "disturbed" /\ upset[v] \notin {"reordered", "edited"}
  PROVE  BillingInv'
  <1>. DEFINE n == stripe[v].version
  <1>1. /\ stripe' \in [Vendor -> AtStripe] /\ mail' \in [Vendor -> SUBSET Event]
        /\ stripe'[v].status = s.status /\ stripe'[v].version = n + 1
        /\ \A w \in Vendor \ {v} : stripe'[w] = stripe[w] /\ mail'[w] = mail[w]
        /\ mail[v] \subseteq mail'[v]
        /\ \A e \in mail'[v] \ mail[v] : /\ e.type \in T /\ e.status = s.status
                                         /\ e.version = n + 1
        /\ \A t \in T : \E e \in mail'[v] : e.type = t /\ e.version = n + 1
    BY StripeChangeTypes DEF BillingInv
  <1>2. BillingTypes'
    BY <1>1 DEF BillingInv, BillingTypes
  <1>3. \A w \in Vendor \ {v} : Same(w)
    BY <1>1 DEF Same
  <1>4. n \in Nat /\ n + 1 \in Version /\ \A e \in mail'[v] : e.version \in Nat
    <2>1. stripe'[v] \in AtStripe /\ stripe[v] \in AtStripe
      BY <1>1 DEF BillingInv, BillingTypes
    <2>2. \A e \in mail'[v] : e \in Event
      BY <1>1
    <2>. QED
      BY <1>1, <2>1, <2>2, VersionAssumption DEF AtStripe, Event, Version
  <1>5. \A e \in mail'[v] : EventInv(v, e)'
    BY <1>1, <1>4 DEF BillingInv, VendorInv, EventInv
  <1>6. s.status \in Unpaid /\ upset'[v] \notin {"reordered", "edited"} =>
           \E k \in Version : Told(v, k)' 
    <2>. SUFFICES ASSUME s.status \in Unpaid, upset'[v] \notin {"reordered", "edited"}
                  PROVE  \E k \in Version : Told(v, k)'
      OBVIOUS
    <2>1. CASE stripe[v].status \in Unpaid
      <3>1. PICK k \in Version : Told(v, k)
        BY <2>1 DEF BillingInv, VendorInv
      <3>2. Told(v, k)'
        BY <1>1, <3>1 DEF Told
      <3>. QED
        BY <3>2
    <2>2. CASE "failed" \in T \/ "deleted" \in T
      <3>1. PICK k \in Version : k = n + 1
        BY <1>4
      <3>2. \A e \in mail[v] : ~(e.version >= k)
        <4>1. \A e \in mail[v] : e.version <= n /\ e.version \in Nat
          BY <1>1, <1>4 DEF BillingInv, VendorInv, EventInv
        <4>. QED
          BY <1>4, <3>1, <4>1
      <3>3. Told(v, k)'
        BY <1>1, <2>2, <3>1, <3>2 DEF Told
      <3>. QED
        BY <3>3
    <2>. QED
      BY <2>1, <2>2
  <1>7. ReportInv(v)'
    <2>1. ReportInv(v)
      BY DEF BillingInv, VendorInv
    <2>2. OnTrial(v)' <=> s.status = "trialing"
      BY <1>1 DEF OnTrial, Status, Paid, Unpaid
    <2>3. /\ \A e \in mail'[v] : e.type \in {"failed", "deleted"} => e.status \in Unpaid
          /\ stripe'[v].status # "none"
          /\ ~OnTrial(v)' => sub'[v].status # "none"
      BY <1>1, <2>1, <2>2 DEF ReportInv, Status, Paid, Unpaid
    <2>4. ASSUME upset'[v] = "no", s.status = "trialing"
          PROVE  Reporting(v)'
      BY <1>1, <2>1, <2>2, <2>4 DEF ReportInv, Reporting, OnTrial
    <2>5. ASSUME upset'[v] = "no", s.status # "trialing", s.status \in Standing(stripe[v].status)
          PROVE  Reporting(v)'
      <3>1. ~OnTrial(v) /\ Standing(s.status) = Standing(stripe[v].status)
            /\ (s.status \in Paid <=> stripe[v].status \in Paid)
        BY <2>5 DEF Standing, OnTrial, Status, Paid, Unpaid
      <3>2. PICK k \in Version : Reported(v, k)
        BY <2>1, <2>5, <3>1 DEF ReportInv, Reporting
      <3>3. s.status \in Standing(s.status)
        BY DEF Standing
      <3>4. Reported(v, k)'
        BY <1>1, <2>5, <3>1, <3>2, <3>3 DEF Reported
      <3>. QED
        BY <1>1, <2>1, <2>2, <2>5, <3>4 DEF ReportInv, Reporting
    <2>6. ASSUME upset'[v] = "no", s.status # "trialing", s.status \notin Standing(stripe[v].status)
          PROVE  Reporting(v)'
      <3>1. PICK k \in Version : k = n + 1
        BY <1>4
      <3>2. \A e \in mail[v] : ~(e.version >= k)
        <4>1. \A e \in mail[v] : e.version <= n /\ e.version \in Nat
          BY <1>1, <1>4 DEF BillingInv, VendorInv, EventInv
        <4>. QED
          BY <1>4, <3>1, <4>1
      <3>3. s.status \in Standing(s.status)
        BY DEF Standing
      <3>4. Reported(v, k)'
        BY <1>1, <3>1, <3>2, <3>3 DEF Reported
      <3>. QED
        BY <1>1, <2>1, <2>2, <2>6, <3>4 DEF ReportInv, Reporting
    <2>. QED
      BY <2>3, <2>4, <2>5, <2>6 DEF ReportInv
  <1>8. VendorInv(v)'
    BY <1>1, <1>5, <1>6, <1>7 DEF BillingInv, VendorInv, Unpaid
  <1>. QED
    BY <1>2, <1>3, <1>8, SameKeepsVendorInv DEF BillingInv

\* An event is handled, and its handler's listing saved or not.
LEMMA HandlingKeepsBillingInv ==
  ASSUME BillingInv, NEW v \in Vendor, NEW e \in mail[v], sub[v].status # "none",
         SaveEvent(v, e), UNCHANGED stripe,
         \/ /\ listed' = [listed EXCEPT ![v] = Handler(v, e).listed]
            /\ IF e.version < last[v] THEN Upset(v, "reordered") ELSE UNCHANGED upset
            /\ mail' = [mail EXCEPT ![v] = @ \ {e}] \/ mail' = mail
         \/ /\ listed' = listed /\ mail' = mail /\ e.version >= last[v]
            /\ Upset(v, "disturbed")
  PROVE  BillingInv'
  <1>1. e \in Event /\ e.version \in Version /\ last[v] \in Version /\ EventInv(v, e)
    BY DEF BillingInv, BillingTypes, VendorInv, Event
  <1>2. Handler(v, e).row \in Row /\ Handler(v, e).listed \in BOOLEAN
    BY <1>1, HandlerTypes DEF BillingInv
  <1>3. /\ sub' \in [Vendor -> Row] /\ sub'[v] = Handler(v, e).row
        /\ last' \in [Vendor -> Version] /\ last'[v] >= last[v] /\ last'[v] >= e.version
        /\ \A w \in Vendor \ {v} : sub'[w] = sub[w] /\ last'[w] = last[w]
    BY <1>1, <1>2, VersionAssumption DEF SaveEvent, BillingInv, BillingTypes, Version
  <1>4. /\ listed' \in [Vendor -> BOOLEAN]
        /\ mail' \in [Vendor -> SUBSET Event] /\ mail'[v] \subseteq mail[v]
        /\ mail[v] \ {e} \subseteq mail'[v]
        /\ \A w \in Vendor \ {v} : listed'[w] = listed[w] /\ mail'[w] = mail[w]
    BY <1>2 DEF BillingInv, BillingTypes
  <1>5. /\ upset' \in [Vendor -> {"no", "reordered", "disturbed", "edited"}]
        /\ \A w \in Vendor \ {v} : upset'[w] = upset[w]
        /\ upset'[v] \notin {"reordered", "edited"} =>
               e.version >= last[v] /\ upset[v] \notin {"reordered", "edited"}
    BY <1>1, VersionAssumption DEF Upset, BillingInv, BillingTypes, Version
  <1>6. BillingTypes'
    BY <1>3, <1>4, <1>5 DEF BillingInv, BillingTypes
  <1>7. \A w \in Vendor \ {v} : Same(w)
    BY <1>3, <1>4, <1>5 DEF Same
  <1>8. \A f \in mail'[v] : EventInv(v, f)'
    BY <1>4 DEF EventInv, BillingInv, VendorInv
  <1>9. sub'[v].status \in Unpaid /\ upset'[v] \notin {"disturbed", "edited"} => ~listed'[v]
    <2>. SUFFICES ASSUME sub'[v].status \in Unpaid, upset'[v] \notin {"disturbed", "edited"}
                  PROVE  ~listed'[v]
      OBVIOUS
    <2>1. listed'[v] = Handler(v, e).listed /\ upset[v] \notin {"disturbed", "edited"}
      BY DEF Upset, BillingInv, BillingTypes
    <2>2. sub[v].status \in Unpaid => ~listed[v]
      BY <2>1 DEF BillingInv, VendorInv
    <2>. QED
      BY <1>1, <1>3, <2>1, <2>2, HandlerDelists DEF BillingInv, EventInv
  <1>10. stripe'[v].status \in Unpaid => sub'[v].status # "none"
    BY <1>1, <1>3, HandlerLeavesRow DEF BillingInv
  <1>11. stripe'[v].status \in Unpaid /\ upset'[v] \notin {"reordered", "edited"} =>
            \E k \in Version : Told(v, k)'
    <2>. SUFFICES ASSUME stripe'[v].status \in Unpaid, upset'[v] \notin {"reordered", "edited"}
                  PROVE  \E k \in Version : Told(v, k)'
      OBVIOUS
    <2>1. PICK k \in Version : Told(v, k)
      BY <1>5 DEF BillingInv, VendorInv
    <2>2. e.version >= last[v] /\ k \in Nat /\ e.version \in Nat /\ last[v] \in Nat
          /\ last'[v] \in Nat
      BY <1>1, <1>3, <1>5, VersionAssumption DEF Version
    <2>3. \A f \in mail'[v] : f.version >= k => f.status \in Unpaid
      BY <1>4, <2>1 DEF Told
    <2>4. CASE e.status \in Unpaid
      <3>1. e.type # "succeeded"
        BY <1>1, <2>4 DEF EventInv, Paid, Unpaid
      <3>2. listed'[v] => listed[v]
        BY <1>1, <2>4, <3>1, HandlerOfUnpaid DEF BillingInv, BillingTypes
      <3>3. CASE e.type \in {"failed", "deleted"} /\ e.version = k
                 /\ listed'[v] = Handler(v, e).listed
        BY <1>1, <1>3, <2>3, <3>1, <3>3, HandlerOfUnpaid DEF BillingInv, Told
      <3>4. CASE listed' = listed /\ mail' = mail
        BY <1>3, <2>1, <2>2, <2>3, <3>4 DEF Told
      <3>5. CASE ~(e.type \in {"failed", "deleted"} /\ e.version = k)
        BY <1>3, <1>4, <2>1, <2>2, <2>3, <3>2, <3>5 DEF Told
      <3>. QED
        BY <3>3, <3>4, <3>5 DEF BillingInv, BillingTypes
    <2>5. CASE e.status \notin Unpaid
      <3>1. ~(e.version >= k)
        BY <2>1, <2>5 DEF Told
      <3>2. \E f \in mail[v] : f.type \in {"failed", "deleted"} /\ f.version = k
        BY <2>1, <2>2, <3>1 DEF Told
      <3>. QED
        BY <1>4, <2>2, <2>3, <3>1, <3>2 DEF Told
    <2>. QED
      BY <2>4, <2>5
  <1>12. ReportInv(v)'
    <2>1. ReportInv(v) /\ stripe' = stripe /\ (OnTrial(v)' <=> OnTrial(v))
      BY DEF BillingInv, VendorInv, OnTrial
    <2>2. Handler(v, e).row.status # "none"
      BY <1>1, HandlerLeavesRow DEF BillingInv
    <2>3. ASSUME upset'[v] = "no"
          PROVE  Reporting(v)'
      <3>1. /\ upset[v] = "no" /\ listed'[v] = Handler(v, e).listed
            /\ e.version >= last[v] /\ Reporting(v)
            /\ mail' = [mail EXCEPT ![v] = @ \ {e}] \/ mail' = mail
        BY <1>5, <2>1, <2>3 DEF Upset, BillingInv, BillingTypes, ReportInv
      <3>2. sub'[v].status = "active" => listed'[v]
        BY <1>1, <1>3, <3>1, HandlerLists DEF BillingInv, Reporting
      <3>3. CASE OnTrial(v)
        <4>1. stripe[v].status = "trialing" /\ e.status = "trialing"
              /\ sub[v].status \in {"trialing", "active"} /\ listed[v]
              /\ (e.type \in {"failed", "deleted"} => e.status \in Unpaid)
          BY <2>1, <3>1, <3>3 DEF ReportInv, Reporting, OnTrial
        <4>2. sub'[v].status \in {"trialing", "active"} /\ listed'[v]
          BY <1>1, <1>3, <3>1, <4>1, HandlerOnTrial DEF BillingInv
        <4>. QED
          BY <1>4, <2>1, <3>1, <3>2, <3>3, <4>2 DEF Reporting
      <3>4. CASE ~OnTrial(v)
        <4>1. PICK k \in Version : Reported(v, k)
          BY <3>1, <3>4 DEF Reporting
        <4>2. k \in Nat /\ e.version \in Nat /\ last[v] \in Nat /\ last'[v] \in Nat
          BY <1>1, <1>3, VersionAssumption DEF Version
        <4>3. \A f \in mail'[v] : f.version >= k => f.status \in Standing(stripe[v].status)
          BY <1>4, <4>1 DEF Reported
        <4>4. CASE e.version >= k
          <5>1. e.status \in Standing(stripe[v].status)
                /\ (e.type \in {"failed", "deleted"} => e.status \in Unpaid)
                /\ (sub[v].status \in Unpaid => ~listed[v])
                /\ (sub[v].status = "active" => listed[v])
            BY <2>1, <3>1, <4>1, <4>4 DEF Reported, ReportInv, Reporting, BillingInv, VendorInv
          <5>2. /\ Handler(v, e).row.status \in Standing(stripe[v].status)
                /\ Handler(v, e).listed <=> stripe[v].status \in Paid
            BY <1>1, <3>4, <5>1, HandlerReports DEF BillingInv
          <5>3. k <= last'[v]
            BY <1>3, <4>2, <4>4
          <5>4. Reported(v, k)'
            BY <1>3, <2>1, <3>1, <4>3, <5>2, <5>3 DEF Reported
          <5>. QED
            BY <2>1, <3>2, <3>4, <5>4 DEF Reporting
        <4>5. CASE ~(e.version >= k)
          <5>1. ~(k <= last[v])
            BY <3>1, <4>2, <4>5
          <5>2. PICK f \in mail[v] : f.version = k
            BY <4>1, <5>1 DEF Reported
          <5>3. f # e
            BY <4>2, <4>5, <5>2
          <5>4. f \in mail'[v]
            BY <1>4, <5>3
          <5>5. Reported(v, k)'
            BY <2>1, <4>3, <5>2, <5>4 DEF Reported
          <5>. QED
            BY <2>1, <3>2, <3>4, <5>5 DEF Reporting
        <4>. QED
          BY <4>4, <4>5
      <3>. QED
        BY <3>3, <3>4
    <2>. QED
      BY <1>3, <1>4, <2>1, <2>2, <2>3 DEF ReportInv
  <1>13. VendorInv(v)'
    BY <1>8, <1>9, <1>10, <1>11, <1>12 DEF VendorInv
  <1>. QED
    BY <1>6, <1>7, <1>13, SameKeepsVendorInv DEF BillingInv

-----------------------------------------------------------------------------
(* The jobs.                                                               *)

LEMMA StepKeepsJobInv == BillingTypes /\ CardTypes /\ VoucherTypes /\ JobInv /\ [Next]_vars => JobInv'
  <1>. SUFFICES ASSUME BillingTypes, CardTypes, VoucherTypes, JobInv, [Next]_vars
                PROVE  JobInv'
    OBVIOUS
  <1>1. ASSUME UNCHANGED job
        PROVE  JobInv'
    BY <1>1 DEF JobInv
  <1>2. ASSUME NEW p \in Proc, NEW j \in Job, job' = [job EXCEPT ![p] = j],
               j.at = "apply" => j.row.status = "active"
        PROVE  JobInv'
    BY <1>2 DEF JobInv
  <1>3. ASSUME NEW p \in Proc, Finish(p)
        PROVE  JobInv'
    BY <1>2, <1>3, JobTypes DEF Finish
  <1>4. ASSUME NEW v \in Vendor, StripeStep(v) \/ WebhookStep(v) \/ ViewStep(v)
        PROVE  UNCHANGED job
    BY <1>4 DEF StripeStep, WebhookStep, ViewStep, PeriodEnds, Dunning, Billed, Deliver, Crash,
       InitTrial, InsertRow, Cancel, Reactivate, RetryFailedPayment, AddCard
  <1>5. ASSUME NEW p \in Proc, WorkerStep(p)
        PROVE  JobInv'
    <2>1. ASSUME NEW v \in Vendor, NEW c \in Card, ChooseDefault(p, v, c)
          PROVE  JobInv'
      <3>. DEFINE j == [at |-> "choose", vendor |-> v, card |-> c]
      <3>1. j \in Job /\ j.at # "apply" /\ job' = [job EXCEPT ![p] = j]
        BY <2>1, JobTypes DEF ChooseDefault, Begin
      <3>. HIDE DEF j
      <3>. QED
        BY <1>2, <3>1
    <2>2. ASSUME NEW v \in Vendor, NEW c \in Card, ReadForDelete(p, v, c)
          PROVE  JobInv'
      <3>. DEFINE j == [at |-> "delete", vendor |-> v, card |-> c]
      <3>1. j \in Job /\ j.at # "apply" /\ job' = [job EXCEPT ![p] = j]
        BY <2>2, JobTypes DEF ReadForDelete, Begin
      <3>. HIDE DEF j
      <3>. QED
        BY <1>2, <3>1
    <2>3. CASE SaveDefault(p)
      <3>. DEFINE j == [job[p] EXCEPT !.at = "clear"]
      <3>1. j \in Job /\ j.at = "clear" /\ job' = [job EXCEPT ![p] = j]
        BY <2>3, JobTypes DEF SaveDefault, Goto, JobInv
      <3>. HIDE DEF j
      <3>. QED
        BY <1>2, <3>1
    <2>4. CASE \/ ClearOthers(p) \/ DeleteCard(p) \/ ApplyVoucher(p) \/ Refuse(p)
               \/ SaveProfile(p)
               \/ \E c \in Card : Activate(p, c)
      BY <1>3, <2>4 DEF ClearOthers, DeleteCard, ApplyVoucher, Refuse, SaveProfile, Activate
    <2>5. ASSUME NEW v \in Vendor, NEW w \in BOOLEAN, ReadForActivation(p, v, w)
          PROVE  JobInv'
      <3>. DEFINE n == IF w THEN used ELSE 0
                  j == [at |-> "activate", vendor |-> v, row |-> sub[v], seen |-> Rows(v),
                        voucher |-> w, used |-> n]
      <3>1. n \in Nat /\ sub[v] \in Row /\ Rows(v) \in SUBSET Card
        BY DEF BillingTypes, VoucherTypes, Rows
      <3>2. job' = [job EXCEPT ![p] = j]
        BY <2>5 DEF ReadForActivation, Begin
      <3>. HIDE DEF n
      <3>3. j \in Job /\ j.at # "apply"
        BY <3>1, JobTypes
      <3>. HIDE DEF j
      <3>. QED
        BY <1>2, <3>2, <3>3
    <2>6. ASSUME NEW v \in Vendor, ReadForVoucher(p, v)
          PROVE  JobInv'
      <3>. DEFINE j == [at |-> "apply", vendor |-> v, row |-> sub[v], used |-> used]
      <3>1. sub[v] \in Row /\ used \in Nat /\ sub[v].status = "active"
        BY <2>6 DEF BillingTypes, VoucherTypes, ReadForVoucher
      <3>2. job' = [job EXCEPT ![p] = j]
        BY <2>6 DEF ReadForVoucher, Begin
      <3>3. j \in Job /\ j.row.status = "active"
        BY <3>1, JobTypes
      <3>. HIDE DEF j
      <3>. QED
        BY <1>2, <3>2, <3>3
    <2>7. ASSUME NEW v \in Vendor, ReadProfile(p, v)
          PROVE  JobInv'
      <3>. DEFINE j == [at |-> "edit", vendor |-> v, listed |-> listed[v]]
      <3>1. listed[v] \in BOOLEAN
        BY DEF BillingTypes
      <3>2. j \in Job /\ j.at # "apply"
        BY <3>1, JobTypes
      <3>3. job' = [job EXCEPT ![p] = j]
        BY <2>7 DEF ReadProfile, Begin
      <3>. HIDE DEF j
      <3>. QED
        BY <1>2, <3>2, <3>3
    <2>. QED
      BY <1>5, <2>1, <2>2, <2>3, <2>4, <2>5, <2>6, <2>7 DEF WorkerStep
  <1>. QED
    BY <1>1, <1>4, <1>5 DEF Next, vars

-----------------------------------------------------------------------------
(* Every step keeps the invariant of billing.                              *)

LEMMA SameBilling ==
  ASSUME BillingInv, UNCHANGED billing
  PROVE  BillingInv'
  <1>1. BillingTypes' /\ \A v \in Vendor : Same(v)
    BY DEF BillingInv, BillingTypes, billing, Same
  <1>. QED
    BY <1>1, SameKeepsVendorInv DEF BillingInv

\* A change at Stripe that no view saves.
LEMMA BilledKeepsBillingInv ==
  ASSUME BillingInv, NEW v \in Vendor, NEW s \in AtStripe, NEW T \in SUBSET EventType,
         s.status \in Status, StripeChange(v, s, T),
         "created" \in T => s.status = "trialing",
         "succeeded" \in T => s.status \in Paid,
         "failed" \in T \/ "deleted" \in T => s.status \in Unpaid,
         T # {}, s.status = "trialing" => OnTrial(v),
         s.status \in Unpaid => \/ stripe[v].status \in Unpaid
                               \/ "failed" \in T \/ "deleted" \in T,
         UNCHANGED <<last, sub, listed, upset>>,
         s.status # "trialing" => sub[v].status # "none"
  PROVE  BillingInv'
  BY ChangeKeepsBillingInv DEF BillingInv, BillingTypes

\* A change at Stripe to s, and a view that saves a row.
LEMMA ChangedAndSaved ==
  ASSUME BillingInv, NEW v \in Vendor, NEW s \in AtStripe, NEW T \in SUBSET EventType,
         s.status \in Status, StripeChange(v, s, T),
         T \in {{"updated"}, {"updated", "succeeded"}},
         "succeeded" \in T => s.status \in Paid,
         s.status \in Unpaid => stripe[v].status \in Unpaid,
         s.status = "trialing" => OnTrial(v),
         NEW row \in Row, row.status # "none", SaveRow(v, row)
  PROVE  BillingInv'
  <1>1. BillingTypes
    BY DEF BillingInv
  <1>2. /\ sub' \in [Vendor -> Row]
        /\ upset' \in [Vendor -> {"no", "reordered", "disturbed", "edited"}]
        /\ UNCHANGED <<last, listed>>
        /\ \A w \in Vendor \ {v} : sub'[w] = sub[w] /\ upset'[w] = upset[w]
        /\ sub'[v] = row
        /\ \/ row = sub[v] /\ upset'[v] = upset[v]
           \/ upset'[v] = "disturbed" /\ upset[v] \notin {"reordered", "edited"}
    BY <1>1, SaveRowTypes
  <1>3. /\ "created" \notin T /\ "failed" \notin T /\ "deleted" \notin T
        /\ T # {}
    OBVIOUS
  <1>. QED
    BY <1>2, <1>3, ChangeKeepsBillingInv

LEMMA ModifiableStatus ==
  ASSUME BillingTypes, NEW v \in Vendor, Modifiable(v)
  PROVE  stripe[v] \in AtStripe /\ stripe[v].status \in Status
  BY DEF BillingTypes, AtStripe, Modifiable

LEMMA StripeStepKeepsBillingInv ==
  ASSUME BillingInv, NEW v \in Vendor, StripeStep(v)
  PROVE  BillingInv'
  <1>. USE DEF Status, Paid, Unpaid, EventType
  <1>1. ASSUME NEW status \in Status, NEW T \in SUBSET EventType, Billed(v, status, T),
               "created" \notin T, "succeeded" \in T => status \in Paid,
               "failed" \in T \/ "deleted" \in T => status \in Unpaid,
               T # {}, status # "trialing",
               status \in Unpaid => \/ stripe[v].status \in Unpaid
                                   \/ "failed" \in T \/ "deleted" \in T,
               sub[v].status # "none"
        PROVE  BillingInv'
    <2>. DEFINE s == [stripe[v] EXCEPT !.status = status]
    <2>1. s \in AtStripe /\ s.status = status
      BY DEF BillingInv, BillingTypes, AtStripe
    <2>2. StripeChange(v, s, T) /\ UNCHANGED <<last, sub, listed, upset>>
      BY <1>1 DEF Billed
    <2>. HIDE DEF s
    <2>. QED
      BY <1>1, <2>1, <2>2, BilledKeepsBillingInv
  <1>2. CASE PeriodEnds(v)
    BY <1>1, <1>2 DEF PeriodEnds
  <1>3. CASE Dunning(v)
    <2>1. sub[v].status # "none"
      BY <1>3 DEF Dunning, BillingInv, VendorInv
    <2>. QED
      BY <1>1, <1>3, <2>1 DEF Dunning
  <1>. QED
    BY <1>2, <1>3 DEF StripeStep

LEMMA WebhookKeepsBillingInv ==
  ASSUME BillingInv, NEW v \in Vendor, WebhookStep(v)
  PROVE  BillingInv'
  <1>1. CASE Crash(v)
    BY <1>1, HandlingKeepsBillingInv DEF Crash
  <1>2. CASE Deliver(v)
    <2>1. PICK e \in mail[v] :
              /\ IF sub[v].status = "none" THEN UNCHANGED <<sub, listed, last>>
                 ELSE /\ SaveEvent(v, e)
                      /\ listed' = [listed EXCEPT ![v] = Handler(v, e).listed]
              /\ IF e.version < last[v] THEN Upset(v, "reordered") ELSE UNCHANGED upset
              /\ mail' = [mail EXCEPT ![v] = @ \ {e}] \/ mail' = mail
              /\ UNCHANGED stripe
      BY <1>2 DEF Deliver
    <2>2. CASE sub[v].status # "none"
      BY <2>1, <2>2, HandlingKeepsBillingInv
    <2>3. CASE sub[v].status = "none"
      <3>1. /\ upset' \in [Vendor -> {"no", "reordered", "disturbed", "edited"}]
            /\ \A w \in Vendor \ {v} : upset'[w] = upset[w]
        BY <2>1 DEF Upset, BillingInv, BillingTypes
      <3>2. /\ mail' \in [Vendor -> SUBSET Event] /\ mail'[v] \subseteq mail[v]
            /\ \A w \in Vendor \ {v} : mail'[w] = mail[w]
        BY <2>1 DEF BillingInv, BillingTypes
      <3>3. BillingTypes'
        BY <2>1, <2>3, <3>1, <3>2 DEF BillingInv, BillingTypes
      <3>4. \A w \in Vendor \ {v} : Same(w)
        BY <2>1, <2>3, <3>1, <3>2 DEF Same
      <3>5. ReportInv(v)'
        <4>1. ReportInv(v) /\ OnTrial(v) /\ OnTrial(v)'
          BY <2>1, <2>3 DEF BillingInv, VendorInv, ReportInv, OnTrial
        <4>2. upset'[v] = "no" => upset[v] = "no"
          BY <2>1 DEF Upset, BillingInv, BillingTypes
        <4>. QED
          BY <2>1, <2>3, <3>2, <4>1, <4>2 DEF ReportInv, Reporting
      <3>6. VendorInv(v)'
        BY <2>1, <2>3, <3>2, <3>5 DEF BillingInv, VendorInv, EventInv, Unpaid
      <3>. QED
        BY <3>3, <3>4, <3>6, SameKeepsVendorInv DEF BillingInv
    <2>. QED
      BY <2>2, <2>3
  <1>. QED
    BY <1>1, <1>2 DEF WebhookStep

LEMMA ViewKeepsBillingInv ==
  ASSUME BillingInv, NEW v \in Vendor, ViewStep(v)
  PROVE  BillingInv'
  <1>. USE DEF Status, Paid, Unpaid, EventType
  <1>1. stripe[v] \in AtStripe /\ sub[v] \in Row
    BY DEF BillingInv, BillingTypes
  <1>2. CASE InitTrial(v)
    <2>. DEFINE s == [stripe[v] EXCEPT !.status = "trialing"]
    <2>1. s \in AtStripe /\ s.status = "trialing"
      BY <1>1 DEF AtStripe
    <2>2. StripeChange(v, s, {"created", "succeeded"}) /\ UNCHANGED <<last, sub, listed, upset>>
          /\ OnTrial(v)
      BY <1>2 DEF InitTrial, OnTrial
    <2>. HIDE DEF s
    <2>. QED
      BY <2>1, <2>2, BilledKeepsBillingInv
  <1>3. CASE InsertRow(v)
    BY <1>3, InsertKeepsBillingInv
  <1>4. ASSUME NEW atEnd \in BOOLEAN, Modifiable(v),
               StripeChange(v, [stripe[v] EXCEPT !.cancel = atEnd], {"updated"}),
               SaveRow(v, [status |-> stripe[v].status, canceled |-> atEnd])
        PROVE  BillingInv'
    <2>. DEFINE s   == [stripe[v] EXCEPT !.cancel = atEnd]
                row == [status |-> stripe[v].status, canceled |-> atEnd]
    <2>1. s \in AtStripe /\ s.status = stripe[v].status /\ s.status \in Status
      BY <1>1, <1>4, ModifiableStatus DEF AtStripe, BillingInv
    <2>2. row \in Row /\ row.status # "none"
      BY <1>4, <2>1 DEF Row, Modifiable
    <2>3. StripeChange(v, s, {"updated"}) /\ SaveRow(v, row)
      BY <1>4
    <2>4. s.status = "trialing" => OnTrial(v)
      BY <2>1 DEF OnTrial
    <2>5. s.status \in Unpaid => stripe[v].status \in Unpaid
      BY <2>1
    <2>. HIDE DEF s, row
    <2>. QED
      BY <2>1, <2>2, <2>3, <2>4, <2>5, ChangedAndSaved
  <1>5. CASE (\E atEnd \in BOOLEAN : Cancel(v, atEnd)) \/ Reactivate(v)
    BY <1>4, <1>5 DEF Cancel, Reactivate
  <1>6. CASE RetryFailedPayment(v)
    <2>. DEFINE s   == [stripe[v] EXCEPT !.status = "active"]
                row == [sub[v] EXCEPT !.status = "active"]
    <2>1. s \in AtStripe /\ s.status = "active"
      BY <1>1 DEF AtStripe
    <2>2. row \in Row /\ row.status # "none"
      BY <1>1 DEF Row
    <2>3. StripeChange(v, s, {"updated", "succeeded"}) /\ SaveRow(v, row)
      BY <1>6 DEF RetryFailedPayment
    <2>. HIDE DEF s, row
    <2>. QED
      BY <2>1, <2>2, <2>3, ChangedAndSaved
  <1>7. CASE \E c \in Card : AddCard(v, c)
    BY <1>7, SameBilling DEF AddCard
  <1>. QED
    BY <1>2, <1>3, <1>5, <1>6, <1>7 DEF ViewStep

\* A profile is saved with the listing as it was read.
LEMMA SaveProfileKeepsBillingInv ==
  ASSUME BillingInv, JobInv, NEW p \in Proc, SaveProfile(p)
  PROVE  BillingInv'
  <1>1. PICK v \in Vendor, l \in BOOLEAN : v = job[p].vendor /\ l = job[p].listed
    BY JobTypes DEF SaveProfile, JobInv
  <1>2. /\ UNCHANGED <<stripe, mail, last, sub>>
        /\ listed' = [listed EXCEPT ![v] = l]
        /\ IF l = listed[v] THEN UNCHANGED upset ELSE Upset(v, "edited")
    BY <1>1 DEF SaveProfile
  <1>3. /\ listed' \in [Vendor -> BOOLEAN]
        /\ upset' \in [Vendor -> {"no", "reordered", "disturbed", "edited"}]
        /\ \A w \in Vendor \ {v} : listed'[w] = listed[w] /\ upset'[w] = upset[w]
        /\ \/ listed'[v] = listed[v] /\ upset'[v] = upset[v]
           \/ upset'[v] = "edited"
    BY <1>2 DEF Upset, BillingInv, BillingTypes
  <1>4. BillingTypes'
    BY <1>2, <1>3 DEF BillingInv, BillingTypes
  <1>5. \A w \in Vendor \ {v} : Same(w)
    BY <1>2, <1>3 DEF Same
  <1>6. VendorInv(v)'
    <2>1. CASE listed'[v] = listed[v] /\ upset'[v] = upset[v]
      BY <1>2, <2>1, SameKeepsVendorInv DEF BillingInv, Same
    <2>2. CASE upset'[v] = "edited"
      <3>1. ReportInv(v)'
        BY <1>2, <2>2 DEF BillingInv, VendorInv, ReportInv, OnTrial
      <3>2. \A e : EventInv(v, e) => EventInv(v, e)'
        BY <1>2 DEF EventInv
      <3>. QED
        BY <1>2, <2>2, <3>1, <3>2 DEF BillingInv, VendorInv
    <2>. QED
      BY <1>3, <2>1, <2>2
  <1>. QED
    BY <1>4, <1>5, <1>6, SameKeepsVendorInv DEF BillingInv

LEMMA WorkerKeepsBillingInv ==
  ASSUME BillingInv, JobInv, NEW p \in Proc, WorkerStep(p)
  PROVE  BillingInv'
  <1>. USE DEF Status, Paid, Unpaid, EventType
  <1>1. job[p] \in Job
    BY DEF JobInv
  <1>2. CASE \/ \E v \in Vendor, c \in Card : ChooseDefault(p, v, c) \/ ReadForDelete(p, v, c)
             \/ SaveDefault(p) \/ DeleteCard(p)
             \/ \E v \in Vendor, withVoucher \in BOOLEAN : ReadForActivation(p, v, withVoucher)
             \/ \E v \in Vendor : ReadForVoucher(p, v) \/ ReadProfile(p, v)
             \/ Refuse(p)
    BY <1>2, SameBilling DEF ChooseDefault, ReadForDelete, DeleteCard, SaveDefault,
       ReadForActivation, ReadForVoucher, ReadProfile, Refuse
  <1>3. CASE ClearOthers(p)
    <2>1. job[p].vendor \in Vendor
      BY <1>1, <1>3, JobTypes DEF ClearOthers
    <2>2. /\ UNCHANGED <<mail, last, sub, listed, upset>>
          /\ stripe' = [stripe EXCEPT ![job[p].vendor].card = TRUE] \/ stripe' = stripe
      BY <1>3 DEF ClearOthers
    <2>3. stripe' \in [Vendor -> AtStripe]
          /\ \A v \in Vendor : /\ stripe'[v].status = stripe[v].status
                              /\ stripe'[v].version = stripe[v].version
      <3>. DEFINE w == job[p].vendor
                  s == [stripe[w] EXCEPT !.card = TRUE]
      <3>0. stripe[w] \in AtStripe
        BY <2>1 DEF BillingInv, BillingTypes
      <3>1. s \in AtStripe /\ s.status = stripe[w].status /\ s.version = stripe[w].version
        BY <3>0 DEF AtStripe
      <3>2. stripe' = [stripe EXCEPT ![w] = s] \/ stripe' = stripe
        BY <2>2
      <3>. HIDE DEF s
      <3>. QED
        BY <2>1, <3>1, <3>2 DEF BillingInv, BillingTypes
    <2>4. BillingTypes' /\ \A v \in Vendor : Same(v)
      BY <2>2, <2>3 DEF BillingInv, BillingTypes, Same
    <2>. QED
      BY <2>4, SameKeepsVendorInv DEF BillingInv
  <1>4. ASSUME NEW c \in Card, Activate(p, c)
        PROVE  BillingInv'
    <2>. DEFINE v   == job[p].vendor
                s   == [stripe[v] EXCEPT !.card = TRUE]
                row == [job[p].row EXCEPT !.status = stripe[v].status]
    <2>1. v \in Vendor /\ job[p].row \in Row /\ Modifiable(v)
      BY <1>1, <1>4, JobTypes DEF Activate
    <2>2. StripeChange(v, s, {"updated"}) /\ SaveRow(v, row)
      BY <1>4 DEF Activate
    <2>3. stripe[v] \in AtStripe /\ stripe[v].status \in Status
      BY <2>1, ModifiableStatus DEF BillingInv
    <2>4. s \in AtStripe /\ s.status = stripe[v].status
      BY <2>3 DEF AtStripe
    <2>5. row \in Row /\ row.status # "none"
      BY <2>1, <2>3 DEF Row
    <2>6. s.status = "trialing" => OnTrial(v)
      BY <2>4 DEF OnTrial
    <2>. HIDE DEF v, s, row
    <2>. QED
      BY <2>1, <2>2, <2>3, <2>4, <2>5, <2>6, ChangedAndSaved
  <1>5. CASE ApplyVoucher(p)
    <2>1. /\ job[p].vendor \in Vendor /\ job[p].row \in Row /\ job[p].row.status # "none"
          /\ stripe[job[p].vendor].status # "none"
          /\ SaveRow(job[p].vendor, job[p].row) /\ UNCHANGED <<stripe, mail>>
      BY <1>1, <1>5, JobTypes DEF ApplyVoucher, JobInv, Modifiable
    <2>. QED
      BY <2>1, SavingKeepsBillingInv
  <1>6. CASE SaveProfile(p)
    BY <1>6, SaveProfileKeepsBillingInv
  <1>. QED
    BY <1>2, <1>3, <1>4, <1>5, <1>6 DEF WorkerStep

LEMMA StepKeepsBillingInv == BillingInv /\ JobInv /\ [Next]_vars => BillingInv'
  BY StripeStepKeepsBillingInv, WebhookKeepsBillingInv, ViewKeepsBillingInv,
     WorkerKeepsBillingInv, SameBilling DEF Next, vars

-----------------------------------------------------------------------------
(* Cards and the voucher.                                                  *)

OneDefault(v) ==
    \A c, d \in Card : card[v][c] = "default" /\ card[v][d] = "default" => c = d

Clearing(v) == \E p \in Proc : job[p].at = "clear" /\ job[p].vendor = v

CardInv == CardTypes /\ AtMostOneDefault

VoucherInv == VoucherTypes /\ AppliedWithinLimit

LEMMA DefaultsOf ==
  CardInv <=> CardTypes /\ \A v \in Vendor : ~blind[v] /\ ~Clearing(v) => OneDefault(v)
  BY DEF CardInv, AtMostOneDefault, OneDefault, Clearing

LEMMA SameCards ==
  ASSUME CardInv, JobInv, UNCHANGED cards,
         \/ UNCHANGED job
         \/ \E p \in Proc : job[p].at # "clear" /\ \E j : job' = [job EXCEPT ![p] = j]
  PROVE  CardInv'
  <1>1. \A v : Clearing(v) => Clearing(v)'
    BY DEF Clearing, JobInv
  <1>2. card' = card /\ blind' = blind
    BY DEF cards
  <1>3. \A v \in Vendor : ~blind'[v] /\ ~Clearing(v)' => OneDefault(v)'
    BY <1>1, <1>2, DefaultsOf DEF OneDefault
  <1>. QED
    BY <1>2, <1>3 DEF CardInv, CardTypes, AtMostOneDefault, OneDefault, Clearing

\* The cards of v change, so that no two are the default, or a signal is still
\* to clear the others.
LEMMA OtherCards ==
  ASSUME CardInv, JobInv, NEW v \in Vendor,
         NEW row \in [Card -> {"absent", "plain", "default"}],
         card' = [card EXCEPT ![v] = row],
         blind' = blind \/ (blind'[v] /\ \A w \in Vendor \ {v} : blind'[w] = blind[w]),
         blind' \in [Vendor -> BOOLEAN],
         \A w \in Vendor \ {v} : Clearing(w) => Clearing(w)',
         ~blind'[v] /\ ~Clearing(v)' => OneDefault(v)'
  PROVE  CardInv'
  <1>1. \A w \in Vendor \ {v} : card'[w] = card[w] /\ blind'[w] = blind[w]
    BY DEF CardInv, CardTypes
  <1>2. \A w \in Vendor \ {v} : ~blind'[w] /\ ~Clearing(w)' => OneDefault(w)'
    BY <1>1, DefaultsOf DEF OneDefault
  <1>3. CardTypes'
    BY DEF CardInv, CardTypes
  <1>4. \A w \in Vendor : ~blind'[w] /\ ~Clearing(w)' => OneDefault(w)'
    BY <1>2
  <1>. QED
    BY <1>3, <1>4 DEF CardInv, AtMostOneDefault, OneDefault, Clearing

LEMMA ClearedCards ==
  ASSUME CardTypes, NEW v \in Vendor, NEW C
  PROVE  /\ Cleared(v, C) \in [Card -> {"absent", "plain", "default"}]
         /\ \A c \in Card : Cleared(v, C)[c] = "default" => c \notin C /\ card[v][c] = "default"
  BY DEF CardTypes, Cleared

LEMMA StepKeepsCardInv == CardInv /\ JobInv /\ [Next]_vars => CardInv'
  <1>. SUFFICES ASSUME CardInv, JobInv, [Next]_vars
                PROVE  CardInv'
    OBVIOUS
  <1>0. CardTypes /\ job \in [Proc -> Job]
    BY DEF CardInv, JobInv
  <1>1. CASE UNCHANGED vars
    BY <1>1, SameCards DEF vars
  <1>2. ASSUME NEW v \in Vendor, StripeStep(v) \/ WebhookStep(v) \/ ViewStep(v)
        PROVE  CardInv'
    <2>1. ASSUME NEW c \in Card, AddCard(v, c)
          PROVE  CardInv'
      <3>. DEFINE row == [card[v] EXCEPT ![c] = "plain"]
      <3>1. /\ row \in [Card -> {"absent", "plain", "default"}]
            /\ card' = [card EXCEPT ![v] = row] /\ UNCHANGED <<blind, job>>
        BY <1>0, <2>1 DEF AddCard, CardTypes
      <3>2. \A w : Clearing(w)' <=> Clearing(w)
        BY <3>1 DEF Clearing
      <3>3. OneDefault(v) => OneDefault(v)'
        BY <1>0, <3>1 DEF OneDefault, CardTypes
      <3>. QED
        BY <1>0, <3>1, <3>2, <3>3, OtherCards, DefaultsOf DEF CardTypes
    <2>2. CASE \/ StripeStep(v) \/ WebhookStep(v) \/ InitTrial(v) \/ InsertRow(v)
               \/ \E atEnd \in BOOLEAN : Cancel(v, atEnd)
               \/ Reactivate(v) \/ RetryFailedPayment(v)
      BY <2>2, SameCards DEF StripeStep, WebhookStep, PeriodEnds, Dunning, Billed, Deliver,
         Crash, InitTrial, InsertRow, Cancel, Reactivate, RetryFailedPayment
    <2>. QED
      BY <1>2, <2>1, <2>2 DEF ViewStep
  <1>3. ASSUME NEW p \in Proc, WorkerStep(p)
        PROVE  CardInv'
    <2>1. CASE \/ \E v \in Vendor, withVoucher \in BOOLEAN : ReadForActivation(p, v, withVoucher)
               \/ \E v \in Vendor : ReadForVoucher(p, v) \/ ReadProfile(p, v)
               \/ \E v \in Vendor, c \in Card : ReadForDelete(p, v, c)
      <3>1. UNCHANGED cards /\ job[p] = Idle /\ \E j : job' = [job EXCEPT ![p] = j]
        BY <2>1 DEF ReadForActivation, ReadForVoucher, ReadProfile, ReadForDelete, Begin
      <3>. QED
        BY <3>1, SameCards, JobTypes
    <2>2. CASE ApplyVoucher(p) \/ Refuse(p) \/ SaveProfile(p)
      BY <2>2, SameCards DEF ApplyVoucher, Refuse, SaveProfile, Finish
    <2>3. ASSUME NEW v \in Vendor, NEW c \in Card, ChooseDefault(p, v, c)
          PROVE  CardInv'
      <3>1. /\ card' = [card EXCEPT ![v] = Cleared(v, Card)] /\ blind' = blind
            /\ job[p] = Idle /\ \E j : job' = [job EXCEPT ![p] = j]
        BY <2>3 DEF ChooseDefault, Begin
      <3>2. \A w : Clearing(w) => Clearing(w)'
        BY <1>0, <3>1, JobTypes DEF Clearing
      <3>3. OneDefault(v)'
        BY <1>0, <3>1, ClearedCards DEF OneDefault, CardTypes
      <3>. QED
        BY <1>0, <3>1, <3>2, <3>3, ClearedCards, OtherCards DEF CardTypes
    <2>4. CASE DeleteCard(p)
      <3>1. PICK v \in Vendor, c \in Card : v = job[p].vendor /\ c = job[p].card
        BY <1>0, <2>4, JobTypes DEF DeleteCard
      <3>2. /\ blind' = blind /\ job[p].at # "clear" /\ job' = [job EXCEPT ![p] = Idle]
            /\ \/ Rows(v) \subseteq {c} /\ card' = [card EXCEPT ![v][c] = "absent"]
               \/ \E d \in Rows(v) \ {c} :
                      card' = [card EXCEPT ![v] =
                                  [Cleared(v, Card) EXCEPT ![c] = "absent", ![d] = "default"]]
        BY <2>4, <3>1 DEF DeleteCard, Finish
      <3>3. \A w : Clearing(w) => Clearing(w)'
        BY <1>0, <3>2 DEF Clearing
      <3>4. CASE Rows(v) \subseteq {c} /\ card' = [card EXCEPT ![v][c] = "absent"]
        <4>. DEFINE row == [card[v] EXCEPT ![c] = "absent"]
        <4>1. /\ row \in [Card -> {"absent", "plain", "default"}]
              /\ card' = [card EXCEPT ![v] = row]
          BY <1>0, <3>4 DEF CardTypes
        <4>2. OneDefault(v)'
          BY <1>0, <3>4 DEF OneDefault, CardTypes, Rows
        <4>. QED
          BY <1>0, <3>2, <3>3, <4>1, <4>2, OtherCards DEF CardTypes
      <3>5. ASSUME NEW d \in Rows(v) \ {c},
                   card' = [card EXCEPT ![v] =
                              [Cleared(v, Card) EXCEPT ![c] = "absent", ![d] = "default"]]
            PROVE  CardInv'
        <4>. DEFINE row == [Cleared(v, Card) EXCEPT ![c] = "absent", ![d] = "default"]
        <4>1. row \in [Card -> {"absent", "plain", "default"}]
          BY <1>0, ClearedCards
        <4>2. \A e \in Card : row[e] = "default" => e = d
          BY <1>0, ClearedCards
        <4>3. card' = [card EXCEPT ![v] = row]
          BY <3>5
        <4>. HIDE DEF row
        <4>4. OneDefault(v)'
          BY <1>0, <4>1, <4>2, <4>3 DEF OneDefault, CardTypes
        <4>. QED
          BY <1>0, <3>2, <3>3, <4>1, <4>3, <4>4, OtherCards DEF CardTypes
      <3>. QED
        BY <3>2, <3>4, <3>5
    <2>5. CASE SaveDefault(p)
      <3>. DEFINE v == job[p].vendor
                  c == job[p].card
      <3>1. v \in Vendor /\ c \in Card /\ job[p].at = "choose" /\ blind' = blind
        BY <1>0, <2>5, JobTypes DEF SaveDefault
      <3>2. Goto(p, "clear") /\ card' = [card EXCEPT ![v][c] = "default"]
        BY <2>5 DEF SaveDefault
      <3>. DEFINE row == [card[v] EXCEPT ![c] = "default"]
      <3>3. /\ row \in [Card -> {"absent", "plain", "default"}]
            /\ card' = [card EXCEPT ![v] = row]
        BY <1>0, <3>1, <3>2 DEF CardTypes
      <3>4. job' = [job EXCEPT ![p] = [job[p] EXCEPT !.at = "clear"]]
        BY <1>0, <3>2 DEF Goto
      <3>5. job'[p].at = "clear" /\ job'[p].vendor = v
        <4>1. [job[p] EXCEPT !.at = "clear"] \in Job
          BY <1>0, <3>1, JobTypes
        <4>. DEFINE j == [at |-> "choose", vendor |-> v, card |-> c]
        <4>2. job[p] = j
          BY <1>0, <3>1 DEF Job, Idle
        <4>3. [j EXCEPT !.at = "clear"].at = "clear" /\ [j EXCEPT !.at = "clear"].vendor = v
          OBVIOUS
        <4>. HIDE DEF j
        <4>. QED
          BY <1>0, <3>4, <4>2, <4>3
      <3>6. \A w \in Vendor : Clearing(w) => Clearing(w)'
        BY <1>0, <3>1, <3>4 DEF Clearing
      <3>7. \E q \in Proc : job'[q].at = "clear" /\ job'[q].vendor = v
        BY <3>5
      <3>. HIDE DEF row
      <3>8. PICK w \in Vendor : w = v
        BY <3>1
      <3>9. Clearing(w)'
        BY <3>7, <3>8 DEF Clearing
      <3>10. blind' \in [Vendor -> BOOLEAN]
        BY <1>0, <3>1 DEF CardTypes
      <3>. QED
        BY <3>1, <3>3, <3>6, <3>8, <3>9, <3>10, OtherCards
    <2>6. CASE ClearOthers(p)
      <3>1. PICK v \in Vendor, c \in Card : v = job[p].vendor /\ c = job[p].card
        BY <1>0, <2>6, JobTypes DEF ClearOthers
      <3>2. /\ card' = [card EXCEPT ![v] = Cleared(v, Card \ {c})] /\ blind' = blind
            /\ job' = [job EXCEPT ![p] = Idle]
        BY <2>6, <3>1 DEF ClearOthers, Finish
      <3>3. OneDefault(v)'
        BY <1>0, <3>2, ClearedCards DEF OneDefault, CardTypes
      <3>4. \A w \in Vendor \ {v} : Clearing(w) => Clearing(w)'
        BY <1>0, <3>1, <3>2 DEF Clearing
      <3>. QED
        BY <1>0, <3>2, <3>3, <3>4, ClearedCards, OtherCards DEF CardTypes
    <2>7. ASSUME NEW c \in Card, Activate(p, c)
          PROVE  CardInv'
      <3>1. PICK v \in Vendor, seen \in SUBSET Card : v = job[p].vendor /\ seen = job[p].seen
        BY <1>0, <2>7, JobTypes DEF Activate
      <3>2. PICK added \in SUBSET (Rows(v) \ seen) :
                /\ card' = [card EXCEPT ![v] = [Cleared(v, seen \cup added) EXCEPT ![c] = "default"]]
                /\ blind' = [blind EXCEPT ![v] = @ \/ Rows(v) \ seen # added]
        BY <2>7, <3>1 DEF Activate
      <3>. DEFINE row == [Cleared(v, seen \cup added) EXCEPT ![c] = "default"]
      <3>3. /\ row \in [Card -> {"absent", "plain", "default"}]
            /\ card' = [card EXCEPT ![v] = row] /\ card'[v] = row
        BY <1>0, <3>2, ClearedCards DEF CardTypes
      <3>4. /\ blind'[v] = (blind[v] \/ Rows(v) \ seen # added)
            /\ \A w \in Vendor \ {v} : blind'[w] = blind[w]
        BY <1>0, <3>2 DEF CardTypes
      <3>5. blind' \in [Vendor -> BOOLEAN]
        <4>1. (blind[v] \/ Rows(v) \ seen # added) \in BOOLEAN
          BY <1>0 DEF CardTypes
        <4>. QED
          BY <1>0, <3>2, <4>1 DEF CardTypes
      <3>6. ~blind'[v] => Rows(v) \subseteq seen \cup added
        BY <3>4
      <3>7. ~blind'[v] => \A d \in Card : row[d] = "default" => d = c
        <4>1. \A d \in Card \ {c} : row[d] = Cleared(v, seen \cup added)[d]
          BY <1>0, ClearedCards
        <4>. QED
          BY <1>0, <3>6, <4>1, ClearedCards DEF Rows
      <3>. HIDE DEF row
      <3>8. ~blind'[v] => OneDefault(v)'
        BY <3>3, <3>7 DEF OneDefault
      <3>9. job[p].at # "clear" /\ job' = [job EXCEPT ![p] = Idle]
        BY <2>7 DEF Activate, Finish
      <3>10. \A w \in Vendor : Clearing(w) => Clearing(w)'
        BY <1>0, <3>9 DEF Clearing
      <3>11. blind' = blind \/ (blind'[v] /\ \A w \in Vendor \ {v} : blind'[w] = blind[w])
        <4>1. CASE blind'[v]
          BY <3>4, <4>1
        <4>2. CASE ~blind'[v]
          BY <1>0, <3>4, <3>5, <4>2 DEF CardTypes
        <4>. QED
          BY <4>1, <4>2
      <3>. QED
        BY <3>3, <3>5, <3>8, <3>10, <3>11, OtherCards
    <2>. QED
      BY <1>3, <2>1, <2>2, <2>3, <2>4, <2>5, <2>6, <2>7 DEF WorkerStep
  <1>. QED
    BY <1>1, <1>2, <1>3 DEF Next

LEMMA StepKeepsVoucherInv == VoucherInv /\ JobInv /\ [Next]_vars => VoucherInv'
  <1>. SUFFICES ASSUME VoucherInv, JobInv, [Next]_vars
                PROVE  VoucherInv'
    OBVIOUS
  <1>1. CASE UNCHANGED voucher
    BY <1>1 DEF voucher, VoucherInv, VoucherTypes, AppliedWithinLimit
  <1>2. ASSUME NEW p \in Proc, NEW c \in Card, Activate(p, c), job[p].voucher
        PROVE  VoucherInv'
    <2>1. job[p].used \in Nat
      BY <1>2, JobTypes DEF Activate, JobInv
    <2>2. used' = job[p].used + 1 /\ redeemed' = [redeemed EXCEPT !["activate"] = @ + 1]
      BY <1>2 DEF Activate
    <2>. QED
      BY <2>1, <2>2 DEF VoucherInv, VoucherTypes, AppliedWithinLimit
  <1>3. ASSUME NEW p \in Proc, ApplyVoucher(p)
        PROVE  VoucherInv'
    BY <1>3, UsageAssumption DEF ApplyVoucher, VoucherInv, VoucherTypes, AppliedWithinLimit
  <1>4. ASSUME NEW v \in Vendor, StripeStep(v) \/ WebhookStep(v) \/ ViewStep(v)
        PROVE  UNCHANGED voucher
    BY <1>4 DEF StripeStep, WebhookStep, ViewStep, PeriodEnds, Dunning, Billed, Deliver, Crash,
       InitTrial, InsertRow, Cancel, Reactivate, RetryFailedPayment, AddCard
  <1>5. ASSUME NEW p \in Proc, WorkerStep(p)
        PROVE  \/ UNCHANGED voucher \/ ApplyVoucher(p)
               \/ \E c \in Card : Activate(p, c) /\ job[p].voucher
    BY <1>5 DEF WorkerStep, ChooseDefault, ReadForDelete, DeleteCard, SaveDefault, ClearOthers,
       ReadForActivation, ReadForVoucher, ReadProfile, SaveProfile, Activate, Refuse
  <1>. QED
    BY <1>1, <1>2, <1>3, <1>4, <1>5 DEF Next, vars

-----------------------------------------------------------------------------
(* Theorems.                                                               *)

Invariant == BillingInv /\ CardInv /\ VoucherInv /\ JobInv

LEMMA InvariantHolds == Spec => []Invariant
  <1>1. Init => Invariant
    <2>1. Init => AtMostOneDefault
      BY DEF Init, AtMostOneDefault
    <2>2. Init => AppliedWithinLimit
      BY UsageAssumption DEF Init, AppliedWithinLimit
    <2>. QED
      BY <2>1, <2>2, InitBillingInv, InitTypes DEF Invariant, CardInv, VoucherInv
  <1>2. Invariant /\ [Next]_vars => Invariant'
    BY StepKeepsBillingInv, StepKeepsCardInv, StepKeepsVoucherInv, StepKeepsJobInv
       DEF Invariant, BillingInv, CardInv, VoucherInv
  <1>. QED
    BY <1>1, <1>2, PTL DEF Spec

THEOREM SubscriptionTypeCorrect == Spec => []TypeOK
  <1>1. Invariant => TypeOK
    BY DEF Invariant, BillingInv, BillingTypes, CardInv, CardTypes, VoucherInv, VoucherTypes,
       JobInv, TypeOK
  <1>. QED
    BY <1>1, InvariantHolds, PTL

\* A vendor who stopped paying is off the list when all was reported, whatever
\* status the views saved and however often a worker died in a webhook, unless an
\* edit of the profile saved a listing that had changed since it was read.
THEOREM UnpaidVendorIsDelisted == Spec => []UnpaidIsDelisted
  <1>1. Invariant => UnpaidIsDelisted
    BY DEF Invariant, BillingInv, VendorInv, Told, UnpaidIsDelisted, Quiet
  <1>. QED
    BY <1>1, InvariantHolds, PTL

\* When no view that saves a status, no stale edit of the profile and no end of a
\* worker came between the events, the listing and the row say in the end what
\* Stripe says, however often each event was delivered.
THEOREM ListingFollowsPayment == Spec => []ListedIffPaid
  <1>1. ASSUME Invariant, NEW v \in Vendor, Quiet(v), upset[v] = "no"
        PROVE  /\ listed[v] <=> stripe[v].status \in Paid
               /\ sub[v].status \in Paid <=> stripe[v].status \in Paid
    <2>1. ReportInv(v) /\ Reporting(v) /\ mail[v] = {} /\ sub[v].status # "none"
          /\ stripe[v].status \in Status \cup {"none"}
      BY <1>1 DEF Invariant, BillingInv, BillingTypes, AtStripe, VendorInv, ReportInv, Quiet
    <2>2. CASE OnTrial(v)
      BY <2>1, <2>2 DEF Reporting, ReportInv, OnTrial, Paid
    <2>3. CASE ~OnTrial(v)
      BY <2>1, <2>3 DEF Reporting, Reported, OnTrial, Standing, Status, Paid, Unpaid
    <2>. QED
      BY <2>2, <2>3
  <1>2. Invariant => ListedIffPaid
    BY <1>1 DEF ListedIffPaid
  <1>. QED
    BY <1>2, InvariantHolds, PTL

\* The handlers keep the listing in step with an unpaid row in any order, as long
\* as no edit of the profile puts back a listing that has changed since.
THEOREM DelistedWithUnpaidRow == Spec => []UnpaidRowIsDelisted
  <1>1. Invariant => UnpaidRowIsDelisted
    BY DEF Invariant, BillingInv, VendorInv, UnpaidRowIsDelisted
  <1>. QED
    BY <1>1, InvariantHolds, PTL

\* The clearing by the views and by the signal leaves one default card, in
\* whatever order requests run them.
THEOREM OneDefaultCard == Spec => []AtMostOneDefault
  <1>1. Invariant => AtMostOneDefault
    BY DEF Invariant, CardInv
  <1>. QED
    BY <1>1, InvariantHolds, PTL

\* The voucher is counted under its lock where it is applied.
THEOREM VoucherWithinLimit == Spec => []AppliedWithinLimit
  <1>1. Invariant => AppliedWithinLimit
    BY DEF Invariant, VoucherInv
  <1>. QED
    BY <1>1, InvariantHolds, PTL
=============================================================================
