------------------------------ MODULE Booking -------------------------------
(***************************************************************************)
(* Who has which slot of a lawyer. The handlers that create, move, confirm *)
(* or end an appointment are split at the points where another worker can  *)
(* come between: what a handler reads, what it locks, and the commit.      *)
(*                                                                         *)
(* Creation locks the lawyer's row before it looks for conflicts. Every    *)
(* other handler reads the appointment without a lock and ends with        *)
(* save(), an UPDATE of all fields that puts back the start it has read    *)
(* and inserts the row again if it is gone.                                *)
(*                                                                         *)
(* An appointment is named after the POST request that creates it. What a  *)
(* request asks for besides its start never changes, and is constant here. *)
(* The times are those at which the lawyer offers the slot, and lie after  *)
(* the deadlines that Escrow is about.                                     *)
(***************************************************************************)
EXTENDS Integers

CONSTANTS
    Request,   \* POST requests for an appointment
    Lawyer, Client, Key,
    LawyerOf, ClientOf,
    KeyOf,     \* idempotency_key: a repeated request has that of the first
    Length,    \* duration in half hours
    Paid,      \* the requests for an audio or video appointment
    Time,      \* the starts that can be asked for, in half hours
    Proc,      \* web and Celery workers
    Handler    \* the handlers that run in this instance

AllHandlers == {"create", "reschedule", "cancel", "confirm", "expire", "fail"}

ASSUME RequestAssumption ==
    /\ LawyerOf \in [Request -> Lawyer]
    /\ ClientOf \in [Request -> Client]
    /\ KeyOf \in [Request -> Key]
    /\ Length \in [Request -> {1, 2}]
    /\ Paid \subseteq Request
ASSUME TimeAssumption == Time \subseteq Nat /\ 0 \in Time
ASSUME ProcAssumption == "free" \notin Proc
ASSUME KeyAssumption == "none" \notin Request
ASSUME BookingHandlerAssumption == Handler \subseteq AllHandlers

VARIABLES
    status,      \* Appointment.status, or "absent" / "deleted" without a row
    start,       \* Appointment.start_datetime
    keyTx,       \* the request whose PAYMENT transaction has this key
    detached,    \* the transactions whose appointment is NULL
    lawyerLock,  \* the worker holding the lawyer's row
    pc,          \* where each worker is: "idle" or inside a handler
    req,         \* the appointment it handles
    slot         \* the start it is going to write

rows   == <<status, start>>
txs    == <<keyTx, detached>>
worker == <<pc, req, slot>>
vars   == <<rows, txs, lawyerLock, worker>>

Free == "free"
None == "none"
Step == {"idle", "locking", "validating", "inserting", "rescheduling",
         "cancelling", "confirming", "deleting"}

TypeOK ==
    /\ status \in [Request -> {"absent", "pending", "confirmed", "cancelled", "deleted"}]
    /\ start \in [Request -> Time]
    /\ keyTx \in [Key -> Request \cup {None}]
    /\ detached \subseteq Request
    /\ lawyerLock \in [Lawyer -> Proc \cup {Free}]
    /\ pc \in [Proc -> Step]
    /\ req \in [Proc -> Request \cup {None}]
    /\ slot \in [Proc -> Time]
    /\ \A p \in Proc : pc[p] # "idle" => req[p] \in Request

Init ==
    /\ status = [r \in Request |-> "absent"]
    /\ start = [r \in Request |-> 0]
    /\ keyTx = [k \in Key |-> None]
    /\ detached = {}
    /\ lawyerLock = [l \in Lawyer |-> Free]
    /\ pc = [p \in Proc |-> "idle"]
    /\ req = [p \in Proc |-> None]
    /\ slot = [p \in Proc |-> 0]

-----------------------------------------------------------------------------
Exists(r) == status[r] \notin {"absent", "deleted"}

Active(r) == status[r] \in {"pending", "confirmed"}

Overlap(t, n, u, m) == t < u + m /\ u < t + n

\* The active appointments that r would collide with if it started at t.
LawyerConflicts(r, t) ==
    {s \in Request \ {r} : /\ Active(s) /\ LawyerOf[s] = LawyerOf[r]
                           /\ Overlap(t, Length[r], start[s], Length[s])}

ClientConflicts(r, t) ==
    {s \in Request \ {r} : /\ Active(s) /\ ClientOf[s] = ClientOf[r]
                           /\ Overlap(t, Length[r], start[s], Length[s])}

CanTake(r, t) == LawyerConflicts(r, t) = {} /\ ClientConflicts(r, t) = {}

Enter(p, h, step, r, t) ==
    /\ pc[p] = "idle" /\ h \in Handler
    /\ pc' = [pc EXCEPT ![p] = step]
    /\ req' = [req EXCEPT ![p] = r]
    /\ slot' = [slot EXCEPT ![p] = t]

Leave(p) ==
    /\ pc' = [pc EXCEPT ![p] = "idle"]
    /\ req' = [req EXCEPT ![p] = None]
    /\ slot' = [slot EXCEPT ![p] = 0]

Goto(p, step) == pc' = [pc EXCEPT ![p] = step] /\ UNCHANGED <<req, slot>>

Unlock(l) == lawyerLock' = [lawyerLock EXCEPT ![l] = Free]

\* Appointment.save(): all fields, or a new row if there is none.
Save(r, s, t) ==
    /\ status' = [status EXCEPT ![r] = s]
    /\ start' = [start EXCEPT ![r] = t]

-----------------------------------------------------------------------------
(* CreateAppointmentView.                                                  *)

\* A key whose transaction has an appointment is answered with that one.
KeyAnswered(k) == keyTx[k] # None /\ keyTx[k] \notin detached

CreateStart(p, r, t) ==
    /\ status[r] = "absent" /\ \A q \in Proc : req[q] # r
    /\ ~KeyAnswered(KeyOf[r])
    /\ Enter(p, "create", "locking", r, t)
    /\ UNCHANGED <<rows, txs, lawyerLock>>

\* Fault: the lawyer is read without select_for_update.
CreateLock_NoLock(p) ==
    /\ pc[p] = "locking"
    /\ lawyerLock' = [lawyerLock EXCEPT ![LawyerOf[req[p]]] = p]
    /\ Goto(p, "validating")
    /\ UNCHANGED <<rows, txs>>

\* LawyerProfile.objects.select_for_update(); the row of the offering type,
\* locked next, is one of this lawyer's.
CreateLock(p) ==
    /\ pc[p] = "locking" /\ lawyerLock[LawyerOf[req[p]]] = Free
    /\ lawyerLock' = [lawyerLock EXCEPT ![LawyerOf[req[p]]] = p]
    /\ Goto(p, "validating")
    /\ UNCHANGED <<rows, txs>>

\* Fault: a refused request keeps its transaction open.
CreateValidate_KeepsLock(p) ==
    /\ pc[p] = "validating"
    /\ \/ CanTake(req[p], slot[p]) /\ Goto(p, "inserting") /\ UNCHANGED lawyerLock
       \/ ~CanTake(req[p], slot[p]) /\ Leave(p) /\ UNCHANGED lawyerLock
    /\ UNCHANGED <<rows, txs>>

\* _validate_booking_rules, the rules about other appointments.
CreateValidate(p) ==
    /\ pc[p] = "validating"
    /\ \/ CanTake(req[p], slot[p]) /\ Goto(p, "inserting") /\ UNCHANGED lawyerLock
       \/ ~CanTake(req[p], slot[p]) /\ Leave(p) /\ Unlock(LawyerOf[req[p]])
    /\ UNCHANGED <<rows, txs>>

\* Fault: the key of the transaction is not unique.
CreateCommit_AnyKey(p) ==
    LET r == req[p] IN
    /\ pc[p] = "inserting"
    /\ \/ /\ r \in Paid
          /\ keyTx' = [keyTx EXCEPT ![KeyOf[r]] = r]
          /\ Save(r, "pending", slot[p])
       \/ r \notin Paid /\ Save(r, "confirmed", slot[p]) /\ UNCHANGED keyTx
    /\ Leave(p) /\ Unlock(LawyerOf[r])
    /\ UNCHANGED detached

\* The inserts and the commit. A paid appointment needs a transaction with
\* its key, which no other transaction has; a physical one has none.
CreateCommit(p) ==
    LET r == req[p] IN
    /\ pc[p] = "inserting"
    /\ \/ /\ r \in Paid /\ keyTx[KeyOf[r]] = None
          /\ keyTx' = [keyTx EXCEPT ![KeyOf[r]] = r]
          /\ Save(r, "pending", slot[p])
       \/ r \notin Paid /\ Save(r, "confirmed", slot[p]) /\ UNCHANGED keyTx
    /\ Leave(p) /\ Unlock(LawyerOf[r])
    /\ UNCHANGED detached

\* The rollback: the key is taken, or Stripe refuses the PaymentIntent.
CreateFail(p) ==
    /\ pc[p] = "inserting" /\ req[p] \in Paid
    /\ Leave(p) /\ Unlock(LawyerOf[req[p]])
    /\ UNCHANGED <<rows, txs>>

-----------------------------------------------------------------------------
(* The handlers that change an appointment.                                *)

\* RescheduleAppointmentView: the serializer looks for conflicts, with no
\* lock and before the transaction begins.
RescheduleCheck(p, r, t) ==
    /\ Active(r) /\ CanTake(r, t)
    /\ Enter(p, "reschedule", "rescheduling", r, t)
    /\ UNCHANGED <<rows, txs, lawyerLock>>

RescheduleCommit(p) ==
    /\ pc[p] = "rescheduling"
    /\ Save(req[p], "confirmed", slot[p])
    /\ Leave(p)
    /\ UNCHANGED <<txs, lawyerLock>>

\* CancelAppointmentView
CancelCheck(p, r) ==
    /\ Active(r)
    /\ Enter(p, "cancel", "cancelling", r, start[r])
    /\ UNCHANGED <<rows, txs, lawyerLock>>

CancelCommit(p) ==
    /\ pc[p] = "cancelling"
    /\ Save(req[p], "cancelled", slot[p])
    /\ Leave(p)
    /\ UNCHANGED <<txs, lawyerLock>>

\* handle_appointment_payment_succeeded, whatever the status is
ConfirmRead(p, r) ==
    /\ r \in Paid /\ Exists(r)
    /\ Enter(p, "confirm", "confirming", r, start[r])
    /\ UNCHANGED <<rows, txs, lawyerLock>>

ConfirmCommit(p) ==
    /\ pc[p] = "confirming"
    /\ Save(req[p], "confirmed", slot[p])
    /\ Leave(p)
    /\ UNCHANGED <<txs, lawyerLock>>

\* delete_unpaid_appointment looks at the status; the handlers of
\* payment_intent.payment_failed and payment_intent.canceled do not.
DeleteRead(p, r) ==
    /\ r \in Paid
    /\ \/ status[r] = "pending" /\ Enter(p, "expire", "deleting", r, start[r])
       \/ Exists(r) /\ Enter(p, "fail", "deleting", r, start[r])
    /\ UNCHANGED <<rows, txs, lawyerLock>>

\* Appointment.delete(): by primary key; the foreign key of the transaction
\* is set to NULL.
DeleteCommit(p) ==
    /\ pc[p] = "deleting"
    /\ status' = [status EXCEPT ![req[p]] = "deleted"]
    /\ detached' = detached \cup {req[p]}
    /\ Leave(p)
    /\ UNCHANGED <<start, keyTx, lawyerLock>>

-----------------------------------------------------------------------------
ProcStep(p) ==
    \/ \E r \in Request : CancelCheck(p, r) \/ ConfirmRead(p, r) \/ DeleteRead(p, r)
    \/ \E r \in Request, t \in Time : CreateStart(p, r, t) \/ RescheduleCheck(p, r, t)
    \/ CreateLock(p) \/ CreateValidate(p) \/ CreateCommit(p) \/ CreateFail(p)
    \/ RescheduleCommit(p) \/ CancelCommit(p) \/ ConfirmCommit(p) \/ DeleteCommit(p)

Next == \E p \in Proc : ProcStep(p)

Spec == Init /\ [][Next]_vars

\* A worker that is inside a handler goes on with it, and PostgreSQL grants a
\* free row lock to each of those that wait for it in turn.
Fairness == \A p \in Proc :
    /\ WF_vars(pc[p] # "idle" /\ ProcStep(p))
    /\ SF_vars(CreateLock(p))

FairSpec == Spec /\ Fairness

-----------------------------------------------------------------------------
(* Properties.                                                             *)

\* Rule 6 of the booking: no two active appointments of one lawyer overlap.
\* It survives concurrent creations next to handlers that only give slots up.
NoLawyerDoubleBooking ==
    \A r, s \in Request : r # s /\ Active(r) /\ Active(s) /\ LawyerOf[r] = LawyerOf[s]
        => ~Overlap(start[r], Length[r], start[s], Length[s])

\* A repeated request makes no second appointment: of the paid requests with
\* one key at most one is ever created, even when they run at once, and even
\* after the first was cancelled or deleted.
OneRowPerKey ==
    \A r, s \in Paid : r # s /\ KeyOf[r] = KeyOf[s] =>
        status[r] = "absent" \/ status[s] = "absent"

\* Every request is answered: nobody waits for ever for a lawyer's row.
RequestsFinish == \A p \in Proc : pc[p] # "idle" ~> pc[p] = "idle"

\* The strengthening that BookingProofs uses: a worker between its lock and
\* its commit holds the row of the lawyer, and what it has validated stands.
LockHeld ==
    \A p \in Proc : pc[p] \in {"validating", "inserting"} =>
        lawyerLock[LawyerOf[req[p]]] = p

ValidatedStands ==
    \A p \in Proc : pc[p] = "inserting" => LawyerConflicts(req[p], slot[p]) = {}

CreatedHasKey ==
    \A r \in Paid : status[r] # "absent" => keyTx[KeyOf[r]] = r
=============================================================================
