---------------------------- MODULE Availability ----------------------------
(***************************************************************************)
(* The schedule of one lawyer: weekly slots, each with an offering, and    *)
(* blocks on dates (Unavailability), and what the calendar and the time    *)
(* check make of them for clients.                                         *)
(*                                                                         *)
(* Slots and blocks are saved alike: full_clean() reads the other rows,    *)
(* and the INSERT or UPDATE comes after it with no lock in between. So a   *)
(* handler that saves is two steps, between which other workers can come:  *)
(* it works out its rows, then it writes them. A bulk request, which is    *)
(* one transaction, makes the first step for all its rows at once.         *)
(***************************************************************************)
EXTENDS Integers

CONSTANTS
    Row,           \* primary keys of slots and blocks
    Offering,      \* the lawyer's pricing plans
    WeekLength,    \* 7
    Time,          \* times of day, in half hours
    LastDate,      \* bound on the dates
    Horizon,       \* how far ahead a block may lie: two years
    Proc           \* web workers that serve this lawyer

ASSUME TimeOfDayAssumption == Time \subseteq 0 .. 48
ASSUME DateAssumption == WeekLength \in Nat \ {0} /\ LastDate \in Nat /\ Horizon \in Nat

Day  == 0 .. WeekLength - 1
Date == 0 .. LastDate

Weekday(d) == d % WeekLength

VARIABLES
    row,        \* the table rows: a slot, a block or NoRow
    work,       \* the rows a worker has validated and is about to write
    offering,   \* LawyerOffering.is_active, or "absent" without a row
    today

vars == <<row, work, offering, today>>

NoRow == [kind |-> "none"]

Slot == [kind : {"slot"}, day : Day, start : Time, end : Time,
         offering : Offering, active : BOOLEAN]

\* An all-day block has no times; they stand for 0 here.
Block == [kind : {"block"}, date : Date, allDay : BOOLEAN,
          start : Time \cup {0}, end : Time \cup {0}]

Rec == Slot \cup Block \cup {NoRow}

Nothing == [r \in Row |-> NoRow]

TypeOK ==
    /\ row \in [Row -> Rec]
    /\ work \in [Proc -> [Row -> Rec]]
    /\ offering \in [Offering -> {"absent", "active", "inactive"}]
    /\ today \in Date

Init ==
    /\ row = Nothing
    /\ work = [p \in Proc |-> Nothing]
    /\ offering = [o \in Offering |-> "absent"]
    /\ today = 0

-----------------------------------------------------------------------------
(* Validation.                                                             *)

Overlap(t, u, v, w) == t < w /\ v < u

\* The tests of Availability.clean and Unavailability.clean on two rows.
SlotsClash(a, b) ==
    /\ a.active /\ b.active /\ a.day = b.day
    /\ Overlap(a.start, a.end, b.start, b.end)

BlocksClash(a, b) ==
    /\ a.date = b.date
    /\ a.allDay \/ b.allDay \/ Overlap(a.start, a.end, b.start, b.end)

Clash(a, b) ==
    \/ a.kind = "slot" /\ b.kind = "slot" /\ SlotsClash(a, b)
    \/ a.kind = "block" /\ b.kind = "block" /\ BlocksClash(a, b)

\* unique_lawyer_schedule_slot
SameKey(a, b) ==
    /\ a.kind = "slot" /\ b.kind = "slot"
    /\ a.day = b.day /\ a.start = b.start /\ a.end = b.end /\ a.offering = b.offering

Exists(o) == offering[o] \in {"active", "inactive"}

\* The slots and blocks that the serializers' validate() lets pass; for a
\* block on a whole day the model clears the times.
SlotRequest == {s \in Slot : s.start < s.end}

BlockRequest ==
    {b \in Block : IF b.allDay THEN b.start = 0 /\ b.end = 0
                   ELSE b.start \in Time /\ b.start < b.end}

DateIsOpen(d) == today <= d /\ d <= today + Horizon

\* Fault: only slots of the same offering are compared.
Valid_PerOffering(r, s) ==
    \A q \in Row \ {r} :
        /\ ~SameKey(s, row[q])
        /\ ~(Clash(s, row[q]) /\ (s.kind = "slot" => s.offering = row[q].offering))

\* full_clean() of s as row r.
Valid(r, s) == \A q \in Row \ {r} : ~SameKey(s, row[q]) /\ ~Clash(s, row[q])

\* 06:00 to 22:00 and 07:00 to 23:59; a bulk request has no such bounds.
StartsWithinHours(s) == 12 <= s.start /\ s.start <= 44

EndsWithinHours(s) == 14 <= s.end /\ s.end < 48

-----------------------------------------------------------------------------
(* Saving.                                                                 *)

Idle(p) == work[p] = Nothing

Fresh(r) == row[r] = NoRow /\ \A p \in Proc : work[p][r] = NoRow

\* The rows a loop of get_or_create() makes of the candidates, in whichever
\* order it meets them: it skips what exists or clashes.
Accepted(candidates) ==
    LET valid == {s \in candidates : \A q \in Row : ~SameKey(s, row[q]) /\ ~Clash(s, row[q])}
    IN  {N \in SUBSET valid :
            /\ \A s, t \in N : s # t => ~Clash(s, t)
            /\ \A s \in valid \ N : \E t \in N : Clash(s, t)}

\* The new rows of N get a key each.
Insert(p, N) ==
    \E w \in [{r \in Row : Fresh(r)} -> N \cup {NoRow}] :
        /\ \A s \in N : \E r \in DOMAIN w : w[r] = s
        /\ \A q, r \in DOMAIN w : w[q] = w[r] /\ w[q] # NoRow => q = r
        /\ work' = [work EXCEPT ![p] = [r \in Row |-> IF Fresh(r) THEN w[r] ELSE NoRow]]

CreateSlot(p, r, s) ==
    /\ Idle(p) /\ Fresh(r)
    /\ StartsWithinHours(s) /\ EndsWithinHours(s)
    /\ Exists(s.offering) /\ Valid(r, s)
    /\ work' = [work EXCEPT ![p][r] = s]
    /\ UNCHANGED <<row, offering, today>>

\* s is the slot as the request leaves it. A PATCH is held to the hours only
\* in the times it gives; one it leaves out may lie outside them.
UpdateSlot(p, r, s) ==
    /\ Idle(p) /\ row[r].kind = "slot"
    /\ StartsWithinHours(s) \/ s.start = row[r].start
    /\ EndsWithinHours(s) \/ s.end = row[r].end
    /\ Exists(s.offering) /\ Valid(r, s)
    /\ work' = [work EXCEPT ![p][r] = s]
    /\ UNCHANGED <<row, offering, today>>

BulkCreate(p, days, s) ==
    /\ Idle(p) /\ Exists(s.offering) /\ s.day \in days
    /\ \E N \in Accepted({[s EXCEPT !.day = d] : d \in days}) : Insert(p, N)
    /\ UNCHANGED <<row, offering, today>>

\* The active slots of a day; without an offering in the request, all of them.
Source(day, offerings) ==
    {s \in {row[r] : r \in Row} :
        s.kind = "slot" /\ s.active /\ s.day = day /\ s.offering \in offerings}

\* Fault: the copies are made without the model's validation (bulk_create).
CopyTemplate_Unchecked(p, day, targets, offerings) ==
    /\ Idle(p) /\ Source(day, offerings) # {}
    /\ Insert(p, {[s EXCEPT !.day = d] : s \in Source(day, offerings), d \in targets})
    /\ UNCHANGED <<row, offering, today>>

CopyTemplate(p, day, targets, offerings) ==
    /\ Idle(p) /\ Source(day, offerings) # {}
    /\ \E N \in Accepted({[s EXCEPT !.day = d] : s \in Source(day, offerings), d \in targets}) :
          Insert(p, N)
    /\ UNCHANGED <<row, offering, today>>

CreateBlock(p, r, b) ==
    /\ Idle(p) /\ Fresh(r)
    /\ DateIsOpen(b.date) /\ Valid(r, b)
    /\ work' = [work EXCEPT ![p][r] = b]
    /\ UNCHANGED <<row, offering, today>>

UpdateBlock(p, r, b) ==
    /\ Idle(p) /\ row[r].kind = "block"
    /\ DateIsOpen(b.date) /\ Valid(r, b)
    /\ work' = [work EXCEPT ![p][r] = b]
    /\ UNCHANGED <<row, offering, today>>

\* What the constraints of the table let in: no second row with a slot's key,
\* and nothing at all when an offering has gone (a deferred foreign key).
Written(p) ==
    {r \in Row : /\ work[p][r] # NoRow
                 /\ \A q \in Row : work[p][q].kind = "slot" => Exists(work[p][q].offering)
                 /\ \A q \in Row \ {r} : ~SameKey(work[p][r], row[q])}

\* The INSERT or UPDATE of every field, which inserts a row deleted meanwhile
\* again, and the commit.
Write(p) ==
    /\ ~Idle(p)
    /\ row' = [r \in Row |-> IF r \in Written(p) THEN work[p][r] ELSE row[r]]
    /\ work' = [work EXCEPT ![p] = Nothing]
    /\ UNCHANGED <<offering, today>>

-----------------------------------------------------------------------------
(* Deleting, offerings, time.                                              *)

Delete(S) ==
    /\ row' = [r \in Row |-> IF r \in S THEN NoRow ELSE row[r]]
    /\ UNCHANGED <<work, today>>

DeleteRow(p, r) == Idle(p) /\ row[r] # NoRow /\ Delete({r}) /\ UNCHANGED offering

ClearAllAvailability(p) ==
    Idle(p) /\ Delete({r \in Row : row[r].kind = "slot"}) /\ UNCHANGED offering

ClearPastUnavailability(p) ==
    /\ Idle(p)
    /\ Delete({r \in Row : row[r].kind = "block" /\ row[r].date < today})
    /\ UNCHANGED offering

\* LawyerOfferingListCreateView and LawyerOfferingDetailView. A new offering
\* has a new key, one that no unfinished request knows.
SaveOffering(p, o, s) ==
    /\ Idle(p) /\ s \in {"active", "inactive"}
    /\ Exists(o) \/ \A q \in Proc, r \in Row :
                       work[q][r].kind = "slot" => work[q][r].offering # o
    /\ offering' = [offering EXCEPT ![o] = s]
    /\ UNCHANGED <<row, work, today>>

\* on_delete=CASCADE takes the slots of the offering along.
DeleteOffering(p, o) ==
    /\ Idle(p) /\ Exists(o)
    /\ offering' = [offering EXCEPT ![o] = "absent"]
    /\ Delete({r \in Row : row[r].kind = "slot" /\ row[r].offering = o})

TimePasses == today < LastDate /\ today' = today + 1 /\ UNCHANGED <<row, work, offering>>

SlotStep(p) ==
    \/ \E s \in SlotRequest :
          \/ \E r \in Row : CreateSlot(p, r, s) \/ UpdateSlot(p, r, s)
          \/ \E days \in SUBSET Day : BulkCreate(p, days, s)
    \/ \E day \in Day, targets \in SUBSET Day, offerings \in {{o} : o \in Offering} \cup {Offering} :
          CopyTemplate(p, day, targets, offerings)
    \/ ClearAllAvailability(p)

BlockStep(p) ==
    \/ \E r \in Row, b \in BlockRequest : CreateBlock(p, r, b) \/ UpdateBlock(p, r, b)
    \/ ClearPastUnavailability(p)

OfferingStep(p) ==
    \E o \in Offering : DeleteOffering(p, o) \/ \E s \in {"active", "inactive"} : SaveOffering(p, o, s)

Next ==
    \/ \E p \in Proc : \/ SlotStep(p) \/ BlockStep(p) \/ OfferingStep(p) \/ Write(p)
                       \/ \E r \in Row : DeleteRow(p, r)
    \/ TimePasses

Spec == Init /\ [][Next]_vars

-----------------------------------------------------------------------------
(* What clients see.                                                       *)

BlockHits(b, d, t, u) ==
    b.kind = "block" /\ b.date = d /\ (b.allDay \/ Overlap(t, u, b.start, b.end))

IsOffered(s, d) ==
    s.kind = "slot" /\ s.day = Weekday(d) /\ s.active /\ offering[s.offering] = "active"

\* Fault: a slot is crossed out only by a block that covers it.
Calendar_CoveringBlock(d) ==
    {s \in {row[r] : r \in Row} :
        /\ IsOffered(s, d)
        /\ \A r \in Row : ~(/\ BlockHits(row[r], d, s.start, s.end)
                            /\ row[r].allDay \/ (row[r].start <= s.start /\ s.end <= row[r].end))}

\* get_availability_for_date_with_offerings
Calendar(d) ==
    {s \in {row[r] : r \in Row} :
        IsOffered(s, d) /\ \A r \in Row : ~BlockHits(row[r], d, s.start, s.end)}

\* is_available_at_time_with_offering
IsAvailableAt(d, t, u, o) ==
    /\ \E r \in Row : /\ IsOffered(row[r], d) /\ row[r].offering = o
                      /\ row[r].start <= t /\ u <= row[r].end
    /\ \A r \in Row : ~BlockHits(row[r], d, t, u)

CheckTime(d, t, u, o) == t < u /\ IsAvailableAt(d, t, u, o)

-----------------------------------------------------------------------------
(* Properties.                                                             *)

Disjoint(a, b) == a.end <= b.start \/ b.end <= a.start

BothActive(a, b) == a.kind = "slot" /\ b.kind = "slot" /\ a.active /\ b.active /\ a.day = b.day

BothBlock(a, b) == a.kind = "block" /\ b.kind = "block" /\ a.date = b.date

\* No two active slots of a day overlap, and no two blocks of a date, whatever
\* was created, moved, switched on again, copied or made in bulk ("Full overlap
\* validation on save"). An all-day block has its date for itself. It needs that
\* one worker at a time serves the lawyer.
NoOverlap ==
    \A q, r \in Row : q # r =>
        /\ BothActive(row[q], row[r]) => Disjoint(row[q], row[r])
        /\ BothBlock(row[q], row[r]) =>
              ~row[q].allDay /\ ~row[r].allDay /\ Disjoint(row[q], row[r])

\* A window that the time check accepts is sold at one price: it belongs to
\* one offering only.
OneOfferingPerWindow ==
    \A d \in Date, t, u \in Time, o \in Offering : CheckTime(d, t, u, o) =>
        \A n \in Offering : CheckTime(d, t, u, n) => o = n

\* What the calendar lists can be booked: every window inside a listed slot
\* passes the time check for the slot's offering.
CalendarIsBookable ==
    \A d \in Date : \A s \in Calendar(d) : \A t, u \in Time :
        s.start <= t /\ t < u /\ u <= s.end => CheckTime(d, t, u, s.offering)

\* The strengthening of AvailabilityProofs: what a worker is about to write
\* still fits with the rows and with the rest of what it writes.
WorkStands ==
    \A p \in Proc, q, r \in Row : q # r =>
        ~Clash(work[p][q], row[r]) /\ ~Clash(work[p][q], work[p][r])
=============================================================================
