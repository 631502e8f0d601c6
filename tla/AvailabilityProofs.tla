------------------------- MODULE AvailabilityProofs -------------------------
(***************************************************************************)
(* Theorems about Availability, for any number of rows, offerings, days    *)
(* and times. NoOverlap needs that one worker at a time serves a lawyer;   *)
(* what the calendar promises holds with any number of workers.            *)
(***************************************************************************)
EXTENDS Availability, TLAPS

\* The strengthening: besides the rows, what is about to be written fits.
NoClash == \A q, r \in Row : q # r => ~Clash(row[q], row[r])

ScheduleInv == TypeOK /\ NoClash /\ WorkStands

LEMMA ClashSymmetric ==
    ASSUME NEW a, NEW b, Clash(a, b) PROVE Clash(b, a)
BY DEF Clash, SlotsClash, BlocksClash, Overlap

LEMMA NothingClashes ==
    ASSUME NEW a PROVE ~Clash(NoRow, a) /\ ~Clash(a, NoRow)
BY DEF Clash, NoRow

LEMMA KindOfRec ==
    ASSUME NEW a \in Rec
    PROVE  /\ a.kind = "slot" => a \in Slot
           /\ a.kind = "block" => a \in Block
BY DEF Rec, Slot, Block, NoRow

LEMMA TimesAreIntegers ==
    ASSUME NEW a, a \in Slot \/ a \in Block
    PROVE  a.start \in Int /\ a.end \in Int
<1>1. Time \cup {0} \subseteq Int
  BY TimeOfDayAssumption
<1> QED  BY <1>1 DEF Slot, Block

LEMMA AcceptedFits ==
    ASSUME NEW C, NEW N \in Accepted(C)
    PROVE  /\ N \subseteq C
           /\ \A s \in N, q \in Row : ~Clash(s, row[q])
           /\ \A s, t \in N : s # t => ~Clash(s, t)
BY DEF Accepted

-----------------------------------------------------------------------------
(* Type correctness.                                                       *)

LEMMA InsertType ==
    ASSUME TypeOK, NEW p \in Proc, NEW C \in SUBSET Rec, NEW N \in Accepted(C), Insert(p, N)
    PROVE  work' \in [Proc -> [Row -> Rec]]
<1>1. PICK w \in [{r \in Row : Fresh(r)} -> N \cup {NoRow}] :
          work' = [work EXCEPT ![p] = [r \in Row |-> IF Fresh(r) THEN w[r] ELSE NoRow]]
  BY DEF Insert
<1>2. [r \in Row |-> IF Fresh(r) THEN w[r] ELSE NoRow] \in [Row -> Rec]
  BY AcceptedFits DEF Rec
<1> QED  BY <1>1, <1>2 DEF TypeOK

LEMMA InitType == Init => TypeOK
BY DateAssumption DEF Init, TypeOK, Nothing, Rec, Date

LEMMA NextType == TypeOK /\ [Next]_vars => TypeOK'
<1> SUFFICES ASSUME TypeOK, [Next]_vars PROVE TypeOK'
  OBVIOUS
<1>1. ASSUME NEW p \in Proc, NEW r \in Row, NEW s \in Rec,
             work' = [work EXCEPT ![p][r] = s], UNCHANGED <<row, offering, today>>
      PROVE  TypeOK'
  BY <1>1 DEF TypeOK
<1>2. ASSUME NEW p \in Proc, SlotStep(p) PROVE TypeOK'
  <2>1. ASSUME NEW s \in SlotRequest, NEW r \in Row, CreateSlot(p, r, s) \/ UpdateSlot(p, r, s)
        PROVE  TypeOK'
    BY <2>1, <1>1 DEF CreateSlot, UpdateSlot, SlotRequest, Rec
  <2>2. ASSUME NEW s \in SlotRequest, NEW days \in SUBSET Day, BulkCreate(p, days, s) PROVE TypeOK'
    <3>1. {[s EXCEPT !.day = d] : d \in days} \subseteq Rec
      BY DEF SlotRequest, Slot, Rec
    <3> QED  BY <3>1, <2>2, InsertType DEF BulkCreate, TypeOK
  <2>3. ASSUME NEW day \in Day, NEW targets \in SUBSET Day, NEW offerings,
               CopyTemplate(p, day, targets, offerings)
        PROVE  TypeOK'
    <3>1. ASSUME NEW s \in Source(day, offerings) PROVE s \in Slot
      BY <3>1, KindOfRec DEF Source, TypeOK
    <3>2. {[s EXCEPT !.day = d] : s \in Source(day, offerings), d \in targets} \subseteq Rec
      BY <3>1 DEF Slot, Rec
    <3> QED  BY <3>2, <2>3, InsertType DEF CopyTemplate, TypeOK
  <2>4. ASSUME ClearAllAvailability(p) PROVE TypeOK'
    BY <2>4 DEF ClearAllAvailability, Delete, TypeOK, Rec
  <2> QED  BY <1>2, <2>1, <2>2, <2>3, <2>4 DEF SlotStep
<1>3. ASSUME NEW p \in Proc, BlockStep(p) PROVE TypeOK'
  <2>1. ASSUME NEW b \in BlockRequest, NEW r \in Row, CreateBlock(p, r, b) \/ UpdateBlock(p, r, b)
        PROVE  TypeOK'
    BY <2>1, <1>1 DEF CreateBlock, UpdateBlock, BlockRequest, Rec
  <2>2. ASSUME ClearPastUnavailability(p) PROVE TypeOK'
    BY <2>2 DEF ClearPastUnavailability, Delete, TypeOK, Rec
  <2> QED  BY <1>3, <2>1, <2>2 DEF BlockStep
<1>4. ASSUME NEW p \in Proc, OfferingStep(p) PROVE TypeOK'
  BY <1>4 DEF OfferingStep, SaveOffering, DeleteOffering, Delete, TypeOK, Rec
<1>5. ASSUME NEW p \in Proc, Write(p) PROVE TypeOK'
  BY <1>5 DEF Write, Written, Nothing, TypeOK, Rec
<1>6. ASSUME NEW p \in Proc, NEW r \in Row, DeleteRow(p, r) PROVE TypeOK'
  BY <1>6 DEF DeleteRow, Delete, TypeOK, Rec
<1>7. CASE TimePasses
  BY <1>7, DateAssumption DEF TimePasses, TypeOK, Date
<1>8. CASE UNCHANGED vars
  BY <1>8 DEF vars, TypeOK
<1> QED  BY <1>2, <1>3, <1>4, <1>5, <1>6, <1>7, <1>8 DEF Next

\* The rows are slots with an offering of the lawyer, blocks, or absent.
THEOREM ScheduleTypeCorrect == Spec => []TypeOK
<1> QED  BY InitType, NextType, PTL DEF Spec

-----------------------------------------------------------------------------
(* No overlap.                                                             *)

\* In this section one worker serves the lawyer.
OneWorkerOnly == \A p, q \in Proc : p = q

LEMMA SingleWriteStands ==
    ASSUME ScheduleInv, OneWorkerOnly, NEW p \in Proc, NEW r \in Row, NEW s \in Rec,
           Idle(p), Valid(r, s), work' = [work EXCEPT ![p][r] = s], UNCHANGED row
    PROVE  NoClash' /\ WorkStands'
<1>1. \A q \in Row \ {r} : work'[p][q] = NoRow
  BY DEF Idle, Nothing, ScheduleInv, TypeOK
<1>2. work'[p][r] = s
  BY DEF ScheduleInv, TypeOK
<1>3. NoClash'
  BY DEF ScheduleInv, NoClash
<1>4. WorkStands'
  <2> SUFFICES ASSUME NEW q \in Row, NEW t \in Row, q # t
               PROVE  ~Clash(work'[p][q], row[t]) /\ ~Clash(work'[p][q], work'[p][t])
    BY DEF WorkStands, OneWorkerOnly
  <2>1. CASE q = r
    BY <2>1, <1>1, <1>2, NothingClashes DEF Valid
  <2>2. CASE q # r
    BY <2>2, <1>1, NothingClashes
  <2> QED  BY <2>1, <2>2
<1> QED  BY <1>3, <1>4

LEMMA InsertStands ==
    ASSUME ScheduleInv, OneWorkerOnly, NEW p \in Proc, NEW C, NEW N \in Accepted(C),
           Insert(p, N), UNCHANGED row
    PROVE  NoClash' /\ WorkStands'
<1>1. PICK f \in [{r \in Row : Fresh(r)} -> N \cup {NoRow}] :
        /\ \A q, r \in DOMAIN f : f[q] = f[r] /\ f[q] # NoRow => q = r
        /\ work' = [work EXCEPT ![p] = [r \in Row |-> IF Fresh(r) THEN f[r] ELSE NoRow]]
  BY DEF Insert
<1> DEFINE w == work'[p]
<1>2. w = [r \in Row |-> IF Fresh(r) THEN f[r] ELSE NoRow]
  BY <1>1 DEF ScheduleInv, TypeOK
<1>3. \A r \in Row : w[r] \in N \cup {NoRow}
  BY <1>2
<1>4. NoClash'
  BY DEF ScheduleInv, NoClash
<1>5. WorkStands'
  <2> SUFFICES ASSUME NEW q \in Row, NEW r \in Row, q # r
               PROVE  ~Clash(w[q], row[r]) /\ ~Clash(w[q], w[r])
    BY <1>2 DEF WorkStands, OneWorkerOnly
  <2>1. CASE w[q] = NoRow \/ w[r] = NoRow
    BY <2>1, <1>3, AcceptedFits, NothingClashes
  <2>2. CASE w[q] # NoRow /\ w[r] # NoRow
    <3>1. w[q] # w[r] /\ w[q] \in N /\ w[r] \in N
      BY <1>1, <1>2, <2>2
    <3> QED  BY <3>1, AcceptedFits
  <2> QED  BY <2>1, <2>2
<1> QED  BY <1>4, <1>5

LEMMA DeleteStands ==
    ASSUME ScheduleInv, NEW S, Delete(S)
    PROVE  NoClash' /\ WorkStands'
<1>1. \A r \in Row : row'[r] = row[r] \/ row'[r] = NoRow
  BY DEF Delete
<1>2. UNCHANGED work
  BY DEF Delete
<1> QED  BY <1>1, <1>2, NothingClashes DEF ScheduleInv, NoClash, WorkStands

LEMMA WriteStands ==
    ASSUME ScheduleInv, NEW p \in Proc, Write(p), OneWorkerOnly
    PROVE  NoClash' /\ WorkStands'
<1>1. \A r \in Row : row'[r] = row[r] \/ row'[r] = work[p][r]
  BY DEF Write
<1>2. NoClash'
  <2> SUFFICES ASSUME NEW q \in Row, NEW r \in Row, q # r PROVE ~Clash(row'[q], row'[r])
    BY DEF NoClash
  <2>1. ~Clash(row[q], row[r]) /\ ~Clash(work[p][q], row[r]) /\ ~Clash(work[p][q], work[p][r])
    BY DEF ScheduleInv, NoClash, WorkStands
  <2>2. ~Clash(work[p][r], row[q])
    BY DEF ScheduleInv, WorkStands
  <2>3. ~Clash(row[q], work[p][r])
    BY <2>2, ClashSymmetric
  <2> QED  BY <1>1, <2>1, <2>3
<1>3. WorkStands'
  <2>1. \A r \in Row : work'[p][r] = NoRow
    BY DEF Write, Nothing, ScheduleInv, TypeOK
  <2> QED  BY <2>1, NothingClashes DEF WorkStands, OneWorkerOnly
<1> QED  BY <1>2, <1>3

LEMMA NextStands ==
    ASSUME OneWorkerOnly, ScheduleInv, [Next]_vars
    PROVE  ScheduleInv'
<1>1. TypeOK'
  BY NextType DEF ScheduleInv
<1>2. ASSUME NEW p \in Proc, SlotStep(p) PROVE NoClash' /\ WorkStands'
  <2>1. ASSUME NEW s \in SlotRequest, NEW r \in Row, CreateSlot(p, r, s) \/ UpdateSlot(p, r, s)
        PROVE  NoClash' /\ WorkStands'
    BY <2>1, SingleWriteStands DEF CreateSlot, UpdateSlot, SlotRequest, Rec
  <2>2. ASSUME NEW s \in SlotRequest, NEW days \in SUBSET Day, BulkCreate(p, days, s)
        PROVE  NoClash' /\ WorkStands'
    BY <2>2, InsertStands DEF BulkCreate
  <2>3. ASSUME NEW day \in Day, NEW targets \in SUBSET Day, NEW offerings,
               CopyTemplate(p, day, targets, offerings)
        PROVE  NoClash' /\ WorkStands'
    BY <2>3, InsertStands DEF CopyTemplate
  <2>4. ASSUME ClearAllAvailability(p) PROVE NoClash' /\ WorkStands'
    BY <2>4, DeleteStands DEF ClearAllAvailability
  <2> QED  BY <1>2, <2>1, <2>2, <2>3, <2>4 DEF SlotStep
<1>3. ASSUME NEW p \in Proc, BlockStep(p) PROVE NoClash' /\ WorkStands'
  <2>1. ASSUME NEW b \in BlockRequest, NEW r \in Row, CreateBlock(p, r, b) \/ UpdateBlock(p, r, b)
        PROVE  NoClash' /\ WorkStands'
    BY <2>1, SingleWriteStands DEF CreateBlock, UpdateBlock, BlockRequest, Rec
  <2>2. ASSUME ClearPastUnavailability(p) PROVE NoClash' /\ WorkStands'
    BY <2>2, DeleteStands DEF ClearPastUnavailability
  <2> QED  BY <1>3, <2>1, <2>2 DEF BlockStep
<1>4. ASSUME NEW p \in Proc, OfferingStep(p) PROVE NoClash' /\ WorkStands'
  <2>1. ASSUME NEW o \in Offering, DeleteOffering(p, o) PROVE NoClash' /\ WorkStands'
    BY <2>1, DeleteStands DEF DeleteOffering
  <2>2. ASSUME NEW o \in Offering, NEW s, SaveOffering(p, o, s) PROVE NoClash' /\ WorkStands'
    BY <2>2 DEF SaveOffering, ScheduleInv, NoClash, WorkStands
  <2> QED  BY <1>4, <2>1, <2>2 DEF OfferingStep
<1>5. ASSUME NEW p \in Proc, NEW r \in Row, DeleteRow(p, r) PROVE NoClash' /\ WorkStands'
  BY <1>5, DeleteStands DEF DeleteRow
<1>6. CASE TimePasses
  BY <1>6, <1>1 DEF TimePasses, ScheduleInv, NoClash, WorkStands
<1>7. CASE UNCHANGED vars
  BY <1>7, <1>1 DEF vars, ScheduleInv, NoClash, WorkStands
<1> QED
  BY <1>1, <1>2, <1>3, <1>4, <1>5, <1>6, <1>7, WriteStands DEF Next, ScheduleInv

LEMMA InitStands == Init => ScheduleInv
<1> SUFFICES ASSUME Init PROVE NoClash /\ WorkStands
  BY InitType DEF ScheduleInv
<1>1. \A r \in Row : row[r] = NoRow /\ \A p \in Proc : work[p][r] = NoRow
  BY DEF Init, Nothing
<1> QED  BY <1>1, NothingClashes DEF NoClash, WorkStands

LEMMA NoClashNoOverlap == TypeOK /\ NoClash => NoOverlap
<1> SUFFICES ASSUME TypeOK, NoClash, NEW q \in Row, NEW r \in Row, q # r
             PROVE  /\ BothActive(row[q], row[r]) => Disjoint(row[q], row[r])
                    /\ BothBlock(row[q], row[r]) =>
                          ~row[q].allDay /\ ~row[r].allDay /\ Disjoint(row[q], row[r])
  BY DEF NoOverlap
<1>1. ~Clash(row[q], row[r])
  BY DEF NoClash
<1>2. row[q] \in Rec /\ row[r] \in Rec
  BY DEF TypeOK
<1>3. ASSUME BothActive(row[q], row[r]) PROVE Disjoint(row[q], row[r])
  <2>1. row[q] \in Slot /\ row[r] \in Slot
    BY <1>2, <1>3, KindOfRec DEF BothActive
  <2>2. row[q].start \in Int /\ row[q].end \in Int /\ row[r].start \in Int /\ row[r].end \in Int
    BY <2>1, TimesAreIntegers
  <2> QED  BY <1>1, <1>3, <2>2 DEF BothActive, Disjoint, Clash, SlotsClash, Overlap
<1>4. ASSUME BothBlock(row[q], row[r])
      PROVE  ~row[q].allDay /\ ~row[r].allDay /\ Disjoint(row[q], row[r])
  <2>1. row[q] \in Block /\ row[r] \in Block
    BY <1>2, <1>4, KindOfRec DEF BothBlock
  <2>2. row[q].start \in Int /\ row[q].end \in Int /\ row[r].start \in Int /\ row[r].end \in Int
    BY <2>1, TimesAreIntegers
  <2> QED  BY <1>1, <1>4, <2>2 DEF BothBlock, Disjoint, Clash, BlocksClash, Overlap
<1> QED  BY <1>3, <1>4

\* One worker at a time keeps the slots of a day and the blocks of a date
\* apart, through creation, update, bulk creation and copies.
THEOREM ScheduleNeverOverlaps ==
    ASSUME OneWorkerOnly PROVE Spec => []NoOverlap
<1>1. ScheduleInv /\ [Next]_vars => ScheduleInv'
  BY NextStands
<1>2. ScheduleInv => NoOverlap
  BY NoClashNoOverlap DEF ScheduleInv
<1> QED  BY InitStands, <1>1, <1>2, PTL DEF Spec

-----------------------------------------------------------------------------
(* What clients see.                                                       *)

LEMMA OneOfferingCovers == TypeOK /\ NoOverlap => OneOfferingPerWindow
<1> SUFFICES ASSUME TypeOK, NoOverlap, NEW d \in Date, NEW t \in Time, NEW u \in Time,
                    NEW o \in Offering, NEW n \in Offering,
                    CheckTime(d, t, u, o), CheckTime(d, t, u, n)
             PROVE  o = n
  BY DEF OneOfferingPerWindow
<1>1. PICK q \in Row : /\ IsOffered(row[q], d) /\ row[q].offering = o
                       /\ row[q].start <= t /\ u <= row[q].end
  BY DEF CheckTime, IsAvailableAt
<1>2. PICK r \in Row : /\ IsOffered(row[r], d) /\ row[r].offering = n
                       /\ row[r].start <= t /\ u <= row[r].end
  BY DEF CheckTime, IsAvailableAt
<1>3. row[q] \in Slot /\ row[r] \in Slot
  BY <1>1, <1>2, KindOfRec DEF IsOffered, TypeOK
<1>4. t < u /\ t \in Int /\ u \in Int /\ row[q].start \in Int /\ row[q].end \in Int
      /\ row[r].start \in Int /\ row[r].end \in Int
  BY <1>3, TimesAreIntegers, TimeOfDayAssumption DEF CheckTime
<1>5. ~Disjoint(row[q], row[r])
  BY <1>1, <1>2, <1>4 DEF Disjoint
<1>6. BothActive(row[q], row[r])
  BY <1>1, <1>2 DEF IsOffered, BothActive
<1> QED  BY <1>1, <1>2, <1>5, <1>6 DEF NoOverlap

\* So a window is sold at the price of one offering.
THEOREM WindowHasOneOffering ==
    ASSUME OneWorkerOnly PROVE Spec => []OneOfferingPerWindow
<1> QED
  BY ScheduleNeverOverlaps, ScheduleTypeCorrect, OneOfferingCovers, PTL

LEMMA ListedIsAvailable == TypeOK => CalendarIsBookable
<1> SUFFICES ASSUME TypeOK, NEW d \in Date, NEW q \in Row, row[q] \in Calendar(d),
                    NEW t \in Time, NEW u \in Time,
                    row[q].start <= t, t < u, u <= row[q].end
             PROVE  IsAvailableAt(d, t, u, row[q].offering)
  BY DEF CalendarIsBookable, Calendar, CheckTime
<1>1. IsOffered(row[q], d) /\ \A r \in Row : ~BlockHits(row[r], d, row[q].start, row[q].end)
  BY DEF Calendar
<1>2. ASSUME NEW r \in Row, BlockHits(row[r], d, t, u) PROVE FALSE
  <2>1. row[q] \in Slot /\ row[r] \in Block
    BY <1>1, <1>2, KindOfRec DEF IsOffered, BlockHits, TypeOK
  <2>2. /\ row[q].start \in Int /\ row[q].end \in Int /\ row[r].start \in Int
        /\ row[r].end \in Int /\ t \in Int /\ u \in Int
    BY <2>1, TimesAreIntegers, TimeOfDayAssumption
  <2>3. BlockHits(row[r], d, row[q].start, row[q].end)
    BY <1>2, <2>2 DEF BlockHits, Overlap
  <2> QED  BY <2>3, <1>1
<1> QED  BY <1>1, <1>2 DEF IsAvailableAt

\* The calendar and the time check agree, whatever the workers interleave.
THEOREM ListedSlotsAreBookable == Spec => []CalendarIsBookable
<1> QED  BY ScheduleTypeCorrect, ListedIsAvailable, PTL
=============================================================================
