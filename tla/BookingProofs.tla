---------------------------- MODULE BookingProofs ----------------------------
(***************************************************************************)
(* Results about Booking, for any number of lawyers, clients, requests and *)
(* workers. With the handlers that take a slot under the lawyer's lock or  *)
(* give one up, no lawyer is ever booked twice, nor a client who books one *)
(* lawyer only; with all handlers but the late confirmation nobody is, as  *)
(* long as requests run one at a time. With all handlers, a key makes at   *)
(* most one paid appointment, and nobody who holds a lawyer's row waits.   *)
(***************************************************************************)
EXTENDS Booking, TLAPS

LockingHandlers == {"create", "cancel", "expire", "fail"}

\* Before the first request every variable has its type.
LEMMA TypeOKInit == Init => TypeOK
BY TimeAssumption DEF Init, TypeOK, Step

\* Every step of a handler keeps the types.
LEMMA TypeOKStep == TypeOK /\ [Next]_vars => TypeOK'
<1> SUFFICES ASSUME TypeOK, [Next]_vars PROVE TypeOK'
  OBVIOUS
<1> USE RequestAssumption, TimeAssumption
<1>1. ASSUME NEW p \in Proc, ProcStep(p) PROVE TypeOK'
  <2>1. ASSUME NEW r \in Request, NEW t \in Time, CreateStart(p, r, t) PROVE TypeOK'
    BY <2>1 DEF TypeOK, CreateStart, Enter, Step, rows, txs
  <2>2. ASSUME NEW r \in Request, NEW t \in Time, RescheduleCheck(p, r, t) PROVE TypeOK'
    BY <2>2 DEF TypeOK, RescheduleCheck, Enter, Step, rows, txs
  <2>3. ASSUME NEW r \in Request, CancelCheck(p, r) PROVE TypeOK'
    BY <2>3 DEF TypeOK, CancelCheck, Enter, Step, rows, txs
  <2>4. ASSUME NEW r \in Request, ConfirmRead(p, r) PROVE TypeOK'
    BY <2>4 DEF TypeOK, ConfirmRead, Enter, Step, rows, txs
  <2>5. ASSUME NEW r \in Request, DeleteRead(p, r) PROVE TypeOK'
    BY <2>5 DEF TypeOK, DeleteRead, Enter, Step, rows, txs
  <2>6. CASE CreateLock(p)
    BY <2>6 DEF TypeOK, CreateLock, Goto, Step, rows, txs
  <2>7. CASE CreateValidate(p)
    BY <2>7 DEF TypeOK, CreateValidate, Goto, Leave, Unlock, Step, rows, txs
  <2>8. CASE CreateCommit(p)
    BY <2>8 DEF TypeOK, CreateCommit, Leave, Unlock, Save, Step
  <2>9. CASE CreateFail(p)
    BY <2>9 DEF TypeOK, CreateFail, Leave, Unlock, Step, rows, txs
  <2>10. CASE RescheduleCommit(p)
    BY <2>10 DEF TypeOK, RescheduleCommit, Leave, Save, Step, txs
  <2>11. CASE CancelCommit(p)
    BY <2>11 DEF TypeOK, CancelCommit, Leave, Save, Step, txs
  <2>12. CASE ConfirmCommit(p)
    BY <2>12 DEF TypeOK, ConfirmCommit, Leave, Save, Step, txs
  <2>13. CASE DeleteCommit(p)
    BY <2>13 DEF TypeOK, DeleteCommit, Leave, Step
  <2> QED BY <1>1, <2>1, <2>2, <2>3, <2>4, <2>5, <2>6, <2>7, <2>8, <2>9, <2>10, <2>11,
        <2>12, <2>13 DEF ProcStep
<1>2. CASE UNCHANGED vars
  BY <1>2 DEF TypeOK, vars, rows, txs, worker
<1> QED BY <1>1, <1>2 DEF Next

\* Every value the handlers store is one its field can hold.
THEOREM BookingTypeCorrect == Spec => []TypeOK
BY TypeOKInit, TypeOKStep, PTL DEF Spec

-----------------------------------------------------------------------------
(* One appointment per key.                                                *)

\* Whatever a handler saves or deletes was created before.
HandledWasCreated ==
    \A p \in Proc : pc[p] \in {"rescheduling", "cancelling", "confirming", "deleting"}
        => status[req[p]] # "absent"

KeyInv == TypeOK /\ HandledWasCreated /\ CreatedHasKey

\* No key is used before the first request.
LEMMA KeyInvInit == Init => KeyInv
BY TypeOKInit, RequestAssumption DEF Init, KeyInv, HandledWasCreated, CreatedHasKey

\* A transaction keeps its key for ever, and a created request stays created.
LEMMA KeyInvStep == KeyInv /\ [Next]_vars => KeyInv'
<1> SUFFICES ASSUME KeyInv, [Next]_vars PROVE KeyInv'
  OBVIOUS
<1>1. TypeOK /\ TypeOK'
  BY TypeOKStep DEF KeyInv
<1> USE <1>1, RequestAssumption, KeyAssumption
    DEF KeyInv, HandledWasCreated, CreatedHasKey, TypeOK, Step
<1>2. ASSUME NEW p \in Proc, ProcStep(p) PROVE KeyInv'
  <2>1. ASSUME NEW r \in Request, NEW t \in Time,
               CreateStart(p, r, t) \/ RescheduleCheck(p, r, t)
        PROVE KeyInv'
    BY <2>1 DEF CreateStart, RescheduleCheck, Enter, Active, rows, txs
  <2>2. ASSUME NEW r \in Request, CancelCheck(p, r) \/ ConfirmRead(p, r) \/ DeleteRead(p, r)
        PROVE KeyInv'
    BY <2>2 DEF CancelCheck, ConfirmRead, DeleteRead, Enter, Active, Exists, rows, txs
  <2>3. CASE CreateLock(p) \/ CreateValidate(p) \/ CreateFail(p)
    BY <2>3 DEF CreateLock, CreateValidate, CreateFail, Goto, Leave, rows, txs
  <2>4. CASE CreateCommit(p)
    <3> DEFINE r == req[p]
    <3>1. CASE r \in Paid /\ keyTx[KeyOf[r]] = None
      BY <2>4, <3>1 DEF CreateCommit, Save, Leave, None
    <3>2. CASE r \notin Paid
      BY <2>4, <3>2 DEF CreateCommit, Save, Leave
    <3> QED BY <2>4, <3>1, <3>2 DEF CreateCommit
  <2>5. CASE RescheduleCommit(p) \/ CancelCommit(p) \/ ConfirmCommit(p)
    BY <2>5 DEF RescheduleCommit, CancelCommit, ConfirmCommit, Save, Leave, txs
  <2>6. CASE DeleteCommit(p)
    BY <2>6 DEF DeleteCommit, Leave
  <2> QED BY <1>2, <2>1, <2>2, <2>3, <2>4, <2>5, <2>6 DEF ProcStep
<1>3. CASE UNCHANGED vars
  BY <1>3 DEF vars, rows, txs, worker
<1> QED BY <1>2, <1>3 DEF Next

\* A paid appointment is created at most once for a key, whichever handlers
\* run, and however the repetitions of a request interleave.
THEOREM KeyBooksOnce == Spec => []OneRowPerKey
<1>1. KeyInv => OneRowPerKey
  BY RequestAssumption DEF KeyInv, TypeOK, CreatedHasKey, OneRowPerKey
<1> QED BY <1>1, KeyInvInit, KeyInvStep, PTL DEF Spec

-----------------------------------------------------------------------------
(* The lawyer's calendar.                                                  *)

\* With these handlers slots are only taken under the lock.
CalendarInv ==
    /\ TypeOK
    /\ \A p \in Proc : pc[p] \notin {"rescheduling", "confirming"}
    /\ LockHeld /\ ValidatedStands /\ NoLawyerDoubleBooking

\* The calendar is empty at the start.
LEMMA CalendarInvInit == Init => CalendarInv
BY TypeOKInit DEF Init, CalendarInv, LockHeld, ValidatedStands, NoLawyerDoubleBooking, Active

\* A lawyer's calendar only changes at the commit of the worker that holds
\* the lock, or when an appointment leaves it.
LEMMA CalendarInvStep ==
    ASSUME Handler \subseteq LockingHandlers, CalendarInv, [Next]_vars
    PROVE  CalendarInv'
<1>1. TypeOK /\ TypeOK'
  BY TypeOKStep DEF CalendarInv
<1> USE <1>1, RequestAssumption, ProcAssumption DEF CalendarInv, Step
<1>2. ASSUME NEW p \in Proc, ProcStep(p) PROVE CalendarInv'
  <2>1. ASSUME NEW r \in Request, NEW t \in Time, CreateStart(p, r, t)
        PROVE CalendarInv'
    BY <2>1 DEF CreateStart, Enter, rows, txs, TypeOK, LockHeld, ValidatedStands,
      NoLawyerDoubleBooking, LawyerConflicts, Active
  <2>2. ASSUME NEW r \in Request, CancelCheck(p, r) \/ DeleteRead(p, r)
        PROVE CalendarInv'
    BY <2>2 DEF CancelCheck, DeleteRead, Enter, rows, txs, TypeOK, LockHeld,
      ValidatedStands, NoLawyerDoubleBooking, LawyerConflicts, Active
  <2>3. CASE CreateLock(p)
    BY <2>3 DEF CreateLock, Goto, rows, txs, TypeOK, LockHeld, ValidatedStands,
      NoLawyerDoubleBooking, LawyerConflicts, Active, Free
  <2>4. CASE CreateValidate(p)
    BY <2>4 DEF CreateValidate, CanTake, Goto, Leave, Unlock, rows, txs, TypeOK, LockHeld,
      ValidatedStands, NoLawyerDoubleBooking, LawyerConflicts, Active
  <2>5. CASE CreateFail(p)
    BY <2>5 DEF CreateFail, Leave, Unlock, rows, txs, TypeOK, LockHeld, ValidatedStands,
      NoLawyerDoubleBooking, LawyerConflicts, Active
  <2>6. CASE CreateCommit(p)
    <3> DEFINE r == req[p]
               t == slot[p]
    <3>1. /\ r \in Request /\ t \in Time
          /\ \E s \in {"pending", "confirmed"} : status' = [status EXCEPT ![r] = s]
          /\ start' = [start EXCEPT ![r] = t]
          /\ pc' = [pc EXCEPT ![p] = "idle"]
          /\ req' = [req EXCEPT ![p] = None] /\ slot' = [slot EXCEPT ![p] = 0]
          /\ lawyerLock' = [lawyerLock EXCEPT ![LawyerOf[r]] = Free]
          /\ pc[p] = "inserting"
      BY <2>6 DEF CreateCommit, Save, Leave, Unlock, TypeOK
    <3>2. ASSUME NEW q \in Proc, q # p, pc[q] \in {"validating", "inserting"}
          PROVE  req[q] \in Request /\ LawyerOf[req[q]] # LawyerOf[r]
      BY <3>1, <3>2 DEF LockHeld, TypeOK
    <3>3. LockHeld'
      BY <3>1, <3>2 DEF LockHeld, TypeOK
    <3>4. ValidatedStands'
      BY <3>1, <3>2 DEF ValidatedStands, LawyerConflicts, Active, TypeOK
    <3>5. \A s \in Request : s # r /\ Active(s) /\ LawyerOf[s] = LawyerOf[r]
             => ~Overlap(t, Length[r], start[s], Length[s])
      BY <3>1 DEF ValidatedStands, LawyerConflicts
    <3>6. NoLawyerDoubleBooking'
      <4> SUFFICES ASSUME NEW x \in Request, NEW y \in Request, x # y, Active(x)', Active(y)',
                          LawyerOf[x] = LawyerOf[y]
                   PROVE  ~Overlap(start'[x], Length[x], start'[y], Length[y])
        BY DEF NoLawyerDoubleBooking
      <4>1. \A s \in Request : /\ s = r => start'[s] = t
                               /\ s # r => start'[s] = start[s] /\ (Active(s)' => Active(s))
        BY <3>1 DEF Active, TypeOK
      <4>2. CASE x = r
        BY <3>5, <4>1, <4>2
      <4>3. CASE y = r
        <5>1. ~Overlap(t, Length[r], start[x], Length[x])
          BY <3>5, <4>1, <4>3
        <5> QED BY <4>1, <4>3, <5>1 DEF Overlap
      <4>4. CASE x # r /\ y # r
        BY <4>1, <4>4 DEF NoLawyerDoubleBooking
      <4> QED BY <4>2, <4>3, <4>4
    <3>7. \A q \in Proc : pc'[q] \notin {"rescheduling", "confirming"}
      BY <3>1 DEF TypeOK
    <3> QED BY <3>3, <3>4, <3>6, <3>7
  <2>7. CASE CancelCommit(p)
    BY <2>7 DEF CancelCommit, Save, Leave, txs, TypeOK, LockHeld, ValidatedStands,
      NoLawyerDoubleBooking, LawyerConflicts, Active
  <2>8. CASE DeleteCommit(p)
    BY <2>8 DEF DeleteCommit, Leave, TypeOK, LockHeld, ValidatedStands,
      NoLawyerDoubleBooking, LawyerConflicts, Active
  <2>9. ~(RescheduleCommit(p) \/ ConfirmCommit(p))
    BY DEF RescheduleCommit, ConfirmCommit
  <2>10. ASSUME NEW r \in Request, NEW t \in Time
         PROVE ~(RescheduleCheck(p, r, t) \/ ConfirmRead(p, r))
    BY DEF RescheduleCheck, ConfirmRead, Enter, LockingHandlers
  <2> QED BY <1>2, <2>1, <2>2, <2>3, <2>4, <2>5, <2>6, <2>7, <2>8, <2>9, <2>10,
        TimeAssumption DEF ProcStep
<1>3. CASE UNCHANGED vars
  BY <1>3 DEF vars, rows, txs, worker, LockHeld, ValidatedStands, NoLawyerDoubleBooking,
    LawyerConflicts, Active
<1> QED BY <1>2, <1>3 DEF Next

\* Creations, cancellations and deletions never book a lawyer twice.
THEOREM LawyerNeverDoubleBooked ==
    ASSUME Handler \subseteq LockingHandlers
    PROVE  Spec => []NoLawyerDoubleBooking
<1>1. CalendarInv /\ [Next]_vars => CalendarInv'
  BY CalendarInvStep
<1>2. CalendarInv => NoLawyerDoubleBooking
  BY DEF CalendarInv
<1> QED BY <1>1, <1>2, CalendarInvInit, PTL DEF Spec

\* A client's calendar, by the same rule: no two active appointments overlap.
NoClientDoubleBooking ==
    \A r, s \in Request : r # s /\ Active(r) /\ Active(s) /\ ClientOf[r] = ClientOf[s]
        => ~Overlap(start[r], Length[r], start[s], Length[s])

ClientStands ==
    \A p \in Proc : pc[p] = "inserting" => ClientConflicts(req[p], slot[p]) = {}

\* The lawyer's lock covers the client's calendar only if the client books one
\* lawyer.
LEMMA ClientInvStep ==
    ASSUME Handler \subseteq LockingHandlers, CalendarInv, ClientStands,
           NoClientDoubleBooking, [Next]_vars,
           \A r, s \in Request : ClientOf[r] = ClientOf[s] => LawyerOf[r] = LawyerOf[s]
    PROVE  ClientStands' /\ NoClientDoubleBooking'
<1> DEFINE Goal == ClientStands' /\ NoClientDoubleBooking'
<1>1. TypeOK /\ TypeOK' /\ CalendarInv'
  BY TypeOKStep, CalendarInvStep DEF CalendarInv
<1> USE <1>1, RequestAssumption DEF Step, ClientStands, NoClientDoubleBooking, ClientConflicts,
        Active, TypeOK, rows, txs
<1>2. ASSUME NEW p \in Proc, ProcStep(p) PROVE Goal
  <2>1. ASSUME NEW r \in Request, NEW t \in Time, CreateStart(p, r, t) PROVE Goal
    BY <2>1 DEF CreateStart, Enter
  <2>2. ASSUME NEW r \in Request, CancelCheck(p, r) \/ DeleteRead(p, r) PROVE Goal
    BY <2>2 DEF CancelCheck, DeleteRead, Enter
  <2>3. CASE CreateLock(p)
    BY <2>3 DEF CreateLock, Goto
  <2>4. CASE CreateValidate(p)
    BY <2>4 DEF CreateValidate, CanTake, Goto, Leave
  <2>5. CASE CreateFail(p)
    BY <2>5 DEF CreateFail, Leave
  <2>6. CASE CreateCommit(p)
    <3> DEFINE r == req[p]
               t == slot[p]
    <3>1. /\ r \in Request /\ t \in Time /\ pc[p] = "inserting"
          /\ \E s \in {"pending", "confirmed"} : status' = [status EXCEPT ![r] = s]
          /\ start' = [start EXCEPT ![r] = t]
          /\ pc' = [pc EXCEPT ![p] = "idle"]
          /\ req' = [req EXCEPT ![p] = None] /\ slot' = [slot EXCEPT ![p] = 0]
      BY <2>6 DEF CreateCommit, Save, Leave
    <3>2. ASSUME NEW q \in Proc, q # p, pc[q] = "inserting"
          PROVE  req[q] \in Request /\ ClientOf[req[q]] # ClientOf[r]
      BY <3>1, <3>2 DEF CalendarInv, LockHeld
    <3>3. ClientStands'
      BY <3>1, <3>2
    <3>4. \A s \in Request : s # r /\ Active(s) /\ ClientOf[s] = ClientOf[r]
             => ~Overlap(t, Length[r], start[s], Length[s])
      BY <3>1
    <3>5. NoClientDoubleBooking'
      <4> HIDE DEF Active
      <4> SUFFICES ASSUME NEW x \in Request, NEW y \in Request, x # y, Active(x)', Active(y)',
                          ClientOf[x] = ClientOf[y]
                   PROVE  ~Overlap(start'[x], Length[x], start'[y], Length[y])
        BY DEF NoClientDoubleBooking
      <4>1. \A s \in Request : /\ s = r => start'[s] = t
                               /\ s # r => start'[s] = start[s] /\ (Active(s)' => Active(s))
        BY <3>1 DEF Active, TypeOK
      <4>2. CASE x = r
        BY <3>4, <4>1, <4>2
      <4>3. CASE y = r
        <5>1. ~Overlap(t, Length[r], start[x], Length[x])
          BY <3>4, <4>1, <4>3
        <5> QED BY <4>1, <4>3, <5>1 DEF Overlap
      <4>4. CASE x # r /\ y # r
        BY <4>1, <4>4 DEF NoClientDoubleBooking
      <4> QED BY <4>2, <4>3, <4>4
    <3> QED BY <3>3, <3>5
  <2>7. CASE CancelCommit(p)
    BY <2>7 DEF CancelCommit, Save, Leave
  <2>8. CASE DeleteCommit(p)
    BY <2>8 DEF DeleteCommit, Leave
  <2>9. ~(RescheduleCommit(p) \/ ConfirmCommit(p))
    BY DEF RescheduleCommit, ConfirmCommit, CalendarInv
  <2>10. ASSUME NEW r \in Request, NEW t \in Time
         PROVE ~(RescheduleCheck(p, r, t) \/ ConfirmRead(p, r))
    BY DEF RescheduleCheck, ConfirmRead, Enter, LockingHandlers
  <2> HIDE DEF Goal
  <2> QED BY <1>2, <2>1, <2>2, <2>3, <2>4, <2>5, <2>6, <2>7, <2>8, <2>9, <2>10,
        TimeAssumption DEF ProcStep
<1>3. CASE UNCHANGED vars
  BY <1>3 DEF vars, worker
<1> QED BY <1>2, <1>3 DEF Next

\* Nor a client of one lawyer, although creation locks the lawyer's row only.
THEOREM ClientOfOneLawyerNeverDoubleBooked ==
    ASSUME Handler \subseteq LockingHandlers,
           \A r, s \in Request : ClientOf[r] = ClientOf[s] => LawyerOf[r] = LawyerOf[s]
    PROVE  Spec => []NoClientDoubleBooking
<1> DEFINE Inv == CalendarInv /\ ClientStands /\ NoClientDoubleBooking
<1>1. Init => Inv
  BY CalendarInvInit DEF Init, ClientStands, NoClientDoubleBooking, Active
<1>2. Inv /\ [Next]_vars => Inv'
  BY CalendarInvStep, ClientInvStep
<1>3. Inv => NoClientDoubleBooking
  OBVIOUS
<1> QED BY <1>1, <1>2, <1>3, PTL DEF Spec

-----------------------------------------------------------------------------
(* The locks.                                                              *)

\* Whoever holds a lawyer's row has validated or is about to: it waits for no
\* other row, and its next step gives the lock back or leads to one that does.
HolderNeverWaits ==
    \A l \in Lawyer : lawyerLock[l] # Free =>
        /\ pc[lawyerLock[l]] \in {"validating", "inserting"}
        /\ LawyerOf[req[lawyerLock[l]]] = l

\* A lock is taken with the step to "validating", and given back by whatever
\* leaves the handler from there.
LEMMA HolderStep ==
    ASSUME TypeOK, LockHeld, HolderNeverWaits, [Next]_vars
    PROVE  LockHeld' /\ HolderNeverWaits'
<1> DEFINE Goal == LockHeld' /\ HolderNeverWaits'
<1>1. TypeOK'
  BY TypeOKStep
<1> USE <1>1, RequestAssumption, ProcAssumption
    DEF TypeOK, Step, LockHeld, HolderNeverWaits, Free, rows, txs
<1>2. ASSUME NEW p \in Proc, ProcStep(p) PROVE Goal
  <2>1. ASSUME NEW r \in Request, NEW t \in Time,
               CreateStart(p, r, t) \/ RescheduleCheck(p, r, t)
        PROVE Goal
    BY <2>1 DEF CreateStart, RescheduleCheck, Enter
  <2>2. ASSUME NEW r \in Request, CancelCheck(p, r) \/ ConfirmRead(p, r) \/ DeleteRead(p, r)
        PROVE Goal
    BY <2>2 DEF CancelCheck, ConfirmRead, DeleteRead, Enter
  <2>3. CASE CreateLock(p)
    BY <2>3 DEF CreateLock, Goto
  <2>4. CASE CreateValidate(p)
    BY <2>4 DEF CreateValidate, Goto, Leave, Unlock
  <2>5. CASE CreateFail(p) \/ CreateCommit(p)
    <3>1. /\ pc[p] = "inserting" /\ pc' = [pc EXCEPT ![p] = "idle"]
          /\ req' = [req EXCEPT ![p] = None]
          /\ lawyerLock' = [lawyerLock EXCEPT ![LawyerOf[req[p]]] = "free"]
      BY <2>5 DEF CreateFail, CreateCommit, Leave, Unlock
    <3> QED BY <3>1
  <2>6. CASE RescheduleCommit(p) \/ CancelCommit(p) \/ ConfirmCommit(p) \/ DeleteCommit(p)
    <3>1. /\ pc[p] \in {"rescheduling", "cancelling", "confirming", "deleting"}
          /\ pc' = [pc EXCEPT ![p] = "idle"] /\ req' = [req EXCEPT ![p] = None]
          /\ lawyerLock' = lawyerLock
      BY <2>6 DEF RescheduleCommit, CancelCommit, ConfirmCommit, DeleteCommit, Leave
    <3> QED BY <3>1
  <2> HIDE DEF Goal
  <2> QED BY <1>2, <2>1, <2>2, <2>3, <2>4, <2>5, <2>6 DEF ProcStep
<1>3. CASE UNCHANGED vars
  BY <1>3 DEF vars, worker
<1> QED BY <1>2, <1>3 DEF Next

\* No cycle of workers waiting for each other's rows, whichever handlers run:
\* the one that holds a lawyer's row is never among those that wait. This is
\* what RequestsFinish needs besides fairness.
THEOREM NobodyHoldsAndWaits == Spec => []HolderNeverWaits
<1> DEFINE Inv == TypeOK /\ LockHeld /\ HolderNeverWaits
<1>1. Init => Inv
  BY TypeOKInit DEF Init, LockHeld, HolderNeverWaits
<1>2. Inv /\ [Next]_vars => Inv'
  BY TypeOKStep, HolderStep
<1>3. Inv => HolderNeverWaits
  OBVIOUS
<1> QED BY <1>1, <1>2, <1>3, PTL DEF Spec

-----------------------------------------------------------------------------
(* One request at a time.                                                  *)

\* What the only worker has validated is still so when it saves.
SerialCalendar ==
    /\ \A p \in Proc : /\ pc[p] # "confirming"
                       /\ pc[p] \in {"inserting", "rescheduling"} => CanTake(req[p], slot[p])
    /\ NoLawyerDoubleBooking /\ NoClientDoubleBooking

\* A slot that is free of conflicts can be taken.
LEMMA TakingKeepsCalendars ==
    ASSUME TypeOK, NoLawyerDoubleBooking, NoClientDoubleBooking,
           NEW r \in Request, NEW t \in Time, NEW s \in {"pending", "confirmed"},
           CanTake(r, t), Save(r, s, t)
    PROVE  NoLawyerDoubleBooking' /\ NoClientDoubleBooking'
<1>1. \A x \in Request : x # r /\ Active(x)
         /\ (LawyerOf[x] = LawyerOf[r] \/ ClientOf[x] = ClientOf[r])
         => ~Overlap(t, Length[r], start[x], Length[x])
  BY DEF CanTake, LawyerConflicts, ClientConflicts
<1>2. /\ status' = [status EXCEPT ![r] = s] /\ start' = [start EXCEPT ![r] = t]
      /\ \A x \in Request : start[x] \in Time /\ Length[x] \in {1, 2}
  BY RequestAssumption DEF Save, TypeOK
<1>3. NoLawyerDoubleBooking'
  BY <1>1, <1>2, TimeAssumption DEF NoLawyerDoubleBooking, Active, Overlap, TypeOK
<1>4. NoClientDoubleBooking'
  BY <1>1, <1>2, TimeAssumption DEF NoClientDoubleBooking, Active, Overlap, TypeOK
<1> QED BY <1>3, <1>4

\* Giving a slot up takes none.
LEMMA GivingUpKeepsCalendars ==
    ASSUME TypeOK, NoLawyerDoubleBooking, NoClientDoubleBooking,
           \A x \in Request : Active(x)' => Active(x) /\ start'[x] = start[x]
    PROVE  NoLawyerDoubleBooking' /\ NoClientDoubleBooking'
BY DEF NoLawyerDoubleBooking, NoClientDoubleBooking

\* A step of the only worker, which no late payment confirms anything for.
LEMMA SerialCalendarStep ==
    ASSUME \A p, q \in Proc : p = q, "confirm" \notin Handler,
           TypeOK, SerialCalendar, [Next]_vars
    PROVE  SerialCalendar'
<1> DEFINE Calendars == NoLawyerDoubleBooking' /\ NoClientDoubleBooking'
<1>1. TypeOK' /\ NoLawyerDoubleBooking /\ NoClientDoubleBooking
  BY TypeOKStep DEF SerialCalendar
<1>2. ASSUME UNCHANGED rows PROVE Calendars
  BY <1>1, <1>2, GivingUpKeepsCalendars DEF rows, Active
<1>3. ASSUME NEW p \in Proc, ProcStep(p) PROVE SerialCalendar'
  <2>1. Proc = {p} /\ \A r \in Request : ~ConfirmRead(p, r)
    BY DEF ConfirmRead, Enter
  <2> USE <1>1, <2>1 DEF SerialCalendar, TypeOK, Step
  <2> HIDE DEF Calendars
  <2>2. ASSUME UNCHANGED rows, pc'[p] \in {"idle", "locking", "validating", "cancelling", "deleting"}
        PROVE  SerialCalendar'
    BY <1>2, <2>2 DEF Calendars
  <2>3. ASSUME UNCHANGED rows, CanTake(req'[p], slot'[p]), pc'[p] # "confirming"
        PROVE  SerialCalendar'
    BY <1>2, <2>3 DEF Calendars, rows, CanTake, LawyerConflicts, ClientConflicts, Active
  <2>4. ASSUME NEW r \in Request, NEW t \in Time, CreateStart(p, r, t) PROVE SerialCalendar'
    BY <2>2, <2>4 DEF CreateStart, Enter
  <2>5. ASSUME NEW r \in Request, NEW t \in Time, RescheduleCheck(p, r, t)
        PROVE  SerialCalendar'
    BY <2>3, <2>5 DEF RescheduleCheck, Enter
  <2>6. ASSUME NEW r \in Request, CancelCheck(p, r) \/ DeleteRead(p, r) PROVE SerialCalendar'
    BY <2>2, <2>6 DEF CancelCheck, DeleteRead, Enter
  <2>7. CASE CreateLock(p) \/ CreateFail(p)
    BY <2>2, <2>7 DEF CreateLock, CreateFail, Goto, Leave
  <2>8. CASE CreateValidate(p)
    <3>1. CASE CanTake(req[p], slot[p]) /\ Goto(p, "inserting")
      BY <2>3, <2>8, <3>1 DEF CreateValidate, Goto
    <3>2. CASE Leave(p)
      BY <2>2, <2>8, <3>2 DEF CreateValidate, Leave
    <3> QED BY <2>8, <3>1, <3>2 DEF CreateValidate
  <2>9. CASE CreateCommit(p) \/ RescheduleCommit(p)
    <3>1. /\ req[p] \in Request /\ slot[p] \in Time /\ CanTake(req[p], slot[p])
          /\ \E s \in {"pending", "confirmed"} : Save(req[p], s, slot[p])
          /\ Leave(p)
      BY <2>9 DEF CreateCommit, RescheduleCommit
    <3>2. Calendars
      BY <3>1, TakingKeepsCalendars DEF Calendars
    <3> QED BY <3>1, <3>2 DEF Calendars, Leave
  <2>10. CASE CancelCommit(p) \/ DeleteCommit(p)
    <3>1. /\ \A x \in Request : Active(x)' => Active(x) /\ start'[x] = start[x]
          /\ Leave(p)
      BY <2>10 DEF CancelCommit, DeleteCommit, Save, Active
    <3>2. Calendars
      BY <3>1, GivingUpKeepsCalendars DEF Calendars
    <3> QED BY <3>1, <3>2 DEF Calendars, Leave
  <2>11. ~ConfirmCommit(p)
    BY DEF ConfirmCommit
  <2> HIDE DEF SerialCalendar, TypeOK
  <2> QED BY <1>3, <2>1, <2>4, <2>5, <2>6, <2>7, <2>8, <2>9, <2>10, <2>11 DEF ProcStep
<1>4. CASE UNCHANGED vars
  BY <1>2, <1>4 DEF vars, worker, rows, SerialCalendar, CanTake, LawyerConflicts,
     ClientConflicts, Active
<1> QED BY <1>3, <1>4 DEF Next

\* Requests that run one at a time never double book anybody, reschedules
\* included: it is their overlap, and the late payments that confirm an
\* appointment whatever its status, that do.
THEOREM SerialNeverDoubleBooks ==
    ASSUME \A p, q \in Proc : p = q, "confirm" \notin Handler
    PROVE  Spec => []NoLawyerDoubleBooking /\ []NoClientDoubleBooking
<1>1. Init => TypeOK /\ SerialCalendar
  BY TypeOKInit DEF Init, SerialCalendar, NoLawyerDoubleBooking, NoClientDoubleBooking, Active
<1>2. TypeOK /\ SerialCalendar /\ [Next]_vars => TypeOK' /\ SerialCalendar'
  BY TypeOKStep, SerialCalendarStep
<1>3. SerialCalendar => NoLawyerDoubleBooking /\ NoClientDoubleBooking
  BY DEF SerialCalendar
<1> QED BY <1>1, <1>2, <1>3, PTL DEF Spec
=============================================================================
