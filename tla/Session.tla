------------------------------ MODULE Session -------------------------------
(***************************************************************************)
(* The video session of one confirmed appointment: its row, the rows of    *)
(* its participants, and the requests to look at it, join, leave and end   *)
(* it.                                                                     *)
(*                                                                         *)
(* Joining and leaving are not transactions. Each reads the session and    *)
(* saves a participant and the session one after the other, with the       *)
(* session as first read, so a handler is one step for each row it saves   *)
(* and requests of both participants (or repeated ones of either) come in  *)
(* between. Ending is a transaction, but whether there is a session to end *)
(* was read before it.                                                     *)
(***************************************************************************)
EXTENDS Integers

CONSTANTS
    User,      \* the client and the lawyer
    Proc,      \* web workers
    EndTime,   \* end_datetime of the appointment
    LastTime   \* bound on the clock

ASSUME SessionTimeAssumption == EndTime \in Nat /\ LastTime \in Nat \ {0}

VARIABLES
    session,      \* the row of AppointmentSession
    participant,  \* the rows of AppointmentParticipant, of those who have one
    appointment,  \* "confirmed" or "completed"
    now,
    pc,           \* the step each worker is at,
    user,         \* for whom,
    seen,         \* and the session as read by a request to leave or end
    raced         \* whether two requests were ever served at once

vars == <<session, participant, appointment, now, pc, user, seen, raced>>

\* Times start at 1; a column that is NULL is 0.
Null  == 0
Clock == 1 .. LastTime

NoSession == [status |-> "absent", started |-> Null, ended |-> Null, duration |-> -1]

NewSession == [NoSession EXCEPT !.status = "not_started"]

NotJoined == [exists |-> FALSE, joined |-> Null, left |-> Null]

SessionRow == [status : {"absent", "not_started", "active", "ended"},
               started : Clock \cup {Null}, ended : Clock \cup {Null},
               duration : (0 .. LastTime) \cup {-1}]

ParticipantRow == [exists : BOOLEAN, joined : Clock \cup {Null}, left : Clock \cup {Null}]

TypeOK ==
    /\ session \in SessionRow
    /\ participant \in [User -> ParticipantRow]
    /\ appointment \in {"confirmed", "completed"}
    /\ now \in Clock
    /\ pc \in [Proc -> {"idle", "start", "enter", "leave", "check", "close", "end"}]
    /\ user \in [Proc -> User]
    /\ seen \in [Proc -> SessionRow]
    /\ raced \in BOOLEAN

Init ==
    /\ session = NoSession
    /\ participant = [u \in User |-> NotJoined]
    /\ appointment = "confirmed"
    /\ now = 1
    /\ pc = [p \in Proc |-> "idle"]
    /\ user \in {[p \in Proc |-> u] : u \in User}
    /\ seen = [p \in Proc |-> NoSession]
    /\ raced = FALSE

-----------------------------------------------------------------------------

Row(u) == participant[u]
IsOnline(u) == Row(u).joined # Null /\ Row(u).left = Null
SomebodyOnline == \E u \in User : IsOnline(u)

\* What session_status answers: the running time, then the duration saved.
ReportedDuration ==
    CASE session.status = "active" /\ session.started # Null -> now - session.started
      [] session.status = "ended" -> session.duration
      [] OTHER -> -1

\* calculate_actual_duration() of a copy s of the row that ends now.
Duration(s) == IF s.started # Null THEN now - s.started ELSE s.duration

Ended(s) == [session EXCEPT !.status = "ended", !.ended = now, !.duration = Duration(s)]

Begin(p, u, step) ==
    /\ pc[p] = "idle"
    /\ pc' = [pc EXCEPT ![p] = step]
    /\ user' = [user EXCEPT ![p] = u]
    /\ raced' = (raced \/ \E q \in Proc \ {p} : pc[q] # "idle")

Goto(p, step) ==
    /\ pc' = [pc EXCEPT ![p] = step]
    /\ UNCHANGED <<user, seen, raced>>

Finish(p) ==
    /\ pc' = [pc EXCEPT ![p] = "idle"]
    /\ seen' = [seen EXCEPT ![p] = NoSession]
    /\ UNCHANGED <<user, raced>>

-----------------------------------------------------------------------------

\* GET: creates what is missing of the session and of both participants.
GetSessionDetails ==
    /\ appointment = "confirmed"
    /\ session' = IF session.status = "absent" THEN NewSession ELSE session
    /\ participant' = IF \E u \in User : Row(u).exists THEN participant
                      ELSE [u \in User |-> [NotJoined EXCEPT !.exists = TRUE]]
    /\ UNCHANGED <<appointment, now, pc, user, seen, raced>>

\* Fault: any session is started (again) by a join.
JoinSession_Restarts(p, u) ==
    /\ appointment = "confirmed"
    /\ session' = IF session.status = "absent" THEN NewSession ELSE session
    /\ participant' = [participant EXCEPT ![u].exists = TRUE]
    /\ Begin(p, u, "start")
    /\ UNCHANGED <<appointment, now, seen>>

\* POST join: the reads, and the creation of rows that do not exist.
JoinSession(p, u) ==
    /\ appointment = "confirmed"
    /\ session' = IF session.status = "absent" THEN NewSession ELSE session
    /\ participant' = [participant EXCEPT ![u].exists = TRUE]
    /\ Begin(p, u, IF session'.status = "not_started" THEN "start" ELSE "enter")
    /\ UNCHANGED <<appointment, now, seen>>

\* The session was read as not started: save it as active.
StartSession(p) ==
    /\ pc[p] = "start"
    /\ session' = [session EXCEPT !.status = "active", !.started = now]
    /\ Goto(p, "enter")
    /\ UNCHANGED <<participant, appointment, now>>

\* The participant is online; the token that follows is not stored, and when
\* it cannot be built the answer is an error and the participant stays online.
EnterSession(p) ==
    /\ pc[p] = "enter"
    /\ participant' = [participant EXCEPT ![user[p]].joined = now, ![user[p]].left = Null]
    /\ Finish(p)
    /\ UNCHANGED <<session, appointment, now>>

\* POST leave, whatever the status of appointment and session.
LeaveSession(p, u) ==
    /\ session.status # "absent" /\ Row(u).exists
    /\ seen' = [seen EXCEPT ![p] = session]
    /\ Begin(p, u, "leave")
    /\ UNCHANGED <<session, participant, appointment, now>>

SaveLeft(p) ==
    /\ pc[p] = "leave"
    /\ participant' = [participant EXCEPT ![user[p]].left = now]
    /\ Goto(p, "check")
    /\ UNCHANGED <<session, appointment, now>>

\* Fault: who never joined counts as online.
CheckOthers_Absent(p) ==
    /\ pc[p] = "check"
    /\ IF \E u \in User : Row(u).exists /\ Row(u).left = Null
       THEN Finish(p) ELSE Goto(p, "close")
    /\ UNCHANGED <<session, participant, appointment, now>>

CheckOthers(p) ==
    /\ pc[p] = "check"
    /\ IF SomebodyOnline THEN Finish(p) ELSE Goto(p, "close")
    /\ UNCHANGED <<session, participant, appointment, now>>

\* Fault: the end is saved without the duration.
CloseSession_NoDuration(p) ==
    /\ pc[p] = "close"
    /\ session' = [session EXCEPT !.status = "ended", !.ended = now]
    /\ Finish(p)
    /\ UNCHANGED <<participant, appointment, now>>

\* The last one left: also ends a session that never started, and moves the
\* end of one that has ended. Duration and end are saved one after the other,
\* the second time both.
CloseSession(p) ==
    /\ pc[p] = "close"
    /\ session' = Ended(seen[p])
    /\ Finish(p)
    /\ UNCHANGED <<participant, appointment, now>>

\* POST end: reads the session, which must not have ended.
EndSession(p, u) ==
    /\ session.status \in {"not_started", "active"}
    /\ seen' = [seen EXCEPT ![p] = session]
    /\ Begin(p, u, "end")
    /\ UNCHANGED <<session, participant, appointment, now>>

\* Its transaction. The completion is mark_as_completed of the module Escrow.
EndTransaction(p) ==
    /\ pc[p] = "end"
    /\ session' = Ended(seen[p])
    /\ participant' = [u \in User |->
                          IF Row(u).exists /\ Row(u).left = Null
                          THEN [Row(u) EXCEPT !.left = now] ELSE Row(u)]
    /\ appointment' = IF EndTime <= now THEN "completed" ELSE appointment
    /\ Finish(p)
    /\ UNCHANGED now

Tick ==
    /\ now < LastTime
    /\ now' = now + 1
    /\ UNCHANGED <<session, participant, appointment, pc, user, seen, raced>>

Request(p, u) == JoinSession(p, u) \/ LeaveSession(p, u) \/ EndSession(p, u)

Continue(p) ==
    \/ StartSession(p)
    \/ EnterSession(p)
    \/ SaveLeft(p)
    \/ CheckOthers(p)
    \/ CloseSession(p)
    \/ EndTransaction(p)

Next ==
    \/ GetSessionDetails
    \/ \E p \in Proc, u \in User : Request(p, u)
    \/ \E p \in Proc : Continue(p)
    \/ Tick

Spec == Init /\ [][Next]_vars

-----------------------------------------------------------------------------
(* Properties.                                                             *)

\* An active session in which nobody is online is about to end or to be
\* entered: a request that will do so is being served. Two participants who
\* leave at once, or one who leaves while the other joins, do not leave an
\* active session behind (leave_session saves before it looks at the others).
ActiveHasSomeone ==
    session.status = "active" /\ ~SomebodyOnline =>
        \E p \in Proc : pc[p] \in {"enter", "check", "close"}

\* Requests that never overlapped leave an ended session with the time between
\* its start and its end as its duration, and none if it never started.
DurationIsMeasured ==
    ~raced /\ session.status = "ended" =>
        session.duration = IF session.started = Null THEN -1
                           ELSE session.ended - session.started

\* Nor is such a session ever active again, whoever joins or leaves; and the
\* duration that session_status reports never goes back, not when the session
\* ends nor when somebody comes back after it and leaves again.
EndedStaysEnded ==
    [][~raced' => /\ session.status = "ended" => session'.status = "ended"
                  /\ ReportedDuration' >= ReportedDuration]_vars
=============================================================================
