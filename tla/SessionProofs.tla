--------------------------- MODULE SessionProofs ----------------------------
(***************************************************************************)
(* Session, for any participants, any number of workers and any clock.     *)
(***************************************************************************)
EXTENDS Session, TLAPS

\* No start lies in the future, in the row or in a copy of it.
StartsArePast ==
    /\ session.started <= now
    /\ \A p \in Proc : seen[p].started <= now

TypeInv == TypeOK /\ StartsArePast

LEMMA InitTypeInv == Init => TypeInv
  <1>. SUFFICES ASSUME Init
                PROVE  TypeInv
    OBVIOUS
  <1>1. NoSession \in SessionRow /\ NoSession.started = 0
    BY SessionTimeAssumption DEF NoSession, SessionRow, Null
  <1>2. 1 \in Clock
    BY SessionTimeAssumption DEF Clock
  <1>3. user \in [Proc -> User]
    BY DEF Init
  <1>4. NotJoined \in ParticipantRow
    BY DEF NotJoined, ParticipantRow
  <1>5. /\ session = NoSession /\ participant = [u \in User |-> NotJoined]
        /\ appointment = "confirmed" /\ now = 1 /\ pc = [p \in Proc |-> "idle"]
        /\ seen = [p \in Proc |-> NoSession] /\ raced = FALSE
    BY DEF Init
  <1>6. raced \in BOOLEAN
    BY <1>5
  <1>7. session \in SessionRow /\ seen \in [Proc -> SessionRow]
    BY <1>1, <1>5
  <1>8. /\ participant \in [User -> ParticipantRow]
        /\ pc \in [Proc -> {"idle", "start", "enter", "leave", "check", "close", "end"}]
        /\ appointment \in {"confirmed", "completed"} /\ now \in Clock
    BY <1>2, <1>4, <1>5
  <1>9. session.started <= now /\ \A p \in Proc : seen[p].started <= now
    BY <1>1, <1>5
  <1>. QED
    BY <1>3, <1>6, <1>7, <1>8, <1>9 DEF TypeInv, TypeOK, StartsArePast

\* The row that an end saves is a row, and its start is that of the table.
LEMMA EndedIsRow ==
  ASSUME TypeInv, NEW p \in Proc
  PROVE  Ended(seen[p]) \in SessionRow /\ Ended(seen[p]).started = session.started
  <1>1. now \in Clock /\ seen[p] \in SessionRow /\ session \in SessionRow
        /\ seen[p].started <= now
    BY DEF TypeInv, TypeOK, StartsArePast
  <1>2. Duration(seen[p]) \in (0 .. LastTime) \cup {-1}
    BY <1>1, SessionTimeAssumption DEF Duration, SessionRow, Clock, Null
  <1>. QED
    BY <1>1, <1>2 DEF Ended, SessionRow

LEMMA NewSessionIsRow ==
  NewSession \in SessionRow /\ NewSession.started = Null /\ NewSession.status = "not_started"
  BY DEF NewSession, NoSession, SessionRow, Null

LEMMA StepTypeInv == TypeInv /\ [Next]_vars => TypeInv'
  <1>. SUFFICES ASSUME TypeInv, [Next]_vars
                PROVE  TypeInv'
    OBVIOUS
  <1>. USE SessionTimeAssumption DEF TypeInv, TypeOK, StartsArePast
  <1>0. /\ NoSession \in SessionRow
        /\ NoSession.started <= now
        /\ NewSession.started <= now
    BY NewSessionIsRow DEF NoSession, SessionRow, Null, Clock
  <1>r. \A u \in User : /\ [Row(u) EXCEPT !.exists = TRUE] \in ParticipantRow
                        /\ [Row(u) EXCEPT !.left = now] \in ParticipantRow
                        /\ [Row(u) EXCEPT !.joined = now, !.left = Null] \in ParticipantRow
    BY DEF Row, ParticipantRow
  <1>1. CASE GetSessionDetails
    <2>1. [NotJoined EXCEPT !.exists = TRUE] \in ParticipantRow
      BY DEF NotJoined, ParticipantRow
    <2>. QED
      BY <1>0, <1>1, <2>1, NewSessionIsRow DEF GetSessionDetails
  <1>2. ASSUME NEW p \in Proc, NEW u \in User, JoinSession(p, u)
        PROVE  TypeInv'
    <2>1. session' \in SessionRow /\ session'.started <= now
      BY <1>0, <1>2, NewSessionIsRow DEF JoinSession
    <2>2. participant' \in [User -> ParticipantRow]
      BY <1>2, <1>r DEF JoinSession, Row
    <2>3. pc' \in [Proc -> {"idle", "start", "enter", "leave", "check", "close", "end"}]
      BY <1>2 DEF JoinSession, Begin
    <2>4. user' \in [Proc -> User] /\ raced' \in BOOLEAN
      BY <1>2 DEF JoinSession, Begin
    <2>. QED
      BY <1>2, <2>1, <2>2, <2>3, <2>4 DEF JoinSession
  <1>3. ASSUME NEW p \in Proc, NEW u \in User, LeaveSession(p, u) \/ EndSession(p, u)
        PROVE  TypeInv'
    <2>1. /\ UNCHANGED <<session, participant, appointment, now>>
          /\ seen' = [seen EXCEPT ![p] = session]
      BY <1>3 DEF LeaveSession, EndSession
    <2>2. PICK step \in {"leave", "end"} : Begin(p, u, step)
      BY <1>3 DEF LeaveSession, EndSession
    <2>3. /\ pc' \in [Proc -> {"idle", "start", "enter", "leave", "check", "close", "end"}]
          /\ user' \in [Proc -> User]
      BY <2>2 DEF Begin
    <2>4. raced' \in BOOLEAN
      BY <2>2 DEF Begin
    <2>5. (session \in SessionRow /\ session.started <= now)
          /\ seen' \in [Proc -> SessionRow] /\ \A q \in Proc : seen'[q].started <= now
      BY <2>1
    <2>. QED
      BY <2>1, <2>3, <2>4, <2>5
  <1>5. ASSUME NEW p \in Proc, StartSession(p)
        PROVE  TypeInv'
    <2>1. session' \in SessionRow
      BY <1>5 DEF StartSession, SessionRow
    <2>2. session'.started <= now
      BY <1>5 DEF StartSession, SessionRow, Clock
    <2>. QED
      BY <1>5, <2>1, <2>2 DEF StartSession, Goto
  <1>6. ASSUME NEW p \in Proc, EnterSession(p)
        PROVE  TypeInv'
    BY <1>0, <1>6, <1>r DEF EnterSession, Finish, Row
  <1>7. ASSUME NEW p \in Proc, SaveLeft(p)
        PROVE  TypeInv'
    BY <1>7, <1>r DEF SaveLeft, Goto, Row
  <1>8. ASSUME NEW p \in Proc, CheckOthers(p)
        PROVE  TypeInv'
    BY <1>0, <1>8 DEF CheckOthers, Goto, Finish
  <1>9. ASSUME NEW p \in Proc, CloseSession(p)
        PROVE  TypeInv'
    BY <1>0, <1>9, EndedIsRow DEF CloseSession, Finish
  <1>10. ASSUME NEW p \in Proc, EndTransaction(p)
         PROVE  TypeInv'
    <2>1. participant' \in [User -> ParticipantRow]
      BY <1>10, <1>r DEF EndTransaction, Row
    <2>. QED
      BY <1>0, <1>10, <2>1, EndedIsRow DEF EndTransaction, Finish
  <1>11. CASE Tick
    BY <1>11 DEF Tick, SessionRow, Clock, Null
  <1>12. CASE UNCHANGED vars
    BY <1>12 DEF vars
  <1>. QED
    BY <1>1, <1>2, <1>3, <1>5, <1>6, <1>7, <1>8, <1>9, <1>10, <1>11, <1>12
       DEF Next, Request, Continue

\* Every variable keeps its type; in particular a duration is never negative,
\* although it is computed from a copy of the row that may be old.
THEOREM SessionTypeCorrect == Spec => []TypeOK
  <1>1. TypeInv => TypeOK
    BY DEF TypeInv
  <1>. QED
    BY <1>1, InitTypeInv, StepTypeInv, PTL DEF Spec

-----------------------------------------------------------------------------

\* Who is inside join_session has a row, and only who has a row has joined.
JoinersHaveRows ==
    /\ \A u \in User : Row(u).joined # Null => Row(u).exists
    /\ \A p \in Proc : pc[p] \in {"start", "enter"} => Row(user[p]).exists

LEMMA InitJoinersHaveRows == Init => JoinersHaveRows
  BY DEF Init, JoinersHaveRows, Row, NotJoined

LEMMA StepJoinersHaveRows == TypeInv /\ JoinersHaveRows /\ [Next]_vars => JoinersHaveRows'
  <1>. SUFFICES ASSUME TypeInv, JoinersHaveRows, [Next]_vars
                PROVE  JoinersHaveRows'
    OBVIOUS
  <1>. USE DEF TypeInv, TypeOK, JoinersHaveRows, Row, ParticipantRow
  <1>1. CASE GetSessionDetails
    BY <1>1 DEF GetSessionDetails, NotJoined
  <1>2. ASSUME NEW p \in Proc, NEW u \in User, JoinSession(p, u)
        PROVE  JoinersHaveRows'
    BY <1>2 DEF JoinSession, Begin
  <1>3. ASSUME NEW p \in Proc, NEW u \in User, LeaveSession(p, u) \/ EndSession(p, u)
        PROVE  JoinersHaveRows'
    BY <1>3 DEF LeaveSession, EndSession, Begin
  <1>4. ASSUME NEW p \in Proc, StartSession(p)
        PROVE  JoinersHaveRows'
    BY <1>4 DEF StartSession, Goto
  <1>e. ASSUME NEW p \in Proc, EnterSession(p)
        PROVE  JoinersHaveRows'
    BY <1>e DEF EnterSession, Finish
  <1>5. ASSUME NEW p \in Proc, SaveLeft(p) \/ EndTransaction(p)
        PROVE  JoinersHaveRows'
    <2>1. \A q \in Proc : pc'[q] \in {"start", "enter"} => pc[q] = pc'[q]
      BY <1>5 DEF SaveLeft, EndTransaction, Goto, Finish
    <2>2. ASSUME NEW u \in User
          PROVE  participant'[u].exists = participant[u].exists
                 /\ participant'[u].joined = participant[u].joined
      <3>1. CASE SaveLeft(p)
        BY <3>1 DEF SaveLeft
      <3>2. CASE EndTransaction(p)
        <4>1. participant'[u] \in {participant[u], [participant[u] EXCEPT !.left = now]}
          BY <3>2 DEF EndTransaction
        <4>. QED
          BY <4>1
      <3>. QED
        BY <1>5, <3>1, <3>2
    <2>3. user' = user
      BY <1>5 DEF SaveLeft, EndTransaction, Goto, Finish
    <2>. QED
      BY <2>1, <2>2, <2>3
  <1>c. ASSUME NEW p \in Proc, CheckOthers(p) \/ CloseSession(p)
        PROVE  JoinersHaveRows'
    BY <1>c DEF CheckOthers, CloseSession, Goto, Finish
  <1>6. CASE Tick \/ UNCHANGED vars
    BY <1>6 DEF Tick, vars
  <1>. QED
    BY <1>1, <1>2, <1>3, <1>4, <1>e, <1>5, <1>c, <1>6 DEF Next, Request, Continue

\* An active session with nobody online is being entered or ended: whatever
\* requests the participants make at once, none leaves it active and empty.
THEOREM ActiveSessionHasSomeone == Spec => []ActiveHasSomeone
  <1>1. Init => ActiveHasSomeone
    BY DEF Init, ActiveHasSomeone, NoSession
  <1>2. TypeInv /\ JoinersHaveRows /\ ActiveHasSomeone /\ [Next]_vars => ActiveHasSomeone'
    <2>. SUFFICES ASSUME TypeInv, JoinersHaveRows, ActiveHasSomeone, [Next]_vars,
                         session'.status = "active", ~SomebodyOnline'
                  PROVE  \E p \in Proc : pc'[p] \in {"enter", "check", "close"}
      BY DEF ActiveHasSomeone
    <2>. USE DEF TypeInv, TypeOK
    <2>1. CASE GetSessionDetails
      <3>1. session.status = "active" /\ pc' = pc
        BY <2>1, NewSessionIsRow DEF GetSessionDetails
      <3>2. ~SomebodyOnline
        BY <2>1 DEF GetSessionDetails, JoinersHaveRows, SomebodyOnline, IsOnline, Row
      <3>. QED
        BY <3>1, <3>2 DEF ActiveHasSomeone
    <2>2. ASSUME NEW p \in Proc, NEW u \in User, JoinSession(p, u)
          PROVE  \E q \in Proc : pc'[q] \in {"enter", "check", "close"}
      BY <2>2, NewSessionIsRow DEF JoinSession, Begin
    <2>3. ASSUME NEW p \in Proc, NEW u \in User, LeaveSession(p, u) \/ EndSession(p, u)
          PROVE  \E q \in Proc : pc'[q] \in {"enter", "check", "close"}
      <3>1. session' = session /\ participant' = participant /\ pc[p] = "idle"
            /\ \A q \in Proc \ {p} : pc'[q] = pc[q]
        BY <2>3 DEF LeaveSession, EndSession, Begin
      <3>2. ~SomebodyOnline
        BY <3>1 DEF SomebodyOnline, IsOnline, Row
      <3>. QED
        BY <3>1, <3>2 DEF ActiveHasSomeone
    <2>4. ASSUME NEW p \in Proc, StartSession(p)
          PROVE  pc'[p] = "enter"
      BY <2>4 DEF StartSession, Goto
    <2>5. ASSUME NEW p \in Proc, EnterSession(p)
          PROVE  FALSE
      <3>1. user[p] \in User /\ participant'[user[p]].joined = now
            /\ participant'[user[p]].left = Null /\ now # Null
        BY <2>5 DEF EnterSession, Clock, Null
      <3>. QED
        BY <3>1 DEF SomebodyOnline, IsOnline, Row
    <2>6. ASSUME NEW p \in Proc, SaveLeft(p)
          PROVE  pc'[p] = "check"
      BY <2>6 DEF SaveLeft, Goto
    <2>7. ASSUME NEW p \in Proc, CheckOthers(p)
          PROVE  pc'[p] = "close"
      BY <2>7 DEF CheckOthers, Goto, SomebodyOnline, IsOnline, Row
    <2>8. ASSUME NEW p \in Proc, CloseSession(p) \/ EndTransaction(p)
          PROVE  FALSE
      BY <2>8 DEF CloseSession, EndTransaction, Ended, SessionRow
    <2>9. CASE Tick \/ UNCHANGED vars
      BY <2>9 DEF Tick, vars, ActiveHasSomeone, SomebodyOnline, IsOnline, Row
    <2>. QED
      BY <2>1, <2>2, <2>3, <2>4, <2>5, <2>6, <2>7, <2>8, <2>9 DEF Next, Request, Continue
  <1>. QED
    BY <1>1, <1>2, InitTypeInv, StepTypeInv, InitJoinersHaveRows, StepJoinersHaveRows, PTL
       DEF Spec

-----------------------------------------------------------------------------

\* Without overlapping requests, at most one is being served and what it read
\* still stands; and the row is that of one call.
OneAtATime ==
    /\ \A p, q \in Proc : pc[p] # "idle" /\ pc[q] # "idle" => p = q
    /\ \A p \in Proc : pc[p] = "start" => session.status = "not_started"
    /\ \A p \in Proc : pc[p] \in {"leave", "check", "close", "end"} =>
                           seen[p] = session /\ session.status # "absent"

RowIsOfOneCall ==
    /\ session.status \in {"absent", "not_started"} =>
           session.started = Null /\ session.duration = -1
    /\ session.status = "active" => session.started # Null /\ session.duration = -1
    /\ session.status = "ended" =>
           session.duration = IF session.started = Null THEN -1
                              ELSE session.ended - session.started

SerialInv == ~raced => OneAtATime /\ RowIsOfOneCall

LEMMA InitSerialInv == Init => SerialInv
  BY DEF Init, SerialInv, OneAtATime, RowIsOfOneCall, NoSession, Null

\* A request that begins alone finds every other worker idle.
LEMMA BeginsAlone ==
  ASSUME TypeInv, SerialInv, NEW p \in Proc, NEW u \in User, NEW step,
         Begin(p, u, step), ~raced'
  PROVE  /\ OneAtATime /\ RowIsOfOneCall
         /\ \A q \in Proc : pc[q] = "idle"
         /\ \A q \in Proc : pc'[q] = IF q = p THEN step ELSE "idle"
  BY DEF TypeInv, TypeOK, SerialInv, Begin

LEMMA StepSerialInv == TypeInv /\ SerialInv /\ [Next]_vars => SerialInv'
  <1>. SUFFICES ASSUME TypeInv, SerialInv, [Next]_vars, ~raced'
                PROVE  (OneAtATime /\ RowIsOfOneCall)'
    BY DEF SerialInv
  <1>1. CASE GetSessionDetails
    <2>0. ~raced
      BY <1>1 DEF GetSessionDetails
    <2>1. OneAtATime /\ RowIsOfOneCall /\ pc' = pc /\ seen' = seen
          /\ (session' = session \/ (session.status = "absent" /\ session' = NewSession))
      BY <1>1, <2>0 DEF GetSessionDetails, SerialInv
    <2>2. CASE session' = session
      BY <2>1, <2>2 DEF OneAtATime, RowIsOfOneCall
    <2>3. CASE session.status = "absent" /\ session' = NewSession
      BY <2>1, <2>3 DEF OneAtATime, RowIsOfOneCall, NewSession, NoSession, Null
    <2>. QED
      BY <2>1, <2>2, <2>3
  <1>2. ASSUME NEW p \in Proc, NEW u \in User, JoinSession(p, u)
        PROVE  (OneAtATime /\ RowIsOfOneCall)'
    <2>1. (session' = session \/ (session.status = "absent" /\ session' = NewSession))
      BY <1>2 DEF JoinSession
    <2>b. Begin(p, u, IF session'.status = "not_started" THEN "start" ELSE "enter")
      BY <1>2 DEF JoinSession
    <2>2. /\ RowIsOfOneCall
          /\ \A q \in Proc : pc'[q] =
                 IF q = p THEN IF session'.status = "not_started" THEN "start" ELSE "enter"
                 ELSE "idle"
      BY <2>b, BeginsAlone
    <2>3. OneAtATime'
      BY <2>2 DEF OneAtATime
    <2>4. RowIsOfOneCall'
      BY <2>1, <2>2 DEF RowIsOfOneCall, NewSession, NoSession, Null
    <2>. QED
      BY <2>3, <2>4
  <1>3. ASSUME NEW p \in Proc, NEW u \in User, LeaveSession(p, u) \/ EndSession(p, u)
        PROVE  (OneAtATime /\ RowIsOfOneCall)'
    <2>1. PICK step \in {"leave", "end"} : Begin(p, u, step)
      BY <1>3 DEF LeaveSession, EndSession
    <2>2. session' = session /\ seen'[p] = session /\ session.status # "absent"
      BY <1>3 DEF LeaveSession, EndSession, TypeInv, TypeOK
    <2>3. RowIsOfOneCall /\ \A q \in Proc : pc'[q] = IF q = p THEN step ELSE "idle"
      BY <2>1, BeginsAlone
    <2>. QED
      BY <2>2, <2>3 DEF OneAtATime, RowIsOfOneCall
  <1>4. ASSUME NEW p \in Proc, Continue(p)
        PROVE  (OneAtATime /\ RowIsOfOneCall)'
    <2>1. raced' = raced
      BY <1>4 DEF Continue, StartSession, EnterSession, SaveLeft, CheckOthers, CloseSession,
                  EndTransaction, Goto, Finish
    <2>2. OneAtATime /\ RowIsOfOneCall
      BY <2>1 DEF SerialInv
    <2>3. pc[p] # "idle" /\ \A q \in Proc \ {p} : pc[q] = "idle"
      BY <1>4, <2>2 DEF OneAtATime, Continue, StartSession, EnterSession, SaveLeft,
                        CheckOthers, CloseSession, EndTransaction
    <2>4. session \in SessionRow /\ now \in Clock /\ session.started <= now
      BY DEF TypeInv, TypeOK, StartsArePast
    <2>5. CASE StartSession(p)
      <3>1. /\ session.status = "not_started" /\ pc[p] = "start"
            /\ session'.status = "active" /\ session'.started = now
            /\ session'.duration = session.duration
        BY <2>2, <2>4, <2>5 DEF StartSession, OneAtATime, SessionRow
      <3>2. \A q \in Proc : pc'[q] = IF q = p THEN "enter" ELSE "idle"
        BY <2>3, <2>5 DEF StartSession, Goto, TypeInv, TypeOK
      <3>. QED
        BY <2>2, <2>4, <3>1, <3>2 DEF OneAtATime, RowIsOfOneCall, Clock, Null
    <2>6. CASE EnterSession(p)
      <3>1. session' = session /\ \A q \in Proc : pc'[q] = "idle"
        BY <2>3, <2>6 DEF EnterSession, Finish, TypeInv, TypeOK
      <3>. QED
        BY <2>2, <3>1 DEF OneAtATime, RowIsOfOneCall
    <2>7. CASE SaveLeft(p)
      <3>1. /\ session' = session /\ pc[p] = "leave" /\ seen' = seen
            /\ \A q \in Proc : pc'[q] = IF q = p THEN "check" ELSE "idle"
        BY <2>3, <2>7 DEF SaveLeft, Goto, TypeInv, TypeOK
      <3>. QED
        BY <2>2, <3>1 DEF OneAtATime, RowIsOfOneCall
    <2>8. CASE CheckOthers(p)
      <3>1. session' = session /\ pc[p] = "check"
            /\ \/ \A q \in Proc : pc'[q] = "idle"
               \/ seen' = seen /\ \A q \in Proc : pc'[q] = IF q = p THEN "close" ELSE "idle"
        BY <2>3, <2>8 DEF CheckOthers, Goto, Finish, TypeInv, TypeOK
      <3>. QED
        BY <2>2, <3>1 DEF OneAtATime, RowIsOfOneCall
    <2>9. CASE CloseSession(p) \/ EndTransaction(p)
      <3>1. /\ \A q \in Proc : pc'[q] = "idle"
            /\ session' = Ended(seen[p]) /\ pc[p] \in {"close", "end"}
        BY <2>3, <2>9 DEF CloseSession, EndTransaction, Finish, TypeInv, TypeOK
      <3>2. session' = Ended(session) /\ session.status # "absent"
        BY <2>2, <3>1 DEF OneAtATime
      <3>3. /\ session'.status = "ended" /\ session'.started = session.started
            /\ session'.ended = now /\ session'.duration = Duration(session)
        BY <2>4, <3>2 DEF Ended, SessionRow
      <3>4. session.started = Null => session.duration = -1
        BY <2>2, <2>4 DEF RowIsOfOneCall, SessionRow
      <3>. QED
        BY <3>1, <3>3, <3>4 DEF OneAtATime, RowIsOfOneCall, Duration, Null
    <2>. QED
      BY <1>4, <2>5, <2>6, <2>7, <2>8, <2>9 DEF Continue
  <1>5. CASE Tick \/ UNCHANGED vars
    BY <1>5 DEF Tick, vars, SerialInv, OneAtATime, RowIsOfOneCall
  <1>. QED
    BY <1>1, <1>2, <1>3, <1>4, <1>5 DEF Next, Request

\* Requests that never overlap leave an ended session with the duration of
\* its call.
THEOREM DurationIsThatOfTheCall == Spec => []DurationIsMeasured
  <1>1. SerialInv => DurationIsMeasured
    BY DEF SerialInv, RowIsOfOneCall, DurationIsMeasured
  <1>. QED
    BY <1>1, InitTypeInv, StepTypeInv, InitSerialInv, StepSerialInv, PTL DEF Spec

\* No end lies in the future.
EndIsPast == session.ended <= now

LEMMA InitEndIsPast == Init => EndIsPast
  BY DEF Init, EndIsPast, NoSession, Null

LEMMA StepEndIsPast == TypeInv /\ EndIsPast /\ [Next]_vars => EndIsPast'
  <1>. SUFFICES ASSUME TypeInv, EndIsPast, [Next]_vars
                PROVE  EndIsPast'
    OBVIOUS
  <1>0. now \in Nat /\ session \in SessionRow /\ session.ended \in Nat /\ session.ended <= now
    BY DEF TypeInv, TypeOK, EndIsPast, SessionRow, Clock, Null
  <1>1. ASSUME NEW p \in Proc, CloseSession(p) \/ EndTransaction(p)
        PROVE  session'.ended = now /\ now' = now
    <2>1. session' = Ended(seen[p]) /\ now' = now
      BY <1>1 DEF CloseSession, EndTransaction
    <2>. QED
      BY <1>0, <2>1 DEF Ended, SessionRow
  <1>2. ASSUME NEW p \in Proc, StartSession(p)
        PROVE  session'.ended = session.ended /\ now' = now
    BY <1>0, <1>2 DEF StartSession, SessionRow
  <1>3. ASSUME NEW p \in Proc, NEW u \in User, GetSessionDetails \/ JoinSession(p, u)
        PROVE  now' = now /\ session'.ended \in {session.ended, 0}
    BY <1>3 DEF GetSessionDetails, JoinSession, NewSession, NoSession, Null
  <1>4. CASE session' = session /\ now' \in Nat /\ now <= now'
    BY <1>0, <1>4 DEF EndIsPast
  <1>5. CASE \E p \in Proc : CloseSession(p) \/ EndTransaction(p) \/ StartSession(p)
    BY <1>0, <1>1, <1>2, <1>5 DEF EndIsPast
  <1>6. CASE GetSessionDetails
    <2>1. now' = now /\ session'.ended \in {session.ended, 0}
      BY <1>6 DEF GetSessionDetails, NewSession, NoSession, Null
    <2>. QED
      BY <1>0, <2>1 DEF EndIsPast
  <1>7. CASE \E p \in Proc, u \in User : JoinSession(p, u)
    BY <1>0, <1>3, <1>7 DEF EndIsPast
  <1>8. CASE \E p \in Proc : EnterSession(p) \/ SaveLeft(p) \/ CheckOthers(p)
    BY <1>0, <1>4, <1>8 DEF EnterSession, SaveLeft, CheckOthers
  <1>9. CASE \E p \in Proc, u \in User : LeaveSession(p, u) \/ EndSession(p, u)
    BY <1>0, <1>4, <1>9 DEF LeaveSession, EndSession
  <1>10. CASE Tick \/ UNCHANGED vars
    BY <1>0, <1>4, <1>10 DEF Tick, vars
  <1>. QED
    BY <1>5, <1>6, <1>7, <1>8, <1>9, <1>10 DEF Next, Request, Continue

\* And an ended session stays so, although a join after it succeeds, and the
\* duration it reports only grows.
THEOREM EndedSessionStaysEnded == Spec => EndedStaysEnded
  <1>1. TypeInv /\ SerialInv /\ EndIsPast /\ [Next]_vars
          => [~raced' => /\ session.status = "ended" => session'.status = "ended"
                         /\ ReportedDuration' >= ReportedDuration]_vars
    <2>. SUFFICES ASSUME TypeInv, SerialInv, EndIsPast, Next, ~raced'
                  PROVE  /\ session.status = "ended" => session'.status = "ended"
                         /\ ReportedDuration' >= ReportedDuration
      OBVIOUS
    <2>0. /\ now \in Nat /\ session \in SessionRow /\ session.started <= now
          /\ session.started \in Nat /\ session.ended \in Nat /\ session.duration \in Int
          /\ session.ended <= now
      BY DEF EndIsPast, TypeInv, TypeOK, StartsArePast, SessionRow, Clock, Null
    <2>1. ASSUME NEW p \in Proc, StartSession(p)
          PROVE  session.status = "not_started" /\ now' = now
                 /\ session' = [session EXCEPT !.status = "active", !.started = now]
      BY <2>1 DEF StartSession, Goto, SerialInv, OneAtATime
    <2>2. ASSUME NEW p \in Proc, CloseSession(p) \/ EndTransaction(p)
          PROVE  session' = Ended(session) /\ now' = now /\ RowIsOfOneCall
                 /\ session.status # "absent"
      BY <2>2 DEF CloseSession, EndTransaction, Finish, SerialInv, OneAtATime
    <2>3. ASSUME NEW p \in Proc, NEW u \in User, JoinSession(p, u)
          PROVE  now' = now /\ (\/ session' = session
                                \/ session.status = "absent" /\ session' = NewSession)
      BY <2>3 DEF JoinSession
    <2>4. CASE session' = session /\ now' \in Nat /\ now <= now'
      BY <2>0, <2>4 DEF ReportedDuration
    <2>5. CASE session.status = "absent" /\ session' = NewSession
      BY <2>5 DEF ReportedDuration, NewSession, NoSession
    <2>6. CASE \E p \in Proc : StartSession(p)
      <3>1. /\ session.status = "not_started" /\ now' = now
            /\ session' = [session EXCEPT !.status = "active", !.started = now]
        BY <2>1, <2>6
      <3>2. session'.status = "active" /\ session'.started = now
        BY <2>0, <3>1 DEF SessionRow
      <3>. QED
        BY <2>0, <3>1, <3>2 DEF ReportedDuration
    <2>7. CASE \E p \in Proc : CloseSession(p) \/ EndTransaction(p)
      <3>1. RowIsOfOneCall /\ now' = now /\ session.status # "absent"
            /\ session' = [session EXCEPT !.status = "ended", !.ended = now,
                                          !.duration = Duration(session)]
        BY <2>2, <2>7 DEF Ended
      <3>2. /\ session'.status = "ended" /\ session'.started = session.started
            /\ session'.duration = IF session.started # Null THEN now - session.started
                                   ELSE session.duration
        BY <2>0, <3>1 DEF SessionRow, Duration
      <3>. QED
        BY <2>0, <3>1, <3>2 DEF ReportedDuration, RowIsOfOneCall, SessionRow, Null
    <2>8. CASE GetSessionDetails
      BY <2>0, <2>4, <2>5, <2>8 DEF GetSessionDetails
    <2>9. ASSUME NEW p \in Proc, NEW u \in User, JoinSession(p, u)
          PROVE  /\ session.status = "ended" => session'.status = "ended"
                 /\ ReportedDuration' >= ReportedDuration
      BY <2>0, <2>3, <2>4, <2>5, <2>9
    <2>10. CASE \E p \in Proc : EnterSession(p) \/ SaveLeft(p) \/ CheckOthers(p)
      BY <2>0, <2>4, <2>10 DEF EnterSession, SaveLeft, CheckOthers
    <2>11. CASE \E p \in Proc, u \in User : LeaveSession(p, u) \/ EndSession(p, u)
      BY <2>0, <2>4, <2>11 DEF LeaveSession, EndSession
    <2>12. CASE Tick
      BY <2>0, <2>4, <2>12 DEF Tick
    <2>. QED
      BY <2>6, <2>7, <2>8, <2>9, <2>10, <2>11, <2>12 DEF Next, Request, Continue
  <1>. QED
    BY <1>1, InitTypeInv, StepTypeInv, InitSerialInv, StepSerialInv, InitEndIsPast, StepEndIsPast, PTL
       DEF Spec, EndedStaysEnded
=============================================================================
