--------------------------- MODULE AccountProofs ----------------------------
(***************************************************************************)
(* Account, for any attempts, times, addresses and number of workers.      *)
(***************************************************************************)
EXTENDS Account, FiniteSetTheorems, TLAPS

(***************************************************************************)
(* Codes.                                                                  *)
(***************************************************************************)

CodeTypes ==
    /\ otp \in [Kind -> Code]
    /\ sent \in [Kind -> 0 .. Cooldown] /\ lost \in SUBSET Kind
    /\ tries \in Nat /\ uses \in Nat /\ hasty \in BOOLEAN

\* The ghosts describe the code that is stored, and there is one at most.
CodesAgree ==
    /\ \A k, q \in Kind : otp[k].stored /\ otp[q].stored => k = q
    /\ \A k \in Kind : otp[k].stored => uses = 0 /\ tries = otp[k].attempts
    /\ \A k \in Kind : sent[k] < Cooldown =>
           k \in lost \/ (otp[k].stored /\ otp[k].age = sent[k])

CodeInv == CodeTypes /\ CodesAgree /\ CodeWorksOnce /\ TriesAreCounted /\ CooldownIsKept

LEMMA NoCodeIsCode == NoCode \in Code /\ ~NoCode.stored
  BY TimeAssumption, AttemptAssumption DEF NoCode, Code

LEMMA InitCodeInv == Init => CodeInv
  <1>. SUFFICES ASSUME Init
                PROVE  CodeInv
    OBVIOUS
  <1>1. /\ otp = [k \in Kind |-> NoCode] /\ sent = [k \in Kind |-> Cooldown]
        /\ lost = {} /\ hasty = FALSE /\ tries = 0 /\ uses = 0
    BY DEF Init
  <1>4. hasty \in BOOLEAN
    BY <1>1
  <1>2. CodeTypes
    BY <1>1, <1>4, NoCodeIsCode, TimeAssumption DEF CodeTypes
  <1>3. CodesAgree
    BY <1>1, NoCodeIsCode, TimeAssumption DEF CodesAgree
  <1>. QED
    BY <1>1, <1>2, <1>3, AttemptAssumption
       DEF CodeInv, CodeWorksOnce, TriesAreCounted, CooldownIsKept

LEMMA SameCodes ==
  ASSUME CodeInv, UNCHANGED otp, UNCHANGED seen
  PROVE  CodeInv'
  BY DEF CodeInv, CodeTypes, CodesAgree, CodeWorksOnce, TriesAreCounted, CooldownIsKept,
         seen, Code

\* A code is deleted: it was right, it is old, or that is remembered in lost.
LEMMA DeletedCode ==
  ASSUME CodeInv, NEW k \in Kind, otp' = Deleted(k),
         sent' \in [Kind -> 0 .. Cooldown], lost' \in SUBSET Kind,
         \A q \in Kind : sent'[q] < Cooldown =>
             q \in lost' \/ (q # k /\ sent'[q] = sent[q] /\ q \notin lost),
         hasty' = hasty, tries' = tries,
         uses' = uses \/ (otp[k].stored /\ uses' = uses + 1)
  PROVE  CodeInv'
  <1>1. otp' \in [Kind -> Code] /\ otp'[k] = NoCode
        /\ \A q \in Kind \ {k} : otp'[q] = otp[q]
    BY NoCodeIsCode DEF Deleted, CodeInv, CodeTypes
  <1>2. uses' \in Nat /\ uses' <= 1
    BY DEF CodeInv, CodeTypes, CodesAgree, CodeWorksOnce
  <1>3. CodeTypes'
    BY <1>1, <1>2 DEF CodeTypes, CodeInv
  <1>4. \A q \in Kind : otp'[q].stored => q # k /\ otp[q].stored /\ ~otp[k].stored
    BY <1>1, NoCodeIsCode DEF CodeInv, CodesAgree
  <1>5. CodesAgree'
    BY <1>1, <1>4 DEF CodesAgree, CodeInv
  <1>6. CooldownIsKept'
    BY DEF CodeInv, CooldownIsKept
  <1>. QED
    BY <1>2, <1>3, <1>5, <1>6 DEF CodeInv, CodeWorksOnce, TriesAreCounted

LEMMA SendKeepsCodeInv ==
  ASSUME CodeInv, NEW k \in Kind, NEW to \in Email \cup {Nobody}, NEW force \in BOOLEAN,
         force \/ MayResend(k), SendCode(k, to, force)
  PROVE  CodeInv'
  <1>1. CASE /\ otp' = [otp EXCEPT ![k] = [age |-> 0, attempts |-> 0, to |-> to,
                                           stored |-> TRUE]]
             /\ sent' = [sent EXCEPT ![k] = 0]
             /\ hasty' = (hasty \/ (~force /\ k \notin lost /\ sent[k] < Cooldown))
             /\ lost' = lost \ {k}
             /\ tries' = 0 /\ uses' = 0
    <2>. DEFINE new == [age |-> 0, attempts |-> 0, to |-> to, stored |-> TRUE]
    <2>1. new \in Code
      BY TimeAssumption, AttemptAssumption DEF Code
    <2>2. /\ otp' \in [Kind -> Code] /\ otp'[k] = new
          /\ \A q \in Kind \ {k} : otp'[q] = otp[q] /\ ~otp'[q].stored
      BY <1>1, <2>1 DEF CodeInv, CodeTypes, SendCode
    <2>3. CodeTypes'
      BY <1>1, <2>2, TimeAssumption DEF CodeTypes, CodeInv
    <2>4. CodesAgree'
      BY <1>1, <2>2 DEF CodesAgree, CodeInv, CodeTypes
    <2>5. ~force => k \in lost \/ sent[k] >= Cooldown
      <3>1. MayResend(k) /\ k \notin lost /\ sent[k] < Cooldown => FALSE
        BY TimeAssumption DEF MayResend, Expired, CodeInv, CodesAgree, CodeTypes, Code
      <3>. QED
        BY <3>1, TimeAssumption DEF CodeInv, CodeTypes
    <2>6. ~hasty'
      <3>1. ~hasty
        BY DEF CodeInv, CooldownIsKept
      <3>2. ~(~force /\ k \notin lost /\ sent[k] < Cooldown)
        BY <2>5, TimeAssumption DEF CodeInv, CodeTypes
      <3>. QED
        BY <1>1, <3>1, <3>2, Zenon
    <2>. QED
      BY <1>1, <2>3, <2>4, <2>6, AttemptAssumption
         DEF CodeInv, CodeWorksOnce, TriesAreCounted, CooldownIsKept
  <1>2. CASE /\ otp' = Deleted(k)
             /\ lost' = IF sent[k] < Cooldown THEN lost \cup {k} ELSE lost
             /\ UNCHANGED <<sent, hasty, tries, uses>>
    <2>1. /\ sent' \in [Kind -> 0 .. Cooldown] /\ lost' \in SUBSET Kind
          /\ \A q \in Kind : sent'[q] < Cooldown =>
                 q \in lost' \/ (q # k /\ sent'[q] = sent[q] /\ q \notin lost)
      BY <1>2, TimeAssumption DEF CodeInv, CodeTypes
    <2>. QED
      BY <1>2, <2>1, DeletedCode
  <1>. QED
    BY <1>1, <1>2 DEF SendCode

LEMMA RightKeepsCodeInv ==
  ASSUME CodeInv, NEW k \in Kind, Right(k), otp' = Deleted(k)
  PROVE  CodeInv'
  <1>1. /\ sent' \in [Kind -> 0 .. Cooldown] /\ lost' \in SUBSET Kind
        /\ \A q \in Kind : sent'[q] < Cooldown =>
               q \in lost' \/ (q # k /\ sent'[q] = sent[q] /\ q \notin lost)
    BY TimeAssumption DEF CodeInv, CodeTypes, Right
  <1>. QED
    BY <1>1, DeletedCode DEF Right

\* An expired code is one whose cooldown has passed.
LEMMA ExpiredKeepsCodeInv ==
  ASSUME CodeInv, NEW k \in Kind, otp[k].stored, Expired(k), otp' = Deleted(k),
         UNCHANGED seen
  PROVE  CodeInv'
  <1>1. k \in lost \/ sent'[k] >= Cooldown
    BY TimeAssumption DEF CodeInv, CodesAgree, CodeTypes, Code, Expired, seen
  <1>2. /\ sent' \in [Kind -> 0 .. Cooldown] /\ lost' \in SUBSET Kind
        /\ \A q \in Kind : sent'[q] < Cooldown =>
               q \in lost' \/ (q # k /\ sent'[q] = sent[q] /\ q \notin lost)
    BY <1>1, TimeAssumption DEF CodeInv, CodeTypes, seen
  <1>. QED
    BY <1>2, DeletedCode DEF seen

LEMMA WrongKeepsCodeInv ==
  ASSUME CodeInv, NEW k \in Kind, Wrong(k)
  PROVE  CodeInv'
  <1>. DEFINE new == [otp[k] EXCEPT !.attempts = @ + 1]
  <1>1. otp[k] \in Code /\ otp[k].attempts < MaxAttempts /\ otp[k].stored
    BY AttemptAssumption DEF CodeInv, CodeTypes, Wrong, Locked, Code
  <1>2. new \in Code /\ new.stored /\ new.age = otp[k].age
        /\ new.attempts = otp[k].attempts + 1
    BY <1>1, AttemptAssumption DEF Code
  <1>3. otp' = [otp EXCEPT ![k] = new]
    BY DEF Wrong, Increment
  <1>4. otp' \in [Kind -> Code] /\ otp'[k] = new
        /\ \A q \in Kind \ {k} : otp'[q] = otp[q] /\ ~otp[q].stored
    BY <1>1, <1>2, <1>3 DEF CodeInv, CodeTypes, CodesAgree
  <1>5. tries' = tries + 1 /\ sent' = sent /\ lost' = lost /\ uses' = uses /\ hasty' = hasty
    BY DEF Wrong
  <1>6. CodeTypes'
    BY <1>4, <1>5 DEF CodeTypes, CodeInv
  <1>7. CodesAgree'
    BY <1>1, <1>2, <1>4, <1>5 DEF CodesAgree, CodeInv
  <1>8. tries' <= MaxAttempts
    BY <1>1, <1>5, AttemptAssumption DEF CodeInv, CodesAgree, CodeTypes, Code
  <1>9. CooldownIsKept'
    BY <1>5 DEF CodeInv, CooldownIsKept
  <1>. QED
    BY <1>5, <1>6, <1>7, <1>8, <1>9 DEF CodeInv, CodeWorksOnce, TriesAreCounted

LEMMA TickKeepsCodeInv ==
  ASSUME CodeInv, Tick
  PROVE  CodeInv'
  <1>. DEFINE aged(k) == [otp[k] EXCEPT !.age = IF otp[k].stored
                                                THEN Older(@, Validity) ELSE 0]
  <1>1. \A k \in Kind : /\ aged(k) \in Code /\ aged(k).stored = otp[k].stored
                        /\ aged(k).attempts = otp[k].attempts
                        /\ otp[k].stored => aged(k).age = Older(otp[k].age, Validity)
    BY TimeAssumption DEF CodeInv, CodeTypes, Code, Older
  <1>2. otp' = [k \in Kind |-> aged(k)]
    BY DEF Tick
  <1>. HIDE DEF aged
  <1>3. otp' \in [Kind -> Code] /\ \A k \in Kind : otp'[k] = aged(k)
    BY <1>1, <1>2
  <1>4. /\ sent' \in [Kind -> 0 .. Cooldown]
        /\ \A k \in Kind : sent'[k] < Cooldown => sent'[k] = sent[k] + 1
                                                 /\ sent[k] < Cooldown
                                                 /\ (k \in lost => k \in lost')
        /\ lost' \in SUBSET Kind
    BY TimeAssumption DEF Tick, Older, CodeInv, CodeTypes
  <1>5. tries' = tries /\ uses' = uses /\ hasty' = hasty
    BY DEF Tick
  <1>6. CodeTypes'
    BY <1>3, <1>4, <1>5 DEF CodeTypes, CodeInv
  <1>7. \A k \in Kind : sent'[k] < Cooldown =>
           k \in lost' \/ (otp'[k].stored /\ otp'[k].age = sent'[k])
    <2>. SUFFICES ASSUME NEW k \in Kind, sent'[k] < Cooldown, k \notin lost'
                  PROVE  otp'[k].stored /\ otp'[k].age = sent'[k]
      OBVIOUS
    <2>1. otp[k].stored /\ otp[k].age = sent[k] /\ sent[k] < Cooldown
          /\ sent'[k] = sent[k] + 1 /\ sent[k] \in Nat
      BY <1>4, TimeAssumption DEF CodeInv, CodesAgree, CodeTypes
    <2>2. Older(sent[k], Validity) = sent[k] + 1
      BY <2>1, TimeAssumption DEF Older
    <2>. QED
      BY <1>1, <1>3, <2>1, <2>2
  <1>8. CodesAgree'
    BY <1>1, <1>3, <1>5, <1>7 DEF CodesAgree, CodeInv
  <1>. QED
    BY <1>5, <1>6, <1>8 DEF CodeInv, CodeWorksOnce, TriesAreCounted, CooldownIsKept

LEMMA StepKeepsCodeInv == CodeInv /\ [Next]_vars => CodeInv'
  <1>. SUFFICES ASSUME CodeInv, [Next]_vars
                PROVE  CodeInv'
    OBVIOUS
  <1>. USE DEF Kind
  <1>1. CASE UNCHANGED vars
    BY <1>1, SameCodes DEF vars, seen
  <1>2. ASSUME NEW p \in Proc, WorkerStep(p)
        PROVE  CodeInv'
    <2>1. CASE \/ Refresh(p) \/ Rotate(p) \/ StoreTokens(p) \/ Die(p)
               \/ ChangePassword(p) \/ ResetByLink(p) \/ Revoke(p)
      BY <2>1, SameCodes DEF Refresh, Rotate, StoreTokens, Die, ChangePassword,
         ResetByLink, Revoke
    <2>4. CASE ResetByCode(p)
      BY <2>4, RightKeepsCodeInv DEF ResetByCode
    <2>2. CASE Login(p) \/ GoogleLogin(p)
      <3>1. PICK u : LogIn(p, u)
        BY <2>2 DEF Login, GoogleLogin
      <3>2. CASE u.twofa
        <4>1. SendCode("sms", Nobody, TRUE)
          BY <3>1, <3>2 DEF LogIn, SendSms
        <4>. QED
          BY <4>1, SendKeepsCodeInv
      <3>3. CASE ~u.twofa
        BY <3>1, <3>3, SameCodes DEF LogIn
      <3>. QED
        BY <3>2, <3>3
    <2>3. CASE \E a \in Action : VerifyOTP(p, a)
      BY <2>3, RightKeepsCodeInv DEF VerifyOTP
    <2>. QED
      BY <1>2, <2>1, <2>2, <2>3, <2>4 DEF WorkerStep
  <1>3. CASE RequestStep
    <2>1. CASE \/ \E phone \in BOOLEAN : Signup(phone)
               \/ VerifyEmail \/ LoginUnverified \/ Logout \/ LogoutAll
               \/ UpdatePhone \/ Disable2FA \/ ForgotByEmail
      BY <2>1, SameCodes DEF Signup, VerifyEmail, LoginUnverified, Logout, LogoutAll,
         UpdatePhone, Disable2FA, ForgotByEmail
    <2>2. CASE Enable2FA
      <3>1. SendCode("sms", Nobody, TRUE)
        BY <2>2 DEF Enable2FA, SendSms
      <3>. QED
        BY <3>1, SendKeepsCodeInv
    <2>3. CASE \E a \in Action : RefuseOTP(a)
      <3>1. Wrong("sms") \/ NotCompared("sms")
        BY <2>3 DEF RefuseOTP
      <3>. QED
        BY <3>1, WrongKeepsCodeInv, ExpiredKeepsCodeInv DEF NotCompared
    <2>4. CASE \E a \in Action : ResendOTP(a)
      <3>1. MayResend("sms") /\ SendCode("sms", Nobody, FALSE)
        BY <2>4 DEF ResendOTP, SendSms
      <3>. QED
        BY <3>1, SendKeepsCodeInv
    <2>5. CASE \E e \in Email : ChangeEmailRequest(e)
      <3>1. PICK e \in Email : SendCode("email", e, TRUE)
        BY <2>5 DEF ChangeEmailRequest
      <3>. QED
        BY <3>1, SendKeepsCodeInv
    <2>6. CASE ResendEmailChange
      <3>1. MayResend("email") /\ SendCode("email", otp["email"].to, FALSE)
        BY <2>6 DEF ResendEmailChange
      <3>2. otp["email"].to \in Email \cup {Nobody}
        BY DEF CodeInv, CodeTypes, Code
      <3>. QED
        BY <3>1, <3>2, SendKeepsCodeInv
    <2>7. CASE VerifyEmailChange
      <3>1. \/ Right("email") /\ otp' = Deleted("email")
            \/ Wrong("email")
            \/ NotCompared("email")
        BY <2>7 DEF VerifyEmailChange
      <3>. QED
        BY <3>1, RightKeepsCodeInv, WrongKeepsCodeInv, ExpiredKeepsCodeInv DEF NotCompared
    <2>8. CASE ForgotByPhone
      <3>1. SendCode("reset", Nobody, TRUE)
        BY <2>8 DEF ForgotByPhone
      <3>. QED
        BY <3>1, SendKeepsCodeInv
    <2>9. CASE ResendPasswordReset
      <3>1. MayResend("reset") /\ SendCode("reset", Nobody, FALSE)
        BY <2>9 DEF ResendPasswordReset
      <3>. QED
        BY <3>1, SendKeepsCodeInv
    <2>10. CASE RefuseReset
      <3>1. Wrong("reset") \/ NotCompared("reset")
        BY <2>10 DEF RefuseReset
      <3>. QED
        BY <3>1, WrongKeepsCodeInv, ExpiredKeepsCodeInv DEF NotCompared
    <2>. QED
      BY <1>3, <2>1, <2>2, <2>3, <2>4, <2>5, <2>6, <2>7, <2>8, <2>9, <2>10
         DEF RequestStep
  <1>4. CASE Tick
    BY <1>4, TickKeepsCodeInv
  <1>5. CASE LinkExpires
    BY <1>5, SameCodes DEF LinkExpires
  <1>6. CASE \E k \in Kind : Expire(k)
    BY <1>6, ExpiredKeepsCodeInv DEF Expire
  <1>. QED
    BY <1>1, <1>2, <1>3, <1>4, <1>5, <1>6 DEF Next

LEMMA CodeInvariant == Spec => []CodeInv
  BY InitCodeInv, StepKeepsCodeInv, PTL DEF Spec

\* A code that was right is deleted at once, whichever view asked
\* (verify_sms_otp, verify_email_change, and reset after the password is set).
THEOREM OneRequestPerCode == Spec => []CodeWorksOnce
  BY CodeInvariant, PTL DEF CodeInv

\* The attempts in the record are the wrong entries since the code was sent, so
\* the bound that _increment_attempt looks at is a bound on them.
THEOREM WrongEntriesAreCounted == Spec => []TriesAreCounted
  BY CodeInvariant, PTL DEF CodeInv

\* Neither the rewriting of the record with every wrong entry nor its expiry
\* lets _can_resend_otp send a second code within the cooldown of the first, as
\* long as no message of that kind failed after the first came.
THEOREM NoCodeWithinCooldown == Spec => []CooldownIsKept
  BY CodeInvariant, PTL DEF CodeInv

(***************************************************************************)
(* The row of the user.                                                    *)
(***************************************************************************)

RowInv ==
    /\ user \in UserRow
    /\ reset \in BOOLEAN
    /\ signed \in [Action -> 0 .. SignedAge]
    /\ otp["email"].stored => otp["email"].to \in Email
    /\ CodeIsExpected

LEMMA InitRowInv == Init => RowInv
  <1>. SUFFICES ASSUME Init
                PROVE  RowInv
    OBVIOUS
  <1>1. otp = [k \in Kind |-> NoCode] /\ reset = FALSE
        /\ signed = [a \in Action |-> SignedAge]
    BY DEF Init
  <1>2. user \in UserRow
    BY BoundAssumption DEF Init, UserRow
  <1>3. \A k \in Kind : ~otp[k].stored
    BY <1>1, NoCodeIsCode
  <1>4. signed \in [Action -> 0 .. SignedAge]
    BY <1>1, TimeAssumption
  <1>. QED
    BY <1>1, <1>2, <1>3, <1>4 DEF RowInv, CodeIsExpected, Kind

\* What deletes codes, or changes only what a code is compared with.
LEMMA FewerCodes ==
  ASSUME RowInv, user' \in UserRow, user'.initiated = user.initiated,
         reset' \in BOOLEAN, signed' \in [Action -> 0 .. SignedAge],
         \A k \in Kind : otp'[k].stored => otp[k].stored /\ otp'[k].to = otp[k].to
  PROVE  RowInv'
  BY DEF RowInv, CodeIsExpected, Kind

LEMMA DeletedIsFewer ==
  ASSUME CodeInv, NEW k \in Kind, otp' = Deleted(k)
  PROVE  /\ ~otp'[k].stored
         /\ \A q \in Kind : otp'[q].stored => otp[q].stored /\ otp'[q].to = otp[q].to
  <1>1. otp'[k] = NoCode /\ \A q \in Kind \ {k} : otp'[q] = otp[q]
    BY DEF Deleted, CodeInv, CodeTypes
  <1>. QED
    BY <1>1, NoCodeIsCode

LEMMA WrongIsFewer ==
  ASSUME CodeInv, NEW k \in Kind, Wrong(k) \/ NotCompared(k)
  PROVE  \A q \in Kind : otp'[q].stored => otp[q].stored /\ otp'[q].to = otp[q].to
  <1>1. CASE Wrong(k)
    BY <1>1 DEF Wrong, Increment, CodeInv, CodeTypes, Code
  <1>2. CASE NotCompared(k)
    BY <1>2, DeletedIsFewer DEF NotCompared
  <1>. QED
    BY <1>1, <1>2

LEMMA AddressOfSent ==
  ASSUME CodeInv, NEW k \in Kind, NEW to \in Email \cup {Nobody}, NEW force,
         SendCode(k, to, force)
  PROVE  \A q \in Kind : otp'[q].stored => q = k /\ otp'[q].to = to
  <1>1. CASE otp' = [otp EXCEPT ![k] = [age |-> 0, attempts |-> 0, to |-> to,
                                        stored |-> TRUE]]
    BY <1>1 DEF SendCode, CodeInv, CodeTypes
  <1>2. CASE otp' = Deleted(k)
    BY <1>2, DeletedIsFewer DEF SendCode
  <1>. QED
    BY <1>1, <1>2 DEF SendCode

LEMMA RowOfSms ==
  ASSUME CodeInv, RowInv, NEW force, SendCode("sms", Nobody, force),
         user' \in UserRow, user'.initiated,
         reset' \in BOOLEAN, signed' \in [Action -> 0 .. SignedAge]
  PROVE  RowInv'
  <1>1. \A q \in Kind : otp'[q].stored => q = "sms"
    BY AddressOfSent DEF Kind
  <1>. QED
    BY <1>1 DEF RowInv, CodeIsExpected, Kind

LEMMA RowOfOther ==
  ASSUME CodeInv, RowInv, NEW force, NEW to \in Email \cup {Nobody},
         SendCode("reset", to, force) \/ (SendCode("email", to, force) /\ to \in Email),
         UNCHANGED <<user, reset, signed>>
  PROVE  RowInv'
  <1>1. CASE SendCode("reset", to, force)
    <2>1. \A q \in Kind : otp'[q].stored => q = "reset"
      BY <1>1, AddressOfSent DEF Kind
    <2>. QED
      BY <2>1 DEF RowInv, CodeIsExpected, Kind
  <1>2. CASE SendCode("email", to, force) /\ to \in Email
    <2>1. \A q \in Kind : otp'[q].stored => q = "email" /\ otp'[q].to = to
      BY <1>2, AddressOfSent DEF Kind
    <2>. QED
      BY <1>2, <2>1 DEF RowInv, CodeIsExpected, Kind
  <1>. QED
    BY <1>1, <1>2

LEMMA StepKeepsRowInv == CodeInv /\ RowInv /\ [Next]_vars => RowInv'
  <1>. SUFFICES ASSUME CodeInv, RowInv, [Next]_vars
                PROVE  RowInv'
    OBVIOUS
  <1>. USE DEF Kind
  <1>0. user \in UserRow /\ reset \in BOOLEAN /\ signed \in [Action -> 0 .. SignedAge]
    BY DEF RowInv
  <1>1. CASE UNCHANGED vars
    BY <1>0, <1>1, FewerCodes DEF vars
  <1>2. ASSUME NEW p \in Proc, WorkerStep(p)
        PROVE  RowInv'
    <2>1. CASE Refresh(p) \/ Rotate(p) \/ StoreTokens(p) \/ Revoke(p) \/ Die(p)
      BY <1>0, <2>1, FewerCodes DEF Refresh, Rotate, StoreTokens, Revoke, Die
    <2>2. CASE Login(p) \/ GoogleLogin(p)
      <3>1. PICK u \in UserRow : LogIn(p, u) /\ u.initiated = user.initiated
        <4>. DEFINE google == [user EXCEPT !.exists = TRUE, !.verified = TRUE]
        <4>1. google \in UserRow /\ google.initiated = user.initiated
          BY <1>0 DEF UserRow
        <4>2. LogIn(p, user) \/ LogIn(p, google)
          BY <2>2 DEF Login, GoogleLogin
        <4>. QED
          BY <1>0, <4>1, <4>2
      <3>2. CASE u.twofa
        <4>1. SendCode("sms", Nobody, TRUE) /\ user' = [u EXCEPT !.initiated = TRUE]
              /\ UNCHANGED reset
          BY <3>1, <3>2 DEF LogIn, SendSms
        <4>2. user' \in UserRow /\ user'.initiated
          BY <4>1 DEF UserRow
        <4>3. signed' \in [Action -> 0 .. SignedAge]
          BY <1>0, <3>1, <3>2, TimeAssumption DEF LogIn
        <4>. QED
          BY <1>0, <4>1, <4>2, <4>3, RowOfSms
      <3>3. CASE ~u.twofa
        BY <1>0, <3>1, <3>3, FewerCodes DEF LogIn
      <3>. QED
        BY <3>2, <3>3
    <2>3. ASSUME NEW a \in Action, VerifyOTP(p, a)
          PROVE  RowInv'
      <3>1. ~otp'["sms"].stored
            /\ \A q \in Kind : otp'[q].stored => otp[q].stored /\ otp'[q].to = otp[q].to
        BY <2>3, DeletedIsFewer DEF VerifyOTP
      <3>2. user' \in UserRow
        <4>1. (user.twofa \/ a = "setup") \in BOOLEAN
          OBVIOUS
        <4>. QED
          BY <1>0, <2>3, <4>1 DEF VerifyOTP, UserRow
      <3>. QED
        BY <1>0, <2>3, <3>1, <3>2 DEF VerifyOTP, RowInv, CodeIsExpected
    <2>4. CASE ChangePassword(p) \/ ResetByLink(p) \/ ResetByCode(p)
      <3>1. user' \in UserRow /\ user'.initiated = user.initiated
        <4>1. CASE SetPassword(p)
          BY <1>0, <4>1, BoundAssumption DEF SetPassword, UserRow
        <4>2. CASE UNCHANGED user
          BY <1>0, <4>2
        <4>. QED
          BY <2>4, <4>1, <4>2 DEF ChangePassword, ResetByLink, ResetByCode
      <3>2. CASE ResetByCode(p)
        <4>1. \A q \in Kind : otp'[q].stored => otp[q].stored /\ otp'[q].to = otp[q].to
          BY <3>2, DeletedIsFewer DEF ResetByCode
        <4>. QED
          BY <1>0, <3>1, <3>2, <4>1, FewerCodes DEF ResetByCode
      <3>. QED
        BY <1>0, <2>4, <3>1, <3>2, FewerCodes DEF ChangePassword, ResetByLink
    <2>. QED
      BY <1>2, <2>1, <2>2, <2>3, <2>4 DEF WorkerStep
  <1>3. CASE RequestStep
    <2>1. CASE \/ VerifyEmail \/ LoginUnverified \/ Logout \/ LogoutAll
               \/ UpdatePhone \/ Disable2FA \/ ForgotByEmail
      <3>1. user' \in UserRow /\ user'.initiated = user.initiated
        BY <1>0, <2>1 DEF VerifyEmail, LoginUnverified, Logout, LogoutAll,
           UpdatePhone, Disable2FA, ForgotByEmail, UserRow
      <3>. QED
        BY <1>0, <2>1, <3>1, FewerCodes DEF VerifyEmail, LoginUnverified, Logout, LogoutAll,
           UpdatePhone, Disable2FA, ForgotByEmail
    <2>2. ASSUME NEW phone \in BOOLEAN, Signup(phone)
          PROVE  RowInv'
      <3>1. user' \in UserRow /\ user'.initiated = user.initiated
        BY <1>0, <2>2 DEF Signup, UserRow
      <3>. QED
        BY <1>0, <2>2, <3>1, FewerCodes DEF Signup
    <2>4. CASE Enable2FA
      <3>1. SendCode("sms", Nobody, TRUE) /\ UNCHANGED reset
        BY <2>4 DEF Enable2FA, SendSms
      <3>2. user' \in UserRow /\ user'.initiated
        <4>1. user' = [user EXCEPT !.phone = TRUE, !.initiated = TRUE]
          BY <2>4 DEF Enable2FA
        <4>. QED
          BY <1>0, <4>1 DEF UserRow
      <3>3. signed' \in [Action -> 0 .. SignedAge]
        <4>1. signed' = signed \/ signed' = [signed EXCEPT !["setup"] = 0]
          BY <2>4 DEF Enable2FA
        <4>. QED
          BY <1>0, <4>1, TimeAssumption DEF Action
      <3>. QED
        BY <1>0, <3>1, <3>2, <3>3, RowOfSms
    <2>5. CASE \/ \E a \in Action : RefuseOTP(a)
               \/ RefuseReset
      BY <1>0, <2>5, WrongIsFewer, FewerCodes DEF RefuseOTP, RefuseReset
    <2>6. CASE \E a \in Action : ResendOTP(a)
      <3>1. SendCode("sms", Nobody, FALSE) /\ UNCHANGED <<user, reset, signed>>
            /\ user.initiated
        BY <2>6 DEF ResendOTP, SendSms
      <3>. QED
        BY <1>0, <3>1, RowOfSms
    <2>7. CASE \E e \in Email : ChangeEmailRequest(e)
      BY <2>7, RowOfOther DEF ChangeEmailRequest
    <2>8. CASE ResendEmailChange
      <3>1. otp["email"].to \in Email
        BY <2>8 DEF ResendEmailChange, RowInv
      <3>. QED
        BY <2>8, <3>1, RowOfOther DEF ResendEmailChange
    <2>9. CASE VerifyEmailChange
      <3>1. CASE Right("email") /\ otp' = Deleted("email")
                 /\ user' = [user EXCEPT !.email = otp["email"].to]
        <4>1. user' \in UserRow /\ user'.initiated = user.initiated
          BY <1>0, <3>1 DEF Right, RowInv, UserRow
        <4>. QED
          BY <1>0, <2>9, <3>1, <4>1, DeletedIsFewer, FewerCodes DEF VerifyEmailChange
      <3>2. CASE (Wrong("email") \/ NotCompared("email")) /\ UNCHANGED user
        BY <1>0, <2>9, <3>2, WrongIsFewer, FewerCodes DEF VerifyEmailChange
      <3>. QED
        BY <2>9, <3>1, <3>2 DEF VerifyEmailChange
    <2>10. CASE ForgotByPhone \/ ResendPasswordReset
      BY <2>10, RowOfOther DEF ForgotByPhone, ResendPasswordReset
    <2>. QED
      BY <1>3, <2>1, <2>2, <2>4, <2>5, <2>6, <2>7, <2>8, <2>9, <2>10
         DEF RequestStep
  <1>4. CASE Tick
    <2>1. signed' \in [Action -> 0 .. SignedAge]
      BY <1>0, <1>4, TimeAssumption DEF Tick, Older
    <2>2. \A k \in Kind : otp'[k].stored => otp[k].stored /\ otp'[k].to = otp[k].to
      BY <1>4 DEF Tick, CodeInv, CodeTypes, Code
    <2>. QED
      BY <1>0, <1>4, <2>1, <2>2, FewerCodes DEF Tick
  <1>5. CASE LinkExpires
    <2>1. user' \in UserRow /\ user'.initiated = user.initiated /\ reset' \in BOOLEAN
      BY <1>0, <1>5 DEF LinkExpires, UserRow
    <2>. QED
      BY <1>0, <1>5, <2>1, FewerCodes DEF LinkExpires
  <1>6. CASE \E k \in Kind : Expire(k)
    BY <1>0, <1>6, DeletedIsFewer, FewerCodes DEF Expire
  <1>. QED
    BY <1>1, <1>2, <1>3, <1>4, <1>5, <1>6 DEF Next

LEMMA RowInvariant == Spec => []RowInv
  BY InitRowInv, StepKeepsRowInv, CodeInvariant, PTL DEF Spec

\* No view that takes back has_initiate_login leaves a code behind it.
THEOREM StoredCodeIsExpected == Spec => []CodeIsExpected
  BY RowInvariant, PTL DEF RowInv

(***************************************************************************)
(* Tokens.                                                                 *)
(***************************************************************************)

TokenTypes ==
    /\ live \in SUBSET Token /\ current \in Token \cup {NoToken}
    /\ job \in [Proc -> Job]
    /\ raced \in BOOLEAN /\ owed \in BOOLEAN

\* There is room for the pairs that are about to be stored.
Room == count \in Nat /\ count + Cardinality(Storing) <= MaxTokens

TokenInv == TokenTypes /\ Room /\ LiveTokenIsKnown /\ PasswordChangeRevokes

LEMMA StoringIsFinite ==
  /\ IsFiniteSet(Storing) /\ Cardinality(Storing) \in Nat
  /\ IsFiniteSet(Storing') /\ Cardinality(Storing') \in Nat
  <1>1. Storing \subseteq Proc /\ Storing' \subseteq Proc
    BY DEF Storing
  <1>. QED
    BY <1>1, BoundAssumption, FS_Subset, FS_CardinalityType

LEMMA JobTypes ==
  /\ Idle \in Job /\ Idle.at = "idle"
  /\ \A t \in Token : [at |-> "refresh", token |-> t] \in Job
  /\ \A t \in Token \cup {NoToken} : [at |-> "store", old |-> t] \in Job
  /\ [at |-> "revoke"] \in Job
  /\ \A j \in Job : j.at = "refresh" => j.token \in Token
  /\ \A j \in Job : j.at = "store" => j.old \in Token \cup {NoToken}
  <1>. DEFINE r == [at : {"refresh"}, token : Token]
              s == [at : {"store"}, old : Token \cup {NoToken}]
              v == [at : {"revoke"}]
  <1>1. Job = {Idle} \cup r \cup s \cup v /\ Idle.at = "idle"
    BY DEF Job, Idle
  <1>2. \A j \in r : j.at = "refresh" /\ j.token \in Token
    OBVIOUS
  <1>3. \A j \in s : j.at = "store" /\ j.old \in Token \cup {NoToken}
    OBVIOUS
  <1>6. [at |-> "revoke"] \in v /\ \A j \in v : j.at = "revoke"
    OBVIOUS
  <1>4. \A t \in Token : [at |-> "refresh", token |-> t] \in r
    OBVIOUS
  <1>5. \A t \in Token \cup {NoToken} : [at |-> "store", old |-> t] \in s
    OBVIOUS
  <1>. HIDE DEF r, s, v
  <1>. QED
    BY <1>1, <1>2, <1>3, <1>4, <1>5, <1>6

LEMMA InitTokenInv == Init => TokenInv
  <1>. SUFFICES ASSUME Init
                PROVE  TokenInv
    OBVIOUS
  <1>1. /\ live = {} /\ current = NoToken /\ count = 0
        /\ job = [p \in Proc |-> Idle] /\ raced = FALSE /\ owed = FALSE
    BY DEF Init
  <1>2. Storing = {}
    BY <1>1, JobTypes DEF Storing
  <1>3. Room
    BY <1>1, <1>2, FS_EmptySet, BoundAssumption DEF Room
  <1>4. TokenTypes
    BY <1>1, JobTypes DEF TokenTypes
  <1>. QED
    BY <1>1, <1>3, <1>4 DEF TokenInv, LiveTokenIsKnown, PasswordChangeRevokes

LEMMA SameTokens ==
  ASSUME TokenInv, UNCHANGED store, user'.password = user.password
  PROVE  TokenInv'
  <1>1. Storing' = Storing
    BY DEF Storing, store
  <1>. QED
    BY <1>1 DEF TokenInv, TokenTypes, Room, LiveTokenIsKnown, PasswordChangeRevokes, store

\* The tokens that are taken away are all that is accepted, or one of them.
LEMMA FewerTokens ==
  ASSUME TokenInv, UNCHANGED <<count, job, raced, owed>>, live' \subseteq live,
         current' \in Token \cup {NoToken}, live' \subseteq {current} => live' \subseteq {current'},
         user'.password = user.password
  PROVE  TokenInv'
  <1>1. Storing' = Storing
    BY DEF Storing
  <1>2. TokenTypes'
    BY DEF TokenInv, TokenTypes
  <1>3. Room'
    BY <1>1 DEF TokenInv, Room
  <1>. QED
    BY <1>2, <1>3 DEF TokenInv, LiveTokenIsKnown, PasswordChangeRevokes

LEMMA BlacklistedIsFewer ==
  ASSUME TokenInv, NEW t, Blacklist(t)
  PROVE  /\ live' \subseteq live /\ t \notin live'
         /\ current' \in Token \cup {NoToken}
         /\ live' \subseteq {current} => live' \subseteq {current'}
  BY DEF Blacklist, TokenInv, TokenTypes

\* A worker that stores nothing gets another job.
LEMMA OtherJob ==
  ASSUME TokenInv, NEW p \in Proc, NEW j \in Job, j.at # "store",
         job' = [job EXCEPT ![p] = j], UNCHANGED count
  PROVE  job' \in [Proc -> Job] /\ Room'
  <1>1. job' \in [Proc -> Job] /\ Storing' \subseteq Storing
    BY DEF TokenInv, TokenTypes, Storing
  <1>2. Cardinality(Storing') <= Cardinality(Storing)
    BY <1>1, StoringIsFinite, FS_Subset
  <1>. QED
    BY <1>1, <1>2, StoringIsFinite, BoundAssumption DEF TokenInv, Room

LEMMA SetPasswordKeepsTokenInv ==
  ASSUME TokenInv, NEW p \in Proc, SetPassword(p)
  PROVE  TokenInv'
  <1>1. job' = [job EXCEPT ![p] = [at |-> "revoke"]] /\ owed' = TRUE
        /\ UNCHANGED <<live, current, count, raced>>
    BY DEF SetPassword
  <1>2. job' \in [Proc -> Job] /\ Room'
    BY <1>1, JobTypes, OtherJob
  <1>. QED
    BY <1>1, <1>2 DEF TokenInv, TokenTypes, LiveTokenIsKnown, PasswordChangeRevokes

\* What is known to the user's key is all there is, and it is taken away.
LEMMA RevokeKeepsTokenInv ==
  ASSUME TokenInv, NEW p \in Proc, Revoke(p)
  PROVE  TokenInv'
  <1>1. /\ live' = live \ {current} /\ current' = NoToken
        /\ job' = [job EXCEPT ![p] = Idle] /\ owed' = FALSE
        /\ UNCHANGED <<count, raced>>
    BY DEF Revoke, InvalidateUserTokens, Invalidated
  <1>2. job' \in [Proc -> Job] /\ Room'
    BY <1>1, JobTypes, OtherJob
  <1>3. ~raced => live' = {}
    BY <1>1 DEF TokenInv, LiveTokenIsKnown
  <1>. QED
    BY <1>1, <1>2, <1>3 DEF TokenInv, TokenTypes, LiveTokenIsKnown, PasswordChangeRevokes

LEMMA DieKeepsTokenInv ==
  ASSUME TokenInv, NEW p \in Proc, Die(p)
  PROVE  TokenInv'
  <1>1. job' \in [Proc -> Job] /\ Room'
    BY JobTypes, OtherJob DEF Die
  <1>. QED
    BY <1>1 DEF Die, TokenInv, TokenTypes, LiveTokenIsKnown, PasswordChangeRevokes

LEMMA ReadOldKeepsTokenInv ==
  ASSUME TokenInv, NEW p \in Proc, ReadOld(p),
         user'.password = user.password, UNCHANGED <<live, current, count, raced, owed>>
  PROVE  TokenInv'
  <1>. DEFINE j == [at |-> "store", old |-> current]
  <1>1. j \in Job /\ j.at = "store"
    BY JobTypes DEF TokenInv, TokenTypes
  <1>2. job' = [job EXCEPT ![p] = j] /\ job[p] = Idle /\ MayStore
    BY DEF ReadOld
  <1>. HIDE DEF j
  <1>3. job' \in [Proc -> Job] /\ Storing' = Storing \cup {p}
    BY <1>1, <1>2 DEF TokenInv, TokenTypes, Storing
  <1>4. Cardinality(Storing') <= Cardinality(Storing) + 1
    BY <1>3, StoringIsFinite, FS_AddElement
  <1>5. Room'
    BY <1>2, <1>4, StoringIsFinite, BoundAssumption DEF TokenInv, Room, MayStore
  <1>. QED
    BY <1>3, <1>5 DEF TokenInv, TokenTypes, LiveTokenIsKnown, PasswordChangeRevokes

LEMMA StoreKeepsTokenInv ==
  ASSUME TokenInv, NEW p \in Proc, StoreTokens(p), user.password \in 0 .. MaxPassword
  PROVE  TokenInv'
  <1>. DEFINE new == [id |-> count + 1, password |-> user.password]
  <1>1. /\ job[p] \in Job /\ job[p].at = "store"
        /\ live' = (live \ {job[p].old}) \cup {new} /\ current' = new
        /\ count' = count + 1 /\ job' = [job EXCEPT ![p] = Idle] /\ user' = user
        /\ owed' = owed
    BY DEF StoreTokens, TokenInv, TokenTypes
  <1>2. raced' = (raced \/ current \notin {job[p].old, NoToken})
    BY DEF StoreTokens
  <1>3. raced' \in BOOLEAN
    BY <1>2, Zenon DEF TokenInv, TokenTypes
  <1>4. ~raced' => ~raced /\ (current = job[p].old \/ current = NoToken)
    BY <1>2, Zenon
  <1>5. Storing' = Storing \ {p} /\ p \in Storing
    BY <1>1, JobTypes DEF TokenInv, TokenTypes, Storing
  <1>6. Cardinality(Storing') = Cardinality(Storing) - 1
    BY <1>5, StoringIsFinite, FS_RemoveElement
  <1>7. Room'
    BY <1>1, <1>6, StoringIsFinite DEF TokenInv, Room
  <1>8. new \in Token
    BY <1>1, <1>6, JobTypes, StoringIsFinite, BoundAssumption DEF TokenInv, Room, Token
  <1>9. TokenTypes'
    <2>1. job' \in [Proc -> Job]
      BY <1>1, JobTypes DEF TokenInv, TokenTypes
    <2>. QED
      BY <1>1, <1>3, <1>8, <2>1 DEF TokenInv, TokenTypes
  <1>10. ~raced' => live' = {new} /\ new.password = user'.password
    <2>1. NoToken \notin Token
      BY BoundAssumption DEF Token, NoToken
    <2>2. ~raced' => live \ {job[p].old} = {}
      BY <1>4, <2>1 DEF TokenInv, TokenTypes, LiveTokenIsKnown
    <2>. QED
      BY <1>1, <2>2
  <1>. HIDE DEF new
  <1>. QED
    BY <1>1, <1>7, <1>9, <1>10 DEF TokenInv, LiveTokenIsKnown, PasswordChangeRevokes

LEMMA RefreshKeepsTokenInv ==
  ASSUME TokenInv, NEW p \in Proc, Refresh(p) \/ Rotate(p)
  PROVE  TokenInv'
  <1>1. CASE Refresh(p)
    <2>1. PICK t \in Token : job' = [job EXCEPT ![p] = [at |-> "refresh", token |-> t]]
      BY <1>1 DEF Refresh, TokenInv, TokenTypes
    <2>2. job' \in [Proc -> Job] /\ Storing' = Storing
      BY <1>1, <2>1, JobTypes DEF Refresh, TokenInv, TokenTypes, Storing
    <2>3. TokenTypes' /\ Room'
      BY <1>1, <2>2 DEF Refresh, TokenInv, TokenTypes, Room
    <2>. QED
      BY <1>1, <2>3 DEF Refresh, TokenInv, LiveTokenIsKnown, PasswordChangeRevokes
  <1>2. CASE Rotate(p)
    <2>1. Blacklist(job[p].token) /\ UNCHANGED <<user, count, raced, owed>> /\ job[p].at = "refresh"
      BY <1>2 DEF Rotate
    <2>2. /\ live' \subseteq live /\ current' \in Token \cup {NoToken}
          /\ live' \subseteq {current} => live' \subseteq {current'}
      BY <2>1, BlacklistedIsFewer
    <2>. DEFINE j == [at |-> "store", old |-> current']
    <2>3. j \in Job /\ j.at = "store"
      BY <2>2, JobTypes
    <2>4. job' = [job EXCEPT ![p] = j] /\ MayStore
      BY <1>2 DEF Rotate
    <2>. HIDE DEF j
    <2>5. job' \in [Proc -> Job] /\ Storing' = Storing \cup {p}
      BY <2>3, <2>4 DEF TokenInv, TokenTypes, Storing
    <2>6. Cardinality(Storing') <= Cardinality(Storing) + 1
      <3>1. \/ Cardinality(Storing') = Cardinality(Storing)
            \/ Cardinality(Storing') = Cardinality(Storing) + 1
        BY ONLY <2>5, StoringIsFinite, FS_AddElement
      <3>. QED
        BY <3>1, StoringIsFinite
    <2>7. Room'
      BY <2>1, <2>4, <2>6, StoringIsFinite, BoundAssumption DEF TokenInv, Room, MayStore
    <2>8. TokenTypes'
      BY <2>1, <2>2, <2>5 DEF TokenInv, TokenTypes
    <2>. QED
      BY <2>1, <2>2, <2>7, <2>8 DEF TokenInv, LiveTokenIsKnown, PasswordChangeRevokes
  <1>. QED
    BY <1>1, <1>2

LEMMA StepKeepsTokenInv == RowInv /\ TokenInv /\ [Next]_vars => TokenInv'
  <1>. SUFFICES ASSUME RowInv, TokenInv, [Next]_vars
                PROVE  TokenInv'
    OBVIOUS
  <1>0. user \in UserRow /\ user.password \in 0 .. MaxPassword
    BY DEF RowInv, UserRow
  <1>1. CASE UNCHANGED vars
    BY <1>1, SameTokens DEF vars
  <1>2. ASSUME NEW p \in Proc, WorkerStep(p)
        PROVE  TokenInv'
    <2>1. CASE Refresh(p) \/ Rotate(p) \/ StoreTokens(p)
      BY <1>0, <2>1, RefreshKeepsTokenInv, StoreKeepsTokenInv
    <2>2. CASE Login(p) \/ GoogleLogin(p)
      <3>1. PICK u \in UserRow : LogIn(p, u) /\ u.password = user.password
        <4>. DEFINE google == [user EXCEPT !.exists = TRUE, !.verified = TRUE]
        <4>1. google \in UserRow /\ google.password = user.password
          BY <1>0 DEF UserRow
        <4>2. LogIn(p, user) \/ LogIn(p, google)
          BY <2>2 DEF Login, GoogleLogin
        <4>. QED
          BY <1>0, <4>1, <4>2
      <3>2. CASE u.twofa
        BY <3>1, <3>2, SameTokens DEF LogIn, UserRow
      <3>3. CASE ~u.twofa
        BY <3>1, <3>3, ReadOldKeepsTokenInv DEF LogIn
      <3>. QED
        BY <3>2, <3>3
    <2>3. ASSUME NEW a \in Action, VerifyOTP(p, a)
          PROVE  TokenInv'
      <3>1. user'.password = user.password
        BY <1>0, <2>3 DEF VerifyOTP, UserRow
      <3>2. CASE a = "login"
        BY <2>3, <3>1, <3>2, ReadOldKeepsTokenInv DEF VerifyOTP
      <3>3. CASE a # "login"
        BY <2>3, <3>1, <3>3, SameTokens DEF VerifyOTP, store
      <3>. QED
        BY <3>2, <3>3
    <2>4. CASE ChangePassword(p) \/ ResetByLink(p) \/ ResetByCode(p)
      <3>1. CASE SetPassword(p)
        BY <3>1, SetPasswordKeepsTokenInv
      <3>2. CASE ~SetPassword(p)
        BY <2>4, <3>2, SameTokens DEF ChangePassword, ResetByLink, ResetByCode
      <3>. QED
        BY <3>1, <3>2
    <2>5. CASE Revoke(p) \/ Die(p)
      BY <2>5, RevokeKeepsTokenInv, DieKeepsTokenInv
    <2>. QED
      BY <1>2, <2>1, <2>2, <2>3, <2>4, <2>5 DEF WorkerStep
  <1>3. CASE RequestStep
    <2>1. CASE Logout
      BY <2>1, BlacklistedIsFewer, FewerTokens DEF Logout
    <2>2. CASE LogoutAll
      <3>1. PICK t \in live \cup {NoToken} : live' = (live \ {current}) \ {t}
        BY <2>2 DEF LogoutAll, Invalidated
      <3>2. current' = NoToken /\ UNCHANGED <<user, count, job, raced, owed>>
        BY <2>2 DEF LogoutAll
      <3>. QED
        BY <3>1, <3>2, FewerTokens
    <2>4. CASE \/ \E phone \in BOOLEAN : Signup(phone)
               \/ VerifyEmail \/ LoginUnverified
               \/ UpdatePhone \/ Enable2FA \/ Disable2FA
      BY <1>0, <2>4, SameTokens DEF Signup, VerifyEmail, LoginUnverified, UpdatePhone,
         Enable2FA, Disable2FA, UserRow
    <2>5. CASE \/ \E a \in Action : RefuseOTP(a) \/ ResendOTP(a)
               \/ \E e \in Email : ChangeEmailRequest(e)
               \/ ResendEmailChange \/ ForgotByEmail \/ ForgotByPhone
               \/ ResendPasswordReset \/ RefuseReset
      BY <2>5, SameTokens DEF RefuseOTP, ResendOTP, ChangeEmailRequest, ResendEmailChange,
         ForgotByEmail, ForgotByPhone, ResendPasswordReset, RefuseReset
    <2>6. CASE VerifyEmailChange
      <3>1. UNCHANGED store
        BY <2>6 DEF VerifyEmailChange
      <3>2. user'.password = user.password
        BY <1>0, <2>6 DEF VerifyEmailChange, UserRow
      <3>. QED
        BY <3>1, <3>2, SameTokens
    <2>. QED
      BY <1>3, <2>1, <2>2, <2>4, <2>5, <2>6 DEF RequestStep
  <1>4. CASE Tick
    BY <1>4, SameTokens DEF Tick
  <1>5. CASE LinkExpires
    BY <1>0, <1>5, SameTokens DEF LinkExpires, UserRow
  <1>6. CASE \E k \in Kind : Expire(k)
    BY <1>6, SameTokens DEF Expire
  <1>. QED
    BY <1>1, <1>2, <1>3, <1>4, <1>5, <1>6 DEF Next

LEMMA TokenInvariant == Spec => []TokenInv
  BY InitTokenInv, StepKeepsTokenInv, RowInvariant, PTL DEF Spec

\* The key of the user's pair in Redis names every refresh token that is
\* accepted, unless a request stored its pair over one it had not read.
THEOREM LiveTokenIsTheLast == Spec => []LiveTokenIsKnown
  BY TokenInvariant, PTL DEF TokenInv

\* So invalidate_user_tokens after a new password leaves none that was stored
\* before it, however logins, refreshes, logouts and changes that died halfway
\* came before. A request that stores its pair after the change is outside it.
THEOREM NewPasswordRevokes == Spec => []PasswordChangeRevokes
  BY TokenInvariant, PTL DEF TokenInv

THEOREM AccountTypeCorrect == Spec => []TypeOK
  <1>1. CodeInv /\ RowInv /\ TokenInv => TypeOK
    <2>. SUFFICES ASSUME CodeInv, RowInv, TokenInv
                  PROVE  TypeOK
      OBVIOUS
    <2>1. count \in 0 .. MaxTokens
      BY StoringIsFinite, BoundAssumption DEF TokenInv, Room
    <2>2. hasty \in BOOLEAN
      BY DEF CodeInv, CodeTypes
    <2>. QED
      BY <2>1, <2>2 DEF TypeOK, CodeInv, CodeTypes, RowInv, TokenInv, TokenTypes
  <1>. QED
    BY <1>1, CodeInvariant, RowInvariant, TokenInvariant, PTL
=============================================================================
