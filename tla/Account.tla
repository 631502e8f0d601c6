------------------------------ MODULE Account ------------------------------
(***************************************************************************)
(* One account: signing up and in, the three kinds of one-time code that   *)
(* RedisOTPService keeps under keys of their own, the refresh tokens that  *)
(* RedisTokenStore keeps, and the ways to change the password.             *)
(*                                                                         *)
(* A request is one step, but for those that store tokens, which validate, *)
(* blacklist, read the old pair and write the new one, and those that set  *)
(* a password, which save it and then invalidate the tokens: others come   *)
(* in between, and the worker may fail there. Time is how long ago         *)
(* something was done, counted up to the longest time anybody asks for.    *)
(* What the code writes and nothing reads (password_attempt, the keys of   *)
(* access tokens) is left out.                                             *)
(***************************************************************************)
EXTENDS Integers, FiniteSets

CONSTANTS
    Email,
    Proc,         \* web workers that store or invalidate tokens
    MaxAttempts,  \* DEFAULT_MAX_ATTEMPTS
    Cooldown,     \* DEFAULT_COOLDOWN_SECONDS,
    Validity,     \* OTP_VALIDITY_MINUTES, and
    SignedAge,    \* max_age of a signed token where a code is entered
    ResendAge,    \* and where one is asked for again, in ticks
    MaxTokens,    \* bound on the pairs of tokens
    MaxPassword   \* bound on the changes of the password

ASSUME AttemptAssumption == MaxAttempts \in Nat \ {0}
ASSUME TimeAssumption ==
    /\ Cooldown \in Nat /\ Validity \in Nat /\ SignedAge \in Nat
    /\ Cooldown <= Validity
    /\ ResendAge \in 0 .. SignedAge
ASSUME BoundAssumption ==
    MaxTokens \in Nat /\ MaxPassword \in Nat /\ IsFiniteSet(Proc)

VARIABLES
    user,      \* the row of User, with the link that verifies its address,
    reset,     \* whether its PasswordResetToken is usable
    signed,    \* age of the newest signed token of each action
    otp,       \* Redis: the codes,
    live,      \* the refresh tokens,
    current,   \* and user_tokens, the pair the user was given last
    count,     \* how many pairs were made
    job,       \* what each worker has read
    sent,      \* of each kind of code: when one came that was not yet used,
    lost,      \* the kinds of which a message failed within the cooldown,
    hasty,     \* whether one was sent again too soon with no message failed,
    tries,     \* and of the code that came last: the wrong entries,
    uses,      \* and the right ones
    raced,     \* tokens were stored over those of another request
    owed       \* a password was saved and tokens not invalidated since

store == <<live, current, count, job, raced, owed>>
seen  == <<sent, lost, hasty, tries, uses>>
vars  == <<user, reset, signed, otp, store, seen>>

Kind   == {"sms", "email", "reset"}
Action == {"login", "setup"}
Nobody == "nobody"

UserRow == [exists : BOOLEAN, email : Email, password : 0 .. MaxPassword,
            verified : BOOLEAN, link : BOOLEAN, twofa : BOOLEAN, phone : BOOLEAN,
            initiated : BOOLEAN]

NoCode   == [age |-> 0, attempts |-> 0, to |-> Nobody, stored |-> FALSE]
Code     == [age : 0 .. Validity, attempts : 0 .. MaxAttempts,
             to : Email \cup {Nobody}, stored : BOOLEAN]
\* With the password of the row when it was stored.
Token    == [id : 1 .. MaxTokens, password : 0 .. MaxPassword]
NoToken  == [id |-> 0, password |-> 0]
Idle     == [at |-> "idle"]
Job      == {Idle} \cup [at : {"refresh"}, token : Token]
                   \cup [at : {"store"}, old : Token \cup {NoToken}]
                   \cup [at : {"revoke"}]

TypeOK ==
    /\ user \in UserRow
    /\ reset \in BOOLEAN
    /\ signed \in [Action -> 0 .. SignedAge]
    /\ otp \in [Kind -> Code]
    /\ live \in SUBSET Token /\ current \in Token \cup {NoToken}
    /\ count \in 0 .. MaxTokens /\ job \in [Proc -> Job]
    /\ sent \in [Kind -> 0 .. Cooldown] /\ lost \in SUBSET Kind
    /\ hasty \in BOOLEAN /\ tries \in Nat /\ uses \in Nat
    /\ raced \in BOOLEAN /\ owed \in BOOLEAN

Init ==
    /\ \E e \in Email :
           user = [exists |-> FALSE, email |-> e, password |-> 0, verified |-> FALSE,
                   link |-> FALSE, twofa |-> FALSE, phone |-> FALSE, initiated |-> FALSE]
    /\ reset = FALSE
    /\ signed = [a \in Action |-> SignedAge]
    /\ otp = [k \in Kind |-> NoCode]
    /\ live = {} /\ current = NoToken /\ count = 0
    /\ job = [p \in Proc |-> Idle] /\ raced = FALSE /\ owed = FALSE
    /\ sent = [k \in Kind |-> Cooldown] /\ lost = {} /\ hasty = FALSE
    /\ tries = 0 /\ uses = 0

-----------------------------------------------------------------------------
(* Codes.                                                                  *)

Expired(k) == otp[k].age >= Validity

Locked(k) == otp[k].attempts >= MaxAttempts

\* Fault: the key that is deleted is not the one it was stored under.
Deleted_Kept(k) == otp

\* _delete_otp_data
Deleted(k) == [otp EXCEPT ![k] = NoCode]

\* A new code is stored under k, over the one before, and goes out; or the
\* message fails, the key is deleted, and with it what the cooldown of a code
\* that came before is measured by.
\* Bound: codes of one kind at a time.
SendCode(k, to, force) ==
    /\ \A q \in Kind \ {k} : ~otp[q].stored
    /\ \/ /\ otp' = [otp EXCEPT ![k] = [age |-> 0, attempts |-> 0, to |-> to, stored |-> TRUE]]
          /\ sent' = [sent EXCEPT ![k] = 0]
          /\ hasty' = (hasty \/ (~force /\ k \notin lost /\ sent[k] < Cooldown))
          /\ lost' = lost \ {k}
          /\ tries' = 0 /\ uses' = 0
       \/ /\ otp' = Deleted(k)
          /\ lost' = IF sent[k] < Cooldown THEN lost \cup {k} ELSE lost
          /\ UNCHANGED <<sent, hasty, tries, uses>>

\* Fault: the time of the last message is not looked at.
MayResend_NoCooldown(k) == ~otp[k].stored \/ ~Locked(k) \/ Expired(k)

\* What keeps a code from being sent again; a reset code is never locked.
MayResend(k) ==
    \/ ~otp[k].stored
    \/ k # "reset" /\ Locked(k) /\ Expired(k)
    \/ (k = "reset" \/ ~Locked(k)) /\ otp[k].age >= Cooldown

\* Fault: the record is written back as new.
Increment_Anew(k) == [otp EXCEPT ![k].attempts = 1]

\* _increment_attempt
Increment(k) == [otp EXCEPT ![k].attempts = @ + 1]

\* The outcomes of comparing an entry with the code: it is let through and the
\* key is left to the caller, it is wrong, or it is not compared.
Right(k) ==
    /\ otp[k].stored /\ ~Expired(k) /\ ~Locked(k)
    /\ uses' = uses + 1
    /\ sent' = [sent EXCEPT ![k] = Cooldown] /\ lost' = lost \ {k}
    /\ UNCHANGED <<hasty, tries>>

Wrong(k) ==
    /\ otp[k].stored /\ ~Expired(k) /\ ~Locked(k)
    /\ otp' = Increment(k)
    /\ tries' = tries + 1
    /\ UNCHANGED <<sent, lost, hasty, uses>>

NotCompared(k) ==
    /\ otp[k].stored /\ Expired(k)
    /\ otp' = Deleted(k)
    /\ UNCHANGED seen

-----------------------------------------------------------------------------
(* Tokens.                                                                 *)

Storing  == {p \in Proc : job[p].at = "store"}

\* Bound: of the pairs of tokens.
MayStore == count + Cardinality(Storing) < MaxTokens

\* store_tokens: the old pair is read.
ReadOld(p) ==
    /\ job[p] = Idle /\ MayStore
    /\ job' = [job EXCEPT ![p] = [at |-> "store", old |-> current]]

\* Fault: the refresh token of the old pair is left.
StoreTokens_KeepsOld(p) ==
    /\ job[p].at = "store"
    /\ LET new == [id |-> count + 1, password |-> user.password]
       IN  live' = live \cup {new} /\ current' = new
    /\ count' = count + 1
    /\ raced' = (raced \/ current \notin {job[p].old, NoToken})
    /\ job' = [job EXCEPT ![p] = Idle]
    /\ UNCHANGED <<user, reset, signed, otp, owed, seen>>

\* The old pair is deleted and the new one is stored.
StoreTokens(p) ==
    /\ job[p].at = "store"
    /\ LET new == [id |-> count + 1, password |-> user.password]
       IN  live' = (live \ {job[p].old}) \cup {new} /\ current' = new
    /\ count' = count + 1
    /\ raced' = (raced \/ current \notin {job[p].old, NoToken})
    /\ job' = [job EXCEPT ![p] = Idle]
    /\ UNCHANGED <<user, reset, signed, otp, owed, seen>>

\* Fault: only the key of the pair is deleted.
Invalidated_KeyOnly == live

\* invalidate_user_tokens
Invalidated == live \ {current}

InvalidateUserTokens == live' = Invalidated /\ current' = NoToken

\* blacklist_token
Blacklist(t) ==
    /\ live' = live \ {t}
    /\ current' = IF t \in live /\ current = t THEN NoToken ELSE current

\* CustomTokenRefreshView: the token is in Redis;
Refresh(p) ==
    /\ job[p] = Idle
    /\ \E t \in live : job' = [job EXCEPT ![p] = [at |-> "refresh", token |-> t]]
    /\ UNCHANGED <<user, reset, signed, otp, live, current, count, raced, owed, seen>>

\* it is blacklisted, and a new pair will be stored.
Rotate(p) ==
    /\ job[p].at = "refresh"
    /\ Blacklist(job[p].token)
    /\ MayStore
    /\ job' = [job EXCEPT ![p] = [at |-> "store", old |-> current']]
    /\ UNCHANGED <<user, reset, signed, otp, count, raced, owed, seen>>

\* The worker dies, or Redis does not answer it.
Die(p) ==
    /\ job[p] # Idle
    /\ job' = [job EXCEPT ![p] = Idle]
    /\ UNCHANGED <<user, reset, signed, otp, live, current, count, raced, owed, seen>>

Logout ==
    /\ \E t \in live : Blacklist(t)
    /\ UNCHANGED <<user, reset, signed, otp, count, job, raced, owed, seen>>

\* With logout_all; the cookie may be gone.
LogoutAll ==
    /\ count > 0
    /\ \E t \in live \cup {NoToken} :
           live' = Invalidated \ {t} /\ current' = NoToken
    /\ UNCHANGED <<user, reset, signed, otp, count, job, raced, owed, seen>>

-----------------------------------------------------------------------------
(* Signing up and in.                                                      *)

Signup(phone) ==
    /\ ~user.exists
    /\ user' = [user EXCEPT !.exists = TRUE, !.link = TRUE, !.phone = phone]
    /\ UNCHANGED <<reset, signed, otp, store, seen>>

\* The link in the mail.
VerifyEmail ==
    /\ user.link /\ ~user.verified
    /\ user' = [user EXCEPT !.verified = TRUE, !.link = FALSE]
    /\ UNCHANGED <<reset, signed, otp, store, seen>>

\* send_sms_otp for a user who has initiated it.
SendSms(force) == user'.phone /\ SendCode("sms", Nobody, force)

\* The right password before the address is verified: another link is mailed.
LoginUnverified ==
    /\ user.exists /\ ~user.verified
    /\ user' = [user EXCEPT !.link = TRUE]
    /\ UNCHANGED <<reset, signed, otp, store, seen>>

\* The rest of a login, with a password or by Google: a code is sent when
\* two-factor authentication is on; has_initiate_login stays if it is not sent.
LogIn(p, u) ==
    \/ /\ u.twofa
       /\ user' = [u EXCEPT !.initiated = TRUE]
       /\ SendSms(TRUE)
       /\ signed' = IF otp'["sms"].stored THEN [signed EXCEPT !["login"] = 0] ELSE signed
       /\ UNCHANGED <<reset, store>>
    \/ /\ ~u.twofa
       /\ user' = u
       /\ ReadOld(p)
       /\ UNCHANGED <<reset, signed, otp, live, current, count, raced, owed, seen>>

Login(p) == user.exists /\ user.verified /\ LogIn(p, user)

\* Google has verified the address, and makes the account if there is none.
GoogleLogin(p) == LogIn(p, [user EXCEPT !.exists = TRUE, !.verified = TRUE])

-----------------------------------------------------------------------------
(* Two-factor authentication. Who is signed in has an access token, which  *)
(* no logout ends.                                                         *)

SignedIn == count > 0

UpdatePhone ==
    /\ SignedIn
    /\ user' = [user EXCEPT !.phone = TRUE]
    /\ UNCHANGED <<reset, signed, otp, store, seen>>

\* Turning it on sends a code, to the number given or the one of the row.
Enable2FA ==
    /\ SignedIn
    /\ user' = [user EXCEPT !.phone = TRUE, !.initiated = TRUE]
    /\ SendSms(TRUE)
    /\ signed' = IF otp'["sms"].stored THEN [signed EXCEPT !["setup"] = 0] ELSE signed
    /\ UNCHANGED <<reset, store>>

Disable2FA ==
    /\ SignedIn
    /\ user' = [user EXCEPT !.twofa = FALSE]
    /\ UNCHANGED <<reset, signed, otp, store, seen>>

\* A code is entered with the signed token of action a.
MayVerify(a) == signed[a] < SignedAge /\ user.initiated

VerifyOTP(p, a) ==
    /\ MayVerify(a) /\ Right("sms") /\ otp' = Deleted("sms")
    /\ user' = [user EXCEPT !.initiated = FALSE, !.twofa = @ \/ a = "setup"]
    /\ IF a = "login" THEN ReadOld(p) ELSE UNCHANGED job
    /\ UNCHANGED <<reset, signed, live, current, count, raced, owed>>

RefuseOTP(a) ==
    /\ MayVerify(a) /\ (Wrong("sms") \/ NotCompared("sms"))
    /\ UNCHANGED <<user, reset, signed, store>>

\* The signed token serves for 300 seconds here and for 900 there.
ResendOTP(a) ==
    /\ signed[a] < ResendAge
    /\ user.initiated /\ (a = "login" => user.twofa)
    /\ MayResend("sms")
    /\ UNCHANGED user
    /\ SendSms(FALSE)
    /\ UNCHANGED <<reset, signed, store>>

-----------------------------------------------------------------------------
(* Changing the address.                                                   *)

ChangeEmailRequest(e) ==
    /\ SignedIn /\ e # user.email
    /\ SendCode("email", e, TRUE)
    /\ UNCHANGED <<user, reset, signed, store>>

ResendEmailChange ==
    /\ SignedIn /\ otp["email"].stored /\ MayResend("email")
    /\ SendCode("email", otp["email"].to, FALSE)
    /\ UNCHANGED <<user, reset, signed, store>>

VerifyEmailChange ==
    /\ SignedIn
    /\ \/ /\ Right("email") /\ otp' = Deleted("email")
          /\ user' = [user EXCEPT !.email = otp["email"].to]
       \/ (Wrong("email") \/ NotCompared("email")) /\ UNCHANGED user
    /\ UNCHANGED <<reset, signed, store>>

-----------------------------------------------------------------------------
(* The password.                                                           *)

\* It is saved, and the tokens are still to be invalidated:
SetPassword(p) ==
    /\ user.password < MaxPassword /\ job[p] = Idle
    /\ user' = [user EXCEPT !.password = @ + 1]
    /\ job' = [job EXCEPT ![p] = [at |-> "revoke"]] /\ owed' = TRUE
    /\ UNCHANGED <<live, current, count, raced>>

Revoke(p) ==
    /\ job[p].at = "revoke"
    /\ InvalidateUserTokens /\ owed' = FALSE
    /\ job' = [job EXCEPT ![p] = Idle]
    /\ UNCHANGED <<user, reset, signed, otp, count, raced, seen>>

ChangePassword(p) ==
    /\ SignedIn /\ SetPassword(p)
    /\ UNCHANGED <<reset, signed, otp, seen>>

\* By mail: the row of the reset is made, or written anew.
ForgotByEmail ==
    /\ user.exists /\ ~reset /\ reset' = TRUE
    /\ UNCHANGED <<user, signed, otp, store, seen>>

ForgotByPhone ==
    /\ user.exists /\ user.phone
    /\ SendCode("reset", Nobody, TRUE)
    /\ UNCHANGED <<user, reset, signed, store>>

ResendPasswordReset ==
    /\ user.phone /\ MayResend("reset")
    /\ SendCode("reset", Nobody, FALSE)
    /\ UNCHANGED <<user, reset, signed, store>>

\* The link is used up whether or not the new password is good enough.
ResetByLink(p) ==
    /\ reset /\ reset' = FALSE
    /\ SetPassword(p) \/ UNCHANGED <<user, store>>
    /\ UNCHANGED <<signed, otp, seen>>

\* The code is deleted when the password was good enough.
ResetByCode(p) ==
    /\ Right("reset") /\ otp' = Deleted("reset") /\ SetPassword(p)
    /\ UNCHANGED <<reset, signed>>

RefuseReset ==
    /\ Wrong("reset") \/ NotCompared("reset")
    /\ UNCHANGED <<user, reset, signed, store>>

-----------------------------------------------------------------------------
(* Time.                                                                   *)

Older(age, max) == IF age < max THEN age + 1 ELSE max

Tick ==
    /\ otp' = [k \in Kind |-> [otp[k] EXCEPT !.age = IF otp[k].stored
                                                     THEN Older(@, Validity) ELSE 0]]
    /\ signed' = [a \in Action |-> Older(signed[a], SignedAge)]
    /\ sent' = [k \in Kind |-> Older(sent[k], Cooldown)]
    /\ lost' = {k \in lost : sent'[k] < Cooldown}
    /\ UNCHANGED <<user, reset, store, hasty, tries, uses>>

\* A key that Redis removes, or a view of the codes' status.
Expire(k) ==
    /\ otp[k].stored /\ Expired(k) /\ otp' = Deleted(k)
    /\ UNCHANGED <<user, reset, signed, store, seen>>

\* Links last for hours.
LinkExpires ==
    /\ \/ user.link /\ user' = [user EXCEPT !.link = FALSE] /\ UNCHANGED reset
       \/ reset /\ reset' = FALSE /\ UNCHANGED user
    /\ UNCHANGED <<signed, otp, store, seen>>

-----------------------------------------------------------------------------

WorkerStep(p) ==
    \/ Refresh(p) \/ Rotate(p) \/ StoreTokens(p)
    \/ Login(p) \/ GoogleLogin(p)
    \/ ChangePassword(p) \/ ResetByLink(p) \/ ResetByCode(p) \/ Revoke(p)
    \/ Die(p)
    \/ \E a \in Action : VerifyOTP(p, a)

RequestStep ==
    \/ \E phone \in BOOLEAN : Signup(phone)
    \/ VerifyEmail \/ LoginUnverified \/ Logout \/ LogoutAll
    \/ UpdatePhone \/ Enable2FA \/ Disable2FA
    \/ \E a \in Action : RefuseOTP(a) \/ ResendOTP(a)
    \/ \E e \in Email : ChangeEmailRequest(e)
    \/ ResendEmailChange \/ VerifyEmailChange
    \/ ForgotByEmail \/ ForgotByPhone \/ ResendPasswordReset \/ RefuseReset

Next ==
    \/ \E p \in Proc : WorkerStep(p)
    \/ RequestStep
    \/ Tick \/ LinkExpires \/ \E k \in Kind : Expire(k)

Spec == Init /\ [][Next]_vars

-----------------------------------------------------------------------------
(* Properties.                                                             *)

\* A code lets one request through, whatever it was sent for.
CodeWorksOnce == uses <= 1

\* No code survives more wrong entries than DEFAULT_MAX_ATTEMPTS, as every one
\* is counted until the code expires or another is sent.
TriesAreCounted == tries <= MaxAttempts

\* A code that is asked for again is not sent within the cooldown of one that
\* came and was not used, though what the cooldown is measured by is rewritten
\* with every wrong entry and is gone when the code expires. Not so when a
\* message failed since that code came: the code that failed was stored over it
\* and is deleted, so that nothing holds the next one back.
CooldownIsKept == ~hasty

\* As long as a code is stored the account expects it: no other request has
\* taken back has_initiate_login.
CodeIsExpected == otp["sms"].stored => user.initiated

\* Unless a request stored its pair over one that another stored since it read
\* the old pair, the only refresh token that is accepted is that of the pair the
\* user was given last, which is the one that a logout from all devices finds.
LiveTokenIsKnown == ~raced => live \subseteq {current}

\* Under the same condition, a change of the password that has come to its end
\* leaves no refresh token that was stored before the password was saved, even
\* when one before it did not get to the tokens. A request let in under the old
\* password that stores its pair afterwards is not stopped by this, and its token
\* stays: the claim is about the tokens that are there when the password changes.
PasswordChangeRevokes ==
    ~raced /\ ~owed => \A t \in live : t.password = user.password
=============================================================================
