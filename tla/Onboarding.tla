----------------------------- MODULE Onboarding -----------------------------
(***************************************************************************)
(* How one user becomes a vendor: the sessions of the profile wizard, what *)
(* completing one creates (the vendor's profile, the legal information and *)
(* the lawyer's profile), and the lawyer's identity check at Stripe, whose *)
(* result is kept in two rows.                                             *)
(*                                                                         *)
(* Nothing but StartProfileCompletionView locks a row or opens a           *)
(* transaction, so every save of a view is a step. A save writes all the   *)
(* fields that were read, unless update_fields names some. A request may   *)
(* end after any of its saves (Fail): refused by a constraint or by        *)
(* Stripe, or with its worker.                                             *)
(***************************************************************************)
CONSTANTS
    Session,
    Category,    \* besides the lawyers'
    Required,    \* the steps CompleteProfileView asks for, besides the category
    Proc         \* web workers

ASSUME CategoryAssumption == "Lawyer" \notin Category /\ "none" \notin Category

VARIABLES
    row,         \* the rows of ProfileCompletionSession
    expired,     \* whose expires_at has passed
    reopened,    \* a step saved a session that had been completed meanwhile
    profile,     \* the category of the VendorProfile, "none" without one
    legal,       \* whether VendorLegalInfo exists
    lawyer,      \* LawyerProfile.kyc_verification_status, "none" without one
    kyc,         \* KYCVerification.status, "none" without one
    identity,    \* the status of the verification session at Stripe
    mail,        \* the events Stripe delivers until it gets an answer
    disturbed,   \* since the last event began to be handled, something else
                 \* wrote the lawyer's status
    vouched,     \* an admin has verified the lawyer
    job          \* what each worker has read

wizard == <<row, expired, reopened>>
vendor == <<profile, legal>>
check  == <<lawyer, kyc, identity, mail, disturbed, vouched>>
vars   == <<wizard, vendor, check, job>>

Profession == Category \cup {"Lawyer"}

Row == [state : {"absent", "open", "completed", "deleted"},
        category : Profession \cup {"none"}, filled : SUBSET Required, legal : BOOLEAN]

KycStatus    == {"requires_input", "processing", "verified", "canceled"}
LawyerStatus == {"unverified", "pending", "verified", "rejected"}

Idle == [at |-> "idle"]
Completing == {"vendor", "profile", "fill", "legal", "lawyer", "finish"}
Job  == {Idle}
        \cup [at : {"step"}, session : Session, row : Row]
        \cup [at : Completing, session : Session, row : Row, old : Profession \cup {"none"}]
        \cup [at : {"start"}]
        \cup [at : {"result"}, status : KycStatus]
        \cup [at : {"edit"}, status : LawyerStatus]

TypeOK ==
    /\ row \in [Session -> Row] /\ expired \in [Session -> BOOLEAN]
    /\ reopened \in BOOLEAN
    /\ profile \in Profession \cup {"none"} /\ legal \in BOOLEAN
    /\ lawyer \in LawyerStatus \cup {"none"}
    /\ kyc \in KycStatus \cup {"none"} /\ identity \in KycStatus \cup {"none"}
    /\ mail \in SUBSET KycStatus
    /\ disturbed \in BOOLEAN /\ vouched \in BOOLEAN
    /\ job \in [Proc -> Job]

Init ==
    /\ row = [s \in Session |-> [state |-> "absent", category |-> "none",
                                 filled |-> {}, legal |-> FALSE]]
    /\ expired = [s \in Session |-> FALSE] /\ reopened = FALSE
    /\ profile = "none" /\ legal = FALSE /\ lawyer = "none"
    /\ kyc = "none" /\ identity = "none" /\ mail = {}
    /\ disturbed = FALSE /\ vouched = FALSE
    /\ job = [p \in Proc |-> Idle]

Begin(p, j) == job[p] = Idle /\ job' = [job EXCEPT ![p] = j]
Goto(p, at) == job' = [job EXCEPT ![p].at = at]
Finish(p)   == job' = [job EXCEPT ![p] = Idle]

-----------------------------------------------------------------------------
(* The wizard.                                                             *)

\* What every view of the wizard looks a session up by.
Open(s) == row[s].state = "open" /\ ~expired[s]

\* Fault: the user's other sessions are not looked at.
Start_Again(s) ==
    /\ row[s].state = "absent"
    /\ row' = [row EXCEPT ![s].state = "open"]
    /\ UNCHANGED <<expired, reopened, vendor, check, job>>

\* Under a lock on the user: an open session is returned, or one is inserted.
Start(s) ==
    /\ row[s].state = "absent" /\ \A t \in Session : ~Open(t)
    /\ row' = [row EXCEPT ![s].state = "open"]
    /\ UNCHANGED <<expired, reopened, vendor, check, job>>

\* A step reads the session,
ReadStep(p, s) ==
    /\ Open(s)
    /\ Begin(p, [at |-> "step", session |-> s, row |-> row[s]])
    /\ UNCHANGED <<wizard, vendor, check>>

\* and the row is saved as it was read, with what the step is about: the
\* category, a required field, legal information, or fields of no consequence.
Filled(r) ==
    {[r EXCEPT !.category = c] : c \in Profession}
    \cup {[r EXCEPT !.filled = @ \cup {f}] : f \in Required}
    \cup {[r EXCEPT !.legal = @ \/ r.category = "Lawyer"], r}

SaveStep(p) ==
    LET s == job[p].session
    IN  /\ job[p].at = "step" /\ Finish(p)
        /\ \E r \in Filled(job[p].row) : row' = [row EXCEPT ![s] = r]
        /\ reopened' = (reopened \/ row[s].state = "completed")
        /\ UNCHANGED <<expired, vendor, check>>

Expire(s) ==
    /\ row[s].state # "absent" /\ ~expired[s]
    /\ expired' = [expired EXCEPT ![s] = TRUE]
    /\ UNCHANGED <<row, reopened, vendor, check, job>>

\* The management command.
Cleanup ==
    /\ \E s \in Session : row[s].state = "open" /\ expired[s]
    /\ row' = [s \in Session |-> IF row[s].state = "open" /\ expired[s]
                                 THEN [row[s] EXCEPT !.state = "deleted"] ELSE row[s]]
    /\ UNCHANGED <<expired, reopened, vendor, check, job>>

-----------------------------------------------------------------------------
(* Completion.                                                             *)

\* The session is read, and the user is made a vendor;
Complete(p, s) ==
    /\ Open(s) /\ row[s].category # "none" /\ Required \subseteq row[s].filled
    /\ Begin(p, [at |-> "vendor", session |-> s, row |-> row[s], old |-> "none"])
    /\ UNCHANGED <<wizard, vendor, check>>

\* the vendor's profile is looked for.
ReadProfile(p) ==
    /\ job[p].at = "vendor"
    /\ job' = [job EXCEPT ![p].at = "profile", ![p].old = profile]
    /\ UNCHANGED <<wizard, vendor, check>>

\* An old one gives up its address: it is saved, as it was read,
DetachAddress(p) ==
    /\ job[p].at = "profile" /\ job[p].old # "none" /\ Goto(p, "fill")
    /\ profile' = job[p].old
    /\ UNCHANGED <<wizard, legal, check>>

\* and saved again with the data of the session.
FillProfile(p) ==
    /\ job[p].at = "fill" /\ Goto(p, "legal")
    /\ profile' = job[p].row.category
    /\ UNCHANGED <<wizard, legal, check>>

\* A user has one profile: inserting another one fails.
CreateProfile(p) ==
    /\ job[p].at = "profile" /\ job[p].old = "none" /\ profile = "none"
    /\ Goto(p, "legal")
    /\ profile' = job[p].row.category
    /\ UNCHANGED <<wizard, legal, check>>

SaveLegalInfo(p) ==
    /\ job[p].at = "legal" /\ Goto(p, "lawyer")
    /\ legal' = (legal \/ (job[p].row.category = "Lawyer" /\ job[p].row.legal))
    /\ UNCHANGED <<wizard, profile, check>>

\* Fault: only who had no profile before becomes a lawyer.
CreateLawyer_OnlyNew(p) ==
    /\ job[p].at = "lawyer" /\ Goto(p, "finish")
    /\ lawyer' = IF job[p].row.category = "Lawyer" /\ job[p].old = "none" /\ lawyer = "none"
                 THEN "unverified" ELSE lawyer
    /\ UNCHANGED <<wizard, vendor, kyc, identity, mail, disturbed, vouched>>

\* The lawyer's profile is found or inserted.
CreateLawyer(p) ==
    /\ job[p].at = "lawyer" /\ Goto(p, "finish")
    /\ lawyer' = IF job[p].row.category = "Lawyer" /\ lawyer = "none"
                 THEN "unverified" ELSE lawyer
    /\ UNCHANGED <<wizard, vendor, kyc, identity, mail, disturbed, vouched>>

CloseSession(p) ==
    /\ job[p].at = "finish" /\ Finish(p)
    /\ row' = [row EXCEPT ![job[p].session] = [job[p].row EXCEPT !.state = "completed"]]
    /\ UNCHANGED <<expired, reopened, vendor, check>>

-----------------------------------------------------------------------------
(* The identity check.                                                     *)

\* Fault: what Stripe still processes counts as verified.
Mapped_Early(s) ==
    CASE s \in {"verified", "processing"} -> "verified"
      [] s = "canceled"       -> "rejected"
      [] s = "requires_input" -> "unverified"

\* The lawyer's status for a status of the check.
Mapped(s) ==
    CASE s = "verified"       -> "verified"
      [] s = "processing"     -> "pending"
      [] s = "canceled"       -> "rejected"
      [] s = "requires_input" -> "unverified"

\* KYCVerificationView.post: a lawyer has one check, whatever became of it.
ReadKyc(p) ==
    /\ profile = "Lawyer" /\ lawyer # "none" /\ kyc = "none"
    /\ Begin(p, [at |-> "start"])
    /\ UNCHANGED <<wizard, vendor, check>>

\* Stripe opens a session and its row is inserted, if there still is none.
InsertKyc(p) ==
    /\ job[p].at = "start" /\ kyc = "none" /\ Finish(p)
    /\ kyc' = "requires_input" /\ identity' = "requires_input"
    /\ UNCHANGED <<wizard, vendor, lawyer, mail, disturbed, vouched>>

\* Stripe: what follows a status, which is reported.
Follows(s) ==
    CASE s = "requires_input" -> {"processing", "canceled"}
      [] s = "processing"     -> {"verified", "requires_input"}
      [] OTHER                -> {}

IdentityChange ==
    \E s \in Follows(identity) :
        /\ identity' = s /\ mail' = mail \cup {s}
        /\ UNCHANGED <<wizard, vendor, lawyer, kyc, disturbed, vouched, job>>

\* Fault: the event is answered before it is handled.
HandleKyc_Answered(p, s) ==
    /\ s \in mail /\ kyc # "none"
    /\ Begin(p, [at |-> "result", status |-> s])
    /\ lawyer' = Mapped(s)
    /\ disturbed' = (\E q \in Proc : job[q].at = "result" /\ job[q].status # s)
    /\ mail' = mail \ {s}
    /\ UNCHANGED <<wizard, vendor, kyc, identity, vouched>>

\* A webhook, of any age: update_from_stripe_data saves the lawyer's status,
HandleKyc(p, s) ==
    /\ s \in mail /\ kyc # "none"
    /\ Begin(p, [at |-> "result", status |-> s])
    /\ lawyer' = Mapped(s)
    /\ disturbed' = (\E q \in Proc : job[q].at = "result" /\ job[q].status # s)
    /\ UNCHANGED <<wizard, vendor, kyc, identity, mail, vouched>>

\* then the check is saved. Stripe may miss the answer.
SaveKyc(p) ==
    /\ job[p].at = "result" /\ Finish(p)
    /\ kyc' = job[p].status
    /\ mail' \in {mail, mail \ {job[p].status}}
    /\ UNCHANGED <<wizard, vendor, lawyer, identity, disturbed, vouched>>

\* The admin's actions verify_profiles, reject_profiles and set_pending.
AdminSets(status) ==
    /\ lawyer # "none" /\ status # "unverified"
    /\ lawyer' = status
    /\ vouched' = (vouched \/ status = "verified")
    /\ disturbed' = TRUE
    /\ UNCHANGED <<wizard, vendor, kyc, identity, mail, job>>

\* The lawyer edits the profile, of which every field is saved as it was read.
ReadLawyer(p) ==
    /\ lawyer # "none"
    /\ Begin(p, [at |-> "edit", status |-> lawyer])
    /\ UNCHANGED <<wizard, vendor, check>>

SaveLawyer(p) ==
    /\ job[p].at = "edit" /\ Finish(p)
    /\ lawyer' = job[p].status
    /\ disturbed' = (disturbed \/ lawyer # job[p].status)
    /\ UNCHANGED <<wizard, vendor, kyc, identity, mail, vouched>>

Fail(p) ==
    /\ job[p] # Idle /\ Finish(p)
    /\ UNCHANGED <<wizard, vendor, check>>

-----------------------------------------------------------------------------

WizardStep(p) ==
    \/ \E s \in Session : ReadStep(p, s) \/ Complete(p, s)
    \/ SaveStep(p)
    \/ ReadProfile(p) \/ DetachAddress(p) \/ FillProfile(p) \/ CreateProfile(p)
    \/ SaveLegalInfo(p) \/ CreateLawyer(p) \/ CloseSession(p)

CheckStep(p) ==
    \/ ReadKyc(p) \/ InsertKyc(p)
    \/ \E s \in KycStatus : HandleKyc(p, s)
    \/ SaveKyc(p) \/ ReadLawyer(p) \/ SaveLawyer(p)

Next ==
    \/ \E p \in Proc : WizardStep(p) \/ CheckStep(p) \/ Fail(p)
    \/ \E s \in Session : Start(s) \/ Expire(s)
    \/ Cleanup \/ IdentityChange
    \/ \E status \in LawyerStatus : AdminSets(status)

Spec == Init /\ [][Next]_vars

-----------------------------------------------------------------------------
(* Properties.                                                             *)

\* However completions overlap, repeat or end halfway, what a completed session
\* stands for exists: the profile, and for a lawyer the lawyer's profile and
\* the legal information that was entered.
CompletedHasProfile ==
    \A s \in Session :
        row[s].state = "completed" =>
            /\ profile # "none"
            /\ row[s].category = "Lawyer" => lawyer # "none" /\ (row[s].legal => legal)

\* A user has one open session, until a step that was read before a completion
\* is saved after it.
OneOpenSession ==
    ~reopened => \A s, t \in Session : Open(s) /\ Open(t) => s = t

\* When every event was handled, in whatever order, as often as it came and
\* through workers that died between the two saves, the two rows agree; what
\* else writes the lawyer's status is put right by the next event.
KycAgrees ==
    kyc # "none" /\ mail = {} /\ (\A p \in Proc : job[p].at # "result") /\ ~disturbed
        => lawyer = Mapped(kyc)

\* Whatever the order of events, and whatever old copy is saved, a lawyer is
\* verified only when Stripe has verified the lawyer, or an admin has.
VerifiedByStripe ==
    /\ kyc = "verified" => identity = "verified"
    /\ lawyer = "verified" => identity = "verified" \/ vouched
=============================================================================
