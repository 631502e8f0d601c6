-------------------------- MODULE OnboardingProofs --------------------------
(***************************************************************************)
(* Onboarding, for any sessions, categories, required steps and workers.   *)
(***************************************************************************)
EXTENDS Onboarding, TLAPS

-----------------------------------------------------------------------------
(* What a worker may have read.                                            *)

StepJobs       == [at : {"step"}, session : Session, row : Row]
CompletingJobs == [at : Completing, session : Session, row : Row,
                   old : Profession \cup {"none"}]
StartJobs      == [at : {"start"}]
ResultJobs     == [at : {"result"}, status : KycStatus]
EditJobs       == [at : {"edit"}, status : LawyerStatus]

LEMMA Jobs ==
  /\ Job = {Idle} \cup StepJobs \cup CompletingJobs \cup StartJobs \cup ResultJobs \cup EditJobs
  /\ Idle.at = "idle"
  BY DEF Job, Idle, StepJobs, CompletingJobs, StartJobs, ResultJobs, EditJobs

LEMMA Fields ==
  /\ \A j \in StepJobs : j.at = "step" /\ j.session \in Session /\ j.row \in Row
  /\ \A j \in CompletingJobs : /\ j.at \in Completing /\ j.session \in Session
                               /\ j.row \in Row /\ j.old \in Profession \cup {"none"}
  /\ \A j \in StartJobs : j.at = "start"
  /\ \A j \in ResultJobs : j.at = "result" /\ j.status \in KycStatus
  /\ \A j \in EditJobs : j.at = "edit" /\ j.status \in LawyerStatus
  BY DEF StepJobs, CompletingJobs, StartJobs, ResultJobs, EditJobs

LEMMA JobAt ==
  ASSUME NEW j \in Job
  PROVE  /\ j.at \in {"idle", "step", "start", "result", "edit"} \cup Completing
         /\ j.at \in Completing \cup {"step"} => j.session \in Session /\ j.row \in Row
         /\ j.at \in Completing => j \in CompletingJobs /\ j.old \in Profession \cup {"none"}
         /\ j.at = "result" => j.status \in KycStatus
         /\ j.at = "edit" => j.status \in LawyerStatus
  BY Jobs, Fields DEF Completing

LEMMA IdleIsJob == Idle \in Job /\ Idle.at = "idle"
  BY Jobs

LEMMA StepIsJob ==
  ASSUME NEW s \in Session, NEW r \in Row
  PROVE  /\ [at |-> "step", session |-> s, row |-> r] \in Job
         /\ [at |-> "vendor", session |-> s, row |-> r, old |-> "none"] \in Job
  <1>1. [at |-> "step", session |-> s, row |-> r] \in StepJobs
    BY DEF StepJobs
  <1>2. [at |-> "vendor", session |-> s, row |-> r, old |-> "none"] \in CompletingJobs
    BY DEF CompletingJobs, Completing
  <1>. QED
    BY <1>1, <1>2, Jobs

LEMMA CheckIsJob ==
  /\ [at |-> "start"] \in Job
  /\ \A t \in KycStatus : [at |-> "result", status |-> t] \in Job
  /\ \A t \in LawyerStatus : [at |-> "edit", status |-> t] \in Job
  <1>1. /\ [at |-> "start"] \in StartJobs
        /\ \A t \in KycStatus : [at |-> "result", status |-> t] \in ResultJobs
        /\ \A t \in LawyerStatus : [at |-> "edit", status |-> t] \in EditJobs
    BY DEF StartJobs, ResultJobs, EditJobs
  <1>. QED
    BY <1>1, Jobs

\* Who begins was idle.
LEMMA BeginTypes ==
  ASSUME job \in [Proc -> Job], NEW p \in Proc, NEW j \in Job, Begin(p, j)
  PROVE  /\ job' \in [Proc -> Job] /\ job'[p] = j /\ job[p].at = "idle"
         /\ \A q \in Proc \ {p} : job'[q] = job[q]
  BY IdleIsJob DEF Begin

\* A completion goes on.
LEMMA GotoTypes ==
  ASSUME job \in [Proc -> Job], NEW p \in Proc, NEW c \in Completing,
         job[p].at \in Completing, Goto(p, c)
  PROVE  /\ job' \in [Proc -> Job]
         /\ job'[p].at = c /\ job'[p].session = job[p].session
         /\ job'[p].row = job[p].row /\ job'[p].old = job[p].old
         /\ \A q \in Proc \ {p} : job'[q] = job[q]
  <1>. DEFINE j == [job[p] EXCEPT !.at = c]
  <1>1. job[p] \in CompletingJobs
    BY JobAt
  <1>2. /\ j \in CompletingJobs
        /\ j.at = c /\ j.session = job[p].session
        /\ j.row = job[p].row /\ j.old = job[p].old
    BY <1>1 DEF CompletingJobs
  <1>3. job' = [job EXCEPT ![p] = j]
    BY DEF Goto
  <1>4. j \in Job
    BY <1>2, Jobs
  <1>. HIDE DEF j
  <1>5. job' \in [Proc -> Job] /\ job'[p] = j /\ \A q \in Proc \ {p} : job'[q] = job[q]
    BY <1>3, <1>4
  <1>. QED
    BY <1>2, <1>5

LEMMA ReadProfileTypes ==
  ASSUME job \in [Proc -> Job], NEW p \in Proc, profile \in Profession \cup {"none"},
         ReadProfile(p)
  PROVE  /\ job' \in [Proc -> Job]
         /\ job'[p].at = "profile" /\ job'[p].session = job[p].session
         /\ job'[p].row = job[p].row /\ job'[p].old = profile
         /\ \A q \in Proc \ {p} : job'[q] = job[q]
  <1>. DEFINE j == [job[p] EXCEPT !.at = "profile", !.old = profile]
  <1>1. job[p] \in CompletingJobs
    BY JobAt DEF ReadProfile, Completing
  <1>2. /\ j \in CompletingJobs
        /\ j.at = "profile" /\ j.session = job[p].session
        /\ j.row = job[p].row /\ j.old = profile
    BY <1>1 DEF CompletingJobs, Completing
  <1>3. job' = [job EXCEPT ![p] = j]
    BY DEF ReadProfile
  <1>4. j \in Job
    BY <1>2, Jobs
  <1>. HIDE DEF j
  <1>5. job' \in [Proc -> Job] /\ job'[p] = j /\ \A q \in Proc \ {p} : job'[q] = job[q]
    BY <1>3, <1>4
  <1>. QED
    BY <1>2, <1>5

LEMMA FinishTypes ==
  ASSUME job \in [Proc -> Job], NEW p \in Proc, Finish(p)
  PROVE  /\ job' \in [Proc -> Job] /\ job'[p].at = "idle"
         /\ \A q \in Proc \ {p} : job'[q] = job[q]
  BY IdleIsJob DEF Finish

-----------------------------------------------------------------------------
(* Types.                                                                  *)

LEMMA FilledTypes ==
  ASSUME NEW r \in Row, NEW f \in Filled(r)
  PROVE  f \in Row /\ f.state = r.state
  <1>1. CASE \E c \in Profession : f = [r EXCEPT !.category = c]
    BY <1>1 DEF Row
  <1>2. CASE \E g \in Required : f = [r EXCEPT !.filled = @ \cup {g}]
    BY <1>2 DEF Row
  <1>3. CASE f = [r EXCEPT !.legal = @ \/ r.category = "Lawyer"]
    <2>1. (r.legal \/ r.category = "Lawyer") \in BOOLEAN
      OBVIOUS
    <2>. QED
      BY <1>3, <2>1 DEF Row
  <1>. QED
    BY <1>1, <1>2, <1>3 DEF Filled

LEMMA InitTypes == Init => TypeOK
  <1>. SUFFICES ASSUME Init
                PROVE  TypeOK
    OBVIOUS
  <1>1. row \in [Session -> Row] /\ expired \in [Session -> BOOLEAN] /\ reopened \in BOOLEAN
    BY DEF Init, Row
  <1>2. profile \in Profession \cup {"none"} /\ legal \in BOOLEAN
    BY DEF Init
  <1>3. /\ lawyer \in LawyerStatus \cup {"none"}
        /\ kyc \in KycStatus \cup {"none"} /\ identity \in KycStatus \cup {"none"}
        /\ mail \in SUBSET KycStatus
        /\ disturbed \in BOOLEAN /\ vouched \in BOOLEAN
    BY DEF Init
  <1>4. job \in [Proc -> Job]
    BY IdleIsJob DEF Init
  <1>. QED
    BY <1>1, <1>2, <1>3, <1>4 DEF TypeOK

LEMMA MappedIsStatus == \A s \in KycStatus : Mapped(s) \in LawyerStatus
  BY DEF Mapped, KycStatus, LawyerStatus

LEMMA StepJob == TypeOK /\ [Next]_vars => job' \in [Proc -> Job]
  <1>. SUFFICES ASSUME TypeOK, [Next]_vars
                PROVE  job' \in [Proc -> Job]
    OBVIOUS
  <1>0. /\ job \in [Proc -> Job] /\ row \in [Session -> Row]
        /\ profile \in Profession \cup {"none"}
        /\ lawyer \in LawyerStatus \cup {"none"} /\ mail \in SUBSET KycStatus
    BY DEF TypeOK
  <1>1. ASSUME NEW p \in Proc, NEW s \in Session, ReadStep(p, s) \/ Complete(p, s)
        PROVE  job' \in [Proc -> Job]
    BY <1>0, <1>1, StepIsJob, BeginTypes DEF ReadStep, Complete
  <1>2. ASSUME NEW p \in Proc, ReadProfile(p)
        PROVE  job' \in [Proc -> Job]
    BY <1>0, <1>2, ReadProfileTypes
  <1>3. ASSUME NEW p \in Proc,
               \/ DetachAddress(p) \/ FillProfile(p) \/ CreateProfile(p)
               \/ SaveLegalInfo(p) \/ CreateLawyer(p)
        PROVE  job' \in [Proc -> Job]
    <2>1. PICK c \in Completing : job[p].at \in Completing /\ Goto(p, c)
      BY <1>3 DEF DetachAddress, FillProfile, CreateProfile, SaveLegalInfo, CreateLawyer,
                  Completing
    <2>. QED
      BY <1>0, <2>1, GotoTypes
  <1>4. ASSUME NEW p \in Proc,
               \/ SaveStep(p) \/ CloseSession(p) \/ InsertKyc(p) \/ SaveKyc(p)
               \/ SaveLawyer(p) \/ Fail(p)
        PROVE  job' \in [Proc -> Job]
    <2>1. Finish(p)
      BY <1>4 DEF SaveStep, CloseSession, InsertKyc, SaveKyc, SaveLawyer, Fail
    <2>. QED
      BY <1>0, <2>1, FinishTypes
  <1>5. ASSUME NEW p \in Proc, ReadKyc(p) \/ ReadLawyer(p)
        PROVE  job' \in [Proc -> Job]
    BY <1>0, <1>5, CheckIsJob, BeginTypes DEF ReadKyc, ReadLawyer
  <1>6. ASSUME NEW p \in Proc, NEW s \in KycStatus, HandleKyc(p, s)
        PROVE  job' \in [Proc -> Job]
    BY <1>0, <1>6, CheckIsJob, BeginTypes DEF HandleKyc
  <1>7. CASE \/ \E s \in Session : Start(s) \/ Expire(s)
             \/ Cleanup \/ IdentityChange
             \/ \E status \in LawyerStatus : AdminSets(status)
             \/ UNCHANGED vars
    BY <1>0, <1>7 DEF Start, Expire, Cleanup, IdentityChange, AdminSets, vars
  <1>. QED
    BY <1>1, <1>2, <1>3, <1>4, <1>5, <1>6, <1>7 DEF Next, WizardStep, CheckStep

LEMMA StepRow == TypeOK /\ [Next]_vars =>
                   /\ row' \in [Session -> Row] /\ expired' \in [Session -> BOOLEAN]
                   /\ reopened' \in BOOLEAN
  <1>. DEFINE G == /\ row' \in [Session -> Row] /\ expired' \in [Session -> BOOLEAN]
                   /\ reopened' \in BOOLEAN
  <1>. SUFFICES ASSUME TypeOK, [Next]_vars
                PROVE  G
    OBVIOUS
  <1>0. /\ job \in [Proc -> Job] /\ row \in [Session -> Row]
        /\ expired \in [Session -> BOOLEAN] /\ reopened \in BOOLEAN
    BY DEF TypeOK
  <1>1. ASSUME UNCHANGED wizard
        PROVE  G
    BY <1>0, <1>1 DEF wizard
  <1>2. ASSUME NEW s \in Session, Start(s)
        PROVE  G
    BY <1>0, <1>2 DEF Start, Row
  <1>3. ASSUME NEW s \in Session, Expire(s)
        PROVE  G
    BY <1>0, <1>3 DEF Expire
  <1>4. CASE Cleanup
    <2>1. \A s \in Session : [row[s] EXCEPT !.state = "deleted"] \in Row
      BY <1>0 DEF Row
    <2>. QED
      BY <1>0, <1>4, <2>1 DEF Cleanup
  <1>5. ASSUME NEW p \in Proc, SaveStep(p)
        PROVE  G
    <2>1. job[p].session \in Session /\ job[p].row \in Row
      BY <1>0, <1>5, JobAt DEF SaveStep
    <2>2. PICK r \in Filled(job[p].row) : row' = [row EXCEPT ![job[p].session] = r]
      BY <1>5 DEF SaveStep
    <2>3. row' \in [Session -> Row]
      BY <1>0, <2>1, <2>2, FilledTypes
    <2>4. reopened' \in BOOLEAN
      BY <1>5 DEF SaveStep
    <2>5. expired' = expired
      BY <1>5 DEF SaveStep
    <2>. QED
      BY <1>0, <2>3, <2>4, <2>5
  <1>6. ASSUME NEW p \in Proc, CloseSession(p)
        PROVE  G
    <2>1. job[p].row \in Row
      BY <1>0, <1>6, JobAt DEF CloseSession, Completing
    <2>2. [job[p].row EXCEPT !.state = "completed"] \in Row
      BY <2>1 DEF Row
    <2>. QED
      BY <1>0, <1>6, <2>2 DEF CloseSession
  <1>7. ASSUME NEW p \in Proc, NEW s \in Session, ReadStep(p, s) \/ Complete(p, s)
        PROVE  UNCHANGED wizard
    BY <1>7 DEF ReadStep, Complete
  <1>8. ASSUME NEW p \in Proc,
               \/ ReadProfile(p) \/ DetachAddress(p) \/ FillProfile(p) \/ CreateProfile(p)
               \/ SaveLegalInfo(p) \/ CreateLawyer(p) \/ CheckStep(p) \/ Fail(p)
        PROVE  UNCHANGED wizard
    BY <1>8 DEF ReadProfile, DetachAddress, FillProfile, CreateProfile, SaveLegalInfo,
                CreateLawyer, CheckStep, ReadKyc, InsertKyc, HandleKyc, SaveKyc, ReadLawyer,
                SaveLawyer, Fail
  <1>9. CASE \/ IdentityChange \/ UNCHANGED vars
             \/ \E status \in LawyerStatus : AdminSets(status)
    BY <1>1, <1>9 DEF IdentityChange, AdminSets, vars
  <1>. HIDE DEF G
  <1>. QED
    BY <1>1, <1>2, <1>3, <1>4, <1>5, <1>6, <1>7, <1>8, <1>9 DEF Next, WizardStep

LEMMA StepVendor == TypeOK /\ [Next]_vars =>
                      profile' \in Profession \cup {"none"} /\ legal' \in BOOLEAN
  <1>. DEFINE G == profile' \in Profession \cup {"none"} /\ legal' \in BOOLEAN
  <1>. SUFFICES ASSUME TypeOK, [Next]_vars
                PROVE  G
    OBVIOUS
  <1>0. /\ job \in [Proc -> Job]
        /\ profile \in Profession \cup {"none"} /\ legal \in BOOLEAN
    BY DEF TypeOK
  <1>1. ASSUME UNCHANGED vendor
        PROVE  G
    BY <1>0, <1>1 DEF vendor
  <1>2. ASSUME NEW p \in Proc, DetachAddress(p) \/ FillProfile(p) \/ CreateProfile(p)
        PROVE  G
    <2>1. job[p].old \in Profession \cup {"none"} /\ job[p].row \in Row
      BY <1>0, <1>2, JobAt DEF DetachAddress, FillProfile, CreateProfile, Completing
    <2>2. job[p].row.category \in Profession \cup {"none"}
      BY <2>1 DEF Row
    <2>. QED
      BY <1>0, <1>2, <2>1, <2>2 DEF DetachAddress, FillProfile, CreateProfile
  <1>3. ASSUME NEW p \in Proc, SaveLegalInfo(p)
        PROVE  G
    <2>1. profile' = profile
          /\ legal' = (legal \/ (job[p].row.category = "Lawyer" /\ job[p].row.legal))
      BY <1>3 DEF SaveLegalInfo
    <2>2. (legal \/ (job[p].row.category = "Lawyer" /\ job[p].row.legal)) \in BOOLEAN
      OBVIOUS
    <2>. QED
      BY <1>0, <2>1, <2>2
  <1>4. ASSUME NEW p \in Proc, NEW s \in Session, ReadStep(p, s) \/ Complete(p, s)
        PROVE  UNCHANGED vendor
    BY <1>4 DEF ReadStep, Complete
  <1>5. ASSUME NEW p \in Proc,
               \/ SaveStep(p) \/ ReadProfile(p) \/ CreateLawyer(p) \/ CloseSession(p)
               \/ CheckStep(p) \/ Fail(p)
        PROVE  UNCHANGED vendor
    BY <1>5 DEF SaveStep, ReadProfile, CreateLawyer, CloseSession, CheckStep, ReadKyc,
                InsertKyc, HandleKyc, SaveKyc, ReadLawyer, SaveLawyer, Fail
  <1>6. CASE \/ \E s \in Session : Start(s) \/ Expire(s)
             \/ Cleanup \/ IdentityChange \/ UNCHANGED vars
             \/ \E status \in LawyerStatus : AdminSets(status)
    BY <1>1, <1>6 DEF Start, Expire, Cleanup, IdentityChange, AdminSets, vars
  <1>. HIDE DEF G
  <1>. QED
    BY <1>1, <1>2, <1>3, <1>4, <1>5, <1>6 DEF Next, WizardStep

CheckTypes ==
    /\ lawyer \in LawyerStatus \cup {"none"}
    /\ kyc \in KycStatus \cup {"none"} /\ identity \in KycStatus \cup {"none"}
    /\ mail \in SUBSET KycStatus
    /\ disturbed \in BOOLEAN /\ vouched \in BOOLEAN

LEMMA StepCheck == TypeOK /\ [Next]_vars => CheckTypes'
  <1>. SUFFICES ASSUME TypeOK, [Next]_vars
                PROVE  CheckTypes'
    OBVIOUS
  <1>0. job \in [Proc -> Job] /\ CheckTypes
    BY DEF TypeOK, CheckTypes
  <1>1. ASSUME UNCHANGED check
        PROVE  CheckTypes'
    BY <1>0, <1>1 DEF check, CheckTypes
  <1>2. ASSUME NEW p \in Proc, CreateLawyer(p)
        PROVE  CheckTypes'
    BY <1>0, <1>2 DEF CreateLawyer, CheckTypes, LawyerStatus
  <1>3. ASSUME NEW p \in Proc, InsertKyc(p)
        PROVE  CheckTypes'
    BY <1>0, <1>3 DEF InsertKyc, CheckTypes, KycStatus
  <1>4. ASSUME NEW p \in Proc, NEW s \in KycStatus, HandleKyc(p, s)
        PROVE  CheckTypes'
    BY <1>0, <1>4, MappedIsStatus DEF HandleKyc, CheckTypes
  <1>5. ASSUME NEW p \in Proc, SaveKyc(p)
        PROVE  CheckTypes'
    <2>1. job[p].status \in KycStatus
      BY <1>0, <1>5, JobAt DEF SaveKyc
    <2>. QED
      BY <1>0, <1>5, <2>1 DEF SaveKyc, CheckTypes
  <1>6. ASSUME NEW p \in Proc, SaveLawyer(p)
        PROVE  CheckTypes'
    <2>1. job[p].status \in LawyerStatus
      BY <1>0, <1>6, JobAt DEF SaveLawyer
    <2>2. disturbed' \in BOOLEAN
      BY <1>6 DEF SaveLawyer
    <2>3. lawyer' = job[p].status /\ UNCHANGED <<kyc, identity, mail, vouched>>
      BY <1>6 DEF SaveLawyer
    <2>. QED
      BY <1>0, <2>1, <2>2, <2>3 DEF CheckTypes
  <1>7. CASE IdentityChange
    BY <1>0, <1>7 DEF IdentityChange, Follows, CheckTypes, KycStatus
  <1>8. ASSUME NEW status \in LawyerStatus, AdminSets(status)
        PROVE  CheckTypes'
    <2>1. vouched' \in BOOLEAN
      BY <1>8 DEF AdminSets
    <2>2. lawyer' = status /\ disturbed' = TRUE /\ UNCHANGED <<kyc, identity, mail>>
      BY <1>8 DEF AdminSets
    <2>. QED
      BY <1>0, <2>1, <2>2 DEF CheckTypes
  <1>9. ASSUME NEW p \in Proc, NEW s \in Session, ReadStep(p, s) \/ Complete(p, s)
        PROVE  UNCHANGED check
    BY <1>9 DEF ReadStep, Complete
  <1>10. ASSUME NEW p \in Proc,
                \/ SaveStep(p) \/ ReadProfile(p) \/ DetachAddress(p) \/ FillProfile(p)
                \/ CreateProfile(p) \/ SaveLegalInfo(p) \/ CloseSession(p)
                \/ ReadKyc(p) \/ ReadLawyer(p) \/ Fail(p)
         PROVE  UNCHANGED check
    BY <1>10 DEF SaveStep, ReadProfile, DetachAddress, FillProfile, CreateProfile,
                 SaveLegalInfo, CloseSession, ReadKyc, ReadLawyer, Fail
  <1>11. CASE (\E s \in Session : Start(s) \/ Expire(s)) \/ Cleanup \/ UNCHANGED vars
    BY <1>1, <1>11 DEF Start, Expire, Cleanup, vars
  <1>. QED
    BY <1>1, <1>2, <1>3, <1>4, <1>5, <1>6, <1>7, <1>8, <1>9, <1>10, <1>11
       DEF Next, WizardStep, CheckStep

LEMMA StepTypes == TypeOK /\ [Next]_vars => TypeOK'
  BY StepJob, StepRow, StepVendor, StepCheck DEF TypeOK, CheckTypes

\* Every view, webhook and admin action stores what its field can hold.
THEOREM OnboardingTypeCorrect == Spec => []TypeOK
  BY InitTypes, StepTypes, PTL DEF Spec

-----------------------------------------------------------------------------
(* The wizard.                                                             *)

\* What a worker has done of a completion is there.
WizardJob(p) ==
    /\ job[p].at \in Completing \cup {"step"} =>
           row[job[p].session].state # "absent" /\ job[p].row.state = "open"
    /\ job[p].at \in Completing => job[p].row.category # "none"
    /\ job[p].at = "profile" /\ job[p].old # "none" => profile # "none"
    /\ job[p].at \in {"fill", "legal", "lawyer", "finish"} => profile # "none"
    /\ job[p].at \in {"lawyer", "finish"} /\ job[p].row.category = "Lawyer" =>
           (job[p].row.legal => legal)
    /\ job[p].at = "finish" /\ job[p].row.category = "Lawyer" => lawyer # "none"

SessionInv ==
    /\ \A s \in Session : row[s].state = "deleted" => expired[s]
    /\ CompletedHasProfile
    /\ OneOpenSession

WizardInv == (\A p \in Proc : WizardJob(p)) /\ SessionInv

LEMMA InitWizardInv == Init => WizardInv
  BY IdleIsJob DEF Init, WizardInv, WizardJob, SessionInv, CompletedHasProfile, OneOpenSession,
                   Open, Completing

\* Nothing that is there goes away.
Kept ==
    /\ profile # "none" => profile' # "none"
    /\ legal => legal'
    /\ lawyer # "none" => lawyer' # "none"
    /\ \A s \in Session : row[s].state # "absent" => row'[s].state # "absent"

LEMMA StepKept == TypeOK /\ WizardInv /\ [Next]_vars => Kept
  <1>. SUFFICES ASSUME TypeOK, WizardInv, [Next]_vars
                PROVE  Kept
    OBVIOUS
  <1>0. /\ job \in [Proc -> Job] /\ row \in [Session -> Row]
        /\ \A p \in Proc : WizardJob(p)
    BY DEF TypeOK, WizardInv
  <1>1. ASSUME UNCHANGED <<profile, legal, lawyer, row>>
        PROVE  Kept
    BY <1>1 DEF Kept
  <1>2. ASSUME NEW s \in Session, Start(s)
        PROVE  Kept
    <2>1. row'[s].state = "open" /\ \A t \in Session \ {s} : row'[t] = row[t]
      BY <1>0, <1>2 DEF Start, Row
    <2>. QED
      BY <1>2, <2>1 DEF Start, Kept, vendor, check
  <1>3. CASE Cleanup
    <2>1. \A s \in Session : [row[s] EXCEPT !.state = "deleted"].state = "deleted"
      BY <1>0 DEF Row
    <2>2. \A s \in Session : row'[s] = row[s] \/ row'[s].state = "deleted"
      BY <1>3, <2>1 DEF Cleanup
    <2>. QED
      BY <1>3, <2>2 DEF Cleanup, Kept, vendor, check
  <1>4. ASSUME NEW p \in Proc, SaveStep(p)
        PROVE  Kept
    <2>1. job[p].session \in Session /\ job[p].row \in Row /\ job[p].row.state = "open"
      BY <1>0, <1>4, JobAt DEF SaveStep, WizardJob
    <2>2. PICK r \in Filled(job[p].row) : row' = [row EXCEPT ![job[p].session] = r]
      BY <1>4 DEF SaveStep
    <2>3. r.state = "open"
      BY <2>1, FilledTypes
    <2>4. \A s \in Session : row'[s] = row[s] \/ row'[s] = r
      BY <1>0, <2>2
    <2>. QED
      BY <1>4, <2>3, <2>4 DEF SaveStep, Kept, vendor, check
  <1>5. ASSUME NEW p \in Proc, CloseSession(p)
        PROVE  Kept
    <2>. DEFINE r == [job[p].row EXCEPT !.state = "completed"]
    <2>1. job[p].row \in Row
      BY <1>0, <1>5, JobAt DEF CloseSession, Completing
    <2>2. r.state = "completed"
      BY <2>1 DEF Row
    <2>3. row' = [row EXCEPT ![job[p].session] = r]
      BY <1>5 DEF CloseSession
    <2>. HIDE DEF r
    <2>4. \A s \in Session : row'[s] = row[s] \/ row'[s] = r
      BY <1>0, <2>3
    <2>. QED
      BY <1>5, <2>2, <2>4 DEF CloseSession, Kept, vendor, check
  <1>6. ASSUME NEW p \in Proc, DetachAddress(p) \/ FillProfile(p) \/ CreateProfile(p)
        PROVE  Kept
    <2>1. job[p].row.category # "none"
      BY <1>0, <1>6 DEF DetachAddress, FillProfile, CreateProfile, WizardJob, Completing
    <2>. QED
      BY <1>6, <2>1 DEF DetachAddress, FillProfile, CreateProfile, Kept, wizard, check
  <1>7. ASSUME NEW p \in Proc, SaveLegalInfo(p)
        PROVE  Kept
    BY <1>7 DEF SaveLegalInfo, Kept, wizard, check
  <1>8. ASSUME NEW p \in Proc, CreateLawyer(p)
        PROVE  Kept
    BY <1>8 DEF CreateLawyer, Kept, wizard, vendor
  <1>9. ASSUME NEW p \in Proc, NEW s \in KycStatus, HandleKyc(p, s)
        PROVE  Kept
    BY <1>9, MappedIsStatus DEF HandleKyc, Kept, wizard, vendor, LawyerStatus
  <1>10. ASSUME NEW p \in Proc, SaveLawyer(p)
         PROVE  Kept
    <2>1. job[p].status \in LawyerStatus
      BY <1>0, <1>10, JobAt DEF SaveLawyer
    <2>. QED
      BY <1>10, <2>1 DEF SaveLawyer, Kept, wizard, vendor, LawyerStatus
  <1>11. CASE \E status \in LawyerStatus : AdminSets(status)
    BY <1>11 DEF AdminSets, Kept, wizard, vendor, LawyerStatus
  <1>12. CASE (\E s \in Session : Expire(s)) \/ IdentityChange \/ UNCHANGED vars
    BY <1>1, <1>12 DEF Expire, IdentityChange, vars, wizard, vendor, check
  <1>13. ASSUME NEW p \in Proc, NEW s \in Session, ReadStep(p, s) \/ Complete(p, s)
         PROVE  Kept
    BY <1>1, <1>13 DEF ReadStep, Complete, wizard, vendor, check
  <1>14. ASSUME NEW p \in Proc,
                \/ ReadProfile(p) \/ ReadKyc(p) \/ InsertKyc(p) \/ SaveKyc(p)
                \/ ReadLawyer(p) \/ Fail(p)
         PROVE  Kept
    BY <1>1, <1>14 DEF ReadProfile, ReadKyc, InsertKyc, SaveKyc, ReadLawyer, Fail,
                       wizard, vendor, check
  <1>. QED
    BY <1>2, <1>3, <1>4, <1>5, <1>6, <1>7, <1>8, <1>9, <1>10, <1>11, <1>12, <1>13, <1>14
       DEF Next, WizardStep, CheckStep

LEMMA KeptJob ==
  ASSUME TypeOK, Kept, NEW q \in Proc, WizardJob(q), job'[q] = job[q]
  PROVE  WizardJob(q)'
  <1>1. job[q].at \in Completing \cup {"step"} => job[q].session \in Session
    BY JobAt DEF TypeOK
  <1>. QED
    BY <1>1 DEF WizardJob, Kept, Completing

LEMMA StepWizardJobs ==
  TypeOK /\ WizardInv /\ [Next]_vars => \A p \in Proc : WizardJob(p)'
  <1>. SUFFICES ASSUME TypeOK, WizardInv, [Next]_vars, NEW q \in Proc
                PROVE  WizardJob(q)'
    OBVIOUS
  <1>0. /\ job \in [Proc -> Job] /\ row \in [Session -> Row]
        /\ profile \in Profession \cup {"none"}
        /\ WizardJob(q) /\ Kept
    BY StepKept DEF TypeOK, WizardInv
  <1>1. ASSUME job'[q] = job[q]
        PROVE  WizardJob(q)'
    BY <1>0, <1>1, KeptJob
  <1>2. ASSUME job'[q].at \notin Completing \cup {"step"}
        PROVE  WizardJob(q)'
    BY <1>2 DEF WizardJob, Completing
  <1>3. ASSUME NEW s \in Session, ReadStep(q, s)
        PROVE  WizardJob(q)'
    <2>1. job'[q] = [at |-> "step", session |-> s, row |-> row[s]]
      BY <1>0, <1>3, StepIsJob, BeginTypes DEF ReadStep
    <2>2. row[s].state = "open" /\ row' = row
      BY <1>3 DEF ReadStep, Open, wizard
    <2>. QED
      BY <2>1, <2>2 DEF WizardJob, Completing
  <1>4. ASSUME NEW s \in Session, Complete(q, s)
        PROVE  WizardJob(q)'
    <2>1. job'[q] = [at |-> "vendor", session |-> s, row |-> row[s], old |-> "none"]
      BY <1>0, <1>4, StepIsJob, BeginTypes DEF Complete
    <2>2. row[s].state = "open" /\ row[s].category # "none" /\ row' = row
      BY <1>4 DEF Complete, Open, wizard
    <2>. QED
      BY <2>1, <2>2 DEF WizardJob, Completing
  <1>5. CASE ReadProfile(q)
    <2>1. /\ job'[q].at = "profile" /\ job'[q].session = job[q].session
          /\ job'[q].row = job[q].row /\ job'[q].old = profile
      BY <1>0, <1>5, ReadProfileTypes
    <2>2. job[q].at = "vendor" /\ row' = row /\ profile' = profile
      BY <1>5 DEF ReadProfile, wizard, vendor
    <2>. QED
      BY <1>0, <2>1, <2>2 DEF WizardJob, Completing
  <1>6. CASE DetachAddress(q) \/ FillProfile(q) \/ CreateProfile(q)
    <2>1. PICK c \in {"fill", "legal"} : Goto(q, c)
      BY <1>6 DEF DetachAddress, FillProfile, CreateProfile
    <2>2. job[q].at \in {"profile", "fill"} /\ row' = row
      BY <1>6 DEF DetachAddress, FillProfile, CreateProfile, wizard
    <2>3. /\ job'[q].at = c /\ job'[q].session = job[q].session
          /\ job'[q].row = job[q].row
      BY <1>0, <2>1, <2>2, GotoTypes DEF Completing
    <2>4. job[q].row.category # "none"
      BY <1>0, <2>2 DEF WizardJob, Completing
    <2>5. profile' # "none"
      BY <1>6, <2>4 DEF DetachAddress, FillProfile, CreateProfile
    <2>. QED
      BY <1>0, <2>2, <2>3, <2>4, <2>5 DEF WizardJob, Completing
  <1>7. CASE SaveLegalInfo(q)
    <2>1. /\ job'[q].at = "lawyer" /\ job'[q].session = job[q].session
          /\ job'[q].row = job[q].row
      BY <1>0, <1>7, GotoTypes DEF SaveLegalInfo, Completing
    <2>2. /\ job[q].at = "legal" /\ row' = row /\ profile' = profile
          /\ legal' = (legal \/ (job[q].row.category = "Lawyer" /\ job[q].row.legal))
      BY <1>7 DEF SaveLegalInfo, wizard
    <2>. QED
      BY <1>0, <2>1, <2>2 DEF WizardJob, Completing
  <1>8. CASE CreateLawyer(q)
    <2>1. /\ job'[q].at = "finish" /\ job'[q].session = job[q].session
          /\ job'[q].row = job[q].row
      BY <1>0, <1>8, GotoTypes DEF CreateLawyer, Completing
    <2>2. /\ job[q].at = "lawyer" /\ row' = row /\ profile' = profile /\ legal' = legal
          /\ job[q].row.category = "Lawyer" => lawyer' # "none"
      BY <1>8 DEF CreateLawyer, wizard, vendor
    <2>. QED
      BY <1>0, <2>1, <2>2 DEF WizardJob, Completing
  <1>9. CASE \/ SaveStep(q) \/ CloseSession(q) \/ InsertKyc(q) \/ SaveKyc(q)
             \/ SaveLawyer(q) \/ Fail(q)
    <2>1. Finish(q)
      BY <1>9 DEF SaveStep, CloseSession, InsertKyc, SaveKyc, SaveLawyer, Fail
    <2>. QED
      BY <1>0, <1>2, <2>1, FinishTypes DEF Completing
  <1>10. CASE ReadKyc(q) \/ ReadLawyer(q) \/ \E s \in KycStatus : HandleKyc(q, s)
    <2>1. PICK j \in {[at |-> "start"], [at |-> "edit", status |-> lawyer]}
                     \cup {[at |-> "result", status |-> s] : s \in KycStatus} :
             job'[q] = j
      BY <1>0, <1>10 DEF ReadKyc, ReadLawyer, HandleKyc, Begin
    <2>. QED
      BY <1>2, <2>1 DEF Completing
  <1>11. CASE \/ \E s \in Session : Start(s) \/ Expire(s)
              \/ Cleanup \/ IdentityChange \/ UNCHANGED vars
              \/ \E status \in LawyerStatus : AdminSets(status)
    BY <1>1, <1>11 DEF Start, Expire, Cleanup, IdentityChange, AdminSets, vars
  <1>12. ASSUME NEW p \in Proc \ {q}, WizardStep(p) \/ CheckStep(p) \/ Fail(p)
         PROVE  job'[q] = job[q]
    BY <1>0, <1>12
       DEF WizardStep, CheckStep, Fail, ReadStep, SaveStep, Complete, ReadProfile,
           DetachAddress, FillProfile, CreateProfile, SaveLegalInfo, CreateLawyer,
           CloseSession, ReadKyc, InsertKyc, HandleKyc, SaveKyc, ReadLawyer, SaveLawyer,
           Begin, Goto, Finish
  <1>. QED
    BY <1>1, <1>3, <1>4, <1>5, <1>6, <1>7, <1>8, <1>9, <1>10, <1>11, <1>12
       DEF Next, WizardStep, CheckStep

LEMMA StepSessions == TypeOK /\ WizardInv /\ [Next]_vars => SessionInv'
  <1>. SUFFICES ASSUME TypeOK, WizardInv, [Next]_vars
                PROVE  SessionInv'
    OBVIOUS
  <1>0. /\ job \in [Proc -> Job] /\ row \in [Session -> Row]
        /\ expired \in [Session -> BOOLEAN] /\ reopened \in BOOLEAN
        /\ SessionInv /\ Kept
        /\ \A p \in Proc : WizardJob(p)
    BY StepKept DEF TypeOK, WizardInv
  <1>1. ASSUME \A s \in Session : row'[s] = row[s] \/ row'[s].state # "completed"
        PROVE  CompletedHasProfile'
    BY <1>0, <1>1 DEF SessionInv, CompletedHasProfile, Kept
  <1>2. ASSUME UNCHANGED wizard
        PROVE  SessionInv'
    BY <1>0, <1>1, <1>2 DEF SessionInv, OneOpenSession, Open, wizard
  <1>3. ASSUME NEW s \in Session, Start(s)
        PROVE  SessionInv'
    <2>1. /\ row'[s].state = "open" /\ \A t \in Session \ {s} : row'[t] = row[t]
          /\ expired' = expired
      BY <1>0, <1>3 DEF Start, Row
    <2>2. \A t \in Session : ~Open(t)
      BY <1>3 DEF Start
    <2>. QED
      BY <1>0, <1>1, <2>1, <2>2 DEF SessionInv, OneOpenSession, Open
  <1>4. ASSUME NEW s \in Session, Expire(s)
        PROVE  SessionInv'
    <2>1. row' = row /\ reopened' = reopened
          /\ \A t \in Session : expired[t] => expired'[t]
      BY <1>0, <1>4 DEF Expire
    <2>. QED
      BY <1>0, <1>1, <2>1 DEF SessionInv, OneOpenSession, Open
  <1>5. CASE Cleanup
    <2>1. \A s \in Session : [row[s] EXCEPT !.state = "deleted"].state = "deleted"
      BY <1>0 DEF Row
    <2>2. /\ \A s \in Session : row'[s] = row[s] \/ (row'[s].state = "deleted" /\ expired[s])
          /\ expired' = expired /\ reopened' = reopened
      BY <1>5, <2>1 DEF Cleanup
    <2>. QED
      BY <1>0, <1>1, <2>2 DEF SessionInv, OneOpenSession, Open
  <1>6. ASSUME NEW p \in Proc, SaveStep(p)
        PROVE  SessionInv'
    <2>1. PICK s \in Session : /\ s = job[p].session /\ job[p].row \in Row
                               /\ job[p].row.state = "open" /\ row[s].state # "absent"
      BY <1>0, <1>6, JobAt DEF SaveStep, WizardJob
    <2>2. PICK r \in Filled(job[p].row) : row' = [row EXCEPT ![s] = r]
      BY <1>6, <2>1 DEF SaveStep
    <2>3. r.state = "open"
      BY <2>1, FilledTypes
    <2>4. row'[s] = r /\ \A t \in Session \ {s} : row'[t] = row[t]
      BY <1>0, <2>1, <2>2
    <2>5. expired' = expired /\ reopened' = (reopened \/ row[s].state = "completed")
      BY <1>6, <2>1 DEF SaveStep
    <2>6. row[s].state \in {"open", "completed", "deleted"}
      BY <1>0, <2>1 DEF Row
    <2>7. \A t \in Session : t # s \/ row[s].state = "open" => (Open(t)' => Open(t))
      BY <2>3, <2>4, <2>5 DEF Open
    <2>8. row[s].state = "deleted" => ~Open(s)'
      BY <1>0, <2>1, <2>5 DEF SessionInv, Open
    <2>9. OneOpenSession'
      BY <1>0, <2>5, <2>6, <2>7, <2>8 DEF SessionInv, OneOpenSession
    <2>10. \A t \in Session : row'[t] = row[t] \/ row'[t].state = "open"
      BY <2>3, <2>4
    <2>11. CompletedHasProfile'
      BY <1>1, <2>10
    <2>12. \A t \in Session : row'[t].state = "deleted" => expired'[t]
      BY <1>0, <2>5, <2>10 DEF SessionInv
    <2>. QED
      BY <2>9, <2>11, <2>12 DEF SessionInv
  <1>7. ASSUME NEW p \in Proc, CloseSession(p)
        PROVE  SessionInv'
    <2>. DEFINE s == job[p].session
                r == [job[p].row EXCEPT !.state = "completed"]
    <2>1. s \in Session /\ job[p].row \in Row
      BY <1>0, <1>7, JobAt DEF CloseSession, Completing
    <2>2. /\ r.state = "completed" /\ r.category = job[p].row.category
          /\ r.legal = job[p].row.legal
      BY <2>1 DEF Row
    <2>3. row' = [row EXCEPT ![s] = r] /\ expired' = expired /\ reopened' = reopened
          /\ profile' = profile /\ legal' = legal /\ lawyer' = lawyer
      BY <1>7 DEF CloseSession, vendor, check
    <2>4. /\ profile # "none"
          /\ job[p].row.category = "Lawyer" => lawyer # "none" /\ (job[p].row.legal => legal)
      BY <1>0, <1>7 DEF CloseSession, WizardJob, Completing
    <2>. HIDE DEF s, r
    <2>5. row'[s] = r /\ \A t \in Session \ {s} : row'[t] = row[t]
      BY <1>0, <2>1, <2>3
    <2>6. CompletedHasProfile'
      BY <1>0, <2>2, <2>3, <2>4, <2>5 DEF SessionInv, CompletedHasProfile
    <2>7. OneOpenSession'
      BY <1>0, <2>2, <2>3, <2>5 DEF SessionInv, OneOpenSession, Open
    <2>. QED
      BY <1>0, <2>2, <2>3, <2>5, <2>6, <2>7 DEF SessionInv
  <1>8. ASSUME NEW p \in Proc, NEW s \in Session, ReadStep(p, s) \/ Complete(p, s)
        PROVE  UNCHANGED wizard
    BY <1>8 DEF ReadStep, Complete
  <1>9. ASSUME NEW p \in Proc,
               \/ ReadProfile(p) \/ DetachAddress(p) \/ FillProfile(p) \/ CreateProfile(p)
               \/ SaveLegalInfo(p) \/ CreateLawyer(p) \/ CheckStep(p) \/ Fail(p)
        PROVE  UNCHANGED wizard
    BY <1>9 DEF ReadProfile, DetachAddress, FillProfile, CreateProfile, SaveLegalInfo,
                CreateLawyer, CheckStep, ReadKyc, InsertKyc, HandleKyc, SaveKyc, ReadLawyer,
                SaveLawyer, Fail
  <1>10. CASE \/ IdentityChange \/ UNCHANGED vars
              \/ \E status \in LawyerStatus : AdminSets(status)
    BY <1>2, <1>10 DEF IdentityChange, AdminSets, vars
  <1>. QED
    BY <1>2, <1>3, <1>4, <1>5, <1>6, <1>7, <1>8, <1>9, <1>10 DEF Next, WizardStep

LEMMA StepWizardInv == TypeOK /\ WizardInv /\ [Next]_vars => WizardInv'
  BY StepWizardJobs, StepSessions DEF WizardInv

\* Completions may overlap, repeat and end halfway: what a completed session
\* stands for is there.
THEOREM CompletedSessionHasProfile == Spec => []CompletedHasProfile
  <1>1. WizardInv => CompletedHasProfile
    BY DEF WizardInv, SessionInv
  <1>. QED
    BY <1>1, InitTypes, StepTypes, InitWizardInv, StepWizardInv, PTL DEF Spec

\* Starting under the lock on the user leaves one open session, until a stale
\* step reopens another.
THEOREM UserHasOneOpenSession == Spec => []OneOpenSession
  <1>1. WizardInv => OneOpenSession
    BY DEF WizardInv, SessionInv
  <1>. QED
    BY <1>1, InitTypes, StepTypes, InitWizardInv, StepWizardInv, PTL DEF Spec

-----------------------------------------------------------------------------
(* The identity check.                                                     *)

Verified == identity = "verified"

\* What a worker holds of the check.
CheckJob(p) ==
    /\ job[p].at = "start" => lawyer # "none"
    /\ job[p].at = "result" => /\ kyc # "none"
                               /\ job[p].status = "verified" => Verified
    /\ job[p].at = "edit" /\ job[p].status = "verified" => Verified \/ vouched

\* Undisturbed results are all the same; the lawyer's row has it already, and
\* the check has it too or its event is still to be answered.
ResultInv(p) ==
    job[p].at = "result" /\ ~disturbed =>
        /\ lawyer = Mapped(job[p].status)
        /\ job[p].status \in mail \/ kyc = job[p].status
        /\ \A q \in Proc : job[q].at = "result" => job[q].status = job[p].status

CheckInv ==
    /\ \A p \in Proc : CheckJob(p) /\ ResultInv(p)
    /\ kyc = "none" => identity = "none"
    /\ kyc # "none" => lawyer # "none"
    /\ kyc = "none" /\ ~disturbed => lawyer \in {"none", "unverified"}
    /\ "verified" \in mail => Verified
    /\ KycAgrees
    /\ VerifiedByStripe

LEMMA InitCheckInv == Init => CheckInv
  BY IdleIsJob DEF Init, CheckInv, CheckJob, ResultInv, KycAgrees, VerifiedByStripe, Verified

InCheck == {"start", "result", "edit"}

\* A step that leaves the check alone, or only gives the lawyer a profile.
LEMMA SameCheck ==
  ASSUME TypeOK, CheckInv, UNCHANGED <<kyc, identity, mail, disturbed, vouched>>,
         lawyer' = lawyer \/ (lawyer = "none" /\ lawyer' = "unverified"),
         \A q \in Proc : \/ job'[q] = job[q]
                         \/ job[q].at # "result" /\ job'[q].at \notin InCheck
                         \/ /\ job[q].at # "result" /\ job'[q] = [at |-> "start"]
                            /\ lawyer # "none"
                         \/ /\ job[q].at # "result" /\ lawyer # "none"
                            /\ job'[q] = [at |-> "edit", status |-> lawyer]
  PROVE  CheckInv'
  <1>1. \A q \in Proc : job'[q].at = "result" \/ job[q].at = "result" => job'[q] = job[q]
    BY DEF InCheck
  <1>2. \A q \in Proc : job'[q].at = "start" => lawyer' # "none"
    BY DEF CheckInv, CheckJob, InCheck
  <1>3. \A q \in Proc :
         job'[q].at = "edit" /\ job'[q].status = "verified" => Verified \/ vouched
    BY DEF CheckInv, CheckJob, InCheck, VerifiedByStripe, Verified
  <1>4. \A q \in Proc : CheckJob(q)'
    BY <1>1, <1>2, <1>3 DEF CheckInv, CheckJob, Verified
  <1>5. kyc # "none" => lawyer' = lawyer
    BY DEF CheckInv
  <1>6. \A q \in Proc : ResultInv(q)'
    BY <1>1, <1>5 DEF CheckInv, ResultInv, CheckJob
  <1>7. KycAgrees'
    BY <1>1, <1>5 DEF CheckInv, KycAgrees
  <1>8. VerifiedByStripe'
    BY DEF CheckInv, VerifiedByStripe
  <1>. QED
    BY <1>4, <1>6, <1>7, <1>8 DEF CheckInv, Verified

LEMMA StepCheckInv == TypeOK /\ CheckInv /\ [Next]_vars => CheckInv'
  <1>. SUFFICES ASSUME TypeOK, CheckInv, [Next]_vars
                PROVE  CheckInv'
    OBVIOUS
  <1>0. job \in [Proc -> Job]
    BY DEF TypeOK
  <1>1. ASSUME UNCHANGED check, job' = job
        PROVE  CheckInv'
    BY <1>1, SameCheck DEF check
  <1>2. ASSUME NEW p \in Proc, WizardStep(p)
        PROVE  CheckInv'
    <2>1. job[p].at # "result" /\ job'[p].at \notin InCheck
          /\ \A q \in Proc \ {p} : job'[q] = job[q]
      <3>1. ASSUME NEW s \in Session, ReadStep(p, s) \/ Complete(p, s)
            PROVE  job[p].at = "idle" /\ job'[p].at \in {"step", "vendor"}
                   /\ \A q \in Proc \ {p} : job'[q] = job[q]
        BY <1>0, <3>1, IdleIsJob DEF ReadStep, Complete, Begin
      <3>2. CASE ReadProfile(p)
        BY <1>0, <3>2, ReadProfileTypes DEF ReadProfile, TypeOK, InCheck
      <3>3. CASE \/ DetachAddress(p) \/ FillProfile(p) \/ CreateProfile(p)
                 \/ SaveLegalInfo(p) \/ CreateLawyer(p)
        <4>1. PICK c \in Completing : job[p].at \in Completing /\ Goto(p, c)
          BY <3>3 DEF DetachAddress, FillProfile, CreateProfile, SaveLegalInfo, CreateLawyer,
                      Completing
        <4>. QED
          BY <1>0, <4>1, GotoTypes DEF InCheck, Completing
      <3>4. CASE SaveStep(p) \/ CloseSession(p)
        <4>1. Finish(p) /\ job[p].at \in {"step", "finish"}
          BY <3>4 DEF SaveStep, CloseSession
        <4>. QED
          BY <1>0, <4>1, FinishTypes DEF InCheck
      <3>. QED
        BY <1>2, <3>1, <3>2, <3>3, <3>4 DEF WizardStep, InCheck
    <2>2. UNCHANGED <<kyc, identity, mail, disturbed, vouched>>
          /\ (lawyer' = lawyer \/ (lawyer = "none" /\ lawyer' = "unverified"))
      BY <1>2 DEF WizardStep, ReadStep, SaveStep, Complete, ReadProfile, DetachAddress,
         FillProfile, CreateProfile, SaveLegalInfo, CreateLawyer, CloseSession, check
    <2>. QED
      BY <2>1, <2>2, SameCheck
  <1>3. ASSUME NEW p \in Proc, ReadKyc(p) \/ ReadLawyer(p)
        PROVE  CheckInv'
    <2>1. job[p].at = "idle" /\ UNCHANGED check /\ lawyer # "none"
          /\ (job'[p] = [at |-> "start"] \/ job'[p] = [at |-> "edit", status |-> lawyer])
          /\ \A q \in Proc \ {p} : job'[q] = job[q]
      BY <1>0, <1>3, IdleIsJob DEF ReadKyc, ReadLawyer, Begin
    <2>. QED
      BY <2>1, SameCheck DEF check
  <1>4. ASSUME NEW p \in Proc, InsertKyc(p)
        PROVE  CheckInv'
    <2>1. /\ job[p].at = "start" /\ job'[p].at = "idle"
          /\ \A q \in Proc \ {p} : job'[q] = job[q]
      BY <1>0, <1>4, FinishTypes DEF InsertKyc
    <2>2. /\ kyc = "none" /\ kyc' = "requires_input" /\ identity' = "requires_input"
          /\ UNCHANGED <<lawyer, mail, disturbed, vouched>>
      BY <1>4 DEF InsertKyc
    <2>3. lawyer # "none" /\ identity = "none"
      BY <2>1, <2>2 DEF CheckInv, CheckJob
    <2>4. \A q \in Proc : job[q].at # "result" /\ job'[q].at # "result"
      BY <2>1, <2>2 DEF CheckInv, CheckJob
    <2>5. ~disturbed => lawyer = Mapped("requires_input")
      BY <2>2, <2>3 DEF CheckInv, Mapped
    <2>6. \A q \in Proc : CheckJob(q)' /\ ResultInv(q)'
      BY <2>1, <2>2, <2>3, <2>4 DEF CheckInv, CheckJob, ResultInv, Verified
    <2>7. KycAgrees' /\ VerifiedByStripe'
      BY <2>2, <2>3, <2>5 DEF CheckInv, KycAgrees, VerifiedByStripe
    <2>. QED
      BY <2>2, <2>3, <2>6, <2>7 DEF CheckInv, Verified
  <1>5. ASSUME NEW p \in Proc, NEW s \in KycStatus, HandleKyc(p, s)
        PROVE  CheckInv'
    <2>1. /\ job'[p] = [at |-> "result", status |-> s] /\ job[p].at = "idle"
          /\ \A q \in Proc \ {p} : job'[q] = job[q]
      BY <1>0, <1>5, IdleIsJob DEF HandleKyc, Begin
    <2>2. /\ s \in mail /\ kyc # "none" /\ lawyer' = Mapped(s)
          /\ disturbed' = (\E q \in Proc : job[q].at = "result" /\ job[q].status # s)
          /\ UNCHANGED <<kyc, identity, mail, vouched>>
      BY <1>5 DEF HandleKyc
    <2>3. lawyer' \in LawyerStatus /\ (lawyer' = "verified" => s = "verified")
      BY <2>2, MappedIsStatus DEF Mapped, KycStatus
    <2>4. s = "verified" => Verified
      BY <2>2 DEF CheckInv
    <2>5. \A q \in Proc : CheckJob(q)'
      BY <2>1, <2>2, <2>3, <2>4 DEF CheckInv, CheckJob, Verified, LawyerStatus
    <2>6. ~disturbed' => \A q \in Proc : job'[q].at = "result" => job'[q].status = s
      BY <2>1, <2>2
    <2>7. \A q \in Proc : ResultInv(q)'
      BY <2>2, <2>6 DEF ResultInv
    <2>8. KycAgrees' /\ VerifiedByStripe'
      BY <2>2, <2>3, <2>4 DEF CheckInv, KycAgrees, VerifiedByStripe, Verified
    <2>. QED
      BY <2>2, <2>3, <2>5, <2>7, <2>8 DEF CheckInv, Verified, LawyerStatus
  <1>6. ASSUME NEW p \in Proc, SaveKyc(p)
        PROVE  CheckInv'
    <2>1. PICK s \in KycStatus : s = job[p].status
      BY <1>0, <1>6, JobAt DEF SaveKyc
    <2>2. /\ job[p].at = "result" /\ job'[p].at = "idle"
          /\ \A q \in Proc \ {p} : job'[q] = job[q]
      BY <1>0, <1>6, FinishTypes DEF SaveKyc
    <2>3. /\ kyc' = s /\ mail' \subseteq mail /\ mail \ {s} \subseteq mail'
          /\ UNCHANGED <<lawyer, identity, disturbed, vouched>>
      BY <1>6, <2>1 DEF SaveKyc
    <2>4. kyc # "none" /\ s # "none" /\ (s = "verified" => Verified)
      BY <2>1, <2>2 DEF CheckInv, CheckJob, KycStatus
    <2>5. ~disturbed => /\ lawyer = Mapped(s)
                        /\ \A q \in Proc : job[q].at = "result" => job[q].status = s
      BY <2>1, <2>2 DEF CheckInv, ResultInv
    <2>6. \A q \in Proc : CheckJob(q)'
      BY <2>2, <2>3, <2>4 DEF CheckInv, CheckJob, Verified
    <2>7. \A q \in Proc : ResultInv(q)'
      BY <2>2, <2>3, <2>5 DEF ResultInv
    <2>8. KycAgrees' /\ VerifiedByStripe'
      BY <2>3, <2>4, <2>5 DEF CheckInv, KycAgrees, VerifiedByStripe, Verified
    <2>. QED
      BY <2>3, <2>4, <2>6, <2>7, <2>8 DEF CheckInv, Verified
  <1>7. ASSUME NEW p \in Proc, SaveLawyer(p)
        PROVE  CheckInv'
    <2>1. PICK s \in LawyerStatus : s = job[p].status
      BY <1>0, <1>7, JobAt DEF SaveLawyer
    <2>2. /\ job[p].at = "edit" /\ job'[p].at = "idle"
          /\ \A q \in Proc \ {p} : job'[q] = job[q]
      BY <1>0, <1>7, FinishTypes DEF SaveLawyer
    <2>3. /\ lawyer' = s /\ disturbed' = (disturbed \/ lawyer # s)
          /\ UNCHANGED <<kyc, identity, mail, vouched>>
      BY <1>7, <2>1 DEF SaveLawyer
    <2>4. s # "none" /\ (s = "verified" => Verified \/ vouched)
      BY <2>1, <2>2 DEF CheckInv, CheckJob, LawyerStatus
    <2>5. ~disturbed' => ~disturbed /\ lawyer' = lawyer
      BY <2>3
    <2>6. \A q \in Proc : CheckJob(q)'
      BY <2>2, <2>3, <2>4 DEF CheckInv, CheckJob, Verified
    <2>7. \A q \in Proc : ResultInv(q)'
      BY <2>2, <2>3, <2>5 DEF CheckInv, ResultInv
    <2>8. KycAgrees' /\ VerifiedByStripe'
      BY <2>2, <2>3, <2>4, <2>5 DEF CheckInv, KycAgrees, VerifiedByStripe, Verified
    <2>. QED
      BY <2>3, <2>4, <2>5, <2>6, <2>7, <2>8 DEF CheckInv, Verified
  <1>8. ASSUME NEW p \in Proc, Fail(p)
        PROVE  CheckInv'
    <2>1. /\ job'[p].at = "idle" /\ UNCHANGED check
          /\ \A q \in Proc \ {p} : job'[q] = job[q]
      BY <1>0, <1>8, FinishTypes DEF Fail
    <2>2. \A q \in Proc : CheckJob(q)' /\ ResultInv(q)'
      BY <2>1 DEF CheckInv, CheckJob, ResultInv, Verified, check
    <2>3. KycAgrees'
      BY <2>1 DEF CheckInv, KycAgrees, ResultInv, check
    <2>. QED
      BY <2>1, <2>2, <2>3 DEF CheckInv, VerifiedByStripe, Verified, check
  <1>9. CASE IdentityChange
    <2>1. PICK s \in Follows(identity) :
             /\ identity' = s /\ mail' = mail \cup {s}
             /\ UNCHANGED <<lawyer, kyc, disturbed, vouched, job>>
      BY <1>9 DEF IdentityChange
    <2>2. identity # "none" /\ ~Verified
      BY <2>1 DEF Follows, Verified
    <2>3. kyc # "none" /\ mail' # {} /\ ("verified" \in mail' => Verified')
      BY <2>1, <2>2 DEF CheckInv, Verified
    <2>4. \A q \in Proc : CheckJob(q)' /\ ResultInv(q)'
      BY <2>1, <2>2 DEF CheckInv, CheckJob, ResultInv
    <2>5. KycAgrees'
      BY <2>3 DEF KycAgrees
    <2>6. VerifiedByStripe'
      BY <2>1, <2>2 DEF CheckInv, VerifiedByStripe, Verified
    <2>. QED
      BY <2>1, <2>3, <2>4, <2>5, <2>6 DEF CheckInv
  <1>10. ASSUME NEW status \in LawyerStatus, AdminSets(status)
         PROVE  CheckInv'
    <2>1. /\ lawyer' = status /\ disturbed' /\ UNCHANGED <<kyc, identity, mail, job>>
          /\ vouched' = (vouched \/ status = "verified") /\ status # "none"
      BY <1>10 DEF AdminSets, LawyerStatus
    <2>2. \A q \in Proc : CheckJob(q)' /\ ResultInv(q)'
      BY <2>1 DEF CheckInv, CheckJob, ResultInv, Verified
    <2>3. KycAgrees' /\ VerifiedByStripe'
      BY <2>1 DEF CheckInv, KycAgrees, VerifiedByStripe, Verified
    <2>. QED
      BY <2>1, <2>2, <2>3 DEF CheckInv, Verified
  <1>11. CASE (\E s \in Session : Start(s) \/ Expire(s)) \/ Cleanup \/ UNCHANGED vars
    BY <1>1, <1>11 DEF Start, Expire, Cleanup, vars, check
  <1>. QED
    BY <1>2, <1>3, <1>4, <1>5, <1>6, <1>7, <1>8, <1>9, <1>10, <1>11 DEF Next, CheckStep

\* Once every event is handled the lawyer's status is the one the status of the
\* check stands for.
THEOREM StatusOfCheckAgrees == Spec => []KycAgrees
  <1>1. CheckInv => KycAgrees
    BY DEF CheckInv
  <1>. QED
    BY <1>1, InitTypes, StepTypes, InitCheckInv, StepCheckInv, PTL DEF Spec

\* No order of events and no old copy verifies a lawyer whom neither Stripe nor
\* an admin has verified.
THEOREM VerifiedMeansVerified == Spec => []VerifiedByStripe
  <1>1. CheckInv => VerifiedByStripe
    BY DEF CheckInv
  <1>. QED
    BY <1>1, InitTypes, StepTypes, InitCheckInv, StepCheckInv, PTL DEF Spec
=============================================================================
