---------------------------- MODULE KycOnboarding ----------------------------
(***************************************************************************)
(* How a customer comes to be: a provisional OnboardingSession, its KYC    *)
(* application with a financing contract and a document, the signatures of *)
(* marketer and admin, and the User that the last signature creates.       *)
(* Against them work the sweeper, which expires sessions, and the          *)
(* retention job, which rejects old applications and purges documents.     *)
(*                                                                         *)
(* Approvals and rejections read the application, check it, and write in a *)
(* transaction what they decided from the read; a transaction is one       *)
(* action.  KycApplication.onboardingSessionId is unique, so an            *)
(* application is known by its session.  createdAt and                     *)
(* scheduledDeletionAt are set together, fifteen days apart: a PENDING     *)
(* application is old when its document is no longer "kept".               *)
(***************************************************************************)
EXTENDS Naturals, FiniteSets

CONSTANTS Session,    \* onboarding sessions that may be created
          Email,
          EmailOf,    \* the email each session is registered with
          Referred,   \* the sessions that name a marketer
          Handler,    \* API request handlers
          Nobody, Direct, NoSession,
          Batch       \* sessions a sweep expires at most (500 in the code)

ASSUME KycOnboardingAssumption ==
    /\ EmailOf \in [Session -> Email]
    /\ Referred \subseteq Session
    /\ Nobody \notin Session
    /\ Direct \notin Session
    /\ Nobody # Direct
    /\ NoSession \notin Session
    /\ Batch \in Nat \ {0}

VARIABLES
    session,    \* OnboardingSession.status, "NONE" before the row exists
    password,   \* sessions whose passwordHash is not ""
    lapsed,     \* sessions whose expiresAt is in the past
    app,        \* KycApplication.status, "NONE" before the row exists
    marketerApproved, adminApproved,  \* applications that bear the signature
    contract,   \* FinancingContract.status
    document,   \* KycDocumentAsset: kept, due for deletion, marked deleted
    user,       \* who the User of an email was made from
    keyless,    \* sessions whose User was created with the password ""
    handler, sweeper,  \* what each process is doing
    retention   \* the applications the retention job is to reject

sessionVars == <<session, password, lapsed>>
appVars == <<app, marketerApproved, adminApproved, contract, document>>
userVars == <<user, keyless>>
jobVars == <<sweeper, retention>>
vars == <<session, password, lapsed, app, marketerApproved, adminApproved,
          contract, document, user, keyless, handler, sweeper, retention>>

LiveStatus == {"PENDING_KYC", "KYC_SUBMITTED"}
OpenApp == {"PENDING", "APPROVAL_PROCESSING"}

\* key: the passwordHash that was read along with the application is not "".
HandlerState ==
    [pc: {"idle", "create", "resume", "submit", "marketer", "admin", "reject"},
     session: Session \cup {NoSession},
     key: BOOLEAN]
HandlerAt(pc, s, key) == [pc |-> pc, session |-> s, key |-> key]
IdleHandler == HandlerAt("idle", NoSession, FALSE)

\* apps: the sessions of the batch whose snapshot includes an application.
SweeperState == [pc: {"idle", "find", "loop"},
                 batch: SUBSET Session, apps: SUBSET Session]
SweeperAt(pc, batch, apps) == [pc |-> pc, batch |-> batch, apps |-> apps]
IdleSweeper == SweeperAt("idle", {}, {})

TypeOK ==
    /\ session \in [Session -> {"NONE", "APPROVED", "EXPIRING", "EXPIRED"} \cup LiveStatus]
    /\ password \subseteq Session
    /\ lapsed \subseteq Session
    /\ app \in [Session -> {"NONE", "APPROVED", "REJECTED"} \cup OpenApp]
    /\ marketerApproved \subseteq Session
    /\ adminApproved \subseteq Session
    /\ contract \in [Session -> {"NONE", "PENDING_ACTIVATION", "ACTIVE", "REJECTED"}]
    /\ document \in [Session -> {"none", "kept", "due", "deleted"}]
    /\ user \in [Email -> Session \cup {Nobody, Direct}]
    /\ keyless \subseteq Session
    /\ handler \in [Handler -> HandlerState]
    /\ sweeper \in SweeperState
    /\ retention \subseteq Session

Init ==
    /\ session = [s \in Session |-> "NONE"]
    /\ password = {}
    /\ lapsed = {}
    /\ app = [s \in Session |-> "NONE"]
    /\ marketerApproved = {}
    /\ adminApproved = {}
    /\ contract = [s \in Session |-> "NONE"]
    /\ document = [s \in Session |-> "none"]
    /\ user = [e \in Email |-> Nobody]
    /\ keyless = {}
    /\ handler = [h \in Handler |-> IdleHandler]
    /\ sweeper = IdleSweeper
    /\ retention = {}

Goto(h, state) == handler' = [handler EXCEPT ![h] = state]
Done(h) == Goto(h, IdleHandler)

\* A decision makes the document of s due at once.
ScheduleDeletion(s) ==
    document' = [document EXCEPT ![s] = IF @ = "kept" THEN "due" ELSE @]

-----------------------------------------------------------------------------
(***************************************************************************)
(* Registration: by referral, by a company's code, or by staff.  It reads  *)
(* whether the email has a User and whether it has a live session, and     *)
(* then prolongs that session, by its id alone, or creates one.            *)
(***************************************************************************)
IsLive(s) == session[s] \in LiveStatus /\ s \notin lapsed
LiveSessions(e) == {s \in Session : EmailOf[s] = e /\ IsLive(s)}

ReadNoSession(h, s) ==
    /\ handler[h].pc = "idle"
    /\ session[s] = "NONE"
    /\ \A g \in Handler : handler[g].session # s
    /\ user[EmailOf[s]] = Nobody
    /\ LiveSessions(EmailOf[s]) = {}
    /\ Goto(h, HandlerAt("create", s, FALSE))
    /\ UNCHANGED <<sessionVars, appVars, userVars, jobVars>>

ReadLiveSession(h, s) ==
    /\ handler[h].pc = "idle"
    /\ IsLive(s)
    /\ user[EmailOf[s]] = Nobody
    /\ Goto(h, HandlerAt("resume", s, FALSE))
    /\ UNCHANGED <<sessionVars, appVars, userVars, jobVars>>

CreateSession(h) ==
    /\ handler[h].pc = "create"
    /\ session' = [session EXCEPT ![handler[h].session] = "PENDING_KYC"]
    /\ password' = password \cup {handler[h].session}
    /\ Done(h)
    /\ UNCHANGED <<lapsed, appVars, userVars, jobVars>>

ResumeSession(h) ==
    /\ handler[h].pc = "resume"
    /\ lapsed' = lapsed \ {handler[h].session}
    /\ Done(h)
    /\ UNCHANGED <<session, password, appVars, userVars, jobVars>>

\* AuthService.register makes a User with no session; email is unique.
RegisterDirectly(e) ==
    /\ user[e] = Nobody
    /\ user' = [user EXCEPT ![e] = Direct]
    /\ UNCHANGED <<sessionVars, appVars, keyless, handler, jobVars>>

(***************************************************************************)
(* Submission: the session is checked and the PDF uploaded; application,   *)
(* contract, document and session status are written in one transaction,  *)
(* the status whatever it has become since the check.                      *)
(***************************************************************************)
ReadSession(h, s) ==
    /\ handler[h].pc = "idle"
    /\ session[s] \notin {"NONE", "APPROVED"}
    /\ s \notin lapsed
    /\ Goto(h, HandlerAt("submit", s, FALSE))
    /\ UNCHANGED <<sessionVars, appVars, userVars, jobVars>>

\* Defect: the session is given the status of the application.
WritePending(s) ==
    /\ app' = [app EXCEPT ![s] = "PENDING"]
    /\ contract' = [contract EXCEPT ![s] = "PENDING_ACTIVATION"]
    /\ document' = [document EXCEPT ![s] = "kept"]
    /\ session' = [session EXCEPT ![s] = "PENDING"]

\* The rows of a submission for s.
WriteApplication(s) ==
    /\ app' = [app EXCEPT ![s] = "PENDING"]
    /\ contract' = [contract EXCEPT ![s] = "PENDING_ACTIVATION"]
    /\ document' = [document EXCEPT ![s] = "kept"]
    /\ session' = [session EXCEPT ![s] = "KYC_SUBMITTED"]

PersistApplication(h) ==
    /\ handler[h].pc = "submit"
    /\ app[handler[h].session] = "NONE"
    /\ WriteApplication(handler[h].session)
    /\ Done(h)
    /\ UNCHANGED <<password, lapsed, marketerApproved, adminApproved, userVars, jobVars>>

-----------------------------------------------------------------------------
(***************************************************************************)
(* Approval and rejection.  The marketer signs first where there is one;   *)
(* the admin's or the company's signature claims the application and       *)
(* creates the User.  The marketer's signature and the rejection write     *)
(* the status they decided, whatever the status is by then.                *)
(***************************************************************************)
ReadForMarketer(h, s) ==
    /\ handler[h].pc = "idle"
    /\ s \in Referred
    /\ app[s] = "PENDING"
    /\ Goto(h, HandlerAt("marketer", s, FALSE))
    /\ UNCHANGED <<sessionVars, appVars, userVars, jobVars>>

SignAsMarketer(h) ==
    LET s == handler[h].session
    IN /\ handler[h].pc = "marketer"
       /\ marketerApproved' = marketerApproved \cup {s}
       /\ app' = [app EXCEPT ![s] = "APPROVAL_PROCESSING"]
       /\ Done(h)
       /\ UNCHANGED <<sessionVars, adminApproved, contract, document, userVars, jobVars>>

\* The status an application has when only the admin's signature is missing.
AwaitsAdmin(s) == IF s \in Referred THEN "APPROVAL_PROCESSING" ELSE "PENDING"

ReadForAdmin(h, s) ==
    /\ handler[h].pc = "idle"
    /\ s \in Referred => s \in marketerApproved
    /\ app[s] = AwaitsAdmin(s)
    /\ Goto(h, HandlerAt("admin", s, s \in password))
    /\ UNCHANGED <<sessionVars, appVars, userVars, jobVars>>

\* Defect: the single approver signs for the admin alone.
SignAsAdminOnly(s) ==
    /\ adminApproved' = adminApproved \cup {s}
    /\ UNCHANGED marketerApproved

\* Without a marketer the admin signs for both.
SignAsAdmin(s) ==
    /\ adminApproved' = adminApproved \cup {s}
    /\ marketerApproved' = IF s \in Referred THEN marketerApproved
                           ELSE marketerApproved \cup {s}

\* The claim finds another status: the signatures alone are committed.
AdminTooLate(h) ==
    /\ handler[h].pc = "admin"
    /\ app[handler[h].session] # AwaitsAdmin(handler[h].session)
    /\ SignAsAdmin(handler[h].session)
    /\ Done(h)
    /\ UNCHANGED <<sessionVars, app, contract, document, userVars, jobVars>>

\* The rows of an approval for s, with the password read before.
Activate(h, s) ==
    /\ app' = [app EXCEPT ![s] = "APPROVED"]
    /\ user' = [user EXCEPT ![EmailOf[s]] = s]
    /\ keyless' = IF handler[h].key THEN keyless ELSE keyless \cup {s}
    /\ session' = [session EXCEPT ![s] = "APPROVED"]
    /\ contract' = [contract EXCEPT ![s] = "ACTIVE"]
    /\ ScheduleDeletion(s)

\* Defect: the User of the email is found instead of created.
ApproveUpserting(h) ==
    LET s == handler[h].session
    IN /\ handler[h].pc = "admin"
       /\ app[s] = AwaitsAdmin(s)
       /\ SignAsAdmin(s)
       /\ Activate(h, s)
       /\ Done(h)
       /\ UNCHANGED <<password, lapsed, jobVars>>

\* The User cannot be created when the email has one: all is rolled back.
Approve(h) ==
    LET s == handler[h].session
    IN /\ handler[h].pc = "admin"
       /\ app[s] = AwaitsAdmin(s)
       /\ user[EmailOf[s]] = Nobody
       /\ SignAsAdmin(s)
       /\ Activate(h, s)
       /\ Done(h)
       /\ UNCHANGED <<password, lapsed, jobVars>>

ReadForReject(h, s) ==
    /\ handler[h].pc = "idle"
    /\ app[s] \in OpenApp
    /\ Goto(h, HandlerAt("reject", s, FALSE))
    /\ UNCHANGED <<sessionVars, appVars, userVars, jobVars>>

Reject(h) ==
    LET s == handler[h].session
    IN /\ handler[h].pc = "reject"
       /\ app' = [app EXCEPT ![s] = "REJECTED"]
       /\ contract' = [contract EXCEPT ![s] = "REJECTED"]
       /\ ScheduleDeletion(s)
       /\ Done(h)
       /\ UNCHANGED <<sessionVars, marketerApproved, adminApproved, userVars, jobVars>>

\* A request dies, or its transaction is rolled back.
RequestFails(h) ==
    /\ handler[h].pc # "idle"
    /\ Done(h)
    /\ UNCHANGED <<sessionVars, appVars, userVars, jobVars>>

-----------------------------------------------------------------------------
(***************************************************************************)
(* Time.  A session lasts 24 hours, an application and its document        *)
(* fifteen days.  Nothing reads the expiry of an APPROVED session.         *)
(***************************************************************************)
Lapse(s) ==
    /\ session[s] \notin {"NONE", "APPROVED"}
    /\ s \notin lapsed
    /\ lapsed' = lapsed \cup {s}
    /\ UNCHANGED <<session, password, appVars, userVars, handler, jobVars>>

FifteenDays(s) ==
    /\ document[s] = "kept"
    /\ document' = [document EXCEPT ![s] = "due"]
    /\ UNCHANGED <<sessionVars, app, marketerApproved, adminApproved, contract,
                   userVars, handler, jobVars>>

-----------------------------------------------------------------------------
(***************************************************************************)
(* The sweeper claims every lapsed session at once, blanking its password, *)
(* then takes a batch of the claimed sessions with their applications and  *)
(* expires them one by one.  It goes on to the batch only when it has      *)
(* claimed a session; what an earlier run left EXPIRING waits for that.    *)
(***************************************************************************)
Claim ==
    LET stale == {s \in lapsed : session[s] \in LiveStatus}
    IN /\ sweeper.pc = "idle"
       /\ stale # {}
       /\ session' = [s \in Session |-> IF s \in stale THEN "EXPIRING" ELSE session[s]]
       /\ password' = password \ stale
       /\ sweeper' = SweeperAt("find", {}, {})
       /\ UNCHANGED <<lapsed, appVars, userVars, handler, retention>>

TakeBatch ==
    LET expiring == {s \in Session : session[s] = "EXPIRING"}
    IN /\ sweeper.pc = "find"
       /\ \E batch \in SUBSET expiring :
             /\ Cardinality(batch) <= Batch
             /\ batch = expiring \/ Cardinality(batch) = Batch
             /\ sweeper' = SweeperAt("loop", batch, {s \in batch : app[s] # "NONE"})
       /\ UNCHANGED <<sessionVars, appVars, userVars, handler, retention>>

\* s leaves the batch.
Swept(s) ==
    sweeper' = IF sweeper.batch = {s} THEN IdleSweeper
               ELSE SweeperAt("loop", sweeper.batch \ {s}, sweeper.apps \ {s})

\* Defect: the application is rejected though the session was not expired.
ExpireApplication(s) ==
    /\ sweeper.pc = "loop"
    /\ s \in sweeper.batch
    /\ session' = [session EXCEPT ![s] = IF @ = "EXPIRING" THEN "EXPIRED" ELSE @]
    /\ app' = [app EXCEPT ![s] = IF s \in sweeper.apps THEN "REJECTED" ELSE @]
    /\ Swept(s)
    /\ UNCHANGED <<password, lapsed, marketerApproved, adminApproved, contract,
                   document, userVars, handler, retention>>

Expire(s) ==
    /\ sweeper.pc = "loop"
    /\ s \in sweeper.batch
    /\ IF session[s] = "EXPIRING"
       THEN /\ session' = [session EXCEPT ![s] = "EXPIRED"]
            /\ app' = [app EXCEPT ![s] = IF s \in sweeper.apps THEN "REJECTED" ELSE @]
       ELSE UNCHANGED <<session, app>>
    /\ Swept(s)
    /\ UNCHANGED <<password, lapsed, marketerApproved, adminApproved, contract,
                   document, userVars, handler, retention>>

EmptyBatch ==
    /\ sweeper.pc = "loop"
    /\ sweeper.batch = {}
    /\ sweeper' = IdleSweeper
    /\ UNCHANGED <<sessionVars, appVars, userVars, handler, retention>>

SweeperCrash ==
    /\ sweeper.pc # "idle"
    /\ sweeper' = IdleSweeper
    /\ UNCHANGED <<sessionVars, appVars, userVars, handler, retention>>

-----------------------------------------------------------------------------
(***************************************************************************)
(* The retention job purges the documents that are due and then rejects    *)
(* the applications it found PENDING and old, whatever they are by then.   *)
(* Nothing takes back a document that is due, so the purge of all of them  *)
(* and the query for old applications after it are one step.               *)
(***************************************************************************)
\* Defect: only the documents of decided applications are purged.
PurgeDecided ==
    document' = [s \in Session |-> IF document[s] = "due" /\ contract[s] # "PENDING_ACTIVATION"
                                   THEN "deleted" ELSE document[s]]

PurgeDue == document' = [s \in Session |-> IF document[s] = "due" THEN "deleted"
                                           ELSE document[s]]

\* Defect: an application is old as long as its document is due.
OldPendingDue == {s \in Session : app[s] = "PENDING" /\ document[s] = "due"}

OldPending == {s \in Session : app[s] = "PENDING" /\ document[s] # "kept"}

StartRetention ==
    /\ retention = {}
    /\ PurgeDue
    /\ retention' = OldPending
    /\ UNCHANGED <<sessionVars, app, marketerApproved, adminApproved, contract,
                   userVars, handler, sweeper>>

\* Defect: the contract is rejected with the application.
RejectOldContract(s) ==
    /\ s \in retention
    /\ app' = [app EXCEPT ![s] = "REJECTED"]
    /\ contract' = [contract EXCEPT ![s] = "REJECTED"]
    /\ ScheduleDeletion(s)
    /\ retention' = retention \ {s}
    /\ UNCHANGED <<sessionVars, marketerApproved, adminApproved,
                   userVars, handler, sweeper>>

RejectOld(s) ==
    /\ s \in retention
    /\ app' = [app EXCEPT ![s] = "REJECTED"]
    /\ ScheduleDeletion(s)
    /\ retention' = retention \ {s}
    /\ UNCHANGED <<sessionVars, marketerApproved, adminApproved, contract,
                   userVars, handler, sweeper>>

RetentionCrash ==
    /\ retention # {}
    /\ retention' = {}
    /\ UNCHANGED <<sessionVars, appVars, userVars, handler, sweeper>>

-----------------------------------------------------------------------------
HandlerStep(h) ==
    \/ \E s \in Session :
          \/ ReadNoSession(h, s) \/ ReadLiveSession(h, s) \/ ReadSession(h, s)
          \/ ReadForMarketer(h, s) \/ ReadForAdmin(h, s) \/ ReadForReject(h, s)
    \/ CreateSession(h) \/ ResumeSession(h) \/ PersistApplication(h)
    \/ SignAsMarketer(h) \/ AdminTooLate(h) \/ Approve(h) \/ Reject(h)
    \/ RequestFails(h)

SweeperStep ==
    \/ Claim \/ TakeBatch \/ EmptyBatch \/ SweeperCrash
    \/ \E s \in Session : Expire(s)

RetentionRun ==
    \/ StartRetention
    \/ \E s \in Session : RejectOld(s)

Next ==
    \/ \E h \in Handler : HandlerStep(h)
    \/ \E e \in Email : RegisterDirectly(e)
    \/ \E s \in Session : Lapse(s) \/ FifteenDays(s)
    \/ SweeperStep
    \/ RetentionRun
    \/ RetentionCrash

Spec == Init /\ [][Next]_vars

\* The days pass, the scheduler runs the retention job every night, and not every
\* run that has an application to reject is cut short before it gets to one.
Fairness ==
    /\ WF_vars(\E s \in Session : FifteenDays(s))
    /\ WF_vars(StartRetention)
    /\ SF_vars(\E s \in Session : RejectOld(s))

FairSpec == Spec /\ Fairness

-----------------------------------------------------------------------------
(***************************************************************************)
(* Rule 1 of ARCHITECTURE.md section 9: a contract is active only under    *)
(* both signatures, however the reads and writes of marketer, admin,       *)
(* sweeper and retention job fall (approveApplication).                    *)
(***************************************************************************)
DualSignature ==
    \A s \in Session :
        contract[s] = "ACTIVE" => s \in marketerApproved /\ s \in adminApproved

(***************************************************************************)
(* A session counts as APPROVED exactly while a User made from it owns the *)
(* email: neither a second session of the same email, nor a resubmission,  *)
(* nor the sweeper that held the session in its batch parts the two        *)
(* (approveApplication, expireStaleOnboardingSessions).                    *)
(***************************************************************************)
SessionOfUser ==
    \A s \in Session : session[s] = "APPROVED" <=> user[EmailOf[s]] = s

(***************************************************************************)
(* A customer with a User owns a contract; the contract is lost only to a  *)
(* rejection by an admin, never to the sweeper or the retention job, and   *)
(* is not activated, with a second schedule of installments, again.        *)
(***************************************************************************)
LostToRejection ==
    \A s \in Session : contract'[s] # contract[s] /\ user[EmailOf[s]] = s
        => /\ contract'[s] = "REJECTED"
           /\ \E h \in Handler : /\ handler[h].pc = "reject"
                                 /\ handler[h].session = s

ActivatedOnce == [][LostToRejection]_vars

(***************************************************************************)
(* An application that was approved is undone only by what had read it     *)
(* undecided and was still on its way: a second marketer's or an admin's   *)
(* request, or the retention job.  The sweeper, whose snapshot of the      *)
(* application is as old, never undoes it (the guard on EXPIRING).         *)
(***************************************************************************)
UndoneByRequest ==
    \A s \in Session : app[s] = "APPROVED" /\ app'[s] # "APPROVED"
        => \/ \E h \in Handler : /\ handler[h].pc \in {"marketer", "reject"}
                                 /\ handler[h].session = s
           \/ s \in retention

UndoneByStaleRead == [][UndoneByRequest]_vars

(***************************************************************************)
(* An application does not wait for ever for its first signature: if no    *)
(* one decides, and whatever became of its session, the retention job      *)
(* rejects it after fifteen days.  (A session has one application, which   *)
(* is PENDING once.)                                                       *)
(***************************************************************************)
PendingEnds == <>[](\A s \in Session : app[s] # "PENDING")

(***************************************************************************)
(* No bank statement is kept for ever, not even that of an application     *)
(* which the sweeper rejected without a word to its document.              *)
(***************************************************************************)
DocumentGoes == <>[](\A s \in Session : document[s] \in {"none", "deleted"})

(***************************************************************************)
(* The comment in approveApplication: "The customer already has real       *)
(* credentials - the password they set at registration [...] was carried   *)
(* straight into the new User row".  Untrue of a session the sweeper has   *)
(* claimed: its password is "" by then and nothing checks its status.      *)
(***************************************************************************)
PasswordCarried == keyless = {}
=============================================================================
