-------------------------- MODULE KycOnboardingProofs --------------------------
(***************************************************************************)
(* Theorems about KycOnboarding for every number of sessions, emails,      *)
(* handlers and every bound.                                               *)
(*                                                                         *)
(* The argument: a handler about to decide an application holds the name   *)
(* of one that exists, and a handler about to create a session is the only *)
(* one that knows it; hence a session that became a User's is APPROVED for *)
(* good, out of reach of registration, submission and the sweeper.         *)
(***************************************************************************)
EXTENDS KycOnboarding, TLAPS

LEMMA TypeInit == Init => TypeOK
BY KycOnboardingAssumption
   DEF Init, TypeOK, IdleHandler, HandlerAt, HandlerState, IdleSweeper,
       SweeperAt, SweeperState, LiveStatus, OpenApp

LEMMA HandlerMoves ==
  ASSUME TypeOK, NEW h \in Handler, NEW state \in HandlerState, Goto(h, state)
  PROVE  handler' \in [Handler -> HandlerState]
BY DEF TypeOK, Goto

LEMMA HandlerDone ==
  ASSUME TypeOK, NEW h \in Handler, Done(h)
  PROVE  handler' \in [Handler -> HandlerState]
<1>1. IdleHandler \in HandlerState
  BY DEF IdleHandler, HandlerAt, HandlerState
<1> QED BY <1>1, HandlerMoves DEF Done

LEMMA HandlerReads ==
  ASSUME TypeOK, NEW h \in Handler, NEW s \in Session, NEW key \in BOOLEAN,
         NEW pc \in {"create", "resume", "submit", "marketer", "admin", "reject"},
         Goto(h, HandlerAt(pc, s, key))
  PROVE  handler' \in [Handler -> HandlerState]
<1>1. HandlerAt(pc, s, key) \in HandlerState
  BY DEF HandlerAt, HandlerState
<1> QED BY <1>1, HandlerMoves

\* A handler that is at work has a session in hand.
InHand(h) == handler[h].pc # "idle" => handler[h].session \in Session

\* What a handler knows of the session it has in hand.
KnowsSession(h) ==
    LET s == handler[h].session
    IN /\ InHand(h)
       /\ handler[h].pc = "create" =>
            /\ session[s] = "NONE"
            /\ \A g \in Handler \ {h} : handler[g].session # s
       /\ handler[h].pc \in {"marketer", "admin", "reject"} => app[s] # "NONE"
       /\ handler[h].pc = "admin" /\ s \in Referred => s \in marketerApproved

HandlersKnow == \A h \in Handler : KnowsSession(h)

Consistent ==
    \A s \in Session :
        /\ session[s] = "NONE" => app[s] = "NONE"
        /\ session[s] = "APPROVED" => app[s] # "NONE"
        /\ app[s] = "APPROVED" => session[s] = "APPROVED"

OldApplications == \A s \in retention : app[s] # "NONE"

KycInv ==
    /\ TypeOK /\ HandlersKnow /\ Consistent /\ OldApplications
    /\ DualSignature /\ SessionOfUser

-----------------------------------------------------------------------------
LEMMA TypeNext ==
  ASSUME TypeOK, HandlersKnow, [Next]_vars
  PROVE  TypeOK'
<1> USE KycOnboardingAssumption
<1>1. ASSUME NEW h \in Handler, HandlerStep(h) PROVE TypeOK'
  <2>1. ASSUME NEW s \in Session,
               \/ ReadNoSession(h, s) \/ ReadLiveSession(h, s) \/ ReadSession(h, s)
               \/ ReadForMarketer(h, s) \/ ReadForAdmin(h, s) \/ ReadForReject(h, s)
        PROVE  TypeOK'
    <3>1. UNCHANGED <<sessionVars, appVars, userVars, jobVars>>
      BY <2>1 DEF ReadNoSession, ReadLiveSession, ReadSession, ReadForMarketer,
                  ReadForAdmin, ReadForReject
    <3>2. handler' \in [Handler -> HandlerState]
      <4>1. CASE ReadForAdmin(h, s)
        <5>1. (s \in password) \in BOOLEAN
          OBVIOUS
        <5>2. Goto(h, HandlerAt("admin", s, s \in password))
          BY <4>1 DEF ReadForAdmin
        <5> QED BY <5>1, <5>2, HandlerReads
      <4>2. CASE ReadNoSession(h, s)
        BY <4>2, HandlerReads DEF ReadNoSession
      <4>3. CASE ReadLiveSession(h, s)
        BY <4>3, HandlerReads DEF ReadLiveSession
      <4>4. CASE ReadSession(h, s)
        BY <4>4, HandlerReads DEF ReadSession
      <4>5. CASE ReadForMarketer(h, s)
        BY <4>5, HandlerReads DEF ReadForMarketer
      <4>6. CASE ReadForReject(h, s)
        BY <4>6, HandlerReads DEF ReadForReject
      <4> QED BY <2>1, <4>1, <4>2, <4>3, <4>4, <4>5, <4>6
    <3> QED BY <3>1, <3>2 DEF TypeOK, sessionVars, appVars, userVars, jobVars
  <2>2. ASSUME \/ CreateSession(h) \/ ResumeSession(h) \/ PersistApplication(h)
               \/ SignAsMarketer(h) \/ AdminTooLate(h) \/ Approve(h) \/ Reject(h)
               \/ RequestFails(h)
        PROVE  TypeOK'
    <3>1. handler' \in [Handler -> HandlerState]
      BY <2>2, HandlerDone DEF CreateSession, ResumeSession, PersistApplication,
         SignAsMarketer, AdminTooLate, Approve, Reject, RequestFails
    <3>2. handler[h].pc # "idle"
      BY <2>2 DEF CreateSession, ResumeSession, PersistApplication,
         SignAsMarketer, AdminTooLate, Approve, Reject, RequestFails
    <3>3. handler[h].session \in Session
      BY <3>2 DEF HandlersKnow, KnowsSession, InHand
    <3>4. CASE CreateSession(h) \/ ResumeSession(h) \/ RequestFails(h)
      BY <3>1, <3>3, <3>4 DEF TypeOK, CreateSession, ResumeSession, RequestFails,
         LiveStatus, sessionVars, appVars, userVars, jobVars
    <3>5. CASE PersistApplication(h)
      BY <3>1, <3>3, <3>5 DEF TypeOK, PersistApplication, WriteApplication,
         LiveStatus, OpenApp, userVars, jobVars
    <3>6. CASE SignAsMarketer(h) \/ AdminTooLate(h)
      BY <3>1, <3>3, <3>6 DEF TypeOK, SignAsMarketer, AdminTooLate, SignAsAdmin,
         OpenApp, sessionVars, userVars, jobVars
    <3>7. CASE Approve(h)
      BY <3>1, <3>3, <3>7 DEF TypeOK, Approve, SignAsAdmin, Activate,
         ScheduleDeletion, jobVars
    <3>8. CASE Reject(h)
      BY <3>1, <3>3, <3>8 DEF TypeOK, Reject, ScheduleDeletion, sessionVars,
         userVars, jobVars
    <3> QED BY <2>2, <3>4, <3>5, <3>6, <3>7, <3>8
  <2> QED BY <1>1, <2>1, <2>2 DEF HandlerStep
<1>2. ASSUME NEW e \in Email, RegisterDirectly(e) PROVE TypeOK'
  BY <1>2 DEF TypeOK, RegisterDirectly, sessionVars, appVars, jobVars
<1>3. ASSUME NEW s \in Session, Lapse(s) \/ FifteenDays(s) PROVE TypeOK'
  BY <1>3 DEF TypeOK, Lapse, FifteenDays, sessionVars, appVars, userVars, jobVars
<1>4. ASSUME SweeperStep PROVE TypeOK'
  <2>1. IdleSweeper \in SweeperState
    BY DEF IdleSweeper, SweeperAt, SweeperState
  <2>2. CASE Claim
    <3>1. SweeperAt("find", {}, {}) \in SweeperState
      BY DEF SweeperAt, SweeperState
    <3> QED BY <2>2, <3>1 DEF TypeOK, Claim, LiveStatus, appVars, userVars
  <2>3. CASE TakeBatch
    <3>1. \A batch \in SUBSET Session, apps \in SUBSET Session :
             SweeperAt("loop", batch, apps) \in SweeperState
      BY DEF SweeperAt, SweeperState
    <3>2. sweeper' \in SweeperState
      BY <2>3, <3>1 DEF TakeBatch
    <3> QED BY <2>3, <3>2 DEF TypeOK, TakeBatch, sessionVars, appVars, userVars
  <2>4. ASSUME NEW s \in Session, Expire(s) PROVE TypeOK'
    <3>1. SweeperAt("loop", sweeper.batch \ {s}, sweeper.apps \ {s}) \in SweeperState
      BY DEF SweeperAt, SweeperState, TypeOK
    <3>2. sweeper' \in SweeperState
      BY <2>1, <2>4, <3>1 DEF Expire, Swept
    <3> QED BY <2>4, <3>2 DEF TypeOK, Expire, userVars
  <2>5. CASE EmptyBatch
    BY <2>1, <2>5 DEF TypeOK, EmptyBatch, sessionVars, appVars, userVars
  <2>6. CASE SweeperCrash
    BY <2>1, <2>6 DEF TypeOK, SweeperCrash, sessionVars, appVars, userVars
  <2> QED BY <1>4, <2>2, <2>3, <2>4, <2>5, <2>6 DEF SweeperStep
<1>5. ASSUME RetentionRun PROVE TypeOK'
  <2>1. CASE StartRetention
    BY <1>5, <2>1 DEF TypeOK, StartRetention, PurgeDue, OldPending, sessionVars, userVars
  <2>2. ASSUME NEW s \in Session, RejectOld(s) PROVE TypeOK'
    BY <2>2 DEF TypeOK, RejectOld, ScheduleDeletion, sessionVars, userVars
  <2> QED BY <1>5, <2>1, <2>2 DEF RetentionRun
<1>6. CASE RetentionCrash
  BY <1>6 DEF TypeOK, RetentionCrash, sessionVars, appVars, userVars
<1>7. CASE UNCHANGED vars
  BY <1>7 DEF TypeOK, vars
<1> QED BY <1>1, <1>2, <1>3, <1>4, <1>5, <1>6, <1>7 DEF Next

-----------------------------------------------------------------------------
\* No step removes an application or a signature.
RowsKept ==
    /\ \A s \in Session : app[s] # "NONE" => app'[s] # "NONE"
    /\ marketerApproved \subseteq marketerApproved'

\* Only the session a handler has in hand may come into being.
OthersUncreated(h) ==
    \A s \in Session : s # handler[h].session /\ session[s] = "NONE"
        => session'[s] = "NONE"

LEMMA KnowsFrame ==
  ASSUME KycInv, RowsKept, UNCHANGED handler,
         \A s \in Session : session[s] = "NONE" => session'[s] = "NONE"
  PROVE  HandlersKnow'
<1> SUFFICES ASSUME NEW h \in Handler PROVE KnowsSession(h)'
  BY DEF HandlersKnow
<1>1. KnowsSession(h)
  BY DEF KycInv, HandlersKnow
<1> QED BY <1>1 DEF RowsKept, KnowsSession, InHand

LEMMA KnowsDone ==
  ASSUME KycInv, RowsKept, NEW h \in Handler, handler[h].pc # "idle", Done(h),
         OthersUncreated(h)
  PROVE  HandlersKnow'
<1>1. handler' = [handler EXCEPT ![h] = IdleHandler]
  BY DEF Done, Goto
<1>2. handler \in [Handler -> HandlerState]
  BY DEF KycInv, TypeOK
<1>3. KnowsSession(h)'
  <2>1. handler'[h] = IdleHandler
    BY <1>1, <1>2
  <2>2. handler'[h].pc = "idle"
    BY <2>1 DEF IdleHandler, HandlerAt
  <2> QED BY <2>2 DEF KnowsSession, InHand
<1>4. ASSUME NEW g \in Handler \ {h} PROVE KnowsSession(g)'
  <2>1. handler'[g] = handler[g] /\ KnowsSession(g)
    BY <1>1, <1>2, <1>4 DEF KycInv, HandlersKnow
  <2>2. CASE handler[g].pc = "create"
    <3>1. /\ handler[g].session \in Session
          /\ session[handler[g].session] = "NONE"
          /\ \A k \in Handler \ {g} : handler[k].session # handler[g].session
      BY <2>1, <2>2 DEF KnowsSession, InHand
    <3>2. session'[handler[g].session] = "NONE"
      BY <3>1 DEF OthersUncreated
    <3>3. handler'[h].session = NoSession
      BY <1>1, <1>2 DEF IdleHandler, HandlerAt
    <3>4. \A k \in Handler \ {g} : handler'[k].session # handler[g].session
      BY <1>1, <1>2, <3>1, <3>3, KycOnboardingAssumption
    <3> QED BY <2>1, <2>2, <3>1, <3>2, <3>4 DEF KnowsSession, InHand
  <2>3. CASE handler[g].pc # "create"
    BY <2>1, <2>3 DEF KnowsSession, InHand, RowsKept
  <2> QED BY <2>2, <2>3
<1> QED BY <1>3, <1>4 DEF HandlersKnow

LEMMA KnowsRead ==
  ASSUME KycInv, UNCHANGED <<session, app, marketerApproved>>,
         NEW h \in Handler, NEW s \in Session, NEW pc, NEW key,
         Goto(h, HandlerAt(pc, s, key)),
         IF pc = "create"
         THEN session[s] = "NONE" /\ \A g \in Handler : handler[g].session # s
         ELSE session[s] # "NONE",
         pc \in {"marketer", "admin", "reject"} => app[s] # "NONE",
         pc = "admin" /\ s \in Referred => s \in marketerApproved
  PROVE  HandlersKnow'
<1>1. handler' = [handler EXCEPT ![h] = HandlerAt(pc, s, key)]
  BY DEF Goto
<1>2. handler \in [Handler -> HandlerState]
  BY DEF KycInv, TypeOK
<1>3. handler'[h].pc = pc /\ handler'[h].session = s
  BY <1>1, <1>2 DEF HandlerAt
<1>4. \A g \in Handler \ {h} : handler'[g] = handler[g]
  BY <1>1, <1>2
<1>5. KnowsSession(h)'
  BY <1>3, <1>4 DEF KnowsSession, InHand
<1>6. ASSUME NEW g \in Handler \ {h} PROVE KnowsSession(g)'
  <2>1. KnowsSession(g)
    BY DEF KycInv, HandlersKnow
  <2>2. handler[g].pc = "create" => handler[g].session # s
    BY <2>1 DEF KnowsSession
  <2> QED BY <1>3, <1>4, <2>1, <2>2 DEF KnowsSession, InHand
<1> QED BY <1>5, <1>6 DEF HandlersKnow

LEMMA ReadsKeep ==
  ASSUME KycInv, NEW h \in Handler, NEW s \in Session,
         \/ ReadNoSession(h, s) \/ ReadLiveSession(h, s) \/ ReadSession(h, s)
         \/ ReadForMarketer(h, s) \/ ReadForAdmin(h, s) \/ ReadForReject(h, s)
  PROVE  HandlersKnow' /\ UNCHANGED <<sessionVars, appVars, userVars, jobVars>>
<1>1. UNCHANGED <<sessionVars, appVars, userVars, jobVars>>
  BY DEF ReadNoSession, ReadLiveSession, ReadSession, ReadForMarketer,
         ReadForAdmin, ReadForReject
<1>2. UNCHANGED <<session, app, marketerApproved>>
  BY <1>1 DEF sessionVars, appVars
<1>3. session[s] = "NONE" => app[s] = "NONE"
  BY DEF KycInv, Consistent
<1>4. CASE ReadNoSession(h, s)
  BY <1>2, <1>4, KnowsRead DEF ReadNoSession
<1>5. CASE ReadLiveSession(h, s)
  <2>1. session[s] # "NONE"
    BY <1>5 DEF ReadLiveSession, IsLive, LiveStatus
  <2> QED BY <1>2, <1>5, <2>1, KnowsRead DEF ReadLiveSession
<1>6. CASE ReadSession(h, s)
  BY <1>2, <1>6, KnowsRead DEF ReadSession
<1>7. CASE ReadForMarketer(h, s)
  BY <1>2, <1>3, <1>7, KnowsRead DEF ReadForMarketer
<1>8. CASE ReadForAdmin(h, s)
  <2>1. app[s] # "NONE"
    BY <1>8 DEF ReadForAdmin, AwaitsAdmin
  <2> QED BY <1>2, <1>3, <1>8, <2>1, KnowsRead DEF ReadForAdmin
<1>9. CASE ReadForReject(h, s)
  <2>1. app[s] # "NONE"
    BY <1>9 DEF ReadForReject, OpenApp
  <2> QED BY <1>2, <1>3, <1>9, <2>1, KnowsRead DEF ReadForReject
<1> QED BY <1>1, <1>4, <1>5, <1>6, <1>7, <1>8, <1>9

-----------------------------------------------------------------------------
LEMMA InvFrame ==
  ASSUME KycInv, TypeOK', HandlersKnow',
         UNCHANGED <<session, app, marketerApproved, adminApproved, contract, user>>,
         \A s \in retention' : app[s] # "NONE"
  PROVE  KycInv'
BY DEF KycInv, Consistent, OldApplications, DualSignature, SessionOfUser

LEMMA CreateSessionKeeps ==
  ASSUME KycInv, TypeOK', NEW h \in Handler, CreateSession(h)
  PROVE  KycInv'
<1> DEFINE s == handler[h].session
<1>1. s \in Session /\ session[s] = "NONE" /\ app[s] = "NONE"
  BY DEF CreateSession, KycInv, HandlersKnow, KnowsSession, InHand, Consistent
<1>2. session' = [session EXCEPT ![s] = "PENDING_KYC"]
      /\ UNCHANGED <<appVars, userVars, jobVars>>
  BY DEF CreateSession
<1>3. HandlersKnow'
  <2>1. OthersUncreated(h) /\ RowsKept
    BY <1>1, <1>2 DEF OthersUncreated, RowsKept, KycInv, TypeOK, appVars
  <2> QED BY <2>1, KnowsDone DEF CreateSession
<1> QED BY <1>1, <1>2, <1>3 DEF KycInv, TypeOK, Consistent, OldApplications,
        DualSignature, SessionOfUser, appVars, userVars, jobVars

LEMMA PersistKeeps ==
  ASSUME KycInv, TypeOK', NEW h \in Handler, PersistApplication(h)
  PROVE  KycInv'
<1> DEFINE s == handler[h].session
<1>1. s \in Session /\ app[s] = "NONE" /\ session[s] # "APPROVED"
  BY DEF PersistApplication, KycInv, HandlersKnow, KnowsSession, InHand, Consistent
<1>2. /\ app' = [app EXCEPT ![s] = "PENDING"]
      /\ contract' = [contract EXCEPT ![s] = "PENDING_ACTIVATION"]
      /\ session' = [session EXCEPT ![s] = "KYC_SUBMITTED"]
      /\ UNCHANGED <<marketerApproved, adminApproved, userVars, jobVars>>
  BY DEF PersistApplication, WriteApplication
<1>3. HandlersKnow'
  <2>1. OthersUncreated(h) /\ RowsKept
    BY <1>1, <1>2 DEF OthersUncreated, RowsKept, KycInv, TypeOK
  <2> QED BY <2>1, KnowsDone DEF PersistApplication
<1> QED BY <1>1, <1>2, <1>3 DEF KycInv, TypeOK, Consistent, OldApplications,
        DualSignature, SessionOfUser, userVars, jobVars

LEMMA SignAsMarketerKeeps ==
  ASSUME KycInv, TypeOK', NEW h \in Handler, SignAsMarketer(h)
  PROVE  KycInv'
<1> DEFINE s == handler[h].session
<1>1. s \in Session /\ app[s] # "NONE"
  BY DEF SignAsMarketer, KycInv, HandlersKnow, KnowsSession, InHand
<1>2. /\ marketerApproved' = marketerApproved \cup {s}
      /\ app' = [app EXCEPT ![s] = "APPROVAL_PROCESSING"]
      /\ UNCHANGED <<sessionVars, adminApproved, contract, userVars, jobVars>>
  BY DEF SignAsMarketer
<1>3. HandlersKnow'
  <2>1. OthersUncreated(h) /\ RowsKept
    BY <1>2 DEF OthersUncreated, RowsKept, KycInv, TypeOK, sessionVars
  <2> QED BY <2>1, KnowsDone DEF SignAsMarketer
<1> QED BY <1>1, <1>2, <1>3 DEF KycInv, TypeOK, Consistent, OldApplications,
        DualSignature, SessionOfUser, sessionVars, userVars, jobVars

LEMMA SignaturesGrow ==
  ASSUME NEW s \in Session, SignAsAdmin(s)
  PROVE  /\ marketerApproved \subseteq marketerApproved'
         /\ adminApproved' = adminApproved \cup {s}
         /\ s \notin Referred => s \in marketerApproved'
BY DEF SignAsAdmin

LEMMA AdminTooLateKeeps ==
  ASSUME KycInv, TypeOK', NEW h \in Handler, AdminTooLate(h)
  PROVE  KycInv'
<1> DEFINE s == handler[h].session
<1>1. s \in Session
  BY DEF AdminTooLate, KycInv, HandlersKnow, KnowsSession, InHand
<1>2. marketerApproved \subseteq marketerApproved' /\ adminApproved \subseteq adminApproved'
  BY <1>1, SignaturesGrow DEF AdminTooLate
<1>3. UNCHANGED <<sessionVars, app, contract, userVars, jobVars>>
  BY DEF AdminTooLate
<1>4. HandlersKnow'
  <2>1. OthersUncreated(h) /\ RowsKept
    BY <1>2, <1>3 DEF OthersUncreated, RowsKept, sessionVars
  <2> QED BY <2>1, KnowsDone DEF AdminTooLate
<1> QED BY <1>2, <1>3, <1>4 DEF KycInv, Consistent, OldApplications,
        DualSignature, SessionOfUser, sessionVars, userVars, jobVars

\* The User is new: no other session of the email was APPROVED.
LEMMA ApproveKeeps ==
  ASSUME KycInv, TypeOK', NEW h \in Handler, Approve(h)
  PROVE  KycInv'
<1> DEFINE s == handler[h].session
<1>1. /\ s \in Session /\ app[s] # "NONE" /\ session[s] # "NONE"
      /\ s \in Referred => s \in marketerApproved
  BY DEF Approve, KycInv, HandlersKnow, KnowsSession, InHand, Consistent
<1>2. /\ app' = [app EXCEPT ![s] = "APPROVED"]
      /\ user[EmailOf[s]] = Nobody
      /\ user' = [user EXCEPT ![EmailOf[s]] = s]
      /\ session' = [session EXCEPT ![s] = "APPROVED"]
      /\ contract' = [contract EXCEPT ![s] = "ACTIVE"]
      /\ UNCHANGED jobVars
  BY DEF Approve, Activate
<1>3. /\ marketerApproved \subseteq marketerApproved'
      /\ adminApproved' = adminApproved \cup {s}
      /\ s \in marketerApproved'
  BY <1>1, SignaturesGrow DEF Approve
<1>4. HandlersKnow'
  <2>1. OthersUncreated(h) /\ RowsKept
    BY <1>1, <1>2, <1>3 DEF OthersUncreated, RowsKept, KycInv, TypeOK
  <2> QED BY <2>1, KnowsDone DEF Approve
<1>5. Consistent' /\ OldApplications'
  BY <1>1, <1>2 DEF KycInv, TypeOK, Consistent, OldApplications, jobVars
<1>6. DualSignature'
  BY <1>1, <1>2, <1>3 DEF KycInv, TypeOK, DualSignature
<1>7. SessionOfUser'
  BY <1>1, <1>2, KycOnboardingAssumption DEF KycInv, TypeOK, SessionOfUser
<1> QED BY <1>4, <1>5, <1>6, <1>7 DEF KycInv

LEMMA RejectKeeps ==
  ASSUME KycInv, TypeOK', NEW h \in Handler, Reject(h)
  PROVE  KycInv'
<1> DEFINE s == handler[h].session
<1>1. s \in Session /\ app[s] # "NONE"
  BY DEF Reject, KycInv, HandlersKnow, KnowsSession, InHand
<1>2. /\ app' = [app EXCEPT ![s] = "REJECTED"]
      /\ contract' = [contract EXCEPT ![s] = "REJECTED"]
      /\ UNCHANGED <<sessionVars, marketerApproved, adminApproved, userVars, jobVars>>
  BY DEF Reject
<1>3. HandlersKnow'
  <2>1. OthersUncreated(h) /\ RowsKept
    BY <1>2 DEF OthersUncreated, RowsKept, KycInv, TypeOK, sessionVars
  <2> QED BY <2>1, KnowsDone DEF Reject
<1> QED BY <1>1, <1>2, <1>3 DEF KycInv, TypeOK, Consistent, OldApplications,
        DualSignature, SessionOfUser, sessionVars, userVars, jobVars

-----------------------------------------------------------------------------
LEMMA HandlerKeeps ==
  ASSUME KycInv, TypeOK', NEW h \in Handler, HandlerStep(h)
  PROVE  KycInv'
<1>1. ASSUME NEW s \in Session,
             \/ ReadNoSession(h, s) \/ ReadLiveSession(h, s) \/ ReadSession(h, s)
             \/ ReadForMarketer(h, s) \/ ReadForAdmin(h, s) \/ ReadForReject(h, s)
      PROVE  KycInv'
  <2>1. HandlersKnow' /\ UNCHANGED <<sessionVars, appVars, userVars, jobVars>>
    BY <1>1, ReadsKeep
  <2> QED BY <2>1, InvFrame DEF KycInv, OldApplications, sessionVars, appVars,
             userVars, jobVars
<1>2. ASSUME ResumeSession(h) \/ RequestFails(h) PROVE KycInv'
  <2>1. /\ handler[h].pc # "idle" /\ Done(h)
        /\ UNCHANGED <<session, appVars, userVars, jobVars>>
    BY <1>2 DEF ResumeSession, RequestFails, sessionVars
  <2>2. HandlersKnow'
    BY <2>1, KnowsDone DEF OthersUncreated, RowsKept, appVars
  <2> QED BY <2>1, <2>2, InvFrame DEF KycInv, OldApplications, appVars,
             userVars, jobVars
<1> QED BY <1>1, <1>2, CreateSessionKeeps, PersistKeeps, SignAsMarketerKeeps,
        AdminTooLateKeeps, ApproveKeeps, RejectKeeps DEF HandlerStep

LEMMA SweeperKeeps ==
  ASSUME KycInv, TypeOK', SweeperStep
  PROVE  KycInv'
<1>1. ASSUME Claim PROVE KycInv'
  <2>1. /\ UNCHANGED <<handler, appVars, userVars, retention>>
        /\ \A s \in Session : session'[s] # session[s]
               => session[s] \in LiveStatus /\ session'[s] = "EXPIRING"
    BY <1>1 DEF Claim, KycInv, TypeOK
  <2>2. \A s \in Session : /\ session'[s] = "NONE" <=> session[s] = "NONE"
                           /\ session'[s] = "APPROVED" <=> session[s] = "APPROVED"
    BY <2>1 DEF LiveStatus
  <2>3. HandlersKnow'
    BY <2>1, <2>2, KnowsFrame DEF RowsKept, appVars
  <2> QED BY <2>1, <2>2, <2>3 DEF KycInv, Consistent, OldApplications,
             DualSignature, SessionOfUser, appVars, userVars
<1>2. ASSUME NEW s \in Session, Expire(s) PROVE KycInv'
  <2>1. /\ UNCHANGED <<handler, marketerApproved, adminApproved, contract,
                       userVars, retention>>
        /\ \A t \in Session \ {s} : session'[t] = session[t] /\ app'[t] = app[t]
        /\ \/ session'[s] = session[s] /\ app'[s] = app[s]
           \/ /\ session[s] = "EXPIRING" /\ session'[s] = "EXPIRED"
              /\ app'[s] \in {"REJECTED", app[s]}
    BY <1>2 DEF Expire, KycInv, TypeOK
  <2>2. HandlersKnow'
    <3>1. RowsKept /\ \A t \in Session : session[t] = "NONE" => session'[t] = "NONE"
      BY <2>1 DEF RowsKept
    <3> QED BY <2>1, <3>1, KnowsFrame
  <2> QED BY <2>1, <2>2 DEF KycInv, TypeOK, Consistent, OldApplications,
             DualSignature, SessionOfUser, userVars
<1>3. ASSUME TakeBatch \/ EmptyBatch \/ SweeperCrash PROVE KycInv'
  <2>1. UNCHANGED <<sessionVars, appVars, userVars, handler, retention>>
    BY <1>3 DEF TakeBatch, EmptyBatch, SweeperCrash
  <2>2. HandlersKnow'
    BY <2>1, KnowsFrame DEF RowsKept, sessionVars, appVars
  <2> QED BY <2>1, <2>2, InvFrame DEF KycInv, OldApplications, sessionVars,
             appVars, userVars
<1> QED BY <1>1, <1>2, <1>3 DEF SweeperStep

LEMMA RetentionKeeps ==
  ASSUME KycInv, TypeOK', RetentionRun \/ RetentionCrash
  PROVE  KycInv'
<1>1. ASSUME StartRetention \/ RetentionCrash PROVE KycInv'
  <2>1. UNCHANGED <<sessionVars, app, marketerApproved, adminApproved, contract,
                    userVars, handler>>
    BY <1>1 DEF StartRetention, RetentionCrash, appVars
  <2>2. \A s \in retention' : app[s] # "NONE"
    BY <1>1 DEF StartRetention, RetentionCrash, OldPending
  <2>3. HandlersKnow'
    BY <2>1, KnowsFrame DEF RowsKept, sessionVars
  <2> QED BY <2>1, <2>2, <2>3, InvFrame DEF sessionVars, userVars
<1>2. ASSUME NEW s \in Session, RejectOld(s) PROVE KycInv'
  <2>1. /\ app[s] # "NONE"
        /\ app' = [app EXCEPT ![s] = "REJECTED"]
        /\ retention' = retention \ {s}
        /\ UNCHANGED <<sessionVars, marketerApproved, adminApproved, contract,
                       userVars, handler>>
    BY <1>2 DEF RejectOld, KycInv, OldApplications
  <2>2. HandlersKnow'
    BY <2>1, KnowsFrame DEF RowsKept, KycInv, TypeOK, sessionVars
  <2> QED BY <2>1, <2>2 DEF KycInv, TypeOK, Consistent, OldApplications,
             DualSignature, SessionOfUser, sessionVars, userVars
<1> QED BY <1>1, <1>2 DEF RetentionRun

LEMMA KycInvInit == Init => KycInv
<1> SUFFICES ASSUME Init PROVE KycInv
  OBVIOUS
<1>1. HandlersKnow
  BY DEF Init, HandlersKnow, KnowsSession, InHand, IdleHandler, HandlerAt
<1>2. Consistent /\ OldApplications /\ DualSignature /\ SessionOfUser
  BY KycOnboardingAssumption
     DEF Init, Consistent, OldApplications, DualSignature, SessionOfUser
<1> QED BY <1>1, <1>2, TypeInit DEF KycInv

LEMMA KycInvNext ==
  ASSUME KycInv, [Next]_vars
  PROVE  KycInv'
<1>1. TypeOK'
  BY TypeNext DEF KycInv
<1>2. ASSUME NEW e \in Email, RegisterDirectly(e) PROVE KycInv'
  <2>1. /\ user[e] = Nobody /\ user' = [user EXCEPT ![e] = Direct]
        /\ UNCHANGED <<sessionVars, appVars, handler, jobVars>>
    BY <1>2 DEF RegisterDirectly
  <2>2. HandlersKnow'
    BY <2>1, KnowsFrame DEF RowsKept, sessionVars, appVars
  <2>3. SessionOfUser'
    BY <2>1, KycOnboardingAssumption DEF KycInv, TypeOK, SessionOfUser, sessionVars
  <2> QED BY <1>1, <2>1, <2>2, <2>3 DEF KycInv, Consistent, OldApplications,
             DualSignature, sessionVars, appVars, jobVars
<1>3. ASSUME NEW s \in Session, Lapse(s) \/ FifteenDays(s) PROVE KycInv'
  <2>1. UNCHANGED <<session, app, marketerApproved, adminApproved, contract,
                    user, handler, retention>>
    BY <1>3 DEF Lapse, FifteenDays, sessionVars, appVars, userVars, jobVars
  <2>2. HandlersKnow'
    BY <2>1, KnowsFrame DEF RowsKept
  <2> QED BY <1>1, <2>1, <2>2, InvFrame DEF KycInv, OldApplications
<1>4. CASE UNCHANGED vars
  <2>1. HandlersKnow'
    BY <1>4, KnowsFrame DEF RowsKept, vars
  <2> QED BY <1>1, <1>4, <2>1, InvFrame DEF KycInv, OldApplications, vars
<1> QED BY <1>1, <1>2, <1>3, <1>4, HandlerKeeps, SweeperKeeps, RetentionKeeps DEF Next

-----------------------------------------------------------------------------
LEMMA KycInvHolds == Spec => []KycInv
<1>1. Init => KycInv
  BY KycInvInit
<1>2. KycInv /\ [Next]_vars => KycInv'
  BY KycInvNext
<1> QED BY <1>1, <1>2, PTL DEF Spec

\* Every variable keeps its type in every behaviour of registration,
\* submission, approval, sweeper and retention job.
THEOREM KycTypeHolds == Spec => []TypeOK
<1>1. KycInv => TypeOK
  BY DEF KycInv
<1> QED BY <1>1, KycInvHolds, PTL

\* No contract is active without the signatures approveApplication demands.
THEOREM DualSignatureHolds == Spec => []DualSignature
<1>1. KycInv => DualSignature
  BY DEF KycInv
<1> QED BY <1>1, KycInvHolds, PTL

\* A session is APPROVED exactly while it owns the User of its email, against
\* any number of concurrent registrations, submissions, approvals and sweeps.
THEOREM SessionOfUserHolds == Spec => []SessionOfUser
<1>1. KycInv => SessionOfUser
  BY DEF KycInv
<1> QED BY <1>1, KycInvHolds, PTL

-----------------------------------------------------------------------------
\* Which steps touch the application or the contract of a session.
LEMMA DecisionsTouch ==
  ASSUME KycInv, Next, NEW s \in Session
  PROVE  /\ contract'[s] # contract[s] =>
              \/ app[s] = "NONE"
              \/ user[EmailOf[s]] = Nobody
              \/ /\ contract'[s] = "REJECTED"
                 /\ \E h \in Handler : handler[h].pc = "reject" /\ handler[h].session = s
         /\ app[s] = "APPROVED" /\ app'[s] # "APPROVED" =>
              \/ \E h \in Handler : /\ handler[h].pc \in {"marketer", "reject"}
                                    /\ handler[h].session = s
              \/ s \in retention
<1> DEFINE Goal == /\ contract'[s] # contract[s] =>
                        \/ app[s] = "NONE"
                        \/ user[EmailOf[s]] = Nobody
                        \/ /\ contract'[s] = "REJECTED"
                           /\ \E h \in Handler : /\ handler[h].pc = "reject"
                                                 /\ handler[h].session = s
                   /\ app[s] = "APPROVED" /\ app'[s] # "APPROVED" =>
                        \/ \E h \in Handler : /\ handler[h].pc \in {"marketer", "reject"}
                                              /\ handler[h].session = s
                        \/ s \in retention
<1> USE DEF KycInv, TypeOK
<1>1. ASSUME NEW h \in Handler, HandlerStep(h) PROVE Goal
  <2>1. CASE PersistApplication(h)
    BY <2>1 DEF PersistApplication, WriteApplication
  <2>2. CASE SignAsMarketer(h)
    BY <2>2 DEF SignAsMarketer
  <2>3. CASE Approve(h)
    BY <2>3 DEF Approve, Activate
  <2>4. CASE Reject(h)
    BY <2>4 DEF Reject
  <2>5. CASE \/ CreateSession(h) \/ ResumeSession(h) \/ AdminTooLate(h) \/ RequestFails(h)
    BY <2>5 DEF CreateSession, ResumeSession, AdminTooLate, RequestFails, appVars
  <2>6. CASE \E t \in Session :
                \/ ReadNoSession(h, t) \/ ReadLiveSession(h, t) \/ ReadSession(h, t)
                \/ ReadForMarketer(h, t) \/ ReadForAdmin(h, t) \/ ReadForReject(h, t)
    <3>1. UNCHANGED appVars
      BY <2>6 DEF ReadNoSession, ReadLiveSession, ReadSession, ReadForMarketer,
                  ReadForAdmin, ReadForReject
    <3> QED BY <3>1 DEF appVars
  <2> QED BY <1>1, <2>1, <2>2, <2>3, <2>4, <2>5, <2>6 DEF HandlerStep
<1>2. ASSUME NEW t \in Session, Expire(t) PROVE Goal
  <2>1. app[s] = "APPROVED" => session[s] # "EXPIRING"
    BY DEF Consistent
  <2> QED BY <1>2, <2>1 DEF Expire
<1>3. ASSUME NEW t \in Session, RejectOld(t) PROVE Goal
  BY <1>3 DEF RejectOld
<1>4. ASSUME \/ \E e \in Email : RegisterDirectly(e)
             \/ \E t \in Session : Lapse(t) \/ FifteenDays(t)
             \/ Claim \/ TakeBatch \/ EmptyBatch \/ SweeperCrash
             \/ StartRetention \/ RetentionCrash
      PROVE  Goal
  BY <1>4 DEF RegisterDirectly, Lapse, FifteenDays, Claim, TakeBatch, EmptyBatch,
              SweeperCrash, StartRetention, RetentionCrash, appVars
<1> HIDE DEF Goal, KycInv, TypeOK
<1>5. Goal
  BY <1>1, <1>2, <1>3, <1>4 DEF Next, SweeperStep, RetentionRun
<1> QED BY <1>5 DEF Goal

\* A customer loses the contract only to an admin's rejection: no other
\* request, sweep or retention run of any length takes it or gives it twice.
THEOREM ActivatedOnceHolds == Spec => ActivatedOnce
<1>1. KycInv /\ [Next]_vars => [LostToRejection]_vars
  <2> SUFFICES ASSUME KycInv, Next, NEW s \in Session,
                      contract'[s] # contract[s], user[EmailOf[s]] = s
               PROVE  /\ contract'[s] = "REJECTED"
                      /\ \E h \in Handler : /\ handler[h].pc = "reject"
                                            /\ handler[h].session = s
    BY DEF LostToRejection
  <2>1. app[s] # "NONE" /\ user[EmailOf[s]] # Nobody
    BY KycOnboardingAssumption DEF KycInv, SessionOfUser, Consistent
  <2> QED BY <2>1, DecisionsTouch
<1> QED BY <1>1, KycInvHolds, PTL DEF ActivatedOnce, Spec

\* An approval is undone only by a request or a retention run in flight.
THEOREM UndoneByStaleReadHolds == Spec => UndoneByStaleRead
<1>1. KycInv /\ [Next]_vars => [UndoneByRequest]_vars
  BY DecisionsTouch DEF UndoneByRequest
<1> QED BY <1>1, KycInvHolds, PTL DEF UndoneByStaleRead, Spec

-----------------------------------------------------------------------------
(* What a customer has: one active contract, and a password unless the     *)
(* sweeper took it first.                                                  *)

\* An active contract is of the session its email's User was made from, so the
\* sessions of one email, however many were registered, submitted and approved at
\* the same time, have one active contract together.
OneActiveContract ==
    \A s, t \in Session :
        contract[s] = "ACTIVE" /\ contract[t] = "ACTIVE" /\ EmailOf[s] = EmailOf[t] => s = t

\* What the code keeps of "the password they set at registration was carried into
\* the User": only a session that has no password any more gives a User none.
KeylessHasNoPassword == \A s \in keyless : user[EmailOf[s]] = s /\ s \notin password

\* Only the sweeper takes the password of a session, and only of a live one that
\* had lapsed.
LosesPassword ==
    \A s \in password \ password' :
        s \in lapsed /\ session[s] \in LiveStatus /\ session'[s] = "EXPIRING"

BlankedBySweeper == [][LosesPassword]_vars

\* What an approver knows of the password he has read stays true if it was "".
CustomerInv ==
    /\ \A s \in Session : contract[s] = "ACTIVE" => user[EmailOf[s]] = s
    /\ KeylessHasNoPassword
    /\ \A h \in Handler : handler[h].pc = "admin" /\ ~handler[h].key =>
                             handler[h].session \notin password

\* Nobody takes the User of an email.
LEMMA UserStays ==
  ASSUME KycInv, [Next]_vars, NEW e \in Email, user[e] # Nobody
  PROVE  user'[e] = user[e]
<1> USE DEF KycInv, TypeOK
<1>1. ASSUME NEW h \in Handler, HandlerStep(h) PROVE user'[e] = user[e]
  <2>1. CASE Approve(h)
    <3>1. /\ user[EmailOf[handler[h].session]] = Nobody
          /\ user' = [user EXCEPT ![EmailOf[handler[h].session]] = handler[h].session]
      BY <2>1 DEF Approve, Activate
    <3> QED BY <3>1
  <2>2. CASE ~Approve(h)
    BY <1>1, <2>2 DEF HandlerStep, ReadNoSession, ReadLiveSession, ReadSession,
         ReadForMarketer, ReadForAdmin, ReadForReject, CreateSession, ResumeSession,
         PersistApplication, SignAsMarketer, AdminTooLate, Reject, RequestFails, userVars
  <2> QED BY <2>1, <2>2
<1>2. ASSUME NEW d \in Email, RegisterDirectly(d) PROVE user'[e] = user[e]
  BY <1>2 DEF RegisterDirectly
<1>3. ASSUME \/ \E s \in Session : Lapse(s) \/ FifteenDays(s)
             \/ SweeperStep \/ RetentionRun \/ RetentionCrash \/ UNCHANGED vars
      PROVE  UNCHANGED user
  BY <1>3 DEF Lapse, FifteenDays, SweeperStep, Claim, TakeBatch, EmptyBatch, SweeperCrash,
       Expire, RetentionRun, StartRetention, RejectOld, RetentionCrash, userVars, vars
<1> HIDE DEF KycInv, TypeOK
<1> QED BY <1>1, <1>2, <1>3 DEF Next

\* Passwords come with new sessions and go with the sweeper's claim.
LEMMA PasswordSteps ==
  ASSUME KycInv, [Next]_vars
  PROVE  /\ \A s \in password' \ password :
              \E h \in Handler : CreateSession(h) /\ handler[h].session = s
         /\ LosesPassword
<1> DEFINE Goal == /\ \A s \in password' \ password :
                        \E h \in Handler : CreateSession(h) /\ handler[h].session = s
                   /\ LosesPassword
<1>1. ASSUME UNCHANGED password PROVE Goal
  BY <1>1 DEF LosesPassword
<1>2. ASSUME NEW h \in Handler, HandlerStep(h) PROVE Goal
  <2>1. CASE CreateSession(h)
    BY <2>1 DEF CreateSession, LosesPassword
  <2>2. CASE ~CreateSession(h)
    <3>1. UNCHANGED password
      BY <1>2, <2>2 DEF HandlerStep, ReadNoSession, ReadLiveSession, ReadSession,
         ReadForMarketer, ReadForAdmin, ReadForReject, ResumeSession, PersistApplication,
         SignAsMarketer, AdminTooLate, Approve, Reject, RequestFails, sessionVars
    <3> QED BY <1>1, <3>1
  <2> QED BY <2>1, <2>2
<1>3. CASE Claim
  <2>1. /\ password' = password \ {s \in lapsed : session[s] \in LiveStatus}
        /\ session' = [s \in Session |-> IF s \in {t \in lapsed : session[t] \in LiveStatus}
                                         THEN "EXPIRING" ELSE session[s]]
    BY <1>3 DEF Claim
  <2>2. password \subseteq Session
    BY DEF KycInv, TypeOK
  <2> QED BY <2>1, <2>2 DEF LosesPassword
<1>4. ASSUME \/ \E e \in Email : RegisterDirectly(e)
             \/ \E s \in Session : Lapse(s) \/ FifteenDays(s) \/ Expire(s)
             \/ TakeBatch \/ EmptyBatch \/ SweeperCrash
             \/ RetentionRun \/ RetentionCrash \/ UNCHANGED vars
      PROVE  UNCHANGED password
  BY <1>4 DEF RegisterDirectly, Lapse, FifteenDays, TakeBatch, EmptyBatch, SweeperCrash,
       Expire, RetentionRun, StartRetention, RejectOld, RetentionCrash, sessionVars, vars
<1> QED BY <1>1, <1>2, <1>3, <1>4 DEF Next, SweeperStep

\* A contract becomes active for the User that is created with it.
LEMMA ActivationGivesUser ==
  ASSUME KycInv, [Next]_vars, NEW s \in Session
  PROVE  \/ /\ contract'[s] = "ACTIVE" => contract[s] = "ACTIVE"
            /\ s \in keyless' => s \in keyless
         \/ \E h \in Handler :
              /\ Approve(h) /\ handler[h].session = s
              /\ user'[EmailOf[s]] = s
              /\ s \in keyless' => s \in keyless \/ ~handler[h].key
<1> DEFINE Same == /\ contract'[s] = "ACTIVE" => contract[s] = "ACTIVE"
                   /\ s \in keyless' => s \in keyless
           Gives == \E h \in Handler :
              /\ Approve(h) /\ handler[h].session = s
              /\ user'[EmailOf[s]] = s
              /\ s \in keyless' => s \in keyless \/ ~handler[h].key
<1> USE DEF KycInv, TypeOK
<1>1. ASSUME NEW h \in Handler, HandlerStep(h) PROVE Same \/ Gives
  <2>1. CASE Approve(h)
    <3> DEFINE t == handler[h].session
    <3>1. /\ user' = [user EXCEPT ![EmailOf[t]] = t]
          /\ keyless' = IF handler[h].key THEN keyless ELSE keyless \cup {t}
          /\ contract' = [contract EXCEPT ![t] = "ACTIVE"]
      BY <2>1 DEF Approve, Activate
    <3>2. EmailOf[s] \in Email
      BY KycOnboardingAssumption
    <3>3. CASE t = s
      BY <2>1, <3>1, <3>2, <3>3
    <3>4. CASE t # s
      BY <3>1, <3>4
    <3> QED BY <3>3, <3>4
  <2>2. CASE PersistApplication(h)
    BY <2>2 DEF PersistApplication, WriteApplication, userVars
  <2>3. CASE Reject(h)
    BY <2>3 DEF Reject, userVars
  <2>4. CASE ~Approve(h) /\ ~PersistApplication(h) /\ ~Reject(h)
    BY <1>1, <2>4 DEF HandlerStep, ReadNoSession, ReadLiveSession, ReadSession,
       ReadForMarketer, ReadForAdmin, ReadForReject, CreateSession, ResumeSession,
       SignAsMarketer, AdminTooLate, RequestFails, appVars, userVars
  <2> QED BY <2>1, <2>2, <2>3, <2>4
<1>2. ASSUME \/ \E e \in Email : RegisterDirectly(e)
             \/ \E t \in Session : Lapse(t) \/ FifteenDays(t)
             \/ SweeperStep \/ RetentionRun \/ RetentionCrash \/ UNCHANGED vars
      PROVE  UNCHANGED <<contract, keyless>>
  BY <1>2 DEF RegisterDirectly, Lapse, FifteenDays, SweeperStep, Claim, TakeBatch, EmptyBatch,
       SweeperCrash, Expire, RetentionRun, StartRetention, RejectOld, RetentionCrash,
       appVars, userVars, vars
<1> HIDE DEF KycInv, TypeOK
<1> QED BY <1>1, <1>2 DEF Next

\* An approver reads the password when it reads the application.
LEMMA ApproversCome ==
  ASSUME KycInv, [Next]_vars, NEW h \in Handler, handler'[h].pc = "admin"
  PROVE  \/ handler'[h] = handler[h]
         \/ /\ handler'[h].key <=> handler'[h].session \in password
            /\ UNCHANGED password
<1>0. handler \in [Handler -> HandlerState]
  BY DEF KycInv, TypeOK
<1>1. ASSUME NEW g \in Handler, HandlerStep(g), g # h PROVE handler'[h] = handler[h]
  BY <1>0, <1>1 DEF HandlerStep, ReadNoSession, ReadLiveSession, ReadSession, ReadForMarketer,
     ReadForAdmin, ReadForReject, CreateSession, ResumeSession, PersistApplication,
     SignAsMarketer, AdminTooLate, Approve, Reject, RequestFails, Done, Goto
<1>2. ASSUME HandlerStep(h)
      PROVE  /\ handler'[h].key <=> handler'[h].session \in password
             /\ UNCHANGED password
  <2>1. CASE \E s \in Session : ReadForAdmin(h, s)
    <3>1. PICK s \in Session : /\ Goto(h, HandlerAt("admin", s, s \in password))
                               /\ UNCHANGED sessionVars
      BY <2>1 DEF ReadForAdmin
    <3>2. PICK b \in BOOLEAN : b <=> s \in password
      OBVIOUS
    <3>3. HandlerAt("admin", s, s \in password) = HandlerAt("admin", s, b)
      BY <3>2, Zenon
    <3>4. handler'[h] = HandlerAt("admin", s, b)
      BY <1>0, <3>1, <3>3 DEF Goto
    <3>5. handler'[h].key = b /\ handler'[h].session = s
      BY <3>4 DEF HandlerAt
    <3> QED BY <3>1, <3>2, <3>5 DEF sessionVars
  <2>2. ASSUME NEW s \in Session,
               \/ ReadNoSession(h, s) \/ ReadLiveSession(h, s) \/ ReadSession(h, s)
               \/ ReadForMarketer(h, s) \/ ReadForReject(h, s)
        PROVE  handler'[h].pc # "admin"
    BY <1>0, <2>2 DEF ReadNoSession, ReadLiveSession, ReadSession, ReadForMarketer,
       ReadForReject, Goto, HandlerAt
  <2>3. ASSUME Done(h) PROVE handler'[h].pc # "admin"
    BY <1>0, <2>3 DEF Done, Goto, IdleHandler, HandlerAt
  <2> QED BY <1>2, <2>1, <2>2, <2>3 DEF HandlerStep, CreateSession, ResumeSession,
       PersistApplication, SignAsMarketer, AdminTooLate, Approve, Reject, RequestFails
<1>3. ASSUME \/ \E e \in Email : RegisterDirectly(e)
             \/ \E t \in Session : Lapse(t) \/ FifteenDays(t)
             \/ SweeperStep \/ RetentionRun \/ RetentionCrash \/ UNCHANGED vars
      PROVE  UNCHANGED handler
  BY <1>3 DEF RegisterDirectly, Lapse, FifteenDays, SweeperStep, Claim, TakeBatch, EmptyBatch,
       SweeperCrash, Expire, RetentionRun, StartRetention, RejectOld, RetentionCrash, vars
<1> QED BY <1>1, <1>2, <1>3 DEF Next

LEMMA CustomerNext ==
  ASSUME KycInv, KycInv', [Next]_vars, CustomerInv
  PROVE  CustomerInv'
<1> USE DEF CustomerInv, KeylessHasNoPassword
<1>1. ASSUME NEW s \in Session, user[EmailOf[s]] = s PROVE user'[EmailOf[s]] = s
  BY <1>1, UserStays, KycOnboardingAssumption
<1>2. ASSUME NEW s \in Session, s \in password', s \notin password
      PROVE  /\ session[s] = "NONE"
             /\ \A h \in Handler : handler[h].session = s => handler[h].pc = "create"
  <2>1. PICK h \in Handler : CreateSession(h) /\ handler[h].session = s
    BY <1>2, PasswordSteps
  <2>2. KnowsSession(h) /\ handler[h].pc = "create"
    BY <2>1 DEF CreateSession, KycInv, HandlersKnow
  <2> QED BY <2>1, <2>2 DEF KnowsSession
<1>3. ASSUME NEW h \in Handler, handler[h].pc = "admin" PROVE handler[h].session \in Session
  BY <1>3 DEF KycInv, HandlersKnow, KnowsSession, InHand
<1>4. ASSUME NEW s \in Session, contract'[s] = "ACTIVE" PROVE user'[EmailOf[s]] = s
  BY <1>1, <1>4, ActivationGivesUser
<1>5. ASSUME NEW s \in keyless' PROVE user'[EmailOf[s]] = s /\ s \notin password'
  <2>1. s \in Session
    BY DEF KycInv, TypeOK
  <2>2. CASE s \in keyless
    <3>1. user[EmailOf[s]] = s /\ s \notin password
      BY <2>2
    <3>2. session[s] = "APPROVED"
      BY <2>1, <3>1 DEF KycInv, SessionOfUser
    <3> QED BY <1>1, <1>2, <2>1, <3>1, <3>2
  <2>3. CASE s \notin keyless
    <3>1. PICK h \in Handler : /\ Approve(h) /\ handler[h].session = s
                               /\ user'[EmailOf[s]] = s /\ ~handler[h].key
      BY <2>1, <2>3, ActivationGivesUser
    <3>2. handler[h].pc = "admin"
      BY <3>1 DEF Approve
    <3>3. s \notin password
      BY <3>1, <3>2
    <3> QED BY <1>2, <2>1, <3>1, <3>2, <3>3
  <2> QED BY <2>2, <2>3
<1>6. ASSUME NEW h \in Handler, handler'[h].pc = "admin", ~handler'[h].key
      PROVE  handler'[h].session \notin password'
  <2>1. CASE handler'[h] = handler[h]
    <3>1. handler[h].session \notin password /\ handler[h].session \in Session
      BY <1>3, <1>6, <2>1
    <3> QED BY <1>2, <1>6, <2>1, <3>1
  <2>2. CASE UNCHANGED password /\ (handler'[h].key <=> handler'[h].session \in password)
    BY <1>6, <2>2
  <2> QED BY <1>6, <2>1, <2>2, ApproversCome
<1> QED BY <1>4, <1>5, <1>6

LEMMA CustomerHolds == Spec => [](KycInv /\ CustomerInv)
<1>1. Init => KycInv /\ CustomerInv
  <2>1. Init => CustomerInv
    BY DEF Init, CustomerInv, KeylessHasNoPassword, IdleHandler, HandlerAt
  <2> QED BY <2>1, KycInvInit
<1>2. KycInv /\ CustomerInv /\ [Next]_vars => (KycInv /\ CustomerInv)'
  <2> SUFFICES ASSUME KycInv, CustomerInv, [Next]_vars PROVE KycInv' /\ CustomerInv'
    OBVIOUS
  <2>1. KycInv'
    BY KycInvNext
  <2> QED BY <2>1, CustomerNext
<1> QED BY <1>1, <1>2, PTL DEF Spec

\* One customer, one active contract: registrations and approvals of several
\* sessions of an email, in any order, never make two (approveApplication).
THEOREM OneActiveContractHolds == Spec => []OneActiveContract
<1>1. KycInv /\ CustomerInv => OneActiveContract
  BY DEF CustomerInv, OneActiveContract
<1> QED BY <1>1, CustomerHolds, PTL

\* A User without a password was made from a session that has none left.
THEOREM KeylessHasNoPasswordHolds == Spec => []KeylessHasNoPassword
<1>1. KycInv /\ CustomerInv => KeylessHasNoPassword
  BY DEF CustomerInv
<1> QED BY <1>1, CustomerHolds, PTL

\* And a session loses its password to the sweeper alone, once it has lapsed.
THEOREM BlankedBySweeperHolds == Spec => BlankedBySweeper
<1>1. KycInv /\ [Next]_vars => [LosesPassword]_vars
  BY PasswordSteps
<1> QED BY <1>1, KycInvHolds, PTL DEF BlankedBySweeper, Spec
=============================================================================
