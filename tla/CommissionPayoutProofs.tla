------------------------ MODULE CommissionPayoutProofs ------------------------
(***************************************************************************)
(* Theorems about CommissionPayout for every pool of payouts, handlers,    *)
(* workers and webhooks and every bound: nothing is sent unsigned, nothing *)
(* is PAID without word from Paystack, a request reserves what was asked,  *)
(* oldest commissions first, and only what is free, the reserved amounts   *)
(* are the RESERVED allocations as long as no read goes stale, and a       *)
(* payout is paid or released as a whole even where reads do.              *)
(*                                                                         *)
(* Signatures are never taken back, so whatever a process, a job or an     *)
(* event knew of the signatures of its payout stays true while other       *)
(* processes move the payout's status back and forth: SignedInv says what  *)
(* each of them knows.  What a step does to the money needs the types      *)
(* (TypeInv), which need SignedInv for the payouts the processes name, and *)
(* that a payout not requested yet has no allocation (KnownInv), which     *)
(* holds because every other step concerns a payout somebody has seen.     *)
(***************************************************************************)
EXTENDS CommissionPayout, SumTheorems, TLAPS

AdminSigned(p) == AdminFirst => "admin" \in signed[p]
FullySigned(p) == "company" \in signed[p] /\ AdminSigned(p)

Unsigned == {"NONE", "PENDING_ADMIN_APPROVAL", "PENDING_COMPANY_APPROVAL"}

SignatureType == signed \in [Payout -> SUBSET {"admin", "company"}]

StatusSigned ==
    /\ pstatus \in [Payout -> PayoutStatus]
    /\ \A p \in Payout :
         /\ pstatus[p] = "PENDING_COMPANY_APPROVAL" => AdminSigned(p)
         /\ pstatus[p] \notin Unsigned => FullySigned(p)

\* What a handler is doing with payout p, and what it knows of it.
ApiKnows(pc, p) ==
    /\ pc \notin {"idle", "asking"} => p \in Payout
    /\ pc = "company" => AdminSigned(p)
    /\ pc \in {"failed", "rereserve", "reversed", "initiate", "enqueue"}
         => FullySigned(p)

ApiSigned ==
    /\ api = [h \in Handler |-> api[h]]
    /\ \A h \in Handler :
         /\ api[h] = [pc |-> api[h].pc, payout |-> api[h].payout, snap |-> api[h].snap]
         /\ ApiKnows(api[h].pc, api[h].payout)

JobSigned(j) == /\ j = [payout |-> j.payout, n |-> j.n, left |-> j.left]
                /\ j.payout \in Payout
                /\ FullySigned(j.payout)

JobsSigned == \A j \in jobs : JobSigned(j)

WorkersSigned ==
    /\ worker = [w \in Worker |-> worker[w]]
    /\ \A w \in Worker : worker[w].pc # "idle" =>
         /\ worker[w] = [pc |-> worker[w].pc, job |-> worker[w].job]
         /\ JobSigned(worker[w].job)

EventSigned(e) == e.payout \in Payout /\ e.kind \in Kind /\ FullySigned(e.payout)

EventsSigned == \A e \in events : EventSigned(e)

HooksSigned ==
    /\ hook = [k \in Hook |-> hook[k]]
    /\ \A k \in Hook : hook[k].pc # "idle" =>
         /\ hook[k] = [pc |-> hook[k].pc, event |-> hook[k].event,
                       snap |-> hook[k].snap]
         /\ EventSigned(hook[k].event)

TransfersSigned ==
    /\ transfer = [p \in Payout |-> transfer[p]]
    /\ SignedBeforeSent

SignedInv ==
    /\ SignatureType /\ StatusSigned /\ ApiSigned /\ JobsSigned
    /\ WorkersSigned /\ EventsSigned /\ HooksSigned /\ TransfersSigned

-----------------------------------------------------------------------------
LEMMA SignedInit == Init => SignedInv
<1> SUFFICES ASSUME Init PROVE SignedInv
  OBVIOUS
<1>1. SignatureType /\ StatusSigned
  BY DEF Init, SignatureType, StatusSigned, Unsigned, PayoutStatus
<1>2. ApiSigned
  BY DEF Init, ApiSigned, ApiKnows, IdleApi, ApiAt
<1>3. WorkersSigned /\ HooksSigned
  BY DEF Init, WorkersSigned, HooksSigned, IdleWorker, IdleHook
<1>4. JobsSigned /\ EventsSigned /\ TransfersSigned
  BY DEF Init, JobsSigned, EventsSigned, TransfersSigned, SignedBeforeSent
<1> QED BY <1>1, <1>2, <1>3, <1>4 DEF SignedInv

\* Signatures only grow, in every step.
SignaturesKept ==
    /\ SignatureType'
    /\ \A p \in Payout : /\ AdminSigned(p) => AdminSigned(p)'
                         /\ FullySigned(p) => FullySigned(p)'

LEMMA KeptAlways ==
  ASSUME SignedInv, [Next]_vars
  PROVE  SignaturesKept
<1>1. CASE UNCHANGED signed
  BY <1>1 DEF SignaturesKept, AdminSigned, FullySigned, SignedInv, SignatureType
<1>2. ASSUME NEW h \in Handler, Approve(h) PROVE SignaturesKept
  <2>1. \A p \in Payout : signed[p] \subseteq signed'[p]
    BY <1>2 DEF Approve, SignedInv, SignatureType
  <2>2. SignatureType'
    BY <1>2 DEF Approve, SignedInv, SignatureType
  <2> QED BY <2>1, <2>2 DEF SignaturesKept, AdminSigned, FullySigned
<1>3. ASSUME NEW h \in Handler, \/ ApiStep(h) /\ ~Approve(h)
                                \/ CrashApi(h) \/ AskPayout(h)
                                \/ \E p \in Payout : ReadApproval(h, p) \/ ReadInitiatable(h, p)
      PROVE  UNCHANGED signed
  BY <1>3 DEF ApiStep, ReservePayout, ReadReleased, ReserveReleased, Reapprove,
              MarkInitiated, Enqueue, CrashApi, AskPayout, ReadApproval,
              ReadInitiatable, rows
<1>4. ASSUME NEW w \in Worker, WorkerStep(w) \/ CrashWorker(w)
      PROVE  UNCHANGED signed
  BY <1>4 DEF WorkerStep, CrashWorker, TakeJob, CallPaystack, SaveCode,
              FailAttempt, MarkTransferFailed, rows
<1>5. ASSUME NEW k \in Hook, HookStep(k) \/ CrashHook(k)
      PROVE  UNCHANGED signed
  BY <1>5 DEF HookStep, CrashHook, Deliver, ReadPayout, ApplyEvent,
              MarkProcessed, rows
<1>6. ASSUME NEW c \in Commission, Accrue(c) PROVE UNCHANGED signed
  BY <1>6 DEF Accrue
<1>7. ASSUME NEW p \in Payout, SettleTransfer(p) PROVE UNCHANGED signed
  BY <1>7 DEF SettleTransfer, rows
<1>8. CASE UNCHANGED vars
  BY <1>8, <1>1 DEF vars, rows
<1> QED BY <1>1, <1>2, <1>3, <1>4, <1>5, <1>6, <1>7, <1>8 DEF Next

-----------------------------------------------------------------------------
(* What a step leaves alone stays signed.                                  *)

LEMMA StatusFrame ==
  ASSUME SignedInv, SignaturesKept, UNCHANGED pstatus
  PROVE  StatusSigned'
BY DEF SignedInv, SignaturesKept, StatusSigned

LEMMA ApiFrame ==
  ASSUME SignedInv, SignaturesKept, UNCHANGED api
  PROVE  ApiSigned'
BY DEF SignedInv, SignaturesKept, ApiSigned, ApiKnows

LEMMA JobStaysSigned ==
  ASSUME SignaturesKept, NEW j, JobSigned(j)
  PROVE  JobSigned(j)'
BY DEF SignaturesKept, JobSigned

LEMMA JobsFrame ==
  ASSUME SignedInv, SignaturesKept, jobs' \subseteq jobs
  PROVE  JobsSigned'
BY JobStaysSigned DEF SignedInv, JobsSigned

LEMMA WorkersFrame ==
  ASSUME SignedInv, SignaturesKept, UNCHANGED worker
  PROVE  WorkersSigned'
BY DEF SignedInv, SignaturesKept, WorkersSigned, JobSigned

LEMMA EventStaysSigned ==
  ASSUME SignaturesKept, NEW e, EventSigned(e)
  PROVE  EventSigned(e)'
BY DEF SignaturesKept, EventSigned

LEMMA EventsFrame ==
  ASSUME SignedInv, SignaturesKept, UNCHANGED events
  PROVE  EventsSigned'
BY EventStaysSigned DEF SignedInv, EventsSigned

LEMMA HooksFrame ==
  ASSUME SignedInv, SignaturesKept, UNCHANGED hook
  PROVE  HooksSigned'
BY DEF SignedInv, SignaturesKept, HooksSigned, EventSigned

LEMMA TransfersFrame ==
  ASSUME SignedInv, SignaturesKept, UNCHANGED transfer
  PROVE  TransfersSigned'
<1>1. \A p \in Payout : transfer[p] # "none" => FullySigned(p)
  BY DEF SignedInv, TransfersSigned, SignedBeforeSent, FullySigned, AdminSigned
<1>2. \A p \in Payout : transfer'[p] # "none" => FullySigned(p)'
  BY <1>1 DEF SignaturesKept
<1>3. SignedBeforeSent'
  BY <1>2 DEF SignedBeforeSent, FullySigned, AdminSigned
<1>4. (transfer = [p \in Payout |-> transfer[p]])'
  BY DEF SignedInv, TransfersSigned
<1> QED BY <1>3, <1>4 DEF TransfersSigned

\* It is enough to look at the parts a step changes.
LEMMA ChangedParts ==
  ASSUME SignedInv, SignaturesKept,
         StatusSigned' \/ UNCHANGED pstatus,
         ApiSigned' \/ UNCHANGED api,
         JobsSigned' \/ jobs' \subseteq jobs,
         WorkersSigned' \/ UNCHANGED worker,
         EventsSigned' \/ UNCHANGED events,
         HooksSigned' \/ UNCHANGED hook,
         TransfersSigned' \/ UNCHANGED transfer
  PROVE  SignedInv'
<1>1. SignatureType'
  BY DEF SignaturesKept
<1>2. StatusSigned' /\ ApiSigned'
  BY StatusFrame, ApiFrame
<1>3. JobsSigned' /\ WorkersSigned'
  BY JobsFrame, WorkersFrame
<1>4. EventsSigned' /\ HooksSigned'
  BY EventsFrame, HooksFrame
<1>5. TransfersSigned'
  BY TransfersFrame
<1> QED BY <1>1, <1>2, <1>3, <1>4, <1>5 DEF SignedInv

-----------------------------------------------------------------------------
(* The API handlers.                                                       *)

\* A handler that moves may forget, or keep what it knew, or learn from a
\* status; the others know what they knew.
LEMMA ApiMoves ==
  ASSUME SignedInv, SignaturesKept, NEW h \in Handler, NEW pc, NEW p, NEW s,
         api' = [api EXCEPT ![h] = [pc |-> pc, payout |-> p, snap |-> s]],
         ApiKnows(pc, p)
  PROVE  ApiSigned'
<1>1. (api = [i \in Handler |-> api[i]])'
  BY DEF SignedInv, ApiSigned
<1>2. ASSUME NEW i \in Handler
      PROVE  (/\ api[i] = [pc |-> api[i].pc, payout |-> api[i].payout, snap |-> api[i].snap]
              /\ ApiKnows(api[i].pc, api[i].payout))'
  <2>1. CASE i = h
    BY <2>1 DEF SignedInv, SignaturesKept, ApiSigned, ApiKnows
  <2>2. CASE i # h
    BY <2>2 DEF SignedInv, SignaturesKept, ApiSigned, ApiKnows
  <2> QED BY <2>1, <2>2
<1> QED BY <1>1, <1>2 DEF ApiSigned

LEMMA ApiStops ==
  ASSUME SignedInv, SignaturesKept, NEW h \in Handler,
         api' = [api EXCEPT ![h] = IdleApi]
  PROVE  ApiSigned'
<1>1. IdleApi = [pc |-> "idle", payout |-> NoPayout, snap |-> NoSnapshot]
  BY DEF IdleApi, ApiAt
<1>2. ApiKnows("idle", NoPayout)
  BY DEF ApiKnows
<1> QED BY <1>1, <1>2, ApiMoves

LEMMA ApiStarts ==
  ASSUME SignedInv, SignaturesKept, NEW h \in Handler, NEW pc, NEW p,
         api' = [api EXCEPT ![h] = ApiAt(pc, p)], ApiKnows(pc, p)
  PROVE  ApiSigned'
<1>1. ApiAt(pc, p) = [pc |-> pc, payout |-> p, snap |-> NoSnapshot]
  BY DEF ApiAt
<1> QED BY <1>1, ApiMoves

LEMMA ApiGoesOn ==
  ASSUME SignedInv, SignaturesKept, NEW h \in Handler, NEW pc,
         api' = [api EXCEPT ![h].pc = pc], ApiKnows(pc, api[h].payout)
  PROVE  ApiSigned'
<1>1. PICK p, s : p = api[h].payout /\ s = api[h].snap
  OBVIOUS
<1>2. api[h] = [pc |-> api[h].pc, payout |-> p, snap |-> s]
  BY <1>1 DEF SignedInv, ApiSigned
<1>3. [api[h] EXCEPT !.pc = pc] = [pc |-> pc, payout |-> p, snap |-> s]
  BY <1>2
<1>4. api' = [api EXCEPT ![h] = [pc |-> pc, payout |-> p, snap |-> s]]
  BY <1>3
<1> QED BY <1>1, <1>4, ApiMoves

\* A status a payout may be given: the signatures it stands for are there.
LEMMA StatusMoves ==
  ASSUME SignedInv, SignaturesKept, NEW p \in Payout, NEW s \in PayoutStatus,
         pstatus' = [pstatus EXCEPT ![p] = s],
         s = "PENDING_COMPANY_APPROVAL" => AdminSigned(p)',
         s \notin Unsigned => FullySigned(p)'
  PROVE  StatusSigned'
BY DEF SignedInv, SignaturesKept, StatusSigned

LEMMA HandlerKnows ==
  ASSUME SignedInv, NEW h \in Handler
  PROVE  ApiKnows(api[h].pc, api[h].payout)
BY DEF SignedInv, ApiSigned

\* An initial request has the signatures its first status asks for.
LEMMA ReservePayoutSigned ==
  ASSUME SignedInv, SignaturesKept, NEW h \in Handler, ReservePayout(h)
  PROVE  SignedInv'
<1>1. ApiSigned'
  BY ApiStops DEF ReservePayout
<1>2. StatusSigned' \/ UNCHANGED pstatus
  <2>1. UNCHANGED pstatus \/ \E p \in Payout :
           pstatus' = [pstatus EXCEPT ![p] =
                         IF AdminFirst THEN "PENDING_ADMIN_APPROVAL"
                                       ELSE "PENDING_COMPANY_APPROVAL"]
    BY DEF ReservePayout, rows
  <2>2. ASSUME NEW p \in Payout,
               pstatus' = [pstatus EXCEPT ![p] =
                             IF AdminFirst THEN "PENDING_ADMIN_APPROVAL"
                                           ELSE "PENDING_COMPANY_APPROVAL"]
        PROVE  StatusSigned'
    <3>1. CASE AdminFirst
      BY <2>2, <3>1, StatusMoves DEF PayoutStatus, InProgress, Unsigned
    <3>2. CASE ~AdminFirst
      BY <2>2, <3>2, StatusMoves DEF PayoutStatus, InProgress, Unsigned, AdminSigned
    <3> QED BY <3>1, <3>2
  <2> QED BY <2>1, <2>2
<1>3. UNCHANGED <<jobs, worker, transfer, events, hook>>
  BY DEF ReservePayout, queue, paystack
<1> QED BY <1>1, <1>2, <1>3, ChangedParts

LEMMA ApproveSigned ==
  ASSUME SignedInv, SignaturesKept, NEW h \in Handler, Approve(h)
  PROVE  SignedInv'
<1>1. api' = [api EXCEPT ![h] = IdleApi]
  BY DEF Approve
<1>2. ApiSigned'
  BY <1>1, ApiStops
<1>3. PICK p \in Payout : p = api[h].payout /\ (api[h].pc = "company" => AdminSigned(p))
  BY HandlerKnows DEF Approve, ApiKnows
<1>4. api[h].pc \in signed'[p]
  BY <1>3 DEF Approve, SignedInv, SignatureType
<1>5. CASE api[h].pc = "admin"
  <2>1. pstatus' = [pstatus EXCEPT ![p] = "PENDING_COMPANY_APPROVAL"]
    BY <1>3, <1>5 DEF Approve
  <2>2. StatusSigned'
    BY <2>1, <1>4, <1>5, StatusMoves DEF AdminSigned, PayoutStatus, InProgress, Unsigned
  <2> QED BY <1>2, <2>2, ChangedParts DEF Approve, queue, paystack
<1>6. CASE api[h].pc = "company"
  <2>1. pstatus' = [pstatus EXCEPT ![p] = "APPROVED"]
    BY <1>3, <1>6 DEF Approve
  <2>2. FullySigned(p)'
    BY <1>3, <1>4, <1>6 DEF FullySigned, SignaturesKept
  <2>3. StatusSigned'
    BY <2>1, <2>2, StatusMoves DEF PayoutStatus, InProgress, Unsigned
  <2> QED BY <1>2, <2>3, ChangedParts DEF Approve, queue, paystack
<1> QED BY <1>5, <1>6 DEF Approve

\* Both transactions that end in APPROVED, the retry's and the reversal's, are
\* reached from a status past all approvals.
LEMMA ReapproveSigned ==
  ASSUME SignedInv, SignaturesKept, NEW h \in Handler,
         ReserveReleased(h) \/ Reapprove(h)
  PROVE  SignedInv'
<1>1. PICK p \in Payout : p = api[h].payout /\ FullySigned(p)
  BY HandlerKnows DEF ReserveReleased, Reapprove, ApiKnows
<1>2. ApiKnows("initiate", p)
  BY <1>1 DEF ApiKnows
<1>3. ApiSigned'
  <2>1. CASE ReserveReleased(h)
    BY <1>1, <1>2, <2>1, ApiStarts DEF ReserveReleased
  <2>2. CASE Reapprove(h)
    BY <1>1, <1>2, <2>2, ApiGoesOn DEF Reapprove
  <2> QED BY <2>1, <2>2
<1>4. pstatus' = [pstatus EXCEPT ![p] = "APPROVED"]
  BY <1>1 DEF ReserveReleased, Reapprove
<1>5. FullySigned(p)'
  BY <1>1 DEF SignaturesKept
<1>6. StatusSigned'
  BY <1>4, <1>5, StatusMoves DEF PayoutStatus, InProgress, Unsigned
<1>7. UNCHANGED <<jobs, worker, transfer, events, hook>>
  BY DEF ReserveReleased, Reapprove, queue, paystack
<1> QED BY <1>3, <1>6, <1>7, ChangedParts

LEMMA MarkInitiatedSigned ==
  ASSUME SignedInv, SignaturesKept, NEW h \in Handler, MarkInitiated(h)
  PROVE  SignedInv'
<1>1. PICK p \in Payout : p = api[h].payout /\ FullySigned(p)
  BY HandlerKnows DEF MarkInitiated, ApiKnows
<1>2. ApiKnows("enqueue", p)
  BY <1>1 DEF ApiKnows
<1>3. ApiSigned'
  BY <1>1, <1>2, ApiGoesOn DEF MarkInitiated
<1>4. pstatus' = [pstatus EXCEPT ![p] = "TRANSFER_INITIATED"]
  BY <1>1 DEF MarkInitiated
<1>5. FullySigned(p)'
  BY <1>1 DEF SignaturesKept
<1>6. StatusSigned'
  BY <1>4, <1>5, StatusMoves DEF PayoutStatus, InProgress, Unsigned
<1>7. UNCHANGED <<jobs, worker, transfer, events, hook>>
  BY DEF MarkInitiated, queue, paystack
<1> QED BY <1>3, <1>6, <1>7, ChangedParts

LEMMA EnqueueSigned ==
  ASSUME SignedInv, SignaturesKept, NEW h \in Handler, Enqueue(h)
  PROVE  SignedInv'
<1>1. PICK p \in Payout : p = api[h].payout /\ FullySigned(p)
  BY HandlerKnows DEF Enqueue, ApiKnows
<1>2. FullySigned(p)'
  BY <1>1 DEF SignaturesKept
<1>3. PICK j : /\ j = [payout |-> p, n |-> queued[p] + 1, left |-> JobAttempts]
               /\ jobs' = jobs \cup {j}
  BY <1>1 DEF Enqueue
<1>4. JobSigned(j)'
  BY <1>2, <1>3 DEF JobSigned
<1>5. JobsSigned'
  BY <1>3, <1>4, JobStaysSigned DEF SignedInv, JobsSigned
<1>6. ApiSigned'
  BY ApiStops DEF Enqueue
<1> QED BY <1>5, <1>6, ChangedParts DEF Enqueue, rows, paystack

LEMMA ApiReadsSigned ==
  ASSUME SignedInv, SignaturesKept, NEW h \in Handler,
         \/ AskPayout(h) \/ ReadReleased(h) \/ CrashApi(h)
         \/ \E p \in Payout : ReadApproval(h, p) \/ ReadInitiatable(h, p)
  PROVE  SignedInv'
<1>1. CASE AskPayout(h)
  <2>1. ApiKnows("asking", NoPayout)
    BY DEF ApiKnows
  <2>2. ApiSigned'
    BY <1>1, <2>1, ApiStarts DEF AskPayout
  <2> QED BY <1>1, <2>2, ChangedParts DEF AskPayout, rows, queue, paystack
<1>2. CASE ReadReleased(h)
  <2>a. PICK p \in Payout : p = api[h].payout /\ FullySigned(p)
    BY <1>2, HandlerKnows DEF ReadReleased, ApiKnows
  <2>b. PICK s : s = SnapshotOf(p)
    OBVIOUS
  <2>1. p = api[h].payout /\ FullySigned(p) /\ s = SnapshotOf(p)
    BY <2>a, <2>b
  <2>2. api' = [api EXCEPT ![h] = [[api[h] EXCEPT !.pc = "rereserve"] EXCEPT !.snap = s]]
    BY <1>2, <2>1, Zenon DEF ReadReleased
  <2>3. api' = [api EXCEPT ![h] = [pc |-> "rereserve", payout |-> p, snap |-> s]]
    <3>1. api[h] = [pc |-> api[h].pc, payout |-> p, snap |-> api[h].snap]
      BY <2>1 DEF SignedInv, ApiSigned
    <3>2. [[api[h] EXCEPT !.pc = "rereserve"] EXCEPT !.snap = s]
            = [pc |-> "rereserve", payout |-> p, snap |-> s]
      <4>1. [api[h] EXCEPT !.pc = "rereserve"]
              = [pc |-> "rereserve", payout |-> p, snap |-> api[h].snap]
        BY <3>1
      <4>2. [[pc |-> "rereserve", payout |-> p, snap |-> api[h].snap] EXCEPT !.snap = s]
              = [pc |-> "rereserve", payout |-> p, snap |-> s]
        OBVIOUS
      <4> QED BY <4>1, <4>2, Zenon
    <3> QED BY <2>2, <3>2, Zenon
  <2>4. ApiKnows("rereserve", p)
    BY <2>1 DEF ApiKnows
  <2>5. ApiSigned'
    BY <2>3, <2>4, ApiMoves
  <2> QED BY <1>2, <2>5, ChangedParts DEF ReadReleased, rows, queue, paystack
<1>3. CASE CrashApi(h)
  <2>1. ApiSigned'
    BY <1>3, ApiStops DEF CrashApi
  <2> QED BY <1>3, <2>1, ChangedParts DEF CrashApi, rows, queue, paystack
<1>4. ASSUME NEW p \in Payout, ReadApproval(h, p) PROVE SignedInv'
  <2>1. PICK pc : api' = [api EXCEPT ![h] = ApiAt(pc, p)] /\ ApiKnows(pc, p)
    BY <1>4 DEF ReadApproval, ApiKnows, SignedInv, StatusSigned
  <2>2. ApiSigned'
    BY <2>1, ApiStarts
  <2> QED BY <1>4, <2>2, ChangedParts DEF ReadApproval, rows, queue, paystack
<1>5. ASSUME NEW p \in Payout, ReadInitiatable(h, p) PROVE SignedInv'
  <2>1. FullySigned(p)
    BY <1>5 DEF ReadInitiatable, Initiatable, Unsigned, SignedInv, StatusSigned
  <2>2. PICK pc \in {"initiate", "failed", "reversed"} :
          api' = [api EXCEPT ![h] = ApiAt(pc, p)]
    BY <1>5 DEF ReadInitiatable, Initiatable
  <2>3. ApiKnows(pc, p)
    BY <2>1, <2>2 DEF ApiKnows
  <2>4. ApiSigned'
    BY <2>2, <2>3, ApiStarts
  <2> QED BY <1>5, <2>4, ChangedParts DEF ReadInitiatable, rows, queue, paystack
<1> QED BY <1>1, <1>2, <1>3, <1>4, <1>5

-----------------------------------------------------------------------------
(* The transfer worker.                                                    *)

LEMMA WorkerStops ==
  ASSUME SignedInv, SignaturesKept, NEW w \in Worker,
         worker' = [worker EXCEPT ![w] = IdleWorker]
  PROVE  WorkersSigned'
BY DEF SignedInv, SignaturesKept, WorkersSigned, JobSigned, IdleWorker

LEMMA WorkerTakes ==
  ASSUME SignedInv, SignaturesKept, NEW w \in Worker, NEW pc, NEW j, JobSigned(j),
         worker' = [worker EXCEPT ![w] = [pc |-> pc, job |-> j]]
  PROVE  WorkersSigned'
<1>1. (worker = [v \in Worker |-> worker[v]])'
  BY DEF SignedInv, WorkersSigned
<1>2. ASSUME NEW v \in Worker, worker'[v].pc # "idle"
      PROVE  (/\ worker[v] = [pc |-> worker[v].pc, job |-> worker[v].job]
              /\ JobSigned(worker[v].job))'
  <2>1. CASE v = w
    <3>1. worker'[v] = [pc |-> pc, job |-> j]
      BY <2>1 DEF SignedInv, WorkersSigned
    <3>2. JobSigned(j)'
      BY JobStaysSigned
    <3> QED BY <3>1, <3>2 DEF JobSigned
  <2>2. CASE v # w
    <3>1. worker'[v] = worker[v]
      BY <2>2 DEF SignedInv, WorkersSigned
    <3> QED BY <1>2, <3>1 DEF SignedInv, SignaturesKept, WorkersSigned, JobSigned
  <2> QED BY <2>1, <2>2
<1> QED BY <1>1, <1>2 DEF WorkersSigned

LEMMA WorkerGoesOn ==
  ASSUME SignedInv, SignaturesKept, NEW w \in Worker, NEW pc,
         worker[w].pc # "idle", worker' = [worker EXCEPT ![w].pc = pc]
  PROVE  WorkersSigned'
<1>1. PICK j : j = worker[w].job
  OBVIOUS
<1>2. JobSigned(j) /\ worker[w] = [pc |-> worker[w].pc, job |-> j]
  BY <1>1 DEF SignedInv, WorkersSigned
<1>3. [worker[w] EXCEPT !.pc = pc] = [pc |-> pc, job |-> j]
  BY <1>2
<1>4. worker' = [worker EXCEPT ![w] = [pc |-> pc, job |-> j]]
  BY <1>3
<1>5. JobSigned(j)
  BY <1>2
<1>6. \A to, i : JobSigned(i) /\ worker' = [worker EXCEPT ![w] = [pc |-> to, job |-> i]]
                 => WorkersSigned'
  BY WorkerTakes
<1> QED BY <1>4, <1>5, <1>6

LEMMA JobReturns ==
  ASSUME SignedInv, SignaturesKept, NEW j, JobSigned(j), jobs' = jobs \cup {j}
  PROVE  JobsSigned'
BY JobStaysSigned DEF SignedInv, JobsSigned

\* Paystack is asked only for the payout of a job, which is fully signed.
LEMMA CallPaystackSigned ==
  ASSUME SignedInv, SignaturesKept, NEW w \in Worker, CallPaystack(w)
  PROVE  SignedInv'
<1>1. PICK p \in Payout : p = worker[w].job.payout /\ FullySigned(p)
  BY DEF CallPaystack, SignedInv, WorkersSigned, JobSigned
<1>2. WorkersSigned'
  BY WorkerGoesOn DEF CallPaystack
<1>3. TransfersSigned' \/ UNCHANGED transfer
  <2>1. UNCHANGED transfer \/ transfer' = [transfer EXCEPT ![p] = "pending"]
    BY <1>1 DEF CallPaystack
  <2>2. ASSUME transfer' = [transfer EXCEPT ![p] = "pending"]
        PROVE  TransfersSigned'
    BY <1>1, <2>2 DEF SignedInv, SignaturesKept, TransfersSigned, SignedBeforeSent,
                      FullySigned, AdminSigned
  <2> QED BY <2>1, <2>2
<1>4. UNCHANGED <<pstatus, api, jobs, events, hook>>
  BY DEF CallPaystack, rows, queue
<1> QED BY <1>2, <1>3, <1>4, ChangedParts

\* The listener's unconditional write is past all approvals as well.
LEMMA MarkTransferFailedSigned ==
  ASSUME SignedInv, SignaturesKept, NEW w \in Worker, MarkTransferFailed(w)
  PROVE  SignedInv'
<1>1. PICK p \in Payout : p = worker[w].job.payout /\ FullySigned(p)'
  BY DEF MarkTransferFailed, SignedInv, WorkersSigned, JobSigned, SignaturesKept
<1>2. pstatus' = [pstatus EXCEPT ![p] = "TRANSFER_FAILED"]
  BY <1>1 DEF MarkTransferFailed
<1>3. StatusSigned'
  BY <1>1, <1>2, StatusMoves DEF PayoutStatus, Initiatable, Unsigned
<1>4. WorkersSigned'
  BY WorkerStops DEF MarkTransferFailed
<1> QED BY <1>3, <1>4, ChangedParts DEF MarkTransferFailed, queue, paystack

LEMMA WorkerSigned ==
  ASSUME SignedInv, SignaturesKept, NEW w \in Worker, WorkerStep(w) \/ CrashWorker(w)
  PROVE  SignedInv'
<1>1. ASSUME TakeJob(w) PROVE SignedInv'
  <2>1. PICK j \in jobs :
          /\ jobs' = jobs \ {j}
          /\ worker' \in {worker, [worker EXCEPT ![w] = [pc |-> "call", job |-> j]]}
    BY <1>1 DEF TakeJob
  <2>2. WorkersSigned' \/ UNCHANGED worker
    BY <2>1, WorkerTakes DEF SignedInv, JobsSigned
  <2> QED BY <1>1, <2>1, <2>2, ChangedParts DEF TakeJob, rows, paystack
<1>2. ASSUME SaveCode(w) PROVE SignedInv'
  <2>1. WorkersSigned'
    BY <1>2, WorkerStops DEF SaveCode
  <2> QED BY <1>2, <2>1, ChangedParts DEF SaveCode, queue, paystack
<1>3. ASSUME FailAttempt(w) PROVE SignedInv'
  <2>1. PICK j, i : j = worker[w].job /\ JobSigned(j) /\ i = [j EXCEPT !.left = @ - 1]
    BY <1>3 DEF FailAttempt, SignedInv, WorkersSigned
  <2>2. i = [payout |-> j.payout, n |-> j.n, left |-> j.left - 1]
    BY <2>1 DEF JobSigned
  <2>3. JobSigned(i)
    BY <2>1, <2>2 DEF JobSigned
  <2>4. JobsSigned' \/ UNCHANGED jobs
    BY <1>3, <2>1, <2>3, JobReturns DEF FailAttempt
  <2>5. WorkersSigned'
    BY <1>3, WorkerStops, WorkerGoesOn DEF FailAttempt
  <2> QED BY <1>3, <2>4, <2>5, ChangedParts DEF FailAttempt, rows, paystack
<1>4. ASSUME CrashWorker(w) PROVE SignedInv'
  <2>1. JobsSigned' \/ UNCHANGED jobs
    BY <1>4, JobReturns DEF CrashWorker, SignedInv, WorkersSigned
  <2>2. WorkersSigned'
    BY <1>4, WorkerStops DEF CrashWorker
  <2> QED BY <1>4, <2>1, <2>2, ChangedParts DEF CrashWorker, rows, paystack
<1> QED BY <1>1, <1>2, <1>3, <1>4, CallPaystackSigned, MarkTransferFailedSigned
        DEF WorkerStep

-----------------------------------------------------------------------------
(* Paystack and its webhooks.                                              *)

LEMMA SettleTransferSigned ==
  ASSUME SignedInv, SignaturesKept, NEW p \in Payout, SettleTransfer(p)
  PROVE  SignedInv'
<1>1. PICK e, to : /\ to \in Kind /\ transfer' = [transfer EXCEPT ![p] = to]
                   /\ events' = events \cup {e}
                   /\ e = [payout |-> p, n |-> sent[p], kind |-> to]
  BY DEF SettleTransfer, Emit, Kind
<1>2. transfer[p] # "none"
  BY DEF SettleTransfer
<1>3. FullySigned(p)
  BY <1>2 DEF SignedInv, TransfersSigned, SignedBeforeSent, FullySigned, AdminSigned
<1>4. EventSigned(e)'
  BY <1>1, <1>3 DEF EventSigned, SignaturesKept
<1>5. EventsSigned'
  BY <1>1, <1>4, EventStaysSigned DEF SignedInv, EventsSigned
<1>6. TransfersSigned'
  BY <1>1, <1>3 DEF SignedInv, SignaturesKept, TransfersSigned, SignedBeforeSent,
                    FullySigned, AdminSigned
<1>7. UNCHANGED <<pstatus, api, jobs, worker, hook>>
  BY DEF SettleTransfer, rows, queue
<1> QED BY <1>5, <1>6, <1>7, ChangedParts

LEMMA HookStops ==
  ASSUME SignedInv, SignaturesKept, NEW k \in Hook,
         hook' = [hook EXCEPT ![k] = IdleHook]
  PROVE  HooksSigned'
BY DEF SignedInv, SignaturesKept, HooksSigned, EventSigned, IdleHook

LEMMA HookTakes ==
  ASSUME SignedInv, SignaturesKept, NEW k \in Hook, NEW pc, NEW e, NEW s,
         EventSigned(e),
         hook' = [hook EXCEPT ![k] = [pc |-> pc, event |-> e, snap |-> s]]
  PROVE  HooksSigned'
<1>1. (hook = [i \in Hook |-> hook[i]])'
  BY DEF SignedInv, HooksSigned
<1>2. ASSUME NEW i \in Hook, hook'[i].pc # "idle"
      PROVE  (/\ hook[i] = [pc |-> hook[i].pc, event |-> hook[i].event,
                            snap |-> hook[i].snap]
              /\ EventSigned(hook[i].event))'
  <2>1. CASE i = k
    <3>1. hook'[i] = [pc |-> pc, event |-> e, snap |-> s]
      BY <2>1 DEF SignedInv, HooksSigned
    <3>2. EventSigned(e)'
      BY EventStaysSigned
    <3> QED BY <3>1, <3>2 DEF EventSigned
  <2>2. CASE i # k
    <3>1. hook'[i] = hook[i]
      BY <2>2 DEF SignedInv, HooksSigned
    <3> QED BY <1>2, <3>1 DEF SignedInv, SignaturesKept, HooksSigned, EventSigned
  <2> QED BY <2>1, <2>2
<1> QED BY <1>1, <1>2 DEF HooksSigned

\* The statuses an event leads to are past all approvals.
LEMMA ApplyEventSigned ==
  ASSUME SignedInv, SignaturesKept, NEW k \in Hook, ApplyEvent(k)
  PROVE  SignedInv'
<1>1. PICK p, e, s, kind :
        /\ p \in Payout /\ kind \in Kind /\ p = hook[k].event.payout /\ e = hook[k].event /\ kind = e.kind
        /\ s = hook[k].snap /\ EventSigned(e) /\ FullySigned(p)
        /\ hook[k] = [pc |-> hook[k].pc, event |-> e, snap |-> s]
  <2>1. hook[k].pc = "apply"
    BY Zenon DEF ApplyEvent
  <2>2. /\ hook[k] = [pc |-> hook[k].pc, event |-> hook[k].event, snap |-> hook[k].snap]
        /\ EventSigned(hook[k].event)
    BY <2>1 DEF SignedInv, HooksSigned
  <2> QED BY ONLY <2>2 DEF EventSigned
<1>2. pstatus' = [pstatus EXCEPT ![p] = StatusOf(kind)]
  <2>1. pstatus' = [pstatus EXCEPT ![hook[k].event.payout] =
                                     StatusOf(hook[k].event.kind)]
    BY Zenon DEF ApplyEvent
  <2> QED BY <1>1, <2>1, Zenon
<1>3. PICK to \in PayoutStatus : /\ to = StatusOf(kind) /\ to \notin Unsigned
                                 /\ to # "PENDING_COMPANY_APPROVAL"
  <2>1. StatusOf("success") = "PAID" /\ StatusOf("failed") = "TRANSFER_FAILED"
        /\ StatusOf("reversed") = "TRANSFER_REVERSED"
    BY DEF StatusOf
  <2> QED BY <1>1, <2>1 DEF Kind, PayoutStatus, Initiatable, Unsigned
<1>4. FullySigned(p)'
  BY <1>1 DEF SignaturesKept
<1>5. StatusSigned'
  <2>1. p \in Payout /\ pstatus' = [pstatus EXCEPT ![p] = to]
    BY <1>1, <1>2, <1>3
  <2> QED BY <2>1, <1>3, <1>4, StatusMoves
<1>6. hook' = [hook EXCEPT ![k] = [pc |-> "done", event |-> e, snap |-> s]]
  <2>1. [hook[k] EXCEPT !.pc = "done"] = [pc |-> "done", event |-> e, snap |-> s]
    BY <1>1
  <2>2. hook' = [hook EXCEPT ![k] = [hook[k] EXCEPT !.pc = "done"]]
    BY Zenon DEF ApplyEvent
  <2> QED BY <2>1, <2>2, Zenon
<1>7. EventSigned(e)
  BY <1>1
<1>8. HooksSigned'
  BY <1>6, <1>7, HookTakes
<1>9. UNCHANGED <<api, jobs, worker, transfer, events>>
  BY Zenon DEF ApplyEvent, queue, paystack
<1> QED BY <1>5, <1>8, <1>9, ChangedParts

\* A read fills the handler's snapshot and leaves its event alone.
LEMMA ReadPayoutTakes ==
  ASSUME SignedInv, NEW k \in Hook, ReadPayout(k)
  PROVE  \E to, seen :
           /\ EventSigned(hook[k].event)
           /\ hook' = [hook EXCEPT ![k] = [pc |-> to, event |-> hook[k].event, snap |-> seen]]
<1> DEFINE e == hook[k].event
           to == IF pstatus[e.payout] = StatusOf(e.kind) THEN "done" ELSE "apply"
           seen == SnapshotOf(e.payout)
<1>1. /\ hook[k].pc = "read"
      /\ hook' = [hook EXCEPT ![k].pc = to, ![k].snap = seen]
  BY DEF ReadPayout
<1>2. /\ hook[k] = [pc |-> hook[k].pc, event |-> e, snap |-> hook[k].snap]
      /\ EventSigned(e) /\ hook = [i \in Hook |-> hook[i]]
  BY <1>1 DEF SignedInv, HooksSigned
<1> HIDE DEF e, to, seen
<1>3. [[hook[k] EXCEPT !.pc = to] EXCEPT !.snap = seen] = [pc |-> to, event |-> e, snap |-> seen]
  <2>1. PICK pc, snap : hook[k] = [pc |-> pc, event |-> e, snap |-> snap]
    BY ONLY <1>2, Zenon
  <2>2. [hook[k] EXCEPT !.pc = to] = [pc |-> to, event |-> e, snap |-> snap]
    BY ONLY <2>1
  <2>3. [[pc |-> to, event |-> e, snap |-> snap] EXCEPT !.snap = seen]
          = [pc |-> to, event |-> e, snap |-> seen]
    OBVIOUS
  <2> QED BY ONLY <2>2, <2>3, Zenon
<1>4. hook' = [hook EXCEPT ![k] = [[hook[k] EXCEPT !.pc = to] EXCEPT !.snap = seen]]
  BY ONLY <1>1, <1>2, k \in Hook
<1>5. EventSigned(e) /\ hook' = [hook EXCEPT ![k] = [pc |-> to, event |-> e, snap |-> seen]]
  BY <1>2, <1>3, <1>4
<1> QED BY <1>5, Zenon DEF e

LEMMA HookSigned ==
  ASSUME SignedInv, SignaturesKept, NEW k \in Hook, HookStep(k) \/ CrashHook(k)
  PROVE  SignedInv'
<1>1. ASSUME NEW e \in events, Deliver(k, e) PROVE SignedInv'
  <2>1. EventSigned(e)
    BY DEF SignedInv, EventsSigned
  <2>2. hook' = [hook EXCEPT ![k] = [pc |-> "read", event |-> e, snap |-> NoSnapshot]]
    BY <1>1 DEF Deliver
  <2>3. HooksSigned'
    BY <2>1, <2>2, HookTakes
  <2> QED BY <1>1, <2>3, ChangedParts DEF Deliver, rows, queue, paystack
<1>2. ASSUME ReadPayout(k) PROVE SignedInv'
  <2>1. PICK to, seen :
          /\ EventSigned(hook[k].event)
          /\ hook' = [hook EXCEPT ![k] = [pc |-> to, event |-> hook[k].event, snap |-> seen]]
    BY <1>2, ReadPayoutTakes
  <2>2. HooksSigned'
    BY <2>1, HookTakes
  <2> QED BY <1>2, <2>2, ChangedParts DEF ReadPayout, rows, queue, paystack
<1>3. ASSUME MarkProcessed(k) PROVE SignedInv'
  <2>1. HooksSigned'
    BY <1>3, HookStops DEF MarkProcessed
  <2> QED BY <1>3, <2>1, ChangedParts DEF MarkProcessed, rows, queue, paystack
<1>4. ASSUME CrashHook(k) PROVE SignedInv'
  <2>1. HooksSigned'
    BY <1>4, HookStops DEF CrashHook
  <2> QED BY <1>4, <2>1, ChangedParts DEF CrashHook, rows, queue, paystack
<1> QED BY <1>1, <1>2, <1>3, <1>4, ApplyEventSigned DEF HookStep

-----------------------------------------------------------------------------
LEMMA SignedNext ==
  ASSUME SignedInv, [Next]_vars
  PROVE  SignedInv'
<1>1. SignaturesKept
  BY KeptAlways
<1>2. ASSUME NEW c \in Commission, Accrue(c) PROVE SignedInv'
  BY <1>1, <1>2, ChangedParts DEF Accrue, queue, paystack
<1>3. ASSUME NEW h \in Handler, ApiStep(h) PROVE SignedInv'
  BY <1>1, <1>3, ReservePayoutSigned, ApproveSigned, ReapproveSigned,
     MarkInitiatedSigned, EnqueueSigned, ApiReadsSigned DEF ApiStep
<1>4. ASSUME NEW h \in Handler,
             \/ CrashApi(h) \/ AskPayout(h)
             \/ \E p \in Payout : ReadApproval(h, p) \/ ReadInitiatable(h, p)
      PROVE  SignedInv'
  BY <1>1, <1>4, ApiReadsSigned
<1>5. ASSUME NEW w \in Worker, WorkerStep(w) \/ CrashWorker(w) PROVE SignedInv'
  BY <1>1, <1>5, WorkerSigned
<1>6. ASSUME NEW p \in Payout, SettleTransfer(p) PROVE SignedInv'
  BY <1>1, <1>6, SettleTransferSigned
<1>7. ASSUME NEW k \in Hook, HookStep(k) \/ CrashHook(k) PROVE SignedInv'
  BY <1>1, <1>7, HookSigned
<1>8. CASE UNCHANGED vars
  BY <1>1, <1>8, ChangedParts DEF vars, rows, queue, paystack
<1> QED BY <1>2, <1>3, <1>4, <1>5, <1>6, <1>7, <1>8 DEF Next

\* No transfer is sent for a payout that lacks a signature (requestPayout,
\* adminApprovePayout, companyApprovePayout, initiateTransfer, the transfer
\* worker and the webhook handlers, in any interleaving and with any crashes).
THEOREM SignedBeforeSentHolds == Spec => []SignedBeforeSent
<1>1. Init => SignedInv
  BY SignedInit
<1>2. SignedInv /\ [Next]_vars => SignedInv'
  BY SignedNext
<1>3. SignedInv => SignedBeforeSent
  BY DEF SignedInv, TransfersSigned
<1> QED BY <1>1, <1>2, <1>3, PTL DEF Spec

-----------------------------------------------------------------------------
(* PAID only on Paystack's word.  Of the writes that go through the rows,  *)
(* only that of a webhook handler can make something PAID, and such a      *)
(* handler has an event of Paystack's in hand.                             *)

Confirmed(p) == \E e \in events : e.payout = p /\ e.kind = "success"

HooksHandle == \A k \in Hook : hook[k].pc # "idle" => hook[k].event \in events

AllocationRows == astatus \in [Payout -> [Commission -> AllocationStatus]]

PaidInv == AllocationRows /\ HooksHandle /\ PaidWasConfirmed

LEMMA PaidInit == Init => PaidInv
BY DEF Init, PaidInv, AllocationRows, AllocationStatus, HooksHandle, PaidWasConfirmed,
       IdleHook

\* What a step may do to the rows and to Paystack's events.
MorePaidIfConfirmed ==
    /\ AllocationRows'
    /\ \A p \in Payout : pstatus'[p] = "PAID" => pstatus[p] = "PAID" \/ Confirmed(p)
    /\ \A p \in Payout, c \in Commission :
          astatus'[p][c] = "PAID" => astatus[p][c] = "PAID" \/ Confirmed(p)

LEMMA PaidKept ==
  ASSUME PaidInv, MorePaidIfConfirmed, events \subseteq events', HooksHandle'
  PROVE  PaidInv'
BY DEF PaidInv, MorePaidIfConfirmed, PaidWasConfirmed, Confirmed

LEMMA RowsUntouched ==
  ASSUME PaidInv, UNCHANGED <<pstatus, astatus>>
  PROVE  MorePaidIfConfirmed
BY DEF PaidInv, AllocationRows, MorePaidIfConfirmed

\* A status other than PAID is given to one payout.
LEMMA StatusGiven ==
  ASSUME SignedInv, PaidInv, NEW p, NEW s, s # "PAID",
         pstatus' = [pstatus EXCEPT ![p] = s], UNCHANGED astatus
  PROVE  MorePaidIfConfirmed
BY DEF SignedInv, StatusSigned, PaidInv, AllocationRows, MorePaidIfConfirmed

\* A payout's allocations become something else than PAID.
LEMMA AllocationsGiven ==
  ASSUME SignedInv, PaidInv, NEW p \in Payout, NEW s, NEW to \in AllocationStatus,
         NEW new \in SUBSET Commission,
         s = "PAID" \/ to = "PAID" => Confirmed(p),
         pstatus' = [pstatus EXCEPT ![p] = s],
         astatus' = [astatus EXCEPT ![p] =
                       [c \in Commission |-> IF c \in new THEN to ELSE astatus[p][c]]]
  PROVE  MorePaidIfConfirmed
<1>1. AllocationRows'
  BY DEF PaidInv, AllocationRows
<1>2. ASSUME NEW q \in Payout, pstatus'[q] = "PAID" PROVE pstatus[q] = "PAID" \/ Confirmed(q)
  BY <1>2 DEF SignedInv, StatusSigned
<1>3. ASSUME NEW q \in Payout, NEW c \in Commission, astatus'[q][c] = "PAID"
      PROVE  astatus[q][c] = "PAID" \/ Confirmed(q)
  <2>1. CASE q = p
    <3>1. astatus'[p] = [d \in Commission |-> IF d \in new THEN to ELSE astatus[p][d]]
      BY DEF PaidInv, AllocationRows
    <3>2. astatus'[p][c] = IF c \in new THEN to ELSE astatus[p][c]
      BY <3>1
    <3> QED BY <1>3, <2>1, <3>2
  <2>2. CASE q # p
    BY <1>3, <2>2 DEF PaidInv, AllocationRows
  <2> QED BY <2>1, <2>2
<1> QED BY <1>1, <1>2, <1>3 DEF MorePaidIfConfirmed

LEMMA ReservePayoutPaid ==
  ASSUME SignedInv, PaidInv, NEW h \in Handler, ReservePayout(h)
  PROVE  MorePaidIfConfirmed
<1>1. CASE UNCHANGED rows
  BY <1>1, RowsUntouched DEF rows
<1>2. ASSUME NEW p \in Payout, NEW new \in SUBSET Commission, NEW s, s # "PAID",
             pstatus' = [pstatus EXCEPT ![p] = s],
             astatus' = [astatus EXCEPT ![p] =
                [c \in Commission |-> IF c \in new THEN "RESERVED" ELSE "NONE"]]
      PROVE  MorePaidIfConfirmed
  <2>1. AllocationRows'
    BY <1>2 DEF PaidInv, AllocationRows, AllocationStatus
  <2>2. ASSUME NEW q \in Payout, pstatus'[q] = "PAID" PROVE pstatus[q] = "PAID"
    BY <1>2, <2>2 DEF SignedInv, StatusSigned
  <2>3. ASSUME NEW q \in Payout, NEW c \in Commission, astatus'[q][c] = "PAID"
        PROVE  astatus[q][c] = "PAID"
    BY <1>2, <2>3 DEF PaidInv, AllocationRows
  <2> QED BY <2>1, <2>2, <2>3 DEF MorePaidIfConfirmed
<1>3. UNCHANGED rows
      \/ \E p \in Payout, new \in SUBSET Commission,
            s \in {"PENDING_ADMIN_APPROVAL", "PENDING_COMPANY_APPROVAL"} :
           /\ pstatus' = [pstatus EXCEPT ![p] = s]
           /\ astatus' = [astatus EXCEPT ![p] =
                [c \in Commission |-> IF c \in new THEN "RESERVED" ELSE "NONE"]]
  <2>1. CASE UNCHANGED rows
    BY <2>1
  <2>2. ASSUME NEW p \in Payout, NEW asked \in Ask,
               pstatus' = [pstatus EXCEPT ![p] =
                             IF AdminFirst THEN "PENDING_ADMIN_APPROVAL"
                                           ELSE "PENDING_COMPANY_APPROVAL"],
               astatus' = [astatus EXCEPT ![p] =
                 [c \in Commission |->
                    IF c \in {d \in Commission : GreedyPlan(asked)[d] > 0}
                    THEN "RESERVED" ELSE "NONE"]]
        PROVE  \E new \in SUBSET Commission,
                  s \in {"PENDING_ADMIN_APPROVAL", "PENDING_COMPANY_APPROVAL"} :
                 /\ pstatus' = [pstatus EXCEPT ![p] = s]
                 /\ astatus' = [astatus EXCEPT ![p] =
                      [c \in Commission |-> IF c \in new THEN "RESERVED" ELSE "NONE"]]
    <3> DEFINE new == {d \in Commission : GreedyPlan(asked)[d] > 0}
               s == IF AdminFirst THEN "PENDING_ADMIN_APPROVAL"
                                  ELSE "PENDING_COMPANY_APPROVAL"
    <3>1. new \in SUBSET Commission
          /\ s \in {"PENDING_ADMIN_APPROVAL", "PENDING_COMPANY_APPROVAL"}
      OBVIOUS
    <3> HIDE DEF new
    <3>2. astatus' = [astatus EXCEPT ![p] =
                      [c \in Commission |-> IF c \in new THEN "RESERVED" ELSE "NONE"]]
      BY <2>2 DEF new
    <3> QED BY <2>2, <3>1, <3>2
  <2>3. UNCHANGED rows \/ \E p \in Payout, asked \in Ask :
          /\ pstatus' = [pstatus EXCEPT ![p] =
                           IF AdminFirst THEN "PENDING_ADMIN_APPROVAL"
                                         ELSE "PENDING_COMPANY_APPROVAL"]
          /\ astatus' = [astatus EXCEPT ![p] =
               [c \in Commission |->
                  IF c \in {d \in Commission : GreedyPlan(asked)[d] > 0}
                  THEN "RESERVED" ELSE "NONE"]]
    BY Zenon DEF ReservePayout
  <2> QED BY <2>1, <2>2, <2>3, Zenon
<1>4. CASE ~UNCHANGED rows
  <2>1. PICK p \in Payout, new \in SUBSET Commission,
             s \in {"PENDING_ADMIN_APPROVAL", "PENDING_COMPANY_APPROVAL"} :
           /\ pstatus' = [pstatus EXCEPT ![p] = s]
           /\ astatus' = [astatus EXCEPT ![p] =
                [c \in Commission |-> IF c \in new THEN "RESERVED" ELSE "NONE"]]
    BY ONLY <1>3, <1>4, Zenon
  <2>2. s # "PAID"
    OBVIOUS
  <2> QED BY ONLY <1>2, <2>1, <2>2, Zenon
<1> QED BY <1>1, <1>4

LEMMA ReserveReleasedPaid ==
  ASSUME SignedInv, PaidInv, NEW h \in Handler, ReserveReleased(h)
  PROVE  MorePaidIfConfirmed
<1>1. PICK p \in Payout : p = api[h].payout
  BY HandlerKnows DEF ReserveReleased, ApiKnows
<1> DEFINE again == {c \in Commission : api[h].snap.astatus[c] = "RELEASED"}
<1>2. again \in SUBSET Commission
  OBVIOUS
<1>3. /\ pstatus' = [pstatus EXCEPT ![p] = "APPROVED"]
      /\ astatus' = [astatus EXCEPT ![p] =
           [c \in Commission |-> IF c \in again THEN "RESERVED" ELSE astatus[p][c]]]
  BY <1>1, Zenon DEF ReserveReleased
<1> HIDE DEF again
<1>4. "RESERVED" \in AllocationStatus
  BY DEF AllocationStatus
<1> QED BY <1>2, <1>3, <1>4, AllocationsGiven

LEMMA ApplyEventPaid ==
  ASSUME SignedInv, PaidInv, NEW k \in Hook, ApplyEvent(k)
  PROVE  MorePaidIfConfirmed
<1>1. hook[k].event \in events /\ EventSigned(hook[k].event)
  BY DEF ApplyEvent, PaidInv, HooksHandle, SignedInv, HooksSigned
<1> DEFINE p == hook[k].event.payout
           kind == hook[k].event.kind
           from == IF kind = "reversed" THEN "PAID" ELSE "RESERVED"
           to == CASE kind = "success" -> "PAID"
                   [] kind = "failed" -> "RELEASED"
                   [] kind = "reversed" -> "RESERVED"
           moved == {c \in Commission : hook[k].snap.astatus[c] = from}
<1>2. p \in Payout /\ kind \in Kind
  BY <1>1 DEF EventSigned
<1>3. pstatus' = [pstatus EXCEPT ![p] = StatusOf(kind)]
  BY Zenon DEF ApplyEvent
<1>4. astatus' = [astatus EXCEPT ![p] =
           [c \in Commission |-> IF c \in moved THEN to ELSE astatus[p][c]]]
  BY Zenon DEF ApplyEvent
<1>5. moved \in SUBSET Commission
  OBVIOUS
<1>6. to \in AllocationStatus /\ (StatusOf(kind) = "PAID" \/ to = "PAID" => kind = "success")
  BY <1>2 DEF AllocationStatus, StatusOf, Kind
<1>7. kind = "success" => Confirmed(p)
  BY <1>1 DEF Confirmed
<1> HIDE DEF p, kind, moved, to
<1> QED BY <1>2, <1>3, <1>4, <1>5, <1>6, <1>7, AllocationsGiven

\* The rest writes a status other than PAID, or no row at all.
LEMMA RowsPaid ==
  ASSUME SignedInv, PaidInv, [Next]_vars
  PROVE  MorePaidIfConfirmed
<1>1. ASSUME NEW h \in Handler, ApiStep(h) PROVE MorePaidIfConfirmed
  <2>1. ASSUME Approve(h) PROVE MorePaidIfConfirmed
    <3>1. PICK p, s : s # "PAID" /\ pstatus' = [pstatus EXCEPT ![p] = s]
      BY <2>1 DEF Approve
    <3> QED BY <2>1, <3>1, StatusGiven DEF Approve, books
  <2>2. ASSUME Reapprove(h) \/ MarkInitiated(h) PROVE MorePaidIfConfirmed
    <3>1. PICK p, s : s # "PAID" /\ pstatus' = [pstatus EXCEPT ![p] = s]
      BY <2>2 DEF Reapprove, MarkInitiated
    <3> QED BY <2>2, <3>1, StatusGiven DEF Reapprove, MarkInitiated, books
  <2>3. ASSUME ReadReleased(h) \/ Enqueue(h) PROVE MorePaidIfConfirmed
    BY <2>3, RowsUntouched DEF ReadReleased, Enqueue, rows
  <2> QED BY <1>1, <2>1, <2>2, <2>3, ReservePayoutPaid, ReserveReleasedPaid DEF ApiStep
<1>2. ASSUME NEW h \in Handler,
             \/ CrashApi(h) \/ AskPayout(h)
             \/ \E p \in Payout : ReadApproval(h, p) \/ ReadInitiatable(h, p)
      PROVE  MorePaidIfConfirmed
  BY <1>2, RowsUntouched DEF CrashApi, AskPayout, ReadApproval, ReadInitiatable, rows
<1>3. ASSUME NEW w \in Worker, WorkerStep(w) \/ CrashWorker(w) PROVE MorePaidIfConfirmed
  <2>1. ASSUME MarkTransferFailed(w) PROVE MorePaidIfConfirmed
    BY <2>1, StatusGiven DEF MarkTransferFailed, books
  <2>2. ASSUME \/ TakeJob(w) \/ CallPaystack(w) \/ SaveCode(w) \/ FailAttempt(w)
               \/ CrashWorker(w)
        PROVE  MorePaidIfConfirmed
    BY <2>2, RowsUntouched DEF TakeJob, CallPaystack, SaveCode, FailAttempt, CrashWorker,
                               rows, books
  <2> QED BY <1>3, <2>1, <2>2 DEF WorkerStep
<1>4. ASSUME NEW k \in Hook, HookStep(k) \/ CrashHook(k) PROVE MorePaidIfConfirmed
  <2>1. ASSUME \/ \E e \in events : Deliver(k, e)
               \/ ReadPayout(k) \/ MarkProcessed(k) \/ CrashHook(k)
        PROVE  MorePaidIfConfirmed
    BY <2>1, RowsUntouched DEF Deliver, ReadPayout, MarkProcessed, CrashHook, rows
  <2> QED BY <1>4, <2>1, ApplyEventPaid DEF HookStep
<1>5. ASSUME NEW c \in Commission, Accrue(c) PROVE MorePaidIfConfirmed
  BY <1>5, RowsUntouched DEF Accrue
<1>6. ASSUME NEW p \in Payout, SettleTransfer(p) PROVE MorePaidIfConfirmed
  BY <1>6, RowsUntouched DEF SettleTransfer, rows
<1>7. CASE UNCHANGED vars
  BY <1>7, RowsUntouched DEF vars, rows
<1> QED BY <1>1, <1>2, <1>3, <1>4, <1>5, <1>6, <1>7 DEF Next

\* Events are never taken back, and a handler takes one there is.
LEMMA EventsKept ==
  ASSUME SignedInv, PaidInv, [Next]_vars
  PROVE  events \subseteq events' /\ HooksHandle'
<1>1. ASSUME events \subseteq events', UNCHANGED hook PROVE HooksHandle'
  BY <1>1 DEF PaidInv, HooksHandle
<1>2. ASSUME NEW k \in Hook, UNCHANGED events,
             \/ \E e \in events : \E pc, s :
                  hook' = [hook EXCEPT ![k] = [pc |-> pc, event |-> e, snap |-> s]]
             \/ hook' = [hook EXCEPT ![k] = IdleHook]
             \/ \E f : /\ hook[k].pc # "idle" /\ f.event = hook[k].event
                       /\ hook' = [hook EXCEPT ![k] = f]
      PROVE  HooksHandle'
  <2>1. hook = [i \in Hook |-> hook[i]]
    BY DEF SignedInv, HooksSigned
  <2>2. \A i \in Hook : i # k => hook'[i] = hook[i]
    BY <1>2, <2>1
  <2>3. hook'[k].pc # "idle" => hook'[k].event \in events
    BY <1>2, <2>1 DEF PaidInv, HooksHandle, IdleHook
  <2> QED BY <1>2, <2>2, <2>3 DEF PaidInv, HooksHandle
<1>3. ASSUME NEW h \in Handler,
             \/ ApiStep(h) \/ CrashApi(h) \/ AskPayout(h)
             \/ \E p \in Payout : ReadApproval(h, p) \/ ReadInitiatable(h, p)
      PROVE  UNCHANGED <<events, hook>>
  BY <1>3 DEF ApiStep, ReservePayout, Approve, ReadReleased, ReserveReleased, Reapprove,
              MarkInitiated, Enqueue, CrashApi, AskPayout, ReadApproval,
              ReadInitiatable, paystack
<1>4. ASSUME NEW w \in Worker, WorkerStep(w) \/ CrashWorker(w)
      PROVE  UNCHANGED <<events, hook>>
  BY <1>4 DEF WorkerStep, CrashWorker, TakeJob, CallPaystack, SaveCode,
              FailAttempt, MarkTransferFailed, paystack
<1>5. ASSUME NEW k \in Hook, HookStep(k) \/ CrashHook(k)
      PROVE  UNCHANGED events /\ HooksHandle'
  <2>1. UNCHANGED events
    BY <1>5, Zenon DEF HookStep, CrashHook, Deliver, ReadPayout, ApplyEvent,
                       MarkProcessed, paystack
  <2>2. ASSUME NEW e \in events, Deliver(k, e) PROVE HooksHandle'
    BY <1>2, <2>1, <2>2 DEF Deliver
  <2>3. ASSUME MarkProcessed(k) \/ CrashHook(k) PROVE HooksHandle'
    BY <1>2, <2>1, <2>3 DEF MarkProcessed, CrashHook
  <2>4. ASSUME ReadPayout(k) \/ ApplyEvent(k) PROVE HooksHandle'
    <3>1. hook[k].pc # "idle"
      BY <2>4, Zenon DEF ReadPayout, ApplyEvent
    <3>2. PICK e, s : hook[k] = [pc |-> hook[k].pc, event |-> e, snap |-> s]
      BY <3>1 DEF SignedInv, HooksSigned
    <3>3. \A to : [hook[k] EXCEPT !.pc = to] = [pc |-> to, event |-> e, snap |-> s]
      BY <3>2
    <3>4. e \in events
      BY <3>1, <3>2 DEF PaidInv, HooksHandle
    <3>6. CASE ApplyEvent(k)
      <4>1. hook' = [hook EXCEPT ![k] = [hook[k] EXCEPT !.pc = "done"]]
        BY <3>6, Zenon DEF ApplyEvent
      <4>2. hook' = [hook EXCEPT ![k] = [pc |-> "done", event |-> e, snap |-> s]]
        BY <4>1, <3>3, Zenon
      <4> QED BY <1>2, <2>1, <3>4, <4>2
    <3>7. CASE ReadPayout(k)
      <4>1. PICK to, t :
              hook' = [hook EXCEPT ![k] = [pc |-> to, event |-> hook[k].event, snap |-> t]]
        BY <3>7, ReadPayoutTakes
      <4>2. e = hook[k].event
        BY ONLY <3>2
      <4> QED BY <1>2, <2>1, <3>4, <4>1, <4>2
    <3> QED BY <2>4, <3>6, <3>7
  <2> QED BY <1>5, <2>1, <2>2, <2>3, <2>4 DEF HookStep
<1>6. ASSUME NEW c \in Commission, Accrue(c) PROVE UNCHANGED <<events, hook>>
  BY <1>6 DEF Accrue, paystack
<1>7. ASSUME NEW p \in Payout, SettleTransfer(p)
      PROVE  events \subseteq events' /\ UNCHANGED hook
  BY <1>7 DEF SettleTransfer, Emit
<1>8. CASE UNCHANGED vars
  BY <1>1, <1>8 DEF vars, paystack
<1> QED BY <1>1, <1>3, <1>4, <1>5, <1>6, <1>7, <1>8 DEF Next

\* A payout and its allocations are PAID only after Paystack's success event,
\* however jobs, listeners, retries and webhooks overwrite each other
\* (handleTransferSuccess is the one writer of PAID).
THEOREM PaidWasConfirmedHolds == Spec => []PaidWasConfirmed
<1>1. Init => SignedInv /\ PaidInv
  BY SignedInit, PaidInit
<1>2. SignedInv /\ PaidInv /\ [Next]_vars => (SignedInv /\ PaidInv)'
  BY SignedNext, RowsPaid, EventsKept, PaidKept
<1>3. PaidInv => PaidWasConfirmed
  BY DEF PaidInv
<1> QED BY <1>1, <1>2, <1>3, PTL DEF Spec

-----------------------------------------------------------------------------
(* The types of the variables, with what the money depends on: the greedy  *)
(* plan allocates natural numbers, whatever is reserved already.           *)

LEMMA FreeIsNat ==
  ASSUME TypeOK, NEW c \in Commission
  PROVE  Free(c) \in Nat /\ (c \in Lockable => Free(c) = Amount[c] - reserved[c] /\ Free(c) > 0)
<1>1. Amount[c] \in Nat /\ reserved[c] \in Int
  BY CommissionPayoutAssumption DEF TypeOK
<1> QED BY <1>1 DEF Free, Lockable

\* Sums of what is free, over any of the commissions.
LEMMA FreeInSum ==
  ASSUME TypeOK, NEW S \in SUBSET Commission
  PROVE  /\ IsFiniteSet(S)
         /\ FreeIn(S) \in Nat
         /\ \A c \in S : FreeIn(S) = Free(c) + FreeIn(S \ {c})
<1> DEFINE f == [c \in Commission |-> Free(c)]
<1>1. IsFiniteSet(S)
  BY CommissionPayoutAssumption, FS_Subset
<1>2. \A c \in S : f[c] \in Nat /\ f[c] = Free(c)
  BY FreeIsNat
<1>3. FreeIn(S) = SumOver(f, S) /\ \A c \in S : FreeIn(S \ {c}) = SumOver(f, S \ {c})
  BY DEF FreeIn
<1> HIDE DEF f
<1>4. \A c \in S : f[c] \in Int
  BY <1>2
<1>5. FreeIn(S) \in Nat
  BY <1>1, <1>2, <1>3, SumNat
<1>6. ASSUME NEW c \in S PROVE FreeIn(S) = Free(c) + FreeIn(S \ {c})
  BY <1>1, <1>2, <1>3, <1>4, SumRemove
<1> QED BY <1>1, <1>5, <1>6

Older(c) == {d \in Lockable : d < c}

\* What the loop takes of a commission, given what the older ones had.
LEMMA PlanEntry ==
  ASSUME TypeOK, NEW asked \in Nat, NEW c \in Commission
  PROVE  /\ FreeIn(Older(c)) \in Nat /\ Free(c) \in Nat
         /\ GreedyPlan(asked)[c] =
              IF asked <= FreeIn(Older(c)) THEN 0
              ELSE IF asked - FreeIn(Older(c)) < Free(c) THEN asked - FreeIn(Older(c)) ELSE Free(c)
         /\ GreedyPlan(asked)[c] \in Nat
         /\ GreedyPlan(asked)[c] <= Free(c)
<1> DEFINE old == FreeIn(Older(c))
           plan == GreedyPlan(asked)[c]
<1>1. Older(c) \in SUBSET Commission
  BY DEF Older, Lockable
<1>2. old \in Nat /\ Free(c) \in Nat
  BY <1>1, FreeInSum, FreeIsNat
<1>3. plan = IF (IF asked > old THEN asked - old ELSE 0) < Free(c)
             THEN (IF asked > old THEN asked - old ELSE 0) ELSE Free(c)
  BY DEF GreedyPlan, Older
<1> HIDE DEF old, plan
<1>4. /\ plan = IF asked <= old THEN 0 ELSE IF asked - old < Free(c) THEN asked - old ELSE Free(c)
      /\ plan \in Nat /\ plan <= Free(c)
  BY <1>2, <1>3
<1> QED BY <1>2, <1>4 DEF old, plan

\* A finite set of numbers has a largest.
LEMMA LargestOf ==
  ASSUME NEW S, IsFiniteSet(S), S # {}, S \subseteq Nat
  PROVE  \E m \in S : \A x \in S : x <= m
<1> DEFINE Bad == {T \in SUBSET S : T # {} /\ ~ \E m \in T : \A x \in T : x <= m}
<1> SUFFICES ASSUME Bad # {} PROVE FALSE
  OBVIOUS
<1>1. PICK T \in Bad : \A x \in T : T \ {x} \notin Bad
  <2>1. Bad \subseteq SUBSET S
    OBVIOUS
  <2> HIDE DEF Bad
  <2> QED BY <2>1, SmallestSubset
<1>2. PICK x \in T : TRUE
  OBVIOUS
<1>3. x \in Nat /\ \A y \in T : y \in Nat
  OBVIOUS
<1>4. T \ {x} = {} \/ \E m \in T \ {x} : \A y \in T \ {x} : y <= m
  BY <1>1
<1>5. CASE T \ {x} = {}
  BY <1>3, <1>5
<1>6. ASSUME NEW m \in T \ {x}, \A y \in T \ {x} : y <= m PROVE FALSE
  <2>1. CASE x <= m
    BY <1>3, <1>6, <2>1
  <2>2. CASE m < x
    BY <1>3, <1>6, <2>2
  <2> QED BY <1>3, <2>1, <2>2
<1> QED BY <1>4, <1>5, <1>6

\* The greedy loop takes what is asked, or all there is.
LEMMA GreedyTakesAll ==
  ASSUME TypeOK, NEW asked \in Nat
  PROVE  SumOver(GreedyPlan(asked), Commission) =
            IF asked <= FreeIn(Lockable) THEN asked ELSE FreeIn(Lockable)
<1> DEFINE plan == GreedyPlan(asked)
           Least(n) == IF asked <= n THEN asked ELSE n
           Down(T) == \A c \in T : Older(c) \subseteq T
           Bad == {T \in SUBSET Lockable : Down(T) /\ SumOver(plan, T) # Least(FreeIn(T))}
<1>1. IsFiniteSet(Commission) /\ Commission \subseteq Nat /\ Lockable \subseteq Commission
      /\ IsFiniteSet(Lockable)
  BY CommissionPayoutAssumption, FS_Subset DEF Lockable
<1>2. \A c \in Commission : plan[c] \in Nat /\ plan[c] <= Free(c)
  BY PlanEntry
<1>3. \A c \in Commission \ Lockable : plan[c] = 0
  <2>1. \A c \in Commission \ Lockable : Free(c) = 0
    BY DEF Free
  <2> QED BY <1>2, <2>1
<1> HIDE DEF plan
<1>4. SumOver(plan, Commission) = SumOver(plan, Lockable)
  <2>1. \A c \in Commission : plan[c] \in Int
    BY <1>2
  <2> HIDE DEF Bad, Down, Least
  <2> QED BY <1>1, <1>3, <2>1, SumSupport
<1>5. Bad = {}
  <2> SUFFICES ASSUME Bad # {} PROVE FALSE
    OBVIOUS
  <2>1. PICK T \in Bad : \A x \in T : T \ {x} \notin Bad
    <3>1. Bad \subseteq SUBSET Lockable
      OBVIOUS
    <3> HIDE DEF Bad
    <3> QED BY <1>1, <3>1, SmallestSubset
  <2>2. T \in SUBSET Lockable /\ T \in SUBSET Commission /\ T \subseteq Nat /\ IsFiniteSet(T) /\ Down(T)
    BY <1>1, <2>1, FS_Subset
  <2>3. CASE T = {}
    <3>1. SumOver(plan, T) = 0
      BY <2>3, SumEmpty
    <3>2. FreeIn(T) = 0
      BY <2>3, SumEmpty DEF FreeIn
    <3> QED BY <2>1, <3>1, <3>2
  <2>4. CASE T # {}
    <3>1. PICK m \in T : \A x \in T : x <= m
      BY <2>2, <2>4, LargestOf
    <3>2. T \ {m} = Older(m)
      <4>1. \A x \in T \ {m} : x \in Older(m)
        BY <2>2, <3>1 DEF Older
      <4>2. \A x \in Older(m) : x \in T /\ x # m
        BY <2>2, <3>1 DEF Older
      <4> QED BY <4>1, <4>2
    <3>3. Down(T \ {m})
      <4> SUFFICES ASSUME NEW c \in T \ {m}, NEW d \in Older(c) PROVE d \in T \ {m}
        OBVIOUS
      <4>1. d \in T /\ d < c /\ c <= m /\ d \in Nat /\ c \in Nat /\ m \in Nat
        BY <2>2, <3>1 DEF Older
      <4> QED BY <4>1
    <3> DEFINE old == FreeIn(Older(m))
    <3>4. SumOver(plan, T \ {m}) = Least(old)
      BY <2>1, <2>2, <3>2, <3>3
    <3>5. SumOver(plan, T) = plan[m] + SumOver(plan, T \ {m})
      <4>1. IsFiniteSet(T) /\ m \in T /\ \A c \in T : plan[c] \in Int
        BY <1>2, <2>2
      <4> QED BY ONLY <4>1, SumRemove
    <3>6. FreeIn(T) = Free(m) + old
      BY <2>2, <3>2, FreeInSum
    <3>7. /\ old \in Nat /\ Free(m) \in Nat
          /\ plan[m] = IF asked <= old THEN 0 ELSE IF asked - old < Free(m) THEN asked - old ELSE Free(m)
      BY <2>2, PlanEntry DEF plan
    <3>8. SumOver(plan, T) # Least(FreeIn(T))
      BY <2>1
    <3> HIDE DEF old
    <3> QED BY <3>4, <3>5, <3>6, <3>7, <3>8
  <2> QED BY <2>3, <2>4
<1>6. Down(Lockable)
  BY DEF Older
<1>7. SumOver(plan, Lockable) = Least(FreeIn(Lockable))
  BY <1>5, <1>6
<1> QED BY <1>4, <1>7 DEF plan

-----------------------------------------------------------------------------
(* The variables keep their types.                                         *)

SentTransfers == \A p \in Payout : transfer[p] # "none" => sent[p] > 0

TypeInv == TypeOK /\ SentTransfers

RowsTyped ==
    /\ cstatus \in [Commission -> CommissionStatus]
    /\ reserved \in [Commission -> Int]
    /\ pstatus \in [Payout -> PayoutStatus]
    /\ amount \in [Payout -> Ask \cup {0}]
    /\ signed \in [Payout -> SUBSET {"admin", "company"}]
    /\ code \in [Payout -> BOOLEAN]
    /\ alloc \in [Payout -> [Commission -> Nat]]
    /\ astatus \in [Payout -> [Commission -> AllocationStatus]]

ApiTyped == api \in [Handler -> ApiState]
WorkerTyped == worker \in [Worker -> WorkerState]
HookTyped == hook \in [Hook -> HookState]

\* The rest changes little.
RestTyped ==
    /\ jobs \subseteq Job
    /\ queued \in [Payout -> 0 .. MaxJob]
    /\ transfer \in [Payout -> {"none", "pending", "success", "failed", "reversed"}]
    /\ sent \in [Payout -> 0 .. MaxSent]
    /\ events \subseteq Event
    /\ processed \subseteq Event
    /\ crashes \in 0 .. MaxCrash
    /\ SentTransfers

LEMMA TypedParts == TypeInv <=> RowsTyped /\ ApiTyped /\ WorkerTyped /\ HookTyped /\ RestTyped
BY DEF TypeInv, TypeOK, RowsTyped, ApiTyped, WorkerTyped, HookTyped, RestTyped

\* It is enough to look at the parts a step changes.
LEMMA ChangedTypes ==
  ASSUME TypeInv,
         RowsTyped' \/ UNCHANGED rows,
         ApiTyped' \/ UNCHANGED api,
         WorkerTyped' \/ UNCHANGED worker,
         HookTyped' \/ UNCHANGED hook,
         RestTyped' \/ UNCHANGED <<jobs, queued, transfer, sent, events, processed, crashes>>
  PROVE  TypeInv'
<1>1. RowsTyped'
  BY TypedParts DEF RowsTyped, rows
<1>2. ApiTyped' /\ WorkerTyped' /\ HookTyped'
  BY TypedParts DEF ApiTyped, WorkerTyped, HookTyped
<1>3. RestTyped'
  BY TypedParts DEF RestTyped, SentTransfers
<1> QED BY <1>1, <1>2, <1>3 DEF TypeInv, TypeOK, RowsTyped, ApiTyped, WorkerTyped, HookTyped, RestTyped

LEMMA TypeInit == Init => TypeInv
<1> SUFFICES ASSUME Init PROVE TypeInv
  OBVIOUS
<1>1. RowsTyped
  BY DEF Init, RowsTyped, CommissionStatus, PayoutStatus, AllocationStatus
<1>2. ApiTyped
  BY DEF Init, ApiTyped, ApiState, IdleApi, ApiAt, NoSnapshot, Snapshot, AllocationStatus
<1>3. WorkerTyped /\ HookTyped
  BY DEF Init, WorkerTyped, HookTyped, WorkerState, HookState, IdleWorker, IdleHook
<1>4. RestTyped
  BY CommissionPayoutAssumption DEF Init, RestTyped, SentTransfers
<1> QED BY <1>1, <1>2, <1>3, <1>4, TypedParts

LEMMA SnapshotTyped ==
  ASSUME TypeInv, NEW p \in Payout
  PROVE  SnapshotOf(p) \in Snapshot
BY DEF TypeInv, TypeOK, SnapshotOf, Snapshot

\* The handlers.
LEMMA ApiTypes ==
  ASSUME TypeInv, NEW h \in Handler, NEW state \in ApiState, api' = [api EXCEPT ![h] = state]
  PROVE  ApiTyped'
BY DEF TypeInv, TypeOK, ApiTyped

LEMMA ApiStates ==
  /\ IdleApi \in ApiState
  /\ \A pc \in {"asking", "admin", "company", "failed", "reversed", "initiate"}, p \in Payout :
        ApiAt(pc, p) \in ApiState
  /\ ApiAt("asking", NoPayout) \in ApiState
BY DEF IdleApi, ApiAt, ApiState, NoSnapshot, Snapshot, AllocationStatus

LEMMA ApiGoesOnTyped ==
  ASSUME TypeInv, NEW h \in Handler, NEW pc \in {"initiate", "enqueue"},
         api' = [api EXCEPT ![h].pc = pc]
  PROVE  ApiTyped'
<1>1. [api[h] EXCEPT !.pc = pc] \in ApiState
  <2>1. api[h] \in ApiState
    BY DEF TypeInv, TypeOK
  <2> QED BY ONLY <2>1, pc \in {"initiate", "enqueue"} DEF ApiState
<1> QED BY <1>1, ApiTypes

\* What a request writes.
LEMMA ReservePayoutTyped ==
  ASSUME TypeInv, NEW h \in Handler, ReservePayout(h)
  PROVE  RowsTyped' \/ UNCHANGED rows
<1> SUFFICES ASSUME ~UNCHANGED rows PROVE RowsTyped'
  OBVIOUS
<1>1. PICK p \in Payout, asked \in Ask :
        /\ pstatus' = [pstatus EXCEPT ![p] =
                         IF AdminFirst THEN "PENDING_ADMIN_APPROVAL" ELSE "PENDING_COMPANY_APPROVAL"]
        /\ amount' = [amount EXCEPT ![p] = asked]
        /\ alloc' = [alloc EXCEPT ![p] = GreedyPlan(asked)]
        /\ astatus' = [astatus EXCEPT ![p] =
             [c \in Commission |-> IF c \in {d \in Commission : GreedyPlan(asked)[d] > 0}
                                   THEN "RESERVED" ELSE "NONE"]]
        /\ reserved' = [c \in Commission |-> reserved[c] + GreedyPlan(asked)[c]]
        /\ cstatus' = [c \in Commission |->
             IF c \in {d \in Commission : GreedyPlan(asked)[d] > 0}
             THEN ReservationStatus(reserved'[c], Amount[c]) ELSE cstatus[c]]
        /\ UNCHANGED <<signed, code>>
  BY ZenonT(60) DEF ReservePayout
<1>2. asked \in Nat /\ TypeOK
  BY CommissionPayoutAssumption DEF TypeInv
<1>3. \A c \in Commission : GreedyPlan(asked)[c] \in Nat
  BY <1>2, PlanEntry
<1>4. GreedyPlan(asked) \in [Commission -> Nat]
  <2> DEFINE plan == GreedyPlan(asked)
  <2>1. plan = [c \in Commission |-> plan[c]]
    BY DEF GreedyPlan
  <2> HIDE DEF plan
  <2>2. \A c \in Commission : plan[c] \in Nat
    BY <1>3 DEF plan
  <2>3. plan \in [Commission -> Nat]
    BY <2>1, <2>2
  <2> QED BY <2>3 DEF plan
<1>5. \A n, m : ReservationStatus(n, m) \in CommissionStatus
  BY DEF ReservationStatus, CommissionStatus
<1> DEFINE plan == GreedyPlan(asked)
           used == {d \in Commission : plan[d] > 0}
<1>6. plan \in [Commission -> Nat]
  BY <1>4
<1>7. /\ alloc' = [alloc EXCEPT ![p] = plan]
      /\ astatus' = [astatus EXCEPT ![p] = [c \in Commission |-> IF c \in used THEN "RESERVED" ELSE "NONE"]]
      /\ reserved' = [c \in Commission |-> reserved[c] + plan[c]]
      /\ cstatus' = [c \in Commission |-> IF c \in used THEN ReservationStatus(reserved'[c], Amount[c])
                                                         ELSE cstatus[c]]
  BY <1>1
<1> HIDE DEF plan, used
<1>8. cstatus' \in [Commission -> CommissionStatus] /\ reserved' \in [Commission -> Int]
  BY <1>2, <1>5, <1>6, <1>7 DEF TypeOK
<1>9. alloc' \in [Payout -> [Commission -> Nat]] /\ astatus' \in [Payout -> [Commission -> AllocationStatus]]
  BY <1>2, <1>6, <1>7 DEF TypeOK, AllocationStatus
<1>10. /\ pstatus' \in [Payout -> PayoutStatus] /\ amount' \in [Payout -> Ask \cup {0}]
       /\ signed' \in [Payout -> SUBSET {"admin", "company"}] /\ code' \in [Payout -> BOOLEAN]
  BY <1>1, <1>2 DEF TypeOK, PayoutStatus, InProgress
<1> QED BY <1>8, <1>9, <1>10 DEF RowsTyped

\* One payout's status, its signatures and its code.
LEMMA PayoutRowTyped ==
  ASSUME TypeInv, NEW p \in Payout, NEW s \in PayoutStatus,
         pstatus' = [pstatus EXCEPT ![p] = s] \/ UNCHANGED pstatus,
         (\E who \in {"admin", "company"} : signed' = [signed EXCEPT ![p] = @ \cup {who}])
           \/ UNCHANGED signed,
         (\E b \in BOOLEAN : code' = [code EXCEPT ![p] = b]) \/ UNCHANGED code,
         UNCHANGED <<cstatus, reserved, amount, alloc, astatus>>
  PROVE  RowsTyped'
<1>1. pstatus' \in [Payout -> PayoutStatus]
  BY DEF TypeInv, TypeOK
<1>2. signed' \in [Payout -> SUBSET {"admin", "company"}]
  <2>1. signed \in [Payout -> SUBSET {"admin", "company"}]
    BY DEF TypeInv, TypeOK
  <2>2. ASSUME NEW who \in {"admin", "company"}, signed' = [signed EXCEPT ![p] = @ \cup {who}]
        PROVE  signed' \in [Payout -> SUBSET {"admin", "company"}]
    <3> DEFINE both == signed[p] \cup {who}
    <3>1. both \in SUBSET {"admin", "company"} /\ signed' = [signed EXCEPT ![p] = both]
      BY <2>1, <2>2
    <3> HIDE DEF both
    <3> QED BY <2>1, <3>1
  <2> QED BY <2>1, <2>2
<1>3. code' \in [Payout -> BOOLEAN]
  BY DEF TypeInv, TypeOK
<1> QED BY <1>1, <1>2, <1>3 DEF RowsTyped, TypeInv, TypeOK


\* The allocations of payout p in new become to, and the commissions follow.
LEMMA AllocationRowsTyped ==
  ASSUME TypeInv, NEW p \in Payout, NEW s \in PayoutStatus, NEW to \in AllocationStatus,
         NEW new \in SUBSET Commission, NEW held, NEW derived,
         \A c \in new : held[c] \in Int /\ derived[c] \in CommissionStatus,
         pstatus' = [pstatus EXCEPT ![p] = s],
         astatus' = [astatus EXCEPT ![p] =
                       [c \in Commission |-> IF c \in new THEN to ELSE astatus[p][c]]],
         reserved' = [c \in Commission |-> IF c \in new THEN held[c] ELSE reserved[c]],
         cstatus' = [c \in Commission |-> IF c \in new THEN derived[c] ELSE cstatus[c]],
         UNCHANGED <<amount, signed, code, alloc>>
  PROVE  RowsTyped'
<1>1. pstatus' \in [Payout -> PayoutStatus]
  BY DEF TypeInv, TypeOK
<1>2. astatus' \in [Payout -> [Commission -> AllocationStatus]]
  BY DEF TypeInv, TypeOK
<1>3. reserved' \in [Commission -> Int] /\ cstatus' \in [Commission -> CommissionStatus]
  BY DEF TypeInv, TypeOK
<1> QED BY <1>1, <1>2, <1>3 DEF RowsTyped, TypeInv, TypeOK

LEMMA StatusesTyped ==
  /\ \A n, m : ReservationStatus(n, m) \in CommissionStatus
  /\ \A n, m, l : PostPaymentStatus(n, m, l) \in CommissionStatus
BY DEF ReservationStatus, PostPaymentStatus, CommissionStatus

LEMMA ReserveReleasedTyped ==
  ASSUME SignedInv, TypeInv, NEW h \in Handler, ReserveReleased(h)
  PROVE  RowsTyped'
<1>1. PICK p \in Payout : p = api[h].payout
  BY HandlerKnows DEF ReserveReleased, ApiKnows
<1> DEFINE seen == api[h].snap
           new == {c \in Commission : seen.astatus[c] = "RELEASED"}
           held == [c \in Commission |-> seen.reserved[c] + alloc[p][c]]
           derived == [c \in Commission |-> ReservationStatus(reserved'[c], Amount[c])]
<1>2. /\ pstatus' = [pstatus EXCEPT ![p] = "APPROVED"]
      /\ astatus' = [astatus EXCEPT ![p] =
           [c \in Commission |-> IF c \in new THEN "RESERVED" ELSE astatus[p][c]]]
      /\ UNCHANGED <<amount, signed, code, alloc>>
  BY <1>1, Zenon DEF ReserveReleased
<1>3. reserved' = [c \in Commission |-> IF c \in new THEN held[c] ELSE reserved[c]]
  BY <1>1 DEF ReserveReleased
<1>4. cstatus' = [c \in Commission |-> IF c \in new THEN derived[c] ELSE cstatus[c]]
  BY <1>1 DEF ReserveReleased
<1>5. \A c \in new : held[c] \in Int /\ derived[c] \in CommissionStatus
  BY <1>1, StatusesTyped DEF TypeInv, TypeOK, ApiState, Snapshot
<1>6. new \in SUBSET Commission /\ "APPROVED" \in PayoutStatus /\ "RESERVED" \in AllocationStatus
  BY DEF PayoutStatus, InProgress, AllocationStatus
<1> HIDE DEF new, held, derived
<1> QED BY <1>2, <1>3, <1>4, <1>5, <1>6, AllocationRowsTyped

LEMMA ApplyEventTyped ==
  ASSUME SignedInv, TypeInv, NEW k \in Hook, ApplyEvent(k)
  PROVE  RowsTyped'
<1> DEFINE p == hook[k].event.payout
           kind == hook[k].event.kind
           seen == hook[k].snap
           from == IF kind = "reversed" THEN "PAID" ELSE "RESERVED"
           to == CASE kind = "success" -> "PAID"
                   [] kind = "failed" -> "RELEASED"
                   [] kind = "reversed" -> "RESERVED"
           new == {c \in Commission : seen.astatus[c] = from}
           change(c) == IF kind = "reversed" THEN alloc[p][c] ELSE -alloc[p][c]
           paid(c) == SumOver([q \in Payout |-> alloc[q][c]],
                              {q \in Payout : astatus'[q][c] = "PAID"})
           held == [c \in Commission |-> seen.reserved[c] + change(c)]
           derived == [c \in Commission |->
                         IF kind = "success" THEN PostPaymentStatus(Amount[c], reserved'[c], paid(c))
                                             ELSE ReservationStatus(reserved'[c], Amount[c])]
<1>1. /\ pstatus' = [pstatus EXCEPT ![p] = StatusOf(kind)]
      /\ astatus' = [astatus EXCEPT ![p] =
           [c \in Commission |-> IF c \in new THEN to ELSE astatus[p][c]]]
      /\ UNCHANGED <<amount, signed, code, alloc>>
  BY Zenon DEF ApplyEvent
<1>2. reserved' = [c \in Commission |-> IF c \in new THEN seen.reserved[c] + change(c) ELSE reserved[c]]
  BY Zenon DEF ApplyEvent
<1>3. reserved' = [c \in Commission |-> IF c \in new THEN held[c] ELSE reserved[c]]
  BY <1>2
<1>4. cstatus' = [c \in Commission |->
                    IF c \notin new THEN cstatus[c]
                    ELSE IF kind = "success"
                         THEN PostPaymentStatus(Amount[c], reserved'[c], paid(c))
                         ELSE ReservationStatus(reserved'[c], Amount[c])]
  BY Zenon DEF ApplyEvent
<1>5. \A c \in Commission : derived[c] = IF kind = "success"
                         THEN PostPaymentStatus(Amount[c], reserved'[c], paid(c))
                         ELSE ReservationStatus(reserved'[c], Amount[c])
  OBVIOUS
<1>6. \A c \in Commission : derived[c] \in CommissionStatus
  BY <1>5, StatusesTyped, Zenon
<1>7. hook[k] \in [pc: {"read", "apply", "done"}, event: Event, snap: Snapshot]
  <2>1. hook[k].pc = "apply"
    BY Zenon DEF ApplyEvent
  <2>2. hook[k] \in HookState
    BY DEF TypeInv, TypeOK
  <2> QED BY ONLY <2>1, <2>2 DEF HookState
<1>8. p \in Payout /\ kind \in Kind /\ seen.reserved \in [Commission -> Int]
  BY <1>7 DEF Event, Snapshot
<1>9. \A c \in Commission : held[c] \in Int
  <2>1. \A c \in Commission : alloc[p][c] \in Nat
    BY <1>8 DEF TypeInv, TypeOK
  <2> QED BY <1>8, <2>1
<1>10. to \in AllocationStatus /\ StatusOf(kind) \in PayoutStatus
  BY <1>8 DEF AllocationStatus, StatusOf, Kind, PayoutStatus, Initiatable
<1>11. new \in SUBSET Commission
  OBVIOUS
<1> HIDE DEF derived, paid, held, change
<1>12. cstatus' = [c \in Commission |-> IF c \in new THEN derived[c] ELSE cstatus[c]]
  <2> HIDE DEF new, kind
  <2>1. \A c \in Commission : cstatus'[c] = IF c \in new THEN derived[c] ELSE cstatus[c]
    BY <1>4, <1>5
  <2>2. cstatus' = [c \in Commission |-> cstatus'[c]]
    BY <1>4
  <2> QED BY <2>1, <2>2
<1> HIDE DEF new, to, kind, p
<1> QED BY <1>1, <1>3, <1>6, <1>8, <1>9, <1>10, <1>11, <1>12, AllocationRowsTyped


LEMMA HandlerTypes ==
  ASSUME SignedInv, TypeInv, NEW h \in Handler,
         \/ ApiStep(h) \/ CrashApi(h) \/ AskPayout(h)
         \/ \E p \in Payout : ReadApproval(h, p) \/ ReadInitiatable(h, p)
  PROVE  TypeInv'
<1>1. api[h] \in ApiState /\ ApiKnows(api[h].pc, api[h].payout)
  BY HandlerKnows DEF TypeInv, TypeOK
<1>2. CASE ReservePayout(h)
  BY <1>2, ReservePayoutTyped, ApiStates, ApiTypes, ChangedTypes
     DEF ReservePayout, queue, paystack
<1>3. CASE Approve(h)
  <2>1. PICK p \in Payout, who \in {"admin", "company"} :
          p = api[h].payout /\ who = api[h].pc
    BY <1>1, <1>3 DEF Approve, ApiKnows
  <2>2. PICK s \in {"PENDING_COMPANY_APPROVAL", "APPROVED"} : pstatus' = [pstatus EXCEPT ![p] = s]
    BY <1>3, <2>1 DEF Approve
  <2>3. signed' = [signed EXCEPT ![p] = @ \cup {who}]
    BY <1>3, <2>1 DEF Approve
  <2>4. s \in PayoutStatus
    BY DEF PayoutStatus, InProgress
  <2>5. RowsTyped'
    BY <1>3, <2>2, <2>3, <2>4, PayoutRowTyped DEF Approve, books
  <2> QED BY <1>3, <2>5, ApiStates, ApiTypes, ChangedTypes DEF Approve, queue, paystack
<1>4. CASE ReadReleased(h)
  <2>1. PICK p \in Payout : p = api[h].payout
    BY <1>1, <1>4 DEF ReadReleased, ApiKnows
  <2> DEFINE snap == SnapshotOf(p)
             state == [[api[h] EXCEPT !.pc = "rereserve"] EXCEPT !.snap = snap]
  <2>2. api' = [api EXCEPT ![h] = state]
    BY <1>4, <2>1, Zenon DEF ReadReleased
  <2>3. snap \in Snapshot
    BY SnapshotTyped
  <2>4. state \in ApiState
    <3> HIDE DEF snap
    <3>1. [api[h] EXCEPT !.pc = "rereserve"] \in ApiState
      BY <1>1 DEF ApiState
    <3> QED BY <2>3, <3>1 DEF ApiState
  <2> HIDE DEF state
  <2>5. ApiTyped'
    BY <2>2, <2>4, ApiTypes
  <2> QED BY <1>4, <2>5, ChangedTypes DEF ReadReleased, queue, paystack
<1>5. CASE ReserveReleased(h)
  <2>1. PICK p \in Payout : p = api[h].payout
    BY <1>1, <1>5 DEF ReserveReleased, ApiKnows
  <2>2. api' = [api EXCEPT ![h] = ApiAt("initiate", p)]
    BY <1>5, <2>1, Zenon DEF ReserveReleased
  <2>3. ApiTyped'
    BY <2>2, ApiStates, ApiTypes
  <2>4. UNCHANGED <<worker, hook, jobs, queued, transfer, sent, events, processed, crashes>>
    BY <1>5 DEF ReserveReleased, queue, paystack
  <2> QED BY <1>5, <2>3, <2>4, ReserveReleasedTyped, ChangedTypes
<1>6. CASE Reapprove(h) \/ MarkInitiated(h)
  <2>1. PICK p \in Payout : p = api[h].payout
    BY <1>1, <1>6 DEF Reapprove, MarkInitiated, ApiKnows
  <2>2. PICK s \in {"APPROVED", "TRANSFER_INITIATED"} : pstatus' = [pstatus EXCEPT ![p] = s]
    BY <1>6, <2>1 DEF Reapprove, MarkInitiated
  <2>3. s \in PayoutStatus
    BY DEF PayoutStatus, InProgress
  <2>4. RowsTyped'
    BY <1>6, <2>1, <2>2, <2>3, PayoutRowTyped DEF Reapprove, MarkInitiated, books
  <2>5. ApiTyped'
    BY <1>6, ApiGoesOnTyped DEF Reapprove, MarkInitiated
  <2> QED BY <1>6, <2>4, <2>5, ChangedTypes DEF Reapprove, MarkInitiated, queue, paystack
<1>7. CASE Enqueue(h)
  <2>1. PICK p \in Payout : p = api[h].payout
    BY <1>1, <1>7 DEF Enqueue, ApiKnows
  <2>2. queued[p] \in 0 .. MaxJob /\ queued[p] < MaxJob
    BY <1>7, <2>1 DEF Enqueue, TypeInv, TypeOK
  <2>3. [payout |-> p, n |-> queued[p] + 1, left |-> JobAttempts] \in Job
    BY <2>2, CommissionPayoutAssumption DEF Job
  <2>4. jobs' \subseteq Job /\ queued' \in [Payout -> 0 .. MaxJob]
    <3>1. queued[p] + 1 \in 0 .. MaxJob
      BY <2>2, CommissionPayoutAssumption
    <3> QED BY <1>7, <2>1, <2>3, <3>1 DEF Enqueue, TypeInv, TypeOK
  <2>5. RestTyped'
    BY <1>7, <2>4, TypedParts DEF Enqueue, RestTyped, SentTransfers, paystack
  <2> QED BY <1>7, <2>5, ApiStates, ApiTypes, ChangedTypes DEF Enqueue
<1>8. CASE CrashApi(h)
  <2>1. RestTyped'
    BY <1>8, TypedParts, CommissionPayoutAssumption DEF CrashApi, RestTyped, SentTransfers, paystack, queue
  <2> QED BY <1>8, <2>1, ApiStates, ApiTypes, ChangedTypes DEF CrashApi
<1>9. CASE AskPayout(h)
  BY <1>9, ApiStates, ApiTypes, ChangedTypes DEF AskPayout, queue, paystack
<1>10. ASSUME NEW p \in Payout, ReadApproval(h, p) PROVE TypeInv'
  BY <1>10, ApiStates, ApiTypes, ChangedTypes DEF ReadApproval, queue, paystack
<1>11. ASSUME NEW p \in Payout, ReadInitiatable(h, p) PROVE TypeInv'
  <2>1. PICK pc \in {"initiate", "failed", "reversed"} : api' = [api EXCEPT ![h] = ApiAt(pc, p)]
    BY <1>11 DEF ReadInitiatable, Initiatable
  <2> QED BY <1>11, <2>1, ApiStates, ApiTypes, ChangedTypes DEF ReadInitiatable, queue, paystack
<1> QED BY <1>2, <1>3, <1>4, <1>5, <1>6, <1>7, <1>8, <1>9, <1>10, <1>11 DEF ApiStep

\* A worker at work has a job, and keeps it while it moves on.
LEMMA WorkerTypes ==
  ASSUME TypeInv, NEW w \in Worker,
         \/ worker' = [worker EXCEPT ![w] = IdleWorker]
         \/ \E j \in Job : worker' = [worker EXCEPT ![w] = [pc |-> "call", job |-> j]]
         \/ worker[w].pc # "idle"
            /\ \E pc \in {"save", "fail", "exhausted"} : worker' = [worker EXCEPT ![w].pc = pc]
         \/ UNCHANGED worker
  PROVE  WorkerTyped'
<1>1. CASE worker' = [worker EXCEPT ![w] = IdleWorker] \/ UNCHANGED worker
  BY <1>1 DEF TypeInv, TypeOK, WorkerTyped, WorkerState, IdleWorker
<1>2. ASSUME NEW j \in Job, worker' = [worker EXCEPT ![w] = [pc |-> "call", job |-> j]]
      PROVE  WorkerTyped'
  BY <1>2 DEF TypeInv, TypeOK, WorkerTyped, WorkerState
<1>3. ASSUME worker[w].pc # "idle", NEW pc \in {"save", "fail", "exhausted"},
             worker' = [worker EXCEPT ![w].pc = pc]
      PROVE  WorkerTyped'
  <2>1. [worker[w] EXCEPT !.pc = pc] \in WorkerState
    <3>1. worker[w] \in [pc: {"idle", "call", "save", "fail", "exhausted"}, job: Job]
      BY <1>3 DEF TypeInv, TypeOK, WorkerState
    <3> QED BY <3>1 DEF WorkerState
  <2> QED BY <1>3, <2>1 DEF TypeInv, TypeOK, WorkerTyped
<1> QED BY <1>1, <1>2, <1>3

LEMMA WorkerStepTypes ==
  ASSUME SignedInv, TypeInv, NEW w \in Worker, WorkerStep(w) \/ CrashWorker(w)
  PROVE  TypeInv'
<1>1. worker[w].pc # "idle" =>
        worker[w] \in [pc: {"idle", "call", "save", "fail", "exhausted"}, job: Job]
  BY DEF TypeInv, TypeOK, WorkerState
<1>2. worker[w].pc # "idle" => worker[w].job \in Job /\ worker[w].job.payout \in Payout
  BY <1>1 DEF Job
<1>3. jobs \subseteq Job
  BY DEF TypeInv, TypeOK
<1>4. CASE TakeJob(w)
  <2>1. PICK j \in jobs : /\ jobs' = jobs \ {j}
                          /\ \/ worker' = [worker EXCEPT ![w] = [pc |-> "call", job |-> j]]
                             \/ UNCHANGED worker
    BY <1>4 DEF TakeJob
  <2>2. WorkerTyped'
    BY <1>3, <2>1, WorkerTypes
  <2>3. RestTyped'
    BY <1>4, <2>1, TypedParts DEF TakeJob, RestTyped, SentTransfers, paystack
  <2> QED BY <1>4, <2>2, <2>3, ChangedTypes DEF TakeJob
<1>5. CASE CallPaystack(w)
  <2> DEFINE p == worker[w].job.payout
  <2>1. worker[w].pc = "call"
        /\ \E pc \in {"save", "fail"} : worker' = [worker EXCEPT ![w].pc = pc]
    BY <1>5 DEF CallPaystack
  <2>2. WorkerTyped'
    BY <2>1, WorkerTypes
  <2>3. UNCHANGED <<transfer, sent>>
        \/ /\ sent[p] < MaxSent /\ transfer' = [transfer EXCEPT ![p] = "pending"]
           /\ sent' = [sent EXCEPT ![p] = @ + 1]
    BY <1>5 DEF CallPaystack
  <2>4. p \in Payout /\ UNCHANGED <<jobs, queued, events, processed, crashes>>
    BY <1>2, <1>5, <2>1 DEF CallPaystack, queue
  <2> HIDE DEF p
  <2>5. RestTyped'
    <3>1. CASE UNCHANGED <<transfer, sent>>
      BY <2>4, <3>1, TypedParts DEF RestTyped, SentTransfers
    <3>2. CASE /\ sent[p] < MaxSent /\ transfer' = [transfer EXCEPT ![p] = "pending"]
               /\ sent' = [sent EXCEPT ![p] = @ + 1]
      <4>1. sent[p] \in 0 .. MaxSent /\ sent[p] + 1 \in 0 .. MaxSent /\ sent[p] + 1 > 0
        BY <2>4, <3>2, CommissionPayoutAssumption DEF TypeInv, TypeOK
      <4>2. sent' \in [Payout -> 0 .. MaxSent]
            /\ transfer' \in [Payout -> {"none", "pending", "success", "failed", "reversed"}]
        BY <3>2, <4>1 DEF TypeInv, TypeOK
      <4>3. SentTransfers'
        BY <2>4, <3>2, <4>1 DEF TypeInv, TypeOK, SentTransfers
      <4> QED BY <2>4, <4>2, <4>3, TypedParts DEF RestTyped
    <3> QED BY <2>3, <3>1, <3>2
  <2> QED BY <1>5, <2>2, <2>5, ChangedTypes DEF CallPaystack
<1>6. CASE SaveCode(w)
  <2>1. PICK p \in Payout : p = worker[w].job.payout
    BY <1>2, <1>6 DEF SaveCode
  <2>2. \E b \in BOOLEAN : code' = [code EXCEPT ![p] = b]
    <3>1. PICK given \in BOOLEAN : code' = [code EXCEPT ![p] = code[p] \/ given]
      BY <1>6, <2>1 DEF SaveCode
    <3>2. (code[p] \/ given) \in BOOLEAN
      OBVIOUS
    <3> QED BY <3>1, <3>2
  <2>3. "NONE" \in PayoutStatus
    BY DEF PayoutStatus
  <2>4. RowsTyped'
    BY <1>6, <2>1, <2>2, <2>3, PayoutRowTyped DEF SaveCode, books
  <2>5. WorkerTyped'
    BY <1>6, WorkerTypes DEF SaveCode
  <2> QED BY <1>6, <2>4, <2>5, ChangedTypes DEF SaveCode, queue, paystack
<1>7. CASE FailAttempt(w)
  <2> DEFINE j == worker[w].job
  <2>1. worker[w].pc = "fail" /\ j \in Job
    BY <1>2, <1>7 DEF FailAttempt
  <2>2. WorkerTyped'
    <3>1. worker' = [worker EXCEPT ![w] = IdleWorker]
          \/ \E pc \in {"save", "fail", "exhausted"} : worker' = [worker EXCEPT ![w].pc = pc]
      BY <1>7 DEF FailAttempt
    <3> QED BY <2>1, <3>1, WorkerTypes
  <2>3. jobs' \subseteq Job
    <3>1. jobs' = jobs \/ (j.left > 1 /\ jobs' = jobs \cup {[j EXCEPT !.left = @ - 1]})
      BY <1>7 DEF FailAttempt
    <3> HIDE DEF j
    <3>2. j.left > 1 => [j EXCEPT !.left = @ - 1] \in Job
      BY <2>1, CommissionPayoutAssumption DEF Job
    <3> QED BY <1>3, <3>1, <3>2
  <2>4. RestTyped'
    BY <1>7, <2>3, TypedParts DEF FailAttempt, RestTyped, SentTransfers, paystack
  <2> QED BY <1>7, <2>2, <2>4, ChangedTypes DEF FailAttempt
<1>8. CASE MarkTransferFailed(w)
  <2>1. PICK p \in Payout : p = worker[w].job.payout
    BY <1>2, <1>8 DEF MarkTransferFailed
  <2>2. "TRANSFER_FAILED" \in PayoutStatus
    BY DEF PayoutStatus, Initiatable
  <2>3. RowsTyped'
    BY <1>8, <2>1, <2>2, PayoutRowTyped DEF MarkTransferFailed, books
  <2>4. WorkerTyped'
    BY <1>8, WorkerTypes DEF MarkTransferFailed
  <2> QED BY <1>8, <2>3, <2>4, ChangedTypes DEF MarkTransferFailed, queue, paystack
<1>9. CASE CrashWorker(w)
  <2>1. jobs' \subseteq Job
    BY <1>2, <1>3, <1>9 DEF CrashWorker
  <2>2. RestTyped'
    BY <1>9, <2>1, TypedParts, CommissionPayoutAssumption
       DEF CrashWorker, RestTyped, SentTransfers, paystack
  <2>3. WorkerTyped'
    BY <1>9, WorkerTypes DEF CrashWorker
  <2> QED BY <1>9, <2>2, <2>3, ChangedTypes DEF CrashWorker
<1> QED BY <1>4, <1>5, <1>6, <1>7, <1>8, <1>9 DEF WorkerStep

LEMMA SettleTypes ==
  ASSUME TypeInv, NEW p \in Payout, SettleTransfer(p)
  PROVE  TypeInv'
<1>1. PICK to \in Kind : /\ transfer' = [transfer EXCEPT ![p] = to]
                         /\ events' = events \cup {[payout |-> p, n |-> sent[p], kind |-> to]}
                         /\ transfer[p] # "none"
  BY DEF SettleTransfer, Emit, Kind
<1>2. sent[p] \in 1 .. MaxSent
  BY <1>1, CommissionPayoutAssumption DEF TypeInv, TypeOK, SentTransfers
<1>3. events' \subseteq Event
  BY <1>1, <1>2 DEF TypeInv, TypeOK, Event
<1>4. transfer' \in [Payout -> {"none", "pending", "success", "failed", "reversed"}]
  BY <1>1 DEF TypeInv, TypeOK, Kind
<1>5. SentTransfers'
  BY <1>1 DEF TypeInv, TypeOK, SentTransfers, SettleTransfer
<1>6. RestTyped'
  BY <1>3, <1>4, <1>5, TypedParts DEF RestTyped, SettleTransfer, queue
<1> QED BY <1>6, ChangedTypes DEF SettleTransfer

LEMMA HookTypes ==
  ASSUME SignedInv, TypeInv, NEW k \in Hook, HookStep(k) \/ CrashHook(k)
  PROVE  TypeInv'
<1>1. hook[k].pc # "idle" =>
        /\ hook[k] \in [pc: {"read", "apply", "done"}, event: Event, snap: Snapshot]
        /\ hook[k].event \in Event /\ hook[k].event.payout \in Payout
  <2>1. hook[k].pc # "idle" =>
          hook[k] \in [pc: {"read", "apply", "done"}, event: Event, snap: Snapshot]
    BY DEF TypeInv, TypeOK, HookState
  <2> QED BY <2>1 DEF Event
<1>2. ASSUME NEW state \in HookState, hook' = [hook EXCEPT ![k] = state] PROVE HookTyped'
  BY <1>2 DEF TypeInv, TypeOK, HookTyped
<1>3. IdleHook \in HookState
  BY DEF IdleHook, HookState
<1>4. ASSUME NEW e \in events, Deliver(k, e) PROVE TypeInv'
  <2>1. e \in Event /\ NoSnapshot \in Snapshot
    BY DEF TypeInv, TypeOK, NoSnapshot, Snapshot, AllocationStatus
  <2>2. [pc |-> "read", event |-> e, snap |-> NoSnapshot] \in HookState
    BY <2>1 DEF HookState
  <2> QED BY <1>2, <1>4, <2>2, ChangedTypes DEF Deliver, queue, paystack
<1>5. CASE ReadPayout(k)
  <2>1. hook[k].pc = "read"
    BY <1>5 DEF ReadPayout
  <2> DEFINE p == hook[k].event.payout
             pc == IF pstatus[p] = StatusOf(hook[k].event.kind) THEN "done" ELSE "apply"
             snap == SnapshotOf(p)
             state == [[hook[k] EXCEPT !.pc = pc] EXCEPT !.snap = snap]
  <2>2. hook' = [hook EXCEPT ![k] = state]
    BY <1>5, Zenon DEF ReadPayout
  <2>3. snap \in Snapshot
    BY <1>1, <2>1, SnapshotTyped
  <2>4. pc \in {"done", "apply"}
    OBVIOUS
  <2>5. state \in HookState
    <3> HIDE DEF snap, pc, p
    <3>1. [hook[k] EXCEPT !.pc = pc] \in [pc: {"read", "apply", "done"}, event: Event, snap: Snapshot]
      BY <1>1, <2>1, <2>4
    <3> QED BY <2>3, <3>1 DEF HookState
  <2> HIDE DEF state
  <2> QED BY <1>2, <1>5, <2>2, <2>5, ChangedTypes DEF ReadPayout, queue, paystack
<1>6. CASE ApplyEvent(k)
  <2>1. hook[k].pc = "apply" /\ hook' = [hook EXCEPT ![k] = [hook[k] EXCEPT !.pc = "done"]]
    BY <1>6, Zenon DEF ApplyEvent
  <2>2. [hook[k] EXCEPT !.pc = "done"] \in HookState
    BY <1>1, <2>1 DEF HookState
  <2>3. HookTyped'
    BY <1>2, <2>1, <2>2
  <2>4. UNCHANGED <<api, worker, jobs, queued, transfer, sent, events, processed, crashes>>
    <3>1. UNCHANGED <<api, queue, worker, paystack, processed, crashes>>
      BY <1>6, Zenon DEF ApplyEvent
    <3> QED BY <3>1 DEF queue, paystack
  <2> QED BY <1>6, <2>3, <2>4, ApplyEventTyped, ChangedTypes
<1>7. CASE MarkProcessed(k)
  <2>1. processed' \subseteq Event
    BY <1>1, <1>7 DEF MarkProcessed, TypeInv, TypeOK
  <2>2. RestTyped'
    BY <1>7, <2>1, TypedParts DEF MarkProcessed, RestTyped, SentTransfers, paystack, queue
  <2> QED BY <1>2, <1>3, <1>7, <2>2, ChangedTypes DEF MarkProcessed
<1>8. CASE CrashHook(k)
  <2>1. RestTyped'
    BY <1>8, TypedParts, CommissionPayoutAssumption
       DEF CrashHook, RestTyped, SentTransfers, paystack, queue
  <2> QED BY <1>2, <1>3, <1>8, <2>1, ChangedTypes DEF CrashHook
<1> QED BY <1>4, <1>5, <1>6, <1>7, <1>8 DEF HookStep

LEMMA TypeNext == SignedInv /\ TypeInv /\ [Next]_vars => TypeInv'
<1> SUFFICES ASSUME SignedInv, TypeInv, [Next]_vars PROVE TypeInv'
  OBVIOUS
<1>1. ASSUME NEW c \in Commission, Accrue(c) PROVE TypeInv'
  <2>1. RowsTyped'
    BY <1>1, TypedParts DEF Accrue, RowsTyped, CommissionStatus
  <2> QED BY <1>1, <2>1, ChangedTypes DEF Accrue, queue, paystack
<1>2. CASE UNCHANGED vars
  BY <1>2, ChangedTypes DEF vars, queue, paystack
<1> QED BY <1>1, <1>2, HandlerTypes, WorkerStepTypes, SettleTypes, HookTypes DEF Next

(* The rows of commissions, payouts and allocations and what every process *)
(* remembers keep their types: the greedy plan never allocates less than   *)
(* nothing, no event is of a transfer that was not sent, no job counts     *)
(* below its last attempt.                                                 *)
THEOREM CommissionTypeHolds == Spec => []TypeOK
<1>1. Init => SignedInv /\ TypeInv
  BY SignedInit, TypeInit
<1>2. SignedInv /\ TypeInv /\ [Next]_vars => (SignedInv /\ TypeInv)'
  BY SignedNext, TypeNext
<1>3. TypeInv => TypeOK
  BY DEF TypeInv
<1> QED BY <1>1, <1>2, <1>3, PTL DEF Spec

-----------------------------------------------------------------------------
(* Requests.  Only requestPayout takes a payout out of NONE, and until     *)
(* then nobody has signed it or allocated anything to it (KnownInv).       *)

KnownInv ==
    /\ \A p \in Payout : pstatus[p] = "NONE" =>
          signed[p] = {} /\ \A c \in Commission : astatus[p][c] = "NONE"
    /\ \A h \in Handler : api[h].pc \in {"admin", "company"} => pstatus[api[h].payout] # "NONE"

MoneyInv == SignedInv /\ TypeInv /\ KnownInv

\* A step that is not a request concerns one payout, which exists.
KnownStep ==
    \/ UNCHANGED <<pstatus, signed, astatus>>
    \/ \E q \in Payout :
          /\ pstatus[q] # "NONE" /\ pstatus'[q] # "NONE"
          /\ \A p \in Payout \ {q} : /\ pstatus'[p] = pstatus[p] /\ signed'[p] = signed[p]
                                     /\ astatus'[p] = astatus[p]

\* What a request that is granted writes for payout p.
Granted(p, asked) ==
    /\ pstatus[p] = "NONE"
    /\ asked <= FreeIn(Lockable)
    /\ pstatus' = [pstatus EXCEPT ![p] =
                     IF AdminFirst THEN "PENDING_ADMIN_APPROVAL" ELSE "PENDING_COMPANY_APPROVAL"]
    /\ amount' = [amount EXCEPT ![p] = asked]
    /\ alloc' = [alloc EXCEPT ![p] = GreedyPlan(asked)]
    /\ astatus' = [astatus EXCEPT ![p] =
         [c \in Commission |-> IF c \in {d \in Commission : GreedyPlan(asked)[d] > 0}
                               THEN "RESERVED" ELSE "NONE"]]
    /\ reserved' = [c \in Commission |-> reserved[c] + GreedyPlan(asked)[c]]
    /\ UNCHANGED signed

LEMMA RequestGrants ==
  ASSUME MoneyInv, NEW h \in Handler, ReservePayout(h)
  PROVE  UNCHANGED rows \/ \E p \in Payout, asked \in Ask : Granted(p, asked)
BY Zenon DEF ReservePayout, Granted

\* The signatures a process knows of show that its payout exists.
LEMMA SignedIsKnown ==
  ASSUME MoneyInv, NEW p \in Payout, FullySigned(p)
  PROVE  pstatus[p] # "NONE"
BY DEF MoneyInv, KnownInv, FullySigned

LEMMA OneStatusChanges ==
  ASSUME MoneyInv, NEW q \in Payout, pstatus[q] # "NONE", NEW s, s # "NONE",
         pstatus' = [pstatus EXCEPT ![q] = s],
         UNCHANGED signed \/ (\E t : signed' = [signed EXCEPT ![q] = t]),
         UNCHANGED astatus \/ (\E t : astatus' = [astatus EXCEPT ![q] = t])
  PROVE  KnownStep
<1>1. TypeOK
  BY DEF MoneyInv, TypeInv
<1>2. pstatus'[q] = s /\ \A p \in Payout \ {q} : pstatus'[p] = pstatus[p]
  BY <1>1 DEF TypeOK
<1>3. \A p \in Payout \ {q} : signed'[p] = signed[p]
  BY <1>1 DEF TypeOK
<1>4. \A p \in Payout \ {q} : astatus'[p] = astatus[p]
  BY <1>1 DEF TypeOK
<1> QED BY <1>2, <1>3, <1>4 DEF KnownStep

LEMMA OthersAreKnown ==
  ASSUME MoneyInv, [Next]_vars, ~ \E h \in Handler : ReservePayout(h)
  PROVE  KnownStep
<1>1. SignedInv /\ TypeInv /\ KnownInv
  BY DEF MoneyInv
<1>2. ASSUME NEW h \in Handler, Approve(h) PROVE KnownStep
  <2>1. PICK q \in Payout : q = api[h].payout
    BY <1>1, <1>2, HandlerKnows DEF Approve, ApiKnows
  <2>2. pstatus[q] # "NONE"
    BY <1>1, <1>2, <2>1 DEF Approve, KnownInv
  <2>3. PICK s \in {"PENDING_COMPANY_APPROVAL", "APPROVED"} : pstatus' = [pstatus EXCEPT ![q] = s]
    BY <1>2, <2>1 DEF Approve
  <2>4. \E t : signed' = [signed EXCEPT ![q] = t]
    BY <1>2, <2>1 DEF Approve
  <2> QED BY <1>2, <2>2, <2>3, <2>4, OneStatusChanges DEF Approve, books
<1>3. ASSUME NEW h \in Handler, ReserveReleased(h) \/ Reapprove(h) \/ MarkInitiated(h)
      PROVE  KnownStep
  <2>1. PICK q \in Payout : q = api[h].payout /\ FullySigned(q)
    BY <1>1, <1>3, HandlerKnows DEF ReserveReleased, Reapprove, MarkInitiated, ApiKnows
  <2>2. pstatus[q] # "NONE"
    BY <2>1, SignedIsKnown
  <2>3. PICK s \in {"APPROVED", "TRANSFER_INITIATED"} : pstatus' = [pstatus EXCEPT ![q] = s]
    BY <1>3, <2>1 DEF ReserveReleased, Reapprove, MarkInitiated
  <2>4. UNCHANGED astatus \/ \E t : astatus' = [astatus EXCEPT ![q] = t]
    BY <1>3, <2>1 DEF ReserveReleased, Reapprove, MarkInitiated, books
  <2>5. UNCHANGED signed
    BY <1>3 DEF ReserveReleased, Reapprove, MarkInitiated
  <2> QED BY <2>2, <2>3, <2>4, <2>5, OneStatusChanges
<1>4. ASSUME NEW h \in Handler,
             \/ ReadReleased(h) \/ Enqueue(h) \/ CrashApi(h) \/ AskPayout(h)
             \/ \E p \in Payout : ReadApproval(h, p) \/ ReadInitiatable(h, p)
      PROVE  KnownStep
  BY <1>4 DEF KnownStep, ReadReleased, Enqueue, CrashApi, AskPayout, ReadApproval,
              ReadInitiatable, rows
<1>5. ASSUME NEW w \in Worker, MarkTransferFailed(w) PROVE KnownStep
  <2>1. PICK q \in Payout : q = worker[w].job.payout /\ FullySigned(q)
    BY <1>1, <1>5 DEF MarkTransferFailed, SignedInv, WorkersSigned, JobSigned
  <2>2. pstatus[q] # "NONE"
    BY <2>1, SignedIsKnown
  <2> QED BY <1>5, <2>1, <2>2, OneStatusChanges DEF MarkTransferFailed, books
<1>6. ASSUME NEW w \in Worker,
             \/ TakeJob(w) \/ CallPaystack(w) \/ SaveCode(w) \/ FailAttempt(w) \/ CrashWorker(w)
      PROVE  KnownStep
  BY <1>6 DEF KnownStep, TakeJob, CallPaystack, SaveCode, FailAttempt, CrashWorker, rows, books
<1>7. ASSUME NEW k \in Hook, ApplyEvent(k) PROVE KnownStep
  <2>1. PICK q \in Payout : q = hook[k].event.payout /\ FullySigned(q) /\ hook[k].event.kind \in Kind
    BY <1>1, <1>7 DEF ApplyEvent, SignedInv, HooksSigned, EventSigned
  <2>2. pstatus[q] # "NONE"
    BY <2>1, SignedIsKnown
  <2>3. pstatus' = [pstatus EXCEPT ![q] = StatusOf(hook[k].event.kind)] /\ UNCHANGED signed
    BY <1>7, <2>1, Zenon DEF ApplyEvent
  <2>4. StatusOf(hook[k].event.kind) # "NONE"
    BY <2>1 DEF StatusOf, Kind
  <2>5. \E t : astatus' = [astatus EXCEPT ![q] = t]
    BY <1>7, <2>1, Zenon DEF ApplyEvent
  <2> QED BY <2>2, <2>3, <2>4, <2>5, OneStatusChanges
<1>8. ASSUME NEW k \in Hook,
             (\E e \in events : Deliver(k, e)) \/ ReadPayout(k) \/ MarkProcessed(k) \/ CrashHook(k)
      PROVE  KnownStep
  BY <1>8 DEF KnownStep, Deliver, ReadPayout, MarkProcessed, CrashHook, rows
<1>9. ASSUME NEW c \in Commission, Accrue(c) PROVE KnownStep
  BY <1>9 DEF KnownStep, Accrue
<1>10. ASSUME NEW p \in Payout, SettleTransfer(p) PROVE KnownStep
  BY <1>10 DEF KnownStep, SettleTransfer, rows
<1>11. CASE UNCHANGED vars
  BY <1>11 DEF KnownStep, vars, rows
<1> QED BY <1>2, <1>3, <1>4, <1>5, <1>6, <1>7, <1>8, <1>9, <1>10, <1>11
        DEF Next, ApiStep, WorkerStep, HookStep

\* A payout that exists keeps existing.
LEMMA ExistsForGood ==
  ASSUME MoneyInv, [Next]_vars, NEW p \in Payout, pstatus[p] # "NONE"
  PROVE  pstatus'[p] # "NONE"
<1>1. CASE KnownStep
  BY <1>1 DEF KnownStep
<1>2. ASSUME NEW h \in Handler, ReservePayout(h) PROVE pstatus'[p] # "NONE"
  <2>1. CASE UNCHANGED rows
    BY <2>1 DEF rows
  <2>2. ASSUME NEW q \in Payout, NEW asked \in Ask, Granted(q, asked) PROVE pstatus'[p] # "NONE"
    BY <2>2 DEF Granted, MoneyInv, TypeInv, TypeOK
  <2> QED BY <1>2, <2>1, <2>2, RequestGrants
<1> QED BY <1>1, <1>2, OthersAreKnown

LEMMA KnownInit == Init => KnownInv
BY DEF Init, KnownInv, IdleApi, ApiAt

LEMMA KnownNext == MoneyInv /\ [Next]_vars => KnownInv'
<1> SUFFICES ASSUME MoneyInv, [Next]_vars PROVE KnownInv'
  OBVIOUS
<1>1. TypeOK /\ KnownInv
  BY DEF MoneyInv, TypeInv
<1>2. \A p \in Payout : pstatus'[p] = "NONE" =>
          signed'[p] = {} /\ \A c \in Commission : astatus'[p][c] = "NONE"
  <2>1. CASE KnownStep
    BY <1>1, <2>1 DEF KnownStep, KnownInv
  <2>2. ASSUME NEW h \in Handler, ReservePayout(h)
        PROVE  \A p \in Payout : pstatus'[p] = "NONE" =>
                  signed'[p] = {} /\ \A c \in Commission : astatus'[p][c] = "NONE"
    <3>1. CASE UNCHANGED rows
      BY <1>1, <3>1 DEF rows, KnownInv
    <3>2. ASSUME NEW q \in Payout, NEW asked \in Ask, Granted(q, asked), NEW p \in Payout, pstatus'[p] = "NONE"
          PROVE  signed'[p] = {} /\ \A c \in Commission : astatus'[p][c] = "NONE"
      <4>1. p # q /\ pstatus[p] = "NONE"
        BY <1>1, <3>2 DEF Granted, TypeOK
      <4>2. signed' = signed /\ \E t : astatus' = [astatus EXCEPT ![q] = t]
        BY <3>2 DEF Granted
      <4>3. astatus'[p] = astatus[p]
        BY <1>1, <4>1, <4>2 DEF TypeOK
      <4> QED BY <1>1, <4>1, <4>2, <4>3 DEF KnownInv
    <3> QED BY <2>2, <3>1, <3>2, RequestGrants
  <2> QED BY <2>1, <2>2, OthersAreKnown
<1>3. ASSUME NEW i \in Handler, api'[i].pc \in {"admin", "company"}
      PROVE  pstatus'[api'[i].payout] # "NONE"
  <2>1. CASE api'[i] = api[i]
    <3>1. api[i].payout \in Payout
      BY <1>3, <2>1, HandlerKnows DEF MoneyInv, ApiKnows
    <3> QED BY <1>1, <1>3, <2>1, <3>1, ExistsForGood DEF KnownInv
  <2>2. ASSUME NEW p \in Payout, ReadApproval(i, p) PROVE pstatus'[api'[i].payout] # "NONE"
    <3>1. /\ pstatus[p] # "NONE" /\ UNCHANGED pstatus
          /\ \E pc : api' = [api EXCEPT ![i] = [pc |-> pc, payout |-> p, snap |-> NoSnapshot]]
      BY <2>2 DEF ReadApproval, rows, ApiAt
    <3>2. api'[i].payout = p
      BY <1>1, <3>1 DEF TypeOK
    <3> QED BY <3>1, <3>2
  <2>3. ASSUME NEW h \in Handler, NEW state, state.pc \notin {"admin", "company"},
               api' = [api EXCEPT ![h] = state]
        PROVE  api'[i] = api[i]
    BY <1>1, <1>3, <2>3 DEF TypeOK
  <2>4. IdleApi.pc = "idle" /\ \A pc, p : ApiAt(pc, p).pc = pc
    BY DEF IdleApi, ApiAt
  <2>5. ASSUME NEW h \in Handler, ApiStep(h) \/ CrashApi(h) \/ AskPayout(h)
        PROVE  api'[i] = api[i]
    <3>1. api[h] \in ApiState
      BY <1>1 DEF TypeOK
    <3>2. CASE ReservePayout(h) \/ Approve(h) \/ Enqueue(h) \/ CrashApi(h)
      BY <2>3, <2>4, <3>2 DEF ReservePayout, Approve, Enqueue, CrashApi
    <3>3. CASE AskPayout(h)
      <4>1. PICK state : state = ApiAt("asking", NoPayout)
        OBVIOUS
      <4>2. state.pc \notin {"admin", "company"}
        BY <2>4, <4>1
      <4>3. api' = [api EXCEPT ![h] = state]
        BY <3>3, <4>1 DEF AskPayout
      <4> QED BY <2>3, <4>2, <4>3
    <3>4. CASE ReserveReleased(h)
      <4>1. PICK p : api' = [api EXCEPT ![h] = ApiAt("initiate", p)]
        BY <3>4, Zenon DEF ReserveReleased
      <4>2. PICK state : state = ApiAt("initiate", p)
        OBVIOUS
      <4>3. state.pc \notin {"admin", "company"}
        BY <2>4, <4>2
      <4>4. api' = [api EXCEPT ![h] = state]
        BY <4>1, <4>2
      <4> QED BY <2>3, <4>3, <4>4
    <3>5. CASE ReadReleased(h)
      <4>1. PICK snap : api' = [api EXCEPT ![h] = [[api[h] EXCEPT !.pc = "rereserve"] EXCEPT !.snap = snap]]
        BY <3>5, Zenon DEF ReadReleased
      <4>2. [[api[h] EXCEPT !.pc = "rereserve"] EXCEPT !.snap = snap].pc = "rereserve"
        BY <3>1 DEF ApiState
      <4> QED BY <2>3, <4>1, <4>2
    <3>6. ASSUME NEW pc \in {"initiate", "enqueue"}, api' = [api EXCEPT ![h].pc = pc]
          PROVE  api'[i] = api[i]
      <4>1. [api[h] EXCEPT !.pc = pc].pc = pc
        BY <3>1 DEF ApiState
      <4> QED BY <2>3, <3>6, <4>1
    <3>7. CASE Reapprove(h) \/ MarkInitiated(h)
      BY <3>6, <3>7 DEF Reapprove, MarkInitiated
    <3> QED BY <2>5, <3>2, <3>3, <3>4, <3>5, <3>7 DEF ApiStep
  <2>6. ASSUME NEW h \in Handler, NEW p \in Payout, ReadInitiatable(h, p) PROVE api'[i] = api[i]
    <3>1. PICK pc \in {"initiate", "failed", "reversed"} : api' = [api EXCEPT ![h] = ApiAt(pc, p)]
      BY <2>6 DEF ReadInitiatable, Initiatable
    <3> QED BY <2>3, <2>4, <3>1
  <2>7. ASSUME NEW h \in Handler, NEW p \in Payout, ReadApproval(h, p)
        PROVE  h = i \/ api'[i] = api[i]
    BY <1>1, <2>7 DEF ReadApproval, TypeOK
  <2>8. ASSUME NEW w \in Worker, WorkerStep(w) \/ CrashWorker(w) PROVE UNCHANGED api
    BY <2>8 DEF WorkerStep, CrashWorker, TakeJob, CallPaystack, SaveCode, FailAttempt,
                MarkTransferFailed
  <2>9. ASSUME NEW k \in Hook, HookStep(k) \/ CrashHook(k) PROVE UNCHANGED api
    BY <2>9, Zenon DEF HookStep, CrashHook, Deliver, ReadPayout, ApplyEvent, MarkProcessed
  <2>10. (\E c \in Commission : Accrue(c)) \/ (\E p \in Payout : SettleTransfer(p)) \/ UNCHANGED vars
           => UNCHANGED api
    BY DEF Accrue, SettleTransfer, vars
  <2> QED BY <2>1, <2>2, <2>5, <2>6, <2>7, <2>8, <2>9, <2>10 DEF Next
<1> QED BY <1>2, <1>3 DEF KnownInv

LEMMA MoneyInit == Init => MoneyInv
BY SignedInit, TypeInit, KnownInit DEF MoneyInv

LEMMA MoneyNext == MoneyInv /\ [Next]_vars => MoneyInv'
BY SignedNext, TypeNext, KnownNext DEF MoneyInv

\* What a payout is given when it is requested.
LEMMA RequestIsGranted ==
  ASSUME MoneyInv, [Next]_vars, NEW p \in Payout, pstatus[p] = "NONE", pstatus'[p] # "NONE"
  PROVE  \E asked \in Ask : Granted(p, asked)
<1>1. ~KnownStep
  BY DEF KnownStep
<1>2. PICK h \in Handler : ReservePayout(h)
  BY <1>1, OthersAreKnown
<1>3. ~UNCHANGED rows
  BY DEF rows
<1>4. PICK q \in Payout, asked \in Ask : Granted(q, asked)
  BY <1>2, <1>3, RequestGrants
<1>5. q = p
  BY <1>4 DEF Granted, MoneyInv, TypeInv, TypeOK
<1> QED BY <1>4, <1>5

(* However many requests were let in by the check outside the transaction, *)
(* requestPayout reserves of no commission more than its lock showed to be *)
(* free.                                                                   *)
THEOREM RequestReservesFreeHolds == Spec => RequestReservesFree
<1>1. ASSUME MoneyInv, [Next]_vars
      PROVE  \A p \in Payout : pstatus[p] = "NONE" /\ pstatus'[p] # "NONE" =>
               \A c \in Commission : reserved'[c] > reserved[c] => reserved'[c] <= Amount[c]
  <2> SUFFICES ASSUME NEW p \in Payout, pstatus[p] = "NONE", pstatus'[p] # "NONE",
                      NEW c \in Commission, reserved'[c] > reserved[c]
               PROVE  reserved'[c] <= Amount[c]
    OBVIOUS
  <2>1. PICK asked \in Ask : Granted(p, asked)
    BY <1>1, RequestIsGranted
  <2>2. TypeOK /\ asked \in Nat /\ reserved[c] \in Int /\ Amount[c] \in Nat
    BY <1>1, CommissionPayoutAssumption DEF MoneyInv, TypeInv, TypeOK
  <2> DEFINE taken == GreedyPlan(asked)[c]
  <2>3. reserved'[c] = reserved[c] + taken
    BY <2>1 DEF Granted
  <2>4. taken \in Nat /\ taken <= Free(c) /\ Free(c) \in Nat
    BY <2>2, PlanEntry
  <2> HIDE DEF taken
  <2>5. Free(c) > 0
    BY <2>2, <2>3, <2>4
  <2>6. c \in Lockable
    BY <2>5 DEF Free
  <2>7. Free(c) = Amount[c] - reserved[c]
    BY <2>6 DEF Free
  <2> QED BY <2>2, <2>3, <2>4, <2>7
<1> QED BY <1>1, MoneyInit, MoneyNext, PTL DEF Spec, RequestReservesFree

\* Before a newer commission comes all of what an older one has.
LEMMA OlderAddsUp ==
  ASSUME TypeOK, NEW c \in Lockable, NEW d \in Commission, c < d
  PROVE  FreeIn(Older(d)) >= FreeIn(Older(c)) + Free(c)
<1> DEFINE f == [e \in Commission |-> Free(e)]
           A == Older(c) \cup {c}
<1>1. /\ Older(c) \in SUBSET Commission /\ Older(d) \in SUBSET Commission
      /\ c \in Commission /\ Commission \subseteq Nat
  BY CommissionPayoutAssumption DEF Older, Lockable
<1>2. A \subseteq Older(d) /\ A \ {c} = Older(c) /\ A \in SUBSET Commission
  <2>1. /\ c \in Nat /\ d \in Nat /\ c < d
        /\ \A e \in Lockable : e \in Nat /\ e \in Commission
    BY <1>1 DEF Lockable
  <2>2. \A e \in Lockable : e < c => e < d
    BY <2>1
  <2>3. Older(c) \subseteq Older(d) /\ c \in Older(d)
    BY <2>1, <2>2 DEF Older
  <2>4. c \notin Older(c)
    BY <2>1 DEF Older
  <2> QED BY <1>1, <2>3, <2>4
<1>3. FreeIn(A) = Free(c) + FreeIn(Older(c)) /\ FreeIn(A) \in Nat /\ FreeIn(Older(d) \ A) \in Nat
  <2> HIDE DEF A
  <2>1. c \in A
    BY DEF A
  <2>2. Older(d) \ A \in SUBSET Commission
    BY <1>1
  <2> QED BY <1>2, <2>1, <2>2, FreeInSum
<1>4. FreeIn(Older(d)) = FreeIn(A) + FreeIn(Older(d) \ A)
  <2>1. \A e \in Older(d) : f[e] \in Int
    <3>1. \A e \in Commission : f[e] = Free(e)
      OBVIOUS
    <3> HIDE DEF f
    <3>2. \A e \in Commission : Free(e) \in Nat
      BY FreeIsNat
    <3>3. ASSUME NEW e \in Older(d) PROVE f[e] \in Int
      <4>1. e \in Commission
        BY <1>1
      <4> QED BY <3>1, <3>2, <4>1
    <3> QED BY <3>3
  <2>2. IsFiniteSet(Older(d))
    BY <1>1, FreeInSum
  <2> HIDE DEF f, A
  <2>3. SumOver(f, Older(d)) = SumOver(f, A) + SumOver(f, Older(d) \ A)
    BY <1>2, <2>1, <2>2, SumUnion
  <2> QED BY <2>3 DEF FreeIn, f
<1>5. FreeIn(Older(c)) \in Nat /\ Free(c) \in Nat
  BY <1>1, FreeInSum, FreeIsNat
<1> HIDE DEF A
<1> QED BY <1>3, <1>4, <1>5

(* A request reserves exactly the amount asked for, oldest commissions     *)
(* first, whatever earlier payouts hold.                                   *)
THEOREM RequestIsFifoHolds == Spec => RequestIsFifo
<1>1. ASSUME MoneyInv, [Next]_vars
      PROVE  \A p \in Payout : pstatus[p] = "NONE" /\ pstatus'[p] # "NONE" =>
               /\ SumOver(alloc'[p], Commission) = amount'[p]
               /\ \A c, d \in Commission :
                    c \in Lockable /\ c < d /\ alloc'[p][d] > 0 => reserved'[c] = Amount[c]
  <2> SUFFICES ASSUME NEW p \in Payout, pstatus[p] = "NONE", pstatus'[p] # "NONE"
               PROVE  /\ SumOver(alloc'[p], Commission) = amount'[p]
                      /\ \A c, d \in Commission :
                           c \in Lockable /\ c < d /\ alloc'[p][d] > 0 => reserved'[c] = Amount[c]
    OBVIOUS
  <2>1. PICK asked \in Ask : Granted(p, asked)
    BY <1>1, RequestIsGranted
  <2>2. TypeOK /\ asked \in Nat /\ asked <= FreeIn(Lockable)
    BY <1>1, <2>1, CommissionPayoutAssumption DEF MoneyInv, TypeInv, Granted
  <2>3. /\ alloc'[p] = GreedyPlan(asked) /\ amount'[p] = asked
        /\ \A c \in Commission : reserved'[c] = reserved[c] + GreedyPlan(asked)[c]
    BY <2>1, <2>2 DEF Granted, TypeOK
  <2>4. SumOver(alloc'[p], Commission) = amount'[p]
    BY <2>2, <2>3, GreedyTakesAll
  <2>5. ASSUME NEW c \in Commission, NEW d \in Commission, c \in Lockable, c < d, alloc'[p][d] > 0
        PROVE  reserved'[c] = Amount[c]
    <3> DEFINE plan == GreedyPlan(asked)
               early == FreeIn(Older(c))
               old == FreeIn(Older(d))
    <3>1. /\ early \in Nat /\ old \in Nat /\ Free(c) \in Nat /\ Free(d) \in Nat
          /\ plan[c] = IF asked <= early THEN 0
                       ELSE IF asked - early < Free(c) THEN asked - early ELSE Free(c)
          /\ plan[d] = IF asked <= old THEN 0
                       ELSE IF asked - old < Free(d) THEN asked - old ELSE Free(d)
      BY <2>2, PlanEntry
    <3>2. old >= early + Free(c)
      BY <2>2, <2>5, OlderAddsUp
    <3>3. plan[d] > 0 /\ reserved'[c] = reserved[c] + plan[c]
      BY <2>3, <2>5
    <3>4. Free(c) = Amount[c] - reserved[c] /\ Amount[c] \in Nat /\ reserved[c] \in Int
      BY <2>2, <2>5, CommissionPayoutAssumption DEF Free, TypeOK
    <3> HIDE DEF plan, early, old
    <3>5. plan[c] = Free(c)
      BY <2>2, <3>1, <3>2, <3>3
    <3> QED BY <3>3, <3>4, <3>5
  <2> QED BY <2>4, <2>5
<1> QED BY <1>1, MoneyInit, MoneyNext, PTL DEF Spec, RequestIsFifo

-----------------------------------------------------------------------------
(* The reserved amounts.  A step that computes from what is so now changes *)
(* the reserved amount of a commission by what the payout it concerns      *)
(* comes to hold of it.                                                    *)

\* What payout p holds of commission c.
Holds(p, c) == IF astatus[p][c] = "RESERVED" THEN alloc[p][c] ELSE 0

\* The sum over the payouts in A of f is that over all of them of g, which is f
\* in A and 0 elsewhere.
LEMMA HeldSum ==
  ASSUME NEW f, NEW g, NEW A \in SUBSET Payout,
         \A p \in A : f[p] \in Int /\ g[p] = f[p],
         \A p \in Payout \ A : g[p] = 0
  PROVE  SumOver(f, A) = SumOver(g, Payout)
<1>1. IsFiniteSet(Payout) /\ IsFiniteSet(A)
  BY CommissionPayoutAssumption, FS_Subset
<1>2. SumOver(f, A) = SumOver(g, A)
  BY <1>1, SumEqual
<1>3. \A p \in Payout : g[p] \in Int
  OBVIOUS
<1>4. SumOver(g, Payout) = SumOver(g, A)
  BY <1>1, <1>3, SumSupport
<1> QED BY <1>2, <1>4

LEMMA OnePayoutHolds ==
  ASSUME TypeOK, TypeOK', ReservedIsAllocated, NEW q \in Payout,
         \A p \in Payout \ {q} : alloc'[p] = alloc[p] /\ astatus'[p] = astatus[p],
         \A c \in Commission : reserved'[c] = reserved[c] + (Holds(q, c)' - Holds(q, c))
  PROVE  ReservedIsAllocated'
<1> SUFFICES ASSUME NEW c \in Commission
             PROVE  reserved'[c] = Allocated(c, {"RESERVED"})'
  BY DEF ReservedIsAllocated
<1> DEFINE f == [p \in Payout |-> Holds(p, c)]
           g == [p \in Payout |-> Holds(p, c)']
<1>1. Allocated(c, {"RESERVED"}) = SumOver(f, Payout)
  <2> DEFINE a == [p \in Payout |-> alloc[p][c]]
             A == {p \in Payout : astatus[p][c] \in {"RESERVED"}}
  <2>1. /\ A \in SUBSET Payout
        /\ \A p \in A : a[p] \in Int /\ f[p] = a[p]
        /\ \A p \in Payout \ A : f[p] = 0
    BY DEF Holds, TypeOK
  <2>2. Allocated(c, {"RESERVED"}) = SumOver(a, A)
    BY DEF Allocated
  <2> HIDE DEF a, A, f
  <2> QED BY <2>1, <2>2, HeldSum
<1>2. Allocated(c, {"RESERVED"})' = SumOver(g, Payout)
  <2> DEFINE a == [p \in Payout |-> alloc'[p][c]]
             A == {p \in Payout : astatus'[p][c] \in {"RESERVED"}}
  <2>1. /\ A \in SUBSET Payout
        /\ \A p \in A : a[p] \in Int /\ g[p] = a[p]
        /\ \A p \in Payout \ A : g[p] = 0
    BY DEF Holds, TypeOK
  <2>2. Allocated(c, {"RESERVED"})' = SumOver(a, A)
    BY DEF Allocated
  <2> HIDE DEF a, A, g
  <2> QED BY <2>1, <2>2, HeldSum
<1>3. \A p \in Payout : f[p] \in Int /\ g[p] \in Int
  BY DEF Holds, TypeOK
<1>4. \A p \in Payout \ {q} : g[p] = f[p]
  BY DEF Holds
<1>5. f[q] = Holds(q, c) /\ g[q] = Holds(q, c)'
  OBVIOUS
<1> HIDE DEF f, g
<1>6. SumOver(g, Payout) = SumOver(f, Payout) + (g[q] - f[q])
  BY <1>3, <1>4, CommissionPayoutAssumption, SumChange
<1>7. reserved[c] = SumOver(f, Payout)
  BY <1>1 DEF ReservedIsAllocated
<1> QED BY <1>2, <1>5, <1>6, <1>7

LEMMA GrantedHolds ==
  ASSUME MoneyInv, TypeOK', ReservedIsAllocated,
         NEW p \in Payout, NEW asked \in Ask, Granted(p, asked)
  PROVE  ReservedIsAllocated'
<1>1. TypeOK /\ asked \in Nat
  BY CommissionPayoutAssumption DEF MoneyInv, TypeInv
<1>2. \A q \in Payout \ {p} : alloc'[q] = alloc[q] /\ astatus'[q] = astatus[q]
  BY <1>1 DEF Granted, TypeOK
<1>3. ASSUME NEW c \in Commission
      PROVE  reserved'[c] = reserved[c] + (Holds(p, c)' - Holds(p, c))
  <2> DEFINE taken == GreedyPlan(asked)[c]
  <2>1. astatus[p][c] = "NONE"
    BY DEF MoneyInv, KnownInv, Granted
  <2>2. /\ reserved'[c] = reserved[c] + taken
        /\ alloc'[p][c] = taken
        /\ astatus'[p][c] = IF taken > 0 THEN "RESERVED" ELSE "NONE"
    BY <1>1 DEF Granted, TypeOK
  <2>3. taken \in Nat /\ reserved[c] \in Int
    BY <1>1, PlanEntry DEF TypeOK
  <2> HIDE DEF taken
  <2>4. Holds(p, c) = 0 /\ Holds(p, c)' = taken
    BY <2>1, <2>2, <2>3 DEF Holds
  <2> QED BY <2>2, <2>3, <2>4
<1> QED BY <1>1, <1>2, <1>3, OnePayoutHolds

\* Allocations of payout p that are in one status get another, and one of the two
\* is RESERVED.
LEMMA MovedHolds ==
  ASSUME TypeOK, TypeOK', ReservedIsAllocated, NEW p \in Payout, NEW from, NEW to,
         UNCHANGED alloc,
         astatus' = [astatus EXCEPT ![p] =
            [c \in Commission |-> IF astatus[p][c] = from THEN to ELSE astatus[p][c]]],
         \A c \in Commission : reserved'[c] =
            IF astatus[p][c] # from THEN reserved[c]
            ELSE IF to = "RESERVED" THEN reserved[c] + alloc[p][c]
            ELSE reserved[c] - alloc[p][c],
         from = "RESERVED" => to # "RESERVED",
         from # "RESERVED" => to = "RESERVED"
  PROVE  ReservedIsAllocated'
<1>1. \A q \in Payout \ {p} : alloc'[q] = alloc[q] /\ astatus'[q] = astatus[q]
  BY DEF TypeOK
<1>2. ASSUME NEW c \in Commission
      PROVE  reserved'[c] = reserved[c] + (Holds(p, c)' - Holds(p, c))
  <2>1. astatus'[p][c] = IF astatus[p][c] = from THEN to ELSE astatus[p][c]
    BY DEF TypeOK
  <2>2. alloc[p][c] \in Nat /\ reserved[c] \in Int /\ alloc'[p][c] = alloc[p][c]
    BY DEF TypeOK
  <2>3. CASE astatus[p][c] # from
    BY <2>1, <2>2, <2>3 DEF Holds
  <2>4. CASE astatus[p][c] = from /\ to = "RESERVED"
    <3>1. Holds(p, c) = 0 /\ Holds(p, c)' = alloc[p][c]
      BY <2>1, <2>2, <2>4 DEF Holds
    <3> QED BY <2>2, <2>4, <3>1
  <2>5. CASE astatus[p][c] = from /\ from = "RESERVED"
    <3>1. Holds(p, c) = alloc[p][c] /\ Holds(p, c)' = 0
      BY <2>1, <2>2, <2>5 DEF Holds
    <3> QED BY <2>2, <2>5, <3>1
  <2> QED BY <2>3, <2>4, <2>5
<1> QED BY <1>1, <1>2, OnePayoutHolds

LEMMA ReserveReleasedHolds ==
  ASSUME MoneyInv, TypeOK', ReservedIsAllocated, ReadsAreFresh,
         NEW h \in Handler, ReserveReleased(h)
  PROVE  ReservedIsAllocated'
<1>1. TypeOK /\ SignedInv
  BY DEF MoneyInv, TypeInv
<1>2. PICK p \in Payout : p = api[h].payout
  BY <1>1, HandlerKnows DEF ReserveReleased, ApiKnows
<1>3. PICK seen : seen = api[h].snap
  OBVIOUS
<1>4. seen.astatus = astatus[p] /\ seen.reserved = reserved
  <2>1. seen = SnapshotOf(p)
    BY <1>2, <1>3, Zenon DEF ReadsAreFresh, Fresh, ReserveReleased
  <2> QED BY <2>1 DEF SnapshotOf
<1>5. /\ astatus' = [astatus EXCEPT ![p] =
           [c \in Commission |->
              IF c \in {d \in Commission : seen.astatus[d] = "RELEASED"} THEN "RESERVED"
              ELSE astatus[p][c]]]
      /\ reserved' = [c \in Commission |->
           IF c \in {d \in Commission : seen.astatus[d] = "RELEASED"}
           THEN seen.reserved[c] + alloc[p][c] ELSE reserved[c]]
      /\ UNCHANGED alloc
  BY <1>2, <1>3, Zenon DEF ReserveReleased
<1>6. astatus' = [astatus EXCEPT ![p] =
         [c \in Commission |-> IF astatus[p][c] = "RELEASED" THEN "RESERVED" ELSE astatus[p][c]]]
  BY <1>4, <1>5
<1>7. \A c \in Commission : reserved'[c] =
         IF astatus[p][c] # "RELEASED" THEN reserved[c] ELSE reserved[c] + alloc[p][c]
  BY <1>4, <1>5
<1> QED BY <1>1, <1>5, <1>6, <1>7, MovedHolds

LEMMA ApplyEventHolds ==
  ASSUME MoneyInv, TypeOK', ReservedIsAllocated, ReadsAreFresh,
         NEW k \in Hook, ApplyEvent(k)
  PROVE  ReservedIsAllocated'
<1>1. TypeOK /\ SignedInv
  BY DEF MoneyInv, TypeInv
<1> DEFINE p == hook[k].event.payout
           kind == hook[k].event.kind
           seen == hook[k].snap
           from == IF kind = "reversed" THEN "PAID" ELSE "RESERVED"
           to == CASE kind = "success" -> "PAID"
                   [] kind = "failed" -> "RELEASED"
                   [] kind = "reversed" -> "RESERVED"
           moved == {c \in Commission : seen.astatus[c] = from}
           change(c) == IF kind = "reversed" THEN alloc[p][c] ELSE -alloc[p][c]
<1>2. p \in Payout /\ kind \in Kind
  BY <1>1 DEF ApplyEvent, SignedInv, HooksSigned, EventSigned
<1>3. seen.astatus = astatus[p] /\ seen.reserved = reserved
  <2>1. seen = SnapshotOf(p)
    BY Zenon DEF ReadsAreFresh, Fresh, ApplyEvent
  <2> HIDE DEF seen, p
  <2> QED BY <2>1 DEF SnapshotOf
<1>4. /\ astatus' = [astatus EXCEPT ![p] =
           [c \in Commission |-> IF c \in moved THEN to ELSE astatus[p][c]]]
      /\ reserved' = [c \in Commission |->
           IF c \in moved THEN seen.reserved[c] + change(c) ELSE reserved[c]]
      /\ UNCHANGED alloc
  BY Zenon DEF ApplyEvent
<1>5. \A c \in Commission :
         change(c) = IF kind = "reversed" THEN alloc[p][c] ELSE -alloc[p][c]
  OBVIOUS
<1>6. /\ from = "RESERVED" => to # "RESERVED"
      /\ from # "RESERVED" => to = "RESERVED"
      /\ (kind = "reversed") <=> (to = "RESERVED")
  BY <1>2 DEF Kind
<1>7. \A c \in Commission : c \in moved <=> astatus[p][c] = from
  <2> HIDE DEF p, kind, from
  <2> QED BY <1>3
<1> HIDE DEF p, kind, seen, from, to, moved, change
<1>8. \A c \in Commission : alloc[p][c] \in Nat /\ reserved[c] \in Int
  BY <1>1, <1>2 DEF TypeOK
<1>9. astatus' = [astatus EXCEPT ![p] =
         [c \in Commission |-> IF astatus[p][c] = from THEN to ELSE astatus[p][c]]]
  BY <1>4, <1>7
<1>10. \A c \in Commission : reserved'[c] =
            IF astatus[p][c] # from THEN reserved[c]
            ELSE IF to = "RESERVED" THEN reserved[c] + alloc[p][c]
            ELSE reserved[c] - alloc[p][c]
  BY <1>3, <1>4, <1>5, <1>6, <1>7, <1>8
<1>11. /\ TypeOK /\ TypeOK' /\ ReservedIsAllocated /\ p \in Payout /\ alloc' = alloc
       /\ from = "RESERVED" => to # "RESERVED"
       /\ from # "RESERVED" => to = "RESERVED"
  BY <1>1, <1>2, <1>4, <1>6
<1> QED BY ONLY <1>9, <1>10, <1>11, MovedHolds

\* The rest changes no allocation and no reserved amount.
LEMMA OthersHold ==
  ASSUME [Next]_vars,
         \A h \in Handler : ~ReservePayout(h) /\ ~ReserveReleased(h),
         \A k \in Hook : ~ApplyEvent(k)
  PROVE  UNCHANGED <<reserved, alloc, astatus>>
<1>1. ASSUME NEW h \in Handler, ApiStep(h) \/ CrashApi(h) \/ AskPayout(h)
      PROVE  UNCHANGED <<reserved, alloc, astatus>>
  BY <1>1 DEF ApiStep, CrashApi, AskPayout, Approve, ReadReleased, Reapprove, MarkInitiated,
              Enqueue, rows, books
<1>2. ASSUME NEW h \in Handler, NEW p \in Payout, ReadApproval(h, p) \/ ReadInitiatable(h, p)
      PROVE  UNCHANGED <<reserved, alloc, astatus>>
  BY <1>2 DEF ReadApproval, ReadInitiatable, rows
<1>3. ASSUME NEW w \in Worker, WorkerStep(w) \/ CrashWorker(w)
      PROVE  UNCHANGED <<reserved, alloc, astatus>>
  BY <1>3 DEF WorkerStep, CrashWorker, TakeJob, CallPaystack, SaveCode, FailAttempt,
              MarkTransferFailed, rows, books
<1>4. ASSUME NEW k \in Hook, HookStep(k) \/ CrashHook(k)
      PROVE  UNCHANGED <<reserved, alloc, astatus>>
  BY <1>4 DEF HookStep, CrashHook, Deliver, ReadPayout, MarkProcessed, rows
<1>5. ASSUME NEW c \in Commission, Accrue(c) PROVE UNCHANGED <<reserved, alloc, astatus>>
  BY <1>5 DEF Accrue
<1>6. ASSUME NEW p \in Payout, SettleTransfer(p) PROVE UNCHANGED <<reserved, alloc, astatus>>
  BY <1>6 DEF SettleTransfer, rows
<1>7. CASE UNCHANGED vars
  BY <1>7 DEF vars, rows
<1> QED BY <1>1, <1>2, <1>3, <1>4, <1>5, <1>6, <1>7 DEF Next

(* Where nothing was read before it changed, every request, retry and      *)
(* transfer event keeps the reserved amount of each commission equal to    *)
(* the sum of its RESERVED allocations.                                    *)
THEOREM ReservedKeptHolds == Spec => ReservedKept
<1>1. ASSUME MoneyInv, MoneyInv', [Next]_vars
      PROVE  ReservedIsAllocated /\ ReadsAreFresh => ReservedIsAllocated'
  <2> SUFFICES ASSUME ReservedIsAllocated, ReadsAreFresh PROVE ReservedIsAllocated'
    OBVIOUS
  <2>1. TypeOK'
    BY <1>1 DEF MoneyInv, TypeInv
  <2>2. CASE UNCHANGED <<reserved, alloc, astatus>>
    BY <2>2 DEF ReservedIsAllocated, Allocated
  <2>3. ASSUME NEW h \in Handler, ReservePayout(h) PROVE ReservedIsAllocated'
    <3>1. CASE UNCHANGED rows
      BY <2>2, <3>1 DEF rows
    <3> QED BY <1>1, <2>1, <2>3, <3>1, RequestGrants, GrantedHolds
  <2>4. ASSUME NEW h \in Handler, ReserveReleased(h) PROVE ReservedIsAllocated'
    BY <1>1, <2>1, <2>4, ReserveReleasedHolds
  <2>5. ASSUME NEW k \in Hook, ApplyEvent(k) PROVE ReservedIsAllocated'
    BY <1>1, <2>1, <2>5, ApplyEventHolds
  <2> QED BY <1>1, <2>2, <2>3, <2>4, <2>5, OthersHold
<1> QED BY <1>1, MoneyInit, MoneyNext, PTL DEF Spec, ReservedKept

-----------------------------------------------------------------------------
(* A payout moves as a whole.  A handler writes to the allocations whose   *)
(* status it read, and what it read may be long out of date; but each read *)
(* and each write takes in all the allocations of the payout, so they      *)
(* never come apart: this is inductive once it is said of what the         *)
(* handlers remember too.                                                  *)

Moved == {"RESERVED", "PAID", "RELEASED"}

\* The allocations of payout p all have one status in st, and there are no others.
Whole(p, st) ==
    \E s \in Moved : st = [c \in Commission |-> IF alloc[p][c] > 0 THEN s ELSE "NONE"]

RowsAreWhole == \A p \in Payout : Whole(p, astatus[p])

ReadsAreWhole ==
    /\ \A h \in Handler : api[h].pc = "rereserve" => Whole(api[h].payout, api[h].snap.astatus)
    /\ \A k \in Hook : hook[k].pc = "apply" => Whole(hook[k].event.payout, hook[k].snap.astatus)

\* The allocations of a payout add up to its amount, whatever became of them.
AllocatedInFull ==
    \A p \in Payout : pstatus[p] # "NONE" => SumOver(alloc[p], Commission) = amount[p]

WholeInv == AllocatedInFull /\ RowsAreWhole /\ ReadsAreWhole

\* What payout p has in status s.
Share(p, s) ==
    SumOver([c \in Commission |-> IF astatus[p][c] = s THEN alloc[p][c] ELSE 0], Commission)

\* A payout is reserved, paid or released for all of its amount or for nothing.
PaidAsAWhole ==
    \A p \in Payout : pstatus[p] # "NONE" =>
        \A s \in Moved : Share(p, s) = 0 \/ Share(p, s) = amount[p]

\* Moving what was seen in one status to another moves all or nothing.
LEMMA WholeMoves ==
  ASSUME NEW p, NEW seen, NEW st, Whole(p, seen), Whole(p, st), NEW from \in Moved, NEW to \in Moved
  PROVE  Whole(p, [c \in Commission |->
                     IF c \in {d \in Commission : seen[d] = from} THEN to ELSE st[c]])
<1> DEFINE new == [c \in Commission |->
                     IF c \in {d \in Commission : seen[d] = from} THEN to ELSE st[c]]
<1>1. PICK s \in Moved : seen = [c \in Commission |-> IF alloc[p][c] > 0 THEN s ELSE "NONE"]
  BY DEF Whole
<1>2. PICK t \in Moved : st = [c \in Commission |-> IF alloc[p][c] > 0 THEN t ELSE "NONE"]
  BY DEF Whole
<1>3. from # "NONE"
  BY DEF Moved
<1>4. CASE s = from
  <2>1. \A c \in Commission : new[c] = IF alloc[p][c] > 0 THEN to ELSE "NONE"
    BY <1>1, <1>2, <1>3, <1>4
  <2>2. new = [c \in Commission |-> IF alloc[p][c] > 0 THEN to ELSE "NONE"]
    BY <2>1
  <2> QED BY <2>2 DEF Whole
<1>5. CASE s # from
  <2>1. \A c \in Commission : new[c] = st[c]
    BY <1>1, <1>3, <1>5
  <2>2. new = [c \in Commission |-> IF alloc[p][c] > 0 THEN t ELSE "NONE"]
    BY <1>2, <2>1
  <2> QED BY <2>2 DEF Whole
<1> QED BY <1>4, <1>5

\* Only a request allocates.
LEMMA OnlyRequestsAllocate ==
  ASSUME [Next]_vars, \A h \in Handler : ~ReservePayout(h)
  PROVE  UNCHANGED <<alloc, amount>>
<1>1. ASSUME NEW h \in Handler, ApiStep(h) \/ CrashApi(h) \/ AskPayout(h)
      PROVE  UNCHANGED <<alloc, amount>>
  BY <1>1 DEF ApiStep, CrashApi, AskPayout, Approve, ReadReleased, ReserveReleased, Reapprove,
              MarkInitiated, Enqueue, rows, books
<1>2. ASSUME NEW h \in Handler, NEW p \in Payout, ReadApproval(h, p) \/ ReadInitiatable(h, p)
      PROVE  UNCHANGED <<alloc, amount>>
  BY <1>2 DEF ReadApproval, ReadInitiatable, rows
<1>3. ASSUME NEW w \in Worker, WorkerStep(w) \/ CrashWorker(w) PROVE UNCHANGED <<alloc, amount>>
  BY <1>3 DEF WorkerStep, CrashWorker, TakeJob, CallPaystack, SaveCode, FailAttempt,
              MarkTransferFailed, rows, books
<1>4. ASSUME NEW k \in Hook, HookStep(k) \/ CrashHook(k) PROVE UNCHANGED <<alloc, amount>>
  BY <1>4, Zenon DEF HookStep, CrashHook, Deliver, ReadPayout, ApplyEvent, MarkProcessed, rows
<1>5. ASSUME NEW c \in Commission, Accrue(c) PROVE UNCHANGED <<alloc, amount>>
  BY <1>5 DEF Accrue
<1>6. ASSUME NEW p \in Payout, SettleTransfer(p) PROVE UNCHANGED <<alloc, amount>>
  BY <1>6 DEF SettleTransfer, rows
<1>7. CASE UNCHANGED vars
  BY <1>7 DEF vars, rows
<1> QED BY <1>1, <1>2, <1>3, <1>4, <1>5, <1>6, <1>7 DEF Next

\* What a payout was given when it was requested stays as it is.
LEMMA AllocationStays ==
  ASSUME MoneyInv, [Next]_vars, NEW p \in Payout, pstatus[p] # "NONE"
  PROVE  alloc'[p] = alloc[p] /\ amount'[p] = amount[p]
<1>1. ASSUME NEW h \in Handler, ReservePayout(h) PROVE alloc'[p] = alloc[p] /\ amount'[p] = amount[p]
  <2>1. CASE UNCHANGED rows
    BY <2>1 DEF rows
  <2>2. ASSUME NEW q \in Payout, NEW asked \in Ask, Granted(q, asked)
        PROVE  alloc'[p] = alloc[p] /\ amount'[p] = amount[p]
    <3>1. p # q
      BY <2>2 DEF Granted
    <3> QED BY <2>2, <3>1 DEF Granted, MoneyInv, TypeInv, TypeOK
  <2> QED BY <1>1, <2>1, <2>2, RequestGrants
<1> QED BY <1>1, OnlyRequestsAllocate

LEMMA FullNext ==
  ASSUME MoneyInv, [Next]_vars, AllocatedInFull
  PROVE  AllocatedInFull'
<1> SUFFICES ASSUME NEW p \in Payout, pstatus'[p] # "NONE"
             PROVE  SumOver(alloc'[p], Commission) = amount'[p]
  BY DEF AllocatedInFull
<1>1. CASE pstatus[p] # "NONE"
  BY <1>1, AllocationStays DEF AllocatedInFull
<1>2. CASE pstatus[p] = "NONE"
  <2>1. PICK asked \in Ask : Granted(p, asked)
    BY <1>2, RequestIsGranted
  <2>2. TypeOK /\ asked \in Nat
    BY CommissionPayoutAssumption DEF MoneyInv, TypeInv
  <2>3. alloc'[p] = GreedyPlan(asked) /\ amount'[p] = asked /\ asked <= FreeIn(Lockable)
    BY <2>1, <2>2 DEF Granted, TypeOK
  <2>4. SumOver(GreedyPlan(asked), Commission) = asked
    BY <2>2, <2>3, GreedyTakesAll
  <2> QED BY <2>3, <2>4
<1> QED BY <1>1, <1>2

LEMMA RowsNext ==
  ASSUME MoneyInv, [Next]_vars, WholeInv, NEW p \in Payout
  PROVE  Whole(p, astatus[p])'
<1>1. TypeOK /\ SignedInv /\ Whole(p, astatus[p])
  BY DEF MoneyInv, TypeInv, WholeInv, RowsAreWhole
<1>2. ASSUME alloc'[p] = alloc[p], NEW st, Whole(p, st), astatus'[p] = st
      PROVE  Whole(p, astatus[p])'
  BY <1>2 DEF Whole
<1>3. CASE UNCHANGED <<reserved, alloc, astatus>>
  BY <1>1, <1>3 DEF Whole
<1>4. ASSUME NEW h \in Handler, ReservePayout(h) PROVE Whole(p, astatus[p])'
  <2>1. CASE UNCHANGED rows
    BY <1>3, <2>1 DEF rows
  <2>2. ASSUME NEW q \in Payout, NEW asked \in Ask, Granted(q, asked) PROVE Whole(p, astatus[p])'
    <3>1. CASE p = q
      <4> DEFINE plan == GreedyPlan(asked)
      <4>1. alloc' = [alloc EXCEPT ![q] = plan]
            /\ astatus' = [astatus EXCEPT ![q] =
                 [c \in Commission |-> IF c \in {d \in Commission : plan[d] > 0}
                                       THEN "RESERVED" ELSE "NONE"]]
        BY <2>2 DEF Granted
      <4> HIDE DEF plan
      <4>2. alloc'[p] = plan
            /\ astatus'[p] = [c \in Commission |-> IF c \in {d \in Commission : plan[d] > 0}
                                                   THEN "RESERVED" ELSE "NONE"]
        BY <1>1, <3>1, <4>1 DEF TypeOK
      <4>3. astatus'[p] = [c \in Commission |-> IF alloc'[p][c] > 0 THEN "RESERVED" ELSE "NONE"]
        BY <4>2
      <4> QED BY <4>3 DEF Whole, Moved
    <3>2. CASE p # q
      <4>1. alloc'[p] = alloc[p] /\ astatus'[p] = astatus[p]
        BY <1>1, <2>2, <3>2 DEF Granted, TypeOK
      <4> QED BY <1>1, <1>2, <4>1
    <3> QED BY <3>1, <3>2
  <2> QED BY <1>4, <2>1, <2>2, RequestGrants
<1>5. ASSUME NEW q \in Payout, NEW seen, Whole(q, seen), NEW from \in Moved, NEW to \in Moved,
             UNCHANGED alloc,
             astatus' = [astatus EXCEPT ![q] =
                [c \in Commission |->
                   IF c \in {d \in Commission : seen[d] = from} THEN to ELSE astatus[q][c]]]
      PROVE  Whole(p, astatus[p])'
  <2>1. CASE p = q
    <3>1. PICK st : st = [c \in Commission |->
               IF c \in {d \in Commission : seen[d] = from} THEN to ELSE astatus[p][c]]
      OBVIOUS
    <3>2. Whole(p, st)
      BY <1>1, <1>5, <2>1, <3>1, WholeMoves
    <3>3. astatus' = [astatus EXCEPT ![p] = st]
      BY <1>5, <2>1, <3>1
    <3>4. astatus'[p] = st
      BY <1>1, <3>3 DEF TypeOK
    <3> QED BY <1>2, <1>5, <3>2, <3>4
  <2>2. CASE p # q
    <3>1. astatus'[p] = astatus[p]
      BY <1>1, <1>5, <2>2 DEF TypeOK
    <3> QED BY <1>1, <1>2, <1>5, <3>1
  <2> QED BY <2>1, <2>2
<1>6. ASSUME NEW h \in Handler, ReserveReleased(h) PROVE Whole(p, astatus[p])'
  <2>1. PICK q \in Payout : q = api[h].payout
    BY <1>1, <1>6, HandlerKnows DEF ReserveReleased, ApiKnows
  <2>2. PICK seen : seen = api[h].snap.astatus
    OBVIOUS
  <2>3. Whole(q, seen)
    BY <1>6, <2>1, <2>2, Zenon DEF WholeInv, ReadsAreWhole, ReserveReleased
  <2>4. UNCHANGED alloc /\ astatus' = [astatus EXCEPT ![q] =
           [c \in Commission |->
              IF c \in {d \in Commission : seen[d] = "RELEASED"} THEN "RESERVED" ELSE astatus[q][c]]]
    BY <1>6, <2>1, <2>2, Zenon DEF ReserveReleased
  <2>5. "RELEASED" \in Moved /\ "RESERVED" \in Moved
    BY DEF Moved
  <2> QED BY <1>5, <2>3, <2>4, <2>5
<1>7. ASSUME NEW k \in Hook, ApplyEvent(k) PROVE Whole(p, astatus[p])'
  <2> DEFINE q == hook[k].event.payout
             kind == hook[k].event.kind
             seen == hook[k].snap.astatus
             from == IF kind = "reversed" THEN "PAID" ELSE "RESERVED"
             to == CASE kind = "success" -> "PAID"
                     [] kind = "failed" -> "RELEASED"
                     [] kind = "reversed" -> "RESERVED"
  <2>1. q \in Payout /\ kind \in Kind
    BY <1>1, <1>7 DEF ApplyEvent, SignedInv, HooksSigned, EventSigned
  <2>2. Whole(q, seen)
    BY <1>7, Zenon DEF WholeInv, ReadsAreWhole, ApplyEvent
  <2>3. UNCHANGED alloc /\ astatus' = [astatus EXCEPT ![q] =
           [c \in Commission |->
              IF c \in {d \in Commission : seen[d] = from} THEN to ELSE astatus[q][c]]]
    BY <1>7, Zenon DEF ApplyEvent
  <2>4. from \in Moved /\ to \in Moved
    BY <2>1 DEF Moved, Kind
  <2> HIDE DEF q, kind, seen, from, to
  <2> QED BY <1>5, <2>1, <2>2, <2>3, <2>4
<1> QED BY <1>3, <1>4, <1>6, <1>7, OthersHold

\* What a handler is about to reserve again it knew before, or has just read.
LEMMA ReleasedWasRead ==
  ASSUME TypeOK, [Next]_vars, NEW i \in Handler, api'[i].pc = "rereserve"
  PROVE  api'[i] = api[i] \/ ReadReleased(i)
<1>1. ASSUME NEW h \in Handler, NEW state, state.pc # "rereserve", api' = [api EXCEPT ![h] = state]
      PROVE  api'[i] = api[i]
  BY <1>1 DEF TypeOK
<1>2. ASSUME NEW h \in Handler, NEW pc, NEW q, pc # "rereserve", api' = [api EXCEPT ![h] = ApiAt(pc, q)]
      PROVE  api'[i] = api[i]
  <2>1. PICK state : state = ApiAt(pc, q)
    OBVIOUS
  <2>2. state.pc = pc /\ api' = [api EXCEPT ![h] = state]
    BY <1>2, <2>1 DEF ApiAt
  <2> QED BY <1>1, <1>2, <2>2
<1>3. ASSUME NEW h \in Handler, NEW pc, pc # "rereserve", api' = [api EXCEPT ![h].pc = pc]
      PROVE  api'[i] = api[i]
  <2>1. api[h] \in ApiState
    BY DEF TypeOK
  <2>2. PICK state : state = [api[h] EXCEPT !.pc = pc]
    OBVIOUS
  <2>3. state.pc = pc /\ api' = [api EXCEPT ![h] = state]
    BY <1>3, <2>1, <2>2 DEF ApiState
  <2> QED BY <1>1, <1>3, <2>3
<1>4. ASSUME NEW h \in Handler,
             ReservePayout(h) \/ Approve(h) \/ Enqueue(h) \/ CrashApi(h) \/ AskPayout(h)
      PROVE  api'[i] = api[i]
  <2>1. \E pc \in {"idle", "asking"} : \E q : api' = [api EXCEPT ![h] = ApiAt(pc, q)]
    BY <1>4, Zenon DEF ReservePayout, Approve, Enqueue, CrashApi, AskPayout, IdleApi
  <2> QED BY <1>2, <2>1
<1>5. ASSUME NEW h \in Handler, ReserveReleased(h) PROVE api'[i] = api[i]
  <2>1. PICK q : api' = [api EXCEPT ![h] = ApiAt("initiate", q)]
    BY <1>5, Zenon DEF ReserveReleased
  <2> QED BY <1>2, <2>1
<1>6. ASSUME NEW h \in Handler, Reapprove(h) \/ MarkInitiated(h) PROVE api'[i] = api[i]
  <2>1. PICK pc \in {"initiate", "enqueue"} : api' = [api EXCEPT ![h].pc = pc]
    BY <1>6 DEF Reapprove, MarkInitiated
  <2> QED BY <1>3, <2>1
<1>7. ASSUME NEW h \in Handler, NEW q \in Payout, ReadApproval(h, q) \/ ReadInitiatable(h, q)
      PROVE  api'[i] = api[i]
  <2>1. PICK pc \in {"admin", "company", "initiate", "failed", "reversed"} :
            api' = [api EXCEPT ![h] = ApiAt(pc, q)]
    BY <1>7 DEF ReadApproval, ReadInitiatable, Initiatable
  <2> QED BY <1>2, <2>1
<1>8. ASSUME NEW h \in Handler, ReadReleased(h), ~ReadReleased(i) PROVE api'[i] = api[i]
  BY <1>8 DEF ReadReleased, TypeOK
<1>9. ASSUME NEW w \in Worker, WorkerStep(w) \/ CrashWorker(w) PROVE UNCHANGED api
  BY <1>9 DEF WorkerStep, CrashWorker, TakeJob, CallPaystack, SaveCode, FailAttempt,
              MarkTransferFailed
<1>10. ASSUME NEW k \in Hook, HookStep(k) \/ CrashHook(k) PROVE UNCHANGED api
  BY <1>10, Zenon DEF HookStep, CrashHook, Deliver, ReadPayout, ApplyEvent, MarkProcessed
<1>11. (\E c \in Commission : Accrue(c)) \/ (\E p \in Payout : SettleTransfer(p)) \/ UNCHANGED vars
         => UNCHANGED api
  BY DEF Accrue, SettleTransfer, vars
<1> QED BY <1>4, <1>5, <1>6, <1>7, <1>8, <1>9, <1>10, <1>11 DEF Next, ApiStep

\* The same of a webhook.
LEMMA EventWasRead ==
  ASSUME TypeOK, [Next]_vars, NEW i \in Hook, hook'[i].pc = "apply"
  PROVE  hook'[i] = hook[i] \/ ReadPayout(i)
<1>1. ASSUME NEW k \in Hook, NEW state, state.pc # "apply", hook' = [hook EXCEPT ![k] = state]
      PROVE  hook'[i] = hook[i]
  BY <1>1 DEF TypeOK
<1>2. ASSUME NEW k \in Hook, NEW e \in events, Deliver(k, e) PROVE hook'[i] = hook[i]
  <2>1. PICK state : state = [pc |-> "read", event |-> e, snap |-> NoSnapshot]
    OBVIOUS
  <2>2. state.pc = "read" /\ hook' = [hook EXCEPT ![k] = state]
    BY <1>2, <2>1 DEF Deliver
  <2> QED BY <1>1, <2>2
<1>3. ASSUME NEW k \in Hook, ApplyEvent(k) PROVE hook'[i] = hook[i]
  <2>1. hook[k].pc = "apply" /\ hook' = [hook EXCEPT ![k].pc = "done"]
    BY <1>3, Zenon DEF ApplyEvent
  <2>2. PICK state : state = [hook[k] EXCEPT !.pc = "done"]
    OBVIOUS
  <2>3. hook[k] \in HookState
    BY DEF TypeOK
  <2>4. state.pc = "done" /\ hook' = [hook EXCEPT ![k] = state]
    BY <2>1, <2>2, <2>3 DEF HookState
  <2> QED BY <1>1, <2>4
<1>4. ASSUME NEW k \in Hook, MarkProcessed(k) \/ CrashHook(k) PROVE hook'[i] = hook[i]
  <2>1. hook' = [hook EXCEPT ![k] = IdleHook] /\ IdleHook.pc # "apply"
    BY <1>4 DEF MarkProcessed, CrashHook, IdleHook
  <2> QED BY <1>1, <2>1
<1>5. ASSUME NEW k \in Hook, ReadPayout(k), k # i PROVE hook'[i] = hook[i]
  <2>1. \E state : hook' = [hook EXCEPT ![k] = state]
    BY <1>5, Zenon DEF ReadPayout
  <2> QED BY <1>5, <2>1 DEF TypeOK
<1>6. ASSUME NEW h \in Handler, ApiStep(h) \/ CrashApi(h) \/ AskPayout(h) PROVE UNCHANGED hook
  BY <1>6, Zenon DEF ApiStep, CrashApi, AskPayout, ReservePayout, Approve, ReadReleased,
              ReserveReleased, Reapprove, MarkInitiated, Enqueue
<1>7. ASSUME NEW h \in Handler, NEW p \in Payout, ReadApproval(h, p) \/ ReadInitiatable(h, p)
      PROVE  UNCHANGED hook
  BY <1>7 DEF ReadApproval, ReadInitiatable
<1>8. ASSUME NEW w \in Worker, WorkerStep(w) \/ CrashWorker(w) PROVE UNCHANGED hook
  BY <1>8 DEF WorkerStep, CrashWorker, TakeJob, CallPaystack, SaveCode, FailAttempt,
              MarkTransferFailed
<1>9. (\E c \in Commission : Accrue(c)) \/ (\E p \in Payout : SettleTransfer(p)) \/ UNCHANGED vars
         => UNCHANGED hook
  BY DEF Accrue, SettleTransfer, vars
<1> QED BY <1>2, <1>3, <1>4, <1>5, <1>6, <1>7, <1>8, <1>9 DEF Next, HookStep

LEMMA WholeInit == Init => WholeInv
<1> SUFFICES ASSUME Init PROVE WholeInv
  OBVIOUS
<1>1. AllocatedInFull
  BY DEF Init, AllocatedInFull
<1>2. ASSUME NEW p \in Payout PROVE Whole(p, astatus[p])
  <2>1. \A c \in Commission : alloc[p][c] = 0 /\ astatus[p] = [d \in Commission |-> "NONE"]
    BY DEF Init
  <2>2. astatus[p] = [c \in Commission |-> "NONE"]
    BY DEF Init
  <2>3. astatus[p] = [c \in Commission |-> IF alloc[p][c] > 0 THEN "PAID" ELSE "NONE"]
    BY <2>1, <2>2
  <2> QED BY <2>3 DEF Whole, Moved
<1>3. ReadsAreWhole
  BY DEF Init, ReadsAreWhole, IdleApi, ApiAt, IdleHook
<1> QED BY <1>1, <1>2, <1>3 DEF WholeInv, RowsAreWhole

LEMMA ReadsNext ==
  ASSUME MoneyInv, [Next]_vars, WholeInv
  PROVE  ReadsAreWhole'
<1>1. TypeOK /\ SignedInv
  BY DEF MoneyInv, TypeInv
\* What was remembered of a payout that exists is as whole as it was.
<1>2. ASSUME NEW p \in Payout, pstatus[p] # "NONE", NEW st, Whole(p, st), NEW new, new = st
      PROVE  \E s \in Moved : new = [c \in Commission |-> IF alloc'[p][c] > 0 THEN s ELSE "NONE"]
  BY <1>2, AllocationStays DEF Whole
<1>3. ASSUME NEW i \in Handler, api'[i].pc = "rereserve"
      PROVE  Whole(api[i].payout, api[i].snap.astatus)'
  <2>1. CASE api'[i] = api[i]
    <3>1. api[i].payout \in Payout /\ FullySigned(api[i].payout)
      BY <1>1, <1>3, <2>1, HandlerKnows DEF ApiKnows
    <3>2. pstatus[api[i].payout] # "NONE"
      BY <3>1, SignedIsKnown
    <3>3. Whole(api[i].payout, api[i].snap.astatus)
      BY <1>3, <2>1 DEF WholeInv, ReadsAreWhole
    <3> QED BY <1>2, <2>1, <3>1, <3>2, <3>3 DEF Whole
  <2>2. CASE ReadReleased(i)
    <3>1. PICK p \in Payout : p = api[i].payout /\ FullySigned(p)
      BY <1>1, <2>2, HandlerKnows DEF ReadReleased, ApiKnows
    <3>2. pstatus[p] # "NONE" /\ Whole(p, astatus[p])
      BY <3>1, SignedIsKnown DEF WholeInv, RowsAreWhole
    <3>3. PICK snap : /\ snap = SnapshotOf(p)
                      /\ api' = [api EXCEPT ![i] = [[api[i] EXCEPT !.pc = "rereserve"] EXCEPT !.snap = snap]]
      BY <2>2, <3>1, Zenon DEF ReadReleased
    <3>4. api'[i] = [[api[i] EXCEPT !.pc = "rereserve"] EXCEPT !.snap = snap] /\ api[i] \in ApiState
      BY <1>1, <3>3 DEF TypeOK
    <3>5. api'[i].payout = p /\ api'[i].snap = snap
      BY <3>1, <3>4 DEF ApiState
    <3>6. snap.astatus = astatus[p]
      BY <3>3 DEF SnapshotOf
    <3> QED BY <1>2, <3>2, <3>5, <3>6 DEF Whole
  <2> QED BY <1>1, <1>3, <2>1, <2>2, ReleasedWasRead
<1>4. ASSUME NEW i \in Hook, hook'[i].pc = "apply"
      PROVE  Whole(hook[i].event.payout, hook[i].snap.astatus)'
  <2>1. CASE hook'[i] = hook[i]
    <3>1. hook[i].event.payout \in Payout /\ FullySigned(hook[i].event.payout)
      BY <1>1, <1>4, <2>1 DEF SignedInv, HooksSigned, EventSigned
    <3>2. pstatus[hook[i].event.payout] # "NONE"
      BY <3>1, SignedIsKnown
    <3>3. Whole(hook[i].event.payout, hook[i].snap.astatus)
      BY <1>4, <2>1 DEF WholeInv, ReadsAreWhole
    <3> QED BY <1>2, <2>1, <3>1, <3>2, <3>3 DEF Whole
  <2>2. CASE ReadPayout(i)
    <3>1. hook[i].event.payout \in Payout /\ FullySigned(hook[i].event.payout)
      BY <1>1, <2>2 DEF ReadPayout, SignedInv, HooksSigned, EventSigned
    <3>2. PICK p \in Payout : p = hook[i].event.payout
      BY <3>1
    <3>3. pstatus[p] # "NONE" /\ Whole(p, astatus[p])
      BY <3>1, <3>2, SignedIsKnown DEF WholeInv, RowsAreWhole
    <3>4. PICK snap, pc : /\ snap = SnapshotOf(p)
                          /\ hook' = [hook EXCEPT ![i] = [[hook[i] EXCEPT !.pc = pc] EXCEPT !.snap = snap]]
      BY <2>2, <3>2, Zenon DEF ReadPayout
    <3>5. hook'[i] = [[hook[i] EXCEPT !.pc = pc] EXCEPT !.snap = snap] /\ hook[i] \in HookState
          /\ hook[i].pc = "read"
      BY <1>1, <2>2, <3>4 DEF TypeOK, ReadPayout
    <3>6. hook'[i].event.payout = p /\ hook'[i].snap = snap
      BY <3>2, <3>5 DEF HookState
    <3>7. snap.astatus = astatus[p]
      BY <3>4 DEF SnapshotOf
    <3> QED BY <1>2, <3>3, <3>6, <3>7 DEF Whole
  <2> QED BY <1>1, <1>4, <2>1, <2>2, EventWasRead
<1> QED BY <1>3, <1>4 DEF ReadsAreWhole

LEMMA WholeNext == MoneyInv /\ WholeInv /\ [Next]_vars => WholeInv'
<1> SUFFICES ASSUME MoneyInv, WholeInv, [Next]_vars PROVE WholeInv'
  OBVIOUS
<1>1. AllocatedInFull'
  BY FullNext DEF WholeInv
<1>2. RowsAreWhole'
  BY RowsNext DEF RowsAreWhole
<1>3. ReadsAreWhole'
  BY ReadsNext
<1> QED BY <1>1, <1>2, <1>3 DEF WholeInv

LEMMA SharesAreWhole ==
  ASSUME TypeOK, WholeInv
  PROVE  PaidAsAWhole
<1> SUFFICES ASSUME NEW p \in Payout, pstatus[p] # "NONE", NEW s \in Moved
             PROVE  Share(p, s) = 0 \/ Share(p, s) = amount[p]
  BY DEF PaidAsAWhole
<1> DEFINE f == [c \in Commission |-> IF astatus[p][c] = s THEN alloc[p][c] ELSE 0]
           all == alloc[p]
<1>1. PICK t \in Moved : astatus[p] = [c \in Commission |-> IF alloc[p][c] > 0 THEN t ELSE "NONE"]
  BY DEF WholeInv, RowsAreWhole, Whole
<1>2. IsFiniteSet(Commission) /\ SumOver(all, Commission) = amount[p] /\ Share(p, s) = SumOver(f, Commission)
  BY CommissionPayoutAssumption DEF WholeInv, AllocatedInFull, Share
<1>3. \A c \in Commission : alloc[p][c] \in Nat
  BY DEF TypeOK
<1>4. s # "NONE"
  BY DEF Moved
<1>5. CASE s = t
  <2>1. \A c \in Commission : f[c] \in Int /\ f[c] = all[c]
    BY <1>1, <1>3, <1>4, <1>5
  <2> HIDE DEF f, all
  <2>2. SumOver(f, Commission) = SumOver(all, Commission)
    BY <1>2, <2>1, SumEqual
  <2> QED BY <1>2, <2>2
<1>6. CASE s # t
  <2>1. \A c \in Commission : f[c] = 0
    BY <1>1, <1>4, <1>6
  <2> HIDE DEF f, all
  <2>2. (\A c \in Commission : f[c] \in Int) /\ {} \subseteq Commission
    BY <2>1
  <2>3. SumOver(f, Commission) = SumOver(f, {})
    BY <1>2, <2>1, <2>2, SumSupport
  <2> QED BY <1>2, <2>3, SumEmpty
<1> QED BY <1>5, <1>6

(* Whatever failed, was retried, reversed or came twice or late, the       *)
(* allocations of a payout add up to the amount that was asked, and what   *)
(* is reserved, paid or released of it is all of that amount or nothing.   *)
THEOREM PaidAsAWholeHolds == Spec => [](AllocatedInFull /\ PaidAsAWhole)
<1>1. MoneyInv /\ WholeInv => AllocatedInFull /\ PaidAsAWhole
  BY SharesAreWhole DEF MoneyInv, TypeInv, WholeInv
<1> QED BY <1>1, MoneyInit, MoneyNext, WholeInit, WholeNext, PTL DEF Spec
=============================================================================
