--------------------------- MODULE CommissionPayout ---------------------------
(***************************************************************************)
(* A marketer's commissions and their payout: the request that reserves    *)
(* commissions, the approvals, the transfer job and its worker, Paystack,  *)
(* and the transfer.success / failed / reversed webhooks.                  *)
(*                                                                         *)
(* Every action is one database statement, one transaction whose reads are *)
(* locked, one Paystack call, or one queue operation.  Where the code      *)
(* reads rows and later writes what it computed from them (the approvals,  *)
(* initiateTransfer, the webhook handlers), the read and the write are two *)
(* actions and the process remembers what it read.                         *)
(*                                                                         *)
(* The commissions are numbered by createdAt and belong to one marketer:   *)
(* requestPayout never looks at another's.                                 *)
(***************************************************************************)
EXTENDS Integers, FiniteSets, Sums

CONSTANTS
    Commission,   \* a finite set of numbers, in order of creation
    Amount,       \* Amount[c]: Commission.amount
    Ask,          \* the amounts a marketer asks for
    Payout,       \* the payout requests that may be created
    Handler,      \* API request handlers
    Hook,         \* webhook handlers
    Worker,       \* concurrent jobs of the transfer worker
    NoPayout,
    AdminFirst,   \* the marketer's creator is an admin: admin approval first
    Reversals,    \* Paystack may reverse a transfer that succeeded
    Prompt,       \* answers to accepted transfers arrive, and are stored
                  \* before Paystack settles the transfer
    JobAttempts,  \* attempts of a transfer job
    MaxJob,       \* bound: transfer jobs per payout
    MaxSent,      \* bound: transfers Paystack accepts per payout
    MaxCrash      \* bound: process crashes in a behaviour

ASSUME CommissionPayoutAssumption ==
    /\ IsFiniteSet(Commission) /\ Commission \subseteq Nat
    /\ Amount \in [Commission -> Nat \ {0}]
    /\ Ask \subseteq Nat \ {0}
    /\ IsFiniteSet(Payout) /\ NoPayout \notin Payout
    /\ AdminFirst \in BOOLEAN
    /\ Reversals \in BOOLEAN
    /\ Prompt \in BOOLEAN
    /\ JobAttempts \in Nat \ {0}
    /\ MaxJob \in Nat
    /\ MaxSent \in Nat
    /\ MaxCrash \in Nat

VARIABLES
    cstatus,    \* Commission.status, "NONE" before it accrues
    reserved,   \* Commission.reservedAmount
    pstatus,    \* CommissionPayoutRequest.status, "NONE" before it exists
    amount,     \* CommissionPayoutRequest.amount
    signed,     \* who has approved: adminApprovedById, companyApprovedById
    code,       \* transferCode is set
    alloc,      \* alloc[p][c]: CommissionAllocation.allocatedAmount, 0 if none
    astatus,    \* astatus[p][c]: its status, "NONE" if none
    api,        \* what each API handler is doing
    jobs,       \* waiting transfer jobs
    queued,     \* transfer jobs enqueued so far
    worker,     \* what each worker slot is doing
    transfer,   \* the state of the payout's transfer at Paystack
    sent,       \* transfers Paystack has accepted under the payout's reference
    events,     \* transfer events Paystack has to deliver
    processed,  \* events whose WebhookEvent row is marked processed
    hook,       \* what each webhook handler is doing
    crashes     \* crashes so far

rows == <<cstatus, reserved, pstatus, amount, signed, code, alloc, astatus>>
books == <<cstatus, reserved, alloc, astatus>>
queue == <<jobs, queued>>
paystack == <<transfer, sent, events>>
vars == <<rows, api, queue, worker, paystack, processed, hook, crashes>>

InProgress == {"PENDING_ADMIN_APPROVAL", "PENDING_COMPANY_APPROVAL",
               "APPROVED", "TRANSFER_INITIATED"}
Initiatable == {"APPROVED", "TRANSFER_FAILED", "TRANSFER_REVERSED"}
PayoutStatus == {"NONE", "PAID"} \cup InProgress \cup Initiatable
CommissionStatus == {"NONE", "ACTIVE", "PARTIALLY_RESERVED", "RESERVED", "PAID"}
AllocationStatus == {"NONE", "RESERVED", "PAID", "RELEASED"}

Kind == {"success", "failed", "reversed"}
Event == [payout: Payout, n: 1 .. MaxSent, kind: Kind]
Job == [payout: Payout, n: 1 .. MaxJob, left: 1 .. JobAttempts]

\* What a handler has read: the reserved amounts and the allocations' statuses.
Snapshot == [reserved: [Commission -> Int], astatus: [Commission -> AllocationStatus]]
NoSnapshot == [reserved |-> [c \in Commission |-> 0],
               astatus |-> [c \in Commission |-> "NONE"]]
SnapshotOf(p) == [reserved |-> reserved, astatus |-> astatus[p]]

ApiState == [pc: {"idle", "asking", "admin", "company", "failed", "rereserve",
                  "reversed", "initiate", "enqueue"},
             payout: Payout \cup {NoPayout},
             snap: Snapshot]
ApiAt(pc, p) == [pc |-> pc, payout |-> p, snap |-> NoSnapshot]
IdleApi == ApiAt("idle", NoPayout)

WorkerState == [pc: {"idle", "call", "save", "fail", "exhausted"}, job: Job]
               \cup {[pc |-> "idle"]}
IdleWorker == [pc |-> "idle"]

HookState == [pc: {"read", "apply", "done"}, event: Event, snap: Snapshot]
             \cup {[pc |-> "idle"]}
IdleHook == [pc |-> "idle"]

TypeOK ==
    /\ cstatus \in [Commission -> CommissionStatus]
    /\ reserved \in [Commission -> Int]
    /\ pstatus \in [Payout -> PayoutStatus]
    /\ amount \in [Payout -> Ask \cup {0}]
    /\ signed \in [Payout -> SUBSET {"admin", "company"}]
    /\ code \in [Payout -> BOOLEAN]
    /\ alloc \in [Payout -> [Commission -> Nat]]
    /\ astatus \in [Payout -> [Commission -> AllocationStatus]]
    /\ api \in [Handler -> ApiState]
    /\ jobs \subseteq Job
    /\ queued \in [Payout -> 0 .. MaxJob]
    /\ worker \in [Worker -> WorkerState]
    /\ transfer \in [Payout -> {"none", "pending", "success", "failed", "reversed"}]
    /\ sent \in [Payout -> 0 .. MaxSent]
    /\ events \subseteq Event
    /\ processed \subseteq Event
    /\ hook \in [Hook -> HookState]
    /\ crashes \in 0 .. MaxCrash

Init ==
    /\ cstatus = [c \in Commission |-> "NONE"]
    /\ reserved = [c \in Commission |-> 0]
    /\ pstatus = [p \in Payout |-> "NONE"]
    /\ amount = [p \in Payout |-> 0]
    /\ signed = [p \in Payout |-> {}]
    /\ code = [p \in Payout |-> FALSE]
    /\ alloc = [p \in Payout |-> [c \in Commission |-> 0]]
    /\ astatus = [p \in Payout |-> [c \in Commission |-> "NONE"]]
    /\ api = [h \in Handler |-> IdleApi]
    /\ jobs = {}
    /\ queued = [p \in Payout |-> 0]
    /\ worker = [w \in Worker |-> IdleWorker]
    /\ transfer = [p \in Payout |-> "none"]
    /\ sent = [p \in Payout |-> 0]
    /\ events = {}
    /\ processed = {}
    /\ hook = [k \in Hook |-> IdleHook]
    /\ crashes = 0

-----------------------------------------------------------------------------
(* Helpers of commission-helper.ts and the sums they are given.            *)

\* deriveReservationStatus
ReservationStatus(held, total) ==
    IF held = 0 THEN "ACTIVE"
    ELSE IF held < total THEN "PARTIALLY_RESERVED" ELSE "RESERVED"

\* derivePostPaymentStatus
PostPaymentStatus(total, held, paid) ==
    IF paid >= total THEN "PAID" ELSE ReservationStatus(held, total - paid)

\* The sum of the allocations of commission c that are in one of the statuses.
Allocated(c, statuses) ==
    SumOver([p \in Payout |-> alloc[p][c]], {p \in Payout : astatus[p][c] \in statuses})

\* The rows requestPayout locks, and what it takes to be available in them.
Lockable == {c \in Commission : /\ cstatus[c] \notin {"NONE", "PAID"}
                                /\ reserved[c] < Amount[c]}
Free(c) == IF c \in Lockable THEN Amount[c] - reserved[c] ELSE 0
FreeIn(S) == SumOver([c \in Commission |-> Free(c)], S)

\* Defect: the newest commissions are used up first.
NewestPlan(asked) ==
    [c \in Commission |->
        LET newer == FreeIn({d \in Lockable : d > c})
            rest == IF asked > newer THEN asked - newer ELSE 0
        IN IF rest < Free(c) THEN rest ELSE Free(c)]

\* The greedy loop: the oldest commissions are used up first.
GreedyPlan(asked) ==
    [c \in Commission |->
        LET older == FreeIn({d \in Lockable : d < c})
            rest == IF asked > older THEN asked - older ELSE 0
        IN IF rest < Free(c) THEN rest ELSE Free(c)]

-----------------------------------------------------------------------------
(* Accrual, requests and approvals.                                        *)

\* The payment worker creates the commission of an installment.
Accrue(c) ==
    /\ cstatus[c] = "NONE"
    /\ \A d \in Commission : d < c => cstatus[d] # "NONE"
    /\ cstatus' = [cstatus EXCEPT ![c] = "ACTIVE"]
    /\ UNCHANGED <<reserved, pstatus, amount, signed, code, alloc, astatus,
                   api, queue, worker, paystack, processed, hook, crashes>>

\* requestPayout looks for a payout in progress, outside its transaction.  The
\* pool of payouts bounds how often.
AskPayout(h) ==
    /\ api[h].pc = "idle"
    /\ \A p \in Payout : pstatus[p] \notin InProgress
    /\ \E p \in Payout : pstatus[p] = "NONE"
    /\ api' = [api EXCEPT ![h] = ApiAt("asking", NoPayout)]
    /\ UNCHANGED <<rows, queue, worker, paystack, processed, hook, crashes>>

\* Defect: the plan is made from what was read before the lock, when nothing was
\* reserved.
ReserveUnlocked(h) ==
    /\ api[h].pc = "asking"
    /\ api' = [api EXCEPT ![h] = IdleApi]
    /\ \E p \in Payout, c \in Commission :
         /\ pstatus[p] = "NONE" /\ cstatus[c] # "NONE"
         /\ pstatus' = [pstatus EXCEPT ![p] = "PENDING_COMPANY_APPROVAL"]
         /\ alloc' = [alloc EXCEPT ![p][c] = Amount[c]]
         /\ astatus' = [astatus EXCEPT ![p][c] = "RESERVED"]
         /\ reserved' = [reserved EXCEPT ![c] = @ + Amount[c]]
    /\ UNCHANGED <<cstatus, amount, signed, code, queue, worker, paystack,
                   processed, hook, crashes>>

\* The transaction: lock, check what is available, allocate and reserve.
ReservePayout(h) ==
    /\ api[h].pc = "asking"
    /\ api' = [api EXCEPT ![h] = IdleApi]
    /\ \/ \E p \in Payout, asked \in Ask :
            LET plan == GreedyPlan(asked)
                used == {c \in Commission : plan[c] > 0}
            IN /\ pstatus[p] = "NONE"
               /\ asked <= FreeIn(Lockable)
               /\ pstatus' = [pstatus EXCEPT ![p] =
                                IF AdminFirst THEN "PENDING_ADMIN_APPROVAL"
                                              ELSE "PENDING_COMPANY_APPROVAL"]
               /\ amount' = [amount EXCEPT ![p] = asked]
               /\ alloc' = [alloc EXCEPT ![p] = plan]
               /\ astatus' = [astatus EXCEPT ![p] =
                    [c \in Commission |-> IF c \in used THEN "RESERVED" ELSE "NONE"]]
               /\ reserved' = [c \in Commission |-> reserved[c] + plan[c]]
               /\ cstatus' = [c \in Commission |->
                    IF c \in used THEN ReservationStatus(reserved'[c], Amount[c])
                                  ELSE cstatus[c]]
               /\ UNCHANGED <<signed, code>>
       \/ /\ \E asked \in Ask : asked > FreeIn(Lockable)
          /\ UNCHANGED rows
    /\ UNCHANGED <<queue, worker, paystack, processed, hook, crashes>>

\* Defect: the company may approve what the admin has not.
ReadApprovalEarly(h, p) ==
    /\ api[h].pc = "idle"
    /\ pstatus[p] \in {"PENDING_ADMIN_APPROVAL", "PENDING_COMPANY_APPROVAL"}
    /\ \E who \in {"admin", "company"} : api' = [api EXCEPT ![h] = ApiAt(who, p)]
    /\ UNCHANGED <<rows, queue, worker, paystack, processed, hook, crashes>>

\* An approval reads a payout that awaits it, and later writes without looking.
ReadApproval(h, p) ==
    /\ api[h].pc = "idle"
    /\ \/ /\ pstatus[p] = "PENDING_ADMIN_APPROVAL"
          /\ api' = [api EXCEPT ![h] = ApiAt("admin", p)]
       \/ /\ pstatus[p] = "PENDING_COMPANY_APPROVAL"
          /\ api' = [api EXCEPT ![h] = ApiAt("company", p)]
    /\ UNCHANGED <<rows, queue, worker, paystack, processed, hook, crashes>>

Approve(h) ==
    /\ api[h].pc \in {"admin", "company"}
    /\ LET p == api[h].payout IN
       /\ pstatus' = [pstatus EXCEPT ![p] =
                        IF api[h].pc = "admin" THEN "PENDING_COMPANY_APPROVAL"
                                               ELSE "APPROVED"]
       /\ signed' = [signed EXCEPT ![p] = @ \cup {api[h].pc}]
    /\ api' = [api EXCEPT ![h] = IdleApi]
    /\ UNCHANGED <<books, amount, code, queue, worker, paystack, processed,
                   hook, crashes>>

-----------------------------------------------------------------------------
(* initiateTransfer.                                                       *)

ReadInitiatable(h, p) ==
    /\ api[h].pc = "idle"
    /\ pstatus[p] \in Initiatable
    /\ queued[p] < MaxJob
    /\ api' = [api EXCEPT ![h] =
                 ApiAt(CASE pstatus[p] = "APPROVED" -> "initiate"
                         [] pstatus[p] = "TRANSFER_FAILED" -> "failed"
                         [] pstatus[p] = "TRANSFER_REVERSED" -> "reversed", p)]
    /\ UNCHANGED <<rows, queue, worker, paystack, processed, hook, crashes>>

\* The transaction of a retry reads the released allocations with their
\* commissions, without locks ...
ReadReleased(h) ==
    /\ api[h].pc = "failed"
    /\ api' = [api EXCEPT ![h].pc = "rereserve", ![h].snap = SnapshotOf(api[h].payout)]
    /\ UNCHANGED <<rows, queue, worker, paystack, processed, hook, crashes>>

\* Defect: all allocations of the payout are reserved again, released or not.
ReserveAll(h) ==
    /\ api[h].pc = "rereserve"
    /\ LET p == api[h].payout
           again == {c \in Commission : alloc[p][c] > 0}
       IN /\ astatus' = [astatus EXCEPT ![p] =
               [c \in Commission |-> IF c \in again THEN "RESERVED" ELSE @[c]]]
          /\ reserved' = [c \in Commission |-> api[h].snap.reserved[c] + alloc[p][c]]
          /\ pstatus' = [pstatus EXCEPT ![p] = "APPROVED"]
          /\ api' = [api EXCEPT ![h] = ApiAt("initiate", p)]
    /\ UNCHANGED <<cstatus, amount, signed, code, alloc, queue, worker, paystack,
                   processed, hook, crashes>>

\* ... and reserves what the payout had released, checking no balance.
ReserveReleased(h) ==
    /\ api[h].pc = "rereserve"
    /\ LET p == api[h].payout
           seen == api[h].snap
           again == {c \in Commission : seen.astatus[c] = "RELEASED"}
       IN /\ astatus' = [astatus EXCEPT ![p] =
               [c \in Commission |-> IF c \in again THEN "RESERVED" ELSE @[c]]]
          /\ reserved' = [c \in Commission |->
               IF c \in again THEN seen.reserved[c] + alloc[p][c] ELSE reserved[c]]
          /\ cstatus' = [c \in Commission |->
               IF c \in again THEN ReservationStatus(reserved'[c], Amount[c])
                              ELSE cstatus[c]]
          /\ pstatus' = [pstatus EXCEPT ![p] = "APPROVED"]
          /\ api' = [api EXCEPT ![h] = ApiAt("initiate", p)]
    /\ UNCHANGED <<amount, signed, code, alloc, queue, worker, paystack,
                   processed, hook, crashes>>

Reapprove(h) ==
    /\ api[h].pc = "reversed"
    /\ pstatus' = [pstatus EXCEPT ![api[h].payout] = "APPROVED"]
    /\ api' = [api EXCEPT ![h].pc = "initiate"]
    /\ UNCHANGED <<books, amount, signed, code, queue, worker, paystack,
                   processed, hook, crashes>>

\* Defect: the transferCode of the transfer before is kept.
MarkInitiatedOnly(h) ==
    /\ api[h].pc = "initiate"
    /\ pstatus' = [pstatus EXCEPT ![api[h].payout] = "TRANSFER_INITIATED"]
    /\ api' = [api EXCEPT ![h].pc = "enqueue"]
    /\ UNCHANGED <<books, amount, signed, code, queue, worker, paystack, processed,
                   hook, crashes>>

MarkInitiated(h) ==
    /\ api[h].pc = "initiate"
    /\ pstatus' = [pstatus EXCEPT ![api[h].payout] = "TRANSFER_INITIATED"]
    /\ code' = [code EXCEPT ![api[h].payout] = FALSE]
    /\ api' = [api EXCEPT ![h].pc = "enqueue"]
    /\ UNCHANGED <<books, amount, signed, queue, worker, paystack, processed,
                   hook, crashes>>

Enqueue(h) ==
    /\ api[h].pc = "enqueue"
    /\ LET p == api[h].payout IN
       /\ queued[p] < MaxJob
       /\ queued' = [queued EXCEPT ![p] = @ + 1]
       /\ jobs' = jobs \cup {[payout |-> p, n |-> queued[p] + 1, left |-> JobAttempts]}
    /\ api' = [api EXCEPT ![h] = IdleApi]
    /\ UNCHANGED <<rows, worker, paystack, processed, hook, crashes>>

CrashApi(h) ==
    /\ crashes < MaxCrash
    /\ api[h].pc # "idle"
    /\ crashes' = crashes + 1
    /\ api' = [api EXCEPT ![h] = IdleApi]
    /\ UNCHANGED <<rows, queue, worker, paystack, processed, hook>>

ApiStep(h) == \/ ReservePayout(h) \/ Approve(h) \/ ReadReleased(h)
              \/ ReserveReleased(h) \/ Reapprove(h) \/ MarkInitiated(h)
              \/ Enqueue(h)

-----------------------------------------------------------------------------
(* The transfer worker.                                                    *)

\* A job reads the payout and goes on only if it is TRANSFER_INITIATED and has
\* no transferCode yet.
TakeJob(w) ==
    /\ worker[w].pc = "idle"
    /\ \E j \in jobs :
         /\ jobs' = jobs \ {j}
         /\ worker' = IF pstatus[j.payout] = "TRANSFER_INITIATED" /\ ~code[j.payout]
                      THEN [worker EXCEPT ![w] = [pc |-> "call", job |-> j]]
                      ELSE worker
    /\ UNCHANGED <<rows, api, queued, paystack, processed, hook, crashes>>

\* Paystack keeps one transfer per reference while it is pending or successful.
\* Its answer may be lost, and it may refuse for reasons of its own.
CallPaystack(w) ==
    /\ worker[w].pc = "call"
    /\ LET p == worker[w].job.payout IN
       \/ /\ transfer[p] \notin {"pending", "success"}
          /\ sent[p] < MaxSent
          /\ transfer' = [transfer EXCEPT ![p] = "pending"]
          /\ sent' = [sent EXCEPT ![p] = @ + 1]
          /\ \/ worker' = [worker EXCEPT ![w].pc = "save"]
             \/ ~Prompt /\ worker' = [worker EXCEPT ![w].pc = "fail"]
       \/ /\ worker' = [worker EXCEPT ![w].pc = "fail"]
          /\ UNCHANGED <<transfer, sent>>
    /\ UNCHANGED <<rows, api, queue, events, processed, hook, crashes>>

\* Defect: a transfer that Paystack has accepted counts as paid.
SaveAsPaid(w) ==
    /\ worker[w].pc = "save"
    /\ pstatus' = [pstatus EXCEPT ![worker[w].job.payout] = "PAID"]
    /\ worker' = [worker EXCEPT ![w] = IdleWorker]
    /\ UNCHANGED <<books, amount, signed, code, api, queue, paystack,
                   processed, hook, crashes>>

\* The transaction with the ledger entry.  The client returns Paystack's answer
\* unmapped: without a field named transferCode the column keeps its NULL.
SaveCode(w) ==
    /\ worker[w].pc = "save"
    /\ \E given \in BOOLEAN :
         code' = [code EXCEPT ![worker[w].job.payout] = @ \/ given]
    /\ worker' = [worker EXCEPT ![w] = IdleWorker]
    /\ UNCHANGED <<books, pstatus, amount, signed, api, queue, paystack,
                   processed, hook, crashes>>

\* Defect: attempts are counted down past the last one.
FailWithoutEnd(w) ==
    /\ worker[w].pc = "fail"
    /\ jobs' = jobs \cup {[worker[w].job EXCEPT !.left = @ - 1]}
    /\ worker' = [worker EXCEPT ![w] = IdleWorker]
    /\ UNCHANGED <<rows, api, queued, paystack, processed, hook, crashes>>

\* A thrown error: the job waits for its next attempt, or was at its last.
FailAttempt(w) ==
    /\ worker[w].pc = "fail"
    /\ LET j == worker[w].job IN
       \/ /\ j.left > 1
          /\ jobs' = jobs \cup {[j EXCEPT !.left = @ - 1]}
          /\ worker' = [worker EXCEPT ![w] = IdleWorker]
       \/ /\ j.left = 1
          /\ worker' = [worker EXCEPT ![w].pc = "exhausted"]
          /\ UNCHANGED jobs
    /\ UNCHANGED <<rows, api, queued, paystack, processed, hook, crashes>>

\* The "failed" listener: no condition on the status, no allocation released.
MarkTransferFailed(w) ==
    /\ worker[w].pc = "exhausted"
    /\ pstatus' = [pstatus EXCEPT ![worker[w].job.payout] = "TRANSFER_FAILED"]
    /\ worker' = [worker EXCEPT ![w] = IdleWorker]
    /\ UNCHANGED <<books, amount, signed, code, api, queue, paystack, processed,
                   hook, crashes>>

\* A stalled job goes back to the queue; a lost listener is not run again.
CrashWorker(w) ==
    /\ crashes < MaxCrash
    /\ worker[w].pc # "idle"
    /\ crashes' = crashes + 1
    /\ jobs' = IF worker[w].pc = "exhausted" THEN jobs
                                             ELSE jobs \cup {worker[w].job}
    /\ worker' = [worker EXCEPT ![w] = IdleWorker]
    /\ UNCHANGED <<rows, api, queued, paystack, processed, hook>>

WorkerStep(w) == \/ TakeJob(w) \/ CallPaystack(w) \/ SaveCode(w)
                 \/ FailAttempt(w) \/ MarkTransferFailed(w)

-----------------------------------------------------------------------------
(* Paystack and its webhooks.                                              *)

Emit(p, to) ==
    /\ transfer' = [transfer EXCEPT ![p] = to]
    /\ events' = events \cup {[payout |-> p, n |-> sent[p], kind |-> to]}

SettleTransfer(p) ==
    /\ Prompt => \A w \in Worker : worker[w].pc = "save" => worker[w].job.payout # p
    /\ \/ transfer[p] = "pending" /\ \E to \in {"success", "failed"} : Emit(p, to)
       \/ Reversals /\ transfer[p] = "success" /\ Emit(p, "reversed")
    /\ UNCHANGED <<rows, api, queue, worker, sent, processed, hook, crashes>>

\* An event is delivered until it is marked processed, in any order and maybe
\* to two handlers at once.
Deliver(k, e) ==
    /\ hook[k].pc = "idle"
    /\ e \in events \ processed
    /\ hook' = [hook EXCEPT ![k] = [pc |-> "read", event |-> e, snap |-> NoSnapshot]]
    /\ UNCHANGED <<rows, api, queue, worker, paystack, processed, crashes>>

StatusOf(kind) == CASE kind = "success" -> "PAID"
                    [] kind = "failed" -> "TRANSFER_FAILED"
                    [] kind = "reversed" -> "TRANSFER_REVERSED"

\* The read of the payout, its allocations and their commissions, which comes
\* before the transaction; a payout already in the event's status is skipped.
ReadPayout(k) ==
    /\ hook[k].pc = "read"
    /\ LET e == hook[k].event IN
       hook' = [hook EXCEPT
                  ![k].pc = IF pstatus[e.payout] = StatusOf(e.kind) THEN "done"
                                                                    ELSE "apply",
                  ![k].snap = SnapshotOf(e.payout)]
    /\ UNCHANGED <<rows, api, queue, worker, paystack, processed, crashes>>

\* The transaction writes what follows from the rows read before it; only the
\* sum of the paid allocations is read within it.
ApplyEvent(k) ==
    /\ hook[k].pc = "apply"
    /\ LET p == hook[k].event.payout
           kind == hook[k].event.kind
           seen == hook[k].snap
           from == IF kind = "reversed" THEN "PAID" ELSE "RESERVED"
           to == CASE kind = "success" -> "PAID"
                   [] kind = "failed" -> "RELEASED"
                   [] kind = "reversed" -> "RESERVED"
           moved == {c \in Commission : seen.astatus[c] = from}
           change(c) == IF kind = "reversed" THEN alloc[p][c] ELSE -alloc[p][c]
           paid(c) == SumOver([q \in Payout |-> alloc[q][c]],
                              {q \in Payout : astatus'[q][c] = "PAID"})
       IN /\ pstatus' = [pstatus EXCEPT ![p] = StatusOf(kind)]
          /\ astatus' = [astatus EXCEPT ![p] =
               [c \in Commission |-> IF c \in moved THEN to ELSE @[c]]]
          /\ reserved' = [c \in Commission |->
               IF c \in moved THEN seen.reserved[c] + change(c) ELSE reserved[c]]
          /\ cstatus' = [c \in Commission |->
               IF c \notin moved THEN cstatus[c]
               ELSE IF kind = "success"
                    THEN PostPaymentStatus(Amount[c], reserved'[c], paid(c))
                    ELSE ReservationStatus(reserved'[c], Amount[c])]
    /\ hook' = [hook EXCEPT ![k].pc = "done"]
    /\ UNCHANGED <<amount, signed, code, alloc, api, queue, worker, paystack,
                   processed, crashes>>

MarkProcessed(k) ==
    /\ hook[k].pc = "done"
    /\ processed' = processed \cup {hook[k].event}
    /\ hook' = [hook EXCEPT ![k] = IdleHook]
    /\ UNCHANGED <<rows, api, queue, worker, paystack, crashes>>

CrashHook(k) ==
    /\ crashes < MaxCrash
    /\ hook[k].pc # "idle"
    /\ crashes' = crashes + 1
    /\ hook' = [hook EXCEPT ![k] = IdleHook]
    /\ UNCHANGED <<rows, api, queue, worker, paystack, processed>>

HookStep(k) == \/ \E e \in events : Deliver(k, e)
               \/ ReadPayout(k) \/ ApplyEvent(k) \/ MarkProcessed(k)

Next ==
    \/ \E c \in Commission : Accrue(c)
    \/ \E h \in Handler : \/ ApiStep(h) \/ CrashApi(h) \/ AskPayout(h)
                          \/ \E p \in Payout : ReadApproval(h, p) \/ ReadInitiatable(h, p)
    \/ \E w \in Worker : WorkerStep(w) \/ CrashWorker(w)
    \/ \E p \in Payout : SettleTransfer(p)
    \/ \E k \in Hook : HookStep(k) \/ CrashHook(k)

Spec == Init /\ [][Next]_vars

\* A handler that has started goes on, jobs are taken, Paystack settles what it
\* accepted and delivers its events until they are processed.
Fairness ==
    /\ \A h \in Handler : WF_vars(ApiStep(h))
    /\ \A w \in Worker : WF_vars(WorkerStep(w))
    /\ \A p \in Payout : WF_vars(SettleTransfer(p))
    /\ \A k \in Hook : WF_vars(HookStep(k))

FairSpec == Spec /\ Fairness

-----------------------------------------------------------------------------
(* What must hold.                                                         *)

\* No money leaves for a payout that lacks a signature: whatever stale
\* approvals, retries, jobs and webhooks do, Paystack is only asked for
\* transfers the company has approved, after the admin where there is one.
SignedBeforeSent ==
    \A p \in Payout : transfer[p] # "none" =>
        /\ "company" \in signed[p]
        /\ AdminFirst => "admin" \in signed[p]

\* A payout and its allocations are PAID only on Paystack's word.
PaidWasConfirmed ==
    \A p \in Payout :
        pstatus[p] = "PAID" \/ (\E c \in Commission : astatus[p][c] = "PAID")
        => \E e \in events : e.payout = p /\ e.kind = "success"

\* requestPayout reserves exactly what was asked, and takes a newer commission
\* only when every older one it could use has given all it had.
RequestIsFifo ==
    [][\A p \in Payout : pstatus[p] = "NONE" /\ pstatus'[p] # "NONE" =>
          /\ SumOver(alloc'[p], Commission) = amount'[p]
          /\ \A c, d \in Commission :
               c \in Lockable /\ c < d /\ alloc'[p][d] > 0 => reserved'[c] = Amount[c]]_vars

\* A request, even one of two made at once, reserves only what nothing else has
\* reserved: FOR UPDATE makes it see the reservation of the other.
RequestReservesFree ==
    [][\A p \in Payout : pstatus[p] = "NONE" /\ pstatus'[p] # "NONE" =>
          \A c \in Commission : reserved'[c] > reserved[c] => reserved'[c] <= Amount[c]]_vars

\* The reserved amount of a commission is what RESERVED allocations hold of it.
ReservedIsAllocated ==
    \A c \in Commission : reserved[c] = Allocated(c, {"RESERVED"})

\* Nothing that was read has changed since.
Fresh(p, snap) == snap = SnapshotOf(p)
ReadsAreFresh ==
    /\ \A h \in Handler : api[h].pc = "rereserve" => Fresh(api[h].payout, api[h].snap)
    /\ \A k \in Hook : hook[k].pc = "apply" => Fresh(hook[k].event.payout, hook[k].snap)

\* Requests, retries and webhooks, in whatever order they come, keep the reserved
\* amounts equal to the allocations; only a write computed from a stale read can
\* break that (the reads of webhooks and retries take no lock).
ReservedKept ==
    [][ReservedIsAllocated /\ ReadsAreFresh => ReservedIsAllocated']_vars

\* "System validates sufficient available balance": a commission is never
\* promised or paid for more than it is worth.
NeverOverdrawn ==
    \A c \in Commission : Allocated(c, {"RESERVED", "PAID"}) <= Amount[c]

\* "on final failure, commissions are released back to ACTIVE".
FailureReleases ==
    \A p \in Payout : pstatus[p] = "TRANSFER_FAILED" =>
        \A c \in Commission : astatus[p][c] # "RESERVED"

\* A transfer that was initiated comes to an end, unless a crash loses its job or
\* the listener of its last failure.
InitiatedEnds ==
    \A p \in Payout : pstatus[p] = "TRANSFER_INITIATED" ~>
                           pstatus[p] # "TRANSFER_INITIATED" \/ crashes > 0
=============================================================================
