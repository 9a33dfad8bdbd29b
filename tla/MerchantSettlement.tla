-------------------------- MODULE MerchantSettlement --------------------------
(***************************************************************************)
(* The settlements of one company: the weekly run and the admin's request  *)
(* that generate them from paid installments, the run that queues their    *)
(* transfers, the admin's retry, the transfer job, Paystack, the webhooks, *)
(* and what all of them book.                                              *)
(*                                                                         *)
(* As in CommissionPayout, an action is one statement, one transaction,    *)
(* one Paystack call or one queue operation, and what a process read in an *)
(* earlier one it remembers.                                               *)
(*                                                                         *)
(* Amounts play no part: a settlement's money is in one piece, and books   *)
(* counts the pieces each account holds for it.                            *)
(***************************************************************************)
EXTENDS Integers, FiniteSets

CONSTANTS
    Installment,  \* the company's installments
    Settlement,   \* the settlements that may be created
    Scheduler,    \* the weekly run
    Handler,      \* requests of the SUPER_ADMIN
    Hook,         \* webhook handlers
    Worker,       \* concurrent jobs of the transfer worker
    NoSettlement,
    Linked,       \* settlements with a companyBankAccountId: no code writes it
    JobAttempts,  \* attempts of a transfer job
    MaxJob,       \* bound: transfer jobs per settlement
    MaxSent,      \* bound: transfers Paystack accepts per settlement
    MaxCrash      \* bound: process crashes in a behaviour

ASSUME MerchantSettlementAssumption ==
    /\ NoSettlement \notin Settlement
    /\ Scheduler \notin Handler
    /\ Linked \subseteq Settlement
    /\ JobAttempts \in Nat \ {0}
    /\ MaxJob \in Nat
    /\ MaxSent \in Nat
    /\ MaxCrash \in Nat

VARIABLES
    paid,       \* installments that are PAID
    lines,      \* MerchantSettlementLine: <<installment, settlement>>
    status,     \* MerchantSettlementRequest.status, "NONE" before it exists
    code,       \* transferCode is set
    bank,       \* the company has a verified primary bank account
    books,      \* books[m][a]: what account a holds of settlement m
    clerk,      \* what the weekly run and each request are doing
    jobs,       \* waiting transfer jobs
    queued,     \* transfer jobs enqueued so far
    worker,     \* what each worker slot is doing
    transfer,   \* the state of the settlement's transfer at Paystack
    sent,       \* transfers Paystack has accepted under its reference
    arrived,    \* history: transfers that succeeded and were not reversed
    events,     \* transfer events Paystack has to deliver
    processed,  \* events whose WebhookEvent row is marked processed
    hook,       \* what each webhook handler is doing
    upset,      \* history: settlements met by one of the mishaps named below
    crashes     \* crashes so far

source == <<paid, lines, bank>>
rows == <<status, code, books>>
queue == <<jobs, queued>>
paystack == <<transfer, sent, arrived, events>>
hooks == <<processed, hook>>
vars == <<source, rows, clerk, queue, worker, paystack, hooks, upset, crashes>>

Clerk == Handler \cup {Scheduler}
Retryable == {"TRANSFER_FAILED", "TRANSFER_REVERSED"}
Status == {"NONE", "APPROVED", "TRANSFER_INITIATED", "TRANSFER_SUCCESS"} \cup Retryable

\* MERCHANT_PAYABLE, PAYOUTS_IN_TRANSIT and BANK_SETTLED
Account == {"payable", "transit", "bank"}

Kind == {"success", "failed", "reversed"}
Event == [settlement: Settlement, n: 1 .. MaxSent, kind: Kind]
Job == [settlement: Settlement, n: 1 .. MaxJob, left: 1 .. JobAttempts]

ClerkState == [pc: {"idle", "create", "pick", "mark", "retry", "enqueue"},
               batch: SUBSET Installment,
               todo: SUBSET Settlement,
               settlement: Settlement \cup {NoSettlement}]
ClerkAt(pc) == [pc |-> pc, batch |-> {}, todo |-> {}, settlement |-> NoSettlement]
IdleClerk == ClerkAt("idle")

IdleWorker == [pc |-> "idle"]
WorkerState == {IdleWorker} \cup [pc: {"call", "save", "fail", "exhausted"}, job: Job]

IdleHook == [pc |-> "idle"]
HookState == {IdleHook} \cup [pc: {"read", "apply", "done"}, event: Event]

TypeOK ==
    /\ paid \subseteq Installment
    /\ lines \subseteq Installment \X Settlement
    /\ status \in [Settlement -> Status]
    /\ code \in [Settlement -> BOOLEAN]
    /\ bank \in BOOLEAN
    /\ books \in [Settlement -> [Account -> Int]]
    /\ clerk \in [Clerk -> ClerkState]
    /\ jobs \subseteq Job
    /\ queued \in [Settlement -> 0 .. MaxJob]
    /\ worker \in [Worker -> WorkerState]
    /\ transfer \in [Settlement -> {"none", "pending"} \cup Kind]
    /\ sent \in [Settlement -> 0 .. MaxSent]
    /\ arrived \in [Settlement -> Int]
    /\ events \subseteq Event
    /\ processed \subseteq events
    /\ hook \in [Hook -> HookState]
    /\ upset \subseteq Settlement
    /\ crashes \in 0 .. MaxCrash

Init ==
    /\ paid = {}
    /\ lines = {}
    /\ status = [m \in Settlement |-> "NONE"]
    /\ code = [m \in Settlement |-> FALSE]
    /\ bank = FALSE
    /\ books = [m \in Settlement |-> [a \in Account |-> IF a = "payable" THEN 1 ELSE 0]]
    /\ clerk = [x \in Clerk |-> IdleClerk]
    /\ jobs = {}
    /\ queued = [m \in Settlement |-> 0]
    /\ worker = [w \in Worker |-> IdleWorker]
    /\ transfer = [m \in Settlement |-> "none"]
    /\ sent = [m \in Settlement |-> 0]
    /\ arrived = [m \in Settlement |-> 0]
    /\ events = {}
    /\ processed = {}
    /\ hook = [k \in Hook |-> IdleHook]
    /\ upset = {}
    /\ crashes = 0

\* A booking of settlement m: from one account to another.  The code debits the
\* first and credits the second; the last two are assets, whose balances are
\* therefore the counts with the sign reversed.
Book(m, from, to) ==
    books' = [books EXCEPT ![m][from] = @ - 1, ![m][to] = @ + 1]

Goto(x, state) == clerk' = [clerk EXCEPT ![x] = state]

-----------------------------------------------------------------------------
(* Where settlements come from.                                            *)

\* The payment worker has credited MERCHANT_PAYABLE by then.
PayInstallment(i) ==
    /\ i \notin paid
    /\ paid' = paid \cup {i}
    /\ UNCHANGED <<lines, bank, rows, clerk, queue, worker, paystack, hooks, upset, crashes>>

\* A primary account stays: it can be replaced, not removed.
AddBankAccount ==
    /\ ~bank
    /\ bank' = TRUE
    /\ UNCHANGED <<paid, lines, rows, clerk, queue, worker, paystack, hooks, upset, crashes>>

Unsettled == {i \in paid : \A m \in Settlement : <<i, m>> \notin lines}

\* What follows the generation: the weekly run goes on to the transfers.
AfterGeneration(x) == IF x = Scheduler THEN ClerkAt("pick") ELSE IdleClerk

\* generateForCompany reads the installments before its transaction.
ReadUnsettled(x) ==
    /\ clerk[x].pc = "idle"
    /\ \/ /\ Unsettled # {}
          /\ Goto(x, [ClerkAt("create") EXCEPT !.batch = Unsettled])
       \/ /\ Unsettled = {} /\ x = Scheduler
          /\ Goto(x, AfterGeneration(x))
    /\ UNCHANGED <<source, rows, queue, worker, paystack, hooks, upset, crashes>>

\* The transaction creates the settlement, its lines and the approval, or fails
\* because an installment has a line by now: installmentId is unique.  An error
\* ends the weekly run before it has queued any transfer.
CreateSettlement(x) ==
    /\ clerk[x].pc = "create"
    /\ \/ /\ clerk[x].batch \subseteq Unsettled
          /\ \E m \in Settlement :
               /\ status[m] = "NONE"
               /\ status' = [status EXCEPT ![m] = "APPROVED"]
               /\ lines' = lines \cup (clerk[x].batch \X {m})
          /\ Goto(x, AfterGeneration(x))
       \/ /\ ~(clerk[x].batch \subseteq Unsettled)
          /\ Goto(x, IdleClerk)
          /\ UNCHANGED <<status, lines>>
    /\ UNCHANGED <<paid, bank, code, books, queue, worker, paystack, hooks, upset, crashes>>

-----------------------------------------------------------------------------
(* Queueing the transfers.                                                 *)

\* The weekly run with something to queue, or done.
ToMark(todo) ==
    IF todo = {} THEN IdleClerk ELSE [ClerkAt("mark") EXCEPT !.todo = todo]


\* The company's account is looked at, not the settlement's.
PickEligible ==
    /\ clerk[Scheduler].pc = "pick"
    /\ Goto(Scheduler, ToMark(IF bank THEN {m \in Settlement : status[m] = "APPROVED"}
                                      ELSE {}))
    /\ UNCHANGED <<source, rows, queue, worker, paystack, hooks, upset, crashes>>

MarkInitiated ==
    /\ clerk[Scheduler].pc = "mark"
    /\ \E m \in clerk[Scheduler].todo :
         /\ status' = [status EXCEPT ![m] = "TRANSFER_INITIATED"]
         /\ Goto(Scheduler, [clerk[Scheduler] EXCEPT
                               !.pc = "enqueue", !.todo = @ \ {m}, !.settlement = m])
    /\ UNCHANGED <<source, code, books, queue, worker, paystack, hooks, upset, crashes>>

\* retryTransfer reads the status, and later writes without looking.
ReadRetryable(h, m) ==
    /\ clerk[h].pc = "idle"
    /\ status[m] \in Retryable
    /\ queued[m] < MaxJob
    /\ Goto(h, [ClerkAt("retry") EXCEPT !.settlement = m])
    /\ UNCHANGED <<source, rows, queue, worker, paystack, hooks, upset, crashes>>

\* Defect: the transferCode of the reversed transfer is kept.
MarkRetriedOnly(h) ==
    /\ clerk[h].pc = "retry"
    /\ LET m == clerk[h].settlement IN
       /\ status' = [status EXCEPT ![m] = "TRANSFER_INITIATED"]
       /\ upset' = IF status[m] \in Retryable THEN upset ELSE upset \cup {m}
    /\ Goto(h, [clerk[h] EXCEPT !.pc = "enqueue"])
    /\ UNCHANGED <<source, code, books, queue, worker, paystack, hooks, crashes>>

\* Mishap: what the retry read is no longer so.
MarkRetried(h) ==
    /\ clerk[h].pc = "retry"
    /\ LET m == clerk[h].settlement IN
       /\ status' = [status EXCEPT ![m] = "TRANSFER_INITIATED"]
       /\ code' = [code EXCEPT ![m] = FALSE]
       /\ upset' = IF status[m] \in Retryable THEN upset ELSE upset \cup {m}
    /\ Goto(h, [clerk[h] EXCEPT !.pc = "enqueue"])
    /\ UNCHANGED <<source, books, queue, worker, paystack, hooks, crashes>>

Enqueue(x) ==
    /\ clerk[x].pc = "enqueue"
    /\ LET m == clerk[x].settlement IN
       /\ queued[m] < MaxJob
       /\ queued' = [queued EXCEPT ![m] = @ + 1]
       /\ jobs' = jobs \cup {[settlement |-> m, n |-> queued[m] + 1, left |-> JobAttempts]}
    /\ Goto(x, ToMark(clerk[x].todo))
    /\ UNCHANGED <<source, rows, worker, paystack, hooks, upset, crashes>>

\* A transfer marked but not enqueued has no job, now or later.
CrashClerk(x) ==
    /\ crashes < MaxCrash
    /\ clerk[x].pc # "idle"
    /\ crashes' = crashes + 1
    /\ Goto(x, IdleClerk)
    /\ UNCHANGED <<source, rows, queue, worker, paystack, hooks, upset>>

WeeklyRun == \/ ReadUnsettled(Scheduler) \/ CreateSettlement(Scheduler)
             \/ PickEligible \/ MarkInitiated \/ Enqueue(Scheduler)

RequestStep(h) == CreateSettlement(h) \/ MarkRetried(h) \/ Enqueue(h)

-----------------------------------------------------------------------------
(* The transfer worker.                                                    *)

At(w, pc) == worker' = [worker EXCEPT ![w].pc = pc]

\* A job goes on only with a settlement that is TRANSFER_INITIATED, throws if no
\* bank account is linked to it, and calls Paystack only without a transferCode.
TakeJob(w) ==
    /\ worker[w].pc = "idle"
    /\ \E j \in jobs :
         /\ jobs' = jobs \ {j}
         /\ LET m == j.settlement IN
            \/ /\ status[m] # "TRANSFER_INITIATED" \/ (m \in Linked /\ code[m])
               /\ UNCHANGED worker
            \/ /\ status[m] = "TRANSFER_INITIATED" /\ m \notin Linked
               /\ worker' = [worker EXCEPT ![w] = [pc |-> "fail", job |-> j]]
            \/ /\ status[m] = "TRANSFER_INITIATED" /\ m \in Linked /\ ~code[m]
               /\ worker' = [worker EXCEPT ![w] = [pc |-> "call", job |-> j]]
    /\ UNCHANGED <<source, rows, clerk, queued, paystack, hooks, upset, crashes>>

\* Defect: every attempt has a reference of its own, so Paystack sees no repetition.
CallWithNewReference(w) ==
    /\ worker[w].pc = "call"
    /\ LET m == worker[w].job.settlement IN
       \/ /\ sent[m] < MaxSent
          /\ transfer' = [transfer EXCEPT ![m] = "pending"]
          /\ sent' = [sent EXCEPT ![m] = @ + 1]
          /\ \/ At(w, "save") /\ UNCHANGED upset
             \/ At(w, "fail") /\ upset' = upset \cup {m}
       \/ At(w, "fail") /\ UNCHANGED <<transfer, sent, upset>>
    /\ UNCHANGED <<source, rows, clerk, queue, arrived, events, hooks, crashes>>

\* Paystack keeps one transfer per reference, MST- and the settlement's id, while
\* it is pending or successful; it may refuse for reasons of its own.
\* Mishap: it accepts and its answer is lost.
CallPaystack(w) ==
    /\ worker[w].pc = "call"
    /\ LET m == worker[w].job.settlement IN
       \/ /\ transfer[m] \notin {"pending", "success"}
          /\ sent[m] < MaxSent
          /\ transfer' = [transfer EXCEPT ![m] = "pending"]
          /\ sent' = [sent EXCEPT ![m] = @ + 1]
          /\ \/ At(w, "save") /\ UNCHANGED upset
             \/ At(w, "fail") /\ upset' = upset \cup {m}
       \/ At(w, "fail") /\ UNCHANGED <<transfer, sent, upset>>
    /\ UNCHANGED <<source, rows, clerk, queue, arrived, events, hooks, crashes>>

\* Defect: the settlement is completed by the worker.
SaveAsSuccess(w) ==
    /\ worker[w].pc = "save"
    /\ LET m == worker[w].job.settlement IN
       /\ code' = [code EXCEPT ![m] = TRUE]
       /\ status' = [status EXCEPT ![m] = "TRANSFER_SUCCESS"]
       /\ Book(m, "payable", "transit")
    /\ worker' = [worker EXCEPT ![w] = IdleWorker]
    /\ UNCHANGED <<source, clerk, queue, paystack, hooks, upset, crashes>>

\* Defect: a reference that was booked before is not booked again.
SaveCodeOnce(w) ==
    /\ worker[w].pc = "save"
    /\ LET m == worker[w].job.settlement IN
       /\ \E given \in BOOLEAN : code' = [code EXCEPT ![m] = @ \/ given]
       /\ IF sent[m] > 1 THEN UNCHANGED books ELSE Book(m, "payable", "transit")
    /\ worker' = [worker EXCEPT ![w] = IdleWorker]
    /\ UNCHANGED <<source, status, clerk, queue, paystack, hooks, upset, crashes>>

\* The transaction with the booking; as in CommissionPayout the column keeps its
\* NULL if Paystack's answer has no field of that name.
SaveCode(w) ==
    /\ worker[w].pc = "save"
    /\ LET m == worker[w].job.settlement IN
       /\ \E given \in BOOLEAN : code' = [code EXCEPT ![m] = @ \/ given]
       /\ Book(m, "payable", "transit")
    /\ worker' = [worker EXCEPT ![w] = IdleWorker]
    /\ UNCHANGED <<source, status, clerk, queue, paystack, hooks, upset, crashes>>

\* Defect: attempts are counted down past the last one.
FailWithoutEnd(w) ==
    /\ worker[w].pc = "fail"
    /\ jobs' = jobs \cup {[worker[w].job EXCEPT !.left = @ - 1]}
    /\ worker' = [worker EXCEPT ![w] = IdleWorker]
    /\ UNCHANGED <<source, rows, clerk, queued, paystack, hooks, upset, crashes>>

\* A thrown error: the job waits for its next attempt, or was at its last.
FailAttempt(w) ==
    /\ worker[w].pc = "fail"
    /\ LET j == worker[w].job IN
       \/ /\ j.left > 1
          /\ jobs' = jobs \cup {[j EXCEPT !.left = @ - 1]}
          /\ worker' = [worker EXCEPT ![w] = IdleWorker]
       \/ /\ j.left = 1
          /\ At(w, "exhausted")
          /\ UNCHANGED jobs
    /\ UNCHANGED <<source, rows, clerk, queued, paystack, hooks, upset, crashes>>

\* The "failed" listener has no condition on the status.
MarkTransferFailed(w) ==
    /\ worker[w].pc = "exhausted"
    /\ status' = [status EXCEPT ![worker[w].job.settlement] = "TRANSFER_FAILED"]
    /\ worker' = [worker EXCEPT ![w] = IdleWorker]
    /\ UNCHANGED <<source, code, books, clerk, queue, paystack, hooks, upset, crashes>>

\* A stalled job goes back to the queue; a lost listener is not run again.
\* Mishap: a transfer that was accepted is not booked.
CrashWorker(w) ==
    /\ crashes < MaxCrash
    /\ worker[w].pc # "idle"
    /\ crashes' = crashes + 1
    /\ jobs' = IF worker[w].pc = "exhausted" THEN jobs ELSE jobs \cup {worker[w].job}
    /\ upset' = IF worker[w].pc = "save" THEN upset \cup {worker[w].job.settlement}
                                         ELSE upset
    /\ worker' = [worker EXCEPT ![w] = IdleWorker]
    /\ UNCHANGED <<source, rows, clerk, queued, paystack, hooks>>

WorkerStep(w) == \/ TakeJob(w) \/ CallPaystack(w) \/ SaveCode(w)
                 \/ FailAttempt(w) \/ MarkTransferFailed(w)

-----------------------------------------------------------------------------
(* Paystack and its webhooks.                                              *)

Emit(m, to) ==
    /\ transfer' = [transfer EXCEPT ![m] = to]
    /\ arrived' = [arrived EXCEPT ![m] = CASE to = "success" -> @ + 1
                                           [] to = "failed" -> @
                                           [] to = "reversed" -> @ - 1]
    /\ events' = events \cup {[settlement |-> m, n |-> sent[m], kind |-> to]}

SettleTransfer(m) ==
    /\ \/ transfer[m] = "pending" /\ \E to \in {"success", "failed"} : Emit(m, to)
       \/ transfer[m] = "success" /\ Emit(m, "reversed")
    /\ UNCHANGED <<source, rows, clerk, queue, worker, sent, hooks, upset, crashes>>

InHand(m) == \E k \in Hook : hook[k].pc # "idle" /\ hook[k].event.settlement = m
AtSave(m) == \E w \in Worker : worker[w].pc = "save" /\ worker[w].job.settlement = m

\* An event is delivered until it is marked processed.
\* Mishap: another event of the settlement is being handled or is older, or the
\* worker has yet to save the answer.
Deliver(k, e) ==
    /\ hook[k].pc = "idle"
    /\ e \in events \ processed
    /\ hook' = [hook EXCEPT ![k] = [pc |-> "read", event |-> e]]
    /\ LET m == e.settlement IN
       upset' = IF \/ InHand(m) \/ AtSave(m)
                   \/ \E d \in events \ processed : d.settlement = m /\ d # e
                THEN upset \cup {m} ELSE upset
    /\ UNCHANGED <<source, rows, clerk, queue, worker, paystack, processed, crashes>>

StatusOf(kind) == CASE kind = "success" -> "TRANSFER_SUCCESS"
                    [] kind = "failed" -> "TRANSFER_FAILED"
                    [] kind = "reversed" -> "TRANSFER_REVERSED"

\* A settlement already in the event's status is skipped.
ReadSettlement(k) ==
    /\ hook[k].pc = "read"
    /\ hook' = [hook EXCEPT ![k].pc =
                  IF status[hook[k].event.settlement] = StatusOf(hook[k].event.kind)
                  THEN "done" ELSE "apply"]
    /\ UNCHANGED <<source, rows, clerk, queue, worker, paystack, processed, upset, crashes>>

ApplyEvent(k) ==
    /\ hook[k].pc = "apply"
    /\ LET m == hook[k].event.settlement
           kind == hook[k].event.kind
       IN /\ status' = [status EXCEPT ![m] = StatusOf(kind)]
          /\ CASE kind = "success" -> Book(m, "transit", "bank")
               [] kind = "failed" -> Book(m, "transit", "payable")
               [] kind = "reversed" -> Book(m, "bank", "payable")
    /\ hook' = [hook EXCEPT ![k].pc = "done"]
    /\ UNCHANGED <<source, code, clerk, queue, worker, paystack, processed, upset, crashes>>

MarkProcessed(k) ==
    /\ hook[k].pc = "done"
    /\ processed' = processed \cup {hook[k].event}
    /\ hook' = [hook EXCEPT ![k] = IdleHook]
    /\ UNCHANGED <<source, rows, clerk, queue, worker, paystack, upset, crashes>>

\* Mishap: an event that was applied will be delivered once more.
CrashHook(k) ==
    /\ crashes < MaxCrash
    /\ hook[k].pc # "idle"
    /\ crashes' = crashes + 1
    /\ upset' = IF hook[k].pc = "done" THEN upset \cup {hook[k].event.settlement}
                                       ELSE upset
    /\ hook' = [hook EXCEPT ![k] = IdleHook]
    /\ UNCHANGED <<source, rows, clerk, queue, worker, paystack, processed>>

HookStep(k) == \/ \E e \in events : Deliver(k, e)
               \/ ReadSettlement(k) \/ ApplyEvent(k) \/ MarkProcessed(k)

Next ==
    \/ \E i \in Installment : PayInstallment(i)
    \/ AddBankAccount
    \/ WeeklyRun
    \/ \E h \in Handler : \/ RequestStep(h) \/ ReadUnsettled(h)
                          \/ \E m \in Settlement : ReadRetryable(h, m)
    \/ \E x \in Clerk : CrashClerk(x)
    \/ \E w \in Worker : WorkerStep(w) \/ CrashWorker(w)
    \/ \E m \in Settlement : SettleTransfer(m)
    \/ \E k \in Hook : HookStep(k) \/ CrashHook(k)

Spec == Init /\ [][Next]_vars

\* The weekly run comes round and goes on, a request that has begun goes on, jobs
\* are taken, Paystack settles and delivers until an event is processed.
Fairness ==
    /\ WF_vars(WeeklyRun)
    /\ \A h \in Handler : WF_vars(RequestStep(h))
    /\ \A w \in Worker : WF_vars(WorkerStep(w))
    /\ \A m \in Settlement : WF_vars(SettleTransfer(m))
    /\ \A k \in Hook : WF_vars(HookStep(k))

FairSpec == Spec /\ Fairness

-----------------------------------------------------------------------------
(***************************************************************************)
(* The company gets no installment's money twice: whatever generations     *)
(* overlap and however often transfers are retried, at most one transfer   *)
(* of the settlements that have a line of it has arrived and stayed (the   *)
(* unique installmentId, one Paystack reference per settlement).           *)
(***************************************************************************)
PaidOutOnce ==
    \A i \in Installment, m, n \in Settlement :
        <<i, m>> \in lines /\ <<i, n>> \in lines =>
            /\ arrived[m] \in {0, 1}
            /\ arrived[m] = 1 /\ arrived[n] = 1 => m = n

(***************************************************************************)
(* A settlement is TRANSFER_SUCCESS only on Paystack's word: "That final   *)
(* authority belongs entirely to the verified Paystack webhook".           *)
(***************************************************************************)
SuccessWasConfirmed ==
    \A m \in Settlement : status[m] = "TRANSFER_SUCCESS" =>
        \E e \in events : e.settlement = m /\ e.kind = "success"

\* Nothing is left to be done about the settlement's transfer.
AtRest(m) ==
    /\ ~InHand(m) /\ ~AtSave(m)
    /\ \A e \in events : e.settlement = m => e \in processed

Where(m) == CASE transfer[m] = "pending" -> "transit"
              [] transfer[m] = "success" -> "bank"
              [] OTHER -> "payable"

(***************************************************************************)
(* Retries, failures and reversals leave the books where the money is and  *)
(* the status to match, though all transfers of a settlement are booked    *)
(* under the same references; only the mishaps can make them part.         *)
(***************************************************************************)
BooksFollowMoney ==
    \A m \in Settlement \ upset : AtRest(m) =>
        /\ books[m] = [a \in Account |-> IF a = Where(m) THEN 1 ELSE 0]
        /\ transfer[m] = "success" <=> status[m] = "TRANSFER_SUCCESS"


\* A transfer that was initiated comes to an end, unless a crash loses its job or
\* a mishap its transferCode.
TransferEnds ==
    \A m \in Settlement : status[m] = "TRANSFER_INITIATED" ~>
        status[m] # "TRANSFER_INITIATED" \/ m \in upset \/ crashes > 0

\* "a bank account added after generation still gets paid automatically": Paystack
\* is at least asked for the transfer, unless a crash loses the job.
BankedIsSent ==
    \A m \in Settlement : bank /\ status[m] = "APPROVED" ~>
        \/ \E w \in Worker : worker[w].pc = "call" /\ worker[w].job.settlement = m
        \/ crashes > 0
=============================================================================
