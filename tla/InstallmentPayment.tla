-------------------------- MODULE InstallmentPayment --------------------------
(***************************************************************************)
(* Paying the installments of one financing contract, from the check that  *)
(* an installment is payable to the completion of the contract: the        *)
(* payment intents of PaymentIntent, Paystack's charge.success webhook,    *)
(* the payment queue and its worker, and the reminder job that moves       *)
(* installments to DUE and OVERDUE.                                        *)
(*                                                                         *)
(* The reservation keys are the installments, numbered by sequence.  The   *)
(* webhook, the worker and its "failed" listener take the place of the     *)
(* Settle of PaymentIntent.  The payment transaction is one action at its  *)
(* commit, but for markSuccess, which it calls on the global client:       *)
(* that commits on its own just before, and stays where the transaction    *)
(* is rolled back.                                                         *)
(*                                                                         *)
(* Contracts are ACTIVE when the first installment becomes payable; what   *)
(* only a DEFAULTED contract can undergo is left out, as nothing defaults  *)
(* one.                                                                    *)
(***************************************************************************)
EXTENDS Integers, FiniteSets

CONSTANTS Intent, Key, Request, Sweeper, NoIntent, NoKey,
          MaxOpened, MaxRecovery, MaxCrash, Timely,
          Hook,         \* webhook handlers
          Worker,       \* concurrent jobs of the payment worker
          JobAttempts,  \* attempts of a payment job
          MaxFault,     \* bound: deaths, stalls and aborts in a behaviour
          Swift         \* nobody pays between a markSuccess and its commit

ASSUME InstallmentPaymentAssumption ==
    /\ Key \subseteq Nat
    /\ Key # {}
    /\ NoIntent \notin Intent
    /\ NoKey \notin Key
    /\ MaxOpened \in Nat
    /\ MaxRecovery \in Nat
    /\ MaxCrash \in Nat
    /\ Timely \in BOOLEAN
    /\ JobAttempts \in Nat \ {0}
    /\ MaxFault \in Nat
    /\ Swift \in BOOLEAN

\* The installment flow never initialises a held intent again.
ReplayKey == {}

VARIABLES
    status, key, reference, lapsed, stale, claimed, attempts,
    opened, req, sweep, links, charged, crashes,
    istatus,    \* Installment.status
    contract,   \* FinancingContract.status
    checked,    \* the installment a request has found payable
    processed,  \* charges whose WebhookEvent row is marked processed
    hook,       \* what each webhook handler is doing
    job,        \* the payment job of each reference (jobId = reference)
    worker,     \* what each worker slot is doing
    booked,     \* references with a SUCCESS Payment, its commission and entries
    twice,      \* installments that were booked when they were paid already
    died,       \* webhook handlers and workers that have died so far
    stalls,     \* stalls so far
    aborts      \* aborts so far

PI == INSTANCE PaymentIntent

intentVars == <<status, key, reference, lapsed, stale, claimed, attempts,
                opened, req, sweep, links, charged, crashes>>
rowVars == <<status, key, reference, lapsed, stale, claimed, attempts>>
books == <<istatus, contract, booked, twice>>
faults == <<died, stalls, aborts>>
payVars == <<books, checked, processed, hook, job, worker, faults>>
vars == <<intentVars, payVars>>

Reference == Intent \X (1 .. MaxOpened)
Unpaid == {"PENDING", "DUE", "OVERDUE"}

NoJob == [state |-> "none", left |-> 0]
IdleHook == [pc |-> "idle"]
IdleWorker == [pc |-> "idle"]

TypeOK ==
    /\ PI!TypeOK
    /\ istatus \in [Key -> Unpaid \cup {"PAID"}]
    /\ contract \in {"ACTIVE", "COMPLETED"}
    /\ checked \in [Request -> Key \cup {NoKey}]
    /\ processed \subseteq Reference
    /\ hook \in [Hook -> [pc: {"charge", "enqueue", "done"}, ref: Reference]
                         \cup {IdleHook}]
    /\ job \in [Reference -> [state: {"none", "waiting", "active", "failed"},
                              left: 0 .. JobAttempts]]
    /\ worker \in [Worker ->
           [pc: {"read", "stale", "verify", "apply", "commit", "completing",
                 "fail", "exhausted"},
            ref: Reference, completes: BOOLEAN, lost: BOOLEAN] \cup {IdleWorker}]
    /\ booked \subseteq Reference
    /\ twice \subseteq Key
    /\ died \in 0 .. MaxFault
    /\ stalls \in 0 .. MaxFault
    /\ aborts \in 0 .. MaxFault

Init ==
    /\ PI!Init
    /\ istatus = [k \in Key |-> "PENDING"]
    /\ contract = "ACTIVE"
    /\ checked = [r \in Request |-> NoKey]
    /\ processed = {}
    /\ hook = [h \in Hook |-> IdleHook]
    /\ job = [ref \in Reference |-> NoJob]
    /\ worker = [w \in Worker |-> IdleWorker]
    /\ booked = {}
    /\ twice = {}
    /\ died = 0
    /\ stalls = 0
    /\ aborts = 0

InstallmentOf(ref) == key[ref[1]]

\* findByReference: the intent is found while the reference is its own.
Found(ref) == reference[ref[1]] = ref[2]

-----------------------------------------------------------------------------
(* The customer and the calendar.                                          *)

\* The first half of initializeInstallmentPayment: the installment is not PAID,
\* its contract is ACTIVE, and it is the first of the contract that is not PAID.
CheckPayable(r, k) ==
    /\ req[r].pc = "idle" /\ checked[r] = NoKey
    /\ contract = "ACTIVE"
    /\ istatus[k] # "PAID"
    /\ \A j \in Key : j < k => istatus[j] = "PAID"
    /\ checked' = [checked EXCEPT ![r] = k]
    /\ UNCHANGED <<intentVars, books, processed, hook, job, worker, faults>>

\* The second half, which does not look at the installment again.
ReserveChecked(r) ==
    /\ checked[r] # NoKey
    /\ PI!Reserve(r, checked[r])
    /\ checked' = [checked EXCEPT ![r] = NoKey]
    /\ UNCHANGED <<books, processed, hook, job, worker, faults>>

\* An open payment transaction holds the lock of its installment's row.
Locked(k) == \E w \in Worker :
                worker[w].pc = "commit" /\ InstallmentOf(worker[w].ref) = k

\* What the payment-intent service and the payer do meanwhile.  A checkout takes
\* longer than a commit.
IntentStep ==
    /\ \/ \E r \in Request : PI!RequestStep(r) \/ PI!CrashRequest(r)
       \/ \E s \in Sweeper : PI!Claim(s) \/ PI!SweepStep(s)
       \/ \E i \in Intent : PI!GrowStale(i) \/ PI!Lapse(i) \/ PI!LeaseEnds(i)
       \/ \E i \in Intent, n \in 1 .. MaxOpened :
            /\ Swift => ~Locked(key[i])
            /\ PI!Pay(i, n)
    /\ UNCHANGED payVars

\* transitionInstallmentStatuses: due dates come in the order of the sequence.
FallDue(k) ==
    /\ contract = "ACTIVE"
    /\ ~Locked(k)
    /\ \/ /\ istatus[k] = "PENDING"
          /\ \A j \in Key : j < k => istatus[j] # "PENDING"
          /\ istatus' = [istatus EXCEPT ![k] = "DUE"]
       \/ /\ istatus[k] = "DUE"
          /\ istatus' = [istatus EXCEPT ![k] = "OVERDUE"]
    /\ UNCHANGED <<intentVars, contract, booked, twice, checked, processed,
                   hook, job, worker, faults>>

-----------------------------------------------------------------------------
(* The charge.success webhook.                                             *)

\* A charge is delivered until it is marked processed.
DeliverCharge(h, ref) ==
    /\ hook[h].pc = "idle"
    /\ ref \in charged \ processed
    /\ hook' = [hook EXCEPT ![h] = [pc |-> "charge", ref |-> ref]]
    /\ UNCHANGED <<intentVars, books, checked, processed, job, worker, faults>>

\* Defect: an intent that is PROCESSING already is taken for a duplicate.
MarkChargeOnce(h) ==
    /\ hook[h].pc = "charge"
    /\ LET ref == hook[h].ref IN
       /\ PI!Mark(ref[1], "PROCESSING")
       /\ hook' = [hook EXCEPT ![h] =
                     IF status[ref[1]] = "PROCESSING" THEN [@ EXCEPT !.pc = "done"]
                     ELSE IF PI!Open(ref[1]) THEN [@ EXCEPT !.pc = "enqueue"]
                     ELSE IdleHook]
    /\ UNCHANGED <<opened, req, sweep, links, charged, crashes, books, checked,
                   processed, job, worker, faults>>

\* Defect: the webhook takes the charge for the end of the matter.
MarkChargeSuccess(h) ==
    /\ hook[h].pc = "charge"
    /\ PI!Mark(hook[h].ref[1], "SUCCESS")
    /\ hook' = [hook EXCEPT ![h].pc = "enqueue"]
    /\ UNCHANGED <<opened, req, sweep, links, charged, crashes, books, checked,
                   processed, job, worker, faults>>

\* findByReference and markProcessing.  A charge without an intent is dropped; the
\* ConflictError of an ended intent is answered with 500, for Paystack to retry.
MarkCharge(h) ==
    /\ hook[h].pc = "charge"
    /\ LET ref == hook[h].ref IN
       \/ /\ Found(ref)
          /\ PI!Mark(ref[1], "PROCESSING")
          /\ hook' = [hook EXCEPT ![h] = IF PI!Open(ref[1])
                                         THEN [@ EXCEPT !.pc = "enqueue"]
                                         ELSE IdleHook]
       \/ /\ ~Found(ref)
          /\ hook' = [hook EXCEPT ![h].pc = "done"]
          /\ UNCHANGED rowVars
    /\ UNCHANGED <<opened, req, sweep, links, charged, crashes, books, checked,
                   processed, job, worker, faults>>

\* paymentQueue.add: the job id is the reference, so a job that exists already,
\* failed ones included, makes it a no-op.  Completed jobs are removed.
EnqueueCharge(h) ==
    /\ hook[h].pc = "enqueue"
    /\ LET ref == hook[h].ref IN
       job' = IF job[ref].state = "none"
              THEN [job EXCEPT ![ref] = [state |-> "waiting", left |-> JobAttempts]]
              ELSE job
    /\ hook' = [hook EXCEPT ![h].pc = "done"]
    /\ UNCHANGED <<intentVars, books, checked, processed, worker, faults>>

MarkChargeProcessed(h) ==
    /\ hook[h].pc = "done"
    /\ processed' = processed \cup {hook[h].ref}
    /\ hook' = [hook EXCEPT ![h] = IdleHook]
    /\ UNCHANGED <<intentVars, books, checked, job, worker, faults>>

CrashHook(h) ==
    /\ died + stalls + aborts < MaxFault
    /\ hook[h].pc # "idle"
    /\ died' = died + 1
    /\ hook' = [hook EXCEPT ![h] = IdleHook]
    /\ UNCHANGED <<intentVars, books, checked, processed, job, worker, stalls, aborts>>

HookStep(h) == MarkCharge(h) \/ EnqueueCharge(h) \/ MarkChargeProcessed(h)

-----------------------------------------------------------------------------
(* The payment worker.                                                     *)

\* A step of a worker from one place of its handler to the next.
Moves(w, from, to) ==
    /\ worker[w].pc = from
    /\ worker' = [worker EXCEPT ![w].pc = to]

TakeJob(w) ==
    /\ worker[w].pc = "idle"
    /\ \E ref \in Reference :
         /\ job[ref].state = "waiting"
         /\ job' = [job EXCEPT ![ref].state = "active"]
         /\ worker' = [worker EXCEPT ![w] =
              [pc |-> "read", ref |-> ref, completes |-> FALSE, lost |-> FALSE]]
    /\ UNCHANGED <<intentVars, books, checked, processed, hook, faults>>

\* Defect: no shortcut for an installment that is PAID.
ReadNothing(w) ==
    /\ Moves(w, "read", "verify")
    /\ UNCHANGED <<intentVars, books, checked, processed, hook, job, faults>>

ReadInstallment(w) ==
    /\ \/ Moves(w, "read", "stale") /\ istatus[InstallmentOf(worker[w].ref)] = "PAID"
       \/ Moves(w, "read", "verify") /\ istatus[InstallmentOf(worker[w].ref)] # "PAID"
    /\ UNCHANGED <<intentVars, books, checked, processed, hook, job, faults>>

\* The shortcut of an installment that is PAID: the intent succeeded as well.
MarkStale(w) ==
    /\ Moves(w, "stale", "completing")
    /\ IF Found(worker[w].ref) THEN PI!Mark(worker[w].ref[1], "SUCCESS")
                               ELSE UNCHANGED rowVars
    /\ UNCHANGED <<opened, req, sweep, links, charged, crashes, books, checked,
                   processed, hook, job, faults>>

\* findByReference and verifyPaystack, which may fail for reasons of its own.
Verify(w) ==
    /\ \/ Moves(w, "verify", "apply") /\ Found(worker[w].ref)
       \/ Moves(w, "verify", "fail")
    /\ UNCHANGED <<intentVars, books, checked, processed, hook, job, faults>>

\* Defect: the query for PENDING installments runs outside the transaction and
\* finds the one just paid.
MarkAppliedOutside(w) ==
    /\ worker[w].pc = "apply"
    /\ worker[w].ref \notin booked
    /\ ~Locked(InstallmentOf(worker[w].ref))
    /\ PI!Mark(worker[w].ref[1], "SUCCESS")
    /\ worker' = [worker EXCEPT ![w].pc = "commit",
                    ![w].completes = \A j \in Key : istatus[j] # "PENDING"]
    /\ UNCHANGED <<opened, req, sweep, links, charged, crashes, books, checked,
                   processed, hook, job, faults>>

\* The transaction up to its markSuccess: a second Payment of the reference is
\* refused (idempotencyKey is unique), the installment's row is locked, and the
\* contract completes when no other installment is PENDING.
MarkApplied(w) ==
    /\ worker[w].pc = "apply"
    /\ LET ref == worker[w].ref
           k == InstallmentOf(ref)
       IN /\ ~Locked(k)
          /\ \/ /\ ref \notin booked
                /\ PI!Mark(ref[1], "SUCCESS")
                /\ worker' = [worker EXCEPT ![w].pc = "commit",
                     ![w].completes = \A j \in Key \ {k} : istatus[j] # "PENDING"]
             \/ /\ ref \in booked
                /\ worker' = [worker EXCEPT ![w].pc = "fail"]
                /\ UNCHANGED rowVars
    /\ UNCHANGED <<opened, req, sweep, links, charged, crashes, books, checked,
                   processed, hook, job, faults>>

Commit(w) ==
    /\ Moves(w, "commit", "completing")
    /\ LET ref == worker[w].ref
           k == InstallmentOf(ref)
       IN /\ booked' = booked \cup {ref}
          /\ twice' = IF istatus[k] = "PAID" THEN twice \cup {k} ELSE twice
          /\ istatus' = [istatus EXCEPT ![k] = "PAID"]
          /\ contract' = IF worker[w].completes THEN "COMPLETED" ELSE contract
    /\ UNCHANGED <<intentVars, checked, processed, hook, job, faults>>

\* Defect: the installment is updated on the global client as well.
AbortPartly(w) ==
    /\ died + stalls + aborts < MaxFault
    /\ Moves(w, "commit", "fail")
    /\ aborts' = aborts + 1
    /\ istatus' = [istatus EXCEPT ![InstallmentOf(worker[w].ref)] = "PAID"]
    /\ UNCHANGED <<intentVars, contract, booked, twice, checked, processed, hook,
                   job, died, stalls>>

\* The transaction is rolled back after its markSuccess: it timed out, or the
\* database or the process was lost.
Abort(w) ==
    /\ died + stalls + aborts < MaxFault
    /\ Moves(w, "commit", "fail")
    /\ aborts' = aborts + 1
    /\ UNCHANGED <<intentVars, books, checked, processed, hook, job, died, stalls>>

\* The notification comes after the transaction and may fail the job yet.  A
\* worker that lost the lock of its job changes nothing of it.
CompleteJob(w) ==
    /\ \/ Moves(w, "completing", "fail") /\ UNCHANGED job
       \/ /\ worker[w].pc = "completing"
          /\ worker' = [worker EXCEPT ![w] = IdleWorker]
          /\ job' = IF worker[w].lost THEN job
                    ELSE [job EXCEPT ![worker[w].ref] = NoJob]
    /\ UNCHANGED <<intentVars, books, checked, processed, hook, faults>>

\* Defect: attempts are counted down past the last one.
FailWithoutEnd(w) ==
    /\ worker[w].pc = "fail"
    /\ worker' = [worker EXCEPT ![w] = IdleWorker]
    /\ job' = [job EXCEPT ![worker[w].ref] = [state |-> "waiting", left |-> @.left - 1]]
    /\ UNCHANGED <<intentVars, books, checked, processed, hook, faults>>

FailAttempt(w) ==
    /\ worker[w].pc = "fail"
    /\ LET ref == worker[w].ref IN
       \/ /\ worker[w].lost
          /\ worker' = [worker EXCEPT ![w] = IdleWorker]
          /\ UNCHANGED job
       \/ /\ ~worker[w].lost
          /\ job[ref].left > 1
          /\ worker' = [worker EXCEPT ![w] = IdleWorker]
          /\ job' = [job EXCEPT ![ref] = [state |-> "waiting", left |-> @.left - 1]]
       \/ /\ ~worker[w].lost
          /\ job[ref].left = 1
          /\ worker' = [worker EXCEPT ![w].pc = "exhausted"]
          /\ job' = [job EXCEPT ![ref] = [state |-> "failed", left |-> 0]]
    /\ UNCHANGED <<intentVars, books, checked, processed, hook, faults>>

\* Defect: the listener does not look at the status of the intent.
MarkChargeFailedBlindly(w) ==
    /\ worker[w].pc = "exhausted"
    /\ status' = [status EXCEPT ![worker[w].ref[1]] = "FAILED"]
    /\ worker' = [worker EXCEPT ![w] = IdleWorker]
    /\ UNCHANGED <<key, reference, lapsed, stale, claimed, attempts, opened, req,
                   sweep, links, charged, crashes, books, checked, processed, hook,
                   job, faults>>

\* The "failed" listener after the last attempt.
MarkChargeFailed(w) ==
    /\ worker[w].pc = "exhausted"
    /\ IF Found(worker[w].ref) THEN PI!MarkEnded(worker[w].ref[1], "FAILED")
                               ELSE UNCHANGED rowVars
    /\ worker' = [worker EXCEPT ![w] = IdleWorker]
    /\ UNCHANGED <<opened, req, sweep, links, charged, crashes, books, checked,
                   processed, hook, job, faults>>

\* A job whose lock was not renewed goes to another worker while this one runs on.
Stall(w) ==
    /\ died + stalls + aborts < MaxFault
    /\ worker[w].pc \notin {"idle", "exhausted"} /\ ~worker[w].lost
    /\ stalls' = stalls + 1
    /\ job' = [job EXCEPT ![worker[w].ref].state = "waiting"]
    /\ worker' = [worker EXCEPT ![w].lost = TRUE]
    /\ UNCHANGED <<intentVars, books, checked, processed, hook, died, aborts>>

\* The process ends; its job stalls and is taken again, its listener is not.  (One
\* that ends with its transaction open is an Abort first.)
CrashWorker(w) ==
    /\ died + stalls + aborts < MaxFault
    /\ worker[w].pc \notin {"idle", "commit"}
    /\ died' = died + 1
    /\ job' = IF worker[w].pc = "exhausted" \/ worker[w].lost THEN job
              ELSE [job EXCEPT ![worker[w].ref].state = "waiting"]
    /\ worker' = [worker EXCEPT ![w] = IdleWorker]
    /\ UNCHANGED <<intentVars, books, checked, processed, hook, stalls, aborts>>

WorkerStep(w) == \/ TakeJob(w) \/ ReadInstallment(w) \/ MarkStale(w) \/ Verify(w)
                 \/ MarkApplied(w) \/ Commit(w) \/ CompleteJob(w)
                 \/ FailAttempt(w) \/ MarkChargeFailed(w)

Next ==
    \/ IntentStep
    \/ \E r \in Request : ReserveChecked(r) \/ \E k \in Key : CheckPayable(r, k)
    \/ \E k \in Key : FallDue(k)
    \/ \E h \in Hook : \/ HookStep(h) \/ CrashHook(h)
                       \/ \E ref \in charged : DeliverCharge(h, ref)
    \/ \E w \in Worker : WorkerStep(w) \/ Abort(w) \/ Stall(w) \/ CrashWorker(w)

Spec == Init /\ [][Next]_vars

\* Handlers and jobs go on, and Paystack delivers every charge again and again
\* until it is processed, whatever becomes of the others.
Fairness ==
    /\ PI!Fairness
    /\ \A h \in Hook : WF_vars(HookStep(h))
    /\ \A ref \in Reference : SF_vars(\E h \in Hook : DeliverCharge(h, ref))
    /\ \A w \in Worker : WF_vars(WorkerStep(w))

FairSpec == Spec /\ Fairness

-----------------------------------------------------------------------------
(* What must hold.                                                         *)

\* The payment path treats intents as PaymentIntent allows: the marks of the
\* webhook, the worker and its listener are its Settle, on charges whose link is
\* still the intent's, and no other action of theirs touches an intent.
KeepsIntentRules == PI!Spec

\* "reference + idempotencyKey prevents double-processing": no installment is
\* booked twice, with a second commission and a second set of ledger entries.
BookedOnce == twice = {}

\* What the code keeps of it, as long as nobody pays between a markSuccess and
\* its commit: only a job that ran twice at a time, or a transaction lost after
\* its markSuccess had freed the key, can book an installment twice.
BookedOnceInCalm == twice # {} => stalls + aborts > 0

\* An intent is SUCCESS only if its installment is paid, or a transaction that
\* pays it is about to commit, or one was lost.
SuccessIsPaid ==
    \A i \in Intent : status[i] = "SUCCESS" =>
        \/ istatus[key[i]] = "PAID"
        \/ Locked(key[i])
        \/ aborts > 0

\* An installment is PAID exactly when a charge of it is booked: a commission and
\* entries, and money the payer has paid.
PaidIsBooked ==
    \A k \in Key : istatus[k] = "PAID" <=>
        \E ref \in booked \cap charged : InstallmentOf(ref) = k

\* "If all installments paid", one direction: a contract that is paid up is
\* COMPLETED, by the very commit that pays its last installment.
PaidUpIsCompleted ==
    (\A k \in Key : istatus[k] = "PAID") => contract = "COMPLETED"

\* The other direction: a contract is COMPLETED only when it is paid up.
CompletedIsPaidUp ==
    contract = "COMPLETED" => \A k \in Key : istatus[k] = "PAID"

\* A charge that was taken up comes to an end and frees its installment, or its
\* job has failed for good and its listener was lost.
ProcessingEnds ==
    \A i \in Intent : status[i] = "PROCESSING" ~>
        \/ status[i] # "PROCESSING"
        \/ \E n \in 1 .. MaxOpened : job[<<i, n>>].state = "failed"
=============================================================================
