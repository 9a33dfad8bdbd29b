----------------------- MODULE MerchantSettlementProofs -----------------------
(***************************************************************************)
(* Theorems about MerchantSettlement for every number of installments,     *)
(* settlements, requests, handlers and workers, and every bound.           *)
(*                                                                         *)
(* The argument: an installment has a line in one settlement, because the  *)
(* transaction that writes lines fails if there is one; the money that has *)
(* arrived is that of the transfer Paystack holds under the settlement's   *)
(* one reference; and a webhook handler works on an event Paystack sent.   *)
(*                                                                         *)
(* For the books, a settlement no mishap has met has one task at most -    *)
(* about to be enqueued, in the queue or at a worker -, events are handled *)
(* one at a time and in the order of what they tell, and what is booked is *)
(* what the applied events of the latest transfer say (BooksInv).          *)
(***************************************************************************)
EXTENDS MerchantSettlement, TLAPS

\* A request or run that is about to write or to enqueue knows its settlement.
ClerksKnow ==
    \A x \in Clerk : clerk[x].pc \in {"retry", "enqueue"} => clerk[x].settlement \in Settlement

\* Only Paystack's events are handled.
HooksKnow == \A k \in Hook : hook[k].pc # "idle" => hook[k].event \in events

OneLine ==
    \A i \in Installment, m, n \in Settlement :
        <<i, m>> \in lines /\ <<i, n>> \in lines => m = n

ArrivedIsHeld ==
    \A m \in Settlement :
        /\ transfer[m] # "none" => sent[m] > 0
        /\ arrived[m] = IF transfer[m] = "success" THEN 1 ELSE 0

SettlementInv ==
    /\ TypeOK /\ ClerksKnow /\ HooksKnow /\ OneLine /\ ArrivedIsHeld
    /\ SuccessWasConfirmed

LEMMA ClerkPieces ==
    /\ \A pc \in {"idle", "create", "pick", "mark", "retry", "enqueue"} :
          ClerkAt(pc) \in ClerkState
    /\ IdleClerk \in ClerkState /\ IdleClerk.pc = "idle"
    /\ \A todo \in SUBSET Settlement : ToMark(todo) \in ClerkState
    /\ \A todo \in SUBSET Settlement : ToMark(todo).pc \notin {"retry", "enqueue"}
    /\ \A x \in Clerk : AfterGeneration(x) \in ClerkState
    /\ \A x \in Clerk : AfterGeneration(x).pc \notin {"retry", "enqueue"}
BY DEF ClerkAt, IdleClerk, ToMark, AfterGeneration, ClerkState

\* A clerk that moves to a state of its own leaves the others to theirs.
LEMMA ClerkMoves ==
  ASSUME TypeOK, ClerksKnow, NEW x \in Clerk, NEW state \in ClerkState, Goto(x, state),
         state.pc \in {"retry", "enqueue"} => state.settlement \in Settlement
  PROVE  clerk' \in [Clerk -> ClerkState] /\ ClerksKnow'
BY DEF TypeOK, ClerksKnow, Goto

\* A worker at work has a job.
LEMMA WorkerHasJob ==
  ASSUME TypeOK, NEW w \in Worker, worker[w].pc # "idle"
  PROVE  /\ worker[w].job \in Job
         /\ worker[w].job.settlement \in Settlement
         /\ worker[w] = [pc |-> worker[w].pc, job |-> worker[w].job]
<1>1. worker[w] \in WorkerState
  BY DEF TypeOK
<1>2. worker[w] \in [pc: {"call", "save", "fail", "exhausted"}, job: Job]
  BY <1>1 DEF WorkerState, IdleWorker
<1> QED BY <1>2 DEF Job

LEMMA WorkerMoves ==
  ASSUME TypeOK, NEW w \in Worker,
         \/ worker' = [worker EXCEPT ![w] = IdleWorker]
         \/ worker[w].pc # "idle" /\ \E pc \in {"call", "save", "fail", "exhausted"} : At(w, pc)
         \/ \E j \in Job, pc \in {"call", "fail"} :
               worker' = [worker EXCEPT ![w] = [pc |-> pc, job |-> j]]
  PROVE  worker' \in [Worker -> WorkerState]
<1>1. CASE worker' = [worker EXCEPT ![w] = IdleWorker]
  BY <1>1 DEF TypeOK, WorkerState
<1>2. ASSUME worker[w].pc # "idle", NEW pc \in {"call", "save", "fail", "exhausted"},
             At(w, pc)
      PROVE  worker' \in [Worker -> WorkerState]
  <2>1. worker[w] \in [pc: {"call", "save", "fail", "exhausted"}, job: Job]
    BY <1>2, WorkerHasJob DEF TypeOK, WorkerState, IdleWorker
  <2>2. [worker[w] EXCEPT !.pc = pc] \in WorkerState
    BY <2>1 DEF WorkerState
  <2> QED BY <1>2, <2>2 DEF At, TypeOK
<1>3. ASSUME NEW j \in Job, NEW pc \in {"call", "fail"},
             worker' = [worker EXCEPT ![w] = [pc |-> pc, job |-> j]]
      PROVE  worker' \in [Worker -> WorkerState]
  <2>1. [pc |-> pc, job |-> j] \in WorkerState
    BY DEF WorkerState
  <2> QED BY <1>3, <2>1 DEF TypeOK
<1> QED BY <1>1, <1>2, <1>3

\* A webhook handler at work has an event that was sent.
LEMMA HookHasEvent ==
  ASSUME TypeOK, HooksKnow, NEW k \in Hook, hook[k].pc # "idle"
  PROVE  /\ hook[k] \in [pc: {"read", "apply", "done"}, event: Event]
         /\ hook[k].event \in events
         /\ hook[k].event.settlement \in Settlement
         /\ hook[k].event.kind \in Kind
<1>1. hook[k] \in [pc: {"read", "apply", "done"}, event: Event]
  BY DEF TypeOK, HookState, IdleHook
<1> QED BY <1>1 DEF HooksKnow, Event

\* A booking keeps the books' type.
LEMMA BookType ==
  ASSUME TypeOK, NEW m \in Settlement, NEW from \in Account, NEW to \in Account,
         Book(m, from, to)
  PROVE  books' \in [Settlement -> [Account -> Int]]
<1>1. books[m] \in [Account -> Int]
  BY DEF TypeOK
<1> DEFINE first == [books[m] EXCEPT ![from] = @ - 1]
<1>2. first \in [Account -> Int]
  BY <1>1
<1>3. [first EXCEPT ![to] = @ + 1] \in [Account -> Int]
  BY <1>2
<1>4. books' = [books EXCEPT ![m] = [first EXCEPT ![to] = @ + 1]]
  BY DEF Book, TypeOK
<1> QED BY <1>3, <1>4 DEF TypeOK

-----------------------------------------------------------------------------
LEMMA SettlementInit == Init => SettlementInv
<1> SUFFICES ASSUME Init PROVE SettlementInv
  OBVIOUS
<1> USE MerchantSettlementAssumption DEF Init
<1>1. TypeOK
  <2>1. clerk \in [Clerk -> ClerkState]
    BY ClerkPieces
  <2>2. worker \in [Worker -> WorkerState] /\ hook \in [Hook -> HookState]
    BY DEF WorkerState, HookState
  <2>3. books \in [Settlement -> [Account -> Int]]
    OBVIOUS
  <2>4. /\ queued \in [Settlement -> 0 .. MaxJob]
        /\ sent \in [Settlement -> 0 .. MaxSent]
        /\ crashes \in 0 .. MaxCrash
    OBVIOUS
  <2>5. /\ status \in [Settlement -> Status]
        /\ transfer \in [Settlement -> {"none", "pending"} \cup Kind]
        /\ arrived \in [Settlement -> Int]
        /\ code \in [Settlement -> BOOLEAN]
    BY DEF Status
  <2> QED BY <2>1, <2>2, <2>3, <2>4, <2>5 DEF TypeOK
<1>2. ClerksKnow /\ HooksKnow /\ OneLine /\ ArrivedIsHeld /\ SuccessWasConfirmed
  BY DEF ClerksKnow, HooksKnow, OneLine, ArrivedIsHeld, SuccessWasConfirmed,
         IdleClerk, ClerkAt, IdleHook
<1> QED BY <1>1, <1>2 DEF SettlementInv

\* What the runs and requests do: they leave the worker, Paystack and the
\* webhooks alone, and complete no settlement.
LEMMA ClerkKeepsInv ==
  ASSUME SettlementInv, NEW x \in Clerk,
         \/ ReadUnsettled(x) \/ CreateSettlement(x) \/ Enqueue(x) \/ CrashClerk(x)
         \/ x = Scheduler /\ (PickEligible \/ MarkInitiated)
         \/ MarkRetried(x) \/ \E m \in Settlement : ReadRetryable(x, m)
  PROVE  SettlementInv'
<1> USE MerchantSettlementAssumption DEF SettlementInv
<1>0. clerk[x] \in ClerkState
  BY DEF TypeOK
<1>1. CASE ReadUnsettled(x)
  <2> DEFINE next == [ClerkAt("create") EXCEPT !.batch = Unsettled]
  <2>1. next \in ClerkState /\ next.pc = "create"
    BY DEF ClerkState, ClerkAt, Unsettled, TypeOK
  <2>2. Goto(x, next) \/ Goto(x, AfterGeneration(x))
    BY <1>1 DEF ReadUnsettled
  <2> HIDE DEF next
  <2>3. clerk' \in [Clerk -> ClerkState] /\ ClerksKnow'
    BY <2>1, <2>2, ClerkMoves, ClerkPieces
  <2> QED BY <1>1, <2>3 DEF ReadUnsettled, source, rows, queue, paystack, hooks,
             TypeOK, HooksKnow, OneLine, ArrivedIsHeld, SuccessWasConfirmed
<1>2. CASE CreateSettlement(x)
  <2>1. clerk' \in [Clerk -> ClerkState] /\ ClerksKnow'
    <3>1. Goto(x, AfterGeneration(x)) \/ Goto(x, IdleClerk)
      BY <1>2 DEF CreateSettlement
    <3> QED BY <3>1, ClerkMoves, ClerkPieces
  <2>2. clerk[x].batch \subseteq Installment
    BY <1>0 DEF ClerkState
  <2>3. CASE clerk[x].batch \subseteq Unsettled
    <3>1. PICK m \in Settlement :
             /\ status[m] = "NONE"
             /\ status' = [status EXCEPT ![m] = "APPROVED"]
             /\ lines' = lines \cup (clerk[x].batch \X {m})
      BY <1>2, <2>3 DEF CreateSettlement
    <3>2. TypeOK'
      BY <1>2, <2>1, <2>2, <3>1 DEF CreateSettlement, queue, paystack, hooks, TypeOK, Status
    <3>3. OneLine'
      BY <2>3, <3>1 DEF OneLine, Unsettled, TypeOK
    <3>4. SuccessWasConfirmed'
      BY <1>2, <3>1 DEF CreateSettlement, paystack, SuccessWasConfirmed, TypeOK
    <3> QED BY <1>2, <2>1, <3>2, <3>3, <3>4
            DEF CreateSettlement, paystack, hooks, HooksKnow, ArrivedIsHeld
  <2>4. CASE ~(clerk[x].batch \subseteq Unsettled)
    BY <1>2, <2>1, <2>4 DEF CreateSettlement, queue, paystack, hooks, TypeOK, HooksKnow,
       OneLine, ArrivedIsHeld, SuccessWasConfirmed
  <2> QED BY <2>3, <2>4
<1>3. CASE Enqueue(x)
  <2>1. clerk[x].settlement \in Settlement /\ clerk[x].todo \in SUBSET Settlement
    BY <1>0, <1>3 DEF ClerksKnow, Enqueue, ClerkState
  <2>2. clerk' \in [Clerk -> ClerkState] /\ ClerksKnow'
    BY <1>3, <2>1, ClerkMoves, ClerkPieces DEF Enqueue
  <2>3. queued[clerk[x].settlement] + 1 \in 1 .. MaxJob
    BY <1>3, <2>1 DEF Enqueue, TypeOK
  <2>4. queued' \in [Settlement -> 0 .. MaxJob] /\ jobs' \subseteq Job
    BY <1>3, <2>1, <2>3 DEF Enqueue, TypeOK, Job
  <2> QED BY <1>3, <2>2, <2>4 DEF Enqueue, source, rows, paystack, hooks, TypeOK, HooksKnow,
             OneLine, ArrivedIsHeld, SuccessWasConfirmed
<1>4. CASE CrashClerk(x)
  <2>1. clerk' \in [Clerk -> ClerkState] /\ ClerksKnow'
    BY <1>4, ClerkMoves, ClerkPieces DEF CrashClerk, IdleClerk, ClerkAt
  <2> QED BY <1>4, <2>1 DEF CrashClerk, source, rows, queue, paystack, hooks, TypeOK,
             HooksKnow, OneLine, ArrivedIsHeld, SuccessWasConfirmed
<1>5. CASE x = Scheduler /\ PickEligible
  <2>1. clerk' \in [Clerk -> ClerkState] /\ ClerksKnow'
    BY <1>5, ClerkMoves, ClerkPieces DEF PickEligible
  <2> QED BY <1>5, <2>1 DEF PickEligible, source, rows, queue, paystack, hooks, TypeOK,
             HooksKnow, OneLine, ArrivedIsHeld, SuccessWasConfirmed
<1>6. CASE x = Scheduler /\ MarkInitiated
  <2>1. PICK m \in clerk[x].todo :
           /\ status' = [status EXCEPT ![m] = "TRANSFER_INITIATED"]
           /\ Goto(x, [clerk[x] EXCEPT
                         !.pc = "enqueue", !.todo = @ \ {m}, !.settlement = m])
    BY <1>6 DEF MarkInitiated
  <2>2. m \in Settlement
    BY <1>0 DEF ClerkState
  <2> DEFINE next == [clerk[x] EXCEPT !.pc = "enqueue", !.todo = @ \ {m}, !.settlement = m]
  <2>3. next \in ClerkState /\ next.settlement = m
    BY <1>0, <2>2 DEF ClerkState
  <2> HIDE DEF next
  <2>4. clerk' \in [Clerk -> ClerkState] /\ ClerksKnow'
    BY <2>1, <2>2, <2>3, ClerkMoves DEF next
  <2> QED BY <1>6, <2>1, <2>2, <2>4 DEF MarkInitiated, source, queue, paystack, hooks,
             TypeOK, Status, HooksKnow, OneLine, ArrivedIsHeld, SuccessWasConfirmed
<1>7. CASE MarkRetried(x)
  <2>1. clerk[x].settlement \in Settlement
    BY <1>7 DEF MarkRetried, ClerksKnow
  <2> DEFINE next == [clerk[x] EXCEPT !.pc = "enqueue"]
  <2>2. next \in ClerkState /\ next.settlement \in Settlement
    BY <1>0, <2>1 DEF ClerkState
  <2> HIDE DEF next
  <2>3. clerk' \in [Clerk -> ClerkState] /\ ClerksKnow'
    BY <1>7, <2>2, ClerkMoves DEF next, MarkRetried
  <2> QED BY <1>7, <2>1, <2>3 DEF MarkRetried, source, queue, paystack, hooks,
             TypeOK, Status, HooksKnow, OneLine, ArrivedIsHeld, SuccessWasConfirmed
<1>8. ASSUME NEW m \in Settlement, ReadRetryable(x, m) PROVE SettlementInv'
  <2> DEFINE next == [ClerkAt("retry") EXCEPT !.settlement = m]
  <2>1. next \in ClerkState /\ next.settlement = m
    BY DEF ClerkState, ClerkAt
  <2> HIDE DEF next
  <2>2. clerk' \in [Clerk -> ClerkState] /\ ClerksKnow'
    BY <1>8, <2>1, ClerkMoves DEF next, ReadRetryable
  <2> QED BY <1>8, <2>2 DEF ReadRetryable, source, rows, queue, paystack, hooks, TypeOK,
             HooksKnow, OneLine, ArrivedIsHeld, SuccessWasConfirmed
<1> QED BY <1>1, <1>2, <1>3, <1>4, <1>5, <1>6, <1>7, <1>8

\* What the transfer worker does: only an accepted transfer changes Paystack.
LEMMA WorkerKeepsInv ==
  ASSUME SettlementInv, NEW w \in Worker, WorkerStep(w) \/ CrashWorker(w)
  PROVE  SettlementInv'
<1> USE MerchantSettlementAssumption DEF SettlementInv
<1>1. CASE TakeJob(w)
  <2>1. worker' \in [Worker -> WorkerState]
    <3>1. CASE UNCHANGED worker
      BY <3>1 DEF TypeOK
    <3>2. CASE ~UNCHANGED worker
      BY <1>1, <3>2, WorkerMoves DEF TakeJob, TypeOK
    <3> QED BY <3>1, <3>2
  <2> QED BY <1>1, <2>1 DEF TakeJob, source, rows, paystack, hooks, TypeOK, ClerksKnow,
             HooksKnow, OneLine, ArrivedIsHeld, SuccessWasConfirmed
<1>2. CASE CallPaystack(w)
  <2> DEFINE m == worker[w].job.settlement
  <2>1. m \in Settlement
    BY <1>2, WorkerHasJob DEF CallPaystack
  <2> HIDE DEF m
  <2>2. worker' \in [Worker -> WorkerState]
    BY <1>2, WorkerMoves DEF CallPaystack
  <2>3. CASE UNCHANGED <<transfer, sent, upset>>
    BY <1>2, <2>2, <2>3 DEF CallPaystack, source, rows, queue, hooks, TypeOK, ClerksKnow,
       HooksKnow, OneLine, ArrivedIsHeld, SuccessWasConfirmed
  <2>4. CASE ~UNCHANGED <<transfer, sent, upset>>
    <3>1. /\ transfer[m] \notin {"pending", "success"}
          /\ sent[m] < MaxSent
          /\ transfer' = [transfer EXCEPT ![m] = "pending"]
          /\ sent' = [sent EXCEPT ![m] = @ + 1]
          /\ upset' \in {upset, upset \cup {m}}
      BY <1>2, <2>4 DEF CallPaystack, m
    <3>2. TypeOK'
      BY <1>2, <2>1, <2>2, <3>1 DEF CallPaystack, source, rows, queue, hooks, TypeOK
    <3>3. ArrivedIsHeld'
      BY <1>2, <2>1, <3>1 DEF CallPaystack, ArrivedIsHeld, TypeOK
    <3> QED BY <1>2, <3>2, <3>3 DEF CallPaystack, source, rows, hooks, ClerksKnow,
               HooksKnow, OneLine, SuccessWasConfirmed
  <2> QED BY <2>3, <2>4
<1>3. CASE SaveCode(w)
  <2> DEFINE m == worker[w].job.settlement
  <2>1. m \in Settlement
    BY <1>3, WorkerHasJob DEF SaveCode
  <2>2. worker' \in [Worker -> WorkerState]
    BY <1>3, WorkerMoves DEF SaveCode
  <2>3. books' \in [Settlement -> [Account -> Int]]
    BY <1>3, <2>1, BookType DEF SaveCode, Account
  <2>4. code' \in [Settlement -> BOOLEAN]
    BY <1>3, <2>1 DEF SaveCode, TypeOK
  <2> QED BY <1>3, <2>2, <2>3, <2>4 DEF SaveCode, source, queue, paystack, hooks, TypeOK,
             ClerksKnow, HooksKnow, OneLine, ArrivedIsHeld, SuccessWasConfirmed
<1>4. CASE FailAttempt(w)
  <2>1. worker[w].job \in Job
    BY <1>4, WorkerHasJob DEF FailAttempt
  <2>2. worker' \in [Worker -> WorkerState]
    BY <1>4, WorkerMoves DEF FailAttempt
  <2>3. jobs' \subseteq Job
    <3>1. CASE UNCHANGED jobs
      BY <3>1 DEF TypeOK
    <3>2. CASE worker[w].job.left > 1
      <4>1. [worker[w].job EXCEPT !.left = @ - 1] \in Job
        BY <2>1, <3>2 DEF Job
      <4> QED BY <1>4, <4>1 DEF FailAttempt, TypeOK
    <3> QED BY <1>4, <3>1, <3>2 DEF FailAttempt
  <2> QED BY <1>4, <2>2, <2>3 DEF FailAttempt, source, rows, paystack, hooks, TypeOK,
             ClerksKnow, HooksKnow, OneLine, ArrivedIsHeld, SuccessWasConfirmed
<1>5. CASE MarkTransferFailed(w)
  <2>1. worker[w].job.settlement \in Settlement
    BY <1>5, WorkerHasJob DEF MarkTransferFailed
  <2>2. worker' \in [Worker -> WorkerState]
    BY <1>5, WorkerMoves DEF MarkTransferFailed
  <2> QED BY <1>5, <2>1, <2>2 DEF MarkTransferFailed, source, queue, paystack, hooks,
             TypeOK, Status, Retryable, ClerksKnow, HooksKnow, OneLine, ArrivedIsHeld,
             SuccessWasConfirmed
<1>6. CASE CrashWorker(w)
  <2>1. worker[w].job \in Job /\ worker[w].job.settlement \in Settlement
    BY <1>6, WorkerHasJob DEF CrashWorker
  <2>2. worker' \in [Worker -> WorkerState]
    BY <1>6, WorkerMoves DEF CrashWorker
  <2> QED BY <1>6, <2>1, <2>2 DEF CrashWorker, source, rows, paystack, hooks, TypeOK,
             ClerksKnow, HooksKnow, OneLine, ArrivedIsHeld, SuccessWasConfirmed
<1> QED BY <1>1, <1>2, <1>3, <1>4, <1>5, <1>6 DEF WorkerStep

\* Paystack settles a transfer it holds.
LEMMA PaystackKeepsInv ==
  ASSUME SettlementInv, NEW m \in Settlement, SettleTransfer(m)
  PROVE  SettlementInv'
<1> USE MerchantSettlementAssumption DEF SettlementInv
<1>1. PICK to \in Kind : /\ Emit(m, to)
                         /\ to \in {"success", "failed"} => transfer[m] = "pending"
                         /\ to = "reversed" => transfer[m] = "success"
  BY DEF SettleTransfer, Kind
<1>2. sent[m] \in 1 .. MaxSent
  BY <1>1 DEF ArrivedIsHeld, TypeOK, Kind
<1>3. [settlement |-> m, n |-> sent[m], kind |-> to] \in Event
  BY <1>2 DEF Event
<1>4. ArrivedIsHeld'
  BY <1>1 DEF ArrivedIsHeld, TypeOK, Emit, Kind, SettleTransfer
<1>5. TypeOK'
  <2>1. arrived' \in [Settlement -> Int]
    BY <1>1 DEF Emit, TypeOK, Kind
  <2> QED BY <1>1, <1>3, <2>1 DEF SettleTransfer, Emit, source, rows, queue, hooks, TypeOK
<1> QED BY <1>1, <1>4, <1>5 DEF SettleTransfer, Emit, source, rows, hooks, ClerksKnow,
           HooksKnow, OneLine, SuccessWasConfirmed

\* What the webhook handlers do.
LEMMA HookKeepsInv ==
  ASSUME SettlementInv, NEW k \in Hook, HookStep(k) \/ CrashHook(k)
  PROVE  SettlementInv'
<1> USE MerchantSettlementAssumption DEF SettlementInv
<1>1. ASSUME NEW e \in events, Deliver(k, e) PROVE SettlementInv'
  <2>1. e \in Event /\ e.settlement \in Settlement
    BY DEF TypeOK, Event
  <2>2. [pc |-> "read", event |-> e] \in HookState
    BY <2>1 DEF HookState
  <2>3. hook' \in [Hook -> HookState] /\ HooksKnow'
    BY <1>1, <2>2 DEF Deliver, HooksKnow, TypeOK, paystack
  <2> QED BY <1>1, <2>1, <2>3 DEF Deliver, source, rows, queue, paystack, TypeOK,
             ClerksKnow, OneLine, ArrivedIsHeld, SuccessWasConfirmed
<1>2. ASSUME hook[k].pc # "idle", NEW pc \in {"read", "apply", "done"},
             hook' = [hook EXCEPT ![k].pc = pc], UNCHANGED events
      PROVE  hook' \in [Hook -> HookState] /\ HooksKnow'
  <2>1. [hook[k] EXCEPT !.pc = pc] \in [pc: {"read", "apply", "done"}, event: Event]
    BY <1>2, HookHasEvent
  <2> QED BY <1>2, <2>1 DEF HookState, HooksKnow, TypeOK
<1>3. CASE ReadSettlement(k)
  <2>1. hook' \in [Hook -> HookState] /\ HooksKnow'
    BY <1>2, <1>3 DEF ReadSettlement, paystack
  <2> QED BY <1>3, <2>1 DEF ReadSettlement, source, rows, queue, paystack, TypeOK,
             ClerksKnow, OneLine, ArrivedIsHeld, SuccessWasConfirmed
<1>4. CASE ApplyEvent(k)
  <2> DEFINE m == hook[k].event.settlement
             kind == hook[k].event.kind
  <2>1. m \in Settlement /\ kind \in Kind /\ hook[k].event \in events
    BY <1>4, HookHasEvent DEF ApplyEvent
  <2>2. hook' \in [Hook -> HookState] /\ HooksKnow'
    BY <1>2, <1>4 DEF ApplyEvent, paystack
  <2>3. books' \in [Settlement -> [Account -> Int]]
    BY <1>4, <2>1, BookType DEF ApplyEvent, Kind, Account
  <2>4. status' = [status EXCEPT ![m] = StatusOf(kind)]
    BY <1>4 DEF ApplyEvent
  <2>5. StatusOf(kind) \in Status /\ (StatusOf(kind) = "TRANSFER_SUCCESS" => kind = "success")
    BY <2>1 DEF StatusOf, Kind, Status, Retryable
  <2> HIDE DEF m, kind
  <2>6. SuccessWasConfirmed'
    BY <1>4, <2>1, <2>4, <2>5 DEF ApplyEvent, paystack, SuccessWasConfirmed, TypeOK, m, kind
  <2>7. status' \in [Settlement -> Status]
    BY <2>1, <2>4, <2>5 DEF TypeOK
  <2>8. UNCHANGED <<source, code, clerk, queue, worker, paystack, processed, upset, crashes>>
    BY <1>4, Zenon DEF ApplyEvent
  <2>9. TypeOK'
    BY <2>2, <2>3, <2>7, <2>8 DEF source, queue, paystack, TypeOK
  <2>10. ClerksKnow' /\ OneLine' /\ ArrivedIsHeld'
    BY <2>8 DEF source, queue, paystack, ClerksKnow, OneLine, ArrivedIsHeld
  <2> QED BY <2>2, <2>6, <2>9, <2>10
<1>5. CASE MarkProcessed(k)
  <2>1. hook[k].event \in events
    BY <1>5, HookHasEvent DEF MarkProcessed
  <2>2. hook' \in [Hook -> HookState] /\ HooksKnow'
    BY <1>5 DEF MarkProcessed, paystack, TypeOK, HookState, HooksKnow, IdleHook
  <2> QED BY <1>5, <2>1, <2>2 DEF MarkProcessed, source, rows, queue, paystack, TypeOK,
             ClerksKnow, OneLine, ArrivedIsHeld, SuccessWasConfirmed
<1>6. CASE CrashHook(k)
  <2>1. hook[k].event.settlement \in Settlement
    BY <1>6, HookHasEvent DEF CrashHook
  <2>2. hook' \in [Hook -> HookState] /\ HooksKnow'
    BY <1>6 DEF CrashHook, paystack, TypeOK, HookState, HooksKnow, IdleHook
  <2> QED BY <1>6, <2>1, <2>2 DEF CrashHook, source, rows, queue, paystack, TypeOK,
             ClerksKnow, OneLine, ArrivedIsHeld, SuccessWasConfirmed
<1> QED BY <1>1, <1>3, <1>4, <1>5, <1>6 DEF HookStep

LEMMA SettlementNext == SettlementInv /\ [Next]_vars => SettlementInv'
<1> SUFFICES ASSUME SettlementInv, [Next]_vars PROVE SettlementInv'
  OBVIOUS
<1>1. ASSUME NEW i \in Installment, PayInstallment(i) PROVE SettlementInv'
  BY <1>1 DEF PayInstallment, rows, queue, paystack, hooks, SettlementInv, TypeOK,
     ClerksKnow, HooksKnow, OneLine, ArrivedIsHeld, SuccessWasConfirmed
<1>2. CASE AddBankAccount
  BY <1>2 DEF AddBankAccount, rows, queue, paystack, hooks, SettlementInv, TypeOK,
     ClerksKnow, HooksKnow, OneLine, ArrivedIsHeld, SuccessWasConfirmed
<1>3. CASE WeeklyRun
  BY <1>3, ClerkKeepsInv DEF WeeklyRun, Clerk
<1>4. ASSUME NEW h \in Handler,
             \/ RequestStep(h) \/ ReadUnsettled(h)
             \/ \E m \in Settlement : ReadRetryable(h, m)
      PROVE  SettlementInv'
  BY <1>4, ClerkKeepsInv DEF RequestStep, Clerk
<1>5. ASSUME NEW x \in Clerk, CrashClerk(x) PROVE SettlementInv'
  BY <1>5, ClerkKeepsInv
<1>6. ASSUME NEW w \in Worker, WorkerStep(w) \/ CrashWorker(w) PROVE SettlementInv'
  BY <1>6, WorkerKeepsInv
<1>7. ASSUME NEW m \in Settlement, SettleTransfer(m) PROVE SettlementInv'
  BY <1>7, PaystackKeepsInv
<1>8. ASSUME NEW k \in Hook, HookStep(k) \/ CrashHook(k) PROVE SettlementInv'
  BY <1>8, HookKeepsInv
<1>9. CASE UNCHANGED vars
  BY <1>9 DEF vars, source, rows, queue, paystack, hooks, SettlementInv, TypeOK,
     ClerksKnow, HooksKnow, OneLine, ArrivedIsHeld, SuccessWasConfirmed
<1> QED BY <1>1, <1>2, <1>3, <1>4, <1>5, <1>6, <1>7, <1>8, <1>9 DEF Next

-----------------------------------------------------------------------------
(* Where the books are.  What follows is an invariant of each settlement    *)
(* no mishap has met: the settlement has one task at most, a task has no    *)
(* accepted transfer outstanding but the one it is about to save, and what  *)
(* is booked is told by the events that have been applied.                  *)

ClerkHas(x, m) == clerk[x].pc = "enqueue" /\ clerk[x].settlement = m
JobHas(j, m) == j.settlement = m
WorkerHas(w, m) == worker[w].pc # "idle" /\ worker[w].job.settlement = m
Handles(k, m) == hook[k].pc # "idle" /\ hook[k].event.settlement = m

\* The transfer of m is still to be asked for, or to be saved.
Tasked(m) == \/ \E x \in Clerk : ClerkHas(x, m)
             \/ \E j \in jobs : JobHas(j, m)
             \/ \E w \in Worker : WorkerHas(w, m)

OneTask(m) ==
    /\ \A x, y \in Clerk : ClerkHas(x, m) /\ ClerkHas(y, m) => x = y
    /\ \A i, j \in jobs : JobHas(i, m) /\ JobHas(j, m) => i = j
    /\ \A v, w \in Worker : WorkerHas(v, m) /\ WorkerHas(w, m) => v = w
    /\ \A x \in Clerk, j \in jobs : ~(ClerkHas(x, m) /\ JobHas(j, m))
    /\ \A x \in Clerk, w \in Worker : ~(ClerkHas(x, m) /\ WorkerHas(w, m))
    /\ \A j \in jobs, w \in Worker : ~(JobHas(j, m) /\ WorkerHas(w, m))

\* An event of the transfer Paystack accepted last.
Current(m, kind) == [settlement |-> m, n |-> sent[m], kind |-> kind]

Applied(e) == e \in processed \/ \E k \in Hook : hook[k].pc = "done" /\ hook[k].event = e

BookedAt(m) ==
    IF \/ sent[m] = 0 \/ AtSave(m)
       \/ Applied(Current(m, "failed")) \/ Applied(Current(m, "reversed"))
    THEN "payable"
    ELSE IF Applied(Current(m, "success")) THEN "bank" ELSE "transit"

\* Of every settlement: what Paystack has told is what has become of it.
EventsTell(m) ==
    /\ transfer[m] = "none" <=> sent[m] = 0
    /\ \A e \in events : e.settlement = m => e.n <= sent[m]
    /\ Current(m, "success") \in events <=> transfer[m] \in {"success", "reversed"}
    /\ Current(m, "failed") \in events <=> transfer[m] = "failed"
    /\ Current(m, "reversed") \in events <=> transfer[m] = "reversed"

BooksTell(m) ==
    /\ books[m] = [a \in Account |-> IF a = BookedAt(m) THEN 1 ELSE 0]
    /\ status[m] = "TRANSFER_SUCCESS" <=> BookedAt(m) = "bank"
    /\ BookedAt(m) = "transit" => status[m] = "TRANSFER_INITIATED" /\ ~Tasked(m)

TaskTells(m) ==
    /\ OneTask(m)
    /\ Tasked(m) => status[m] = "TRANSFER_INITIATED"
    /\ AtSave(m) => sent[m] > 0 /\ \A kind \in Kind : ~Applied(Current(m, kind))

\* The weekly run works through settlements that are still approved.
ListTells(m) ==
    clerk[Scheduler].pc \in {"mark", "enqueue"} /\ m \in clerk[Scheduler].todo
        => status[m] = "APPROVED"

HandTells(m) ==
    /\ \A j, k \in Hook : Handles(j, m) /\ Handles(k, m) => j = k
    /\ \A k \in Hook : Handles(k, m) => hook[k].event \notin processed
    /\ \A k \in Hook : Handles(k, m) /\ hook[k].pc # "done" =>
          /\ hook[k].event.n = sent[m]
          /\ ~AtSave(m)
          /\ BookedAt(m) = IF hook[k].event.kind = "reversed" THEN "bank" ELSE "transit"

\* Events are applied in the order of what they tell.
OrderTells(m) ==
    /\ \A e \in events : e.settlement = m /\ e.n # sent[m] => Applied(e)
    /\ \A e \in events : /\ e.settlement = m /\ e.kind = "reversed"
                         /\ e \in processed \/ \E k \in Hook : Handles(k, m) /\ hook[k].event = e
          => [e EXCEPT !.kind = "success"] \in processed

Orderly(m) == BooksTell(m) /\ TaskTells(m) /\ ListTells(m) /\ HandTells(m) /\ OrderTells(m)

BooksInv == /\ \A m \in Settlement : EventsTell(m)
            /\ \A m \in Settlement \ upset : Orderly(m)

\* At rest, the books and the status are where the money is.
LEMMA OrderlyAtRest ==
  ASSUME SettlementInv, BooksInv PROVE BooksFollowMoney
<1> SUFFICES ASSUME NEW m \in Settlement \ upset, AtRest(m)
             PROVE  /\ books[m] = [a \in Account |-> IF a = Where(m) THEN 1 ELSE 0]
                    /\ transfer[m] = "success" <=> status[m] = "TRANSFER_SUCCESS"
  BY DEF BooksFollowMoney
<1>1. EventsTell(m) /\ BooksTell(m)
  BY DEF BooksInv, Orderly
<1>2. \A kind \in Kind : Applied(Current(m, kind)) <=> Current(m, kind) \in events
  <2> SUFFICES ASSUME NEW kind \in Kind
               PROVE  Applied(Current(m, kind)) <=> Current(m, kind) \in events
    OBVIOUS
  <2>1. Current(m, kind).settlement = m
    BY DEF Current
  <2>2. processed \subseteq events
    BY DEF SettlementInv, TypeOK
  <2> QED BY <2>1, <2>2 DEF AtRest, InHand, Applied
<1>3. transfer[m] \in {"none", "pending"} \cup Kind /\ sent[m] \in Nat
  BY MerchantSettlementAssumption DEF SettlementInv, TypeOK
<1>4. BookedAt(m) = Where(m)
  BY <1>1, <1>2, <1>3 DEF BookedAt, Where, EventsTell, AtRest, Kind
<1>5. Where(m) = "bank" <=> transfer[m] = "success"
  BY <1>3 DEF Where, Kind
<1> QED BY <1>1, <1>4, <1>5 DEF BooksTell

\* A step that leaves Paystack, the webhooks and the books of m alone.
LEMMA TaskStep ==
  ASSUME NEW m \in Settlement, Orderly(m), UNCHANGED <<events, processed, hook>>,
         sent'[m] = sent[m], books'[m] = books[m], AtSave(m)' <=> AtSave(m), OneTask(m)', ListTells(m)',
         Tasked(m)' => status'[m] = "TRANSFER_INITIATED",
         \/ status'[m] = status[m] /\ (Tasked(m)' => Tasked(m))
         \/ status'[m] # "TRANSFER_SUCCESS" /\ BookedAt(m) = "payable"
  PROVE  Orderly(m)'
<1>1. \A e : Applied(e)' <=> Applied(e)
  BY DEF Applied
<1>2. \A kind : Current(m, kind)' = Current(m, kind)
  BY DEF Current
<1>3. BookedAt(m)' = BookedAt(m)
  BY <1>1, <1>2 DEF BookedAt
<1>4. BooksTell(m)'
  BY <1>3 DEF Orderly, BooksTell
<1>5. TaskTells(m)'
  BY <1>1, <1>2 DEF Orderly, TaskTells
<1>6. HandTells(m)'
  BY <1>3 DEF Orderly, HandTells, Handles
<1>7. OrderTells(m)'
  BY <1>1 DEF Orderly, OrderTells, Handles
<1> QED BY <1>4, <1>5, <1>6, <1>7 DEF Orderly

\* A clerk moves: it has a task of m afterwards only if it had, or nobody had.
LEMMA ClerkTasks ==
  ASSUME TypeOK, NEW m \in Settlement, OneTask(m), NEW x \in Clerk, NEW state, Goto(x, state),
         UNCHANGED <<jobs, worker>>,
         state.pc = "enqueue" /\ state.settlement = m => ClerkHas(x, m) \/ ~Tasked(m)
  PROVE  /\ OneTask(m)'
         /\ AtSave(m)' <=> AtSave(m)
         /\ Tasked(m)' => Tasked(m) \/ (state.pc = "enqueue" /\ state.settlement = m)
<1>1. clerk' = [clerk EXCEPT ![x] = state] /\ DOMAIN clerk = Clerk
  BY DEF Goto, TypeOK
<1>2. \A y \in Clerk : ClerkHas(y, m)' <=> IF y = x THEN state.pc = "enqueue" /\ state.settlement = m
                                                    ELSE ClerkHas(y, m)
  BY <1>1 DEF ClerkHas
<1>3. \A w \in Worker : WorkerHas(w, m)' <=> WorkerHas(w, m)
  BY DEF WorkerHas
<1>4. AtSave(m)' <=> AtSave(m)
  BY DEF AtSave
<1>5. Tasked(m)' => Tasked(m) \/ (state.pc = "enqueue" /\ state.settlement = m)
  BY <1>2, <1>3 DEF Tasked, JobHas
<1>6. OneTask(m)'
  <2>1. CASE state.pc = "enqueue" /\ state.settlement = m /\ ~Tasked(m)
    BY <1>2, <1>3, <2>1 DEF OneTask, Tasked, JobHas
  <2>2. CASE state.pc = "enqueue" /\ state.settlement = m => ClerkHas(x, m)
    <3>1. \A y \in Clerk : ClerkHas(y, m)' => ClerkHas(y, m)
      BY <1>2, <2>2
    <3> QED BY <1>3, <3>1 DEF OneTask, JobHas
  <2> QED BY <2>1, <2>2
<1> QED BY <1>4, <1>5, <1>6

\* What the weekly run may have on its list.
LEMMA ListAfterMove ==
  ASSUME TypeOK, NEW m \in Settlement, ListTells(m), NEW x \in Clerk, NEW state, Goto(x, state),
         x = Scheduler /\ state.pc \in {"mark", "enqueue"} /\ m \in state.todo => status'[m] = "APPROVED",
         x # Scheduler => status[m] # "APPROVED" \/ status'[m] = "APPROVED"
  PROVE  ListTells(m)'
<1>1. clerk' = [clerk EXCEPT ![x] = state] /\ DOMAIN clerk = Clerk /\ Scheduler \in Clerk
  BY DEF Goto, TypeOK, Clerk
<1>2. CASE x = Scheduler
  BY <1>1, <1>2 DEF ListTells
<1>3. CASE x # Scheduler
  BY <1>1, <1>3 DEF ListTells
<1> QED BY <1>2, <1>3

LEMMA EventsStillTell ==
  ASSUME BooksInv, UNCHANGED <<transfer, sent, events>>, NEW m \in Settlement
  PROVE  EventsTell(m)'
BY DEF BooksInv, EventsTell, Current

LEMMA TaskMeansPayable ==
  ASSUME NEW m \in Settlement, Orderly(m), status[m] # "TRANSFER_SUCCESS",
         Tasked(m) \/ status[m] # "TRANSFER_INITIATED"
  PROVE  BookedAt(m) = "payable"
BY DEF Orderly, BooksTell, BookedAt

LEMMA ClerkKeepsBooks ==
  ASSUME SettlementInv, BooksInv, NEW x \in Clerk,
         \/ ReadUnsettled(x) \/ CreateSettlement(x) \/ Enqueue(x) \/ CrashClerk(x)
         \/ x = Scheduler /\ (PickEligible \/ MarkInitiated)
         \/ x # Scheduler /\ MarkRetried(x)
         \/ \E m \in Settlement : ReadRetryable(x, m)
  PROVE  BooksInv'
<1>1. TypeOK /\ ClerksKnow /\ clerk[x] \in ClerkState
  BY DEF SettlementInv, TypeOK
<1>2. \A m \in Settlement : EventsTell(m)'
  <2>1. UNCHANGED paystack
    BY DEF ReadUnsettled, CreateSettlement, Enqueue, CrashClerk, PickEligible,
           MarkInitiated, MarkRetried, ReadRetryable
  <2> QED BY <2>1, EventsStillTell DEF paystack
<1> SUFFICES ASSUME NEW m \in Settlement \ upset' PROVE Orderly(m)'
  BY <1>2 DEF BooksInv
<1>3. ASSUME m \notin upset, NEW state, Goto(x, state),
             UNCHANGED <<rows, jobs, worker, paystack, hooks>>,
             state.pc # "enqueue",
             x = Scheduler /\ state.pc = "mark" /\ m \in state.todo => status[m] = "APPROVED"
      PROVE  Orderly(m)'
  <2>1. Orderly(m) /\ TaskTells(m) /\ ListTells(m)
    BY <1>3 DEF BooksInv, Orderly
  <2>2. /\ OneTask(m)' /\ (AtSave(m)' <=> AtSave(m)) /\ (Tasked(m)' => Tasked(m))
    BY <1>1, <1>3, <2>1, ClerkTasks DEF TaskTells
  <2>3. status' = status /\ books' = books
    BY <1>3 DEF rows
  <2>4. ListTells(m)'
    BY <1>1, <1>3, <2>1, <2>3, ListAfterMove
  <2> QED BY <1>3, <2>1, <2>2, <2>3, <2>4, TaskStep DEF TaskTells, paystack, hooks
<1>4. CASE ReadUnsettled(x)
  <2> DEFINE next == [ClerkAt("create") EXCEPT !.batch = Unsettled]
  <2>1. next.pc = "create"
    BY DEF ClerkAt
  <2>2. AfterGeneration(x).pc \in {"pick", "idle"}
    BY DEF AfterGeneration, ClerkAt, IdleClerk
  <2>3. Goto(x, next) \/ Goto(x, AfterGeneration(x))
    BY <1>4 DEF ReadUnsettled
  <2> HIDE DEF next
  <2> QED BY <1>3, <1>4, <2>1, <2>2, <2>3 DEF ReadUnsettled, queue
<1>5. CASE CreateSettlement(x)
  <2>1. AfterGeneration(x).pc \in {"pick", "idle"} /\ IdleClerk.pc = "idle"
    BY DEF AfterGeneration, ClerkAt, IdleClerk
  <2>2. m \notin upset /\ Orderly(m) /\ TaskTells(m) /\ ListTells(m) /\ OneTask(m)
    BY <1>5 DEF BooksInv, Orderly, CreateSettlement, TaskTells
  <2>3. PICK state : Goto(x, state) /\ state.pc \in {"pick", "idle"}
    BY <1>5, <2>1 DEF CreateSettlement
  <2>4. /\ OneTask(m)' /\ (AtSave(m)' <=> AtSave(m)) /\ (Tasked(m)' => Tasked(m))
    BY <1>1, <1>5, <2>2, <2>3, ClerkTasks DEF CreateSettlement, queue
  <2>5. \/ status'[m] = status[m]
        \/ status[m] = "NONE" /\ status'[m] = "APPROVED"
    BY <1>1, <1>5 DEF CreateSettlement, TypeOK
  <2>6. ListTells(m)'
    BY <1>1, <2>2, <2>3, <2>5, ListAfterMove
  <2>7. UNCHANGED <<sent, events, processed, hook, books>>
    BY <1>5 DEF CreateSettlement, paystack, hooks
  <2>8. CASE status'[m] = status[m]
    BY <2>2, <2>4, <2>6, <2>7, <2>8, TaskStep DEF TaskTells
  <2>9. CASE status[m] = "NONE" /\ status'[m] = "APPROVED"
    BY <2>2, <2>4, <2>6, <2>7, <2>9, TaskStep, TaskMeansPayable DEF TaskTells
  <2> QED BY <2>5, <2>8, <2>9
<1>6. CASE Enqueue(x)
  <2> DEFINE n == clerk[x].settlement
             j == [settlement |-> n, n |-> queued[n] + 1, left |-> JobAttempts]
             state == ToMark(clerk[x].todo)
  <2>1. /\ jobs' = jobs \cup {j} /\ Goto(x, state) /\ ClerkHas(x, n)
        /\ UNCHANGED <<rows, worker, paystack, hooks, upset>>
    BY <1>6 DEF Enqueue, ClerkHas
  <2>2. j.settlement = n
    OBVIOUS
  <2>3. /\ state.pc \in {"mark", "idle"}
        /\ state.pc = "mark" => state.todo = clerk[x].todo
    BY DEF ToMark, ClerkAt, IdleClerk
  <2>4. clerk[x].pc = "enqueue"
    BY <1>6 DEF Enqueue
  <2> HIDE DEF n, j, state
  <2>5. m \notin upset /\ Orderly(m) /\ TaskTells(m) /\ ListTells(m) /\ OneTask(m)
    BY <2>1 DEF BooksInv, Orderly, TaskTells
  <2>6. clerk' = [clerk EXCEPT ![x] = state] /\ DOMAIN clerk = Clerk
    BY <1>1, <2>1 DEF Goto, TypeOK
  <2>7. \A y \in Clerk : ClerkHas(y, m)' <=> y # x /\ ClerkHas(y, m)
    BY <2>3, <2>6 DEF ClerkHas
  <2>8. \A w \in Worker : WorkerHas(w, m)' <=> WorkerHas(w, m)
    BY <2>1 DEF WorkerHas
  <2>9. \A i \in jobs' : JobHas(i, m) => i \in jobs \/ (i = j /\ ClerkHas(x, m))
    BY <2>1, <2>2 DEF JobHas
  <2>10. OneTask(m)'
    BY <2>5, <2>7, <2>8, <2>9 DEF OneTask, JobHas
  <2>11. Tasked(m)' => Tasked(m)
    BY <2>7, <2>8, <2>9 DEF Tasked, JobHas
  <2>12. ListTells(m)'
    BY <1>1, <2>1, <2>3, <2>4, <2>5, ListAfterMove DEF ListTells, rows
  <2>13. AtSave(m)' <=> AtSave(m)
    BY <2>1 DEF AtSave
  <2> QED BY <2>1, <2>5, <2>10, <2>11, <2>12, <2>13, TaskStep DEF TaskTells, rows, paystack, hooks
<1>7. CASE CrashClerk(x)
  BY <1>3, <1>7 DEF CrashClerk, IdleClerk, ClerkAt, queue
<1>8. CASE x = Scheduler /\ PickEligible
  <2> DEFINE todo == IF bank THEN {n \in Settlement : status[n] = "APPROVED"} ELSE {}
  <2>1. Goto(x, ToMark(todo)) /\ ToMark(todo).pc # "enqueue"
    BY <1>8 DEF PickEligible, ToMark, ClerkAt, IdleClerk
  <2>2. ToMark(todo).pc = "mark" => ToMark(todo).todo = todo
    BY DEF ToMark, ClerkAt, IdleClerk
  <2>3. m \in todo => status[m] = "APPROVED"
    OBVIOUS
  <2> HIDE DEF todo
  <2> QED BY <1>3, <1>8, <2>1, <2>2, <2>3 DEF PickEligible, queue
<1>9. CASE x = Scheduler /\ MarkInitiated
  <2>1. PICK n \in clerk[x].todo :
           /\ status' = [status EXCEPT ![n] = "TRANSFER_INITIATED"]
           /\ Goto(x, [clerk[x] EXCEPT !.pc = "enqueue", !.todo = @ \ {n}, !.settlement = n])
    BY <1>9 DEF MarkInitiated
  <2> DEFINE state == [clerk[x] EXCEPT !.pc = "enqueue", !.todo = @ \ {n}, !.settlement = n]
  <2>2. state.pc = "enqueue" /\ state.todo = clerk[x].todo \ {n} /\ state.settlement = n
    BY <1>1 DEF ClerkState
  <2>3. Goto(x, state)
    BY <2>1
  <2>4. n \in Settlement /\ clerk[x].pc = "mark"
    BY <1>1, <1>9 DEF ClerkState, MarkInitiated
  <2> HIDE DEF state
  <2>5. m \notin upset /\ Orderly(m) /\ TaskTells(m) /\ ListTells(m) /\ OneTask(m)
    BY <1>9 DEF BooksInv, Orderly, TaskTells, MarkInitiated
  <2>6. m \in clerk[x].todo => status[m] = "APPROVED"
    BY <1>9, <2>4, <2>5 DEF ListTells
  <2>7. m = n => ~Tasked(m)
    BY <2>1, <2>5, <2>6 DEF TaskTells
  <2>8. /\ OneTask(m)' /\ (AtSave(m)' <=> AtSave(m)) /\ (Tasked(m)' => Tasked(m) \/ m = n)
    BY <1>1, <1>9, <2>2, <2>3, <2>5, <2>7, ClerkTasks DEF MarkInitiated, queue
  <2>9. status'[m] = IF m = n THEN "TRANSFER_INITIATED" ELSE status[m]
    BY <1>1, <2>1 DEF TypeOK
  <2>10. ListTells(m)'
    BY <1>1, <1>9, <2>2, <2>3, <2>5, <2>6, <2>9, ListAfterMove
  <2>11. UNCHANGED <<sent, events, processed, hook, books>>
    BY <1>9 DEF MarkInitiated, paystack, hooks
  <2>12. CASE m # n
    BY <2>5, <2>8, <2>9, <2>10, <2>11, <2>12, TaskStep DEF TaskTells
  <2>13. CASE m = n
    BY <2>1, <2>5, <2>6, <2>8, <2>9, <2>10, <2>11, <2>13, TaskStep, TaskMeansPayable
  <2> QED BY <2>12, <2>13
<1>10. CASE x # Scheduler /\ MarkRetried(x)
  <2> DEFINE n == clerk[x].settlement
             state == [clerk[x] EXCEPT !.pc = "enqueue"]
  <2>1. /\ Goto(x, state) /\ clerk[x].pc = "retry" /\ n \in Settlement
        /\ status' = [status EXCEPT ![n] = "TRANSFER_INITIATED"]
        /\ upset' = IF status[n] \in Retryable THEN upset ELSE upset \cup {n}
    BY <1>1, <1>10 DEF MarkRetried, ClerksKnow
  <2>2. state.pc = "enqueue" /\ state.settlement = n /\ state.todo = clerk[x].todo
    BY <1>1 DEF ClerkState
  <2> HIDE DEF n, state
  <2>3. m \notin upset /\ Orderly(m) /\ TaskTells(m) /\ ListTells(m) /\ OneTask(m)
    BY <2>1 DEF BooksInv, Orderly, TaskTells
  <2>4. m = n => status[m] \in {"TRANSFER_FAILED", "TRANSFER_REVERSED"}
    BY <2>1 DEF Retryable
  <2>5. m = n => ~Tasked(m)
    BY <2>3, <2>4 DEF TaskTells
  <2>6. /\ OneTask(m)' /\ (AtSave(m)' <=> AtSave(m)) /\ (Tasked(m)' => Tasked(m) \/ m = n)
    BY <1>1, <1>10, <2>1, <2>2, <2>3, <2>5, ClerkTasks DEF MarkRetried, queue
  <2>7. status'[m] = IF m = n THEN "TRANSFER_INITIATED" ELSE status[m]
    BY <1>1, <2>1 DEF TypeOK
  <2>8. ListTells(m)'
    BY <1>1, <1>10, <2>1, <2>3, <2>4, <2>7, ListAfterMove
  <2>9. UNCHANGED <<sent, events, processed, hook, books>>
    BY <1>10 DEF MarkRetried, paystack, hooks
  <2>10. CASE m # n
    BY <2>3, <2>6, <2>7, <2>8, <2>9, <2>10, TaskStep DEF TaskTells
  <2>11. CASE m = n
    BY <2>1, <2>3, <2>4, <2>6, <2>7, <2>8, <2>9, <2>11, TaskStep, TaskMeansPayable
  <2> QED BY <2>10, <2>11
<1>11. ASSUME NEW n \in Settlement, ReadRetryable(x, n) PROVE Orderly(m)'
  <2> DEFINE state == [ClerkAt("retry") EXCEPT !.settlement = n]
  <2>1. state.pc = "retry"
    BY DEF ClerkAt
  <2>2. Goto(x, state)
    BY <1>11 DEF ReadRetryable
  <2> HIDE DEF state
  <2> QED BY <1>3, <1>11, <2>1, <2>2 DEF ReadRetryable, queue
<1> QED BY <1>4, <1>5, <1>6, <1>7, <1>8, <1>9, <1>10, <1>11

\* A worker moves: it takes a job, keeps or drops its task, or puts it back.
LEMMA WorkerTasks ==
  ASSUME TypeOK, NEW m \in Settlement, OneTask(m), NEW w \in Worker, NEW state,
         worker' = [worker EXCEPT ![w] = state], UNCHANGED clerk,
         \/ \E j \in jobs : /\ jobs' = jobs \ {j} /\ worker[w].pc = "idle"
                            /\ state.pc # "idle" => state.job = j
         \/ /\ UNCHANGED jobs
            /\ state.pc # "idle" => worker[w].pc # "idle" /\ state.job = worker[w].job
         \/ \E j : /\ jobs' = jobs \cup {j} /\ worker[w].pc # "idle" /\ state.pc = "idle"
                   /\ j.settlement = worker[w].job.settlement
  PROVE  /\ OneTask(m)'
         /\ Tasked(m)' => Tasked(m)
         /\ worker[w].pc # "save" /\ state.pc # "save" => (AtSave(m)' <=> AtSave(m))
<1> DEFINE has == state.pc # "idle" /\ state.job.settlement = m
<1>1. \A v \in Worker : WorkerHas(v, m)' <=> IF v = w THEN has ELSE WorkerHas(v, m)
  BY DEF WorkerHas, TypeOK
<1>2. \A x \in Clerk : ClerkHas(x, m)' <=> ClerkHas(x, m)
  BY DEF ClerkHas
<1>3. worker[w].pc # "save" /\ state.pc # "save" => (AtSave(m)' <=> AtSave(m))
  BY DEF AtSave, TypeOK
<1>4. ASSUME NEW j \in jobs, jobs' = jobs \ {j}, worker[w].pc = "idle",
             state.pc # "idle" => state.job = j
      PROVE  OneTask(m)' /\ (Tasked(m)' => Tasked(m))
  <2>1. has => JobHas(j, m)
    BY <1>4 DEF JobHas
  <2> HIDE DEF has
  <2>2. \A i \in jobs' : i \in jobs /\ i # j
    BY <1>4
  <2>3. OneTask(m)'
    BY <1>1, <1>2, <2>1, <2>2 DEF OneTask, JobHas
  <2>4. Tasked(m)' => Tasked(m)
    BY <1>1, <1>2, <2>1, <2>2 DEF Tasked, JobHas
  <2> QED BY <2>3, <2>4
<1>5. ASSUME UNCHANGED jobs,
             state.pc # "idle" => worker[w].pc # "idle" /\ state.job = worker[w].job
      PROVE  OneTask(m)' /\ (Tasked(m)' => Tasked(m))
  <2>1. has => WorkerHas(w, m)
    BY <1>5 DEF WorkerHas
  <2> HIDE DEF has
  <2>2. \A v \in Worker : WorkerHas(v, m)' => WorkerHas(v, m)
    BY <1>1, <2>1
  <2>3. OneTask(m)'
    BY <1>2, <1>5, <2>2 DEF OneTask, JobHas
  <2>4. Tasked(m)' => Tasked(m)
    BY <1>2, <1>5, <2>2 DEF Tasked, JobHas
  <2> QED BY <2>3, <2>4
<1>6. ASSUME NEW j, jobs' = jobs \cup {j}, worker[w].pc # "idle", state.pc = "idle",
             j.settlement = worker[w].job.settlement
      PROVE  OneTask(m)' /\ (Tasked(m)' => Tasked(m))
  <2>1. ~has /\ (JobHas(j, m) <=> WorkerHas(w, m))
    BY <1>6 DEF WorkerHas, JobHas
  <2> HIDE DEF has
  <2>2. \A i \in jobs' : i \in jobs \/ i = j
    BY <1>6
  <2>3. OneTask(m)'
    BY <1>1, <1>2, <2>1, <2>2 DEF OneTask, JobHas
  <2>4. Tasked(m)' => Tasked(m)
    BY <1>1, <1>2, <2>1, <2>2 DEF Tasked, JobHas
  <2> QED BY <2>3, <2>4
<1> QED BY <1>3, <1>4, <1>5, <1>6

\* A worker step that concerns neither Paystack nor the books of m.
LEMMA WorkerStepTells ==
  ASSUME TypeOK, NEW m \in Settlement \ upset, BooksInv,
         UNCHANGED <<events, processed, hook, clerk, status>>,
         sent'[m] = sent[m], books'[m] = books[m],
         OneTask(m)', AtSave(m)' <=> AtSave(m), Tasked(m)' => Tasked(m)
  PROVE  Orderly(m)'
<1>1. Orderly(m) /\ TaskTells(m) /\ ListTells(m)
  BY DEF BooksInv, Orderly
<1>2. ListTells(m)'
  BY <1>1 DEF ListTells
<1> QED BY <1>1, <1>2, TaskStep DEF TaskTells

LEMMA WorkerKeepsBooks ==
  ASSUME SettlementInv, BooksInv, NEW w \in Worker,
         \/ TakeJob(w) \/ FailAttempt(w) \/ MarkTransferFailed(w) \/ CrashWorker(w)
  PROVE  BooksInv'
<1>1. TypeOK
  BY DEF SettlementInv
<1>2. \A m \in Settlement : EventsTell(m)'
  BY EventsStillTell DEF TakeJob, FailAttempt, MarkTransferFailed, CrashWorker, paystack
<1>3. upset \subseteq upset'
  BY DEF TakeJob, FailAttempt, MarkTransferFailed, CrashWorker
<1> SUFFICES ASSUME NEW m \in Settlement \ upset' PROVE Orderly(m)'
  BY <1>2 DEF BooksInv
<1>4. m \in Settlement \ upset
  BY <1>3
<1>5. Orderly(m) /\ TaskTells(m) /\ ListTells(m) /\ OneTask(m)
  BY <1>4 DEF BooksInv, Orderly, TaskTells
<1>6. IdleWorker.pc = "idle"
  BY DEF IdleWorker
<1>7. CASE TakeJob(w)
  <2>1. PICK j \in jobs :
          /\ jobs' = jobs \ {j}
          /\ \/ UNCHANGED worker
             \/ \E pc \in {"fail", "call"} : worker' = [worker EXCEPT ![w] = [pc |-> pc, job |-> j]]
    BY <1>7 DEF TakeJob
  <2>2. worker[w].pc = "idle"
    BY <1>7 DEF TakeJob
  <2>3. PICK state : /\ worker' = [worker EXCEPT ![w] = state]
                     /\ state.pc # "save"
                     /\ state.pc # "idle" => state.job = j
    <3>1. CASE UNCHANGED worker
      <4>1. worker' = [worker EXCEPT ![w] = worker[w]]
        BY <1>1, <3>1 DEF TypeOK
      <4> QED BY <2>2, <4>1
    <3>2. ASSUME NEW pc \in {"fail", "call"}, worker' = [worker EXCEPT ![w] = [pc |-> pc, job |-> j]]
          PROVE  \E state : /\ worker' = [worker EXCEPT ![w] = state]
                            /\ state.pc # "save"
                            /\ state.pc # "idle" => state.job = j
      <4>1. [pc |-> pc, job |-> j].pc = pc /\ [pc |-> pc, job |-> j].job = j /\ pc # "save"
        OBVIOUS
      <4> QED BY <3>2, <4>1
    <3> QED BY <2>1, <3>1, <3>2
  <2>4. UNCHANGED clerk
    BY <1>7 DEF TakeJob
  <2>5. OneTask(m)' /\ (Tasked(m)' => Tasked(m)) /\ (AtSave(m)' <=> AtSave(m))
    BY <1>1, <1>5, <2>1, <2>2, <2>3, <2>4, WorkerTasks
  <2> QED BY <1>1, <1>4, <1>7, <2>5, WorkerStepTells DEF TakeJob, rows, paystack, hooks
<1>8. CASE FailAttempt(w)
  <2>1. worker[w].pc = "fail" /\ worker[w] = [pc |-> worker[w].pc, job |-> worker[w].job]
    BY <1>1, <1>8, WorkerHasJob DEF FailAttempt
  <2>2. worker[w].job \in Job
    BY <1>1, <2>1, WorkerHasJob
  <2>3. CASE worker' = [worker EXCEPT ![w] = IdleWorker] /\ ~UNCHANGED jobs
    <3>1. jobs' = jobs \cup {[worker[w].job EXCEPT !.left = @ - 1]}
      BY <1>8, <2>3 DEF FailAttempt
    <3>2. [worker[w].job EXCEPT !.left = @ - 1].settlement = worker[w].job.settlement
      BY <2>2 DEF Job
    <3>3. OneTask(m)' /\ (Tasked(m)' => Tasked(m)) /\ (AtSave(m)' <=> AtSave(m))
      BY <1>1, <1>5, <1>6, <1>8, <2>1, <2>3, <3>1, <3>2, WorkerTasks DEF FailAttempt
    <3> QED BY <1>1, <1>4, <1>8, <3>3, WorkerStepTells DEF FailAttempt, rows, paystack, hooks
  <2>4. CASE UNCHANGED jobs
    <3>1. PICK state : /\ worker' = [worker EXCEPT ![w] = state]
                       /\ state.pc # "save"
                       /\ state.pc # "idle" => state.job = worker[w].job
      <4>1. [worker[w] EXCEPT !.pc = "exhausted"].pc = "exhausted"
        BY <2>1
      <4>2. [worker[w] EXCEPT !.pc = "exhausted"].job = worker[w].job
        BY <2>1
      <4>3. worker' = [worker EXCEPT ![w] = IdleWorker]
            \/ worker' = [worker EXCEPT ![w] = [worker[w] EXCEPT !.pc = "exhausted"]]
        BY <1>8 DEF FailAttempt, At
      <4> QED BY <1>6, <4>1, <4>2, <4>3
    <3>2. OneTask(m)' /\ (Tasked(m)' => Tasked(m)) /\ (AtSave(m)' <=> AtSave(m))
      BY <1>1, <1>5, <1>8, <2>1, <2>4, <3>1, WorkerTasks DEF FailAttempt
    <3> QED BY <1>1, <1>4, <1>8, <3>2, WorkerStepTells DEF FailAttempt, rows, paystack, hooks
  <2> QED BY <1>8, <2>3, <2>4 DEF FailAttempt
<1>9. CASE MarkTransferFailed(w)
  <2> DEFINE n == worker[w].job.settlement
  <2>1. /\ worker[w].pc = "exhausted" /\ n \in Settlement
        /\ status' = [status EXCEPT ![n] = "TRANSFER_FAILED"]
        /\ worker' = [worker EXCEPT ![w] = IdleWorker]
        /\ UNCHANGED <<jobs, clerk, sent, events, processed, hook, books>>
    BY <1>1, <1>9, WorkerHasJob DEF MarkTransferFailed, queue, paystack, hooks
  <2>2. m = n => WorkerHas(w, m)
    BY <2>1 DEF WorkerHas
  <2> HIDE DEF n
  <2>3. OneTask(m)' /\ (Tasked(m)' => Tasked(m)) /\ (AtSave(m)' <=> AtSave(m))
    BY <1>1, <1>5, <1>6, <2>1, WorkerTasks
  <2>4. status'[m] = IF m = n THEN "TRANSFER_FAILED" ELSE status[m]
    BY <1>1, <2>1 DEF TypeOK
  <2>5. CASE m # n
    <3>1. ListTells(m)'
      BY <1>5, <2>1, <2>4, <2>5 DEF ListTells
    <3> QED BY <1>5, <2>1, <2>3, <2>4, <2>5, <3>1, TaskStep DEF TaskTells
  <2>6. CASE m = n
    <3>1. Tasked(m) /\ status[m] = "TRANSFER_INITIATED"
      BY <1>5, <2>2, <2>6 DEF Tasked, TaskTells
    <3>2. ListTells(m)'
      BY <1>5, <2>1, <3>1 DEF ListTells
    <3>3. ~Tasked(m)'
      <4>1. \A v \in Worker : ~WorkerHas(v, m)'
        BY <1>1, <1>5, <1>6, <2>1, <2>2, <2>6 DEF OneTask, WorkerHas, TypeOK
      <4>2. \A x \in Clerk : ~ClerkHas(x, m)'
        BY <1>5, <2>1, <2>2, <2>6 DEF OneTask, ClerkHas
      <4>3. \A j \in jobs' : ~JobHas(j, m)
        BY <1>5, <2>1, <2>2, <2>6 DEF OneTask
      <4> QED BY <4>1, <4>2, <4>3 DEF Tasked, JobHas
    <3> QED BY <1>5, <2>1, <2>3, <2>4, <2>6, <3>1, <3>2, <3>3, TaskStep, TaskMeansPayable
  <2> QED BY <2>5, <2>6
<1>10. CASE CrashWorker(w)
  <2>1. /\ worker[w].pc # "idle" /\ worker' = [worker EXCEPT ![w] = IdleWorker]
        /\ jobs' = jobs \/ jobs' = jobs \cup {worker[w].job}
        /\ UNCHANGED <<clerk, sent, events, processed, hook, status, books>>
    BY <1>10 DEF CrashWorker, rows, paystack, hooks
  <2>2. OneTask(m)' /\ (Tasked(m)' => Tasked(m))
    BY <1>1, <1>5, <1>6, <2>1, WorkerTasks
  <2>3. AtSave(m)' <=> AtSave(m)
    <3>1. worker[w].pc = "save" => worker[w].job.settlement # m
      BY <1>10 DEF CrashWorker
    <3> QED BY <1>1, <1>6, <2>1, <3>1 DEF AtSave, TypeOK
  <2> QED BY <1>1, <1>4, <2>1, <2>2, <2>3, WorkerStepTells
<1> QED BY <1>7, <1>8, <1>9, <1>10

\* Only events that were sent are applied.
LEMMA AppliedWasSent ==
  ASSUME SettlementInv, NEW e, Applied(e)
  PROVE  e \in events
BY DEF SettlementInv, TypeOK, HooksKnow, Applied

LEMMA EventIsCurrent ==
  ASSUME TypeOK, NEW m, NEW e \in events, e.settlement = m, e.n = sent[m]
  PROVE  e.kind \in Kind /\ e = Current(m, e.kind)
BY DEF TypeOK, Event, Current

\* When the transfer of m is asked for again, all that was told is applied.
LEMMA AllApplied ==
  ASSUME SettlementInv, BooksInv, NEW m \in Settlement \ upset, Tasked(m), ~AtSave(m),
         transfer[m] \notin {"pending", "success"}, NEW e \in events, e.settlement = m
  PROVE  Applied(e)
<1>1. TypeOK /\ EventsTell(m) /\ TaskTells(m) /\ HandTells(m) /\ OrderTells(m) /\ Orderly(m)
  BY DEF SettlementInv, BooksInv, Orderly
<1>2. CASE e.n # sent[m]
  BY <1>1, <1>2 DEF OrderTells
<1>3. CASE e.n = sent[m]
  <2>1. e.kind \in Kind /\ e = Current(m, e.kind)
    BY <1>1, <1>3, EventIsCurrent
  <2>2. BookedAt(m) = "payable"
    BY <1>1, TaskMeansPayable DEF TaskTells
  <2>3. sent[m] # 0
    <3>1. e.n \in 1 .. MaxSent
      BY <1>1 DEF TypeOK, Event
    <3> QED BY <1>3, <3>1, MerchantSettlementAssumption
  <2>4. Applied(Current(m, "failed")) \/ Applied(Current(m, "reversed"))
    BY <2>2, <2>3 DEF BookedAt
  <2>5. CASE Applied(Current(m, "failed"))
    <3>1. transfer[m] = "failed"
      BY <1>1, <2>5, AppliedWasSent DEF EventsTell
    <3>2. e.kind = "failed"
      BY <1>1, <2>1, <3>1 DEF EventsTell, Kind
    <3> QED BY <2>1, <2>5, <3>2
  <2>6. CASE Applied(Current(m, "reversed"))
    <3> DEFINE r == Current(m, "reversed")
    <3>1. r \in events /\ r.settlement = m /\ r.kind = "reversed"
      BY <2>6, AppliedWasSent DEF Current
    <3>2. [r EXCEPT !.kind = "success"] = Current(m, "success")
      BY DEF Current
    <3>3. r \in processed \/ \E k \in Hook : Handles(k, m) /\ hook[k].event = r
      BY <2>6, <3>1 DEF Applied, Handles
    <3> HIDE DEF r
    <3>4. Current(m, "success") \in processed
      BY <1>1, <3>1, <3>2, <3>3 DEF OrderTells
    <3>5. transfer[m] = "reversed"
      BY <1>1, <3>1 DEF EventsTell, r
    <3>6. e.kind \in {"success", "reversed"}
      BY <1>1, <2>1, <3>5 DEF EventsTell, Kind
    <3> QED BY <2>1, <2>6, <3>4, <3>6 DEF Applied
  <2> QED BY <2>4, <2>5, <2>6
<1> QED BY <1>2, <1>3

LEMMA CallKeepsBooks ==
  ASSUME SettlementInv, BooksInv, NEW w \in Worker, CallPaystack(w)
  PROVE  BooksInv'
<1> DEFINE n == worker[w].job.settlement
<1>1. TypeOK /\ n \in Settlement /\ worker[w].pc = "call"
      /\ worker[w] = [pc |-> worker[w].pc, job |-> worker[w].job]
  BY WorkerHasJob DEF SettlementInv, CallPaystack
<1>2. PICK pc \in {"save", "fail"} : worker' = [worker EXCEPT ![w] = [worker[w] EXCEPT !.pc = pc]]
  BY DEF CallPaystack, At
<1> DEFINE state == [worker[w] EXCEPT !.pc = pc]
<1>3. state.pc = pc /\ state.job = worker[w].job
  BY <1>1
<1>4. UNCHANGED <<clerk, jobs, events, processed, hook, status, books>> /\ upset \subseteq upset'
  BY DEF CallPaystack, rows, queue, hooks
<1>5. worker' = [worker EXCEPT ![w] = state]
  BY <1>2
<1> HIDE DEF state
<1>6. ASSUME NEW m \in Settlement \ upset
      PROVE  /\ Orderly(m) /\ TaskTells(m) /\ ListTells(m) /\ OneTask(m)
             /\ OneTask(m)' /\ (Tasked(m)' => Tasked(m))
  <2>1. Orderly(m) /\ TaskTells(m) /\ ListTells(m) /\ OneTask(m)
    BY DEF BooksInv, Orderly, TaskTells
  <2> QED BY <1>1, <1>3, <1>4, <1>5, <2>1, WorkerTasks
<1>7. ASSUME NEW m \in Settlement, m # n \/ pc = "fail"
      PROVE  AtSave(m)' <=> AtSave(m)
  <2>1. worker[w].pc # "save" /\ (state.pc = "save" => state.job.settlement # m)
    BY <1>1, <1>3, <1>7
  <2> QED BY <1>1, <1>5, <2>1 DEF AtSave, TypeOK
<1>8. CASE UNCHANGED <<transfer, sent>>
  <2>1. pc = "fail"
    BY <1>1, <1>2, <1>5, <1>8 DEF CallPaystack, At, TypeOK
  <2>2. \A m \in Settlement : EventsTell(m)'
    BY <1>4, <1>8, EventsStillTell
  <2>3. ASSUME NEW m \in Settlement \ upset' PROVE Orderly(m)'
    <3>1. m \in Settlement \ upset
      BY <1>4
    <3>2. OneTask(m)' /\ (Tasked(m)' => Tasked(m)) /\ (AtSave(m)' <=> AtSave(m))
      BY <1>6, <1>7, <2>1, <3>1
    <3> QED BY <1>1, <1>4, <1>8, <3>1, <3>2, WorkerStepTells
  <2> QED BY <2>2, <2>3 DEF BooksInv
<1>9. CASE ~UNCHANGED <<transfer, sent>>
  <2>1. /\ transfer[n] \notin {"pending", "success"}
        /\ transfer' = [transfer EXCEPT ![n] = "pending"]
        /\ sent' = [sent EXCEPT ![n] = @ + 1]
        /\ pc = "fail" => n \in upset'
    <3>1. pc = "fail" => ~At(w, "save")
      BY <1>1, <1>5, <1>3 DEF At, TypeOK
    <3> QED BY <1>9, <3>1 DEF CallPaystack
  <2>2. /\ \A m \in Settlement : sent'[m] = IF m = n THEN sent[m] + 1 ELSE sent[m]
        /\ \A m \in Settlement : transfer'[m] = IF m = n THEN "pending" ELSE transfer[m]
        /\ \A m \in Settlement : sent[m] \in Nat
    BY <1>1, <2>1, MerchantSettlementAssumption DEF TypeOK
  <2> HIDE DEF n
  <2>3. ASSUME NEW m \in Settlement PROVE EventsTell(m)'
    <3>1. EventsTell(m)
      BY DEF BooksInv
    <3>2. CASE m # n
      BY <1>4, <2>2, <3>1, <3>2 DEF EventsTell, Current
    <3>3. CASE m = n
      <4>1. \A e \in events : e.settlement = m => e.n \in Nat /\ e.n <= sent[m]
        BY <1>1, <3>1 DEF EventsTell, TypeOK, Event
      <4>2. \A kind : Current(m, kind)' \notin events
        <5>1. \A kind : Current(m, kind)'.settlement = m /\ Current(m, kind)'.n = sent[m] + 1
          BY <2>2, <3>3 DEF Current
        <5> QED BY <2>2, <4>1, <5>1
      <4> QED BY <1>4, <2>2, <3>3, <4>1, <4>2 DEF EventsTell
    <3> QED BY <3>2, <3>3
  <2>4. ASSUME NEW m \in Settlement \ upset' PROVE Orderly(m)'
    <3>1. m \in Settlement \ upset
      BY <1>4
    <3>2. CASE m # n
      BY <1>1, <1>4, <1>6, <1>7, <2>2, <3>1, <3>2, WorkerStepTells DEF n
    <3>3. CASE m = n
      <4>1. /\ Orderly(m) /\ TaskTells(m) /\ ListTells(m) /\ BooksTell(m) /\ OneTask(m)
            /\ HandTells(m) /\ OrderTells(m)
        BY <1>6, <3>1 DEF Orderly
      <4>2. WorkerHas(w, m) /\ Tasked(m) /\ status[m] = "TRANSFER_INITIATED"
        BY <1>1, <3>3, <4>1 DEF WorkerHas, Tasked, TaskTells, n
      <4>3. ~AtSave(m)
        BY <1>1, <4>1, <4>2 DEF AtSave, OneTask, WorkerHas
      <4>4. BookedAt(m) = "payable"
        BY <4>1, <4>2, TaskMeansPayable
      <4>5. AtSave(m)'
        BY <1>1, <1>3, <1>5, <2>1, <3>3 DEF AtSave, TypeOK, n
      <4>6. BookedAt(m)' = "payable"
        BY <4>5 DEF BookedAt
      <4>7. \A e : Applied(e)' <=> Applied(e)
        BY <1>4 DEF Applied
      <4>8. BooksTell(m)'
        BY <1>4, <4>1, <4>2, <4>4, <4>6 DEF BooksTell
      <4>9. TaskTells(m)'
        <5>1. \A kind : Current(m, kind)' \notin events
          <6>1. \A kind : Current(m, kind)'.settlement = m /\ Current(m, kind)'.n = sent[m] + 1
            BY <2>2, <3>3 DEF Current
          <6>2. \A e \in events : e.settlement = m => e.n \in Nat /\ e.n <= sent[m]
            BY <1>1 DEF BooksInv, EventsTell, TypeOK, Event
          <6> QED BY <2>2, <6>1, <6>2
        <5>2. sent'[m] > 0
          BY <2>2, <3>3
        <5>3. status'[m] = "TRANSFER_INITIATED"
          BY <1>4, <4>2
        <5>4. \A kind \in Kind : ~Applied(Current(m, kind))'
          BY <4>7, <5>1, AppliedWasSent, <1>4 DEF Applied
        <5> QED BY <1>6, <3>1, <5>2, <5>3, <5>4 DEF TaskTells
      <4>10. HandTells(m)'
        <5>1. \A k \in Hook : Handles(k, m)' <=> Handles(k, m)
          BY <1>4 DEF Handles
        <5>2. \A k \in Hook : ~(Handles(k, m) /\ hook[k].pc # "done")
          BY <4>1, <4>4 DEF HandTells
        <5> QED BY <1>4, <4>1, <5>1, <5>2 DEF HandTells
      <4>11. OrderTells(m)'
        <5>1. \A e \in events : e.settlement = m => Applied(e)'
          BY <2>1, <3>1, <3>3, <4>2, <4>3, <4>7, AllApplied
        <5>2. \A k \in Hook : Handles(k, m)' <=> Handles(k, m)
          BY <1>4 DEF Handles
        <5> QED BY <1>4, <4>1, <5>1, <5>2 DEF OrderTells
      <4>12. ListTells(m)'
        BY <1>4, <4>1 DEF ListTells
      <4> QED BY <4>8, <4>9, <4>10, <4>11, <4>12 DEF Orderly
    <3> QED BY <3>2, <3>3
  <2> QED BY <2>3, <2>4 DEF BooksInv
<1> QED BY <1>8, <1>9

\* A booking of the one piece of m.
LEMMA BookMovesPiece ==
  ASSUME TypeOK, NEW m \in Settlement, NEW from \in Account, NEW to \in Account, from # to,
         books[m] = [a \in Account |-> IF a = from THEN 1 ELSE 0], Book(m, from, to)
  PROVE  /\ books'[m] = [a \in Account |-> IF a = to THEN 1 ELSE 0]
         /\ \A n \in Settlement \ {m} : books'[n] = books[n]
<1> DEFINE row == [books[m] EXCEPT ![from] = @ - 1, ![to] = @ + 1]
<1>1. books' = [books EXCEPT ![m] = row]
  BY DEF Book
<1>2. row = [a \in Account |-> IF a = to THEN 1 ELSE 0]
  OBVIOUS
<1> HIDE DEF row
<1> QED BY <1>1, <1>2 DEF TypeOK

LEMMA SaveKeepsBooks ==
  ASSUME SettlementInv, BooksInv, NEW w \in Worker, SaveCode(w)
  PROVE  BooksInv'
<1> DEFINE n == worker[w].job.settlement
<1>1. TypeOK /\ n \in Settlement /\ worker[w].pc = "save" /\ IdleWorker.pc = "idle"
  BY WorkerHasJob DEF SettlementInv, SaveCode, IdleWorker
<1>2. /\ worker' = [worker EXCEPT ![w] = IdleWorker] /\ Book(n, "payable", "transit")
      /\ UNCHANGED <<clerk, jobs, transfer, sent, events, processed, hook, status, upset>>
  BY DEF SaveCode, queue, paystack, hooks
<1>3. \A m \in Settlement : EventsTell(m)'
  BY <1>2, EventsStillTell
<1> SUFFICES ASSUME NEW m \in Settlement \ upset PROVE Orderly(m)'
  BY <1>2, <1>3 DEF BooksInv
<1>4. /\ Orderly(m) /\ TaskTells(m) /\ ListTells(m) /\ OneTask(m) /\ BooksTell(m)
      /\ HandTells(m) /\ OrderTells(m)
  BY DEF BooksInv, Orderly, TaskTells
<1>5. OneTask(m)' /\ (Tasked(m)' => Tasked(m))
  BY <1>1, <1>2, <1>4, WorkerTasks
<1>6. n = m => WorkerHas(w, m) /\ AtSave(m)
  BY <1>1 DEF WorkerHas, AtSave
<1>7. "payable" \in Account /\ "transit" \in Account
  BY DEF Account
<1>8. CASE m # n
  <2>1. AtSave(m)' <=> AtSave(m)
    BY <1>1, <1>2, <1>8 DEF AtSave, TypeOK
  <2>2. books'[m] = books[m]
    BY <1>1, <1>2, <1>8 DEF Book, TypeOK
  <2> QED BY <1>1, <1>2, <1>5, <2>1, <2>2, WorkerStepTells
<1>9. CASE m = n
  <2> HIDE DEF n
  <2>1. AtSave(m) /\ WorkerHas(w, m)
    BY <1>6, <1>9
  <2>2. ~Tasked(m)' /\ ~AtSave(m)'
    <3>1. \A v \in Worker : ~WorkerHas(v, m)'
      BY <1>1, <1>2, <1>4, <2>1 DEF OneTask, WorkerHas, TypeOK
    <3>2. \A x \in Clerk : ~ClerkHas(x, m)'
      BY <1>2, <1>4, <2>1 DEF OneTask, ClerkHas
    <3>3. \A j \in jobs' : ~JobHas(j, m)
      BY <1>2, <1>4, <2>1 DEF OneTask
    <3>4. ~Tasked(m)'
      BY <3>1, <3>2, <3>3 DEF Tasked, JobHas
    <3> QED BY <3>1, <3>4 DEF AtSave, WorkerHas
  <2>3. \A e : Applied(e)' <=> Applied(e)
    BY <1>2 DEF Applied
  <2>4. \A kind : Current(m, kind)' = Current(m, kind)
    BY <1>2 DEF Current
  <2>5. sent[m] > 0 /\ \A kind \in Kind : ~Applied(Current(m, kind))
    BY <1>4, <2>1 DEF TaskTells
  <2>6. BookedAt(m) = "payable" /\ BookedAt(m)' = "transit"
    BY <1>2, <2>1, <2>2, <2>3, <2>4, <2>5 DEF BookedAt, Kind
  <2>7. status[m] = "TRANSFER_INITIATED"
    BY <1>4, <2>1 DEF TaskTells, Tasked
  <2>8. BooksTell(m)'
    <3>1. books[m] = [a \in Account |-> IF a = "payable" THEN 1 ELSE 0]
      BY <1>4, <2>6 DEF BooksTell
    <3>2. books'[m] = [a \in Account |-> IF a = "transit" THEN 1 ELSE 0]
      BY <1>1, <1>2, <1>7, <1>9, <3>1, BookMovesPiece
    <3> QED BY <1>2, <2>2, <2>6, <2>7, <3>2 DEF BooksTell
  <2>9. TaskTells(m)'
    BY <1>5, <2>2 DEF TaskTells
  <2>10. ListTells(m)'
    BY <1>2, <1>4 DEF ListTells
  <2>11. HandTells(m)'
    <3>1. \A k \in Hook : Handles(k, m)' <=> Handles(k, m)
      BY <1>2 DEF Handles
    <3>2. \A k \in Hook : ~(Handles(k, m) /\ hook[k].pc # "done")
      BY <1>4, <2>1 DEF HandTells
    <3> QED BY <1>2, <1>4, <3>1, <3>2 DEF HandTells
  <2>12. OrderTells(m)'
    <3>1. \A k \in Hook : Handles(k, m)' <=> Handles(k, m)
      BY <1>2 DEF Handles
    <3> QED BY <1>2, <1>4, <2>3, <3>1 DEF OrderTells
  <2> QED BY <2>8, <2>9, <2>10, <2>11, <2>12 DEF Orderly
<1> QED BY <1>8, <1>9

\* Paystack tells of a transfer what it has not told yet.
LEMMA SettleKeepsBooks ==
  ASSUME SettlementInv, BooksInv, NEW n \in Settlement, SettleTransfer(n)
  PROVE  BooksInv'
<1>1. TypeOK /\ HooksKnow
  BY DEF SettlementInv
<1>2. UNCHANGED <<sent, processed, hook, books, status, clerk, jobs, worker, upset>>
  BY DEF SettleTransfer, rows, queue, hooks
<1>3. PICK to \in Kind :
        /\ \/ transfer[n] = "pending" /\ to \in {"success", "failed"}
           \/ transfer[n] = "success" /\ to = "reversed"
        /\ transfer' = [transfer EXCEPT ![n] = to]
        /\ events' = events \cup {Current(n, to)}
  BY DEF SettleTransfer, Emit, Kind, Current
<1> DEFINE new == Current(n, to)
<1>4. new.settlement = n /\ new.n = sent[n] /\ new.kind = to
  BY DEF Current
<1>5. EventsTell(n)
  BY DEF BooksInv
<1>6. new \notin events
  BY <1>3, <1>5 DEF EventsTell
<1>7. events' = events \cup {new}
  BY <1>3
<1>8. \A m \in Settlement : \A kind : Current(m, kind) = new <=> m = n /\ kind = to
  BY DEF Current
<1> HIDE DEF new
<1>9. \A m, kind : Current(m, kind)' = Current(m, kind)
  BY <1>2 DEF Current
<1>10. \A m \in Settlement : transfer'[m] = IF m = n THEN to ELSE transfer[m]
  BY <1>1, <1>3 DEF TypeOK
<1>11. \A m \in Settlement : sent[m] \in Nat
  BY <1>1, MerchantSettlementAssumption DEF TypeOK
<1>12. ASSUME NEW m \in Settlement PROVE EventsTell(m)'
  <2>1. EventsTell(m)
    BY DEF BooksInv
  <2>2. CASE m # n
    BY <1>2, <1>4, <1>7, <1>8, <1>9, <1>10, <2>1, <2>2 DEF EventsTell
  <2>3. CASE m = n
    <3>1. (transfer'[m] = "none" <=> sent'[m] = 0) /\ \A e \in events' : e.settlement = m => e.n <= sent'[m]
      BY <1>2, <1>3, <1>4, <1>7, <1>10, <1>11, <2>1, <2>3 DEF EventsTell, Kind
    <3>2. /\ Current(m, "success")' \in events' <=> transfer'[m] \in {"success", "reversed"}
          /\ Current(m, "failed")' \in events' <=> transfer'[m] = "failed"
          /\ Current(m, "reversed")' \in events' <=> transfer'[m] = "reversed"
      BY <1>3, <1>7, <1>8, <1>9, <1>10, <2>1, <2>3 DEF EventsTell, Kind
    <3> QED BY <3>1, <3>2 DEF EventsTell
  <2> QED BY <2>2, <2>3
<1>13. ASSUME NEW m \in Settlement \ upset PROVE Orderly(m)'
  <2>1. BooksTell(m) /\ TaskTells(m) /\ ListTells(m) /\ HandTells(m) /\ OrderTells(m)
    BY DEF BooksInv, Orderly
  <2>2. \A e : Applied(e)' <=> Applied(e)
    BY <1>2 DEF Applied
  <2>3. (AtSave(m)' <=> AtSave(m)) /\ (Tasked(m)' <=> Tasked(m)) /\ (OneTask(m)' <=> OneTask(m))
    BY <1>2 DEF AtSave, Tasked, OneTask, ClerkHas, JobHas, WorkerHas
  <2>4. BookedAt(m)' = BookedAt(m)
    BY <1>2, <1>9, <2>2, <2>3 DEF BookedAt
  <2>5. BooksTell(m)'
    BY <1>2, <2>1, <2>3, <2>4 DEF BooksTell
  <2>6. TaskTells(m)'
    BY <1>2, <1>9, <2>1, <2>2, <2>3 DEF TaskTells
  <2>7. ListTells(m)'
    BY <1>2, <2>1 DEF ListTells
  <2>8. \A k \in Hook : Handles(k, m)' <=> Handles(k, m)
    BY <1>2 DEF Handles
  <2>9. HandTells(m)'
    BY <1>2, <2>1, <2>3, <2>4, <2>8 DEF HandTells
  <2>10. OrderTells(m)'
    <3>1. ~(new \in processed \/ \E k \in Hook : Handles(k, m) /\ hook[k].event = new)
      BY <1>1, <1>6 DEF TypeOK, HooksKnow, Handles
    <3>2. new.settlement = m => new.n = sent[m]
      BY <1>4
    <3> QED BY <1>2, <1>7, <2>1, <2>2, <2>8, <3>1, <3>2 DEF OrderTells
  <2> QED BY <2>5, <2>6, <2>7, <2>9, <2>10 DEF Orderly
<1> QED BY <1>2, <1>12, <1>13 DEF BooksInv

\* A step that leaves the books of m and what is applied of its events alone.
LEMMA StillOrderly ==
  ASSUME TypeOK, NEW m \in Settlement, Orderly(m),
         UNCHANGED <<events, clerk, jobs, worker, sent>>,
         books'[m] = books[m], status'[m] = status[m], processed \subseteq processed',
         \A e : e.settlement = m => (Applied(e)' <=> Applied(e)),
         \A j \in Hook : Handles(j, m)' =>
            /\ Handles(j, m) /\ hook'[j].event = hook[j].event
            /\ hook[j].event \notin processed'
            /\ hook'[j].pc # "done" => hook[j].pc # "done",
         \A e \in processed' : e.settlement = m =>
            e \in processed \/ \E j \in Hook : Handles(j, m) /\ hook[j].event = e
  PROVE  Orderly(m)'
<1>1. BooksTell(m) /\ TaskTells(m) /\ ListTells(m) /\ HandTells(m) /\ OrderTells(m)
  BY DEF Orderly
<1>2. (AtSave(m)' <=> AtSave(m)) /\ (Tasked(m)' <=> Tasked(m)) /\ (OneTask(m)' <=> OneTask(m))
  BY DEF AtSave, Tasked, OneTask, ClerkHas, JobHas, WorkerHas
<1>3. \A kind : Current(m, kind)' = Current(m, kind) /\ Current(m, kind).settlement = m
  BY DEF Current
<1>4. BookedAt(m)' = BookedAt(m)
  BY <1>2, <1>3 DEF BookedAt
<1>5. BooksTell(m)'
  BY <1>1, <1>2, <1>4 DEF BooksTell
<1>6. TaskTells(m)'
  BY <1>1, <1>2, <1>3 DEF TaskTells
<1>7. ListTells(m)'
  BY <1>1 DEF ListTells
<1>8. HandTells(m)'
  BY <1>1, <1>2, <1>4 DEF HandTells
<1>9. OrderTells(m)'
  <2>1. \A e \in events : e.settlement = m /\ e.n # sent[m] => Applied(e)'
    BY <1>1 DEF OrderTells
  <2>2. ASSUME NEW e \in events, e.settlement = m, e.kind = "reversed",
               e \in processed' \/ \E j \in Hook : Handles(j, m)' /\ hook'[j].event = e
        PROVE  [e EXCEPT !.kind = "success"] \in processed'
    <3>1. e \in processed \/ \E j \in Hook : Handles(j, m) /\ hook[j].event = e
      BY <2>2
    <3>2. [e EXCEPT !.kind = "success"] \in processed
      BY <1>1, <2>2, <3>1 DEF OrderTells
    <3> QED BY <3>2
  <2> QED BY <2>1, <2>2 DEF OrderTells
<1> QED BY <1>5, <1>6, <1>7, <1>8, <1>9 DEF Orderly

\* A handler of another settlement's event.
LEMMA HookElsewhere ==
  ASSUME TypeOK, BooksInv, NEW m \in Settlement \ upset, NEW k \in Hook, NEW state,
         UNCHANGED <<events, clerk, jobs, worker, sent>>,
         books'[m] = books[m], status'[m] = status[m], processed \subseteq processed',
         \A e \in processed' : e.settlement = m => e \in processed,
         hook' = [hook EXCEPT ![k] = state],
         ~Handles(k, m), state.pc # "idle" => state.event.settlement # m
  PROVE  Orderly(m)'
<1>1. Orderly(m) /\ HandTells(m)
  BY DEF BooksInv, Orderly
<1>2. \A j \in Hook : hook'[j] = IF j = k THEN state ELSE hook[j]
  BY DEF TypeOK
<1>3. \A j \in Hook : Handles(j, m)' => j # k
  BY <1>2 DEF Handles
<1>4. \A j \in Hook : Handles(j, m)' => Handles(j, m) /\ hook'[j] = hook[j]
  BY <1>2, <1>3 DEF Handles
<1>5. \A e : e.settlement = m => (Applied(e)' <=> Applied(e))
  <2> TAKE e
  <2>1. HAVE e.settlement = m
  <2>2. \A j \in Hook : hook'[j].pc = "done" /\ hook'[j].event = e
                    <=> hook[j].pc = "done" /\ hook[j].event = e
    BY <1>2, <2>1 DEF Handles
  <2>3. e \in processed' <=> e \in processed
    BY <2>1
  <2> QED BY <2>2, <2>3 DEF Applied
<1>6. \A j \in Hook : Handles(j, m)' => hook[j].event \notin processed'
  BY <1>1, <1>4 DEF HandTells, Handles
<1> QED BY <1>1, <1>4, <1>5, <1>6, StillOrderly

\* The only handler of m's events.
LEMMA OnlyHandler ==
  ASSUME BooksInv, NEW m \in Settlement \ upset, NEW k \in Hook, Handles(k, m)
  PROVE  /\ \A j \in Hook \ {k} : ~Handles(j, m)
         /\ hook[k].event \notin processed
BY DEF BooksInv, Orderly, HandTells

\* Delivered alone, an event is that of the current transfer, and its turn has come.
LEMMA DeliverKeepsOrder ==
  ASSUME SettlementInv, BooksInv, NEW k \in Hook, NEW e \in events \ processed,
         NEW m \in Settlement \ upset', e.settlement = m, Deliver(k, e)
  PROVE  Orderly(m)'
<1>1. /\ TypeOK /\ m \notin upset /\ EventsTell(m) /\ Orderly(m)
      /\ BooksTell(m) /\ TaskTells(m) /\ ListTells(m) /\ HandTells(m) /\ OrderTells(m)
  BY DEF SettlementInv, BooksInv, Orderly, Deliver
<1>2. /\ ~InHand(m) /\ ~AtSave(m)
      /\ \A d \in events : d.settlement = m /\ d # e => d \in processed
  BY DEF Deliver
<1>3. /\ hook[k].pc = "idle" /\ hook' = [hook EXCEPT ![k] = [pc |-> "read", event |-> e]]
      /\ UNCHANGED <<events, clerk, jobs, worker, sent, books, status, processed>>
  BY DEF Deliver, rows, queue, paystack
<1> DEFINE state == [pc |-> "read", event |-> e]
<1>4. state.pc = "read" /\ state.event = e /\ \A j \in Hook : hook'[j] = IF j = k THEN state ELSE hook[j]
  BY <1>1, <1>3 DEF TypeOK
<1> HIDE DEF state
<1>5. \A f : Applied(f)' <=> Applied(f)
  BY <1>3, <1>4 DEF Applied
<1>6. \A f : f.settlement = m => (Applied(f) <=> f \in processed)
  BY <1>2 DEF Applied, InHand
<1>7. e.n = sent[m]
  BY <1>1, <1>6 DEF OrderTells
<1>8. e.kind \in Kind /\ e = Current(m, e.kind)
  BY <1>1, <1>7, EventIsCurrent
<1>9. sent[m] # 0
  BY <1>1, <1>7, MerchantSettlementAssumption DEF TypeOK, Event
<1>10. \A kind \in Kind : /\ Current(m, kind).settlement = m
                          /\ Current(m, kind) = e <=> kind = e.kind
                          /\ Applied(Current(m, kind)) => Current(m, kind) \in events
  BY <1>8, AppliedWasSent DEF Current
<1>11. \A kind \in Kind \ {e.kind} : Current(m, kind) \in events => Current(m, kind) \in processed
  BY <1>2, <1>10
<1>12. "success" \in Kind /\ "failed" \in Kind /\ "reversed" \in Kind
  BY DEF Kind
<1>13. e.kind = "reversed" => Current(m, "success") \in processed
  BY <1>1, <1>8, <1>11, <1>12 DEF EventsTell
<1>14. e.kind # "reversed" => ~Applied(Current(m, "reversed"))
  <2> SUFFICES ASSUME e.kind # "reversed", Applied(Current(m, "reversed")) PROVE FALSE
    OBVIOUS
  <2> DEFINE r == Current(m, "reversed")
  <2>1. r \in processed /\ r \in events
    BY <1>6, <1>10, <1>12
  <2>2. r.settlement = m /\ r.kind = "reversed" /\ [r EXCEPT !.kind = "success"] = Current(m, "success")
    BY DEF Current
  <2> HIDE DEF r
  <2>3. Current(m, "success") \in processed
    BY <1>1, <2>1, <2>2 DEF OrderTells
  <2>4. e.kind # "success"
    BY <1>8, <2>3
  <2>5. e.kind = "failed" /\ transfer[m] = "failed"
    BY <1>1, <1>8, <2>4 DEF Kind, EventsTell
  <2> QED BY <1>1, <2>1, <2>5 DEF EventsTell, r
<1>15. BookedAt(m) = IF e.kind = "reversed" THEN "bank" ELSE "transit"
  <2>1. ~Applied(e)
    BY <1>6
  <2>2. CASE e.kind = "success"
    BY <1>1, <1>2, <1>8, <1>9, <1>10, <1>12, <1>14, <2>1, <2>2 DEF BookedAt, EventsTell
  <2>3. CASE e.kind = "failed"
    BY <1>1, <1>2, <1>8, <1>9, <1>10, <1>12, <1>14, <2>1, <2>3 DEF BookedAt, EventsTell
  <2>4. CASE e.kind = "reversed"
    <3>1. ~Applied(Current(m, "failed")) /\ ~Applied(Current(m, "reversed"))
      BY <1>1, <1>8, <1>10, <1>12, <2>1, <2>4 DEF EventsTell
    <3>2. Applied(Current(m, "success"))
      BY <1>13, <2>4 DEF Applied
    <3> QED BY <1>2, <1>9, <2>4, <3>1, <3>2 DEF BookedAt
  <2> QED BY <1>8, <2>2, <2>3, <2>4 DEF Kind
<1>16. (AtSave(m)' <=> AtSave(m)) /\ (Tasked(m)' <=> Tasked(m)) /\ (OneTask(m)' <=> OneTask(m))
  BY <1>3 DEF AtSave, Tasked, OneTask, ClerkHas, JobHas, WorkerHas
<1>17. \A kind : Current(m, kind)' = Current(m, kind)
  BY <1>3 DEF Current
<1>18. BookedAt(m)' = BookedAt(m)
  BY <1>3, <1>5, <1>16, <1>17 DEF BookedAt
<1>19. BooksTell(m)'
  BY <1>1, <1>3, <1>16, <1>18 DEF BooksTell
<1>20. TaskTells(m)'
  BY <1>1, <1>3, <1>5, <1>16, <1>17 DEF TaskTells
<1>21. ListTells(m)'
  BY <1>1, <1>3 DEF ListTells
<1>22. \A j \in Hook : Handles(j, m)' => j = k
  BY <1>2, <1>4 DEF Handles, InHand
<1>23. HandTells(m)'
  BY <1>2, <1>3, <1>4, <1>7, <1>15, <1>16, <1>18, <1>22 DEF HandTells
<1>24. OrderTells(m)'
  <2>1. \A f \in events' : f.settlement = m /\ f.n # sent'[m] => Applied(f)'
    BY <1>1, <1>3, <1>5 DEF OrderTells
  <2>2. ASSUME NEW f \in events', f.settlement = m, f.kind = "reversed",
               f \in processed' \/ \E j \in Hook : Handles(j, m)' /\ hook'[j].event = f
        PROVE  [f EXCEPT !.kind = "success"] \in processed'
    <3>1. CASE f \in processed
      BY <1>1, <1>3, <2>2, <3>1 DEF OrderTells
    <3>2. CASE f = e
      <4>1. [f EXCEPT !.kind = "success"] = Current(m, "success")
        BY <1>8, <3>2 DEF Current
      <4> QED BY <1>3, <1>13, <2>2, <3>2, <4>1
    <3> QED BY <1>3, <1>4, <1>22, <2>2, <3>1, <3>2
  <2> QED BY <2>1, <2>2 DEF OrderTells
<1> QED BY <1>19, <1>20, <1>21, <1>23, <1>24 DEF Orderly

\* Applying an event in hand books what it tells.
LEMMA ApplyKeepsOrder ==
  ASSUME SettlementInv, BooksInv, NEW k \in Hook, ApplyEvent(k),
         NEW m \in Settlement \ upset, hook[k].event.settlement = m
  PROVE  Orderly(m)'
<1> DEFINE e == hook[k].event
           from == IF e.kind = "reversed" THEN "bank" ELSE "transit"
           to == IF e.kind = "success" THEN "bank" ELSE "payable"
<1>1. /\ TypeOK /\ HooksKnow /\ Orderly(m) /\ EventsTell(m)
      /\ BooksTell(m) /\ TaskTells(m) /\ ListTells(m) /\ HandTells(m) /\ OrderTells(m)
  BY DEF SettlementInv, BooksInv, Orderly
<1>2. /\ hook[k].pc = "apply" /\ Handles(k, m) /\ e \in events
      /\ hook' = [hook EXCEPT ![k].pc = "done"]
      /\ UNCHANGED <<events, clerk, jobs, worker, sent, processed, upset>>
  BY DEF ApplyEvent, queue, paystack, Handles, SettlementInv, HooksKnow
<1>3. /\ e \notin processed /\ \A j \in Hook \ {k} : ~Handles(j, m)
      /\ e.n = sent[m] /\ ~AtSave(m) /\ BookedAt(m) = from
  BY <1>1, <1>2 DEF HandTells
<1>4. e.kind \in Kind /\ e = Current(m, e.kind)
  BY <1>1, <1>2, <1>3, EventIsCurrent
<1>5. /\ status' = [status EXCEPT ![m] = StatusOf(e.kind)]
      /\ Book(m, from, to)
  BY <1>4 DEF ApplyEvent, Kind
<1>6. from \in Account /\ to \in Account /\ from # to
  BY <1>4 DEF Account, Kind
<1>7. hook[k] = [pc |-> hook[k].pc, event |-> hook[k].event]
  BY <1>1, <1>2, HookHasEvent
<1>8. \A j \in Hook : /\ hook'[j].event = hook[j].event \/ j # k
                      /\ hook'[j].pc = "done" \/ j # k
                      /\ j # k => hook'[j] = hook[j]
  BY <1>1, <1>2, <1>7 DEF TypeOK
<1>9. sent[m] # 0
  BY <1>1, <1>2, <1>3, MerchantSettlementAssumption DEF TypeOK, Event
<1> HIDE DEF e
<1>10. \A f : Applied(f)' <=> Applied(f) \/ f = e
  <2> TAKE f
  <2>1. hook'[k].pc = "done" /\ hook'[k].event = e
    BY <1>8 DEF e
  <2>2. hook[k].pc # "done"
    BY <1>2
  <2> QED BY <1>2, <1>8, <2>1, <2>2 DEF Applied
<1>11. \A kind \in Kind : /\ Current(m, kind)' = Current(m, kind)
                          /\ Current(m, kind) = e <=> kind = e.kind
  BY <1>2, <1>4 DEF Current
<1>12. "success" \in Kind /\ "failed" \in Kind /\ "reversed" \in Kind
  BY DEF Kind
<1>13. /\ AtSave(m)' <=> AtSave(m)
       /\ Tasked(m)' <=> Tasked(m)
       /\ OneTask(m)' <=> OneTask(m)
  BY <1>2 DEF AtSave, Tasked, OneTask, ClerkHas, JobHas, WorkerHas
<1>14. BookedAt(m)' = to
  <2>1. from # "payable" => ~Applied(Current(m, "failed")) /\ ~Applied(Current(m, "reversed"))
    BY <1>3 DEF BookedAt
  <2>2. CASE e.kind = "success"
    BY <1>2, <1>3, <1>9, <1>10, <1>11, <1>12, <1>13, <2>1, <2>2 DEF BookedAt
  <2>3. CASE e.kind # "success"
    <3>1. e.kind \in {"failed", "reversed"}
      BY <1>4, <2>3 DEF Kind
    <3>2. Applied(Current(m, "failed"))' \/ Applied(Current(m, "reversed"))'
      BY <1>2, <1>4, <1>10, <1>11, <1>12, <3>1 DEF Applied
    <3> QED BY <2>3, <3>2 DEF BookedAt
  <2> QED BY <2>2, <2>3
<1>15. ~Tasked(m) /\ status[m] \in {"TRANSFER_INITIATED", "TRANSFER_SUCCESS"}
  BY <1>1, <1>3 DEF BooksTell, TaskTells
<1>16. status'[m] = StatusOf(e.kind)
  BY <1>1, <1>5 DEF TypeOK
<1>17. BooksTell(m)'
  <2>1. books[m] = [a \in Account |-> IF a = from THEN 1 ELSE 0]
    BY <1>1, <1>3 DEF BooksTell
  <2>2. books'[m] = [a \in Account |-> IF a = to THEN 1 ELSE 0]
    BY <1>1, <1>5, <1>6, <2>1, BookMovesPiece
  <2>3. status'[m] = "TRANSFER_SUCCESS" <=> to = "bank"
    BY <1>4, <1>16 DEF StatusOf, Kind
  <2> QED BY <1>14, <2>2, <2>3 DEF BooksTell
<1>18. TaskTells(m)'
  BY <1>1, <1>3, <1>13, <1>15 DEF TaskTells
<1>19. ListTells(m)'
  BY <1>1, <1>2, <1>15 DEF ListTells
<1>20. \A j \in Hook : Handles(j, m)' => j = k
  BY <1>3, <1>8 DEF Handles
<1>21. HandTells(m)'
  BY <1>2, <1>3, <1>8, <1>20 DEF HandTells, e
<1>22. OrderTells(m)'
  <2>1. \A f \in events' : f.settlement = m /\ f.n # sent'[m] => Applied(f)'
    BY <1>1, <1>2, <1>10 DEF OrderTells
  <2>2. \A f : (\E j \in Hook : Handles(j, m)' /\ hook'[j].event = f)
                 => \E j \in Hook : Handles(j, m) /\ hook[j].event = f
    BY <1>2, <1>8, <1>20
  <2>3. ASSUME NEW f \in events', f.settlement = m, f.kind = "reversed",
               f \in processed' \/ \E j \in Hook : Handles(j, m)' /\ hook'[j].event = f
        PROVE  [f EXCEPT !.kind = "success"] \in processed'
    BY <1>1, <1>2, <2>2, <2>3 DEF OrderTells
  <2> QED BY <2>1, <2>3 DEF OrderTells
<1> QED BY <1>17, <1>18, <1>19, <1>21, <1>22 DEF Orderly

LEMMA HookKeepsBooks ==
  ASSUME SettlementInv, BooksInv, NEW k \in Hook, HookStep(k) \/ CrashHook(k)
  PROVE  BooksInv'
<1>1. TypeOK /\ HooksKnow
  BY DEF SettlementInv
<1>2. /\ UNCHANGED <<transfer, sent, events, clerk, jobs, worker>>
      /\ upset \subseteq upset' /\ processed \subseteq processed'
  BY DEF HookStep, Deliver, ReadSettlement, ApplyEvent, MarkProcessed, CrashHook, queue, paystack
<1>3. \A m \in Settlement : EventsTell(m)'
  BY <1>2, EventsStillTell
<1> SUFFICES ASSUME NEW m \in Settlement \ upset' PROVE Orderly(m)'
  BY <1>3 DEF BooksInv
<1>4. m \in Settlement \ upset /\ Orderly(m) /\ HandTells(m)
  BY <1>2 DEF BooksInv, Orderly
<1>5. IdleHook.pc = "idle"
  BY DEF IdleHook
<1>6. ASSUME NEW e \in events, Deliver(k, e) PROVE Orderly(m)'
  <2>1. CASE e.settlement = m
    BY <1>6, <2>1, DeliverKeepsOrder DEF Deliver
  <2>2. CASE e.settlement # m
    <3> DEFINE state == [pc |-> "read", event |-> e]
    <3>1. state.event = e /\ hook' = [hook EXCEPT ![k] = state] /\ ~Handles(k, m)
          /\ UNCHANGED <<books, status, processed>>
      BY <1>6 DEF Deliver, Handles, rows
    <3> HIDE DEF state
    <3> QED BY <1>1, <1>2, <1>4, <2>2, <3>1, HookElsewhere
  <2> QED BY <2>1, <2>2
<1>7. CASE ReadSettlement(k)
  <2>1. hook[k].pc = "read" /\ UNCHANGED <<books, status, processed>>
    BY <1>7 DEF ReadSettlement, rows
  <2>2. PICK pc \in {"done", "apply"} : /\ hook' = [hook EXCEPT ![k].pc = pc]
                                        /\ pc = "done" => status[hook[k].event.settlement] = StatusOf(hook[k].event.kind)
    BY <1>7 DEF ReadSettlement
  <2>3. hook[k] = [pc |-> hook[k].pc, event |-> hook[k].event] /\ hook[k].event \in Event
    BY <1>1, <2>1, HookHasEvent
  <2>4. \A j \in Hook : /\ hook'[j].event = hook[j].event \/ j # k
                        /\ hook'[j].pc = pc \/ j # k
                        /\ j # k => hook'[j] = hook[j]
    BY <1>1, <2>2, <2>3 DEF TypeOK
  <2>5. Handles(k, m) => pc = "apply"
    <3> SUFFICES ASSUME Handles(k, m), pc = "done" PROVE FALSE
      BY <2>2
    <3>1. /\ BookedAt(m) = IF hook[k].event.kind = "reversed" THEN "bank" ELSE "transit"
          /\ status[m] = StatusOf(hook[k].event.kind)
      BY <1>4, <2>1, <2>2 DEF HandTells, Handles
    <3>2. hook[k].event.kind \in Kind
      BY <1>1, <2>1, HookHasEvent
    <3> QED BY <1>4, <3>1, <3>2 DEF Orderly, BooksTell, StatusOf, Kind
  <2>6. \A j \in Hook : Handles(j, m)' <=> Handles(j, m)
    BY <2>1, <2>2, <2>4 DEF Handles
  <2>7. \A e : e.settlement = m => (Applied(e)' <=> Applied(e))
    <3>1. \A j \in Hook : Handles(j, m) => (hook'[j].pc = "done" <=> hook[j].pc = "done")
                                           /\ hook'[j].event = hook[j].event
      BY <2>1, <2>2, <2>4, <2>5
    <3>2. \A e : e.settlement = m =>
             \A j \in Hook : hook'[j].pc = "done" /\ hook'[j].event = e <=> hook[j].pc = "done" /\ hook[j].event = e
      BY <2>6, <3>1 DEF Handles
    <3> QED BY <2>1, <3>2 DEF Applied
  <2>8. \A j \in Hook : Handles(j, m)' =>
            /\ Handles(j, m) /\ hook'[j].event = hook[j].event
            /\ hook[j].event \notin processed'
            /\ hook'[j].pc # "done" => hook[j].pc # "done"
    BY <1>4, <2>1, <2>4, <2>6 DEF HandTells
  <2> QED BY <1>1, <1>2, <1>4, <2>1, <2>7, <2>8, StillOrderly
<1>8. CASE ApplyEvent(k)
  <2>1. CASE hook[k].event.settlement = m
    BY <1>4, <1>8, <2>1, ApplyKeepsOrder
  <2>2. CASE hook[k].event.settlement # m
    <3> DEFINE state == [hook[k] EXCEPT !.pc = "done"]
               n == hook[k].event.settlement
    <3>1. hook' = [hook EXCEPT ![k] = state] /\ ~Handles(k, m) /\ processed' = processed
      BY <1>8, <2>2 DEF ApplyEvent, Handles
    <3>2. hook[k].pc # "idle"
      BY <1>8 DEF ApplyEvent
    <3>3. hook[k] = [pc |-> hook[k].pc, event |-> hook[k].event]
      BY <1>1, <3>2, HookHasEvent
    <3>4. state.event = hook[k].event
      BY <3>3
    <3>5. status' = [status EXCEPT ![n] = StatusOf(hook[k].event.kind)]
      BY <1>8 DEF ApplyEvent
    <3>6. \E row : books' = [books EXCEPT ![n] = row]
      <4>1. hook[k].event.kind \in Kind
        BY <1>1, <3>2, HookHasEvent
      <4>2. Book(n, "transit", "bank") \/ Book(n, "transit", "payable") \/ Book(n, "bank", "payable")
        BY <1>8, <4>1 DEF ApplyEvent, Kind
      <4> QED BY <4>2 DEF Book
    <3> HIDE DEF state
    <3>7. status'[m] = status[m] /\ books'[m] = books[m]
      BY <1>1, <2>2, <3>5, <3>6 DEF TypeOK
    <3> QED BY <1>1, <1>2, <1>4, <2>2, <3>1, <3>4, <3>7, HookElsewhere
  <2> QED BY <2>1, <2>2
<1>9. CASE MarkProcessed(k)
  <2> DEFINE e == hook[k].event
  <2>1. hook[k].pc = "done" /\ processed' = processed \cup {e} /\ hook' = [hook EXCEPT ![k] = IdleHook]
        /\ UNCHANGED <<books, status>>
    BY <1>9 DEF MarkProcessed, rows
  <2>2. \A j \in Hook : hook'[j] = IF j = k THEN IdleHook ELSE hook[j]
    BY <1>1, <2>1 DEF TypeOK
  <2>3. \A f : Applied(f)' <=> Applied(f)
    BY <1>5, <2>1, <2>2 DEF Applied
  <2>4. \A j \in Hook : Handles(j, m)' =>
            /\ Handles(j, m) /\ hook'[j].event = hook[j].event
            /\ hook[j].event \notin processed'
            /\ hook'[j].pc # "done" => hook[j].pc # "done"
    <3> SUFFICES ASSUME NEW j \in Hook, Handles(j, m)'
                 PROVE  /\ Handles(j, m) /\ hook'[j].event = hook[j].event
                        /\ hook[j].event \notin processed'
                        /\ hook'[j].pc # "done" => hook[j].pc # "done"
      OBVIOUS
    <3>1. j # k /\ hook'[j] = hook[j] /\ Handles(j, m)
      BY <1>5, <2>2 DEF Handles
    <3>2. hook[j].event \notin processed /\ ~Handles(k, m)
      BY <1>4, <3>1, OnlyHandler DEF HandTells
    <3>3. hook[j].event # e
      BY <2>1, <3>1, <3>2 DEF Handles
    <3> QED BY <2>1, <3>1, <3>2, <3>3
  <2>5. \A f \in processed' : f.settlement = m =>
            f \in processed \/ \E j \in Hook : Handles(j, m) /\ hook[j].event = f
    BY <2>1 DEF Handles
  <2> QED BY <1>1, <1>2, <1>4, <2>1, <2>3, <2>4, <2>5, StillOrderly
<1>10. CASE CrashHook(k)
  <2>1. /\ hook' = [hook EXCEPT ![k] = IdleHook] /\ UNCHANGED <<books, status, processed>>
        /\ Handles(k, m) => hook[k].pc # "done"
    BY <1>10 DEF CrashHook, Handles, rows
  <2>2. \A j \in Hook : hook'[j] = IF j = k THEN IdleHook ELSE hook[j]
    BY <1>1, <2>1 DEF TypeOK
  <2>3. \A f : f.settlement = m => (Applied(f)' <=> Applied(f))
    BY <1>5, <2>1, <2>2 DEF Applied, Handles
  <2>4. \A j \in Hook : Handles(j, m)' =>
            /\ Handles(j, m) /\ hook'[j].event = hook[j].event
            /\ hook[j].event \notin processed'
            /\ hook'[j].pc # "done" => hook[j].pc # "done"
    BY <1>4, <1>5, <2>1, <2>2 DEF Handles, HandTells
  <2> QED BY <1>1, <1>2, <1>4, <2>1, <2>3, <2>4, StillOrderly
<1> QED BY <1>6, <1>7, <1>8, <1>9, <1>10 DEF HookStep

\* Nothing is booked for a settlement that has not been sent.
LEMMA BooksInit == Init => BooksInv
<1> SUFFICES ASSUME Init PROVE BooksInv
  OBVIOUS
<1>1. TypeOK /\ Scheduler \in Clerk
  BY SettlementInit DEF SettlementInv, Clerk
<1>2. IdleClerk.pc = "idle" /\ IdleWorker.pc = "idle" /\ IdleHook.pc = "idle"
  BY DEF IdleClerk, ClerkAt, IdleWorker, IdleHook
<1>3. /\ \A x \in Clerk : clerk[x].pc = "idle"
      /\ \A w \in Worker : worker[w].pc = "idle"
      /\ \A k \in Hook : hook[k].pc = "idle"
      /\ jobs = {} /\ events = {} /\ processed = {}
  BY <1>2 DEF Init
<1> SUFFICES ASSUME NEW m \in Settlement PROVE EventsTell(m) /\ Orderly(m)
  BY DEF BooksInv
<1>4. /\ transfer[m] = "none" /\ sent[m] = 0 /\ status[m] = "NONE"
      /\ books[m] = [a \in Account |-> IF a = "payable" THEN 1 ELSE 0]
  BY DEF Init
<1>5. EventsTell(m)
  BY <1>3, <1>4 DEF EventsTell
<1>6. BookedAt(m) = "payable"
  BY <1>4 DEF BookedAt
<1>7. BooksTell(m)
  BY <1>4, <1>6 DEF BooksTell
<1>8. ~Tasked(m) /\ ~AtSave(m) /\ OneTask(m)
  BY <1>3 DEF Tasked, AtSave, OneTask, ClerkHas, WorkerHas
<1>9. TaskTells(m) /\ ListTells(m)
  BY <1>1, <1>3, <1>8 DEF TaskTells, ListTells
<1>10. HandTells(m) /\ OrderTells(m)
  BY <1>3 DEF HandTells, OrderTells, Handles
<1> QED BY <1>5, <1>7, <1>9, <1>10 DEF Orderly

LEMMA BooksNext == SettlementInv /\ BooksInv /\ [Next]_vars => BooksInv'
<1> SUFFICES ASSUME SettlementInv, BooksInv, [Next]_vars PROVE BooksInv'
  OBVIOUS
<1>1. Scheduler \in Clerk /\ Handler \subseteq Clerk /\ Scheduler \notin Handler
  BY MerchantSettlementAssumption DEF Clerk
<1>2. ASSUME UNCHANGED <<rows, clerk, queue, worker, paystack, hooks, upset>> PROVE BooksInv'
  <2>1. \A m \in Settlement : EventsTell(m)'
    BY <1>2, EventsStillTell DEF paystack
  <2>2. ASSUME NEW m \in Settlement \ upset PROVE Orderly(m)'
    <3>1. Orderly(m) /\ HandTells(m) /\ TypeOK
      BY DEF BooksInv, Orderly, SettlementInv
    <3>2. UNCHANGED <<events, processed, hook, clerk, jobs, worker, sent, books, status>>
      BY <1>2 DEF rows, queue, paystack, hooks
    <3>3. \A j \in Hook : Handles(j, m)' => Handles(j, m) /\ hook[j].event \notin processed
      BY <3>1, <3>2 DEF Handles, HandTells
    <3>4. \A e : Applied(e)' <=> Applied(e)
      BY <3>2 DEF Applied
    <3> QED BY <3>1, <3>2, <3>3, <3>4, StillOrderly
  <2> QED BY <1>2, <2>1, <2>2 DEF BooksInv
<1>3. ASSUME NEW i \in Installment, PayInstallment(i) PROVE BooksInv'
  BY <1>2, <1>3 DEF PayInstallment
<1>4. CASE AddBankAccount
  BY <1>2, <1>4 DEF AddBankAccount
<1>5. CASE WeeklyRun
  BY <1>1, <1>5, ClerkKeepsBooks DEF WeeklyRun
<1>6. ASSUME NEW h \in Handler,
             RequestStep(h) \/ ReadUnsettled(h) \/ \E m \in Settlement : ReadRetryable(h, m)
      PROVE  BooksInv'
  <2>1. h \in Clerk /\ h # Scheduler
    BY <1>1
  <2> QED BY <1>6, <2>1, ClerkKeepsBooks DEF RequestStep
<1>7. ASSUME NEW x \in Clerk, CrashClerk(x) PROVE BooksInv'
  BY <1>7, ClerkKeepsBooks
<1>8. ASSUME NEW w \in Worker, WorkerStep(w) \/ CrashWorker(w) PROVE BooksInv'
  BY <1>8, WorkerKeepsBooks, CallKeepsBooks, SaveKeepsBooks DEF WorkerStep
<1>9. ASSUME NEW m \in Settlement, SettleTransfer(m) PROVE BooksInv'
  BY <1>9, SettleKeepsBooks
<1>10. ASSUME NEW k \in Hook, HookStep(k) \/ CrashHook(k) PROVE BooksInv'
  BY <1>10, HookKeepsBooks
<1>11. CASE UNCHANGED vars
  BY <1>2, <1>11 DEF vars
<1> QED BY <1>3, <1>4, <1>5, <1>6, <1>7, <1>8, <1>9, <1>10, <1>11 DEF Next

(* Whatever is retried, refused, lost or reversed, a settlement none of    *)
(* the named mishaps has met is booked where Paystack holds its money once *)
(* nothing is outstanding, and TRANSFER_SUCCESS exactly if that is the bank. *)
THEOREM BooksFollowMoneyHolds == Spec => []BooksFollowMoney
<1>1. Init => SettlementInv /\ BooksInv
  BY SettlementInit, BooksInit
<1>2. SettlementInv /\ BooksInv /\ [Next]_vars => SettlementInv' /\ BooksInv'
  BY SettlementNext, BooksNext
<1>3. SettlementInv /\ BooksInv => BooksFollowMoney
  BY OrderlyAtRest
<1> QED BY <1>1, <1>2, <1>3, PTL DEF Spec

-----------------------------------------------------------------------------
(* The variables keep their types: no job is queued for a settlement that  *)
(* does not exist, no event is marked processed that was not sent.         *)
THEOREM SettlementTypeHolds == Spec => []TypeOK
<1>1. SettlementInv => TypeOK
  BY DEF SettlementInv
<1> QED BY <1>1, SettlementInit, SettlementNext, PTL DEF Spec

(* A settlement is TRANSFER_SUCCESS only after a transfer.success event.   *)
THEOREM SuccessWasConfirmedHolds == Spec => []SuccessWasConfirmed
<1>1. SettlementInv => SuccessWasConfirmed
  BY DEF SettlementInv
<1> QED BY <1>1, SettlementInit, SettlementNext, PTL DEF Spec

(* Overlapping generations and retries never pay an installment twice.     *)
THEOREM PaidOutOnceHolds == Spec => []PaidOutOnce
<1>1. SettlementInv => PaidOutOnce
  BY DEF SettlementInv, PaidOutOnce, OneLine, ArrivedIsHeld
<1> QED BY <1>1, SettlementInit, SettlementNext, PTL DEF Spec
=============================================================================
