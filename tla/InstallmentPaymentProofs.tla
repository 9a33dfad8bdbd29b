----------------------- MODULE InstallmentPaymentProofs -----------------------
(***************************************************************************)
(* The safety of paying installments, for every contract, every number of  *)
(* intents, requests, webhook handlers, jobs, attempts and faults, on the  *)
(* assumption of PaymentLinkProofs that recovery sweeps do not overlap.    *)
(*                                                                         *)
(* Every step is a step of PaymentIntent or leaves the intents alone, so   *)
(* that the invariants proved of PaymentIntent hold here: above all, what  *)
(* was charged is the current reference of an intent with an installment,  *)
(* and keeps it.  On that rest, in order:                                  *)
(*   - installments become PAID at a Commit only, and stay so;             *)
(*   - a success is told by a worker that has found its installment PAID,  *)
(*     or holds the lock of its row until it is paid;                      *)
(*   - whatever is checked, reserved or booked has only PAID installments  *)
(*     before it, so that the payment that leaves nothing unpaid is of the *)
(*     last one, which no PENDING one follows;                             *)
(*   - while no job was taken twice and no transaction lost, a worker that *)
(*     is about to pay has the one open intent of its installment, as the  *)
(*     key is freed by a success that its worker then pays for.            *)
(***************************************************************************)
EXTENDS InstallmentPayment, TLAPS

P == INSTANCE PaymentLinkProofs

IntentInv == P!IInv /\ P!LinkInv

BusyHook == [pc: {"charge", "enqueue", "done"}, ref: Reference]
BusyWorker ==
    [pc: {"read", "stale", "verify", "apply", "commit", "completing", "fail", "exhausted"},
     ref: Reference, completes: BOOLEAN, lost: BOOLEAN]
JobState == [state: {"none", "waiting", "active", "failed"}, left: 0 .. JobAttempts]

\* What the payment path works on has been charged.
RefsCharged ==
    /\ \A h \in Hook : hook[h].pc # "idle" => hook[h].ref \in charged
    /\ \A w \in Worker : worker[w].pc # "idle" => worker[w].ref \in charged
    /\ \A ref \in Reference : job[ref].state # "none" => ref \in charged
    /\ booked \subseteq charged

PathInv == IntentInv /\ TypeOK /\ RefsCharged

-----------------------------------------------------------------------------
(* The instance of PaymentIntent here is the one its theorems are about.   *)

LEMMA Assumed == P!PaymentIntentAssumption
BY InstallmentPaymentAssumption DEF P!PaymentIntentAssumption, ReplayKey

LEMMA SameTypes == P!TypeOK <=> PI!TypeOK
BY DEF P!TypeOK, PI!TypeOK, P!Status, PI!Status, P!ActiveStatus, PI!ActiveStatus,
       P!TerminalStatus, PI!TerminalStatus, P!RequestState, PI!RequestState,
       P!SweepState, PI!SweepState, P!Reference, PI!Reference

LEMMA SameInit == P!Init <=> PI!Init
BY DEF P!Init, PI!Init, P!IdleRequest, PI!IdleRequest, P!RequestAt, PI!RequestAt,
       P!IdleSweep, PI!IdleSweep, P!SweepAt, PI!SweepAt

LEMMA SameReserve ==
  ASSUME NEW r \in Request, NEW k \in Key
  PROVE  PI!Reserve(r, k) <=> P!Reserve(r, k)
BY DEF PI!Reserve, P!Reserve, PI!InsertIntent, P!InsertIntent, PI!ActiveFor, P!ActiveFor,
       PI!ActiveStatus, P!ActiveStatus, PI!RequestAt, P!RequestAt, PI!rowVars, P!rowVars,
       PI!payerVars, P!payerVars

LEMMA SameRequest ==
  ASSUME NEW r \in Request
  PROVE  /\ PI!RequestStep(r) <=> P!RequestStep(r)
         /\ PI!CrashRequest(r) <=> P!CrashRequest(r)
BY DEF PI!RequestStep, P!RequestStep, PI!ReserveAgain, P!ReserveAgain, PI!InsertIntent,
       P!InsertIntent, PI!ActiveFor, P!ActiveFor, PI!ActiveStatus, P!ActiveStatus,
       PI!FindActive, P!FindActive, PI!OpenTransaction, P!OpenTransaction,
       PI!OpenFails, P!OpenFails, PI!SaveReference, P!SaveReference,
       PI!FailRequest, P!FailRequest, PI!AnswerRequest, P!AnswerRequest,
       PI!CrashRequest, P!CrashRequest, PI!Open, P!Open, PI!IdleRequest, P!IdleRequest,
       PI!RequestAt, P!RequestAt, PI!TransitionStatus, P!TransitionStatus,
       PI!ReleaseClaim, P!ReleaseClaim, PI!MarkInitialized, P!MarkInitialized,
       PI!MarkEnded, P!MarkEnded, PI!Mark, P!Mark, PI!rowVars, P!rowVars,
       PI!payerVars, P!payerVars

LEMMA SameSweep ==
  ASSUME NEW s \in Sweeper
  PROVE  /\ PI!Claim(s) <=> P!Claim(s)
         /\ PI!SweepStep(s) <=> P!SweepStep(s)
<1>1. PI!SweepStep(s) <=> P!SweepStep(s)
  BY DEF PI!SweepStep, P!SweepStep, PI!ReadClaimed, P!ReadClaimed, PI!EndClaimed, P!EndClaimed,
       PI!Replay, P!Replay, PI!ReplayFails, P!ReplayFails, PI!SaveReplay, P!SaveReplay,
       PI!RecordFailure, P!RecordFailure, PI!ExpireStale, P!ExpireStale,
       PI!NextClaimed, P!NextClaimed, PI!SweepAt, P!SweepAt, PI!IdleSweep, P!IdleSweep,
       PI!Open, P!Open, PI!ActiveStatus, P!ActiveStatus, PI!TransitionStatus,
       P!TransitionStatus, PI!ReleaseClaim, P!ReleaseClaim, PI!MarkInitialized,
       P!MarkInitialized, PI!MarkEnded, P!MarkEnded, PI!rowVars, P!rowVars,
       PI!payerVars, P!payerVars
<1>2. PI!Claim(s) <=> P!Claim(s)
  BY DEF PI!Claim, P!Claim, PI!SweepAt, P!SweepAt, PI!payerVars, P!payerVars
<1> QED BY <1>1, <1>2

LEMMA SameOther ==
  ASSUME NEW i \in Intent
  PROVE  /\ PI!GrowStale(i) <=> P!GrowStale(i)
         /\ PI!Lapse(i) <=> P!Lapse(i)
         /\ PI!LeaseEnds(i) <=> P!LeaseEnds(i)
         /\ \A n \in 1 .. MaxOpened : /\ PI!Pay(i, n) <=> P!Pay(i, n)
                                      /\ PI!Settle(i, n) <=> P!Settle(i, n)
BY DEF PI!GrowStale, P!GrowStale, PI!Lapse, P!Lapse, PI!LeaseEnds, P!LeaseEnds, PI!Pay, P!Pay,
       PI!Settle, P!Settle, PI!Mark, P!Mark, PI!MarkEnded, P!MarkEnded,
       PI!TransitionStatus, P!TransitionStatus, PI!ReleaseClaim, P!ReleaseClaim,
       PI!Open, P!Open, PI!ActiveStatus, P!ActiveStatus, PI!Creating, P!Creating,
       PI!rowVars, P!rowVars, PI!payerVars, P!payerVars

-----------------------------------------------------------------------------
(* Every step is one of PaymentIntent or leaves the intents alone.         *)

LEMMA ChargedFacts ==
  ASSUME IntentInv, NEW ref \in charged
  PROVE  /\ ref \in Reference /\ ref[1] \in Intent /\ ref[2] \in 1 .. MaxOpened
         /\ Found(ref)
         /\ status[ref[1]] \notin {"UNUSED", "INITIALIZING"}
         /\ InstallmentOf(ref) \in Key
<1>1. PICK i \in Intent, n \in 1 .. MaxOpened : ref = <<i, n>>
  BY DEF IntentInv, P!IInv, P!TypeOK, P!Reference
<1>2. <<i, n>> \in links
  BY <1>1 DEF IntentInv, P!LinkInv
<1>3. reference[i] = n
  BY <1>2 DEF IntentInv, P!LinkInv, P!LinkIsCurrent, ReplayKey
<1>4. status[i] \notin {"UNUSED", "INITIALIZING"}
  BY <1>2 DEF IntentInv, P!LinkInv, P!EarlyHasNoLink, P!NoLink
<1>5. key[i] \in Key
  BY <1>4 DEF IntentInv, P!IInv, P!RowsKeyed
<1> QED BY <1>1, <1>3, <1>4, <1>5 DEF Reference, Found, InstallmentOf

LEMMA MarkIsSettle ==
  ASSUME IntentInv, NEW ref \in charged,
         \/ PI!Mark(ref[1], "PROCESSING") \/ PI!Mark(ref[1], "SUCCESS")
         \/ PI!MarkEnded(ref[1], "FAILED"),
         UNCHANGED <<opened, req, sweep, links, charged, crashes>>
  PROVE  P!Next
<1>1. PICK i \in Intent, n \in 1 .. MaxOpened : ref = <<i, n>>
  BY DEF IntentInv, P!IInv, P!TypeOK, P!Reference
<1>2. reference[i] = n
  BY <1>1, ChargedFacts DEF Found
<1>3. PI!Settle(i, n)
  BY <1>1, <1>2 DEF PI!Settle, PI!payerVars
<1> QED BY <1>3, SameOther DEF P!Next

LEMMA StepsKeepRules ==
  ASSUME PathInv, [Next]_vars
  PROVE  [P!Next]_(P!vars)
<1>1. ASSUME UNCHANGED intentVars PROVE UNCHANGED P!vars
  BY <1>1 DEF intentVars, P!vars
<1>2. ASSUME IntentStep PROVE P!Next
  BY <1>2, SameRequest, SameSweep, SameOther DEF IntentStep, P!Next
<1>3. ASSUME NEW r \in Request, ReserveChecked(r) PROVE P!Next
  <2>1. checked[r] \in Key
    BY <1>3 DEF ReserveChecked, PathInv, TypeOK
  <2> QED BY <1>3, <2>1, SameReserve DEF ReserveChecked, P!Next
<1>4. ASSUME NEW r \in Request, NEW k \in Key, CheckPayable(r, k) PROVE UNCHANGED intentVars
  BY <1>4 DEF CheckPayable
<1>5. ASSUME NEW k \in Key, FallDue(k) PROVE UNCHANGED intentVars
  BY <1>5 DEF FallDue
<1>6. ASSUME NEW h \in Hook,
             \/ HookStep(h) \/ CrashHook(h) \/ \E ref \in charged : DeliverCharge(h, ref)
      PROVE  P!Next \/ UNCHANGED intentVars
  <2>1. CASE MarkCharge(h)
    <3>1. hook[h].ref \in charged
      BY <2>1 DEF MarkCharge, PathInv, RefsCharged
    <3> QED BY <2>1, <3>1, MarkIsSettle DEF MarkCharge, PathInv, rowVars, intentVars
  <2>2. CASE ~MarkCharge(h)
    BY <1>6, <2>2 DEF HookStep, EnqueueCharge, MarkChargeProcessed, CrashHook, DeliverCharge
  <2> QED BY <2>1, <2>2
<1>7. ASSUME NEW w \in Worker, WorkerStep(w) \/ Abort(w) \/ Stall(w) \/ CrashWorker(w)
      PROVE  P!Next \/ UNCHANGED intentVars
  <2>1. CASE MarkStale(w) \/ MarkApplied(w) \/ MarkChargeFailed(w)
    <3>1. worker[w].ref \in charged
      BY <2>1 DEF MarkStale, MarkApplied, MarkChargeFailed, Moves, PathInv, RefsCharged
    <3> QED BY <2>1, <3>1, MarkIsSettle
            DEF MarkStale, MarkApplied, MarkChargeFailed, PathInv, rowVars, intentVars
  <2>2. CASE ~(MarkStale(w) \/ MarkApplied(w) \/ MarkChargeFailed(w))
    BY <1>7, <2>2 DEF WorkerStep, TakeJob, ReadInstallment, Verify, Commit, CompleteJob,
                      FailAttempt, Abort, Stall, CrashWorker
  <2> QED BY <2>1, <2>2
<1>8. CASE UNCHANGED vars
  BY <1>1, <1>8 DEF vars
<1> QED BY <1>1, <1>2, <1>3, <1>4, <1>5, <1>6, <1>7, <1>8 DEF Next

LEMMA IntentInvNext ==
  ASSUME P!OneSweep, PathInv, [Next]_vars
  PROVE  IntentInv'
<1>1. [P!Next]_(P!vars)
  BY StepsKeepRules
<1>2. P!IInv'
  BY <1>1, Assumed, P!NextInv DEF PathInv, IntentInv
<1>3. P!LinkInv'
  BY <1>1, Assumed, P!LinkNext DEF PathInv, IntentInv
<1> QED BY <1>2, <1>3 DEF IntentInv

-----------------------------------------------------------------------------
(* Types, and what the payment path works on.                              *)

PathTypes ==
    /\ istatus \in [Key -> Unpaid \cup {"PAID"}]
    /\ contract \in {"ACTIVE", "COMPLETED"}
    /\ checked \in [Request -> Key \cup {NoKey}]
    /\ processed \subseteq Reference
    /\ hook \in [Hook -> BusyHook \cup {IdleHook}]
    /\ job \in [Reference -> JobState]
    /\ worker \in [Worker -> BusyWorker \cup {IdleWorker}]
    /\ booked \subseteq Reference
    /\ twice \subseteq Key
    /\ died \in 0 .. MaxFault
    /\ stalls \in 0 .. MaxFault
    /\ aborts \in 0 .. MaxFault

LEMMA TypeParts == TypeOK <=> PI!TypeOK /\ PathTypes
BY DEF TypeOK, PathTypes, BusyHook, BusyWorker, JobState

LEMMA TypePartsAfter == TypeOK' <=> PI!TypeOK' /\ PathTypes'
BY TypeParts, PTL

LEMMA SameTypesAfter == P!TypeOK' <=> PI!TypeOK'
BY SameTypes, PTL

\* A step that leaves the queue, the handlers and the books alone.
PathStill == UNCHANGED <<istatus, contract, booked, twice, processed, hook, job, worker,
                         died, stalls, aborts>>

LEMMA ChargedGrows ==
  ASSUME PathInv, [Next]_vars
  PROVE  charged \subseteq charged'
<1>1. [P!Next]_(P!vars)
  BY StepsKeepRules
<1> QED
  BY <1>1 DEF P!Next, P!vars, P!RequestStep, P!CrashRequest, P!Reserve, P!ReserveAgain,
       P!FindActive, P!OpenTransaction, P!OpenFails, P!SaveReference, P!FailRequest,
       P!AnswerRequest, P!Claim, P!SweepStep, P!CrashSweep, P!ReadClaimed, P!EndClaimed,
       P!Replay, P!ReplayFails, P!SaveReplay, P!RecordFailure, P!ExpireStale, P!GrowStale,
       P!Lapse, P!LeaseEnds, P!Pay, P!Settle, P!payerVars

LEMMA HookNext ==
  ASSUME PathInv, NEW h \in Hook,
         \/ HookStep(h) \/ CrashHook(h) \/ \E ref \in charged : DeliverCharge(h, ref)
  PROVE  PathTypes' /\ RefsCharged'
<1> USE TypeParts DEF PathInv
<1>0. \A ref \in charged : ref \in Reference
  BY ChargedFacts
<1>1. CASE MarkCharge(h)
  BY <1>1 DEF MarkCharge, PathTypes, RefsCharged, BusyHook, IdleHook, books, faults
<1>2. CASE EnqueueCharge(h)
  BY <1>2, InstallmentPaymentAssumption
     DEF EnqueueCharge, PathTypes, RefsCharged, BusyHook, IdleHook, JobState, books, faults,
         intentVars
<1>3. CASE MarkChargeProcessed(h)
  BY <1>3 DEF MarkChargeProcessed, PathTypes, RefsCharged, BusyHook, IdleHook, books, faults,
              intentVars
<1>4. CASE CrashHook(h)
  BY <1>4, InstallmentPaymentAssumption
     DEF CrashHook, PathTypes, RefsCharged, IdleHook, books, intentVars
<1>5. ASSUME NEW ref \in charged, DeliverCharge(h, ref) PROVE PathTypes' /\ RefsCharged'
  BY <1>0, <1>5 DEF DeliverCharge, PathTypes, RefsCharged, BusyHook, books, faults, intentVars
<1> QED BY <1>1, <1>2, <1>3, <1>4, <1>5 DEF HookStep

LEMMA WorkerNext ==
  ASSUME PathInv, NEW w \in Worker, WorkerStep(w) \/ Abort(w) \/ Stall(w) \/ CrashWorker(w)
  PROVE  PathTypes' /\ RefsCharged'
<1> USE TypeParts DEF PathInv
<1>1. CASE TakeJob(w)
  BY <1>1 DEF TakeJob, PathTypes, RefsCharged, BusyWorker, JobState, books, faults, intentVars
<1>2. CASE ReadInstallment(w) \/ MarkStale(w) \/ Verify(w)
  BY <1>2 DEF ReadInstallment, MarkStale, Verify, Moves, PathTypes, RefsCharged, BusyWorker,
              IdleWorker, books, faults, intentVars
<1>3. CASE MarkApplied(w)
  BY <1>3 DEF MarkApplied, PathTypes, RefsCharged, BusyWorker, IdleWorker, books, faults
<1>4. CASE Commit(w)
  <2>1. worker[w].ref \in charged /\ InstallmentOf(worker[w].ref) \in Key
        /\ worker[w].ref \in Reference
    BY <1>4, ChargedFacts DEF Commit, Moves, RefsCharged
  <2>2. PathTypes'
    BY <1>4, <2>1 DEF Commit, Moves, PathTypes, BusyWorker, IdleWorker, faults
  <2>3. RefsCharged'
    BY <1>4, <2>1 DEF Commit, Moves, PathTypes, RefsCharged, BusyWorker, IdleWorker, intentVars
  <2> QED BY <2>2, <2>3
<1>5. CASE CompleteJob(w)
  <2>1. worker[w] \in BusyWorker /\ worker[w].ref \in charged
    BY <1>5 DEF CompleteJob, Moves, PathTypes, RefsCharged, IdleWorker
  <2>2. NoJob \in JobState
    BY InstallmentPaymentAssumption DEF NoJob, JobState
  <2>3. /\ job' \in [Reference -> JobState]
        /\ \A ref \in Reference : job'[ref].state # "none" => ref \in charged
    BY <1>5, <2>1, <2>2 DEF CompleteJob, PathTypes, RefsCharged, BusyWorker, NoJob
  <2>4. worker' \in [Worker -> BusyWorker \cup {IdleWorker}]
    BY <1>5, <2>1 DEF CompleteJob, Moves, PathTypes, BusyWorker
  <2>5. \A v \in Worker : worker'[v].pc # "idle" => worker'[v].ref \in charged
    BY <1>5, <2>1 DEF CompleteJob, Moves, PathTypes, RefsCharged, BusyWorker, IdleWorker
  <2> QED BY <1>5, <2>3, <2>4, <2>5
          DEF CompleteJob, PathTypes, RefsCharged, books, faults, intentVars
<1>6. CASE FailAttempt(w)
  <2>1. worker[w] \in BusyWorker /\ worker[w].ref \in charged
    BY <1>6 DEF FailAttempt, PathTypes, RefsCharged, IdleWorker
  <2>2. /\ job' \in [Reference -> JobState]
        /\ \A ref \in Reference : job'[ref].state # "none" => ref \in charged
    <3>1. job[worker[w].ref] \in JobState
      BY <2>1 DEF BusyWorker, PathTypes
    <3>2. CASE job' = job
      BY <3>2 DEF PathTypes, RefsCharged
    <3>3. ASSUME NEW x \in JobState, job' = [job EXCEPT ![worker[w].ref] = x]
          PROVE  /\ job' \in [Reference -> JobState]
                 /\ \A ref \in Reference : job'[ref].state # "none" => ref \in charged
      BY <2>1, <3>3 DEF BusyWorker, PathTypes, RefsCharged
    <3>4. ASSUME job[worker[w].ref].left > 1
          PROVE  [state |-> "waiting", left |-> job[worker[w].ref].left - 1] \in JobState
      BY <3>1, <3>4, InstallmentPaymentAssumption DEF JobState
    <3>5. [state |-> "failed", left |-> 0] \in JobState
      BY InstallmentPaymentAssumption DEF JobState
    <3> QED BY <1>6, <3>2, <3>3, <3>4, <3>5 DEF FailAttempt
  <2>3. worker' \in [Worker -> BusyWorker \cup {IdleWorker}]
    BY <1>6, <2>1 DEF FailAttempt, PathTypes, BusyWorker
  <2>4. \A v \in Worker : worker'[v].pc # "idle" => worker'[v].ref \in charged
    BY <1>6, <2>1 DEF FailAttempt, PathTypes, RefsCharged, BusyWorker, IdleWorker
  <2> QED BY <1>6, <2>2, <2>3, <2>4
          DEF FailAttempt, PathTypes, RefsCharged, books, faults, intentVars
<1>7. CASE MarkChargeFailed(w)
  BY <1>7 DEF MarkChargeFailed, PathTypes, RefsCharged, BusyWorker, IdleWorker, books, faults
<1>8. CASE Abort(w)
  BY <1>8, InstallmentPaymentAssumption
     DEF Abort, Moves, PathTypes, RefsCharged, BusyWorker, IdleWorker, books, intentVars
<1>9. CASE Stall(w)
  <2>1. worker[w] \in BusyWorker /\ worker[w].ref \in charged
    BY <1>9 DEF Stall, PathTypes, RefsCharged, IdleWorker
  <2>2. stalls' \in 0 .. MaxFault
    BY <1>9, InstallmentPaymentAssumption DEF Stall, PathTypes
  <2>3. worker' \in [Worker -> BusyWorker \cup {IdleWorker}]
    BY <1>9, <2>1 DEF Stall, PathTypes, BusyWorker
  <2>4. \A v \in Worker : worker'[v].pc # "idle" => worker'[v].ref \in charged
    BY <1>9, <2>1 DEF Stall, PathTypes, RefsCharged, BusyWorker
  <2>5. /\ job' \in [Reference -> JobState]
        /\ \A ref \in Reference : job'[ref].state # "none" => ref \in charged
    BY <1>9, <2>1 DEF Stall, PathTypes, RefsCharged, BusyWorker, JobState
  <2> QED BY <1>9, <2>2, <2>3, <2>4, <2>5 DEF Stall, PathTypes, RefsCharged, books, intentVars
<1>10. CASE CrashWorker(w)
  BY <1>10, InstallmentPaymentAssumption
     DEF CrashWorker, PathTypes, RefsCharged, BusyWorker, IdleWorker, JobState, books, intentVars
<1> QED BY <1>1, <1>2, <1>3, <1>4, <1>5, <1>6, <1>7, <1>8, <1>9, <1>10 DEF WorkerStep

LEMMA PathNext ==
  ASSUME P!OneSweep, PathInv, [Next]_vars
  PROVE  PathInv'
<1> USE TypeParts DEF PathInv
<1>1. IntentInv' /\ charged \subseteq charged'
  BY IntentInvNext, ChargedGrows
<1>2. ASSUME PathStill, checked' \in [Request -> Key \cup {NoKey}]
      PROVE  PathTypes' /\ RefsCharged'
  BY <1>1, <1>2 DEF PathStill, PathTypes, RefsCharged
<1>3. ASSUME IntentStep PROVE PathTypes' /\ RefsCharged'
  BY <1>2, <1>3 DEF IntentStep, PathStill, PathTypes, payVars, books, faults
<1>4. ASSUME NEW r \in Request, ReserveChecked(r) \/ \E k \in Key : CheckPayable(r, k)
      PROVE  PathTypes' /\ RefsCharged'
  BY <1>2, <1>4 DEF ReserveChecked, CheckPayable, PathStill, PathTypes, books, faults
<1>5. ASSUME NEW k \in Key, FallDue(k) PROVE PathTypes' /\ RefsCharged'
  BY <1>5 DEF FallDue, PathTypes, RefsCharged, Unpaid, faults, intentVars
<1>6. ASSUME UNCHANGED vars PROVE PathTypes' /\ RefsCharged'
  BY <1>2, <1>6 DEF vars, payVars, PathStill, PathTypes, books, faults
<1>7. PathTypes' /\ RefsCharged'
  BY <1>3, <1>4, <1>5, <1>6, HookNext, WorkerNext DEF Next
<1>8. PI!TypeOK'
  BY <1>1, SameTypesAfter DEF IntentInv, P!IInv
<1> QED BY <1>1, <1>7, <1>8, TypePartsAfter

-----------------------------------------------------------------------------
(* What a step does to keys, books and intents.                            *)

LEMMA KeysStay ==
  ASSUME PathInv, [Next]_vars
  PROVE  /\ \A i \in Intent : status[i] # "UNUSED" => key'[i] = key[i] /\ status'[i] # "UNUSED"
         /\ \A ref \in charged : InstallmentOf(ref)' = InstallmentOf(ref)
<1>1. [P!Next]_(P!vars) /\ P!IInv
  BY StepsKeepRules DEF PathInv, IntentInv
<1>2. (\E k \in Key, i \in Intent : P!Creates(k, i)) \/ P!Advances
  BY <1>1, Assumed, P!StepShape
<1>3. \A i \in Intent : status[i] # "UNUSED" => key'[i] = key[i] /\ status'[i] # "UNUSED"
  BY <1>1, <1>2 DEF P!Creates, P!Advances, P!IInv, P!TypeOK
<1>4. ASSUME NEW ref \in charged PROVE InstallmentOf(ref)' = InstallmentOf(ref)
  BY <1>3, ChargedFacts DEF InstallmentOf, PathInv
<1> QED BY <1>3, <1>4

\* Only a commit pays and books.
LEMMA OnlyCommitBooks ==
  ASSUME PathInv, [Next]_vars
  PROVE  \/ \E w \in Worker : Commit(w)
         \/ /\ UNCHANGED <<contract, booked, twice>>
            /\ \A k \in Key : istatus'[k] = "PAID" <=> istatus[k] = "PAID"
<1> USE DEF books
<1>1. ASSUME NEW k \in Key, FallDue(k)
      PROVE  /\ UNCHANGED <<contract, booked, twice>>
             /\ \A j \in Key : istatus'[j] = "PAID" <=> istatus[j] = "PAID"
  BY <1>1 DEF FallDue, PathInv, TypeOK
<1>2. ASSUME NEW r \in Request, ReserveChecked(r) \/ \E k \in Key : CheckPayable(r, k)
      PROVE  UNCHANGED books
  BY <1>2 DEF ReserveChecked, CheckPayable
<1>3. ASSUME NEW h \in Hook,
             \/ HookStep(h) \/ CrashHook(h) \/ \E ref \in charged : DeliverCharge(h, ref)
      PROVE  UNCHANGED books
  BY <1>3 DEF HookStep, MarkCharge, EnqueueCharge, MarkChargeProcessed, CrashHook, DeliverCharge
<1>4. ASSUME NEW w \in Worker, WorkerStep(w) \/ Abort(w) \/ Stall(w) \/ CrashWorker(w)
      PROVE  Commit(w) \/ UNCHANGED books
  BY <1>4 DEF WorkerStep, TakeJob, ReadInstallment, MarkStale, Verify, MarkApplied,
              CompleteJob, FailAttempt, MarkChargeFailed, Abort, Stall, CrashWorker
<1>5. IntentStep \/ UNCHANGED vars => UNCHANGED books
  BY DEF IntentStep, vars, payVars
<1> QED BY <1>1, <1>2, <1>3, <1>4, <1>5 DEF Next

LEMMA PaidStays ==
  ASSUME PathInv, [Next]_vars, NEW k \in Key, istatus[k] = "PAID"
  PROVE  istatus'[k] = "PAID"
<1>1. ASSUME NEW w \in Worker, Commit(w) PROVE istatus'[k] = "PAID"
  BY <1>1 DEF Commit, PathInv, TypeOK
<1> QED BY <1>1, OnlyCommitBooks

LEMMA PaidIsBookedNext ==
  ASSUME PathInv, PathInv', [Next]_vars, PaidIsBooked
  PROVE  PaidIsBooked'
<1>0. booked \subseteq charged /\ booked' \subseteq charged'
  BY DEF PathInv, RefsCharged
<1>1. \A ref \in charged : InstallmentOf(ref)' = InstallmentOf(ref)
  BY KeysStay
<1>2. CASE /\ UNCHANGED booked
           /\ \A k \in Key : istatus'[k] = "PAID" <=> istatus[k] = "PAID"
  BY <1>0, <1>1, <1>2 DEF PaidIsBooked
<1>3. ASSUME NEW w \in Worker, Commit(w) PROVE PaidIsBooked'
  <2> DEFINE ref == worker[w].ref
             paid == InstallmentOf(ref)
  <2>1. ref \in charged /\ paid \in Key
    BY <1>3, ChargedFacts DEF Commit, Moves, PathInv, RefsCharged
  <2>2. /\ booked' = booked \cup {ref}
        /\ \A k \in Key : istatus'[k] = "PAID" <=> (istatus[k] = "PAID" \/ k = paid)
    BY <1>3, <2>1 DEF Commit, PathInv, TypeOK
  <2> HIDE DEF ref, paid
  <2>3. paid = InstallmentOf(ref)
    BY DEF paid
  <2> QED BY <1>0, <1>1, <2>1, <2>2, <2>3 DEF PaidIsBooked
<1> QED BY <1>2, <1>3, OnlyCommitBooks

-----------------------------------------------------------------------------
(* Successes.                                                              *)

\* The shortcut is taken for an installment that is PAID.
StaleIsPaid ==
    \A w \in Worker : worker[w].pc = "stale" => istatus[InstallmentOf(worker[w].ref)] = "PAID"

LEMMA StaleNext ==
  ASSUME PathInv, [Next]_vars, StaleIsPaid
  PROVE  StaleIsPaid'
<1> SUFFICES ASSUME NEW w \in Worker, worker'[w].pc = "stale"
             PROVE  istatus'[key'[worker'[w].ref[1]]] = "PAID"
  BY DEF StaleIsPaid, InstallmentOf
<1>1. ASSUME worker'[w].ref = worker[w].ref, worker[w].pc # "idle",
             istatus[InstallmentOf(worker[w].ref)] = "PAID"
      PROVE  istatus'[key'[worker'[w].ref[1]]] = "PAID"
  <2>1. worker[w].ref \in charged
    BY <1>1 DEF PathInv, RefsCharged
  <2>2. InstallmentOf(worker[w].ref) \in Key
    BY <2>1, ChargedFacts DEF PathInv
  <2> QED BY <1>1, <2>1, <2>2, KeysStay, PaidStays DEF InstallmentOf
<1>2. ASSUME UNCHANGED worker PROVE istatus'[key'[worker'[w].ref[1]]] = "PAID"
  BY <1>1, <1>2 DEF StaleIsPaid
<1>3. ASSUME NEW v \in Worker, WorkerStep(v) \/ Abort(v) \/ Stall(v) \/ CrashWorker(v)
      PROVE  /\ worker'[w].ref = worker[w].ref
             /\ worker[w].pc # "idle"
             /\ istatus[InstallmentOf(worker[w].ref)] = "PAID"
  <2>1. worker \in [Worker -> BusyWorker \cup {IdleWorker}]
    BY TypeParts DEF PathInv, PathTypes
  <2>2. CASE ReadInstallment(v)
    BY <2>1, <2>2 DEF ReadInstallment, Moves, BusyWorker, IdleWorker, StaleIsPaid
  <2>3. CASE MarkApplied(v)
    BY <2>1, <2>3 DEF MarkApplied, BusyWorker, IdleWorker, StaleIsPaid
  <2>4. CASE FailAttempt(v)
    BY <2>1, <2>4 DEF FailAttempt, BusyWorker, IdleWorker, StaleIsPaid
  <2>5. CASE TakeJob(v) \/ Stall(v) \/ CrashWorker(v) \/ MarkChargeFailed(v)
    BY <2>1, <2>5 DEF TakeJob, Stall, CrashWorker, MarkChargeFailed, BusyWorker, IdleWorker,
                      StaleIsPaid
  <2>6. CASE Verify(v) \/ MarkStale(v) \/ Commit(v) \/ CompleteJob(v) \/ Abort(v)
    BY <2>1, <2>6 DEF Verify, MarkStale, Commit, CompleteJob, Abort, Moves, BusyWorker,
                      IdleWorker, StaleIsPaid
  <2> QED BY <1>3, <2>2, <2>3, <2>4, <2>5, <2>6 DEF WorkerStep
<1>4. ASSUME NEW r \in Request, ReserveChecked(r) \/ \E k \in Key : CheckPayable(r, k)
      PROVE  UNCHANGED worker
  BY <1>4 DEF ReserveChecked, CheckPayable
<1>5. ASSUME NEW h \in Hook,
             \/ HookStep(h) \/ CrashHook(h) \/ \E ref \in charged : DeliverCharge(h, ref)
      PROVE  UNCHANGED worker
  BY <1>5 DEF HookStep, MarkCharge, EnqueueCharge, MarkChargeProcessed, CrashHook, DeliverCharge
<1>6. IntentStep \/ UNCHANGED vars \/ (\E k \in Key : FallDue(k)) => UNCHANGED worker
  BY DEF IntentStep, FallDue, vars, payVars
<1> QED BY <1>1, <1>2, <1>3, <1>4, <1>5, <1>6 DEF Next

\* A transition changes one status, to what it is told.
LEMMA IntentStepsEnd ==
  ASSUME IntentInv, IntentStep \/ (\E r \in Request : ReserveChecked(r)), NEW i \in Intent,
         status'[i] = "SUCCESS"
  PROVE  status[i] = "SUCCESS"
<1> USE DEF P!TransitionStatus, P!MarkInitialized, P!MarkEnded, P!Mark
<1>0. status \in [Intent -> P!Status]
  BY DEF IntentInv, P!IInv, P!TypeOK
<1>1. ASSUME NEW r \in Request, NEW k, P!Reserve(r, k) PROVE status[i] = "SUCCESS"
  BY <1>0, <1>1 DEF P!Reserve, P!InsertIntent, P!rowVars
<1>2. ASSUME NEW r \in Request, P!RequestStep(r) \/ P!CrashRequest(r)
      PROVE  status[i] = "SUCCESS"
  BY <1>0, <1>2 DEF P!RequestStep, P!CrashRequest, P!ReserveAgain, P!InsertIntent,
       P!FindActive, P!OpenTransaction, P!OpenFails, P!SaveReference, P!FailRequest,
       P!AnswerRequest, P!rowVars
<1>3. ASSUME NEW s \in Sweeper, P!Claim(s) \/ P!SweepStep(s) PROVE status[i] = "SUCCESS"
  BY <1>0, <1>3 DEF P!Claim, P!SweepStep, P!ReadClaimed, P!EndClaimed, P!Replay,
       P!ReplayFails, P!SaveReplay, P!RecordFailure, P!ExpireStale, P!rowVars
<1>4. ASSUME NEW j \in Intent,
             \/ P!GrowStale(j) \/ P!Lapse(j) \/ P!LeaseEnds(j)
             \/ \E n \in 1 .. MaxOpened : P!Pay(j, n)
      PROVE  status[i] = "SUCCESS"
  BY <1>4 DEF P!GrowStale, P!Lapse, P!LeaseEnds, P!Pay, P!rowVars
<1>5. ASSUME NEW r \in Request, ReserveChecked(r) PROVE status[i] = "SUCCESS"
  <2>1. PI!Reserve(r, checked[r])
    BY <1>5 DEF ReserveChecked
  <2>2. P!Reserve(r, checked[r])
    BY <2>1 DEF PI!Reserve, P!Reserve, PI!InsertIntent, P!InsertIntent, PI!ActiveFor,
         P!ActiveFor, PI!ActiveStatus, P!ActiveStatus, PI!RequestAt, P!RequestAt,
         PI!rowVars, P!rowVars, PI!payerVars, P!payerVars
  <2> QED BY <1>1, <2>2
<1> QED BY <1>2, <1>3, <1>4, <1>5, SameRequest, SameSweep, SameOther DEF IntentStep

LEMMA SuccessComes ==
  ASSUME PathInv, [Next]_vars, NEW i \in Intent, status'[i] = "SUCCESS", status[i] # "SUCCESS"
  PROVE  \E w \in Worker : worker[w].ref[1] = i /\ (MarkStale(w) \/ MarkApplied(w))
<1> USE DEF PI!TransitionStatus, PI!Mark, PI!MarkEnded, rowVars, intentVars
<1>0. status \in [Intent -> PI!Status]
  BY TypeParts DEF PathInv, PI!TypeOK
<1>1. ~(IntentStep \/ \E r \in Request : ReserveChecked(r))
  BY IntentStepsEnd DEF PathInv
<1>2. ASSUME NEW r \in Request, NEW k \in Key, CheckPayable(r, k) \/ FallDue(k) PROVE FALSE
  BY <1>2 DEF CheckPayable, FallDue
<1>3. ASSUME NEW h \in Hook,
             \/ HookStep(h) \/ CrashHook(h) \/ \E ref \in charged : DeliverCharge(h, ref)
      PROVE  FALSE
  BY <1>0, <1>3 DEF HookStep, MarkCharge, EnqueueCharge, MarkChargeProcessed, CrashHook,
                    DeliverCharge
<1>4. ASSUME NEW w \in Worker, WorkerStep(w) \/ Abort(w) \/ Stall(w) \/ CrashWorker(w)
      PROVE  worker[w].ref[1] = i /\ (MarkStale(w) \/ MarkApplied(w))
  <2>1. MarkStale(w) \/ MarkApplied(w) \/ MarkChargeFailed(w)
    BY <1>4 DEF WorkerStep, TakeJob, ReadInstallment, Verify, Commit, CompleteJob,
                FailAttempt, Abort, Stall, CrashWorker
  <2>2. ~MarkChargeFailed(w)
    BY <1>0 DEF MarkChargeFailed
  <2> QED BY <1>0, <2>1, <2>2 DEF MarkStale, MarkApplied
<1>5. ASSUME NEW k \in Key, FallDue(k) PROVE FALSE
  BY <1>5 DEF FallDue
<1>6. CASE UNCHANGED vars
  BY <1>6 DEF vars
<1> QED BY <1>1, <1>2, <1>3, <1>4, <1>5, <1>6 DEF Next

\* A transaction stays open until it commits or is lost.
LEMMA CommitStays ==
  ASSUME PathInv, [Next]_vars, NEW w \in Worker, worker[w].pc = "commit"
  PROVE  \/ worker'[w].pc = "commit" /\ worker'[w].ref = worker[w].ref
         \/ Commit(w) \/ Abort(w)
<1> DEFINE Goal == \/ worker'[w].pc = "commit" /\ worker'[w].ref = worker[w].ref
                   \/ Commit(w) \/ Abort(w)
<1>1. ASSUME worker'[w] = worker[w] PROVE Goal
  BY <1>1
<1>2. ASSUME NEW v \in Worker, WorkerStep(v) \/ Abort(v) \/ Stall(v) \/ CrashWorker(v)
      PROVE  Goal
  <2>1. worker \in [Worker -> BusyWorker \cup {IdleWorker}]
    BY TypeParts DEF PathInv, PathTypes
  <2>2. CASE v # w
    <3>1. worker'[w] = worker[w]
      BY <1>2, <2>1, <2>2 DEF WorkerStep, TakeJob, ReadInstallment, MarkStale, Verify,
           MarkApplied, Commit, CompleteJob, FailAttempt, MarkChargeFailed, Abort, Stall,
           CrashWorker, Moves
    <3> QED BY <1>1, <3>1
  <2>3. CASE v = w /\ Stall(w)
    BY <2>1, <2>3 DEF Stall, BusyWorker, IdleWorker
  <2>4. CASE v = w /\ ~Commit(w) /\ ~Abort(w) /\ ~Stall(w)
    BY <1>2, <2>4 DEF WorkerStep, TakeJob, ReadInstallment, MarkStale, Verify,
         MarkApplied, CompleteJob, FailAttempt, MarkChargeFailed, CrashWorker, Moves
  <2> QED BY <2>2, <2>3, <2>4
<1>3. ASSUME NEW r \in Request, ReserveChecked(r) \/ \E j \in Key : CheckPayable(r, j)
      PROVE  UNCHANGED worker
  BY <1>3 DEF ReserveChecked, CheckPayable
<1>4. ASSUME NEW h \in Hook,
             \/ HookStep(h) \/ CrashHook(h) \/ \E ref \in charged : DeliverCharge(h, ref)
      PROVE  UNCHANGED worker
  BY <1>4 DEF HookStep, MarkCharge, EnqueueCharge, MarkChargeProcessed, CrashHook, DeliverCharge
<1>5. IntentStep \/ UNCHANGED vars \/ (\E j \in Key : FallDue(j)) => UNCHANGED worker
  BY DEF IntentStep, FallDue, vars, payVars
<1> QED BY <1>1, <1>2, <1>3, <1>4, <1>5 DEF Next

\* The lock of an installment is held until it is paid, or its payment is lost.
LEMMA LockHolds ==
  ASSUME PathInv, [Next]_vars, NEW k \in Key, Locked(k)
  PROVE  Locked(k)' \/ istatus'[k] = "PAID" \/ aborts' > 0
<1>1. PICK w \in Worker : worker[w].pc = "commit" /\ InstallmentOf(worker[w].ref) = k
  BY DEF Locked
<1>2. worker[w].ref \in charged
  BY <1>1 DEF PathInv, RefsCharged
<1>3. CASE worker'[w].pc = "commit" /\ worker'[w].ref = worker[w].ref
  BY <1>1, <1>2, <1>3, KeysStay DEF Locked, InstallmentOf
<1>4. CASE Commit(w)
  BY <1>1, <1>4 DEF Commit, PathInv, TypeOK
<1>5. CASE Abort(w)
  <2>1. aborts \in Nat
    BY TypeParts, InstallmentPaymentAssumption DEF PathInv, PathTypes
  <2> QED BY <1>5, <2>1 DEF Abort
<1> QED BY <1>1, <1>3, <1>4, <1>5, CommitStays

LEMMA AbortsGrow ==
  ASSUME PathInv, [Next]_vars
  PROVE  aborts \in Nat /\ aborts' \in Nat /\ aborts' >= aborts
<1> USE DEF faults
<1>0. aborts \in Nat
  BY TypeParts, InstallmentPaymentAssumption DEF PathInv, PathTypes
<1>1. ASSUME NEW w \in Worker, WorkerStep(w) \/ Abort(w) \/ Stall(w) \/ CrashWorker(w)
      PROVE  aborts' = aborts \/ aborts' = aborts + 1
  BY <1>1 DEF WorkerStep, TakeJob, ReadInstallment, MarkStale, Verify, MarkApplied, Commit,
              CompleteJob, FailAttempt, MarkChargeFailed, Abort, Stall, CrashWorker
<1>2. ASSUME NEW h \in Hook,
             \/ HookStep(h) \/ CrashHook(h) \/ \E ref \in charged : DeliverCharge(h, ref)
      PROVE  aborts' = aborts
  BY <1>2 DEF HookStep, MarkCharge, EnqueueCharge, MarkChargeProcessed, CrashHook, DeliverCharge
<1>3. ASSUME NEW r \in Request, ReserveChecked(r) \/ \E k \in Key : CheckPayable(r, k)
      PROVE  aborts' = aborts
  BY <1>3 DEF ReserveChecked, CheckPayable
<1>4. IntentStep \/ UNCHANGED vars \/ (\E k \in Key : FallDue(k)) => aborts' = aborts
  BY DEF IntentStep, FallDue, vars, payVars
<1> QED BY <1>0, <1>1, <1>2, <1>3, <1>4 DEF Next

LEMMA SuccessNext ==
  ASSUME PathInv, [Next]_vars, StaleIsPaid, SuccessIsPaid
  PROVE  SuccessIsPaid'
<1> SUFFICES ASSUME NEW i \in Intent, status'[i] = "SUCCESS"
             PROVE  istatus'[key'[i]] = "PAID" \/ Locked(key[i])' \/ aborts' > 0
  BY DEF SuccessIsPaid
<1>1. CASE status[i] = "SUCCESS"
  <2>1. key'[i] = key[i] /\ key[i] \in Key
    BY <1>1, KeysStay DEF PathInv, IntentInv, P!IInv, P!RowsKeyed
  <2>2. istatus[key[i]] = "PAID" \/ Locked(key[i]) \/ aborts > 0
    BY <1>1 DEF SuccessIsPaid
  <2> QED BY <2>1, <2>2, PaidStays, LockHolds, AbortsGrow DEF Locked
<1>2. CASE status[i] # "SUCCESS"
  <2>1. PICK w \in Worker : worker[w].ref[1] = i /\ (MarkStale(w) \/ MarkApplied(w))
    BY <1>2, SuccessComes
  <2>2. worker[w].ref \in charged /\ InstallmentOf(worker[w].ref) = key[i]
    BY <2>1 DEF MarkStale, MarkApplied, Moves, PathInv, RefsCharged, InstallmentOf
  <2>3. key'[i] = key[i] /\ key[i] \in Key
    BY <2>1, <2>2, KeysStay, ChargedFacts DEF PathInv, InstallmentOf
  <2>4. CASE MarkStale(w)
    BY <2>2, <2>3, <2>4, PaidStays DEF MarkStale, Moves, StaleIsPaid
  <2>5. CASE MarkApplied(w)
    <3>1. worker'[w].pc = "commit" /\ worker'[w].ref = worker[w].ref
      BY <1>2, <2>5, TypeParts DEF MarkApplied, rowVars, PathInv, PathTypes, BusyWorker, IdleWorker
    <3> QED BY <2>1, <2>3, <3>1 DEF Locked, InstallmentOf
  <2> QED BY <2>1, <2>4, <2>5
<1> QED BY <1>1, <1>2

-----------------------------------------------------------------------------
(* Installments are paid in order.                                         *)

LowerPaid(k) == \A j \in Key : j < k => istatus[j] = "PAID"

\* What is checked, asked for or reserved has only PAID installments before it;
\* and a payment that will not complete the contract has one after it.
InOrder ==
    /\ \A r \in Request : /\ checked[r] \in Key => LowerPaid(checked[r])
                          /\ req[r].key \in Key => LowerPaid(req[r].key)
    /\ \A i \in Intent : key[i] \in Key => LowerPaid(key[i])
    /\ \A w \in Worker : worker[w].pc = "commit" /\ ~worker[w].completes =>
         \E j \in Key : j > InstallmentOf(worker[w].ref)

LEMMA LowerPaidStays ==
  ASSUME PathInv, [Next]_vars, NEW k \in Key, LowerPaid(k)
  PROVE  LowerPaid(k)'
BY PaidStays DEF LowerPaid

\* Keys come from requests, and theirs from what they have checked.
LEMMA KeysCome ==
  ASSUME PathInv, [Next]_vars
  PROVE  /\ \A i \in Intent : \/ key'[i] = key[i]
                              \/ \E r \in Request : key'[i] \in {req[r].key, checked[r]}
         /\ \A r \in Request : req'[r].key \in {NoKey, req[r].key, checked[r]}
<1> DEFINE Goal == /\ \A i \in Intent : \/ key'[i] = key[i]
                              \/ \E r \in Request : key'[i] \in {req[r].key, checked[r]}
                   /\ \A r \in Request : req'[r].key \in {NoKey, req[r].key, checked[r]}
<1>0. /\ key \in [Intent -> Key \cup {NoKey}]
      /\ req \in [Request -> P!RequestState]
  BY DEF PathInv, IntentInv, P!IInv, P!TypeOK
<1>1. ASSUME UNCHANGED <<key, req>> PROVE Goal
  BY <1>1
<1>2. ASSUME NEW r \in Request, NEW k \in {req[r].key, checked[r]}, NEW look,
             PI!InsertIntent(r, k, look)
      PROVE  Goal
  BY <1>0, <1>2 DEF PI!InsertIntent, PI!RequestAt, PI!rowVars, P!RequestState
<1>3. ASSUME NEW r \in Request, PI!RequestStep(r) \/ PI!CrashRequest(r) PROVE Goal
  <2>1. CASE PI!ReserveAgain(r)
    BY <1>2, <2>1 DEF PI!ReserveAgain
  <2>2. CASE ~PI!ReserveAgain(r)
    <3>1. UNCHANGED key
      BY <1>3, <2>2 DEF PI!RequestStep, PI!CrashRequest, PI!FindActive, PI!OpenTransaction,
           PI!OpenFails, PI!SaveReference, PI!FailRequest, PI!AnswerRequest,
           PI!MarkInitialized, PI!MarkEnded, PI!Mark, PI!rowVars
    <3>2. \A q \in Request : req'[q].key \in {NoKey, req[q].key}
      BY <1>0, <1>3, <2>2 DEF PI!RequestStep, PI!CrashRequest, PI!FindActive,
           PI!OpenTransaction, PI!OpenFails, PI!SaveReference, PI!FailRequest,
           PI!AnswerRequest, PI!RequestAt, PI!IdleRequest, P!RequestState
    <3> QED BY <3>1, <3>2
  <2> QED BY <2>1, <2>2
<1>4. ASSUME NEW s \in Sweeper, PI!Claim(s) \/ PI!SweepStep(s) PROVE UNCHANGED <<key, req>>
  BY <1>4 DEF PI!Claim, PI!SweepStep, PI!ReadClaimed, PI!EndClaimed, PI!Replay, PI!ReplayFails,
       PI!SaveReplay, PI!RecordFailure, PI!ExpireStale, PI!MarkInitialized, PI!MarkEnded,
       PI!rowVars
<1>5. ASSUME NEW i \in Intent,
             \/ PI!GrowStale(i) \/ PI!Lapse(i) \/ PI!LeaseEnds(i)
             \/ \E n \in 1 .. MaxOpened : PI!Pay(i, n)
      PROVE  UNCHANGED <<key, req>>
  BY <1>5 DEF PI!GrowStale, PI!Lapse, PI!LeaseEnds, PI!Pay, PI!rowVars
<1>6. ASSUME NEW r \in Request, ReserveChecked(r) PROVE Goal
  BY <1>2, <1>6 DEF ReserveChecked, PI!Reserve
<1>7. ASSUME NEW r \in Request, NEW k \in Key, CheckPayable(r, k) PROVE Goal
  BY <1>1, <1>7 DEF CheckPayable, intentVars
<1>8. ASSUME NEW h \in Hook,
             \/ HookStep(h) \/ CrashHook(h) \/ \E ref \in charged : DeliverCharge(h, ref)
      PROVE  UNCHANGED <<key, req>>
  BY <1>8 DEF HookStep, MarkCharge, EnqueueCharge, MarkChargeProcessed, CrashHook,
              DeliverCharge, PI!Mark, rowVars, intentVars
<1>9. ASSUME NEW w \in Worker, WorkerStep(w) \/ Abort(w) \/ Stall(w) \/ CrashWorker(w)
      PROVE  UNCHANGED <<key, req>>
  BY <1>9 DEF WorkerStep, TakeJob, ReadInstallment, MarkStale, Verify, MarkApplied, Commit,
              CompleteJob, FailAttempt, MarkChargeFailed, Abort, Stall, CrashWorker,
              PI!Mark, PI!MarkEnded, rowVars, intentVars
<1>10. (\E k \in Key : FallDue(k)) \/ UNCHANGED vars => UNCHANGED <<key, req>>
  BY DEF FallDue, vars, intentVars
<1>11. IntentStep => Goal
  BY <1>1, <1>3, <1>4, <1>5 DEF IntentStep
<1> QED BY <1>1, <1>6, <1>7, <1>8, <1>9, <1>10, <1>11 DEF Next

LEMMA CheckedComes ==
  ASSUME PathInv, [Next]_vars, NEW r \in Request
  PROVE  \/ checked'[r] \in {NoKey, checked[r]}
         \/ checked'[r] \in Key /\ LowerPaid(checked'[r])
<1> DEFINE Goal == \/ checked'[r] \in {NoKey, checked[r]}
                   \/ checked'[r] \in Key /\ LowerPaid(checked'[r])
<1>0. checked \in [Request -> Key \cup {NoKey}]
  BY TypeParts DEF PathInv, PathTypes
<1>1. ASSUME NEW q \in Request, ReserveChecked(q) PROVE Goal
  BY <1>0, <1>1 DEF ReserveChecked
<1>2. ASSUME NEW q \in Request, NEW k \in Key, CheckPayable(q, k) PROVE Goal
  BY <1>0, <1>2 DEF CheckPayable, LowerPaid
<1>3. ASSUME NEW h \in Hook,
             \/ HookStep(h) \/ CrashHook(h) \/ \E ref \in charged : DeliverCharge(h, ref)
      PROVE  UNCHANGED checked
  BY <1>3 DEF HookStep, MarkCharge, EnqueueCharge, MarkChargeProcessed, CrashHook, DeliverCharge
<1>4. ASSUME NEW w \in Worker, WorkerStep(w) \/ Abort(w) \/ Stall(w) \/ CrashWorker(w)
      PROVE  UNCHANGED checked
  BY <1>4 DEF WorkerStep, TakeJob, ReadInstallment, MarkStale, Verify, MarkApplied, Commit,
              CompleteJob, FailAttempt, MarkChargeFailed, Abort, Stall, CrashWorker
<1>5. IntentStep \/ UNCHANGED vars \/ (\E k \in Key : FallDue(k)) => UNCHANGED checked
  BY DEF IntentStep, FallDue, vars, payVars
<1> QED BY <1>1, <1>2, <1>3, <1>4, <1>5 DEF Next

LEMMA CommitComes ==
  ASSUME PathInv, [Next]_vars, NEW w \in Worker, worker'[w].pc = "commit"
  PROVE  /\ worker'[w].ref = worker[w].ref
         /\ \/ /\ worker[w].pc = "commit"
               /\ worker'[w].completes = worker[w].completes
            \/ MarkApplied(w)
<1> DEFINE Goal == /\ worker'[w].ref = worker[w].ref
                   /\ \/ /\ worker[w].pc = "commit"
                         /\ worker'[w].completes = worker[w].completes
                      \/ MarkApplied(w)
<1>0. worker \in [Worker -> BusyWorker \cup {IdleWorker}]
  BY TypeParts DEF PathInv, PathTypes
<1>1. ASSUME worker'[w] = worker[w] PROVE Goal
  BY <1>1
<1>2. ASSUME NEW v \in Worker, WorkerStep(v) \/ Abort(v) \/ Stall(v) \/ CrashWorker(v), v # w
      PROVE  worker'[w] = worker[w]
  BY <1>0, <1>2 DEF WorkerStep, TakeJob, ReadInstallment, MarkStale, Verify, MarkApplied,
       Commit, CompleteJob, FailAttempt, MarkChargeFailed, Abort, Stall, CrashWorker, Moves
<1>3. ASSUME WorkerStep(w) \/ Abort(w) \/ Stall(w) \/ CrashWorker(w) PROVE Goal
  <2>1. CASE MarkApplied(w)
    BY <1>0, <2>1 DEF MarkApplied, BusyWorker, IdleWorker
  <2>2. CASE Stall(w)
    BY <1>0, <2>2 DEF Stall, BusyWorker, IdleWorker
  <2>3. ~(\/ TakeJob(w) \/ ReadInstallment(w) \/ MarkStale(w) \/ Verify(w) \/ Commit(w)
          \/ CompleteJob(w) \/ MarkChargeFailed(w) \/ Abort(w) \/ CrashWorker(w))
    BY <1>0 DEF TakeJob, ReadInstallment, MarkStale, Verify, Commit, CompleteJob,
         MarkChargeFailed, Abort, CrashWorker, Moves, BusyWorker, IdleWorker
  <2>4. ~FailAttempt(w)
    BY <1>0 DEF FailAttempt, BusyWorker, IdleWorker
  <2> QED BY <1>3, <2>1, <2>2, <2>3, <2>4 DEF WorkerStep
<1>4. ASSUME NEW r \in Request, ReserveChecked(r) \/ \E j \in Key : CheckPayable(r, j)
      PROVE  UNCHANGED worker
  BY <1>4 DEF ReserveChecked, CheckPayable
<1>5. ASSUME NEW h \in Hook,
             \/ HookStep(h) \/ CrashHook(h) \/ \E ref \in charged : DeliverCharge(h, ref)
      PROVE  UNCHANGED worker
  BY <1>5 DEF HookStep, MarkCharge, EnqueueCharge, MarkChargeProcessed, CrashHook, DeliverCharge
<1>6. IntentStep \/ UNCHANGED vars \/ (\E j \in Key : FallDue(j)) => UNCHANGED worker
  BY DEF IntentStep, FallDue, vars, payVars
<1> QED BY <1>1, <1>2, <1>3, <1>4, <1>5, <1>6 DEF Next

LEMMA InOrderNext ==
  ASSUME PathInv, [Next]_vars, InOrder
  PROVE  InOrder'
<1>1. ASSUME NEW k \in Key,
             \/ \E r \in Request : k \in {req[r].key, checked[r]}
             \/ \E i \in Intent : k = key[i]
      PROVE  \A j \in Key : j < k => istatus'[j] = "PAID"
  BY <1>1, LowerPaidStays DEF InOrder, LowerPaid
<1>2. NoKey \notin Key
  BY InstallmentPaymentAssumption
<1>3. ASSUME NEW i \in Intent, key'[i] \in Key
      PROVE  \A j \in Key : j < key'[i] => istatus'[j] = "PAID"
  BY <1>1, <1>3, KeysCome
<1>4. ASSUME NEW r \in Request, req'[r].key \in Key
      PROVE  \A j \in Key : j < req'[r].key => istatus'[j] = "PAID"
  BY <1>1, <1>2, <1>4, KeysCome
<1>5. ASSUME NEW r \in Request, checked'[r] \in Key
      PROVE  \A j \in Key : j < checked'[r] => istatus'[j] = "PAID"
  BY <1>1, <1>2, <1>5, CheckedComes, PaidStays DEF LowerPaid
<1>6. ASSUME NEW w \in Worker, worker'[w].pc = "commit", ~worker'[w].completes
      PROVE  \E j \in Key : j > key'[worker'[w].ref[1]]
  <2>1. worker'[w].ref = worker[w].ref /\ worker[w].ref \in charged
    BY <1>6, CommitComes DEF MarkApplied, PathInv, RefsCharged
  <2>2. key'[worker[w].ref[1]] = InstallmentOf(worker[w].ref)
    BY <2>1, KeysStay DEF InstallmentOf
  <2>3. CASE worker[w].pc = "commit" /\ worker'[w].completes = worker[w].completes
    BY <1>6, <2>1, <2>2, <2>3 DEF InOrder
  <2>4. CASE MarkApplied(w)
    <3> DEFINE k == InstallmentOf(worker[w].ref)
    <3>1. k \in Key /\ LowerPaid(k)
      BY <2>1, ChargedFacts DEF InOrder, InstallmentOf, PathInv
    <3>2. PICK j \in Key \ {k} : istatus[j] = "PENDING"
      BY <1>6, <2>4, TypeParts
         DEF MarkApplied, PathInv, PathTypes, BusyWorker, IdleWorker
    <3> HIDE DEF k
    <3>3. ~(j < k)
      BY <3>1, <3>2 DEF LowerPaid
    <3>4. j \in Nat /\ k \in Nat /\ j # k
      BY <3>1, <3>2, InstallmentPaymentAssumption
    <3>5. j > k
      BY <3>3, <3>4
    <3> QED BY <2>1, <2>2, <3>5 DEF k
  <2> QED BY <1>6, <2>3, <2>4, CommitComes
<1> QED BY <1>3, <1>4, <1>5, <1>6 DEF InOrder, LowerPaid, InstallmentOf

LEMMA CompletedNext ==
  ASSUME PathInv, [Next]_vars, PaidIsBooked, InOrder, PaidUpIsCompleted
  PROVE  PaidUpIsCompleted'
<1> SUFFICES ASSUME \A k \in Key : istatus'[k] = "PAID"
             PROVE  contract' = "COMPLETED"
  BY DEF PaidUpIsCompleted
<1>1. CASE \A k \in Key : istatus[k] = "PAID"
  <2>1. contract = "COMPLETED"
    BY <1>1 DEF PaidUpIsCompleted
  <2> QED BY <2>1, OnlyCommitBooks DEF Commit
<1>2. ASSUME NEW j \in Key, istatus[j] # "PAID" PROVE contract' = "COMPLETED"
  <2>1. PICK w \in Worker : Commit(w)
    BY <1>2, OnlyCommitBooks
  <2> DEFINE k == InstallmentOf(worker[w].ref)
  <2>2. k \in Key /\ worker[w].pc = "commit"
    BY <2>1, ChargedFacts DEF Commit, Moves, PathInv, RefsCharged
  <2>3. \A i \in Key : i # k => istatus[i] = "PAID"
    BY <2>1, <2>2 DEF Commit, PathInv, TypeOK
  <2>4. CASE worker[w].completes
    BY <2>1, <2>4 DEF Commit
  <2>5. CASE ~worker[w].completes
    <3>1. PICK i \in Key : i > k
      BY <2>2, <2>5 DEF InOrder
    <3>2. istatus[i] = "PAID"
      BY <2>2, <2>3, <3>1, InstallmentPaymentAssumption
    <3>3. PICK ref \in booked : ref \in charged /\ key[ref[1]] = i
      BY <3>2 DEF PaidIsBooked, InstallmentOf
    <3>4. LowerPaid(i)
      BY <3>3, ChargedFacts DEF InOrder, PathInv
    <3>5. istatus[k] = "PAID"
      BY <2>2, <3>1, <3>4, InstallmentPaymentAssumption DEF LowerPaid
    <3> QED BY <1>2, <2>3, <3>5
  <2> QED BY <2>4, <2>5
<1> QED BY <1>1, <1>2

-----------------------------------------------------------------------------
(* An installment is booked once while no job has run twice at a time and  *)
(* no transaction was lost.                                                *)

Quiet == stalls = 0 /\ aborts = 0

\* A job that runs is one worker's.
OneWorker ==
    /\ \A w \in Worker : worker[w].pc # "idle" =>
         /\ ~worker[w].lost
         /\ job[worker[w].ref].state = IF worker[w].pc = "exhausted" THEN "failed" ELSE "active"
    /\ \A v, w \in Worker : /\ worker[v].pc \notin {"idle", "exhausted"}
                            /\ worker[w].pc \notin {"idle", "exhausted"}
                            /\ worker[v].ref = worker[w].ref
                            => v = w

LEMMA QuietSteps ==
  ASSUME PathInv, [Next]_vars, Quiet'
  PROVE  /\ Quiet
         /\ \A w \in Worker : ~Stall(w) /\ ~Abort(w)
<1>0. stalls \in Nat /\ aborts \in Nat
  BY TypeParts, InstallmentPaymentAssumption DEF PathInv, PathTypes
<1>1. ASSUME NEW w \in Worker, WorkerStep(w) \/ Abort(w) \/ Stall(w) \/ CrashWorker(w)
      PROVE  stalls' = stalls \/ stalls' = stalls + 1
  BY <1>1 DEF WorkerStep, TakeJob, ReadInstallment, MarkStale, Verify, MarkApplied, Commit,
              CompleteJob, FailAttempt, MarkChargeFailed, Abort, Stall, CrashWorker, faults
<1>2. ASSUME NEW h \in Hook,
             \/ HookStep(h) \/ CrashHook(h) \/ \E ref \in charged : DeliverCharge(h, ref)
      PROVE  stalls' = stalls
  BY <1>2 DEF HookStep, MarkCharge, EnqueueCharge, MarkChargeProcessed, CrashHook,
              DeliverCharge, faults
<1>3. ASSUME NEW r \in Request, ReserveChecked(r) \/ \E k \in Key : CheckPayable(r, k)
      PROVE  stalls' = stalls
  BY <1>3 DEF ReserveChecked, CheckPayable, faults
<1>4. IntentStep \/ UNCHANGED vars \/ (\E k \in Key : FallDue(k)) => stalls' = stalls
  BY DEF IntentStep, FallDue, vars, payVars, faults
<1>5. stalls' = stalls \/ stalls' = stalls + 1
  BY <1>1, <1>2, <1>3, <1>4 DEF Next
<1>6. Quiet
  BY <1>0, <1>5, AbortsGrow DEF Quiet
<1>7. ASSUME NEW w \in Worker, Stall(w) \/ Abort(w) PROVE FALSE
  BY <1>0, <1>7 DEF Stall, Abort, Quiet
<1> QED BY <1>6, <1>7

LEMMA OneWorkerKept ==
  ASSUME OneWorker, NEW w \in Worker, NEW ref \in Reference,
         \A v \in Worker : v # w => worker'[v] = worker[v],
         \A q \in Reference : q # ref => job'[q] = job[q],
         \A v \in Worker : worker[v].pc # "idle" => worker[v].ref \in Reference,
         \A v \in Worker : v # w /\ worker[v].pc # "idle" /\ worker[v].ref = ref =>
            worker[v].pc = "exhausted" /\ job'[ref].state = "failed",
         worker'[w].pc # "idle" =>
            /\ ~worker'[w].lost
            /\ worker'[w].ref = ref
            /\ job'[ref].state = IF worker'[w].pc = "exhausted" THEN "failed" ELSE "active"
  PROVE  OneWorker'
BY DEF OneWorker

LEMMA OneWorkerNext ==
  ASSUME PathInv, [Next]_vars, Quiet', OneWorker
  PROVE  OneWorker'
<1>0. /\ worker \in [Worker -> BusyWorker \cup {IdleWorker}]
      /\ job \in [Reference -> JobState]
      /\ \A v \in Worker : worker[v].pc # "idle" =>
           worker[v] \in BusyWorker /\ worker[v].ref \in Reference
  <2>1. /\ worker \in [Worker -> BusyWorker \cup {IdleWorker}]
        /\ job \in [Reference -> JobState]
    BY TypeParts DEF PathInv, PathTypes
  <2> QED BY <2>1 DEF BusyWorker, IdleWorker
<1>1. ASSUME UNCHANGED <<job, worker>> PROVE OneWorker'
  BY <1>1 DEF OneWorker
<1>2. ASSUME NEW h \in Hook, EnqueueCharge(h) PROVE OneWorker'
  <2>1. UNCHANGED worker /\ \A ref \in Reference : job[ref].state # "none" => job'[ref] = job[ref]
    BY <1>0, <1>2 DEF EnqueueCharge
  <2>2. \A w \in Worker : worker[w].pc # "idle" => job[worker[w].ref].state # "none"
    BY DEF OneWorker
  <2> QED BY <1>0, <2>1, <2>2 DEF OneWorker
<1>3. ASSUME NEW w \in Worker, WorkerStep(w) \/ CrashWorker(w) PROVE OneWorker'
  <2>1. ASSUME TakeJob(w) PROVE OneWorker'
    <3>1. PICK ref \in Reference :
            /\ job[ref].state = "waiting"
            /\ job' = [job EXCEPT ![ref].state = "active"]
            /\ worker' = [worker EXCEPT ![w] =
                 [pc |-> "read", ref |-> ref, completes |-> FALSE, lost |-> FALSE]]
      BY <2>1 DEF TakeJob
    <3>2. \A v \in Worker : worker[v].pc # "idle" => worker[v].ref # ref
      BY <3>1 DEF OneWorker
    <3>3. job'[ref].state = "active"
      BY <1>0, <3>1 DEF JobState
    <3>4. worker'[w] = [pc |-> "read", ref |-> ref, completes |-> FALSE, lost |-> FALSE]
      BY <1>0, <3>1
    <3> QED BY <1>0, <3>1, <3>2, <3>3, <3>4, OneWorkerKept
  <2> DEFINE ref == worker[w].ref
  <2>2. ASSUME worker[w].pc # "idle"
        PROVE  /\ worker[w] \in BusyWorker /\ ref \in Reference /\ ~worker[w].lost
               /\ job[ref].state = IF worker[w].pc = "exhausted" THEN "failed" ELSE "active"
               /\ \A v \in Worker : v # w /\ worker[v].pc # "idle" /\ worker[v].ref = ref =>
                    worker[v].pc = "exhausted" /\ worker[w].pc = "exhausted"
    BY <1>0, <2>2 DEF OneWorker
  <2>3. ASSUME worker[w].pc # "idle",
               \A v \in Worker : v # w => worker'[v] = worker[v],
               \A q \in Reference : q # ref => job'[q] = job[q],
               worker[w].pc = "exhausted" => job' = job,
               worker'[w].pc # "idle" =>
                  /\ ~worker'[w].lost
                  /\ worker'[w].ref = ref
                  /\ job'[ref].state = IF worker'[w].pc = "exhausted" THEN "failed" ELSE "active"
        PROVE  OneWorker'
    <3> HIDE DEF ref
    <3> QED BY <1>0, <2>2, <2>3, OneWorkerKept
  <2>4. ASSUME worker[w].pc \notin {"idle", "exhausted"}, UNCHANGED job,
               \E to \in {"stale", "verify", "apply", "completing", "fail"} :
                  worker' = [worker EXCEPT ![w].pc = to]
        PROVE  OneWorker'
    <3>0. PICK to \in {"stale", "verify", "apply", "completing", "fail"} :
            worker' = [worker EXCEPT ![w].pc = to]
      BY <2>4
    <3>1. worker'[w] = [worker[w] EXCEPT !.pc = to]
      BY <1>0, <3>0
    <3>2. worker'[w].pc = to /\ worker'[w].ref = ref /\ worker'[w].lost = worker[w].lost
      BY <2>2, <2>4, <3>1 DEF BusyWorker
    <3> QED BY <1>0, <2>2, <2>3, <2>4, <3>0, <3>2
  <2>5. ASSUME worker[w].pc # "idle", worker' = [worker EXCEPT ![w] = IdleWorker],
               \A q \in Reference : q # ref => job'[q] = job[q],
               worker[w].pc = "exhausted" => job' = job
        PROVE  OneWorker'
    <3>1. worker'[w].pc = "idle"
      BY <1>0, <2>5 DEF IdleWorker
    <3> QED BY <1>0, <2>3, <2>5, <3>1
  <2>6. ASSUME ReadInstallment(w) \/ MarkStale(w) \/ Verify(w) \/ Commit(w) PROVE OneWorker'
    BY <2>4, <2>6 DEF ReadInstallment, MarkStale, Verify, Commit, Moves
  <2>7. ASSUME MarkApplied(w) PROVE OneWorker'
    <3>1. CASE worker' = [worker EXCEPT ![w].pc = "fail"]
      <4>1. worker[w].pc = "apply" /\ UNCHANGED job
        BY <2>7 DEF MarkApplied
      <4> QED BY <2>4, <3>1, <4>1
    <3>2. ASSUME NEW b, worker' = [worker EXCEPT ![w].pc = "commit", ![w].completes = b]
          PROVE  OneWorker'
      <4>1. worker[w] \in BusyWorker
        BY <2>2, <2>7 DEF MarkApplied
      <4>2. /\ worker'[w].pc = "commit" /\ worker'[w].ref = ref
            /\ worker'[w].lost = worker[w].lost
        BY <1>0, <3>2, <4>1 DEF BusyWorker
      <4> QED BY <1>0, <2>2, <2>3, <2>7, <3>2, <4>2 DEF MarkApplied
    <3> QED BY <2>7, <3>1, <3>2 DEF MarkApplied
  <2>8. ASSUME CompleteJob(w) PROVE OneWorker'
    <3>1. CASE Moves(w, "completing", "fail") /\ UNCHANGED job
      <4>1. /\ worker[w].pc = "completing" /\ UNCHANGED job
            /\ worker' = [worker EXCEPT ![w].pc = "fail"]
        BY <3>1 DEF Moves
      <4> QED BY <2>4, <4>1
    <3>2. CASE ~(Moves(w, "completing", "fail") /\ UNCHANGED job)
      BY <1>0, <2>2, <2>5, <2>8, <3>2 DEF CompleteJob
    <3> QED BY <3>1, <3>2
  <2>9. ASSUME FailAttempt(w) PROVE OneWorker'
    <3>1. worker[w].pc = "fail" /\ ~worker[w].lost /\ ref \in Reference
      BY <2>2, <2>9 DEF FailAttempt
    <3>2. CASE worker' = [worker EXCEPT ![w] = IdleWorker]
      BY <1>0, <2>5, <2>9, <3>1, <3>2 DEF FailAttempt
    <3>3. CASE /\ worker' = [worker EXCEPT ![w].pc = "exhausted"]
               /\ job' = [job EXCEPT ![ref] = [state |-> "failed", left |-> 0]]
      <4>1. /\ worker'[w].pc = "exhausted" /\ worker'[w].ref = ref
            /\ worker'[w].lost = worker[w].lost
        BY <1>0, <2>2, <3>1, <3>3 DEF BusyWorker
      <4> QED BY <1>0, <2>3, <3>1, <3>3, <4>1
    <3> QED BY <2>9, <3>1, <3>2, <3>3 DEF FailAttempt
  <2>10. ASSUME MarkChargeFailed(w) PROVE OneWorker'
    BY <2>5, <2>10 DEF MarkChargeFailed
  <2>11. ASSUME CrashWorker(w) PROVE OneWorker'
    BY <1>0, <2>2, <2>5, <2>11 DEF CrashWorker
  <2> QED BY <1>3, <2>1, <2>6, <2>7, <2>8, <2>9, <2>10, <2>11 DEF WorkerStep
<1>4. ASSUME NEW h \in Hook,
             \/ MarkCharge(h) \/ MarkChargeProcessed(h) \/ CrashHook(h)
             \/ \E ref \in charged : DeliverCharge(h, ref)
      PROVE  UNCHANGED <<job, worker>>
  BY <1>4 DEF MarkCharge, MarkChargeProcessed, CrashHook, DeliverCharge
<1>5. ASSUME NEW r \in Request, ReserveChecked(r) \/ \E k \in Key : CheckPayable(r, k)
      PROVE  UNCHANGED <<job, worker>>
  BY <1>5 DEF ReserveChecked, CheckPayable
<1>6. IntentStep \/ UNCHANGED vars \/ (\E k \in Key : FallDue(k)) => UNCHANGED <<job, worker>>
  BY DEF IntentStep, FallDue, vars, payVars
<1> QED BY <1>1, <1>2, <1>3, <1>4, <1>5, <1>6, QuietSteps DEF Next, HookStep

\* An intent whose charge was taken up is not ended but by the listener of its job.
Alive == {"PENDING", "PROCESSING", "SUCCESS"}

StillAlive ==
    /\ \A ref \in Reference :
         job[ref].state \in {"waiting", "active"} => status[ref[1]] \in Alive
    /\ \A h \in Hook : hook[h].pc = "enqueue" =>
         status[hook[h].ref[1]] \in Alive \/ job[hook[h].ref].state = "failed"

LEMMA IntentStepsKeepAlive ==
  ASSUME IntentInv, IntentStep \/ (\E r \in Request : ReserveChecked(r)),
         NEW i \in Intent, NEW n \in 1 .. MaxOpened, <<i, n>> \in charged, status[i] \in Alive
  PROVE  status'[i] \in Alive
<1> USE DEF P!TransitionStatus, P!MarkInitialized, P!MarkEnded, P!Mark, Alive
<1>0. /\ status \in [Intent -> P!Status]
      /\ \A r \in Request : P!Holds(r, i) => req[r].pc = "initialized"
      /\ \A s \in Sweeper : ~P!Replaying(s, i)
  <2>1. ~P!Linkless(i) /\ key[i] \notin ReplayKey
    BY DEF IntentInv, P!LinkInv, P!Linkless, P!NoLink, ReplayKey
  <2>2. status \in [Intent -> P!Status]
    BY DEF IntentInv, P!IInv, P!TypeOK
  <2> QED BY <2>1, <2>2 DEF IntentInv, P!LinkInv, P!CreatorAlone, P!ReplayIsLinkless,
                            P!Holds, P!Working
<1>1. ASSUME NEW r \in Request, NEW k, NEW look, P!InsertIntent(r, k, look)
      PROVE  status'[i] \in Alive
  BY <1>0, <1>1 DEF P!InsertIntent, P!rowVars
<1>2. ASSUME NEW r \in Request, P!RequestStep(r) \/ P!CrashRequest(r)
      PROVE  status'[i] \in Alive
  <2>1. CASE P!ReserveAgain(r)
    BY <1>1, <2>1 DEF P!ReserveAgain
  <2>2. CASE P!FindActive(r) \/ P!OpenTransaction(r) \/ P!OpenFails(r) \/ P!CrashRequest(r)
    BY <2>2 DEF P!FindActive, P!OpenTransaction, P!OpenFails, P!CrashRequest, P!rowVars
  <2>3. CASE P!SaveReference(r) \/ P!FailRequest(r)
    <3>1. req[r].pc \in P!Opening
      BY <2>3 DEF P!SaveReference, P!FailRequest, P!Opening
    <3>2. req[r].intent # i
      BY <1>0, <3>1 DEF P!Holds, P!Working, P!Opening
    <3> QED BY <1>0, <2>3, <3>2 DEF P!SaveReference, P!FailRequest
  <2>4. CASE P!AnswerRequest(r)
    BY <1>0, <2>4 DEF P!AnswerRequest
  <2> QED BY <1>2, <2>1, <2>2, <2>3, <2>4 DEF P!RequestStep
<1>3. ASSUME NEW s \in Sweeper, P!Claim(s) \/ P!SweepStep(s) PROVE status'[i] \in Alive
  <2>1. CASE P!EndClaimed(s) \/ P!SaveReplay(s)
    <3>1. sweep[s].intent # i
      BY <1>0, <2>1 DEF P!EndClaimed, P!SaveReplay, P!Replaying, P!Deciding
    <3> QED BY <1>0, <2>1, <3>1 DEF P!EndClaimed, P!SaveReplay
  <2>2. CASE P!ExpireStale(s)
    BY <2>2 DEF P!ExpireStale
  <2>3. CASE P!Claim(s) \/ P!ReadClaimed(s) \/ P!Replay(s) \/ P!ReplayFails(s)
             \/ P!RecordFailure(s)
    BY <2>3 DEF P!Claim, P!ReadClaimed, P!Replay, P!ReplayFails, P!RecordFailure, P!rowVars
  <2> QED BY <1>3, <2>1, <2>2, <2>3 DEF P!SweepStep
<1>4. ASSUME NEW j \in Intent,
             \/ P!GrowStale(j) \/ P!Lapse(j) \/ P!LeaseEnds(j)
             \/ \E m \in 1 .. MaxOpened : P!Pay(j, m)
      PROVE  status'[i] \in Alive
  BY <1>4 DEF P!GrowStale, P!Lapse, P!LeaseEnds, P!Pay, P!rowVars
<1>5. ASSUME NEW r \in Request, ReserveChecked(r) PROVE status'[i] \in Alive
  BY <1>0, <1>5 DEF ReserveChecked, PI!Reserve, PI!InsertIntent, PI!rowVars
<1> QED BY <1>2, <1>3, <1>4, <1>5, SameRequest, SameSweep, SameOther DEF IntentStep

LEMMA AliveStays ==
  ASSUME PathInv, [Next]_vars, NEW ref \in charged, status[ref[1]] \in Alive
  PROVE  \/ status'[ref[1]] \in Alive
         \/ \E w \in Worker : MarkChargeFailed(w) /\ worker[w].ref = ref
<1> USE DEF PI!TransitionStatus, PI!Mark, PI!MarkEnded, Alive
<1>0. /\ status \in [Intent -> PI!Status]
      /\ ref = <<ref[1], ref[2]>> /\ ref[1] \in Intent /\ ref[2] \in 1 .. MaxOpened
      /\ Found(ref)
  BY TypeParts, ChargedFacts DEF PathInv, PI!TypeOK, Reference
<1>1. CASE IntentStep \/ \E r \in Request : ReserveChecked(r)
  BY <1>0, <1>1, IntentStepsKeepAlive DEF PathInv
<1>2. ASSUME UNCHANGED status PROVE status'[ref[1]] \in Alive
  BY <1>2
<1>3. ASSUME NEW r \in Request, NEW k \in Key, CheckPayable(r, k) PROVE UNCHANGED status
  BY <1>3 DEF CheckPayable, intentVars
<1>4. (\E k \in Key : FallDue(k)) \/ UNCHANGED vars => UNCHANGED status
  BY DEF FallDue, vars, intentVars
<1>5. ASSUME NEW h \in Hook,
             \/ HookStep(h) \/ CrashHook(h) \/ \E q \in charged : DeliverCharge(h, q)
      PROVE  status'[ref[1]] \in Alive
  <2>1. CASE MarkCharge(h)
    BY <1>0, <2>1 DEF MarkCharge, rowVars
  <2>2. CASE ~MarkCharge(h)
    BY <1>2, <1>5, <2>2 DEF HookStep, EnqueueCharge, MarkChargeProcessed, CrashHook,
                            DeliverCharge, intentVars
  <2> QED BY <2>1, <2>2
<1>6. ASSUME NEW w \in Worker, WorkerStep(w) \/ Abort(w) \/ Stall(w) \/ CrashWorker(w)
      PROVE  status'[ref[1]] \in Alive \/ (MarkChargeFailed(w) /\ worker[w].ref = ref)
  <2>1. ASSUME MarkStale(w) \/ MarkApplied(w) PROVE status'[ref[1]] \in Alive
    BY <1>0, <2>1 DEF MarkStale, MarkApplied, rowVars
  <2>2. CASE MarkChargeFailed(w)
    <3>1. worker[w].ref \in charged
      BY <2>2 DEF MarkChargeFailed, PathInv, RefsCharged
    <3>2. worker[w].ref \in Reference /\ Found(worker[w].ref)
      BY <3>1, ChargedFacts DEF PathInv
    <3>3. worker[w].ref[1] = ref[1] => worker[w].ref = ref
      BY <1>0, <3>2 DEF Found, Reference
    <3>4. ASSUME worker[w].ref[1] # ref[1] PROVE status'[ref[1]] \in Alive
      BY <1>0, <2>2, <3>4 DEF MarkChargeFailed, rowVars
    <3> QED BY <2>2, <3>3, <3>4
  <2>3. ASSUME ~(MarkStale(w) \/ MarkApplied(w) \/ MarkChargeFailed(w))
        PROVE  status'[ref[1]] \in Alive
    BY <1>2, <1>6, <2>3 DEF WorkerStep, TakeJob, ReadInstallment, Verify, Commit, CompleteJob,
         FailAttempt, Abort, Stall, CrashWorker, intentVars
  <2> QED BY <2>1, <2>2, <2>3
<1> QED BY <1>1, <1>2, <1>3, <1>4, <1>5, <1>6 DEF Next

\* Jobs are queued by the webhook, and one that has failed stays so.
LEMMA JobsCome ==
  ASSUME PathInv, [Next]_vars, Quiet', OneWorker, NEW ref \in Reference
  PROVE  /\ job[ref].state = "failed" => job'[ref].state = "failed"
         /\ job'[ref].state \in {"waiting", "active"} =>
              \/ job[ref].state \in {"waiting", "active"}
              \/ /\ job[ref].state = "none"
                 /\ \E h \in Hook : hook[h].pc = "enqueue" /\ hook[h].ref = ref /\ UNCHANGED status
<1> DEFINE Goal == /\ job[ref].state = "failed" => job'[ref].state = "failed"
                   /\ job'[ref].state \in {"waiting", "active"} =>
                        job[ref].state \in {"waiting", "active"}
<1>0. job \in [Reference -> JobState]
  BY TypeParts DEF PathInv, PathTypes
<1>1. ASSUME UNCHANGED job PROVE Goal
  BY <1>1
<1>2. ASSUME NEW h \in Hook, EnqueueCharge(h)
      PROVE  /\ job[ref].state = "failed" => job'[ref].state = "failed"
             /\ job'[ref].state \in {"waiting", "active"} =>
                 \/ job[ref].state \in {"waiting", "active"}
                 \/ job[ref].state = "none" /\ hook[h].pc = "enqueue" /\ hook[h].ref = ref
                    /\ UNCHANGED status
  BY <1>0, <1>2 DEF EnqueueCharge, JobState, intentVars
<1>3. ASSUME NEW w \in Worker, WorkerStep(w) \/ CrashWorker(w) PROVE Goal
  <2>1. CASE TakeJob(w)
    BY <1>0, <2>1 DEF TakeJob, JobState
  <2>2. ASSUME worker[w].pc \notin {"idle", "exhausted"}, NEW x,
               job' = [job EXCEPT ![worker[w].ref] = x]
        PROVE  Goal
    <3>1. job[worker[w].ref].state = "active"
      BY <2>2 DEF OneWorker
    <3> QED BY <1>0, <2>2, <3>1
  <2>3. CASE CompleteJob(w)
    BY <1>1, <2>2, <2>3 DEF CompleteJob, Moves
  <2>4. CASE FailAttempt(w)
    BY <1>1, <2>2, <2>4 DEF FailAttempt
  <2>5. CASE CrashWorker(w)
    <3>1. CASE worker[w].pc = "exhausted" \/ worker[w].lost
      BY <1>1, <2>5, <3>1 DEF CrashWorker
    <3>2. CASE ~(worker[w].pc = "exhausted" \/ worker[w].lost)
      BY <2>2, <2>5, <3>2 DEF CrashWorker
    <3> QED BY <3>1, <3>2
  <2>6. CASE \/ ReadInstallment(w) \/ MarkStale(w) \/ Verify(w) \/ MarkApplied(w)
             \/ Commit(w) \/ MarkChargeFailed(w)
    BY <1>1, <2>6 DEF ReadInstallment, MarkStale, Verify, MarkApplied, Commit, MarkChargeFailed
  <2> QED BY <1>3, <2>1, <2>3, <2>4, <2>5, <2>6 DEF WorkerStep
<1>4. ASSUME NEW h \in Hook,
             \/ MarkCharge(h) \/ MarkChargeProcessed(h) \/ CrashHook(h)
             \/ \E q \in charged : DeliverCharge(h, q)
      PROVE  UNCHANGED job
  BY <1>4 DEF MarkCharge, MarkChargeProcessed, CrashHook, DeliverCharge
<1>5. ASSUME NEW r \in Request, ReserveChecked(r) \/ \E k \in Key : CheckPayable(r, k)
      PROVE  UNCHANGED job
  BY <1>5 DEF ReserveChecked, CheckPayable
<1>6. IntentStep \/ UNCHANGED vars \/ (\E k \in Key : FallDue(k)) => UNCHANGED job
  BY DEF IntentStep, FallDue, vars, payVars
<1> HIDE DEF Goal
<1>7. Goal \/ \E h \in Hook : EnqueueCharge(h)
  BY <1>1, <1>3, <1>4, <1>5, <1>6, QuietSteps DEF Next, HookStep
<1> QED BY <1>2, <1>7 DEF Goal

LEMMA HooksCome ==
  ASSUME PathInv, [Next]_vars, NEW h \in Hook, hook'[h].pc = "enqueue"
  PROVE  /\ hook[h].pc # "idle" /\ hook'[h].ref = hook[h].ref
         /\ \/ hook[h].pc = "enqueue"
            \/ status'[hook[h].ref[1]] \in Alive
<1> DEFINE Goal == /\ hook[h].pc # "idle" /\ hook'[h].ref = hook[h].ref
                   /\ \/ hook[h].pc = "enqueue"
                      \/ status'[hook[h].ref[1]] \in Alive
<1>0. hook \in [Hook -> BusyHook \cup {IdleHook}] /\ status \in [Intent -> PI!Status]
  BY TypeParts DEF PathInv, PathTypes, PI!TypeOK
<1>1. ASSUME hook'[h] = hook[h] PROVE Goal
  BY <1>1
<1>2. ASSUME NEW g \in Hook, HookStep(g) \/ CrashHook(g) \/ \E q \in charged : DeliverCharge(g, q)
      PROVE  Goal
  <2>1. CASE g # h
    <3>1. hook'[h] = hook[h]
      BY <1>0, <1>2, <2>1 DEF HookStep, MarkCharge, EnqueueCharge, MarkChargeProcessed,
           CrashHook, DeliverCharge
    <3> QED BY <1>1, <3>1
  <2>2. CASE g = h
    <3>1. MarkCharge(h)
      BY <1>0, <1>2, <2>2 DEF HookStep, EnqueueCharge, MarkChargeProcessed, CrashHook,
           DeliverCharge, BusyHook, IdleHook
    <3>2. hook[h].pc = "charge" /\ hook'[h].ref = hook[h].ref /\ PI!Open(hook[h].ref[1])
          /\ PI!Mark(hook[h].ref[1], "PROCESSING")
      BY <1>0, <3>1 DEF MarkCharge, BusyHook, IdleHook
    <3>3. hook[h].ref \in charged
      BY <3>2 DEF PathInv, RefsCharged
    <3>4. hook[h].ref[1] \in Intent
      BY <3>3, ChargedFacts DEF PathInv
    <3>5. status'[hook[h].ref[1]] = "PROCESSING"
      BY <1>0, <3>2, <3>4 DEF PI!Mark, PI!TransitionStatus
    <3> QED BY <3>2, <3>5 DEF Alive
  <2> QED BY <2>1, <2>2
<1>3. ASSUME NEW w \in Worker, WorkerStep(w) \/ Abort(w) \/ Stall(w) \/ CrashWorker(w)
      PROVE  UNCHANGED hook
  BY <1>3 DEF WorkerStep, TakeJob, ReadInstallment, MarkStale, Verify, MarkApplied, Commit,
              CompleteJob, FailAttempt, MarkChargeFailed, Abort, Stall, CrashWorker
<1>4. ASSUME NEW r \in Request, ReserveChecked(r) \/ \E k \in Key : CheckPayable(r, k)
      PROVE  UNCHANGED hook
  BY <1>4 DEF ReserveChecked, CheckPayable
<1>5. IntentStep \/ UNCHANGED vars \/ (\E k \in Key : FallDue(k)) => UNCHANGED hook
  BY DEF IntentStep, FallDue, vars, payVars
<1> QED BY <1>1, <1>2, <1>3, <1>4, <1>5 DEF Next

LEMMA StillAliveNext ==
  ASSUME PathInv, [Next]_vars, Quiet', OneWorker, StillAlive
  PROVE  StillAlive'
<1>1. ASSUME NEW ref \in charged, status[ref[1]] \in Alive
      PROVE  status'[ref[1]] \in Alive \/ (job[ref].state = "failed" /\ job'[ref].state = "failed")
  <2>1. ASSUME NEW w \in Worker, MarkChargeFailed(w), worker[w].ref = ref
        PROVE  job[ref].state = "failed" /\ job'[ref].state = "failed"
    BY <2>1 DEF MarkChargeFailed, OneWorker
  <2> QED BY <1>1, <2>1, AliveStays
<1>2. ASSUME NEW ref \in Reference, job'[ref].state \in {"waiting", "active"}
      PROVE  status'[ref[1]] \in Alive
  <2>1. CASE job[ref].state \in {"waiting", "active"}
    BY <1>1, <1>2, <2>1 DEF StillAlive, PathInv, RefsCharged
  <2>2. CASE job[ref].state = "none"
    BY <1>2, <2>2, JobsCome DEF StillAlive
  <2> QED BY <1>2, <2>1, <2>2, JobsCome
<1>3. ASSUME NEW h \in Hook, hook'[h].pc = "enqueue"
      PROVE  status'[hook'[h].ref[1]] \in Alive \/ job'[hook'[h].ref].state = "failed"
  <2>1. hook[h].ref \in charged /\ hook[h].ref \in Reference
    BY <1>3, HooksCome, ChargedFacts DEF PathInv, RefsCharged
  <2> QED BY <1>1, <1>3, <2>1, HooksCome, JobsCome DEF StillAlive
<1> QED BY <1>2, <1>3 DEF StillAlive

\* Workers that have seen their installment unpaid.
Past == {"verify", "apply", "commit"}

UnpaidYet ==
    \A w \in Worker : worker[w].pc \in Past => istatus[InstallmentOf(worker[w].ref)] # "PAID"

\* A success is told of what is paid, or is about to be by the very charge.
SuccessIsOwn ==
    \A i \in Intent : status[i] = "SUCCESS" =>
        \/ istatus[key[i]] = "PAID"
        \/ \E w \in Worker : worker[w].pc = "commit" /\ worker[w].ref[1] = i

\* While an installment is being paid, its other intents that were paid have ended.
OthersEnded ==
    \A w \in Worker : worker[w].pc = "commit" =>
        \A i \in Intent, n \in 1 .. MaxOpened :
            /\ <<i, n>> \in charged
            /\ i # worker[w].ref[1]
            /\ key[i] = InstallmentOf(worker[w].ref)
            => ~P!Open(i)

OneCommit ==
    \A v, w \in Worker : /\ worker[v].pc = "commit" /\ worker[w].pc = "commit"
                         /\ InstallmentOf(worker[v].ref) = InstallmentOf(worker[w].ref)
                         => v = w

CalmInv == /\ OneWorker /\ StillAlive /\ UnpaidYet /\ SuccessIsOwn
           /\ OthersEnded /\ OneCommit /\ twice = {}

LEMMA RefsOfOne ==
  ASSUME IntentInv, NEW p \in charged, NEW q \in charged, p[1] = q[1]
  PROVE  p = q
BY ChargedFacts DEF Found, Reference

\* A worker that is yet to pay has an open intent.
LEMMA PayerIsOpen ==
  ASSUME PathInv, CalmInv, NEW w \in Worker, worker[w].pc \in {"verify", "apply"}
  PROVE  P!Open(worker[w].ref[1])
<1> DEFINE i == worker[w].ref[1]
<1>1. worker[w].ref \in charged
  BY DEF PathInv, RefsCharged
<1>2. worker[w].ref \in Reference /\ i \in Intent /\ InstallmentOf(worker[w].ref) = key[i]
  BY <1>1, ChargedFacts DEF PathInv, InstallmentOf
<1>3. status[i] \in Alive
  BY <1>2 DEF CalmInv, OneWorker, StillAlive
<1>4. status[i] # "SUCCESS"
  <2> SUFFICES ASSUME status[i] = "SUCCESS" PROVE FALSE
    OBVIOUS
  <2>1. istatus[key[i]] # "PAID"
    BY <1>2 DEF CalmInv, UnpaidYet, Past
  <2>2. PICK v \in Worker : worker[v].pc = "commit" /\ worker[v].ref[1] = i
    BY <1>2, <2>1 DEF CalmInv, SuccessIsOwn
  <2>3. worker[v].ref = worker[w].ref
    BY <1>1, <2>2, RefsOfOne DEF PathInv, RefsCharged
  <2> QED BY <2>2, <2>3 DEF CalmInv, OneWorker
<1> QED BY <1>3, <1>4 DEF Alive, P!Open, P!ActiveStatus

LEMMA OnePayer ==
  ASSUME PathInv, CalmInv, NEW v \in Worker, NEW w \in Worker,
         worker[v].pc = "commit", worker[w].pc \in Past,
         InstallmentOf(worker[v].ref) = InstallmentOf(worker[w].ref)
  PROVE  v = w
<1>1. worker[v].ref \in charged /\ worker[w].ref \in charged
  BY DEF PathInv, RefsCharged, Past
<1>2. CASE worker[w].pc = "commit"
  BY <1>2 DEF CalmInv, OneCommit
<1>3. CASE worker[w].pc # "commit"
  <2>1. P!Open(worker[w].ref[1])
    BY <1>3, PayerIsOpen DEF Past
  <2>2. PICK i \in Intent, n \in 1 .. MaxOpened : worker[w].ref = <<i, n>>
    BY <1>1, ChargedFacts DEF PathInv, Reference
  <2>3. i = worker[v].ref[1]
    BY <1>1, <2>1, <2>2 DEF CalmInv, OthersEnded, InstallmentOf
  <2>4. worker[v].ref = worker[w].ref
    BY <1>1, <2>2, <2>3, RefsOfOne DEF PathInv
  <2> QED BY <2>4 DEF CalmInv, OneWorker, Past
<1> QED BY <1>2, <1>3

LEMMA PastComes ==
  ASSUME PathInv, [Next]_vars, NEW w \in Worker, worker'[w].pc \in Past
  PROVE  /\ worker'[w].ref = worker[w].ref
         /\ worker[w].pc # "idle"
         /\ worker[w].pc \in Past \/ istatus[InstallmentOf(worker[w].ref)] # "PAID"
         /\ ~Commit(w)
<1> DEFINE Goal == /\ worker'[w].ref = worker[w].ref
                   /\ worker[w].pc # "idle"
                   /\ worker[w].pc \in Past \/ istatus[InstallmentOf(worker[w].ref)] # "PAID"
                   /\ ~Commit(w)
<1> USE DEF Past
<1>0. worker \in [Worker -> BusyWorker \cup {IdleWorker}]
  BY TypeParts DEF PathInv, PathTypes
<1>c. ~Commit(w)
  BY <1>0 DEF Commit, Moves, BusyWorker, IdleWorker
<1>1. ASSUME worker'[w] = worker[w] PROVE Goal
  BY <1>c, <1>1
<1>2. ASSUME NEW v \in Worker, WorkerStep(v) \/ Abort(v) \/ Stall(v) \/ CrashWorker(v), v # w
      PROVE  worker'[w] = worker[w]
  BY <1>0, <1>2 DEF WorkerStep, TakeJob, ReadInstallment, MarkStale, Verify, MarkApplied,
       Commit, CompleteJob, FailAttempt, MarkChargeFailed, Abort, Stall, CrashWorker, Moves
<1>3. ASSUME WorkerStep(w) \/ Abort(w) \/ Stall(w) \/ CrashWorker(w) PROVE Goal
  <2>1. CASE MarkApplied(w)
    BY <1>0, <1>c, <2>1 DEF MarkApplied, BusyWorker, IdleWorker
  <2>2. CASE Stall(w)
    BY <1>0, <1>c, <2>2 DEF Stall, BusyWorker, IdleWorker
  <2>3. CASE ReadInstallment(w)
    BY <1>0, <1>c, <2>3 DEF ReadInstallment, Moves, BusyWorker, IdleWorker
  <2>4. CASE Verify(w)
    BY <1>0, <1>c, <2>4 DEF Verify, Moves, BusyWorker, IdleWorker
  <2>5. ~(\/ TakeJob(w) \/ MarkStale(w) \/ CompleteJob(w) \/ MarkChargeFailed(w)
          \/ Abort(w) \/ CrashWorker(w))
    BY <1>0 DEF TakeJob, MarkStale, CompleteJob, MarkChargeFailed, Abort, CrashWorker, Moves,
         BusyWorker, IdleWorker
  <2>6. ~FailAttempt(w)
    BY <1>0 DEF FailAttempt, BusyWorker, IdleWorker
  <2> QED BY <1>3, <1>c, <2>1, <2>2, <2>3, <2>4, <2>5, <2>6 DEF WorkerStep
<1>4. ASSUME NEW r \in Request, ReserveChecked(r) \/ \E j \in Key : CheckPayable(r, j)
      PROVE  UNCHANGED worker
  BY <1>4 DEF ReserveChecked, CheckPayable
<1>5. ASSUME NEW h \in Hook,
             \/ HookStep(h) \/ CrashHook(h) \/ \E ref \in charged : DeliverCharge(h, ref)
      PROVE  UNCHANGED worker
  BY <1>5 DEF HookStep, MarkCharge, EnqueueCharge, MarkChargeProcessed, CrashHook, DeliverCharge
<1>6. IntentStep \/ UNCHANGED vars \/ (\E j \in Key : FallDue(j)) => UNCHANGED worker
  BY DEF IntentStep, FallDue, vars, payVars
<1> QED BY <1>1, <1>2, <1>3, <1>4, <1>5, <1>6 DEF Next

LEMMA UnpaidNext ==
  ASSUME PathInv, [Next]_vars, CalmInv
  PROVE  UnpaidYet' /\ twice' = {}
<1>1. ASSUME NEW w \in Worker, worker'[w].pc \in Past
      PROVE  istatus'[key'[worker'[w].ref[1]]] # "PAID"
  <2>1. /\ worker'[w].ref = worker[w].ref /\ worker[w].ref \in charged
        /\ istatus[InstallmentOf(worker[w].ref)] # "PAID"
        /\ ~Commit(w)
    BY <1>1, PastComes DEF PathInv, RefsCharged, CalmInv, UnpaidYet
  <2>2. /\ InstallmentOf(worker[w].ref) \in Key
        /\ key'[worker'[w].ref[1]] = InstallmentOf(worker[w].ref)
    BY <2>1, ChargedFacts, KeysStay DEF PathInv, InstallmentOf
  <2>3. ASSUME NEW v \in Worker, Commit(v),
               InstallmentOf(worker[v].ref) = InstallmentOf(worker[w].ref)
        PROVE  FALSE
    <3>0. v # w
      BY <2>1, <2>3
    <3>1. worker[v].pc = "commit" /\ v # w
      BY <2>3, <3>0 DEF Commit, Moves
    <3>2. worker'[w] = worker[w]
      BY <2>3, <3>1, TypeParts DEF Commit, Moves, PathInv, PathTypes
    <3> QED BY <1>1, <2>3, <3>1, <3>2, OnePayer
  <2>4. ASSUME NEW v \in Worker, Commit(v)
        PROVE  istatus'[InstallmentOf(worker[w].ref)] # "PAID"
    BY <2>1, <2>2, <2>3, <2>4 DEF Commit, PathInv, TypeOK
  <2> QED BY <2>1, <2>2, <2>4, OnlyCommitBooks
<1>2. ASSUME NEW w \in Worker, Commit(w) PROVE twice' = {}
  BY <1>2 DEF Commit, Moves, CalmInv, UnpaidYet, Past
<1>3. twice' = {}
  BY <1>2, OnlyCommitBooks DEF CalmInv
<1> QED BY <1>1, <1>3 DEF UnpaidYet, InstallmentOf

LEMMA SuccessIsOwnNext ==
  ASSUME PathInv, [Next]_vars, Quiet', StaleIsPaid, SuccessIsOwn
  PROVE  SuccessIsOwn'
<1> SUFFICES ASSUME NEW i \in Intent, status'[i] = "SUCCESS"
             PROVE  \/ istatus'[key'[i]] = "PAID"
                    \/ \E w \in Worker : worker'[w].pc = "commit" /\ worker'[w].ref[1] = i
  BY DEF SuccessIsOwn
<1>1. CASE status[i] = "SUCCESS"
  <2>1. key'[i] = key[i] /\ key[i] \in Key
    BY <1>1, KeysStay DEF PathInv, IntentInv, P!IInv, P!RowsKeyed
  <2>2. CASE istatus[key[i]] = "PAID"
    BY <2>1, <2>2, PaidStays
  <2>3. ASSUME NEW w \in Worker, worker[w].pc = "commit", worker[w].ref[1] = i
        PROVE  \/ istatus'[key'[i]] = "PAID"
               \/ worker'[w].pc = "commit" /\ worker'[w].ref[1] = i
    <3>1. CASE Commit(w)
      BY <2>1, <2>3, <3>1 DEF Commit, PathInv, TypeOK, InstallmentOf
    <3>2. ~Abort(w)
      BY QuietSteps
    <3> QED BY <2>3, <3>1, <3>2, CommitStays
  <2> QED BY <1>1, <2>2, <2>3 DEF SuccessIsOwn
<1>2. CASE status[i] # "SUCCESS"
  <2>1. PICK w \in Worker : worker[w].ref[1] = i /\ (MarkStale(w) \/ MarkApplied(w))
    BY <1>2, SuccessComes
  <2>2. worker[w].ref \in charged /\ InstallmentOf(worker[w].ref) = key[i]
    BY <2>1 DEF MarkStale, MarkApplied, Moves, PathInv, RefsCharged, InstallmentOf
  <2>3. key'[i] = key[i] /\ key[i] \in Key
    BY <2>1, <2>2, KeysStay, ChargedFacts DEF PathInv, InstallmentOf
  <2>4. CASE MarkStale(w)
    BY <2>2, <2>3, <2>4, PaidStays DEF MarkStale, Moves, StaleIsPaid
  <2>5. CASE MarkApplied(w)
    <3>1. worker'[w].pc = "commit" /\ worker'[w].ref = worker[w].ref
      BY <1>2, <2>5, TypeParts DEF MarkApplied, rowVars, PathInv, PathTypes, BusyWorker, IdleWorker
    <3> QED BY <2>1, <3>1
  <2> QED BY <2>1, <2>4, <2>5
<1> QED BY <1>1, <1>2

LEMMA OneCommitNext ==
  ASSUME PathInv, [Next]_vars, OneCommit
  PROVE  OneCommit'
<1> SUFFICES ASSUME NEW v \in Worker, NEW w \in Worker,
                    worker'[v].pc = "commit", worker'[w].pc = "commit",
                    key'[worker'[v].ref[1]] = key'[worker'[w].ref[1]],
                    v # w
             PROVE  FALSE
  BY DEF OneCommit, InstallmentOf
<1>1. ASSUME NEW u \in Worker, worker'[u].pc = "commit"
      PROVE  key'[worker'[u].ref[1]] = InstallmentOf(worker[u].ref)
  <2>1. worker'[u].ref = worker[u].ref /\ worker[u].ref \in charged
    BY <1>1, CommitComes DEF MarkApplied, PathInv, RefsCharged
  <2> QED BY <2>1, KeysStay DEF InstallmentOf
<1>2. InstallmentOf(worker[v].ref) = InstallmentOf(worker[w].ref)
  BY <1>1
<1>3. ASSUME NEW u \in Worker, NEW o \in Worker, u # o, worker'[o].pc = "commit",
             InstallmentOf(worker[o].ref) = InstallmentOf(worker[u].ref), MarkApplied(u)
      PROVE  FALSE
  <2>1. ~Locked(InstallmentOf(worker[u].ref))
    BY <1>3 DEF MarkApplied
  <2>2. worker[o].pc # "commit"
    BY <1>3, <2>1 DEF Locked
  <2>3. worker'[o] = worker[o]
    BY <1>3, TypeParts DEF MarkApplied, PathInv, PathTypes
  <2> QED BY <1>3, <2>2, <2>3
<1>4. ~MarkApplied(v) /\ ~MarkApplied(w)
  BY <1>2, <1>3
<1>5. worker[v].pc = "commit" /\ worker[w].pc = "commit"
  BY <1>4, CommitComes
<1> QED BY <1>2, <1>5 DEF OneCommit

\* An intent that has ended stays as it is.
LEMMA EndedStays ==
  ASSUME PathInv, [Next]_vars, NEW i \in Intent, status[i] # "UNUSED", ~P!Open(i)
  PROVE  status'[i] = status[i]
<1>1. [P!Next]_(P!vars) /\ P!IInv
  BY StepsKeepRules DEF PathInv, IntentInv
<1>2. (\E k \in Key, j \in Intent : P!Creates(k, j)) \/ P!Advances
  BY <1>1, Assumed, P!StepShape
<1> QED BY <1>1, <1>2 DEF P!Creates, P!Advances, P!IInv, P!TypeOK

\* Only the payer charges.
LEMMA ChargesCome ==
  ASSUME PathInv, [Next]_vars, Swift, NEW ref \in charged', ref \notin charged
  PROVE  ~Locked(InstallmentOf(ref)) /\ UNCHANGED <<key, worker>>
<1>1. ASSUME IntentStep PROVE ~Locked(InstallmentOf(ref)) /\ UNCHANGED <<key, worker>>
  <2>1. ASSUME NEW i \in Intent, NEW n \in 1 .. MaxOpened, Swift => ~Locked(key[i]), PI!Pay(i, n)
        PROVE  ~Locked(InstallmentOf(ref)) /\ UNCHANGED key
    BY <2>1 DEF PI!Pay, PI!rowVars, InstallmentOf
  <2>2. ASSUME NEW r \in Request PROVE ~(PI!RequestStep(r) \/ PI!CrashRequest(r))
    BY DEF PI!RequestStep, PI!CrashRequest, PI!ReserveAgain, PI!FindActive,
       PI!OpenTransaction, PI!OpenFails, PI!SaveReference, PI!FailRequest, PI!AnswerRequest,
       PI!payerVars
  <2>3. ASSUME NEW s \in Sweeper PROVE ~(PI!Claim(s) \/ PI!SweepStep(s))
    BY DEF PI!Claim, PI!SweepStep, PI!ReadClaimed, PI!EndClaimed, PI!Replay, PI!ReplayFails,
       PI!SaveReplay, PI!RecordFailure, PI!ExpireStale, PI!payerVars
  <2>4. ASSUME NEW i \in Intent PROVE ~(PI!GrowStale(i) \/ PI!Lapse(i) \/ PI!LeaseEnds(i))
    BY DEF PI!GrowStale, PI!Lapse, PI!LeaseEnds, PI!payerVars
  <2> QED BY <1>1, <2>1, <2>2, <2>3, <2>4 DEF IntentStep, payVars
<1>2. ASSUME NEW r \in Request, ReserveChecked(r) \/ \E k \in Key : CheckPayable(r, k)
      PROVE  UNCHANGED charged
  BY <1>2 DEF ReserveChecked, CheckPayable, PI!Reserve, PI!payerVars, intentVars
<1>3. ASSUME NEW h \in Hook,
             \/ HookStep(h) \/ CrashHook(h) \/ \E q \in charged : DeliverCharge(h, q)
      PROVE  UNCHANGED charged
  BY <1>3 DEF HookStep, MarkCharge, EnqueueCharge, MarkChargeProcessed, CrashHook,
              DeliverCharge, intentVars
<1>4. ASSUME NEW w \in Worker, WorkerStep(w) \/ Abort(w) \/ Stall(w) \/ CrashWorker(w)
      PROVE  UNCHANGED charged
  BY <1>4 DEF WorkerStep, TakeJob, ReadInstallment, MarkStale, Verify, MarkApplied, Commit,
              CompleteJob, FailAttempt, MarkChargeFailed, Abort, Stall, CrashWorker, intentVars
<1>5. UNCHANGED vars \/ (\E k \in Key : FallDue(k)) => UNCHANGED charged
  BY DEF FallDue, vars, intentVars
<1> QED BY <1>1, <1>2, <1>3, <1>4, <1>5 DEF Next

LEMMA OthersEndedNext ==
  ASSUME PathInv, [Next]_vars, Swift, CalmInv
  PROVE  OthersEnded'
<1> SUFFICES ASSUME NEW w \in Worker, worker'[w].pc = "commit",
                    NEW i \in Intent, NEW n \in 1 .. MaxOpened,
                    <<i, n>> \in charged',
                    i # worker'[w].ref[1],
                    key'[i] = key'[worker'[w].ref[1]],
                    status'[i] \in P!ActiveStatus
             PROVE  FALSE
  BY DEF OthersEnded, InstallmentOf, P!Open, P!ActiveStatus
<1>1. worker'[w].ref = worker[w].ref /\ worker[w].ref \in charged
  BY CommitComes DEF MarkApplied, PathInv, RefsCharged
<1> DEFINE own == worker[w].ref[1]
<1>2. own \in Intent /\ InstallmentOf(worker[w].ref) = key[own] /\ key'[own] = key[own]
  BY <1>1, ChargedFacts, KeysStay DEF PathInv, InstallmentOf
<1>3. ASSUME <<i, n>> \in charged
      PROVE  status[i] # "UNUSED" /\ key[i] = key[own] /\ P!Open(i)
  <2>1. status[i] # "UNUSED"
    BY <1>3, ChargedFacts DEF PathInv
  <2>2. key[i] = key[own]
    BY <1>1, <1>2, <2>1, KeysStay
  <2>3. P!Open(i)
    BY <2>1, EndedStays DEF P!Open
  <2> QED BY <2>1, <2>2, <2>3
<1>4. CASE worker[w].pc = "commit"
  <2>1. CASE <<i, n>> \in charged
    BY <1>1, <1>2, <1>3, <1>4, <2>1 DEF CalmInv, OthersEnded
  <2>2. CASE <<i, n>> \notin charged
    <3>1. ~Locked(key[i]) /\ UNCHANGED key
      BY <2>2, ChargesCome DEF InstallmentOf
    <3>2. key[i] = InstallmentOf(worker[w].ref)
      BY <1>1, <1>2, <3>1
    <3> QED BY <1>4, <3>1, <3>2 DEF Locked
  <2> QED BY <2>1, <2>2
<1>5. CASE MarkApplied(w)
  <2>1. <<i, n>> \in charged
    BY <1>5 DEF MarkApplied
  <2>2. P!Open(own)
    BY <1>5, PayerIsOpen DEF MarkApplied
  <2>3. i = own
    BY <1>2, <1>3, <2>1, <2>2 DEF PathInv, IntentInv, P!IInv, P!OneActiveIntent
  <2> QED BY <1>1, <2>3
<1> QED BY <1>4, <1>5, CommitComes

Calm == Quiet => CalmInv

LEMMA CalmNext ==
  ASSUME PathInv, [Next]_vars, Swift, StaleIsPaid, Calm
  PROVE  Calm'
<1> SUFFICES ASSUME Quiet' PROVE CalmInv'
  BY DEF Calm
<1>1. CalmInv
  BY QuietSteps DEF Calm
<1>2. OneWorker' /\ StillAlive'
  BY <1>1, OneWorkerNext, StillAliveNext DEF CalmInv
<1>3. UnpaidYet' /\ twice' = {}
  BY <1>1, UnpaidNext
<1>4. SuccessIsOwn' /\ OneCommit' /\ OthersEnded'
  BY <1>1, SuccessIsOwnNext, OneCommitNext, OthersEndedNext DEF CalmInv
<1> QED BY <1>2, <1>3, <1>4 DEF CalmInv

-----------------------------------------------------------------------------
(* The theorems.                                                           *)

MoneyInv == /\ PathInv /\ StaleIsPaid /\ SuccessIsPaid /\ PaidIsBooked
            /\ InOrder /\ PaidUpIsCompleted

LEMMA MoneyInit == Init => MoneyInv /\ Calm
<1> SUFFICES ASSUME Init PROVE MoneyInv /\ Calm
  OBVIOUS
<1>1. P!Init /\ IntentInv
  BY SameInit, Assumed, P!InitInv, P!LinkInit DEF Init, IntentInv
<1>2. charged = {} /\ \A i \in Intent : status[i] = "UNUSED" /\ key[i] = NoKey
  BY <1>1 DEF P!Init
<1>3. NoJob \in JobState /\ NoJob.state = "none"
  BY InstallmentPaymentAssumption DEF NoJob, JobState
<1>4. PathTypes
  BY <1>3, InstallmentPaymentAssumption DEF Init, PathTypes, Unpaid
<1>5. RefsCharged
  BY <1>3 DEF Init, RefsCharged, IdleHook, IdleWorker
<1>6. PathInv
  BY <1>1, <1>4, <1>5, TypeParts, SameTypes DEF PathInv, IntentInv, P!IInv
<1>7. StaleIsPaid /\ SuccessIsPaid /\ PaidIsBooked /\ PaidUpIsCompleted
  BY <1>2, InstallmentPaymentAssumption
     DEF Init, StaleIsPaid, SuccessIsPaid, PaidIsBooked, PaidUpIsCompleted, IdleWorker
<1>8. InOrder
  <2>1. \A r \in Request : req[r].key = NoKey
    BY <1>1 DEF P!Init, P!IdleRequest, P!RequestAt
  <2> QED BY <1>2, <2>1, InstallmentPaymentAssumption DEF Init, InOrder, IdleWorker
<1>9. CalmInv
  BY <1>2, <1>3 DEF Init, CalmInv, OneWorker, StillAlive, UnpaidYet, SuccessIsOwn, OthersEnded,
       OneCommit, Past, IdleWorker, IdleHook
<1> QED BY <1>6, <1>7, <1>8, <1>9 DEF MoneyInv, Calm

LEMMA MoneyNext ==
  ASSUME P!OneSweep, MoneyInv, [Next]_vars
  PROVE  MoneyInv'
<1> USE DEF MoneyInv
<1>1. PathInv' /\ StaleIsPaid' /\ SuccessIsPaid'
  BY PathNext, StaleNext, SuccessNext
<1>2. PaidIsBooked' /\ InOrder' /\ PaidUpIsCompleted'
  BY <1>1, PaidIsBookedNext, InOrderNext, CompletedNext
<1> QED BY <1>1, <1>2

LEMMA MoneyHolds ==
  ASSUME P!OneSweep
  PROVE  Spec => []MoneyInv
<1>1. Init => MoneyInv
  BY MoneyInit
<1>2. MoneyInv /\ [Next]_vars => MoneyInv'
  BY MoneyNext
<1> QED BY <1>1, <1>2, PTL DEF Spec

\* Every variable keeps its type, through webhooks delivered again, jobs taken
\* twice, rolled-back transactions and crashes.
THEOREM TypeOKHolds ==
  ASSUME P!OneSweep
  PROVE  Spec => []TypeOK
<1>1. MoneyInv => TypeOK
  BY DEF MoneyInv, PathInv
<1> QED BY <1>1, MoneyHolds, PTL

\* A step of the intents as the theorems know it is one of this composition's.
LEMMA SameNext == [P!Next]_(P!vars) => [PI!Next]_(PI!vars)
<1>1. UNCHANGED P!vars => UNCHANGED PI!vars
  BY DEF P!vars, PI!vars
<1>2. ASSUME NEW s \in Sweeper PROVE P!CrashSweep(s) => PI!CrashSweep(s)
  BY DEF P!CrashSweep, PI!CrashSweep, P!IdleSweep, PI!IdleSweep, P!SweepAt, PI!SweepAt,
       P!rowVars, PI!rowVars, P!payerVars, PI!payerVars
<1>3. P!Next => PI!Next
  BY <1>2, SameReserve, SameRequest, SameSweep, SameOther DEF P!Next, PI!Next
<1> QED BY <1>1, <1>3

\* markProcessing of the webhook, markSuccess of the worker and markFailed of its
\* listener are settlements of charged, current references: with them the intents
\* behave as PaymentIntent has it.
THEOREM KeepsIntentRulesHolds ==
  ASSUME P!OneSweep
  PROVE  Spec => KeepsIntentRules
<1>1. Init => PI!Init
  BY DEF Init
<1>2. MoneyInv /\ [Next]_vars => [PI!Next]_(PI!vars)
  BY StepsKeepRules, SameNext DEF MoneyInv
<1> QED BY <1>1, <1>2, MoneyHolds, PTL DEF Spec, KeepsIntentRules, PI!Spec

\* What is proved of the payment-intent service holds while webhooks, payment jobs,
\* failed-listeners, crashes and rollbacks move its intents: a reservation key is
\* a slot one intent holds at a time, ended intents stay as they are, a payer's
\* link stays its intent's, and no sweep ends an intent that a payer may still pay.
THEOREM IntentTheoremsApply ==
  ASSUME P!OneSweep
  PROVE  Spec => /\ P!ImplementsSlot /\ P!EndedIsFinal /\ P!SweepKeepsLiveIntent
                 /\ []P!OneActiveIntent /\ []P!HolderHasLink /\ []P!LinkIsCurrent
<1>1. Spec => P!Spec
  <2>1. Init => P!Init
    BY SameInit DEF Init
  <2>2. MoneyInv /\ [Next]_vars => [P!Next]_(P!vars)
    BY StepsKeepRules DEF MoneyInv
  <2> QED BY <2>1, <2>2, MoneyHolds, PTL DEF Spec, P!Spec
<1>2. /\ P!Spec => P!ImplementsSlot
      /\ P!Spec => P!EndedIsFinal
      /\ P!Spec => []P!OneActiveIntent
      /\ P!Spec => []P!HolderHasLink
  BY Assumed, P!ImplementsSlotHolds, P!EndedIsFinalHolds, P!OneActiveIntentHolds,
     P!HolderHasLinkHolds
<1>3. /\ P!Spec => []P!LinkIsCurrent
      /\ P!Spec => P!SweepKeepsLiveIntent
  BY Assumed, P!LinkIsCurrentHolds, P!SweepKeepsLiveIntentHolds
<1> QED BY <1>1, <1>2, <1>3

\* An installment is PAID exactly when a charge of it that the payer made is
\* booked: the payment transaction writes both or neither, and nothing takes the
\* installment from a charged intent afterwards.
THEOREM PaidIsBookedHolds ==
  ASSUME P!OneSweep
  PROVE  Spec => []PaidIsBooked
<1>1. MoneyInv => PaidIsBooked
  BY DEF MoneyInv
<1> QED BY <1>1, MoneyHolds, PTL

\* markSuccess runs outside the payment transaction; still, an intent is SUCCESS
\* only if its installment is PAID, its transaction is about to commit, or one was
\* rolled back.
THEOREM SuccessIsPaidHolds ==
  ASSUME P!OneSweep
  PROVE  Spec => []SuccessIsPaid
<1>1. MoneyInv => SuccessIsPaid
  BY DEF MoneyInv
<1> QED BY <1>1, MoneyHolds, PTL

\* The commit that pays the last unpaid installment completes the contract,
\* although the worker asks for PENDING installments only and asks before it pays.
THEOREM PaidUpIsCompletedHolds ==
  ASSUME P!OneSweep
  PROVE  Spec => []PaidUpIsCompleted
<1>1. MoneyInv => PaidUpIsCompleted
  BY DEF MoneyInv
<1> QED BY <1>1, MoneyHolds, PTL

\* No installment is booked twice unless a job ran twice at a time or a
\* transaction was rolled back after its markSuccess, as long as nobody pays
\* between a markSuccess and its commit.
THEOREM BookedOnceInCalmHolds ==
  ASSUME P!OneSweep, Swift
  PROVE  Spec => []BookedOnceInCalm
<1>1. Init => MoneyInv /\ Calm
  BY MoneyInit
<1>2. MoneyInv /\ Calm /\ [Next]_vars => (MoneyInv /\ Calm)'
  BY MoneyNext, CalmNext DEF MoneyInv
<1>3. MoneyInv /\ Calm => BookedOnceInCalm
  <2> SUFFICES ASSUME MoneyInv, Calm, twice # {} PROVE stalls + aborts > 0
    BY DEF BookedOnceInCalm
  <2>1. stalls \in Nat /\ aborts \in Nat
    BY TypeParts, InstallmentPaymentAssumption DEF MoneyInv, PathInv, PathTypes
  <2>2. ~Quiet
    BY DEF Calm, CalmInv
  <2> QED BY <2>1, <2>2 DEF Quiet
<1> QED BY <1>1, <1>2, <1>3, PTL DEF Spec

-----------------------------------------------------------------------------
(* What the books say of the schedule and of the intents.                  *)

\* The installments are paid in the order of their sequence: the check that no
\* earlier one is unpaid is made before the reservation and never again.
PaidInOrder == \A j, k \in Key : j < k /\ istatus[k] = "PAID" => istatus[j] = "PAID"

\* What the code keeps of "all installments paid": it counts the PENDING ones, so
\* a contract may be COMPLETED with installments that are DUE or OVERDUE, but not
\* with one whose due date has not come.
CompletedHasNoPending == contract = "COMPLETED" => \A k \in Key : istatus[k] # "PENDING"

\* A charge that is booked has ended its intent: it holds no reservation, and no
\* sweep, webhook or job brings it back.
BookedIsEnded == \A ref \in booked : status[ref[1]] \in PI!TerminalStatus

\* An open transaction has ended its intent, and has counted the PENDING
\* installments when it decided to complete the contract.
CommitKnows ==
    \A w \in Worker : worker[w].pc = "commit" =>
        /\ status[worker[w].ref[1]] \in PI!TerminalStatus
        /\ worker[w].completes =>
             \A j \in Key : j # InstallmentOf(worker[w].ref) => istatus[j] # "PENDING"

ScheduleInv == CommitKnows /\ CompletedHasNoPending /\ BookedIsEnded

\* No installment becomes PENDING again.
LEMMA DueStays ==
  ASSUME PathInv, [Next]_vars, NEW k \in Key, istatus[k] # "PENDING"
  PROVE  istatus'[k] # "PENDING"
<1> USE DEF books
<1>0. istatus \in [Key -> Unpaid \cup {"PAID"}]
  BY DEF PathInv, TypeOK
<1>1. ASSUME NEW j \in Key, FallDue(j) PROVE istatus'[k] # "PENDING"
  BY <1>0, <1>1 DEF FallDue
<1>2. ASSUME NEW w \in Worker, Commit(w) PROVE istatus'[k] # "PENDING"
  BY <1>0, <1>2 DEF Commit
<1>3. ASSUME NEW r \in Request, ReserveChecked(r) \/ \E j \in Key : CheckPayable(r, j)
      PROVE  UNCHANGED istatus
  BY <1>3 DEF ReserveChecked, CheckPayable
<1>4. ASSUME NEW h \in Hook,
             \/ HookStep(h) \/ CrashHook(h) \/ \E ref \in charged : DeliverCharge(h, ref)
      PROVE  UNCHANGED istatus
  BY <1>4 DEF HookStep, MarkCharge, EnqueueCharge, MarkChargeProcessed, CrashHook, DeliverCharge
<1>5. ASSUME NEW w \in Worker, WorkerStep(w) \/ Abort(w) \/ Stall(w) \/ CrashWorker(w)
      PROVE  Commit(w) \/ UNCHANGED istatus
  BY <1>5 DEF WorkerStep, TakeJob, ReadInstallment, MarkStale, Verify, MarkApplied,
              CompleteJob, FailAttempt, MarkChargeFailed, Abort, Stall, CrashWorker
<1>6. IntentStep \/ UNCHANGED vars => UNCHANGED istatus
  BY DEF IntentStep, vars, payVars
<1> QED BY <1>1, <1>2, <1>3, <1>4, <1>5, <1>6 DEF Next

LEMMA TerminalStays ==
  ASSUME PathInv, [Next]_vars, NEW ref \in charged, status[ref[1]] \in PI!TerminalStatus
  PROVE  status'[ref[1]] \in PI!TerminalStatus
<1>1. /\ ref[1] \in Intent
      /\ status[ref[1]] # "UNUSED" /\ ~P!Open(ref[1])
  BY ChargedFacts DEF PathInv, PI!TerminalStatus, P!Open, P!ActiveStatus
<1> QED BY <1>1, EndedStays

\* markSuccess leaves an intent SUCCESS, or as it ended before.
LEMMA AppliedIsEnded ==
  ASSUME PathInv, NEW w \in Worker, MarkApplied(w), worker'[w].pc = "commit"
  PROVE  status'[worker[w].ref[1]] \in PI!TerminalStatus
<1> DEFINE i == worker[w].ref[1]
<1>1. worker[w].ref \in charged
  BY DEF MarkApplied, PathInv, RefsCharged
<1>2. i \in Intent /\ status[i] # "UNUSED" /\ status \in [Intent -> PI!Status]
  BY <1>1, ChargedFacts, TypeParts DEF PathInv, PI!TypeOK
<1>3. worker \in [Worker -> BusyWorker \cup {IdleWorker}]
  BY TypeParts DEF PathInv, PathTypes
<1>4. PI!Mark(i, "SUCCESS")
  BY <1>3 DEF MarkApplied, BusyWorker, IdleWorker
<1>5. status' = IF PI!Open(i) THEN [status EXCEPT ![i] = "SUCCESS"] ELSE status
  BY <1>4 DEF PI!Mark, PI!TransitionStatus
<1> HIDE DEF i
<1>6. ASSUME PI!Open(i) PROVE status'[i] \in PI!TerminalStatus
  BY <1>2, <1>5, <1>6 DEF PI!TerminalStatus
<1>7. ASSUME ~PI!Open(i) PROVE status'[i] \in PI!TerminalStatus
  BY <1>2, <1>5, <1>7 DEF PI!Open, PI!Status, PI!TerminalStatus
<1> QED BY <1>6, <1>7 DEF i

LEMMA ScheduleNext ==
  ASSUME PathInv, PathInv', [Next]_vars, ScheduleInv
  PROVE  ScheduleInv'
<1> USE DEF ScheduleInv
<1>1. ASSUME NEW w \in Worker, worker'[w].pc = "commit"
      PROVE  /\ status'[worker'[w].ref[1]] \in PI!TerminalStatus
             /\ worker'[w].completes =>
                  \A j \in Key : j # key'[worker'[w].ref[1]] => istatus'[j] # "PENDING"
  <2> DEFINE ref == worker[w].ref
  <2>1. worker'[w].ref = ref /\ ref \in charged
    BY <1>1, CommitComes DEF MarkApplied, PathInv, RefsCharged
  <2>2. key'[ref[1]] = InstallmentOf(ref)
    BY <2>1, KeysStay DEF InstallmentOf
  <2>3. CASE worker[w].pc = "commit" /\ worker'[w].completes = worker[w].completes
    <3>1. status'[ref[1]] \in PI!TerminalStatus
      BY <2>1, <2>3, TerminalStays DEF CommitKnows
    <3>2. ASSUME worker'[w].completes, NEW j \in Key, j # InstallmentOf(ref)
          PROVE  istatus'[j] # "PENDING"
      BY <2>3, <3>2, DueStays DEF CommitKnows
    <3> QED BY <2>1, <2>2, <3>1, <3>2
  <2>4. CASE MarkApplied(w)
    <3>1. status'[ref[1]] \in PI!TerminalStatus
      BY <1>1, <2>4, AppliedIsEnded
    <3>2. ASSUME worker'[w].completes, NEW j \in Key, j # InstallmentOf(ref)
          PROVE  istatus'[j] # "PENDING"
      <4>1. worker \in [Worker -> BusyWorker \cup {IdleWorker}]
        BY TypeParts DEF PathInv, PathTypes
      <4>2. istatus[j] # "PENDING"
        BY <1>1, <2>4, <3>2, <4>1 DEF MarkApplied, BusyWorker, IdleWorker
      <4> QED BY <4>2, DueStays
    <3> QED BY <2>1, <2>2, <3>1, <3>2
  <2> QED BY <1>1, <2>3, <2>4, CommitComes
<1>2. CommitKnows'
  BY <1>1 DEF CommitKnows, InstallmentOf
<1>3. CompletedHasNoPending' /\ BookedIsEnded'
  <2>1. ASSUME NEW w \in Worker, Commit(w)
        PROVE  CompletedHasNoPending' /\ BookedIsEnded'
    <3> DEFINE ref == worker[w].ref
               k == InstallmentOf(ref)
    <3>1. worker[w].pc = "commit" /\ ref \in charged /\ k \in Key
      BY <2>1, ChargedFacts DEF Commit, Moves, PathInv, RefsCharged
    <3>2. booked' = booked \cup {ref} /\ istatus' = [istatus EXCEPT ![k] = "PAID"]
          /\ contract' = IF worker[w].completes THEN "COMPLETED" ELSE contract
      BY <2>1 DEF Commit
    <3>3. ASSUME contract' = "COMPLETED", NEW j \in Key PROVE istatus'[j] # "PENDING"
      <4>1. CASE j = k
        BY <3>1, <3>2, <4>1 DEF PathInv, TypeOK
      <4>2. CASE j # k /\ worker[w].completes
        <5>1. istatus[j] # "PENDING"
          BY <3>1, <4>2 DEF CommitKnows
        <5> QED BY <5>1, DueStays
      <4>3. CASE ~worker[w].completes
        BY <3>2, <3>3, <4>3, DueStays DEF CompletedHasNoPending
      <4> QED BY <4>1, <4>2, <4>3
    <3>4. ASSUME NEW b \in booked' PROVE status'[b[1]] \in PI!TerminalStatus
      <4>1. b \in charged /\ status[b[1]] \in PI!TerminalStatus
        BY <3>1, <3>2 DEF BookedIsEnded, CommitKnows, PathInv, RefsCharged
      <4> QED BY <4>1, TerminalStays
    <3> QED BY <3>3, <3>4 DEF CompletedHasNoPending, BookedIsEnded
  <2>2. CASE UNCHANGED <<contract, booked, twice>>
    <3>1. ASSUME NEW b \in booked PROVE status'[b[1]] \in PI!TerminalStatus
      BY TerminalStays DEF BookedIsEnded, PathInv, RefsCharged
    <3>2. ASSUME contract = "COMPLETED", NEW j \in Key PROVE istatus'[j] # "PENDING"
      BY <3>2, DueStays DEF CompletedHasNoPending
    <3> QED BY <2>2, <3>1, <3>2 DEF CompletedHasNoPending, BookedIsEnded
  <2> QED BY <2>1, <2>2, OnlyCommitBooks
<1> QED BY <1>2, <1>3

LEMMA ScheduleHolds ==
  ASSUME P!OneSweep
  PROVE  Spec => [](MoneyInv /\ ScheduleInv)
<1>1. Init => MoneyInv /\ ScheduleInv
  <2>1. Init => ScheduleInv
    BY DEF Init, ScheduleInv, CommitKnows, CompletedHasNoPending, BookedIsEnded, IdleWorker
  <2> QED BY <2>1, MoneyInit
<1>2. MoneyInv /\ ScheduleInv /\ [Next]_vars => (MoneyInv /\ ScheduleInv)'
  <2> SUFFICES ASSUME MoneyInv, ScheduleInv, [Next]_vars PROVE MoneyInv' /\ ScheduleInv'
    OBVIOUS
  <2>1. MoneyInv'
    BY MoneyNext
  <2> QED BY <2>1, ScheduleNext DEF MoneyInv
<1> QED BY <1>1, <1>2, PTL DEF Spec

\* The payable check of initializeInstallmentPayment is never repeated, and the
\* installments are paid in order all the same: what is checked stays payable.
THEOREM PaidInOrderHolds ==
  ASSUME P!OneSweep
  PROVE  Spec => []PaidInOrder
<1>1. MoneyInv => PaidInOrder
  <2> SUFFICES ASSUME MoneyInv, NEW j \in Key, NEW k \in Key, j < k, istatus[k] = "PAID"
               PROVE  istatus[j] = "PAID"
    BY DEF PaidInOrder
  <2>1. PICK ref \in booked : ref \in charged /\ key[ref[1]] = k
    BY DEF MoneyInv, PaidIsBooked, InstallmentOf
  <2>2. ref[1] \in Intent
    BY <2>1, ChargedFacts DEF MoneyInv, PathInv
  <2>3. LowerPaid(k)
    BY <2>1, <2>2 DEF MoneyInv, InOrder
  <2> QED BY <2>3 DEF LowerPaid
<1> QED BY <1>1, MoneyHolds, PTL

\* The payment worker completes a contract when it counts no PENDING installment:
\* one whose due date has not come never belongs to a COMPLETED contract.
THEOREM CompletedHasNoPendingHolds ==
  ASSUME P!OneSweep
  PROVE  Spec => []CompletedHasNoPending
<1>1. ScheduleInv => CompletedHasNoPending
  BY DEF ScheduleInv
<1> QED BY <1>1, ScheduleHolds, PTL

\* A charge the worker has booked has ended its intent, whatever the sweep, the
\* webhook and the listener of a failed job did in the meantime.
THEOREM BookedIsEndedHolds ==
  ASSUME P!OneSweep
  PROVE  Spec => []BookedIsEnded
<1>1. ScheduleInv => BookedIsEnded
  BY DEF ScheduleInv
<1> QED BY <1>1, ScheduleHolds, PTL
=============================================================================
