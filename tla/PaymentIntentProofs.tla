------------------------- MODULE PaymentIntentProofs -------------------------
(***************************************************************************)
(* Theorems about PaymentIntent, for every pool of intents, keys, requests *)
(* and sweeps and every bound.                                             *)
(*                                                                         *)
(* The argument: what a process remembers of an intent stays true of it    *)
(* (Remembered, the strengthening of the type invariant), so each step     *)
(* either creates one intent for a key nobody holds or only moves intents  *)
(* that are still active.  The four results follow from that one fact.     *)
(***************************************************************************)
EXTENDS PaymentIntent, TLAPS

\* What the local state of requests and sweeps says of the intents they hold.
RequestRemembers ==
    \A r \in Request :
        /\ req[r].pc \in {"find", "insert", "refind"} => req[r].key \in Key
        /\ req[r].pc \in {"open", "opened", "initialized", "failing"} =>
              /\ req[r].intent \in Intent
              /\ status[req[r].intent] # "UNUSED"
        /\ req[r].pc \in {"opened", "initialized"} => req[r].ref # 0
        /\ req[r].pc = "initialized" => reference[req[r].intent] # 0

SweepRemembers ==
    \A s \in Sweeper :
        /\ sweep[s].pc \in {"expiring", "giving_up", "open", "opened", "recording"} =>
              sweep[s].intent \in Intent
        /\ sweep[s].pc = "opened" => sweep[s].ref # 0

RowsKeyed == \A i \in Intent : status[i] # "UNUSED" => key[i] \in Key

IInv == /\ TypeOK
        /\ RequestRemembers
        /\ SweepRemembers
        /\ RowsKeyed
        /\ HolderHasLink
        /\ OneActiveIntent

\* The two shapes a step can have as far as rows are concerned.
Creates(k, i) ==
    /\ ActiveFor(k) = {}
    /\ status[i] = "UNUSED"
    /\ status' = [status EXCEPT ![i] = "INITIALIZING"]
    /\ key' = [key EXCEPT ![i] = k]
    /\ UNCHANGED reference

Advances ==
    /\ UNCHANGED key
    /\ \A i \in Intent :
         /\ status'[i] # status[i] => Open(i) /\ status'[i] # "UNUSED"
         /\ ~Open(i) => reference'[i] = reference[i]
         /\ reference[i] # 0 => reference'[i] # 0
         /\ status'[i] \in {"INITIALIZED", "PENDING", "PROCESSING"}
              => reference'[i] # 0

-----------------------------------------------------------------------------
(* The constructors of local states are well typed. *)
LEMMA RequestAtType ==
  ASSUME NEW pc \in {"idle", "find", "insert", "refind",
                     "open", "opened", "initialized", "failing"},
         NEW k \in Key \cup {NoKey}, NEW i \in Intent \cup {NoIntent},
         NEW n \in 0 .. MaxOpened, NEW c \in BOOLEAN
  PROVE  RequestAt(pc, k, i, n, c) \in RequestState
  BY DEF RequestAt, RequestState

LEMMA IdleRequestType == IdleRequest \in RequestState
  BY PaymentIntentAssumption DEF IdleRequest, RequestAt, RequestState

LEMMA SweepAtType ==
  ASSUME NEW pc \in {"idle", "loop", "expiring", "giving_up", "open",
                     "opened", "recording"},
         NEW b \in SUBSET (Intent \X (1 .. MaxRecovery + 1)),
         NEW i \in Intent \cup {NoIntent}, NEW n \in 0 .. MaxOpened
  PROVE  SweepAt(pc, b, i, n) \in SweepState
  BY DEF SweepAt, SweepState

LEMMA IdleSweepType == IdleSweep \in SweepState
  BY PaymentIntentAssumption, SweepAtType DEF IdleSweep

(* The initial state satisfies the inductive invariant. *)
LEMMA InitInv == Init => IInv
<1> SUFFICES ASSUME Init PROVE IInv
  OBVIOUS
<1>1. TypeOK
  BY PaymentIntentAssumption, IdleRequestType, IdleSweepType
     DEF Init, TypeOK, Status
<1>2. RequestRemembers /\ SweepRemembers
  BY DEF Init, RequestRemembers, SweepRemembers, IdleRequest, RequestAt,
         IdleSweep, SweepAt
<1>3. RowsKeyed /\ HolderHasLink /\ OneActiveIntent
  BY DEF Init, RowsKeyed, HolderHasLink, OneActiveIntent, Open, ActiveStatus
<1> QED BY <1>1, <1>2, <1>3 DEF IInv

(* An INSERT keeps the types. *)
LEMMA InsertType ==
  ASSUME TypeOK, NEW r \in Request, NEW k \in Key, NEW look \in {"find", "refind"},
         InsertIntent(r, k, look),
         UNCHANGED <<opened, sweep, payerVars, crashes>>
  PROVE  TypeOK'
<1>1. CASE ActiveFor(k) # {} /\ req' = [req EXCEPT ![r] = RequestAt(look, k, NoIntent, 0, FALSE)]
           /\ UNCHANGED rowVars
  <2>1. RequestAt(look, k, NoIntent, 0, FALSE) \in RequestState
    BY PaymentIntentAssumption DEF RequestAt, RequestState
  <2> QED BY <1>1, <2>1 DEF TypeOK, rowVars, payerVars
<1>2. ASSUME NEW i \in Intent,
             status' = [status EXCEPT ![i] = "INITIALIZING"],
             key' = [key EXCEPT ![i] = k],
             req' = [req EXCEPT ![r] = RequestAt("open", k, i, 0, TRUE)],
             UNCHANGED <<reference, lapsed, stale, claimed, attempts>>
      PROVE TypeOK'
  <2>1. RequestAt("open", k, i, 0, TRUE) \in RequestState
    BY PaymentIntentAssumption DEF RequestAt, RequestState
  <2>2. "INITIALIZING" \in Status
    BY DEF Status, ActiveStatus
  <2> QED BY <1>2, <2>1, <2>2 DEF TypeOK, payerVars
<1> QED BY <1>1, <1>2 DEF InsertIntent

(* Every request step keeps the types. *)
LEMMA RequestType ==
  ASSUME TypeOK, RequestRemembers, HolderHasLink, NEW r \in Request,
         RequestStep(r) \/ CrashRequest(r) \/ \E k \in Key : Reserve(r, k)
  PROVE  TypeOK'
<1> DEFINE i == req[r].intent
           k == req[r].key
<1>0. /\ k \in Key \cup {NoKey} /\ i \in Intent \cup {NoIntent}
      /\ req[r].ref \in 0 .. MaxOpened /\ req[r].creator \in BOOLEAN
  BY DEF TypeOK, RequestState
<1>1. ASSUME NEW q \in Key, Reserve(r, q) PROVE TypeOK'
  BY <1>1, InsertType DEF Reserve
<1>2. CASE ReserveAgain(r)
  BY <1>2, InsertType DEF ReserveAgain, RequestRemembers
<1>3. CASE FindActive(r)
  <2>1. k \in Key
    BY <1>3 DEF FindActive, RequestRemembers
  <2>2. /\ \A j \in Intent : RequestAt("open", k, j, 0, FALSE) \in RequestState
        /\ RequestAt("insert", k, NoIntent, 0, FALSE) \in RequestState
    BY PaymentIntentAssumption, <2>1 DEF RequestAt, RequestState
  <2>3. \A j \in Intent : status[j] \in {"INITIALIZED", "PENDING"}
                            => <<j, reference[j]>> \in Reference
    BY PaymentIntentAssumption DEF TypeOK, HolderHasLink, Reference
  <2>4. links' \subseteq Reference
    BY <1>3, <2>3 DEF FindActive, ActiveFor, TypeOK
  <2>5. req' \in [Request -> RequestState]
    BY <1>3, <2>2, IdleRequestType DEF FindActive, ActiveFor, TypeOK
  <2> QED BY <1>3, <2>4, <2>5 DEF FindActive, TypeOK, rowVars
<1>4. CASE OpenTransaction(r)
  <2>1. i \in Intent /\ opened[i] + 1 \in 0 .. MaxOpened
    BY <1>4, PaymentIntentAssumption DEF OpenTransaction, TypeOK, RequestRemembers
  <2>2. RequestAt("opened", k, i, opened[i] + 1, req[r].creator) \in RequestState
    BY <1>0, <2>1, RequestAtType
  <2> QED BY <1>4, <2>1, <2>2 DEF OpenTransaction, TypeOK, rowVars, payerVars
<1>5. CASE OpenFails(r)
  <2>1. RequestAt("failing", k, i, 0, req[r].creator) \in RequestState
    BY <1>0, PaymentIntentAssumption, RequestAtType
  <2> QED BY <1>5, <2>1 DEF OpenFails, TypeOK, rowVars, payerVars
<1>6. CASE SaveReference(r)
  <2>1. RequestAt("initialized", k, i, req[r].ref, req[r].creator) \in RequestState
    BY <1>0, RequestAtType
  <2>2. req' \in [Request -> RequestState]
    BY <1>6, <2>1, IdleRequestType DEF SaveReference, TypeOK
  <2>3. status' \in [Intent -> Status] /\ reference' \in [Intent -> 0 .. MaxOpened]
        /\ claimed' \in [Intent -> BOOLEAN]
    BY <1>6, <1>0 DEF SaveReference, MarkInitialized, TransitionStatus,
                      ReleaseClaim, TypeOK, Status, ActiveStatus
  <2> QED BY <1>6, <2>2, <2>3 DEF SaveReference, MarkInitialized, TypeOK, payerVars
<1>7. CASE FailRequest(r)
  BY <1>7, IdleRequestType
     DEF FailRequest, MarkEnded, TransitionStatus, ReleaseClaim, TypeOK, Status,
         TerminalStatus, payerVars
<1>8. CASE AnswerRequest(r)
  <2>1. i \in Intent /\ req[r].ref \in 1 .. MaxOpened
    BY <1>8, <1>0, PaymentIntentAssumption DEF AnswerRequest, RequestRemembers
  <2>2. links' \subseteq Reference
    BY <1>8, <2>1 DEF AnswerRequest, TypeOK, Reference
  <2> QED BY <1>8, <2>2, IdleRequestType
             DEF AnswerRequest, Mark, TransitionStatus, TypeOK, Status, ActiveStatus
<1>9. CASE CrashRequest(r)
  BY <1>9, IdleRequestType, PaymentIntentAssumption
     DEF CrashRequest, TypeOK, rowVars, payerVars
<1> QED BY <1>1, <1>2, <1>3, <1>4, <1>5, <1>6, <1>7, <1>8, <1>9 DEF RequestStep

(* Every sweep step keeps the types. *)
LEMMA SweepType ==
  ASSUME TypeOK, SweepRemembers, NEW s \in Sweeper,
         Claim(s) \/ SweepStep(s) \/ CrashSweep(s)
  PROVE  TypeOK'
<1> DEFINE i == sweep[s].intent
           b == sweep[s].batch
<1>0. /\ b \in SUBSET (Intent \X (1 .. MaxRecovery + 1))
      /\ i \in Intent \cup {NoIntent} /\ sweep[s].ref \in 0 .. MaxOpened
      /\ 0 \in 0 .. MaxOpened
  BY PaymentIntentAssumption DEF TypeOK, SweepState
<1>n. SweepAt("loop", b, NoIntent, 0) \in SweepState
  BY <1>0, SweepAtType
<1>1. CASE Claim(s)
  <2> DEFINE due == {j \in Intent : status[j] = "INITIALIZING" /\ stale[j] /\ ~claimed[j]}
             count(j) == IF attempts[j] > MaxRecovery THEN attempts[j]
                                                      ELSE attempts[j] + 1
             batch == {<<j, count(j)>> : j \in due}
  <2>1. \A j \in Intent : count(j) \in 1 .. MaxRecovery + 1
    BY PaymentIntentAssumption DEF TypeOK
  <2>2. batch \in SUBSET (Intent \X (1 .. MaxRecovery + 1))
    BY <2>1
  <2>3. SweepAt("loop", batch, NoIntent, 0) \in SweepState
    BY <2>2, <1>0, SweepAtType
  <2>4. attempts' \in [Intent -> 0 .. MaxRecovery + 1]
    BY <1>1, <2>1, PaymentIntentAssumption DEF Claim, TypeOK
  <2>5. claimed' \in [Intent -> BOOLEAN]
    BY <1>1 DEF Claim, TypeOK
  <2>6. sweep' = [sweep EXCEPT ![s] = SweepAt("loop", batch, NoIntent, 0)]
    BY <1>1 DEF Claim
  <2> QED BY <1>1, <2>3, <2>4, <2>5, <2>6 DEF Claim, TypeOK, payerVars
<1>2. CASE ReadClaimed(s)
  <2>1. PICK c \in b, pc \in {"loop", "expiring", "giving_up", "open"} :
               sweep' = [sweep EXCEPT ![s] =
                 SweepAt(pc, b \ {c}, IF pc = "loop" THEN NoIntent ELSE c[1], 0)]
    BY <1>2 DEF ReadClaimed
  <2>2. c[1] \in Intent /\ b \ {c} \in SUBSET (Intent \X (1 .. MaxRecovery + 1))
    BY <1>0
  <2>3. SweepAt(pc, b \ {c}, IF pc = "loop" THEN NoIntent ELSE c[1], 0) \in SweepState
    BY <1>0, <2>2, SweepAtType
  <2> QED BY <1>2, <2>1, <2>3 DEF ReadClaimed, TypeOK, rowVars, payerVars
<1>3. CASE EndClaimed(s)
  BY <1>3, <1>n DEF EndClaimed, NextClaimed, MarkEnded, TransitionStatus,
                    ReleaseClaim, TypeOK, Status, TerminalStatus, payerVars
<1>4. CASE Replay(s)
  <2>1. i \in Intent /\ opened[i] + 1 \in 0 .. MaxOpened
    BY <1>4, PaymentIntentAssumption DEF Replay, TypeOK, SweepRemembers
  <2>2. SweepAt("opened", b, i, opened[i] + 1) \in SweepState
    BY <1>0, <2>1, SweepAtType
  <2> QED BY <1>4, <2>1, <2>2 DEF Replay, TypeOK, rowVars, payerVars
<1>5. CASE ReplayFails(s)
  <2>1. SweepAt("recording", b, i, 0) \in SweepState
    BY <1>0, SweepAtType
  <2> QED BY <1>5, <2>1 DEF ReplayFails, TypeOK, rowVars, payerVars
<1>6. CASE SaveReplay(s)
  BY <1>6, <1>0, <1>n DEF SaveReplay, NextClaimed, MarkInitialized, TransitionStatus,
                    ReleaseClaim, TypeOK, Status, ActiveStatus, payerVars
<1>7. CASE RecordFailure(s)
  <2>1. i \in Intent
    BY <1>7 DEF RecordFailure, SweepRemembers
  <2>2. claimed' \in [Intent -> BOOLEAN] /\ stale' \in [Intent -> BOOLEAN]
    BY <1>7, <2>1 DEF RecordFailure, TypeOK
  <2> QED BY <1>7, <1>n, <2>2 DEF RecordFailure, NextClaimed, TypeOK, payerVars
<1>8. CASE ExpireStale(s)
  <2>1. status' \in [Intent -> Status] /\ claimed' \in [Intent -> BOOLEAN]
    BY <1>8 DEF ExpireStale, TypeOK, Status, TerminalStatus
  <2> QED BY <1>8, <2>1, IdleSweepType DEF ExpireStale, TypeOK, payerVars
<1>9. CASE CrashSweep(s)
  BY <1>9, IdleSweepType, PaymentIntentAssumption
     DEF CrashSweep, TypeOK, rowVars, payerVars
<1> QED BY <1>1, <1>2, <1>3, <1>4, <1>5, <1>6, <1>7, <1>8, <1>9 DEF SweepStep

(* Time, the payer and the settling calls keep the types. *)
LEMMA OtherType ==
  ASSUME TypeOK,
         \/ \E i \in Intent : GrowStale(i) \/ Lapse(i) \/ LeaseEnds(i)
         \/ \E i \in Intent, n \in 1 .. MaxOpened : Pay(i, n) \/ Settle(i, n)
  PROVE  TypeOK'
<1>1. ASSUME NEW i \in Intent, GrowStale(i) \/ Lapse(i) \/ LeaseEnds(i)
      PROVE  TypeOK'
  BY <1>1 DEF GrowStale, Lapse, LeaseEnds, TypeOK, payerVars
<1>2. ASSUME NEW i \in Intent, NEW n \in 1 .. MaxOpened, Pay(i, n)
      PROVE  TypeOK'
  BY <1>2 DEF Pay, TypeOK, rowVars
<1>3. ASSUME NEW i \in Intent, NEW n \in 1 .. MaxOpened, Settle(i, n)
      PROVE  TypeOK'
  BY <1>3 DEF Settle, Mark, MarkEnded, TransitionStatus, ReleaseClaim, TypeOK,
              Status, ActiveStatus, TerminalStatus, payerVars
<1> QED BY <1>1, <1>2, <1>3

(* Every step keeps the types. *)
LEMMA NextType == IInv /\ [Next]_vars => TypeOK'
<1> SUFFICES ASSUME IInv, [Next]_vars PROVE TypeOK'
  OBVIOUS
<1>1. CASE UNCHANGED vars
  BY <1>1 DEF IInv, TypeOK, vars
<1> QED BY <1>1, RequestType, SweepType, OtherType DEF Next, IInv

-----------------------------------------------------------------------------
(* The shape of a step: it creates one row for a free key, or moves rows    *)
(* that are still active.                                                   *)
LEMMA MarkShape ==
  ASSUME TypeOK, NEW i \in Intent, NEW to \in Status \ {"UNUSED"},
         TransitionStatus(i, to), UNCHANGED <<key, reference>>,
         to \in {"INITIALIZED", "PENDING", "PROCESSING"} /\ Open(i) => reference[i] # 0,
         HolderHasLink
  PROVE  Advances
  BY DEF TransitionStatus, Advances, TypeOK, HolderHasLink, Open

LEMMA InitializedShape ==
  ASSUME TypeOK, NEW i \in Intent, NEW n \in 1 .. MaxOpened,
         MarkInitialized(i, n), HolderHasLink
  PROVE  Advances
  BY DEF MarkInitialized, TransitionStatus, Advances, TypeOK, HolderHasLink, Open

LEMMA StillShape ==
  ASSUME TypeOK, HolderHasLink, UNCHANGED <<status, key, reference>>
  PROVE  Advances
  BY DEF Advances, TypeOK, HolderHasLink

LEMMA InsertShape ==
  ASSUME TypeOK, HolderHasLink, NEW r \in Request, NEW k \in Key,
         NEW look \in {"find", "refind"}, InsertIntent(r, k, look)
  PROVE  (\E i \in Intent : Creates(k, i)) \/ Advances
  BY StillShape DEF InsertIntent, Creates, rowVars

LEMMA StepShape ==
  ASSUME IInv, [Next]_vars
  PROVE  (\E k \in Key, i \in Intent : Creates(k, i)) \/ Advances
<1> USE DEF IInv
<1>s. /\ "PENDING" \in Status \ {"UNUSED"} /\ "PROCESSING" \in Status \ {"UNUSED"}
      /\ "SUCCESS" \in Status \ {"UNUSED"} /\ "FAILED" \in Status \ {"UNUSED"}
      /\ "EXPIRED" \in Status \ {"UNUSED"}
  BY DEF Status, ActiveStatus, TerminalStatus
<1>1. ASSUME NEW r \in Request, NEW k \in Key, Reserve(r, k)
      PROVE  (\E q \in Key, i \in Intent : Creates(q, i)) \/ Advances
  BY <1>1, InsertShape DEF Reserve
<1>2. ASSUME NEW r \in Request, ReserveAgain(r)
      PROVE  (\E q \in Key, i \in Intent : Creates(q, i)) \/ Advances
  BY <1>2, InsertShape DEF ReserveAgain, RequestRemembers
<1>3. ASSUME NEW r \in Request,
             FindActive(r) \/ OpenTransaction(r) \/ OpenFails(r) \/ CrashRequest(r)
      PROVE  Advances
  BY <1>3, StillShape DEF FindActive, OpenTransaction, OpenFails, CrashRequest, rowVars
<1>4. ASSUME NEW r \in Request, SaveReference(r) PROVE Advances
  <2>1. req[r].intent \in Intent /\ req[r].ref \in 1 .. MaxOpened
    BY <1>4, PaymentIntentAssumption
       DEF SaveReference, RequestRemembers, TypeOK, RequestState
  <2> QED BY <1>4, <2>1, InitializedShape DEF SaveReference
<1>5. ASSUME NEW r \in Request, FailRequest(r) PROVE Advances
  BY <1>5, <1>s, MarkShape DEF FailRequest, MarkEnded, RequestRemembers
<1>6. ASSUME NEW r \in Request, AnswerRequest(r) PROVE Advances
  BY <1>6, <1>s, MarkShape DEF AnswerRequest, Mark, RequestRemembers
<1>7. ASSUME NEW s \in Sweeper,
             Claim(s) \/ ReadClaimed(s) \/ Replay(s) \/ ReplayFails(s)
               \/ RecordFailure(s) \/ CrashSweep(s)
      PROVE  Advances
  BY <1>7, StillShape DEF Claim, ReadClaimed, Replay, ReplayFails, RecordFailure,
                          CrashSweep, rowVars
<1>8. ASSUME NEW s \in Sweeper, EndClaimed(s) PROVE Advances
  BY <1>8, <1>s, MarkShape DEF EndClaimed, MarkEnded, SweepRemembers
<1>9. ASSUME NEW s \in Sweeper, SaveReplay(s) PROVE Advances
  <2>1. sweep[s].intent \in Intent /\ sweep[s].ref \in 1 .. MaxOpened
    BY <1>9, PaymentIntentAssumption
       DEF SaveReplay, SweepRemembers, TypeOK, SweepState
  <2> QED BY <1>9, <2>1, InitializedShape DEF SaveReplay
<1>10. ASSUME NEW s \in Sweeper, ExpireStale(s) PROVE Advances
  BY <1>10 DEF ExpireStale, Advances, TypeOK, HolderHasLink, Open, ActiveStatus
<1>11. ASSUME NEW i \in Intent, GrowStale(i) \/ Lapse(i) \/ LeaseEnds(i) PROVE Advances
  BY <1>11, StillShape DEF GrowStale, Lapse, LeaseEnds
<1>12. ASSUME NEW i \in Intent, NEW n \in 1 .. MaxOpened, Pay(i, n) PROVE Advances
  BY <1>12, StillShape DEF Pay, rowVars
<1>13. ASSUME NEW i \in Intent, NEW n \in 1 .. MaxOpened, Settle(i, n) PROVE Advances
  BY <1>13, <1>s, MarkShape DEF Settle, Mark, MarkEnded
<1>14. CASE UNCHANGED vars
  BY <1>14, StillShape DEF vars
<1> QED
  BY <1>1, <1>2, <1>3, <1>4, <1>5, <1>6, <1>7, <1>8, <1>9, <1>10, <1>11, <1>12,
     <1>13, <1>14 DEF Next, RequestStep, SweepStep

(* What either shape implies for every row. *)
LEMMA ShapeFacts ==
  ASSUME IInv, TypeOK', (\E k \in Key, i \in Intent : Creates(k, i)) \/ Advances
  PROVE  /\ \A i \in Intent : /\ status[i] # "UNUSED" => status'[i] # "UNUSED"
                              /\ reference[i] # 0 => reference'[i] # 0
         /\ RowsKeyed' /\ HolderHasLink' /\ OneActiveIntent'
<1>1. CASE Advances
  BY <1>1 DEF Advances, IInv, TypeOK, RowsKeyed, HolderHasLink, OneActiveIntent,
              Open, ActiveStatus
<1>2. ASSUME NEW k \in Key, NEW i \in Intent, Creates(k, i)
      PROVE  /\ \A j \in Intent : /\ status[j] # "UNUSED" => status'[j] # "UNUSED"
                                  /\ reference[j] # 0 => reference'[j] # 0
             /\ RowsKeyed' /\ HolderHasLink' /\ OneActiveIntent'
  <2>1. \A j \in Intent : Open(j) => key[j] # k
    BY <1>2 DEF Creates, ActiveFor, Open
  <2>2. \A j \in Intent : j # i => status'[j] = status[j] /\ key'[j] = key[j]
    BY <1>2 DEF Creates, IInv, TypeOK
  <2>3. status'[i] = "INITIALIZING" /\ key'[i] = k /\ reference' = reference
    BY <1>2 DEF Creates, IInv, TypeOK
  <2>4. OneActiveIntent'
    BY <2>1, <2>2, <2>3 DEF OneActiveIntent, Open, IInv
  <2> QED BY <1>2, <2>2, <2>3, <2>4 DEF Creates, IInv, TypeOK, RowsKeyed, HolderHasLink
<1> QED BY <1>1, <1>2

(* What a request remembers of an intent stays true.  The request that moves *)
(* learns it in its own step; the others rely on the shape of the step.      *)
LEMMA RequestsRemember ==
  ASSUME IInv, [Next]_vars, TypeOK',
         \A i \in Intent : /\ status[i] # "UNUSED" => status'[i] # "UNUSED"
                           /\ reference[i] # 0 => reference'[i] # 0
  PROVE  RequestRemembers'
<1> USE DEF IInv
<1>a. ASSUME UNCHANGED req PROVE RequestRemembers'
  BY <1>a DEF RequestRemembers
<1>b. ASSUME NEW r \in Request, NEW v, req' = [req EXCEPT ![r] = v],
             /\ v.pc \in {"find", "insert", "refind"} => v.key \in Key
             /\ v.pc \in {"open", "opened", "initialized", "failing"} =>
                  v.intent \in Intent /\ status'[v.intent] # "UNUSED"
             /\ v.pc \in {"opened", "initialized"} => v.ref # 0
             /\ v.pc = "initialized" => reference'[v.intent] # 0
      PROVE  RequestRemembers'
  <2>1. \A q \in Request : req'[q] = IF q = r THEN v ELSE req[q]
    BY <1>b DEF TypeOK
  <2> QED BY <1>b, <2>1 DEF RequestRemembers
<1>i. IdleRequest.pc = "idle"
  BY DEF IdleRequest, RequestAt
<1>1. ASSUME NEW r \in Request, NEW k \in Key, NEW look \in {"find", "refind"},
             InsertIntent(r, k, look)
      PROVE  RequestRemembers'
  <2>1. CASE req' = [req EXCEPT ![r] = RequestAt(look, k, NoIntent, 0, FALSE)]
    BY <2>1, <1>b DEF RequestAt
  <2>2. ASSUME NEW i \in Intent, status' = [status EXCEPT ![i] = "INITIALIZING"],
               req' = [req EXCEPT ![r] = RequestAt("open", k, i, 0, TRUE)]
        PROVE  RequestRemembers'
    <3>1. status'[i] # "UNUSED"
      BY <2>2 DEF TypeOK
    <3> QED BY <2>2, <3>1, <1>b DEF RequestAt
  <2> QED BY <1>1, <2>1, <2>2 DEF InsertIntent
<1>2. ASSUME NEW r \in Request, NEW k \in Key, Reserve(r, k) PROVE RequestRemembers'
  BY <1>2, <1>1 DEF Reserve
<1>3. ASSUME NEW r \in Request, ReserveAgain(r) PROVE RequestRemembers'
  BY <1>3, <1>1 DEF ReserveAgain, RequestRemembers
<1>4. ASSUME NEW r \in Request, FindActive(r) PROVE RequestRemembers'
  <2> DEFINE k == req[r].key
  <2>1. k \in Key
    BY <1>4 DEF FindActive, RequestRemembers
  <2>2. CASE req' = [req EXCEPT ![r] = IdleRequest]
    BY <2>2, <1>b, <1>i
  <2>3. ASSUME NEW i \in Intent, status[i] # "UNUSED", UNCHANGED status,
               req' = [req EXCEPT ![r] = RequestAt("open", k, i, 0, FALSE)]
        PROVE  RequestRemembers'
    BY <2>3, <1>b DEF RequestAt
  <2>4. CASE req' = [req EXCEPT ![r] = RequestAt("insert", k, NoIntent, 0, FALSE)]
    BY <2>1, <2>4, <1>b DEF RequestAt
  <2> QED BY <1>4, <2>2, <2>3, <2>4 DEF FindActive, ActiveFor, ActiveStatus, rowVars
<1>5. ASSUME NEW r \in Request, OpenTransaction(r) PROVE RequestRemembers'
  <2> DEFINE i == req[r].intent
             v == RequestAt("opened", req[r].key, i, opened[i] + 1, req[r].creator)
  <2>1. i \in Intent /\ status'[i] # "UNUSED"
    BY <1>5 DEF OpenTransaction, RequestRemembers
  <2>2. opened[i] + 1 # 0
    BY <2>1 DEF TypeOK
  <2>3. v.pc = "opened" /\ v.intent = i /\ v.ref # 0
    BY <2>2 DEF RequestAt
  <2>4. req' = [req EXCEPT ![r] = v]
    BY <1>5 DEF OpenTransaction
  <2> HIDE DEF v
  <2> QED BY <2>1, <2>3, <2>4, <1>b
<1>6. ASSUME NEW r \in Request, OpenFails(r) PROVE RequestRemembers'
  <2> DEFINE v == RequestAt("failing", req[r].key, req[r].intent, 0, req[r].creator)
  <2>1. v.pc = "failing" /\ v.intent = req[r].intent
    BY DEF RequestAt
  <2>2. req' = [req EXCEPT ![r] = v]
    BY <1>6 DEF OpenFails
  <2>3. v.intent \in Intent /\ status'[v.intent] # "UNUSED"
    BY <1>6, <2>1 DEF OpenFails, RequestRemembers
  <2> HIDE DEF v
  <2> QED BY <2>1, <2>2, <2>3, <1>b
<1>7. ASSUME NEW r \in Request, SaveReference(r) PROVE RequestRemembers'
  <2> DEFINE i == req[r].intent
             v == RequestAt("initialized", req[r].key, i, req[r].ref, req[r].creator)
  <2>1. i \in Intent /\ status'[i] # "UNUSED" /\ req[r].ref # 0
    BY <1>7 DEF SaveReference, RequestRemembers
  <2>2. v.pc = "initialized" /\ v.intent = i /\ v.ref # 0
    BY <2>1 DEF RequestAt
  <2>3. CASE Open(i)
    <3>1. reference'[i] # 0
      BY <1>7, <2>1, <2>3 DEF SaveReference, MarkInitialized, TypeOK
    <3>2. req' = [req EXCEPT ![r] = v]
      BY <1>7, <2>3 DEF SaveReference
    <3> HIDE DEF v
    <3> QED BY <2>1, <2>2, <3>1, <3>2, <1>b
  <2>4. CASE ~Open(i)
    BY <1>7, <2>4, <1>b, <1>i DEF SaveReference
  <2> QED BY <2>3, <2>4
<1>8. ASSUME NEW r \in Request, FailRequest(r) \/ AnswerRequest(r) \/ CrashRequest(r)
      PROVE  RequestRemembers'
  BY <1>8, <1>b, <1>i DEF FailRequest, AnswerRequest, CrashRequest
<1>9. ASSUME NEW s \in Sweeper, Claim(s) \/ SweepStep(s) \/ CrashSweep(s)
      PROVE  RequestRemembers'
  BY <1>9, <1>a DEF Claim, SweepStep, CrashSweep, ReadClaimed, EndClaimed, Replay,
                    ReplayFails, SaveReplay, RecordFailure, ExpireStale
<1>10. ASSUME NEW i \in Intent, GrowStale(i) \/ Lapse(i) \/ LeaseEnds(i)
       PROVE  RequestRemembers'
  BY <1>10, <1>a DEF GrowStale, Lapse, LeaseEnds
<1>11. ASSUME NEW i \in Intent, NEW n \in 1 .. MaxOpened, Pay(i, n) \/ Settle(i, n)
       PROVE  RequestRemembers'
  BY <1>11, <1>a DEF Pay, Settle
<1>12. CASE UNCHANGED vars
  BY <1>12, <1>a DEF vars
<1> QED
  BY <1>2, <1>3, <1>4, <1>5, <1>6, <1>7, <1>8, <1>9, <1>10, <1>11, <1>12
     DEF Next, RequestStep

(* Likewise for the sweeps. *)
LEMMA SweepsRemember ==
  ASSUME IInv, [Next]_vars, TypeOK'
  PROVE  SweepRemembers'
<1> USE DEF IInv
<1>a. ASSUME UNCHANGED sweep PROVE SweepRemembers'
  BY <1>a DEF SweepRemembers
<1>b. ASSUME NEW s \in Sweeper, NEW v, sweep' = [sweep EXCEPT ![s] = v],
             v.pc \in {"expiring", "giving_up", "open", "opened", "recording"} =>
                v.intent \in Intent,
             v.pc = "opened" => v.ref # 0
      PROVE  SweepRemembers'
  <2>1. \A q \in Sweeper : sweep'[q] = IF q = s THEN v ELSE sweep[q]
    BY <1>b DEF TypeOK
  <2> QED BY <1>b, <2>1 DEF SweepRemembers
<1>l. \A b : SweepAt("loop", b, NoIntent, 0).pc = "loop"
  BY DEF SweepAt
<1>i. IdleSweep.pc = "idle"
  BY DEF IdleSweep, SweepAt
<1>1. ASSUME NEW s \in Sweeper, Claim(s) PROVE SweepRemembers'
  BY <1>1, <1>b, <1>l DEF Claim
<1>2. ASSUME NEW s \in Sweeper, ReadClaimed(s) PROVE SweepRemembers'
  <2> DEFINE b == sweep[s].batch
  <2>1. PICK c \in b, pc \in {"loop", "expiring", "giving_up", "open"} :
               sweep' = [sweep EXCEPT ![s] =
                 SweepAt(pc, b \ {c}, IF pc = "loop" THEN NoIntent ELSE c[1], 0)]
    BY <1>2 DEF ReadClaimed
  <2>2. c[1] \in Intent
    BY DEF TypeOK, SweepState
  <2> DEFINE v == SweepAt(pc, b \ {c}, IF pc = "loop" THEN NoIntent ELSE c[1], 0)
  <2>3. v.pc = pc /\ (pc # "loop" => v.intent \in Intent)
    BY <2>2 DEF SweepAt
  <2>4. sweep' = [sweep EXCEPT ![s] = v]
    BY <2>1
  <2> HIDE DEF v
  <2> QED BY <2>3, <2>4, <1>b
<1>3. ASSUME NEW s \in Sweeper, EndClaimed(s) \/ SaveReplay(s) \/ RecordFailure(s)
      PROVE  SweepRemembers'
  BY <1>3, <1>b, <1>l DEF EndClaimed, SaveReplay, RecordFailure, NextClaimed
<1>4. ASSUME NEW s \in Sweeper, Replay(s) PROVE SweepRemembers'
  <2> DEFINE i == sweep[s].intent
             v == SweepAt("opened", sweep[s].batch, i, opened[i] + 1)
  <2>1. i \in Intent /\ opened[i] + 1 # 0
    BY <1>4 DEF Replay, SweepRemembers, TypeOK
  <2>2. v.pc = "opened" /\ v.intent = i /\ v.ref # 0
    BY <2>1 DEF SweepAt
  <2>3. sweep' = [sweep EXCEPT ![s] = v]
    BY <1>4 DEF Replay
  <2> HIDE DEF v
  <2> QED BY <2>1, <2>2, <2>3, <1>b
<1>5. ASSUME NEW s \in Sweeper, ReplayFails(s) PROVE SweepRemembers'
  <2> DEFINE v == SweepAt("recording", sweep[s].batch, sweep[s].intent, 0)
  <2>1. v.pc = "recording" /\ v.intent = sweep[s].intent
    BY DEF SweepAt
  <2>2. v.intent \in Intent
    BY <1>5, <2>1 DEF ReplayFails, SweepRemembers
  <2>3. sweep' = [sweep EXCEPT ![s] = v]
    BY <1>5 DEF ReplayFails
  <2> HIDE DEF v
  <2> QED BY <2>1, <2>2, <2>3, <1>b
<1>6. ASSUME NEW s \in Sweeper, ExpireStale(s) \/ CrashSweep(s) PROVE SweepRemembers'
  BY <1>6, <1>b, <1>i DEF ExpireStale, CrashSweep
<1>7. ASSUME NEW r \in Request, NEW k \in Key, Reserve(r, k) \/ RequestStep(r) \/ CrashRequest(r)
      PROVE  SweepRemembers'
  BY <1>7, <1>a DEF Reserve, RequestStep, CrashRequest, ReserveAgain, FindActive,
       OpenTransaction, OpenFails, SaveReference, FailRequest, AnswerRequest
<1>8. ASSUME NEW r \in Request, RequestStep(r) \/ CrashRequest(r)
      PROVE  SweepRemembers'
  BY <1>8, <1>a DEF RequestStep, CrashRequest, ReserveAgain, FindActive,
       OpenTransaction, OpenFails, SaveReference, FailRequest, AnswerRequest
<1>9. ASSUME NEW i \in Intent, GrowStale(i) \/ Lapse(i) \/ LeaseEnds(i)
      PROVE  SweepRemembers'
  BY <1>9, <1>a DEF GrowStale, Lapse, LeaseEnds
<1>10. ASSUME NEW i \in Intent, NEW n \in 1 .. MaxOpened, Pay(i, n) \/ Settle(i, n)
       PROVE  SweepRemembers'
  BY <1>10, <1>a DEF Pay, Settle
<1>11. CASE UNCHANGED vars
  BY <1>11, <1>a DEF vars
<1> QED
  BY <1>1, <1>2, <1>3, <1>4, <1>5, <1>6, <1>7, <1>8, <1>9, <1>10, <1>11
     DEF Next, SweepStep

(* The invariant is inductive. *)
LEMMA NextInv == IInv /\ [Next]_vars => IInv'
<1> SUFFICES ASSUME IInv, [Next]_vars PROVE IInv'
  OBVIOUS
<1>1. TypeOK'
  BY NextType
<1>2. (\E k \in Key, i \in Intent : Creates(k, i)) \/ Advances
  BY StepShape
<1>3. /\ \A i \in Intent : /\ status[i] # "UNUSED" => status'[i] # "UNUSED"
                           /\ reference[i] # 0 => reference'[i] # 0
      /\ RowsKeyed' /\ HolderHasLink' /\ OneActiveIntent'
  BY <1>1, <1>2, ShapeFacts
<1>4. RequestRemembers' /\ SweepRemembers'
  BY <1>1, <1>3, RequestsRemember, SweepsRemember
<1> QED BY <1>1, <1>3, <1>4 DEF IInv

THEOREM InvHolds == Spec => []IInv
  BY InitInv, NextInv, PTL DEF Spec

-----------------------------------------------------------------------------
(* Every variable keeps its type, for every pool of intents and processes. *)
THEOREM TypeCorrect == Spec => []TypeOK
<1>1. IInv => TypeOK
  BY DEF IInv
<1> QED BY <1>1, InvHolds, PTL

(* No reservation key is ever held by two active intents: the partial unique *)
(* index guards creation, and no status change revives an ended intent.      *)
THEOREM OneActiveIntentHolds == Spec => []OneActiveIntent
<1>1. IInv => OneActiveIntent
  BY DEF IInv
<1> QED BY <1>1, InvHolds, PTL

(* An active intent past INITIALIZING always has a reference, so a repeated *)
(* request that is answered with it has a link to show.                     *)
THEOREM HolderHasLinkHolds == Spec => []HolderHasLink
<1>1. IInv => HolderHasLink
  BY DEF IInv
<1> QED BY <1>1, InvHolds, PTL

(* No late request, sweep, webhook or worker changes an ended intent. *)
THEOREM EndedIsFinalHolds == Spec => EndedIsFinal
<1> DEFINE Kept == \A i \in Intent : status[i] \in TerminalStatus =>
                     status'[i] = status[i] /\ reference'[i] = reference[i]
<1>1. IInv /\ [Next]_vars => [Kept]_vars
  <2> SUFFICES ASSUME IInv, [Next]_vars PROVE Kept
    OBVIOUS
  <2>1. CASE Advances
    BY <2>1 DEF Advances, Open, ActiveStatus, TerminalStatus
  <2>2. ASSUME NEW k \in Key, NEW i \in Intent, Creates(k, i) PROVE Kept
    BY <2>2 DEF Creates, IInv, TypeOK, TerminalStatus
  <2> QED BY <2>1, <2>2, StepShape
<1> QED BY <1>1, InvHolds, PTL DEF Spec, EndedIsFinal

-----------------------------------------------------------------------------
(* The refinement: HolderOf names the one active intent of a key.           *)
LEMMA HolderOfOne ==
  ASSUME OneActiveIntent, NEW k \in Key, NEW i \in Intent
  PROVE  HolderOf(k) = i <=> key[i] = k /\ Open(i)
<1>1. \A j \in Intent : j \in ActiveFor(k) <=> key[j] = k /\ Open(j)
  BY DEF ActiveFor, Open
<1>2. ActiveFor(k) # {} => HolderOf(k) \in ActiveFor(k)
  BY DEF HolderOf
<1>3. ActiveFor(k) = {} => HolderOf(k) = NoIntent
  BY DEF HolderOf
<1>4. \A j \in ActiveFor(k) : j \in Intent
  BY DEF ActiveFor
<1> QED BY <1>1, <1>2, <1>3, <1>4, PaymentIntentAssumption DEF OneActiveIntent

(* A step that creates intent i for key k takes the free slot k. *)
LEMMA CreatesAcquires ==
  ASSUME IInv, IInv', NEW k \in Key, NEW i \in Intent, Creates(k, i)
  PROVE  Slot!Acquire(k, i)
<1> DEFINE h == [q \in Key |-> HolderOf(q)]
<1>1. HolderOf(k) = NoIntent
  BY DEF Creates, HolderOf
<1>2. \A j \in Intent : j # i => status'[j] = status[j] /\ key'[j] = key[j]
  BY DEF Creates, IInv, TypeOK
<1>3. status'[i] = "INITIALIZING" /\ key'[i] = k /\ ~Open(i)
  BY DEF Creates, IInv, TypeOK, Open, ActiveStatus
<1>4. ASSUME NEW q \in Key PROVE ActiveFor(q)' = IF q = k THEN {i} ELSE ActiveFor(q)
  <2>1. \A j \in Intent : j \in ActiveFor(q)' <=> j \in (IF q = k THEN {i} ELSE ActiveFor(q))
    BY <1>2, <1>3 DEF Creates, ActiveFor, ActiveStatus
  <2> QED BY <2>1 DEF ActiveFor
<1>5. h' = [h EXCEPT ![k] = i]
  <2>1. HolderOf(k)' = i
    <3>1. ActiveFor(k)' = {i}
      BY <1>4
    <3>2. HolderOf(k)' \in ActiveFor(k)'
      BY <3>1 DEF HolderOf
    <3> QED BY <3>1, <3>2
  <2>2. ASSUME NEW q \in Key, q # k PROVE HolderOf(q)' = HolderOf(q)
    <3>1. ActiveFor(q)' = ActiveFor(q)
      BY <1>4, <2>2
    <3> QED BY <3>1 DEF HolderOf
  <2> QED BY <2>1, <2>2
<1>6. {j \in Intent : status[j] # "UNUSED"}' = {j \in Intent : status[j] # "UNUSED"} \cup {i}
  BY <1>2, <1>3
<1>7. i \notin {j \in Intent : status[j] # "UNUSED"}
  BY DEF Creates
<1> QED BY <1>1, <1>5, <1>6, <1>7 DEF Slot!Acquire

(* Any other step frees the slots whose holder ended, and no others. *)
LEMMA AdvancesReleases ==
  ASSUME IInv, IInv', Advances
  PROVE  \E K \in SUBSET Key : Slot!Release(K)
<1> DEFINE K == {k \in Key : HolderOf(k)' = NoIntent}
           h == [q \in Key |-> HolderOf(q)]
<1>1. \A i \in Intent : Open(i)' => Open(i)
  BY DEF Advances, Open
<1>2. ASSUME NEW k \in Key PROVE HolderOf(k)' = IF k \in K THEN NoIntent ELSE HolderOf(k)
  <2>1. CASE HolderOf(k)' = NoIntent
    BY <2>1
  <2>2. ASSUME HolderOf(k)' # NoIntent PROVE HolderOf(k)' = HolderOf(k)
    <3>1. PICK i \in Intent : HolderOf(k)' = i /\ i \in ActiveFor(k)'
      BY <2>2 DEF HolderOf, ActiveFor
    <3>2. key[i] = k /\ Open(i)
      BY <3>1, <1>1 DEF Advances, ActiveFor, Open
    <3> QED BY <3>1, <3>2, HolderOfOne DEF IInv
  <2> QED BY <2>1, <2>2
<1>3. h' = [k \in Key |-> IF k \in K THEN NoIntent ELSE h[k]]
  BY <1>2
<1>4. UNCHANGED {j \in Intent : status[j] # "UNUSED"}
  BY DEF Advances, Open, ActiveStatus
<1>5. K \in SUBSET Key
  OBVIOUS
<1> HIDE DEF K
<1> QED BY <1>3, <1>4, <1>5 DEF Slot!Release

(* The service implements ReservationSlot: every step of every process takes *)
(* a free slot for a new intent, frees slots, or leaves them alone.          *)
THEOREM ImplementsSlotHolds == Spec => ImplementsSlot
<1>1. Init => Slot!SlotInit
  BY DEF Init, Slot!SlotInit, HolderOf, ActiveFor, ActiveStatus
<1>2. IInv /\ IInv' /\ [Next]_vars => [Slot!SlotNext]_(Slot!slotVars)
  BY StepShape, CreatesAcquires, AdvancesReleases DEF Slot!SlotNext
<1> QED BY <1>1, <1>2, InvHolds, PTL DEF Spec, ImplementsSlot, Slot!SlotSpec
=============================================================================
