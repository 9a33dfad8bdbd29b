---------------------------- MODULE PaymentIntent ----------------------------
(***************************************************************************)
(* PaymentIntentService: how a payment is reserved, opened at Paystack,    *)
(* handed to the payer, recovered after a crash, expired and finished.     *)
(*                                                                         *)
(* Every action is one database statement or one Paystack call of one      *)
(* process: API requests (initializeInstallmentPayment, the subscription   *)
(* and onboarding flows), recovery sweeps, and the webhook and worker      *)
(* calls that finish an intent.  transitionStatus runs on the global       *)
(* client, so each of its calls commits alone.                             *)
(*                                                                         *)
(* Paystack picks the reference of a transaction, so each successful       *)
(* initializeTransaction call for intent i yields a fresh one: <<i, n>> is *)
(* the reference of the n-th transaction opened for i, and reference 0     *)
(* stands for SQL NULL.                                                    *)
(***************************************************************************)
EXTENDS Integers, FiniteSets

CONSTANTS Intent,       \* the intents that may be created
          Key,          \* reservation keys (buildReservationKey)
          ReplayKey,    \* keys of subscription and onboarding payments
          Request,      \* API request handlers
          Sweeper,      \* processes that run the recovery job
          NoIntent, NoKey,
          MaxOpened,    \* bound: transactions opened at Paystack per intent
          MaxRecovery,  \* MAX_RECOVERY_ATTEMPTS
          MaxCrash,     \* bound: process crashes in a behaviour
          Timely        \* provider calls end within the stale threshold

ASSUME PaymentIntentAssumption ==
    /\ NoIntent \notin Intent
    /\ NoKey \notin Key
    /\ ReplayKey \subseteq Key
    /\ MaxOpened \in Nat
    /\ MaxRecovery \in Nat
    /\ MaxCrash \in Nat
    /\ Timely \in BOOLEAN

VARIABLES
    status,     \* PaymentIntent.status, "UNUSED" before the row exists
    key,        \* PaymentIntent.reservationKey
    reference,  \* PaymentIntent.reference, 0 for NULL
    lapsed,     \* expiresAt is in the past
    stale,      \* updatedAt is RECOVERY_STALE_THRESHOLD_MS old
    claimed,    \* recoveryClaimedAt is set and its lease has not run out
    attempts,   \* recoveryAttempts, counted up to MaxRecovery + 1
    opened,     \* transactions Paystack has opened for the intent
    req,        \* what each API request is doing
    sweep,      \* what each recovery sweep is doing
    links,      \* references whose authorization URL reached a payer
    charged,    \* references the payer has paid
    crashes     \* crashes so far

rowVars == <<status, key, reference, lapsed, stale, claimed, attempts>>
payerVars == <<links, charged>>
vars == <<status, key, reference, lapsed, stale, claimed, attempts,
          opened, req, sweep, links, charged, crashes>>

ActiveStatus == {"INITIALIZING", "INITIALIZED", "PENDING", "PROCESSING"}
TerminalStatus == {"SUCCESS", "FAILED", "EXPIRED"}
Status == {"UNUSED"} \cup ActiveStatus \cup TerminalStatus
Reference == Intent \X (1 .. MaxOpened)

RequestState ==
    [pc: {"idle", "find", "insert", "refind",
          "open", "opened", "initialized", "failing"},
     key: Key \cup {NoKey},
     intent: Intent \cup {NoIntent},
     ref: 0 .. MaxOpened,
     creator: BOOLEAN]

SweepState ==
    [pc: {"idle", "loop", "expiring", "giving_up", "open", "opened", "recording"},
     batch: SUBSET (Intent \X (1 .. MaxRecovery + 1)),
     intent: Intent \cup {NoIntent},
     ref: 0 .. MaxOpened]

RequestAt(pc, k, i, n, creator) ==
    [pc |-> pc, key |-> k, intent |-> i, ref |-> n, creator |-> creator]
IdleRequest == RequestAt("idle", NoKey, NoIntent, 0, FALSE)

SweepAt(pc, batch, i, n) == [pc |-> pc, batch |-> batch, intent |-> i, ref |-> n]
IdleSweep == SweepAt("idle", {}, NoIntent, 0)

TypeOK ==
    /\ status \in [Intent -> Status]
    /\ key \in [Intent -> Key \cup {NoKey}]
    /\ reference \in [Intent -> 0 .. MaxOpened]
    /\ lapsed \in [Intent -> BOOLEAN]
    /\ stale \in [Intent -> BOOLEAN]
    /\ claimed \in [Intent -> BOOLEAN]
    /\ attempts \in [Intent -> 0 .. MaxRecovery + 1]
    /\ opened \in [Intent -> 0 .. MaxOpened]
    /\ req \in [Request -> RequestState]
    /\ sweep \in [Sweeper -> SweepState]
    /\ links \subseteq Reference
    /\ charged \subseteq Reference
    /\ crashes \in 0 .. MaxCrash

Init ==
    /\ status = [i \in Intent |-> "UNUSED"]
    /\ key = [i \in Intent |-> NoKey]
    /\ reference = [i \in Intent |-> 0]
    /\ lapsed = [i \in Intent |-> FALSE]
    /\ stale = [i \in Intent |-> FALSE]
    /\ claimed = [i \in Intent |-> FALSE]
    /\ attempts = [i \in Intent |-> 0]
    /\ opened = [i \in Intent |-> 0]
    /\ req = [r \in Request |-> IdleRequest]
    /\ sweep = [s \in Sweeper |-> IdleSweep]
    /\ links = {}
    /\ charged = {}
    /\ crashes = 0

-----------------------------------------------------------------------------
(***************************************************************************)
(* The conditional UPDATE behind every markX: any status that is not       *)
(* terminal may become any status.  Where the row is terminal the call     *)
(* throws ConflictError and writes nothing.                                *)
(***************************************************************************)
Open(i) == status[i] \in ActiveStatus

\* Defect: the update forgets its condition on the current status.
TransitionStatusUnguarded(i, to) == status' = [status EXCEPT ![i] = to]

TransitionStatus(i, to) ==
    status' = IF Open(i) THEN [status EXCEPT ![i] = to] ELSE status

\* The clearing of recoveryClaimedAt that goes with some of the transitions.
ReleaseClaim(i) ==
    claimed' = IF Open(i) THEN [claimed EXCEPT ![i] = FALSE] ELSE claimed

\* Defect: the status is written and the reference is not.
MarkInitializedBare(i, n) ==
    /\ TransitionStatus(i, "INITIALIZED")
    /\ ReleaseClaim(i)
    /\ UNCHANGED <<key, reference, lapsed, stale, attempts>>

MarkInitialized(i, n) ==
    /\ TransitionStatus(i, "INITIALIZED")
    /\ reference' = IF Open(i) THEN [reference EXCEPT ![i] = n] ELSE reference
    /\ ReleaseClaim(i)
    /\ UNCHANGED <<key, lapsed, stale, attempts>>

\* markFailed and markExpired.
MarkEnded(i, to) ==
    /\ TransitionStatus(i, to)
    /\ ReleaseClaim(i)
    /\ UNCHANGED <<key, reference, lapsed, stale, attempts>>

\* markPending, markProcessing and markSuccess: the status alone.
Mark(i, to) ==
    /\ TransitionStatus(i, to)
    /\ UNCHANGED <<key, reference, lapsed, stale, claimed, attempts>>

ActiveFor(k) == {i \in Intent : key[i] = k /\ status[i] \in ActiveStatus}

-----------------------------------------------------------------------------
(* An API request.                                                         *)

\* Defect: no partial unique index.
InsertUnindexed(r, k, look) ==
    /\ \E i \in Intent :
         /\ status[i] = "UNUSED"
         /\ status' = [status EXCEPT ![i] = "INITIALIZING"]
         /\ key' = [key EXCEPT ![i] = k]
         /\ req' = [req EXCEPT ![r] = RequestAt("open", k, i, 0, TRUE)]
    /\ UNCHANGED <<reference, lapsed, stale, claimed, attempts>>

\* reserveInternal: INSERT under the partial unique index on reservation_key.
\* P2002 sends the request to look for the row that holds the key.
InsertIntent(r, k, look) ==
    \/ /\ ActiveFor(k) = {}
       /\ \E i \in Intent :
            /\ status[i] = "UNUSED"
            /\ status' = [status EXCEPT ![i] = "INITIALIZING"]
            /\ key' = [key EXCEPT ![i] = k]
            /\ req' = [req EXCEPT ![r] = RequestAt("open", k, i, 0, TRUE)]
       /\ UNCHANGED <<reference, lapsed, stale, claimed, attempts>>
    \/ /\ ActiveFor(k) # {}
       /\ req' = [req EXCEPT ![r] = RequestAt(look, k, NoIntent, 0, FALSE)]
       /\ UNCHANGED rowVars

Reserve(r, k) ==
    /\ req[r].pc = "idle"
    /\ InsertIntent(r, k, "find")
    /\ UNCHANGED <<opened, sweep, payerVars, crashes>>

\* The second and last INSERT, after the holder seen by the index has ended.
ReserveAgain(r) ==
    /\ req[r].pc = "insert"
    /\ InsertIntent(r, req[r].key, "refind")
    /\ UNCHANGED <<opened, sweep, payerVars, crashes>>

\* Defect: the caller answers with any holder, whether or not it has a link.
FindActiveLinkless(r) ==
    /\ req[r].pc \in {"find", "refind"}
    /\ \E i \in ActiveFor(req[r].key) : links' = links \cup {<<i, reference[i]>>}
    /\ req' = [req EXCEPT ![r] = IdleRequest]
    /\ UNCHANGED <<rowVars, opened, sweep, charged, crashes>>

\* Defect: an installment's holder that has no link yet is initialised again.
FindActiveReplaying(r) ==
    /\ req[r].pc \in {"find", "refind"}
    /\ \E i \in ActiveFor(req[r].key) :
         /\ status[i] \in {"INITIALIZING", "PROCESSING"}
         /\ req' = [req EXCEPT ![r] = RequestAt("open", @.key, i, 0, FALSE)]
    /\ UNCHANGED <<rowVars, links, opened, sweep, charged, crashes>>

\* The lookup of the active holder.  A caller shows the holder's link when it
\* has one; the subscription and onboarding flows initialise any other holder
\* again, the installment flow refuses.
FindActive(r) ==
    /\ req[r].pc \in {"find", "refind"}
    /\ LET k == req[r].key IN
       \/ \E i \in ActiveFor(k) :
            /\ status[i] \in {"INITIALIZED", "PENDING"}
            /\ links' = links \cup {<<i, reference[i]>>}
            /\ req' = [req EXCEPT ![r] = IdleRequest]
       \/ \E i \in ActiveFor(k) :
            /\ status[i] \in {"INITIALIZING", "PROCESSING"}
            /\ req' = [req EXCEPT ![r] =
                         IF k \in ReplayKey THEN RequestAt("open", k, i, 0, FALSE)
                                            ELSE IdleRequest]
            /\ UNCHANGED links
       \/ /\ ActiveFor(k) = {}
          /\ req' = [req EXCEPT ![r] =
                       IF req[r].pc = "find"
                       THEN RequestAt("insert", k, NoIntent, 0, FALSE)
                       ELSE IdleRequest]
          /\ UNCHANGED links
    /\ UNCHANGED <<rowVars, opened, sweep, charged, crashes>>

\* initializeTransaction at Paystack, within MaxOpened transactions per intent.
OpenTransaction(r) ==
    /\ req[r].pc = "open"
    /\ LET i == req[r].intent IN
       /\ opened[i] < MaxOpened
       /\ opened' = [opened EXCEPT ![i] = @ + 1]
       /\ req' = [req EXCEPT ![r] =
                    RequestAt("opened", @.key, i, opened[i] + 1, @.creator)]
    /\ UNCHANGED <<rowVars, sweep, payerVars, crashes>>

OpenFails(r) ==
    /\ req[r].pc = "open"
    /\ req' = [req EXCEPT ![r] =
                 RequestAt("failing", @.key, @.intent, 0, @.creator)]
    /\ UNCHANGED <<rowVars, opened, sweep, payerVars, crashes>>

\* markInitialized; on ConflictError the catch block's markFailed conflicts too.
SaveReference(r) ==
    /\ req[r].pc = "opened"
    /\ LET i == req[r].intent IN
       /\ MarkInitialized(i, req[r].ref)
       /\ req' = [req EXCEPT ![r] =
                    IF Open(i)
                    THEN RequestAt("initialized", @.key, i, @.ref, @.creator)
                    ELSE IdleRequest]
    /\ UNCHANGED <<opened, sweep, payerVars, crashes>>

\* The catch block of initializePaystack with markFailedOnError.
FailRequest(r) ==
    /\ req[r].pc = "failing"
    /\ MarkEnded(req[r].intent, "FAILED")
    /\ req' = [req EXCEPT ![r] = IdleRequest]
    /\ UNCHANGED <<opened, sweep, payerVars, crashes>>

\* markPending and the response with the link; no response on ConflictError.
AnswerRequest(r) ==
    /\ req[r].pc = "initialized"
    /\ LET i == req[r].intent IN
       /\ Mark(i, "PENDING")
       /\ links' = IF Open(i) THEN links \cup {<<i, req[r].ref>>} ELSE links
    /\ req' = [req EXCEPT ![r] = IdleRequest]
    /\ UNCHANGED <<opened, sweep, charged, crashes>>

CrashRequest(r) ==
    /\ crashes < MaxCrash
    /\ req[r].pc # "idle"
    /\ crashes' = crashes + 1
    /\ req' = [req EXCEPT ![r] = IdleRequest]
    /\ UNCHANGED <<rowVars, opened, sweep, payerVars>>

RequestStep(r) == \/ ReserveAgain(r) \/ FindActive(r) \/ OpenTransaction(r)
                  \/ OpenFails(r) \/ SaveReference(r) \/ FailRequest(r)
                  \/ AnswerRequest(r)

-----------------------------------------------------------------------------
(* A recovery sweep (PaymentRecoveryWorker.runRecovery).                   *)

\* Defect: intents out of attempts are not claimed, and a sweep that claims
\* nothing ends at once, without expireStale.
ClaimBelowLimit(s) ==
    /\ sweep[s].pc = "idle"
    /\ LET due == {i \in Intent : /\ status[i] = "INITIALIZING"
                                  /\ stale[i]
                                  /\ ~claimed[i]
                                  /\ attempts[i] < MaxRecovery}
       IN /\ due # {}
          /\ claimed' = [i \in Intent |-> claimed[i] \/ i \in due]
          /\ attempts' = [i \in Intent |-> attempts[i] + (IF i \in due THEN 1 ELSE 0)]
          /\ sweep' = [sweep EXCEPT ![s] =
                 SweepAt("loop", {<<i, attempts[i] + 1>> : i \in due}, NoIntent, 0)]
    /\ UNCHANGED <<status, key, reference, lapsed, stale,
                   opened, req, payerVars, crashes>>

\* claimStaleIntents, one transaction: the attempts counted here decide later.
Claim(s) ==
    /\ sweep[s].pc = "idle"
    /\ LET due == {i \in Intent : /\ status[i] = "INITIALIZING"
                                  /\ stale[i]
                                  /\ ~claimed[i]}
           count(i) == IF attempts[i] > MaxRecovery THEN attempts[i]
                                                    ELSE attempts[i] + 1
       IN /\ claimed' = [i \in Intent |-> claimed[i] \/ i \in due]
          /\ attempts' = [i \in Intent |-> IF i \in due THEN count(i)
                                                        ELSE attempts[i]]
          /\ sweep' = [sweep EXCEPT ![s] =
                 SweepAt("loop", {<<i, count(i)>> : i \in due}, NoIntent, 0)]
    /\ UNCHANGED <<status, key, reference, lapsed, stale,
                   opened, req, payerVars, crashes>>

\* recoverIntent reads the row and picks a branch; the branch acts later.
ReadClaimed(s) ==
    /\ sweep[s].pc = "loop"
    /\ \E c \in sweep[s].batch :
         LET i == c[1]
             branch == CASE status[i] # "INITIALIZING" -> "loop"
                         [] status[i] = "INITIALIZING" /\ lapsed[i] -> "expiring"
                         [] status[i] = "INITIALIZING" /\ ~lapsed[i]
                              /\ c[2] > MaxRecovery -> "giving_up"
                         [] OTHER -> "open"
         IN sweep' = [sweep EXCEPT ![s] =
                SweepAt(branch, @.batch \ {c},
                        IF branch = "loop" THEN NoIntent ELSE i, 0)]
    /\ UNCHANGED <<rowVars, opened, req, payerVars, crashes>>

\* Back to the claimed batch once the intent at hand is dealt with.
NextClaimed(s) ==
    sweep' = [sweep EXCEPT ![s] = SweepAt("loop", @.batch, NoIntent, 0)]

EndClaimed(s) ==
    /\ \/ /\ sweep[s].pc = "expiring"
          /\ MarkEnded(sweep[s].intent, "EXPIRED")
       \/ /\ sweep[s].pc = "giving_up"
          /\ MarkEnded(sweep[s].intent, "FAILED")
    /\ NextClaimed(s)
    /\ UNCHANGED <<opened, req, payerVars, crashes>>

Replay(s) ==
    /\ sweep[s].pc = "open"
    /\ LET i == sweep[s].intent IN
       /\ opened[i] < MaxOpened
       /\ opened' = [opened EXCEPT ![i] = @ + 1]
       /\ sweep' = [sweep EXCEPT ![s] =
                      SweepAt("opened", @.batch, i, opened[i] + 1)]
    /\ UNCHANGED <<rowVars, req, payerVars, crashes>>

ReplayFails(s) ==
    /\ sweep[s].pc = "open"
    /\ sweep' = [sweep EXCEPT ![s] =
                   SweepAt("recording", @.batch, @.intent, 0)]
    /\ UNCHANGED <<rowVars, opened, req, payerVars, crashes>>

\* markInitialized of a replay; its ConflictError goes to recordRecoveryFailure,
\* which finds no INITIALIZING row to change.
SaveReplay(s) ==
    /\ sweep[s].pc = "opened"
    /\ MarkInitialized(sweep[s].intent, sweep[s].ref)
    /\ NextClaimed(s)
    /\ UNCHANGED <<opened, req, payerVars, crashes>>

\* recordRecoveryFailure: the update refreshes updatedAt as well.
RecordFailure(s) ==
    /\ sweep[s].pc = "recording"
    /\ LET i == sweep[s].intent
           here == status[i] = "INITIALIZING"
       IN /\ claimed' = [claimed EXCEPT ![i] = @ /\ ~here]
          /\ stale' = [stale EXCEPT ![i] = @ /\ ~here]
    /\ NextClaimed(s)
    /\ UNCHANGED <<status, key, reference, lapsed, attempts,
                   opened, req, payerVars, crashes>>

\* Defect: abandoned PENDING intents are expired as well, at any age.
ExpireEarly(s) ==
    /\ sweep[s].pc = "loop"
    /\ sweep[s].batch = {}
    /\ status' = [i \in Intent |-> IF Open(i) THEN "EXPIRED" ELSE status[i]]
    /\ sweep' = [sweep EXCEPT ![s] = IdleSweep]
    /\ UNCHANGED <<key, reference, lapsed, stale, claimed, attempts,
                   opened, req, payerVars, crashes>>

\* expireStale ends the sweep; intents already PENDING are not among them.
ExpireStale(s) ==
    /\ sweep[s].pc = "loop"
    /\ sweep[s].batch = {}
    /\ LET old == {i \in Intent : /\ status[i] \in {"INITIALIZING", "INITIALIZED"}
                                  /\ lapsed[i]}
       IN /\ status' = [i \in Intent |-> IF i \in old THEN "EXPIRED" ELSE status[i]]
          /\ claimed' = [i \in Intent |-> claimed[i] /\ i \notin old]
    /\ sweep' = [sweep EXCEPT ![s] = IdleSweep]
    /\ UNCHANGED <<key, reference, lapsed, stale, attempts,
                   opened, req, payerVars, crashes>>

CrashSweep(s) ==
    /\ crashes < MaxCrash
    /\ sweep[s].pc # "idle"
    /\ crashes' = crashes + 1
    /\ sweep' = [sweep EXCEPT ![s] = IdleSweep]
    /\ UNCHANGED <<rowVars, opened, req, payerVars>>

SweepStep(s) == \/ ReadClaimed(s) \/ EndClaimed(s) \/ Replay(s)
                \/ ReplayFails(s) \/ SaveReplay(s) \/ RecordFailure(s)
                \/ ExpireStale(s)

-----------------------------------------------------------------------------
(* Time, the payer, and the calls that finish an intent.                   *)

Creating(i) == \E r \in Request : req[r].intent = i /\ req[r].creator

\* Five minutes without a write; a creating request is over by then (three
\* tries of ten seconds each) unless its process was suspended.
GrowStale(i) ==
    /\ status[i] = "INITIALIZING"
    /\ ~stale[i]
    /\ Timely => ~Creating(i)
    /\ stale' = [stale EXCEPT ![i] = TRUE]
    /\ UNCHANGED <<status, key, reference, lapsed, claimed, attempts,
                   opened, req, sweep, payerVars, crashes>>

\* Ten minutes after creation.
Lapse(i) ==
    /\ Open(i)
    /\ ~lapsed[i]
    /\ Timely => ~Creating(i)
    /\ lapsed' = [lapsed EXCEPT ![i] = TRUE]
    /\ UNCHANGED <<status, key, reference, stale, claimed, attempts,
                   opened, req, sweep, payerVars, crashes>>

\* RECOVERY_CLAIM_LEASE_MS after a claim.
LeaseEnds(i) ==
    /\ claimed[i]
    /\ claimed' = [claimed EXCEPT ![i] = FALSE]
    /\ UNCHANGED <<status, key, reference, lapsed, stale, attempts,
                   opened, req, sweep, payerVars, crashes>>

Pay(i, n) ==
    /\ <<i, n>> \in links \ charged
    /\ charged' = charged \cup {<<i, n>>}
    /\ UNCHANGED <<rowVars, opened, req, sweep, links, crashes>>

\* findByReference, then the mark a webhook or worker makes of a charge:
\* PROCESSING on delivery, SUCCESS once applied, FAILED when every attempt
\* of its job failed.
Settle(i, n) ==
    /\ <<i, n>> \in charged
    /\ reference[i] = n
    /\ \/ \E to \in {"PROCESSING", "SUCCESS"} : Mark(i, to)
       \/ MarkEnded(i, "FAILED")
    /\ UNCHANGED <<opened, req, sweep, payerVars, crashes>>

Next ==
    \/ \E r \in Request : \/ RequestStep(r)
                          \/ CrashRequest(r)
                          \/ \E k \in Key : Reserve(r, k)
    \/ \E s \in Sweeper : Claim(s) \/ SweepStep(s) \/ CrashSweep(s)
    \/ \E i \in Intent : GrowStale(i) \/ Lapse(i) \/ LeaseEnds(i)
    \/ \E i \in Intent, n \in 1 .. MaxOpened : Pay(i, n) \/ Settle(i, n)

\* A handler that has started goes on, the cron fires every minute, and time
\* passes.  Nothing makes a payer pay or a client call.
Fairness ==
    /\ \A r \in Request : WF_vars(RequestStep(r))
    /\ \A s \in Sweeper : WF_vars(Claim(s)) /\ WF_vars(SweepStep(s))
    /\ \A i \in Intent : /\ WF_vars(GrowStale(i))
                         /\ WF_vars(Lapse(i))
                         /\ WF_vars(LeaseEnds(i))

Spec == Init /\ [][Next]_vars
FairSpec == Spec /\ Fairness

-----------------------------------------------------------------------------
(* What must hold.                                                         *)

\* Two payments of the same thing are never in progress together: at most one
\* intent of a reservation key is active (payment_intent_active_reservation,
\* kept by transitionStatus never reviving an ended intent).
OneActiveIntent ==
    \A i, j \in Intent :
        Open(i) /\ Open(j) /\ key[i] = key[j] => i = j

\* An ended intent is never revived or rewritten, whichever late request,
\* sweep, webhook or worker still holds its id.
EndedIsFinal ==
    [][\A i \in Intent : status[i] \in TerminalStatus =>
          status'[i] = status[i] /\ reference'[i] = reference[i]]_vars

\* A holder that a repeated request is answered with has a link to show: the
\* reference is set as soon as the status leaves INITIALIZING for an active one.
HolderHasLink ==
    \A i \in Intent :
        status[i] \in {"INITIALIZED", "PENDING", "PROCESSING"} => reference[i] # 0

\* A link that reached a payer is the link of its intent, so that the webhook
\* of the charge finds the intent by reference.  So it is for installments while
\* sweeps do not overlap; the flows that initialise a held intent again lose the
\* first link.
LinkIsCurrent ==
    \A i \in Intent, n \in 1 .. MaxOpened :
        <<i, n>> \in links /\ key[i] \notin ReplayKey => reference[i] = n

\* "idempotent for repeated clicks": one intent is never shown under two links.
RepeatedClickSameLink ==
    \A l, m \in links : l[1] = m[1] => l = m

\* A sweep never ends an installment's intent that a payer holds a link of,
\* before the intent's ten minutes are over, while sweeps do not overlap.  (markFailed overwrites any active
\* status: where a repeated click may initialise the intent again while a sweep
\* gives up on it, the promise does not hold.)
SweepKeepsLiveIntent ==
    [][\A i \in Intent :
          /\ Open(i) /\ ~lapsed[i] /\ key[i] \notin ReplayKey
          /\ \E n \in 1 .. MaxOpened : <<i, n>> \in links
          /\ status'[i] \in {"FAILED", "EXPIRED"}
          => sweep' = sweep]_vars

\* No reservation key stays blocked by an intent whose initialisation was cut
\* short: the intent is recovered, ended, or expired.
InitializingEnds ==
    \A i \in Intent : status[i] = "INITIALIZING" ~> status[i] # "INITIALIZING"

-----------------------------------------------------------------------------
(* The promise of ReservationSlot, kept by the service.                    *)

HolderOf(k) == IF ActiveFor(k) = {} THEN NoIntent
                                    ELSE CHOOSE i \in ActiveFor(k) : TRUE

Slot == INSTANCE ReservationSlot WITH
            holder <- [k \in Key |-> HolderOf(k)],
            spent <- {i \in Intent : status[i] # "UNUSED"}

ImplementsSlot == Slot!SlotSpec
=============================================================================
