--------------------------- MODULE PaymentLinkProofs ---------------------------
(***************************************************************************)
(* The link that a payer was given stays the link of its intent, and no    *)
(* sweep ends that intent before its time, for every pool of intents, keys *)
(* and requests and every bound, as long as provider calls are timely and  *)
(* recovery sweeps do not overlap.                                         *)
(*                                                                         *)
(* The argument: an intent of an installment is in the hands of one        *)
(* process at a time, first of the request that created it and then,       *)
(* if that was cut short, of the sweep; and whoever has it before it has a *)
(* reference has it before anybody has a link.                             *)
(***************************************************************************)
EXTENDS PaymentIntentProofs

\* RECOVERY_STALE_THRESHOLD_MS outlasts a request, and RECOVERY_CLAIM_LEASE_MS a
\* sweep.
OneSweep == Timely /\ \A s, t \in Sweeper : s = t

NoLink(i) == \A n \in 1 .. MaxOpened : <<i, n>> \notin links
Linkless(i) == /\ status[i] \notin {"INITIALIZED", "PENDING", "PROCESSING"}
               /\ NoLink(i)

\* Which requests and sweeps have an intent in hand.
Opening == {"open", "opened", "failing"}
Working == Opening \cup {"initialized"}
Holds(r, i) == req[r].pc \in Working /\ req[r].intent = i

Deciding == {"open", "opened", "giving_up", "expiring"}
Replaying(s, i) == sweep[s].pc \in Deciding /\ sweep[s].intent = i
Swept(s, i) == \/ \E n \in 1 .. MaxRecovery + 1 : <<i, n>> \in sweep[s].batch
               \/ /\ sweep[s].pc \in {"recording"} \cup Deciding
                  /\ sweep[s].intent = i

EarlyHasNoLink ==
    \A i \in Intent : status[i] \in {"UNUSED", "INITIALIZING"} => NoLink(i)

UnusedIsFree ==
    \A i \in Intent : status[i] = "UNUSED" =>
        ~stale[i] /\ \A s \in Sweeper : ~Swept(s, i)

CreatorAlone ==
    \A i \in Intent, r \in Request : Holds(r, i) /\ key[i] \notin ReplayKey =>
        /\ req[r].creator
        /\ ~stale[i]
        /\ \A q \in Request : Holds(q, i) => q = r
        /\ \A s \in Sweeper : ~Swept(s, i)
        /\ req[r].pc \in Opening => Linkless(i)
        /\ req[r].pc = "initialized" => reference[i] = req[r].ref

ReplayIsLinkless ==
    \A i \in Intent, s \in Sweeper :
        Replaying(s, i) /\ key[i] \notin ReplayKey => Linkless(i)

LinkInv == /\ charged \subseteq links
           /\ EarlyHasNoLink
           /\ UnusedIsFree
           /\ CreatorAlone
           /\ ReplayIsLinkless
           /\ LinkIsCurrent

-----------------------------------------------------------------------------
(* What every step but an INSERT does to rows, requests and sweeps.        *)

Writes(i) == \/ \E r \in Request : req[r].pc = "opened" /\ req[r].intent = i
             \/ \E s \in Sweeper : sweep[s].pc = "opened" /\ sweep[s].intent = i

Finishes(i) == \/ \E r \in Request : Holds(r, i) /\ req'[r].pc \notin Opening
               \/ \E s \in Sweeper : Replaying(s, i) /\ sweep'[s].pc \notin Deciding

RowsCareful ==
    /\ UNCHANGED key
    /\ \A i \in Intent :
         /\ status'[i] \in {"UNUSED", "INITIALIZING"} => status'[i] = status[i]
         /\ stale'[i] => stale[i] \/ (status[i] = "INITIALIZING" /\ ~Creating(i))
         /\ reference'[i] # reference[i] => Writes(i)
         /\ status'[i] \in {"INITIALIZED", "PENDING", "PROCESSING"} =>
              ~Linkless(i) \/ Finishes(i)

LinksCareful ==
    /\ charged' \subseteq links'
    /\ \A i \in Intent, n \in 1 .. MaxOpened : <<i, n>> \in links' \ links =>
         /\ status'[i] \notin {"UNUSED", "INITIALIZING"}
         /\ ~Linkless(i) \/ Finishes(i)
         /\ key[i] \notin ReplayKey => reference'[i] = n

RequestsCareful ==
    \A r \in Request, i \in Intent : Holds(r, i)' /\ key[i] \notin ReplayKey =>
        /\ Holds(r, i)
        /\ req'[r].creator = req[r].creator
        /\ req'[r].pc \in Opening => req[r].pc \in Opening
        /\ req'[r].pc = "initialized" =>
             \/ reference'[i] = req'[r].ref
             \/ req[r].pc = "initialized" /\ req'[r].ref = req[r].ref

SweepsCareful ==
    \A s \in Sweeper, i \in Intent :
        /\ Swept(s, i)' => Swept(s, i) \/ (stale[i] /\ status[i] = "INITIALIZING")
        /\ Replaying(s, i)' =>
             Replaying(s, i) \/ (Swept(s, i) /\ status[i] = "INITIALIZING")

Careful == RowsCareful /\ LinksCareful /\ RequestsCareful /\ SweepsCareful

LEMMA CarefulKeeps ==
  ASSUME OneSweep, LinkInv, Careful
  PROVE  LinkInv'
<1>1. ASSUME NEW i \in Intent, key[i] \notin ReplayKey, NEW r \in Request, Holds(r, i)
      PROVE  /\ req[r].creator /\ ~stale[i]
             /\ \A q \in Request : Holds(q, i) => q = r
             /\ \A s \in Sweeper : ~Swept(s, i)
             /\ req[r].pc \in Opening => Linkless(i)
             /\ req[r].pc = "initialized" => reference[i] = req[r].ref
  BY <1>1 DEF LinkInv, CreatorAlone
<1>2. ASSUME NEW i \in Intent, key[i] \notin ReplayKey, Writes(i)
      PROVE  Linkless(i) /\ \A r \in Request : Holds(r, i) => req[r].pc # "initialized"
  <2>1. ASSUME NEW r \in Request, req[r].pc = "opened", req[r].intent = i
        PROVE  Linkless(i) /\ \A q \in Request : Holds(q, i) => req[q].pc # "initialized"
    BY <1>1, <1>2, <2>1 DEF Holds, Working, Opening
  <2>2. ASSUME NEW s \in Sweeper, sweep[s].pc = "opened", sweep[s].intent = i
        PROVE  Linkless(i) /\ \A q \in Request : Holds(q, i) => req[q].pc # "initialized"
    <3>1. Replaying(s, i) /\ Swept(s, i)
      BY <2>2 DEF Replaying, Swept, Deciding, Opening
    <3> QED BY <1>1, <1>2, <3>1 DEF LinkInv, ReplayIsLinkless
  <2> QED BY <1>2, <2>1, <2>2 DEF Writes
<1>3. ASSUME NEW i \in Intent, key[i] \notin ReplayKey, Linkless(i), ~Linkless(i)'
      PROVE  Finishes(i)
  BY <1>3 DEF Careful, RowsCareful, LinksCareful, Linkless, NoLink
<1>4. EarlyHasNoLink'
  BY DEF LinkInv, EarlyHasNoLink, NoLink, Careful, RowsCareful, LinksCareful
<1>5. UnusedIsFree'
  BY DEF LinkInv, UnusedIsFree, Careful, RowsCareful, SweepsCareful
<1>6. ASSUME NEW i \in Intent, NEW r \in Request, Holds(r, i)', key'[i] \notin ReplayKey
      PROVE  /\ req'[r].creator /\ ~stale'[i]
             /\ \A q \in Request : Holds(q, i)' => q = r
             /\ \A s \in Sweeper : ~Swept(s, i)'
             /\ req'[r].pc \in Opening => Linkless(i)'
             /\ req'[r].pc = "initialized" => reference'[i] = req'[r].ref
  <2>1. key[i] \notin ReplayKey
    BY <1>6 DEF Careful, RowsCareful
  <2>2. Holds(r, i) /\ req'[r].creator = req[r].creator
    BY <1>6, <2>1 DEF Careful, RequestsCareful
  <2>3. req'[r].creator /\ \A q \in Request : Holds(q, i)' => q = r
    BY <1>1, <2>1, <2>2 DEF Careful, RequestsCareful
  <2>4. ~stale'[i]
    BY <1>1, <2>1, <2>2 DEF Careful, RowsCareful, Creating, Holds
  <2>5. \A s \in Sweeper : ~Swept(s, i)'
    BY <1>1, <2>1, <2>2 DEF Careful, SweepsCareful
  <2>6. ASSUME req'[r].pc \in Opening PROVE Linkless(i)'
    <3>1. Linkless(i)
      BY <1>1, <1>6, <2>1, <2>2, <2>6 DEF Careful, RequestsCareful
    <3>2. ~Finishes(i)
      <4>1. \A s \in Sweeper : ~Replaying(s, i)
        BY <1>1, <2>1, <2>2 DEF Replaying, Swept
      <4> QED BY <1>1, <2>1, <2>2, <2>6, <4>1 DEF Finishes
    <3> QED BY <1>3, <2>1, <3>1, <3>2
  <2>7. ASSUME req'[r].pc = "initialized" PROVE reference'[i] = req'[r].ref
    BY <1>1, <1>2, <1>6, <2>1, <2>2, <2>7 DEF Careful, RequestsCareful, RowsCareful
  <2> QED BY <2>3, <2>4, <2>5, <2>6, <2>7
<1>7. CreatorAlone'
  BY <1>6 DEF CreatorAlone
<1>8. ASSUME NEW i \in Intent, NEW s \in Sweeper, Replaying(s, i)', key'[i] \notin ReplayKey
      PROVE  Linkless(i)'
  <2>1. key[i] \notin ReplayKey
    BY <1>8 DEF Careful, RowsCareful
  <2>2. Swept(s, i)
    BY <1>8 DEF Careful, SweepsCareful, Replaying, Swept
  <2>3. Linkless(i)
    <3>1. CASE Replaying(s, i)
      BY <2>1, <3>1 DEF LinkInv, ReplayIsLinkless
    <3>2. CASE status[i] = "INITIALIZING"
      BY <3>2 DEF LinkInv, EarlyHasNoLink, Linkless
    <3> QED BY <1>8, <3>1, <3>2 DEF Careful, SweepsCareful
  <2>4. ~Finishes(i)
    BY <1>1, <1>8, <2>1, <2>2 DEF Finishes, OneSweep, Replaying
  <2> QED BY <1>3, <2>1, <2>3, <2>4
<1>9. ReplayIsLinkless'
  BY <1>8 DEF ReplayIsLinkless
<1>10. LinkIsCurrent'
  <2> SUFFICES ASSUME NEW i \in Intent, NEW n \in 1 .. MaxOpened,
                      <<i, n>> \in links', key'[i] \notin ReplayKey
               PROVE  reference'[i] = n
    BY DEF LinkIsCurrent
  <2>1. key[i] \notin ReplayKey
    BY DEF Careful, RowsCareful
  <2>2. CASE <<i, n>> \in links
    BY <1>2, <2>1, <2>2 DEF LinkInv, LinkIsCurrent, Careful, RowsCareful, Linkless, NoLink
  <2>3. CASE <<i, n>> \notin links
    BY <2>1, <2>3 DEF Careful, LinksCareful
  <2> QED BY <2>2, <2>3
<1> QED BY <1>4, <1>5, <1>7, <1>9, <1>10 DEF LinkInv, Careful, LinksCareful

-----------------------------------------------------------------------------
(* What leaves rows, links, requests or sweeps alone is careful with them. *)

LEMMA RowsStill ==
  ASSUME UNCHANGED <<status, key, reference, stale>>
  PROVE  RowsCareful
BY DEF RowsCareful, Linkless

LEMMA LinksStill ==
  ASSUME LinkInv, UNCHANGED <<links, charged>>
  PROVE  LinksCareful
BY DEF LinkInv, LinksCareful

LEMMA RequestsStill ==
  ASSUME UNCHANGED req
  PROVE  RequestsCareful
BY DEF RequestsCareful, Holds

LEMMA SweepsStill ==
  ASSUME UNCHANGED sweep
  PROVE  SweepsCareful
BY DEF SweepsCareful, Swept, Replaying

\* A request that ends, or looks for a holder, or takes up one of a ReplayKey.
LEMMA RequestStops ==
  ASSUME TypeOK, NEW r \in Request, NEW f, req' = [req EXCEPT ![r] = f],
         f.pc \notin Working \/ key[f.intent] \in ReplayKey
  PROVE  RequestsCareful
BY DEF TypeOK, RequestsCareful, Holds

\* A request that goes on with the intent it has.
LEMMA RequestGoesOn ==
  ASSUME TypeOK, NEW r \in Request, NEW pc \in Working, NEW n,
         req[r].pc \in Working,
         req' = [req EXCEPT ![r] = RequestAt(pc, @.key, @.intent, n, @.creator)],
         pc \in Opening => req[r].pc \in Opening,
         pc = "initialized" => reference'[req[r].intent] = n
  PROVE  RequestsCareful
<1>1. req'[r] = RequestAt(pc, req[r].key, req[r].intent, n, req[r].creator)
  BY DEF TypeOK
<1>2. /\ req'[r].pc = pc /\ req'[r].intent = req[r].intent
      /\ req'[r].ref = n /\ req'[r].creator = req[r].creator
  BY <1>1 DEF RequestAt
<1>3. \A q \in Request : q # r => req'[q] = req[q]
  BY DEF TypeOK
<1> QED BY <1>2, <1>3 DEF RequestsCareful, Holds

\* A sweep that goes back to its batch, or ends, or starts anew.
LEMMA SweepGoesBack ==
  ASSUME TypeOK, NEW s \in Sweeper, NEW pc \in {"idle", "loop"}, NEW b,
         sweep' = [sweep EXCEPT ![s] = SweepAt(pc, b, NoIntent, 0)],
         \A i \in Intent, n \in 1 .. MaxRecovery + 1 : <<i, n>> \in b =>
            <<i, n>> \in sweep[s].batch \/ (stale[i] /\ status[i] = "INITIALIZING")
  PROVE  SweepsCareful
<1>1. sweep'[s] = SweepAt(pc, b, NoIntent, 0)
  BY DEF TypeOK
<1>2. sweep'[s].pc = pc /\ sweep'[s].batch = b
  BY <1>1 DEF SweepAt
<1>3. \A t \in Sweeper : t # s => sweep'[t] = sweep[t]
  BY DEF TypeOK
<1> QED BY <1>2, <1>3 DEF SweepsCareful, Swept, Replaying, Deciding, Opening

\* A sweep that goes on with the intent it has.
LEMMA SweepGoesOn ==
  ASSUME TypeOK, NEW s \in Sweeper, NEW pc \in {"opened", "recording"}, NEW n,
         Replaying(s, sweep[s].intent),
         sweep' = [sweep EXCEPT ![s] = SweepAt(pc, @.batch, @.intent, n)]
  PROVE  SweepsCareful
<1>1. sweep'[s] = SweepAt(pc, sweep[s].batch, sweep[s].intent, n)
  BY DEF TypeOK
<1>2. /\ sweep'[s].pc = pc /\ sweep'[s].batch = sweep[s].batch
      /\ sweep'[s].intent = sweep[s].intent
  BY <1>1 DEF SweepAt
<1>3. \A t \in Sweeper : t # s => sweep'[t] = sweep[t]
  BY DEF TypeOK
<1> QED BY <1>2, <1>3 DEF SweepsCareful, Swept, Replaying, Deciding, Opening

\* A mark that changes the status alone and needs a link.
LEMMA MarkCareful ==
  ASSUME TypeOK, NEW i \in Intent, NEW to \in Status \ {"UNUSED", "INITIALIZING"},
         TransitionStatus(i, to), UNCHANGED <<key, reference, stale>>,
         to \in {"INITIALIZED", "PENDING", "PROCESSING"} => ~Linkless(i) \/ Finishes(i)
  PROVE  RowsCareful
BY DEF TypeOK, TransitionStatus, RowsCareful, Linkless

LEMMA InitializedCareful ==
  ASSUME TypeOK, NEW i \in Intent, NEW n \in 1 .. MaxOpened,
         MarkInitialized(i, n), Writes(i), Finishes(i)
  PROVE  RowsCareful
BY DEF TypeOK, MarkInitialized, TransitionStatus, RowsCareful, Linkless

-----------------------------------------------------------------------------
(* A request.                                                              *)

LEMMA RequestCareful ==
  ASSUME IInv, LinkInv, NEW r \in Request,
         \/ FindActive(r) \/ OpenTransaction(r) \/ OpenFails(r) \/ SaveReference(r)
         \/ FailRequest(r) \/ AnswerRequest(r) \/ CrashRequest(r)
  PROVE  Careful
<1> USE DEF IInv
<1>0. IdleRequest.pc \notin Working
  BY DEF IdleRequest, RequestAt, Working, Opening
<1>1. ASSUME FindActive(r) PROVE Careful
  <2>1. RowsCareful
    BY <1>1, RowsStill DEF FindActive, rowVars
  <2>2. LinksCareful
    BY <1>1 DEF FindActive, LinkInv, LinksCareful, Linkless, ActiveFor, rowVars
  <2>3. RequestsCareful
    <3>1. PICK f : /\ req' = [req EXCEPT ![r] = f]
                   /\ f.pc \notin Working \/ key[f.intent] \in ReplayKey
      BY <1>0, <1>1 DEF FindActive, RequestAt, Working, Opening, ActiveFor
    <3> QED BY <3>1, RequestStops
  <2>4. SweepsCareful
    BY <1>1, SweepsStill DEF FindActive
  <2> QED BY <2>1, <2>2, <2>3, <2>4 DEF Careful
<1>2. ASSUME OpenTransaction(r) PROVE Careful
  <2>1. RowsCareful /\ LinksCareful /\ SweepsCareful
    BY <1>2, RowsStill, LinksStill, SweepsStill DEF OpenTransaction, rowVars, payerVars
  <2>2. RequestsCareful
    <3>1. PICK pc \in Working, n \in {opened[req[r].intent] + 1} :
            /\ req' = [req EXCEPT ![r] = RequestAt(pc, @.key, @.intent, n, @.creator)]
            /\ req[r].pc \in Opening /\ pc # "initialized"
      BY <1>2 DEF OpenTransaction, Working, Opening
    <3> QED BY <3>1, RequestGoesOn DEF Working
  <2> QED BY <2>1, <2>2 DEF Careful
<1>3. ASSUME OpenFails(r) PROVE Careful
  <2>1. RowsCareful /\ LinksCareful /\ SweepsCareful
    BY <1>3, RowsStill, LinksStill, SweepsStill DEF OpenFails, rowVars, payerVars
  <2>2. RequestsCareful
    <3>1. PICK pc \in Working, n \in {0} :
            /\ req' = [req EXCEPT ![r] = RequestAt(pc, @.key, @.intent, n, @.creator)]
            /\ req[r].pc \in Opening /\ pc # "initialized"
      BY <1>3 DEF OpenFails, Working, Opening
    <3> QED BY <3>1, RequestGoesOn DEF Working
  <2> QED BY <2>1, <2>2 DEF Careful
<1>4. ASSUME SaveReference(r) PROVE Careful
  <2>1. LinksCareful /\ SweepsCareful
    BY <1>4, LinksStill, SweepsStill DEF SaveReference, payerVars
  <2>2. PICK i \in Intent, n \in 1 .. MaxOpened : i = req[r].intent /\ n = req[r].ref
    BY <1>4, PaymentIntentAssumption
       DEF SaveReference, RequestRemembers, TypeOK, RequestState
  <2>3. RequestsCareful
    <3>1. CASE Open(i)
      <4>1. reference'[i] = n
        BY <1>4, <2>2, <3>1 DEF SaveReference, MarkInitialized, TypeOK
      <4>2. req' = [req EXCEPT ![r] = RequestAt("initialized", @.key, @.intent, n, @.creator)]
        BY <1>4, <2>2, <3>1 DEF SaveReference
      <4> QED BY <1>4, <2>2, <4>1, <4>2, RequestGoesOn DEF SaveReference, Working, Opening
    <3>2. CASE ~Open(i)
      BY <1>0, <1>4, <2>2, <3>2, RequestStops DEF SaveReference
    <3> QED BY <3>1, <3>2
  <2>4. Writes(i)
    BY <1>4, <2>2 DEF SaveReference, Writes
  <2>5. Finishes(i)
    <3>1. req'[r].pc \notin Opening
      BY <1>4 DEF SaveReference, TypeOK, RequestAt, IdleRequest, Opening
    <3> QED BY <1>4, <2>2, <3>1 DEF SaveReference, Finishes, Holds, Working, Opening
  <2>6. RowsCareful
    BY <1>4, <2>2, <2>4, <2>5, InitializedCareful DEF SaveReference
  <2> QED BY <2>1, <2>3, <2>6 DEF Careful
<1>5. ASSUME FailRequest(r) PROVE Careful
  <2>1. LinksCareful /\ SweepsCareful /\ RequestsCareful
    BY <1>0, <1>5, LinksStill, SweepsStill, RequestStops DEF FailRequest, payerVars
  <2>2. RowsCareful
    BY <1>5, MarkCareful DEF FailRequest, MarkEnded, RequestRemembers, Status, TerminalStatus
  <2> QED BY <2>1, <2>2 DEF Careful
<1>6. ASSUME AnswerRequest(r) PROVE Careful
  <2>1. SweepsCareful /\ RequestsCareful
    BY <1>0, <1>6, SweepsStill, RequestStops DEF AnswerRequest
  <2>2. PICK i \in Intent : i = req[r].intent /\ Holds(r, i)
    BY <1>6 DEF AnswerRequest, RequestRemembers, Holds, Working
  <2>3. Finishes(i)
    <3>1. req'[r].pc \notin Opening
      BY <1>6 DEF AnswerRequest, TypeOK, RequestAt, IdleRequest, Opening
    <3> QED BY <2>2, <3>1 DEF Finishes
  <2>4. RowsCareful
    BY <1>6, <2>2, <2>3, MarkCareful DEF AnswerRequest, Mark, Status, ActiveStatus
  <2>5. LinksCareful
    <3>1. CASE Open(i)
      <4>1. status'[i] = "PENDING" /\ links' = links \cup {<<i, req[r].ref>>}
        BY <1>6, <2>2, <3>1 DEF AnswerRequest, Mark, TransitionStatus, TypeOK
      <4>2. key[i] \notin ReplayKey => reference'[i] = req[r].ref
        BY <1>6, <2>2 DEF AnswerRequest, Mark, LinkInv, CreatorAlone
      <4> QED BY <1>6, <2>3, <4>1, <4>2 DEF AnswerRequest, LinkInv, LinksCareful
    <3>2. CASE ~Open(i)
      BY <1>6, <2>2, <3>2, LinksStill DEF AnswerRequest
    <3> QED BY <3>1, <3>2
  <2> QED BY <2>1, <2>4, <2>5 DEF Careful
<1>7. ASSUME CrashRequest(r) PROVE Careful
  BY <1>0, <1>7, RowsStill, LinksStill, SweepsStill, RequestStops
     DEF CrashRequest, rowVars, payerVars, Careful
<1> QED BY <1>1, <1>2, <1>3, <1>4, <1>5, <1>6, <1>7

-----------------------------------------------------------------------------
(* A sweep.                                                                *)

LEMMA SweepCareful ==
  ASSUME IInv, LinkInv, NEW s \in Sweeper,
         Claim(s) \/ SweepStep(s) \/ CrashSweep(s)
  PROVE  Careful
<1> USE DEF IInv
<1>0. IdleSweep = SweepAt("idle", {}, NoIntent, 0)
  BY DEF IdleSweep
<1>1. ASSUME Claim(s) PROVE Careful
  <2>1. RowsCareful /\ LinksCareful /\ RequestsCareful
    BY <1>1, RowsStill, LinksStill, RequestsStill DEF Claim, payerVars
  <2>2. SweepsCareful
    <3> DEFINE due == {j \in Intent : status[j] = "INITIALIZING" /\ stale[j] /\ ~claimed[j]}
               count(j) == IF attempts[j] > MaxRecovery THEN attempts[j]
                                                        ELSE attempts[j] + 1
               b == {<<j, count(j)>> : j \in due}
    <3>1. sweep' = [sweep EXCEPT ![s] = SweepAt("loop", b, NoIntent, 0)]
      BY <1>1 DEF Claim
    <3>2. \A i \in Intent, n \in 1 .. MaxRecovery + 1 :
             <<i, n>> \in b => stale[i] /\ status[i] = "INITIALIZING"
      OBVIOUS
    <3> HIDE DEF b
    <3> QED BY <3>1, <3>2, SweepGoesBack
  <2> QED BY <2>1, <2>2 DEF Careful
<1>2. ASSUME ReadClaimed(s) PROVE Careful
  <2>1. RowsCareful /\ LinksCareful /\ RequestsCareful
    BY <1>2, RowsStill, LinksStill, RequestsStill DEF ReadClaimed, rowVars, payerVars
  <2>2. PICK c \in sweep[s].batch, pc \in {"loop", "expiring", "giving_up", "open"} :
          /\ pc # "loop" => status[c[1]] = "INITIALIZING"
          /\ sweep' = [sweep EXCEPT ![s] =
               SweepAt(pc, @.batch \ {c}, IF pc = "loop" THEN NoIntent ELSE c[1], 0)]
    BY <1>2 DEF ReadClaimed
  <2>3. PICK i \in Intent, n \in 1 .. MaxRecovery + 1 : c = <<i, n>>
    BY DEF TypeOK, SweepState
  <2>4. /\ sweep'[s].pc = pc
        /\ sweep'[s].batch = sweep[s].batch \ {c}
        /\ sweep'[s].intent = IF pc = "loop" THEN NoIntent ELSE i
    BY <2>2, <2>3 DEF TypeOK, SweepAt
  <2>5. \A t \in Sweeper : t # s => sweep'[t] = sweep[t]
    BY <2>2 DEF TypeOK
  <2>6. Swept(s, i) /\ (pc # "loop" => status[i] = "INITIALIZING")
    BY <2>2, <2>3 DEF Swept
  <2>7. ASSUME NEW j \in Intent
        PROVE  /\ Swept(s, j)' => Swept(s, j)
               /\ Replaying(s, j)' => Swept(s, j) /\ status[j] = "INITIALIZING"
    <3>1. \A m \in 1 .. MaxRecovery + 1 :
            <<j, m>> \in sweep'[s].batch => <<j, m>> \in sweep[s].batch
      BY <2>4
    <3>2. sweep'[s].pc # "loop" /\ sweep'[s].intent = j => j = i
      BY <2>4
    <3> QED BY <2>4, <2>6, <3>1, <3>2 DEF Swept, Replaying, Deciding, Opening
  <2>8. SweepsCareful
    BY <2>5, <2>7 DEF SweepsCareful, Swept, Replaying
  <2> QED BY <2>1, <2>8 DEF Careful
<1>3. ASSUME NextClaimed(s) \/ sweep' = [sweep EXCEPT ![s] = IdleSweep]
      PROVE  SweepsCareful
  BY <1>0, <1>3, SweepGoesBack DEF NextClaimed
<1>4. ASSUME EndClaimed(s) PROVE Careful
  <2>1. LinksCareful /\ RequestsCareful /\ SweepsCareful
    BY <1>3, <1>4, LinksStill, RequestsStill DEF EndClaimed, payerVars
  <2>2. RowsCareful
    BY <1>4, MarkCareful DEF EndClaimed, MarkEnded, SweepRemembers, Status, TerminalStatus
  <2> QED BY <2>1, <2>2 DEF Careful
<1>5. ASSUME Replay(s) \/ ReplayFails(s) PROVE Careful
  <2>1. RowsCareful /\ LinksCareful /\ RequestsCareful
    BY <1>5, RowsStill, LinksStill, RequestsStill DEF Replay, ReplayFails, rowVars, payerVars
  <2>2. PICK pc \in {"opened", "recording"}, n \in {0, opened[sweep[s].intent] + 1} :
          /\ sweep' = [sweep EXCEPT ![s] = SweepAt(pc, @.batch, @.intent, n)]
          /\ Replaying(s, sweep[s].intent)
    BY <1>5 DEF Replay, ReplayFails, Replaying, Deciding, Opening
  <2>3. SweepsCareful
    BY <2>2, SweepGoesOn
  <2> QED BY <2>1, <2>3 DEF Careful
<1>6. ASSUME SaveReplay(s) PROVE Careful
  <2>1. LinksCareful /\ RequestsCareful /\ SweepsCareful
    BY <1>3, <1>6, LinksStill, RequestsStill DEF SaveReplay, payerVars
  <2>2. PICK i \in Intent, n \in 1 .. MaxOpened : i = sweep[s].intent /\ n = sweep[s].ref
    BY <1>6, PaymentIntentAssumption DEF SaveReplay, SweepRemembers, TypeOK, SweepState
  <2>3. Writes(i)
    BY <1>6, <2>2 DEF SaveReplay, Writes
  <2>4. Finishes(i)
    <3>1. sweep'[s].pc \notin Deciding
      BY <1>6 DEF SaveReplay, NextClaimed, TypeOK, SweepAt, Deciding, Opening
    <3> QED BY <1>6, <2>2, <3>1 DEF SaveReplay, Finishes, Replaying, Deciding, Opening
  <2>5. RowsCareful
    BY <1>6, <2>2, <2>3, <2>4, InitializedCareful DEF SaveReplay
  <2> QED BY <2>1, <2>5 DEF Careful
<1>7. ASSUME RecordFailure(s) PROVE Careful
  <2>1. LinksCareful /\ RequestsCareful /\ SweepsCareful
    BY <1>3, <1>7, LinksStill, RequestsStill DEF RecordFailure, payerVars
  <2>2. RowsCareful
    BY <1>7 DEF RecordFailure, RowsCareful, SweepRemembers, TypeOK, Linkless
  <2> QED BY <2>1, <2>2 DEF Careful
<1>8. ASSUME ExpireStale(s) PROVE Careful
  <2>1. LinksCareful /\ RequestsCareful /\ SweepsCareful
    BY <1>3, <1>8, LinksStill, RequestsStill DEF ExpireStale, payerVars
  <2>2. RowsCareful
    BY <1>8 DEF ExpireStale, RowsCareful, TypeOK, Linkless
  <2> QED BY <2>1, <2>2 DEF Careful
<1>9. ASSUME CrashSweep(s) PROVE Careful
  BY <1>3, <1>9, RowsStill, LinksStill, RequestsStill
     DEF CrashSweep, rowVars, payerVars, Careful
<1> QED BY <1>1, <1>2, <1>4, <1>5, <1>6, <1>7, <1>8, <1>9 DEF SweepStep

-----------------------------------------------------------------------------
(* Time, the payer and the settling calls.                                 *)

LEMMA OtherCareful ==
  ASSUME IInv, LinkInv, OneSweep,
         \/ \E i \in Intent : GrowStale(i) \/ Lapse(i) \/ LeaseEnds(i)
         \/ \E i \in Intent, n \in 1 .. MaxOpened : Pay(i, n) \/ Settle(i, n)
  PROVE  Careful
<1> USE DEF IInv
<1>1. ASSUME NEW i \in Intent, GrowStale(i) PROVE Careful
  <2>1. LinksCareful /\ RequestsCareful /\ SweepsCareful
    BY <1>1, LinksStill, RequestsStill, SweepsStill DEF GrowStale, payerVars
  <2>2. RowsCareful
    BY <1>1 DEF GrowStale, OneSweep, RowsCareful, TypeOK, Linkless
  <2> QED BY <2>1, <2>2 DEF Careful
<1>2. ASSUME NEW i \in Intent, Lapse(i) \/ LeaseEnds(i) PROVE Careful
  BY <1>2, RowsStill, LinksStill, RequestsStill, SweepsStill
     DEF Lapse, LeaseEnds, payerVars, Careful
<1>3. ASSUME NEW i \in Intent, NEW n \in 1 .. MaxOpened, Pay(i, n) PROVE Careful
  <2>1. RowsCareful /\ RequestsCareful /\ SweepsCareful
    BY <1>3, RowsStill, RequestsStill, SweepsStill DEF Pay, rowVars
  <2>2. LinksCareful
    BY <1>3 DEF Pay, LinkInv, LinksCareful
  <2> QED BY <2>1, <2>2 DEF Careful
<1>4. ASSUME NEW i \in Intent, NEW n \in 1 .. MaxOpened, Settle(i, n) PROVE Careful
  <2>1. LinksCareful /\ RequestsCareful /\ SweepsCareful
    BY <1>4, LinksStill, RequestsStill, SweepsStill DEF Settle, payerVars
  <2>2. ~Linkless(i)
    BY <1>4 DEF Settle, LinkInv, Linkless, NoLink
  <2>3. RowsCareful
    BY <1>4, <2>2, MarkCareful
       DEF Settle, Mark, MarkEnded, Status, ActiveStatus, TerminalStatus
  <2> QED BY <2>1, <2>3 DEF Careful
<1> QED BY <1>1, <1>2, <1>3, <1>4

-----------------------------------------------------------------------------
(* An INSERT: the new intent is nobody's but its creator's.                *)

LEMMA InsertLinks ==
  ASSUME IInv, LinkInv, NEW r \in Request, NEW k \in Key, NEW look \in {"find", "refind"},
         InsertIntent(r, k, look), UNCHANGED <<sweep, links, charged>>
  PROVE  LinkInv' \/ Careful
<1> USE DEF IInv
<1>1. CASE ActiveFor(k) # {} /\ UNCHANGED rowVars
           /\ req' = [req EXCEPT ![r] = RequestAt(look, k, NoIntent, 0, FALSE)]
  <2>1. RequestAt(look, k, NoIntent, 0, FALSE).pc \notin Working
    BY DEF RequestAt, Working, Opening
  <2> QED BY <1>1, <2>1, RowsStill, LinksStill, RequestStops, SweepsStill DEF rowVars, Careful
<1>2. ASSUME NEW i \in Intent, status[i] = "UNUSED",
             status' = [status EXCEPT ![i] = "INITIALIZING"],
             key' = [key EXCEPT ![i] = k],
             req' = [req EXCEPT ![r] = RequestAt("open", k, i, 0, TRUE)],
             UNCHANGED <<reference, stale>>
      PROVE  LinkInv'
  <2>1. NoLink(i) /\ ~stale[i] /\ \A s \in Sweeper : ~Swept(s, i)
    BY <1>2 DEF LinkInv, EarlyHasNoLink, UnusedIsFree
  <2>2. \A q \in Request : ~Holds(q, i)
    BY <1>2 DEF RequestRemembers, Holds, Working, Opening
  <2>3. /\ \A j \in Intent : j # i => status'[j] = status[j] /\ key'[j] = key[j]
        /\ status'[i] = "INITIALIZING"
    BY <1>2 DEF TypeOK
  <2>4. ASSUME NEW j \in Intent
        PROVE  /\ NoLink(j)' <=> NoLink(j)
               /\ j # i => (Linkless(j)' <=> Linkless(j))
    BY <2>3 DEF NoLink, Linkless
  <2>s. ASSUME NEW j \in Intent, NEW s \in Sweeper
        PROVE  /\ Swept(s, j)' <=> Swept(s, j)
               /\ Replaying(s, j)' <=> Replaying(s, j)
    BY DEF Swept, Replaying
  <2>5. /\ \A q \in Request : q # r => req'[q] = req[q]
        /\ req'[r].pc = "open" /\ req'[r].intent = i /\ req'[r].creator
    BY <1>2 DEF TypeOK, RequestAt
  <2>6. EarlyHasNoLink' /\ UnusedIsFree' /\ ReplayIsLinkless'
    <3>1. EarlyHasNoLink'
      BY <2>1, <2>3, <2>4 DEF LinkInv, EarlyHasNoLink
    <3>2. UnusedIsFree'
      <4> SUFFICES ASSUME NEW j \in Intent, status'[j] = "UNUSED"
                   PROVE  ~stale'[j] /\ \A s \in Sweeper : ~Swept(s, j)'
        BY DEF UnusedIsFree
      <4>1. status[j] = "UNUSED" /\ stale'[j] = stale[j]
        BY <1>2, <2>3
      <4> QED BY <4>1, <2>s DEF LinkInv, UnusedIsFree
    <3>3. \A s \in Sweeper : ~Replaying(s, i)
      BY <2>1 DEF Swept, Replaying
    <3>4. ReplayIsLinkless'
      <4> SUFFICES ASSUME NEW j \in Intent, NEW s \in Sweeper, Replaying(s, j)',
                          key'[j] \notin ReplayKey
                   PROVE  Linkless(j)'
        BY DEF ReplayIsLinkless
      <4>1. Replaying(s, j) /\ j # i
        BY <2>s, <3>3
      <4> QED BY <2>3, <2>4, <4>1 DEF LinkInv, ReplayIsLinkless
    <3> QED BY <3>1, <3>2, <3>4
  <2>7. LinkIsCurrent' /\ charged' \subseteq links'
    BY <1>2, <2>1, <2>3 DEF LinkInv, LinkIsCurrent, NoLink
  <2>8. CreatorAlone'
    <3> SUFFICES ASSUME NEW j \in Intent, NEW q \in Request, Holds(q, j)',
                        key'[j] \notin ReplayKey
                 PROVE  /\ req'[q].creator /\ ~stale'[j]
                        /\ \A p \in Request : Holds(p, j)' => p = q
                        /\ \A s \in Sweeper : ~Swept(s, j)'
                        /\ req'[q].pc \in Opening => Linkless(j)'
                        /\ req'[q].pc = "initialized" => reference'[j] = req'[q].ref
      BY DEF CreatorAlone
    <3>1. \A p \in Request : p # r => (Holds(p, j)' <=> Holds(p, j))
      BY <2>5 DEF Holds
    <3>2. CASE j = i
      <4>1. q = r /\ \A p \in Request : Holds(p, j)' => p = q
        BY <2>2, <3>1, <3>2
      <4>2. Linkless(i)'
        BY <2>1, <2>3, <2>4 DEF Linkless
      <4>3. \A s \in Sweeper : ~Swept(s, j)'
        BY <2>1, <2>s, <3>2
      <4> QED BY <1>2, <2>1, <2>5, <3>2, <4>1, <4>2, <4>3
    <3>3. CASE j # i
      <4>1. q # r /\ Holds(q, j)
        BY <2>5, <3>1, <3>3 DEF Holds
      <4>2. ~Holds(r, j)'
        BY <2>5, <3>3 DEF Holds
      <4>3. /\ req[q].creator /\ ~stale[j]
            /\ \A p \in Request : Holds(p, j) => p = q
            /\ \A s \in Sweeper : ~Swept(s, j)
            /\ req[q].pc \in Opening => Linkless(j)
            /\ req[q].pc = "initialized" => reference[j] = req[q].ref
        BY <2>3, <3>3, <4>1 DEF LinkInv, CreatorAlone
      <4>4. req'[q] = req[q] /\ stale'[j] = stale[j] /\ reference'[j] = reference[j]
        BY <1>2, <2>5, <4>1
      <4>5. \A s \in Sweeper : ~Swept(s, j)'
        BY <2>s, <4>3
      <4> QED BY <2>4, <3>1, <3>3, <4>2, <4>3, <4>4, <4>5
    <3> QED BY <3>2, <3>3
  <2> QED BY <2>6, <2>7, <2>8 DEF LinkInv
<1> QED BY <1>1, <1>2 DEF InsertIntent

LEMMA LinkInit == Init => LinkInv
<1> SUFFICES ASSUME Init PROVE LinkInv
  OBVIOUS
<1>1. charged \subseteq links /\ EarlyHasNoLink /\ LinkIsCurrent
  BY DEF Init, EarlyHasNoLink, LinkIsCurrent, NoLink
<1>2. ASSUME NEW s \in Sweeper, NEW i \in Intent PROVE ~Swept(s, i) /\ ~Replaying(s, i)
  BY DEF Init, Swept, Replaying, Deciding, Opening, IdleSweep, SweepAt
<1>3. ASSUME NEW r \in Request, NEW i \in Intent PROVE ~Holds(r, i)
  BY DEF Init, Holds, Working, Opening, IdleRequest, RequestAt
<1>4. UnusedIsFree
  BY <1>2 DEF Init, UnusedIsFree
<1> QED BY <1>1, <1>2, <1>3, <1>4 DEF LinkInv, CreatorAlone, ReplayIsLinkless

LEMMA LinkNext ==
  ASSUME OneSweep, IInv, LinkInv, [Next]_vars
  PROVE  LinkInv'
<1>1. ASSUME NEW r \in Request, NEW k \in Key, Reserve(r, k) PROVE LinkInv'
  BY <1>1, InsertLinks, CarefulKeeps DEF Reserve, payerVars
<1>2. ASSUME NEW r \in Request, RequestStep(r) \/ CrashRequest(r) PROVE LinkInv'
  <2>1. ASSUME ReserveAgain(r) PROVE LinkInv'
    BY <2>1, InsertLinks, CarefulKeeps DEF ReserveAgain, IInv, RequestRemembers, payerVars
  <2> QED BY <1>2, <2>1, RequestCareful, CarefulKeeps DEF RequestStep
<1>3. ASSUME NEW s \in Sweeper, Claim(s) \/ SweepStep(s) \/ CrashSweep(s) PROVE LinkInv'
  BY <1>3, SweepCareful, CarefulKeeps
<1>4. ASSUME \/ \E i \in Intent : GrowStale(i) \/ Lapse(i) \/ LeaseEnds(i)
             \/ \E i \in Intent, n \in 1 .. MaxOpened : Pay(i, n) \/ Settle(i, n)
      PROVE  LinkInv'
  BY <1>4, OtherCareful, CarefulKeeps
<1>5. CASE UNCHANGED vars
  BY <1>5, RowsStill, LinksStill, RequestsStill, SweepsStill, CarefulKeeps
     DEF vars, Careful
<1> QED BY <1>1, <1>2, <1>3, <1>4, <1>5 DEF Next

\* The link of an installment's intent that reached a payer is the link of the
\* intent for good, so that findByReference finds the intent of the charge:
\* initializePaystack and recoverIntent save a reference before they show it, and
\* never save another.
THEOREM LinkIsCurrentHolds ==
  ASSUME OneSweep
  PROVE  Spec => []LinkIsCurrent
<1>1. Init => IInv /\ LinkInv
  BY InitInv, LinkInit
<1>2. IInv /\ LinkInv /\ [Next]_vars => (IInv /\ LinkInv)'
  BY NextInv, LinkNext
<1>3. LinkInv => LinkIsCurrent
  BY DEF LinkInv
<1> QED BY <1>1, <1>2, <1>3, PTL DEF Spec

-----------------------------------------------------------------------------
(* What a sweep gives up or expires has no link, or has lapsed.             *)

LEMMA SweepEndsFairly ==
  ASSUME IInv, LinkInv, NEW i \in Intent, NEW n \in 1 .. MaxOpened,
         Open(i), ~lapsed[i], key[i] \notin ReplayKey, <<i, n>> \in links,
         NEW s \in Sweeper, SweepStep(s)
  PROVE  status'[i] \notin {"FAILED", "EXPIRED"}
<1> USE DEF IInv
<1>1. ASSUME EndClaimed(s) PROVE status'[i] \notin {"FAILED", "EXPIRED"}
  <2>1. sweep[s].intent \in Intent
    BY <1>1 DEF EndClaimed, SweepRemembers
  <2>2. sweep[s].intent # i
    BY <1>1 DEF EndClaimed, LinkInv, ReplayIsLinkless, Replaying, Deciding, Linkless, NoLink
  <2> QED BY <1>1, <2>1, <2>2
          DEF EndClaimed, MarkEnded, TransitionStatus, TypeOK, Open, ActiveStatus
<1>2. ASSUME ExpireStale(s) PROVE status'[i] \notin {"FAILED", "EXPIRED"}
  BY <1>2 DEF ExpireStale, TypeOK, Open, ActiveStatus
<1>3. ASSUME SaveReplay(s) PROVE status'[i] \notin {"FAILED", "EXPIRED"}
  BY <1>3 DEF SaveReplay, MarkInitialized, TransitionStatus, TypeOK, Open, ActiveStatus
<1>4. ASSUME ReadClaimed(s) \/ Replay(s) \/ ReplayFails(s) \/ RecordFailure(s)
      PROVE  status'[i] \notin {"FAILED", "EXPIRED"}
  BY <1>4 DEF ReadClaimed, Replay, ReplayFails, RecordFailure, rowVars, Open, ActiveStatus
<1> QED BY <1>1, <1>2, <1>3, <1>4 DEF SweepStep

\* A sweep ends no installment's intent that a payer holds a link of before its
\* ten minutes are over (recoverIntent's two endings and expireStale).
THEOREM SweepKeepsLiveIntentHolds ==
  ASSUME OneSweep
  PROVE  Spec => SweepKeepsLiveIntent
<1> DEFINE Kept == \A i \in Intent :
              /\ Open(i) /\ ~lapsed[i] /\ key[i] \notin ReplayKey
              /\ \E n \in 1 .. MaxOpened : <<i, n>> \in links
              /\ status'[i] \in {"FAILED", "EXPIRED"}
              => sweep' = sweep
           All == IInv /\ LinkInv
<1>1. Init => All
  BY InitInv, LinkInit
<1>2. All /\ [Next]_vars => All'
  BY NextInv, LinkNext
<1>3. All /\ [Next]_vars => [Kept]_vars
  <2> SUFFICES ASSUME All, Next, NEW i \in Intent, NEW n \in 1 .. MaxOpened,
                      Open(i), ~lapsed[i], key[i] \notin ReplayKey, <<i, n>> \in links,
                      status'[i] \in {"FAILED", "EXPIRED"}
               PROVE  sweep' = sweep
    OBVIOUS
  <2>1. ASSUME NEW r \in Request,
               RequestStep(r) \/ CrashRequest(r) \/ \E k \in Key : Reserve(r, k)
        PROVE  sweep' = sweep
    BY <2>1 DEF RequestStep, CrashRequest, Reserve, ReserveAgain, FindActive,
                OpenTransaction, OpenFails, SaveReference, FailRequest, AnswerRequest
  <2>2. ASSUME NEW s \in Sweeper, Claim(s) \/ SweepStep(s) \/ CrashSweep(s)
        PROVE  sweep' = sweep
    <3>1. UNCHANGED status \/ SweepStep(s)
      BY <2>2 DEF Claim, CrashSweep, rowVars
    <3> QED BY <3>1, SweepEndsFairly DEF Open, ActiveStatus
  <2>3. ASSUME \/ \E j \in Intent : GrowStale(j) \/ Lapse(j) \/ LeaseEnds(j)
               \/ \E j \in Intent, m \in 1 .. MaxOpened : Pay(j, m) \/ Settle(j, m)
        PROVE  sweep' = sweep
    BY <2>3 DEF GrowStale, Lapse, LeaseEnds, Pay, Settle
  <2> QED BY <2>1, <2>2, <2>3 DEF Next
<1>4. SweepKeepsLiveIntent <=> [][Kept]_vars
  BY DEF SweepKeepsLiveIntent
<1> QED BY <1>1, <1>2, <1>3, <1>4, PTL DEF Spec
=============================================================================
