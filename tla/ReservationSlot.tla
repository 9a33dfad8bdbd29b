--------------------------- MODULE ReservationSlot ---------------------------
(***************************************************************************)
(* What the payment-intent service promises about reservations, with       *)
(* nothing said of Paystack, recovery sweeps or webhooks: a reservation    *)
(* key is a slot that at most one intent holds, an intent holds a slot     *)
(* once in its life, and only for the key it was created with.             *)
(***************************************************************************)
CONSTANTS Intent,   \* payment intents
          Key,      \* reservation keys, e.g. "INSTALLMENT:<id>"
          NoIntent  \* the holder of a free slot, not an intent

VARIABLES holder,   \* holder[k]: the intent that holds key k
          spent     \* intents that have held a slot, now or before

slotVars == <<holder, spent>>

SlotTypeOK == /\ holder \in [Key -> Intent \cup {NoIntent}]
              /\ spent \subseteq Intent

SlotInit == /\ holder = [k \in Key |-> NoIntent]
            /\ spent = {}

\* A free slot is taken by an intent that never held one.
Acquire(k, i) ==
    /\ holder[k] = NoIntent
    /\ i \notin spent
    /\ holder' = [holder EXCEPT ![k] = i]
    /\ spent' = spent \cup {i}

\* Some slots become free in one statement; the intents stay spent.
Release(K) ==
    /\ holder' = [k \in Key |-> IF k \in K THEN NoIntent ELSE holder[k]]
    /\ UNCHANGED spent

SlotNext == \/ \E k \in Key, i \in Intent : Acquire(k, i)
            \/ \E K \in SUBSET Key : Release(K)

SlotSpec == SlotInit /\ [][SlotNext]_slotVars
=============================================================================
