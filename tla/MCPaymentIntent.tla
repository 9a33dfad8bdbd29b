--------------------------- MODULE MCPaymentIntent ---------------------------
(* Instances of PaymentIntent for TLC. *)
EXTENDS PaymentIntent, TLC

\* Intents, requests, and the keys of one kind of flow are interchangeable.
Symmetry == Permutations(Intent) \cup Permutations(Request)
            \cup Permutations(Key \ ReplayKey)
=============================================================================
