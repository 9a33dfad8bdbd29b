------------------------- MODULE MCInstallmentPayment -------------------------
(* Instances of InstallmentPayment for TLC. *)
EXTENDS InstallmentPayment, TLC

Symmetry == Permutations(Intent) \cup Permutations(Worker)
=============================================================================
