-------------------------- MODULE MCCommissionPayout --------------------------
(* Instances of CommissionPayout for TLC. *)
EXTENDS CommissionPayout, TLC

\* Two commissions, the older one worth less, or one of two units.
TwoCommissions == <<1, 2>>
OneCommission == <<2>>

Symmetry == Permutations(Payout) \cup Permutations(Handler) \cup Permutations(Hook)
=============================================================================
