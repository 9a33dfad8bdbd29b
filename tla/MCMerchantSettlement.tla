------------------------- MODULE MCMerchantSettlement -------------------------
(* Names for TLC's model values. *)
EXTENDS MerchantSettlement
CONSTANTS i1, i2, m1, m2, h1, k1, w1, w2
=============================================================================
