--------------------------------- MODULE Sums ---------------------------------
(***************************************************************************)
(* The sum of the values a function takes on a set, as the code's reduce   *)
(* calls and the database's SUM compute it.                                *)
(***************************************************************************)
EXTENDS FiniteSetsExt

SumOver(f, S) == MapThenSumSet(LAMBDA x : f[x], S)
=============================================================================
