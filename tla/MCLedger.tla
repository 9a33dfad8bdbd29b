------------------------------- MODULE MCLedger -------------------------------
(* Three of the accounts a settlement is booked on, for TLC. *)
EXTENDS Ledger
CONSTANTS payable, transit, bank

On(a) == [b \in Account |-> IF b = a THEN 1 ELSE 0]

\* The bookings of a transfer's start, success and failure, and a correction
\* that does not balance.
Bookings == {[debit |-> On(payable), credit |-> On(transit)],
             [debit |-> On(transit), credit |-> On(bank)],
             [debit |-> On(transit), credit |-> On(payable)],
             [debit |-> On(transit), credit |-> Zero]}
=============================================================================
