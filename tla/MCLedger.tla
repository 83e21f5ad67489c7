------------------------------ MODULE MCLedger ------------------------------
(* Ledger with two chargers who together pass the budget.                  *)
EXTENDS Ledger

=============================================================================
