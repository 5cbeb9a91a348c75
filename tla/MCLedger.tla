------------------------------ MODULE MCLedger ------------------------------
(* Ledger on a small instance: the opening balances.                        *)
EXTENDS Ledger

MCOpening == [w \in Wallet |-> IF w = 1 THEN 1 ELSE 0]

=============================================================================
