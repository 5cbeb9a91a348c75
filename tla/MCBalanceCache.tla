--------------------------- MODULE MCBalanceCache ---------------------------
(* Instances of BalanceCache for TLC: alice deposits, alice pays bob.       *)
EXTENDS BalanceCache, TLC

CONSTANTS alice, bob, deposit, transfer

MCAffects == (deposit :> <<alice>>) @@ (transfer :> <<alice, bob>>)

=============================================================================
