----------------------------- MODULE MCBrowser ------------------------------
(* Instances of Browser for TLC.                                           *)
EXTENDS Browser, TLC

\* Tabs, slots of refreshes and slots of requests are alike.
Alike == Permutations(Client) \cup Permutations(Call) \cup Permutations(Request)

=============================================================================
