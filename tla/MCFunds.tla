------------------------------ MODULE MCFunds ------------------------------
(* Instances of FundsFlow for TLC. *)
EXTENDS FundsFlow

(* Enough for one small withdrawal, or for one that needs an operator. *)
MCOpening == [w \in Wallets |-> [available |-> 10010, locked |-> 0, recorded |-> 0]]
=============================================================================
