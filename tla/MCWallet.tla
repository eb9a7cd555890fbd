------------------------------ MODULE MCWallet ------------------------------
(* Instances of Wallet for TLC. *)
EXTENDS Wallet

CONSTANTS u1, u2, btc, usdt

MCPairs == {<<btc, usdt>>}

(* A deposit of a negative amount is accepted, like any other. *)
MCAmounts == {-1, 2}

(* The seller has btc, the buyer usdt; each has locked some of it. *)
MCOpening ==
  [w \in Wallets |->
     IF w \in {<<u1, btc>>, <<u2, usdt>>}
     THEN [available |-> 1, locked |-> 2, recorded |-> 0]
     ELSE [available |-> 0, locked |-> 0, recorded |-> 0]]
=============================================================================
