----------------------------- MODULE MCTrading -----------------------------
(* Instances of Trading for TLC. *)
EXTENDS Trading, TLC

CONSTANTS alice, bob, btc, usdt, MaxDisturbed

MCPairs == {<<btc, usdt>>}

Asks(user, side, kind, price, quantity) ==
  [user |-> user, side |-> side, kind |-> kind, price |-> price, quantity |-> quantity]

(* Resting orders that are filled in parts on both sides, a better price,  *)
(* a taker that may be filled in part, and orders that meet their own      *)
(* user's.                                                                 *)
MCOrders ==
  {Asks(alice, "Sell", "Limit", 1, 2), Asks(alice, "Buy", "Limit", 1, 3),
   Asks(bob, "Buy", "Limit", 2, 1), Asks(bob, "Sell", "Market", NoPrice, 2)}

MCOpening ==
  [w \in Wallets |->
     [available |-> IF w[2] = btc THEN 4 ELSE 6 * (Scale + TakerFeeBps),
      locked |-> 0, recorded |-> 0]]

(* What follows a disturbance of several orders is not looked at. *)
FewDisturbed == Cardinality(disturbed) <= MaxDisturbed

(* Nor are three orders of one user alone or of one side alone, which make *)
(* no trade, or a market order that comes first.                           *)
BothTrade ==
  /\ Len(asked) > 2 => Cardinality({t.user : t \in Range(asked)}) = 2
                       /\ Cardinality({t.side : t \in Range(asked)}) = 2
  /\ asked # << >> => Head(asked).kind = "Limit"
=============================================================================
