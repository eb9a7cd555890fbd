------------------------- MODULE PriceTimePriority -------------------------
(***************************************************************************)
(* What an order book promises, without its data structures: a set of open *)
(* orders, served strictly by price and then by time of arrival, and at    *)
(* most one taker at a time, which takes from the open orders until it is  *)
(* done.  OrderBook implements it.                                         *)
(***************************************************************************)
EXTENDS Integers

CONSTANTS OrderIds, Users, Prices, NoPrice, NoOrder

VARIABLES
  open,     \* the orders that wait for a counterparty
  taker     \* the order being matched, or NoOrder

Ticket == [id: OrderIds, user: Users, side: {"Buy", "Sell"},
           price: Prices \cup {NoPrice}, remaining: Nat, sequence: Nat]

(* o is served before p: a better price, or the same price and earlier. *)
Before(o, p) ==
  \/ IF o.side = "Buy" THEN o.price > p.price ELSE o.price < p.price
  \/ o.price = p.price /\ o.sequence < p.sequence

Accepts(t, price) ==
  \/ t.price = NoPrice
  \/ IF t.side = "Buy" THEN t.price >= price ELSE t.price <= price

Opposing(t) == {o \in open : o.side # t.side}

Init == open = {} /\ taker = NoOrder

(* A taker arrives after everything that is open. *)
Arrive ==
  /\ taker = NoOrder
  /\ \E t \in {taker'} :
       /\ t \in Ticket
       /\ t.remaining > 0
       /\ \A o \in open : o.id # t.id /\ o.sequence < t.sequence
  /\ open' = open

(* The taker trades with the first of the opposing orders, which must be   *)
(* another user's, until one of the two is filled.                         *)
Trade ==
  /\ taker # NoOrder
  /\ \E o \in Opposing(taker) :
       /\ \A p \in Opposing(taker) : p = o \/ Before(o, p)
       /\ Accepts(taker, o.price)
       /\ o.user # taker.user
       /\ \E q \in {o.remaining, taker.remaining} :
            /\ q > 0 /\ q <= o.remaining /\ q <= taker.remaining
            /\ taker' = [taker EXCEPT !.remaining = @ - q]
            /\ open' = (open \ {o}) \cup
                 (IF q = o.remaining THEN {}
                  ELSE {[o EXCEPT !.remaining = @ - q]})

(* What is left of the taker waits at its own price, once no opposing      *)
(* order is acceptable.                                                    *)
Rest ==
  /\ taker # NoOrder
  /\ taker.remaining > 0
  /\ taker.price # NoPrice
  /\ \A o \in Opposing(taker) : ~Accepts(taker, o.price)
  /\ open' = open \cup {taker}
  /\ taker' = NoOrder

(* The taker leaves: it is filled, its first opposing order is its own     *)
(* user's, or it may not wait.                                             *)
Leave ==
  /\ taker # NoOrder
  /\ \/ taker.remaining = 0
     \/ \A o \in Opposing(taker) : ~Accepts(taker, o.price)
     \/ \E o \in Opposing(taker) :
          /\ \A p \in Opposing(taker) : p = o \/ Before(o, p)
          /\ Accepts(taker, o.price) /\ o.user = taker.user
  /\ taker' = NoOrder
  /\ open' = open

(* An open order is withdrawn, between takers. *)
Withdraw ==
  /\ taker = NoOrder
  /\ \E o \in open : open' = open \ {o}
  /\ taker' = taker

Next == Arrive \/ Trade \/ Rest \/ Leave \/ Withdraw

Spec == Init /\ [][Next]_<<open, taker>>
=============================================================================
