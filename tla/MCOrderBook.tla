---------------------------- MODULE MCOrderBook ----------------------------
(* Instances of OrderBook for TLC. *)
EXTENDS OrderBook, TLC

(* Orders and users are interchangeable. *)
Symmetry == Permutations(OrderIds) \cup Permutations(Users)

(* Bounds of book_stops: nothing is cancelled, and at most two stop orders *)
(* wait, for one unit each.                                                *)
FewStops ==
  /\ \A id \in DOMAIN status : status[id].state # "Cancelled"
  /\ Len(stopOrders) <= 2
  /\ \A i \in DOMAIN stopOrders : stopOrders[i].original = 1
=============================================================================
