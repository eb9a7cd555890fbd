-------------------------- MODULE OrderBookProofs --------------------------
(***************************************************************************)
(* OrderBook for every number of orders, users, prices and quantities: its *)
(* types, that the book is never crossed, that index, status log, stop     *)
(* lists and totals agree with the queues, that closed orders stay closed, *)
(* that fills are what was traded and no stop order is passed over, and    *)
(* that the whole serves orders by price and time of arrival.  The engine  *)
(* that shares the book among threads and restores it from files keeps it  *)
(* so.                                                                     *)
(***************************************************************************)
EXTENDS MatchingEngine, FoldProofs, SequenceTheorems, TLAPS, WellFoundedInduction, NaturalsInduction

-----------------------------------------------------------------------------
(* Numbers *)

(* The lesser of two quantities is one of them. *)
LEMMA MinOfTwo ==
  ASSUME NEW a \in Nat, NEW b \in Nat
  PROVE  /\ Min({a, b}) \in {a, b}
         /\ Min({a, b}) <= a
         /\ Min({a, b}) <= b
<1>1. \E x \in {a, b} : \A y \in {a, b} : x <= y
  <2>1. CASE a <= b BY <2>1
  <2>2. CASE ~(a <= b) BY <2>2
  <2> QED BY <2>1, <2>2
<1>2. Min({a, b}) \in {a, b} /\ \A y \in {a, b} : Min({a, b}) <= y
  BY <1>1 DEF Min
<1> QED BY <1>2

(* A set of naturals with an element has a least one. *)
LEMMA LeastNatural ==
  ASSUME NEW D \in SUBSET Nat, D # {}
  PROVE  \E m \in D : \A n \in D : m <= n
<1>1. IsWellFoundedOn(OpToRel(<, Nat), Nat)
  BY NatLessThanWellFounded
<1>2. PICK m \in D : \A n \in D : <<n, m>> \notin OpToRel(<, Nat)
  BY <1>1, WFMin
<1>3. \A n \in D : ~(n < m)
  BY <1>2 DEF OpToRel
<1> QED BY <1>3

(* A set of naturals with an element and an upper bound has a greatest one. *)
LEMMA GreatestNatural ==
  ASSUME NEW D \in SUBSET Nat, D # {}, NEW top \in Nat, \A n \in D : n <= top
  PROVE  \E m \in D : \A n \in D : m >= n
<1> DEFINE Gaps == {k \in Nat : top - k \in D}
<1>1. Gaps # {}
  <2>1. PICK n \in D : TRUE OBVIOUS
  <2>2. top - n \in Nat /\ top - (top - n) = n BY <2>1
  <2> QED BY <2>1, <2>2
<1>2. PICK g \in Gaps : \A k \in Gaps : g <= k
  BY <1>1, LeastNatural
<1>3. \A n \in D : top - n \in Gaps
  <2> TAKE n \in D
  <2>1. top - n \in Nat /\ top - (top - n) = n OBVIOUS
  <2> QED BY <2>1
<1>4. \A n \in D : top - g >= n
  <2> TAKE n \in D
  <2>1. g <= top - n BY <1>2, <1>3
  <2> QED BY <2>1
<1> QED BY <1>4

-----------------------------------------------------------------------------
(* Maps *)

(* A map with one more key is a map. *)
LEMMA WithIsMap ==
  ASSUME NEW S, NEW T, NEW f, IsMap(f, S, T), NEW k \in S, NEW v \in T
  PROVE  /\ IsMap(With(f, k, v), S, T)
         /\ DOMAIN With(f, k, v) = DOMAIN f \cup {k}
BY DEF IsMap, With

(* A map without some of its keys is a map. *)
LEMMA WithoutIsMap ==
  ASSUME NEW S, NEW T, NEW f, IsMap(f, S, T), NEW K
  PROVE  /\ IsMap(Without(f, K), S, T)
         /\ DOMAIN Without(f, K) = DOMAIN f \ K
BY DEF IsMap, Without

(* Pruning the status log keeps it a log. *)
LEMMA PrunedIsMap ==
  ASSUME NEW S, NEW T, NEW log, IsMap(log, S, T), NEW index
  PROVE  IsMap(Pruned(log, index), S, T)
BY WithoutIsMap DEF Pruned

-----------------------------------------------------------------------------
(* The inductive invariant *)

(* Each level has an order, so that the match loop finds a head. *)
NoEmptyLevel ==
  \A side \in Sides : \A price \in DOMAIN levels[side] :
    levels[side][price].orders # << >>

(* The order in the match loop was admitted: it is no stop order any more, *)
(* and it names a price if its kind requires one.                          *)
TakerPriced ==
  incoming # NoOrder =>
    /\ incoming.kind \notin StopKinds
    /\ RequiresPrice(incoming.kind) => incoming.price # NoPrice

IInv == TypeOK /\ NoEmptyLevel /\ TakerPriced /\ NotCrossed

(* The types of the levels, apart from those of the other variables. *)
LevelsOK(l) ==
  /\ l = [side \in Sides |-> l[side]]
  /\ \A side \in Sides :
       /\ IsMap(l[side], Prices, Level)
       /\ \A price \in DOMAIN l[side] : l[side][price].orders # << >>

(* The invariant, read for one level of one side. *)
LEMMA LevelsFromInv ==
  ASSUME TypeOK, NoEmptyLevel
  PROVE  LevelsOK(levels)
BY DEF TypeOK, NoEmptyLevel, LevelsOK

(* Levels of which one is replaced by a sound queue, or removed, are sound. *)
LEMMA LevelsReplaced ==
  ASSUME LevelsOK(levels), NEW side \in Sides, NEW m, IsMap(m, Prices, Level),
         \A p \in DOMAIN m : m[p].orders # << >>
  PROVE  /\ LevelsOK([levels EXCEPT ![side] = m])
         /\ [levels EXCEPT ![side] = m][side] = m
         /\ \A other \in Sides \ {side} :
              [levels EXCEPT ![side] = m][other] = levels[other]
<1>1. levels = [s \in Sides |-> levels[s]]
  BY DEF LevelsOK
<1>2. [levels EXCEPT ![side] = m] = [s \in Sides |-> IF s = side THEN m ELSE levels[s]]
  BY <1>1
<1> DEFINE new == [levels EXCEPT ![side] = m]
<1> HIDE DEF new
<1>3. new[side] = m /\ \A s \in Sides \ {side} : new[s] = levels[s]
  BY <1>2 DEF new
<1>4. new = [s \in Sides |-> new[s]]
  BY <1>2 DEF new
<1>5. \A s \in Sides : /\ IsMap(new[s], Prices, Level)
                       /\ \A p \in DOMAIN new[s] : new[s][p].orders # << >>
  <2> TAKE s \in Sides
  <2>1. CASE s = side BY <1>3, <2>1
  <2>2. CASE s # side BY <1>3, <2>2 DEF LevelsOK
  <2> QED BY <2>1, <2>2
<1> QED BY <1>3, <1>4, <1>5 DEF LevelsOK, new

(* A level with a new queue: the side's prices change by that one only. *)
LEMMA RequeuedOK ==
  ASSUME LevelsOK(levels), NEW side \in Sides, NEW price \in Prices,
         NEW orders \in Seq(Order), NEW total \in Int
  PROVE  /\ LevelsOK(Requeued(side, price, orders, total))
         /\ DOMAIN Requeued(side, price, orders, total)[side]
              \subseteq DOMAIN levels[side] \cup {price}
         /\ \A other \in Sides \ {side} :
              Requeued(side, price, orders, total)[other] = levels[other]
<1> DEFINE level == [orders |-> orders, total |-> total]
<1>1. level \in Level /\ level.orders = orders
  BY DEF Level
<1>2. IsMap(levels[side], Prices, Level)
  BY DEF LevelsOK
<1>3. CASE orders = << >>
  <2> DEFINE m == Without(levels[side], {price})
  <2>1. IsMap(m, Prices, Level) /\ DOMAIN m = DOMAIN levels[side] \ {price}
    BY <1>2 DEF IsMap, Without
  <2>2. \A p \in DOMAIN m : m[p].orders # << >>
    <3>1. \A p \in DOMAIN m : p \in DOMAIN levels[side] /\ m[p] = levels[side][p]
      BY DEF Without
    <3> HIDE DEF m
    <3> QED BY <3>1 DEF LevelsOK
  <2>3. Requeued(side, price, orders, total) = [levels EXCEPT ![side] = m]
    BY <1>3 DEF Requeued
  <2> HIDE DEF m
  <2>4. /\ LevelsOK([levels EXCEPT ![side] = m])
        /\ [levels EXCEPT ![side] = m][side] = m
        /\ \A other \in Sides \ {side} :
             [levels EXCEPT ![side] = m][other] = levels[other]
    BY <2>1, <2>2, LevelsReplaced
  <2> QED BY <2>1, <2>3, <2>4
<1>4. CASE orders # << >>
  <2> DEFINE m == With(levels[side], price, level)
  <2> HIDE DEF level
  <2>1. IsMap(m, Prices, Level) /\ DOMAIN m = DOMAIN levels[side] \cup {price}
    BY <1>1, <1>2 DEF IsMap, With
  <2>2. \A p \in DOMAIN m : m[p].orders # << >>
    <3>1. \A p \in DOMAIN m : \/ m[p] = level
                              \/ p \in DOMAIN levels[side] /\ m[p] = levels[side][p]
      BY DEF With
    <3> HIDE DEF m
    <3> QED BY <1>1, <1>4, <3>1 DEF LevelsOK
  <2>3. Requeued(side, price, orders, total) = [levels EXCEPT ![side] = m]
    BY <1>4 DEF Requeued, level
  <2> HIDE DEF m
  <2>4. /\ LevelsOK([levels EXCEPT ![side] = m])
        /\ [levels EXCEPT ![side] = m][side] = m
        /\ \A other \in Sides \ {side} :
             [levels EXCEPT ![side] = m][other] = levels[other]
    BY <2>1, <2>2, LevelsReplaced
  <2> QED BY <2>1, <2>3, <2>4
<1> QED BY <1>3, <1>4

(* If the best price of a side does not cross, no price of it does. *)
LEMMA BestCrossesFirst ==
  ASSUME TypeOK, NEW side \in Sides, NEW order \in Order,
         order.side = Opposite(side),
         ~WouldCross(order)
  PROVE  \A price \in DOMAIN levels[side] : ~Crosses(order, price)
<1>1. DOMAIN levels[side] \in SUBSET Prices
  BY DEF TypeOK, IsMap
<1>2. side = Opposite(order.side) /\ side \in {"Buy", "Sell"}
  BY DEF Opposite, Sides
<1>3. \A price \in BestPrices(side) : ~Crosses(order, price)
  BY <1>2 DEF WouldCross
<1>4. Prices \in SUBSET Nat
  BY PricesAssumption
<1> SUFFICES ASSUME NEW price \in DOMAIN levels[side] PROVE ~Crosses(order, price)
  OBVIOUS
<1>5. PICK best \in DOMAIN levels[side] :
        \A q \in DOMAIN levels[side] : IF side = "Sell" THEN best <= q ELSE best >= q
  <2>1. CASE side = "Sell"
    BY <2>1, <1>1, <1>4, LeastNatural
  <2>2. CASE side # "Sell"
    <3>1. PICK top \in Nat : \A q \in DOMAIN levels[side] : q <= top
      BY <1>1, PricesAssumption
    <3>2. DOMAIN levels[side] \in SUBSET Nat /\ DOMAIN levels[side] # {}
      BY <1>1, <1>4
    <3>3. \E m \in DOMAIN levels[side] : \A n \in DOMAIN levels[side] : m >= n
      BY <3>1, <3>2, GreatestNatural
    <3> QED BY <2>2, <3>3
  <2> QED BY <2>1, <2>2
<1>6. best \in BestPrices(side)
  BY <1>5 DEF BestPrices
<1>7. ~Crosses(order, best)
  BY <1>3, <1>6
<1>8. best \in Nat /\ price \in Nat
  BY <1>1, <1>4
<1>9. order.price # NoPrice => order.price \in Nat
  BY <1>4 DEF Order
<1> QED BY <1>2, <1>5, <1>7, <1>8, <1>9 DEF Crosses, Opposite

-----------------------------------------------------------------------------
(* Init and the steps of Next *)

(* The empty book satisfies the invariant. *)
LEMMA InitIInv == Init => IInv
<1> SUFFICES ASSUME Init PROVE IInv
  OBVIOUS
<1>1. LevelsOK(levels)
  BY DEF Init, LevelsOK, IsMap
<1>2. IsMap(orderIndex, OrderIds, Sides \X Prices)
      /\ IsMap(status, OrderIds, [state: States, filled: Int])
  BY DEF Init, IsMap
<1>3. TypeOK
  BY <1>1, <1>2, SentinelsAssumption DEF Init, TypeOK, LevelsOK
<1>4. NoEmptyLevel /\ TakerPriced /\ NotCrossed
  BY <1>1 DEF Init, NoEmptyLevel, TakerPriced, NotCrossed, Sides, LevelsOK
<1> QED BY <1>3, <1>4 DEF IInv

(* What clients ask for are orders. *)
LEMMA RequestsAreOrders ==
  Requests \subseteq Order
<1> SUFFICES ASSUME NEW r \in Requests PROVE r \in Order
  OBVIOUS
<1>1. r \in [id: OrderIds, user: Users, side: Sides, kind: SubmittedKinds,
            price: Prices \cup {NoPrice}, stop: Prices \cup {NoPrice},
            original: Quantities, remaining: Quantities, sequence: {0}]
  BY DEF Requests
<1>2. /\ r.kind \in Kinds
      /\ r.original \in Nat /\ r.remaining \in Nat /\ r.sequence \in Nat
  <2>1. /\ r.kind \in SubmittedKinds
        /\ r.original \in Quantities /\ r.remaining \in Quantities /\ r.sequence = 0
    BY <1>1
  <2>2. r.kind \in Kinds
    BY <2>1, KindsAssumption
  <2>3. r.original \in Nat /\ r.remaining \in Nat
    BY <2>1, QuantitiesAssumption
  <2>4. r.sequence \in Nat
    BY <2>1
  <2> QED BY <2>2, <2>3, <2>4
<1>3. r = [id |-> r.id, user |-> r.user, side |-> r.side, kind |-> r.kind,
           price |-> r.price, stop |-> r.stop, original |-> r.original,
           remaining |-> r.remaining, sequence |-> r.sequence]
  BY <1>1
<1>4. /\ r.id \in OrderIds /\ r.user \in Users /\ r.side \in Sides
      /\ r.price \in Prices \cup {NoPrice} /\ r.stop \in Prices \cup {NoPrice}
  BY <1>1
<1> QED BY <1>2, <1>3, <1>4 DEF Order

(* An order enters: it is refused, joins the stop orders, expires, or      *)
(* becomes the taker.  The levels and the index stay as they are.          *)
LEMMA AdmitOK ==
  ASSUME IInv, phase # "matching", NEW order \in Order, Admit(order)
  PROVE  /\ UNCHANGED <<levels, orderIndex, auditLog>>
         /\ stopOrders' \in Seq(Order)
         /\ IsMap(status', OrderIds, [state: States, filled: Int])
         /\ nextSequence' \in Nat
         /\ phase' \in {"matching", "triggering"}
         /\ incoming' \in Order \cup {NoOrder}
         /\ phase' = "matching" <=> incoming' # NoOrder
         /\ report' \in Report \cup {NoReport}
         /\ TakerPriced'
<1>1. TypeOK /\ TakerPriced /\ incoming = NoOrder
  BY DEF IInv, TypeOK
<1>2. order.id \in OrderIds /\ nextSequence \in Nat
  BY <1>1 DEF Order, TypeOK
<1>3. [order EXCEPT !.sequence = nextSequence + 1] \in Order
  BY <1>2 DEF Order
<1>4. CASE AcceptStop(order)
  <2>1. phase' = "triggering" /\ report' \in Report \cup {NoReport}
    <3>1. Respond(order.id, TRUE, "PendingStop", << >>)
      BY <1>4 DEF AcceptStop
    <3>2. report \in Report \cup {NoReport}
      BY <1>1 DEF TypeOK
    <3> QED BY <3>1, <3>2, <1>2 DEF Respond, Report, States
  <2>2. IsMap(status', OrderIds, [state: States, filled: Int])
    <3>1. Entry("PendingStop", 0) \in [state: States, filled: Int]
      BY DEF Entry, States
    <3>2. IsMap(With(status, order.id, Entry("PendingStop", 0)), OrderIds,
                [state: States, filled: Int])
      BY <1>1, <1>2, <3>1, WithIsMap DEF TypeOK
    <3> QED BY <1>4, <3>2, PrunedIsMap DEF AcceptStop
  <2> QED BY <1>1, <1>2, <1>3, <1>4, <2>1, <2>2
          DEF AcceptStop, TypeOK, TakerPriced
<1>5. CASE ExpireUnfillable(order)
  <2>1. phase' = "triggering" /\ report' \in Report \cup {NoReport}
    <3>1. Respond(order.id, TRUE, "Expired", << >>)
      BY <1>5 DEF ExpireUnfillable
    <3>2. report \in Report \cup {NoReport}
      BY <1>1 DEF TypeOK
    <3> QED BY <3>1, <3>2, <1>2 DEF Respond, Report, States
  <2> QED BY <1>1, <1>5, <2>1 DEF ExpireUnfillable, TypeOK, TakerPriced, book
<1>6. CASE StartMatching(order)
  <2>1. incoming' \in Order /\ incoming'.kind = order.kind
        /\ incoming'.price = order.price
    BY <1>3, <1>6 DEF StartMatching, Order
  <2>2. ~Malformed(order)
    BY DEF Admit, Refused
  <2>3. /\ UNCHANGED <<levels, stopOrders, orderIndex, status, auditLog, report>>
        /\ nextSequence' = nextSequence + 1
        /\ phase' = "matching"
        /\ order.kind \notin StopKinds
    BY <1>6 DEF StartMatching
  <2>4. TakerPriced'
    BY <2>1, <2>2, <2>3 DEF TakerPriced, Malformed
  <2>5. incoming' # NoOrder
    BY <2>1, SentinelsAssumption
  <2> QED BY <1>1, <1>2, <2>1, <2>3, <2>4, <2>5 DEF TypeOK
<1> QED BY <1>4, <1>5, <1>6 DEF Admit

(* The types of everything but the levels and the taker. *)
LEMMA TypeFromParts ==
  ASSUME LevelsOK(levels)',
         (stopOrders \in Seq(Order))',
         IsMap(orderIndex, OrderIds, Sides \X Prices)',
         IsMap(status, OrderIds, [state: States, filled: Int])',
         (auditLog \in Seq(Fill))', (nextSequence \in Nat)',
         (phase \in {"idle", "matching", "triggering"})',
         (incoming \in Order \cup {NoOrder})', (fills \in Seq(Fill))',
         (report \in Report \cup {NoReport})', (triggerPrices \in Seq(Prices))',
         (lastPrice \in Prices \cup {NoPrice})', (drained \in Seq(Order))',
         (ready \in Seq(Order))', (tradeCount \in Nat)',
         (phase = "matching" <=> incoming # NoOrder)'
  PROVE  TypeOK' /\ NoEmptyLevel'
BY DEF TypeOK, LevelsOK, NoEmptyLevel

(* A side whose prices are among the old ones, or are one new price that   *)
(* crosses nothing, leaves the book uncrossed.                             *)
LEMMA FewerPricesNotCrossed ==
  ASSUME NotCrossed,
         \A side \in Sides : DOMAIN levels'[side] \subseteq DOMAIN levels[side]
  PROVE  NotCrossed'
BY DEF NotCrossed, Sides

(* A fill takes from the front of a queue and removes an empty level. *)
LEMMA FillBestOK ==
  ASSUME IInv, FillBest
  PROVE  IInv'
<1> DEFINE side == Opposite(incoming.side)
<1>1. PICK price \in BestPrices(side) :
        LET level    == levels[side][price]
            resting  == Head(level.orders)
            quantity == Min({incoming.remaining, resting.remaining})
            left     == resting.remaining - quantity
            fill     == [maker |-> resting.id, taker |-> incoming.id,
                         makerUser |-> resting.user, takerUser |-> incoming.user,
                         price |-> price, quantity |-> quantity]
        IN /\ incoming' = [incoming EXCEPT !.remaining = @ - quantity]
           /\ levels' = Requeued(side, price,
                          IF left = 0 THEN Tail(level.orders)
                          ELSE [level.orders EXCEPT ![1].remaining = left],
                          level.total - quantity)
           /\ fills' = Append(fills, fill)
           /\ auditLog' = Append(auditLog, fill)
           /\ orderIndex' = IF left = 0 THEN Without(orderIndex, {resting.id})
                            ELSE orderIndex
           /\ status' = IF left = 0
                        THEN With(status, resting.id,
                                  Entry("Filled", resting.original))
                        ELSE Pruned(With(status, resting.id,
                               Entry("PartiallyFilled", resting.original - left)),
                               orderIndex')
  BY DEF FillBest
<1> DEFINE level    == levels[side][price]
           resting  == Head(level.orders)
           quantity == Min({incoming.remaining, resting.remaining})
           left     == resting.remaining - quantity
           queue    == IF left = 0 THEN Tail(level.orders)
                       ELSE [level.orders EXCEPT ![1].remaining = left]
           fill     == [maker |-> resting.id, taker |-> incoming.id,
                        makerUser |-> resting.user, takerUser |-> incoming.user,
                        price |-> price, quantity |-> quantity]
<1>2. TypeOK /\ NoEmptyLevel /\ TakerPriced /\ NotCrossed /\ LevelsOK(levels)
  BY LevelsFromInv DEF IInv
<1>3. phase = "matching" /\ incoming \in Order
  BY <1>2 DEF FillBest, TypeOK
<1>4. side \in Sides /\ price \in DOMAIN levels[side]
  BY DEF Opposite, Sides, BestPrices
<1>5. /\ price \in Prices /\ level \in Level /\ level.orders # << >>
  BY <1>2, <1>4 DEF TypeOK, NoEmptyLevel, IsMap
<1>6. level.orders \in Seq(Order) /\ level.total \in Int
  BY <1>5 DEF Level
<1>7. resting \in Order
  BY <1>5, <1>6
<1>8. /\ incoming.remaining \in Nat /\ resting.remaining \in Nat
      /\ resting.original \in Nat
  BY <1>3, <1>7 DEF Order
<1>9. quantity \in Nat /\ quantity <= incoming.remaining
      /\ quantity <= resting.remaining
  BY <1>8, MinOfTwo
<1>10. left \in Nat /\ incoming.remaining - quantity \in Nat
       /\ level.total - quantity \in Int
  <2> HIDE DEF quantity, resting, level
  <2> QED BY <1>6, <1>8, <1>9
<1>11. queue \in Seq(Order)
  <2>1. Tail(level.orders) \in Seq(Order)
    BY <1>5, <1>6
  <2>2. [resting EXCEPT !.remaining = left] \in Order
    BY <1>7, <1>10 DEF Order
  <2>3. [level.orders EXCEPT ![1].remaining = left] \in Seq(Order)
    <3>1. [level.orders EXCEPT ![1].remaining = left]
            = [level.orders EXCEPT ![1] = [resting EXCEPT !.remaining = left]]
      BY <1>5, <1>6
    <3> QED BY <1>5, <1>6, <2>2, <3>1
  <2> QED BY <2>1, <2>3
<1>12. fill \in Fill
  BY <1>3, <1>5, <1>7, <1>9 DEF Fill, Order
<1>13. /\ LevelsOK(levels')
       /\ \A s \in Sides : DOMAIN levels'[s] \subseteq DOMAIN levels[s]
  <2>1. levels' = Requeued(side, price, queue, level.total - quantity)
    BY <1>1
  <2> HIDE DEF queue, quantity, level, side
  <2>2. /\ LevelsOK(Requeued(side, price, queue, level.total - quantity))
        /\ DOMAIN Requeued(side, price, queue, level.total - quantity)[side]
             \subseteq DOMAIN levels[side] \cup {price}
        /\ \A other \in Sides \ {side} :
             Requeued(side, price, queue, level.total - quantity)[other]
               = levels[other]
    BY <1>2, <1>4, <1>5, <1>10, <1>11, RequeuedOK
  <2>3. /\ LevelsOK(levels')
        /\ DOMAIN levels'[side] \subseteq DOMAIN levels[side] \cup {price}
        /\ \A other \in Sides \ {side} : levels'[other] = levels[other]
    BY <2>1, <2>2
  <2> QED BY <1>4, <2>3
<1>14. IsMap(orderIndex', OrderIds, Sides \X Prices)
  <2>1. IsMap(orderIndex, OrderIds, Sides \X Prices)
    BY <1>2 DEF TypeOK
  <2>2. IsMap(Without(orderIndex, {resting.id}), OrderIds, Sides \X Prices)
    BY <2>1, WithoutIsMap
  <2> QED BY <1>1, <2>1, <2>2
<1>15. IsMap(status', OrderIds, [state: States, filled: Int])
  <2> DEFINE T == [state: States, filled: Int]
             filled == Entry("Filled", resting.original)
             partly == Entry("PartiallyFilled", resting.original - left)
  <2>1. IsMap(status, OrderIds, T) /\ resting.id \in OrderIds
    BY <1>2, <1>7 DEF TypeOK, Order
  <2>2. filled \in T /\ partly \in T
    BY <1>8, <1>10 DEF Entry, States
  <2>3. status' = IF left = 0 THEN With(status, resting.id, filled)
                  ELSE Pruned(With(status, resting.id, partly), orderIndex')
    BY <1>1
  <2> HIDE DEF T, filled, partly, resting, left
  <2>4. IsMap(With(status, resting.id, filled), OrderIds, T)
        /\ IsMap(With(status, resting.id, partly), OrderIds, T)
    BY <2>1, <2>2, WithIsMap
  <2>5. IsMap(Pruned(With(status, resting.id, partly), orderIndex'), OrderIds, T)
    BY <2>4, PrunedIsMap
  <2>6. IsMap(status', OrderIds, T)
    BY <2>3, <2>4, <2>5
  <2> QED BY <2>6 DEF T
<1>16. incoming' \in Order /\ incoming'.kind = incoming.kind
       /\ incoming'.price = incoming.price
  BY <1>1, <1>3, <1>10 DEF Order
<1>17. fills' \in Seq(Fill) /\ auditLog' \in Seq(Fill)
  <2>1. fills' = Append(fills, fill) /\ auditLog' = Append(auditLog, fill)
    BY <1>1
  <2> HIDE DEF fill
  <2> QED BY <1>2, <1>12, <2>1 DEF TypeOK
<1>18. UNCHANGED <<stopOrders, nextSequence, phase, report, cascade>>
  BY DEF FillBest
<1>19. TypeOK' /\ NoEmptyLevel'
  BY <1>2, <1>3, <1>13, <1>14, <1>15, <1>16, <1>17, <1>18, TypeFromParts,
     SentinelsAssumption DEF TypeOK, cascade
<1>20. TakerPriced'
  BY <1>2, <1>3, <1>16, SentinelsAssumption DEF TakerPriced
<1>21. NotCrossed'
  BY <1>2, <1>13, FewerPricesNotCrossed
<1> QED BY <1>19, <1>20, <1>21 DEF IInv

(* The end of a submit leaves no taker, and well-typed locals. *)
LEMMA EndSubmitOK ==
  ASSUME TypeOK, incoming \in Order,
         NEW state \in States, NEW accepted \in BOOLEAN,
         EndSubmit(state, accepted)
  PROVE  /\ phase' = "triggering" /\ incoming' = NoOrder
         /\ fills' = << >>
         /\ report' \in Report \cup {NoReport}
         /\ triggerPrices' \in Seq(Prices)
         /\ tradeCount' \in Nat
<1>1. /\ fills \in Seq(Fill) /\ triggerPrices \in Seq(Prices)
      /\ tradeCount \in Nat /\ report \in Report \cup {NoReport}
  BY DEF TypeOK
<1>2. report' \in Report \cup {NoReport} /\ phase' = "triggering"
  <2>1. Respond(incoming.id, accepted, state, fills) /\ incoming.id \in OrderIds
    BY DEF EndSubmit, Order
  <2> QED BY <1>1, <2>1 DEF Respond, Report
<1>3. triggerPrices' \in Seq(Prices)
  <2> DEFINE prices == [i \in DOMAIN fills |-> fills[i].price]
  <2>1. \A i \in DOMAIN fills : fills[i] \in Fill
    BY <1>1
  <2>2. DOMAIN fills = 1 .. Len(fills) /\ Len(fills) \in Nat
    BY <1>1
  <2>3. prices \in Seq(Prices)
    BY <2>1, <2>2 DEF Fill
  <2>4. triggerPrices' = triggerPrices \o prices
    BY DEF EndSubmit
  <2> HIDE DEF prices
  <2> QED BY <1>1, <2>3, <2>4
<1>4. tradeCount' \in Nat
  BY <1>1 DEF EndSubmit
<1> QED BY <1>2, <1>3, <1>4 DEF EndSubmit

(* An entry for the taker keeps the status log a log. *)
LEMMA TakerEntryOK ==
  ASSUME TypeOK, incoming \in Order, NEW state \in States
  PROVE  IsMap(With(status, incoming.id, Entry(state, FilledQuantity(incoming))),
               OrderIds, [state: States, filled: Int])
<1>1. incoming.id \in OrderIds /\ incoming.original \in Nat
      /\ incoming.remaining \in Nat
  BY DEF Order
<1>2. Entry(state, FilledQuantity(incoming)) \in [state: States, filled: Int]
  BY <1>1 DEF Entry, FilledQuantity
<1>3. IsMap(status, OrderIds, [state: States, filled: Int])
  BY DEF TypeOK
<1> QED BY <1>1, <1>2, <1>3, WithIsMap

(* A submission that self-trade prevention stops leaves the levels alone. *)
LEMMA PreventSelfTradeOK ==
  ASSUME IInv, PreventSelfTrade
  PROVE  IInv'
<1> DEFINE state == IF fills = << >> THEN "Rejected" ELSE "PartiallyFilled"
<1>1. TypeOK /\ NoEmptyLevel /\ NotCrossed /\ LevelsOK(levels)
  BY LevelsFromInv DEF IInv
<1>2. incoming \in Order
  BY <1>1 DEF PreventSelfTrade, TypeOK
<1>3. /\ status' = With(status, incoming.id,
                        Entry(state, FilledQuantity(incoming)))
      /\ EndSubmit(state, fills # << >>)
  BY DEF PreventSelfTrade
<1>4. state \in States
  BY DEF States
<1> HIDE DEF state
<1>5. /\ phase' = "triggering" /\ incoming' = NoOrder /\ fills' = << >>
      /\ report' \in Report \cup {NoReport}
      /\ triggerPrices' \in Seq(Prices) /\ tradeCount' \in Nat
  BY <1>1, <1>2, <1>3, <1>4, EndSubmitOK
<1>6. IsMap(status', OrderIds, [state: States, filled: Int])
  BY <1>1, <1>2, <1>3, <1>4, TakerEntryOK
<1>7. UNCHANGED <<levels, stopOrders, orderIndex, auditLog, nextSequence,
                  lastPrice, drained, ready>>
  BY DEF PreventSelfTrade
<1>8. TypeOK' /\ NoEmptyLevel'
  BY <1>1, <1>5, <1>6, <1>7, TypeFromParts DEF TypeOK
<1>9. TakerPriced' /\ NotCrossed'
  BY <1>1, <1>5, <1>7 DEF TakerPriced, NotCrossed
<1> QED BY <1>8, <1>9 DEF IInv

(* What is left of an order joins its side at a price that reaches none of *)
(* the opposite side's.                                                    *)
LEMMA RestedNotCrossed ==
  ASSUME IInv, incoming \in Order, Rests(incoming), ~WouldCross(incoming),
         \A side \in Sides \ {incoming.side} : levels'[side] = levels[side],
         DOMAIN levels'[incoming.side]
           \subseteq DOMAIN levels[incoming.side] \cup {incoming.price}
  PROVE  incoming.price \in Prices /\ NotCrossed'
<1> DEFINE other == Opposite(incoming.side)
<1>1. TypeOK /\ TakerPriced /\ NotCrossed
  BY DEF IInv
<1>2. /\ incoming.side \in Sides /\ incoming.kind \in Kinds
      /\ incoming.price \in Prices \cup {NoPrice}
  BY DEF Order
<1>3. incoming.kind \in {"Limit", "PostOnly"}
  BY <1>1, <1>2, SentinelsAssumption
     DEF TakerPriced, Rests, Kinds, StopKinds
<1>4. incoming.price \in Prices
  BY <1>1, <1>2, <1>3, SentinelsAssumption DEF TakerPriced, RequiresPrice
<1>5. other \in Sides /\ incoming.side = Opposite(other) /\ other # incoming.side
  BY <1>2 DEF Opposite, Sides
<1>6. \A price \in DOMAIN levels[other] : ~Crosses(incoming, price)
  BY <1>1, <1>5, BestCrossesFirst
<1>7. DOMAIN levels[other] \subseteq Prices
  BY <1>1, <1>5 DEF TypeOK, IsMap
<1>8. \A price \in DOMAIN levels[other] :
        IF incoming.side = "Buy" THEN incoming.price < price
                                 ELSE price < incoming.price
  <2> TAKE price \in DOMAIN levels[other]
  <2>1. price \in Nat /\ incoming.price \in Nat /\ incoming.price # NoPrice
    BY <1>4, <1>7, PricesAssumption, NoPriceAssumption
  <2>2. ~Crosses(incoming, price)
    BY <1>6
  <2> QED BY <2>1, <2>2 DEF Crosses
<1>9. levels'[other] = levels[other]
  BY <1>5
<1>10. CASE incoming.side = "Buy"
  <2>1. other = "Sell"
    BY <1>10 DEF Opposite
  <2> HIDE DEF other
  <2>2. \A bid \in DOMAIN levels'["Buy"] :
          bid \in DOMAIN levels["Buy"] \/ bid = incoming.price
    BY <1>10
  <2>3. \A bid \in DOMAIN levels["Buy"], ask \in DOMAIN levels'["Sell"] : bid < ask
    BY <1>1, <1>9, <2>1 DEF NotCrossed
  <2>4. \A ask \in DOMAIN levels'["Sell"] : incoming.price < ask
    BY <1>8, <1>9, <1>10, <2>1
  <2> QED BY <1>4, <2>2, <2>3, <2>4 DEF NotCrossed
<1>11. CASE incoming.side = "Sell"
  <2>1. other = "Buy"
    BY <1>11 DEF Opposite
  <2> HIDE DEF other
  <2>2. \A ask \in DOMAIN levels'["Sell"] :
          ask \in DOMAIN levels["Sell"] \/ ask = incoming.price
    BY <1>11
  <2>3. \A bid \in DOMAIN levels'["Buy"], ask \in DOMAIN levels["Sell"] : bid < ask
    BY <1>1, <1>9, <2>1 DEF NotCrossed
  <2>4. \A bid \in DOMAIN levels'["Buy"] : bid < incoming.price
    BY <1>8, <1>9, <1>11, <2>1
  <2> QED BY <1>4, <2>2, <2>3, <2>4 DEF NotCrossed
<1> QED BY <1>2, <1>4, <1>10, <1>11 DEF Sides

(* The audit log, cut or not, is a log of fills. *)
LEMMA PrunedAuditOK ==
  ASSUME NEW log \in Seq(Fill)
  PROVE  PrunedAudit(log) \in Seq(Fill)
<1>1. Len(log) \in Nat /\ MAX_AUDIT_LOG_FILLS \in Nat
  BY BoundsAssumption
<1>2. CASE Len(log) > MAX_AUDIT_LOG_FILLS
  <2> DEFINE first == Len(log) - MAX_AUDIT_LOG_FILLS + 1
  <2>1. first \in 1 .. Len(log) + 1
    BY <1>1, <1>2
  <2> HIDE DEF first
  <2>2. SubSeq(log, first, Len(log)) \in Seq(Fill)
    <3>1. \A i \in first .. Len(log) : log[i] \in Fill
      BY <2>1
    <3> QED BY <1>1, <2>1, <3>1
  <2> QED BY <1>2, <2>2 DEF PrunedAudit, first
<1>3. CASE ~(Len(log) > MAX_AUDIT_LOG_FILLS)
  BY <1>3 DEF PrunedAudit
<1> QED BY <1>2, <1>3

(* The level that an order joins, there already or new. *)
LEMMA QueueAtOK ==
  ASSUME LevelsOK(levels), NEW side \in Sides, NEW price \in Prices
  PROVE  /\ QueueAt(side, price).orders \in Seq(Order)
         /\ QueueAt(side, price).total \in Int
<1>1. IsMap(levels[side], Prices, Level)
  BY DEF LevelsOK
<1>2. CASE price \in DOMAIN levels[side]
  <2>1. levels[side][price] \in Level
    BY <1>1, <1>2 DEF IsMap
  <2>2. QueueAt(side, price) = levels[side][price]
    BY <1>2 DEF QueueAt
  <2> QED BY <2>1, <2>2 DEF Level
<1>3. CASE price \notin DOMAIN levels[side]
  <2>1. QueueAt(side, price) = [orders |-> << >>, total |-> 0]
    BY <1>3 DEF QueueAt
  <2> QED BY <2>1
<1> QED BY <1>2, <1>3

(* An order that rests crosses nothing on the other side. *)
LEMMA FinishOK ==
  ASSUME IInv, Finish
  PROVE  IInv'
<1> DEFINE state == FinalState(incoming)
           queue == QueueAt(incoming.side, incoming.price)
           entry == Entry(state, FilledQuantity(incoming))
<1>1. TypeOK /\ NoEmptyLevel /\ NotCrossed /\ TakerPriced /\ LevelsOK(levels)
  BY LevelsFromInv DEF IInv
<1>2. incoming \in Order
  BY <1>1 DEF Finish, TypeOK
<1>3. incoming.remaining \in Nat /\ incoming.side \in Sides
      /\ incoming.id \in OrderIds /\ incoming.kind \in Kinds
  BY <1>2 DEF Order
<1>4. state \in States
  <2>1. incoming.kind \in {"Market", "Ioc", "Fok"} \/ incoming.remaining = 0
        \/ Rests(incoming)
    BY <1>3 DEF Rests
  <2>2. incoming.remaining = 0 \/ incoming.remaining > 0
    BY <1>3
  <2> QED BY <2>1, <2>2 DEF FinalState, States, Rests
<1>5. /\ status' = Pruned(With(status, incoming.id, entry), orderIndex')
      /\ EndSubmit(state, TRUE)
      /\ auditLog' = PrunedAudit(auditLog)
      /\ UNCHANGED <<stopOrders, nextSequence, lastPrice, drained, ready>>
  BY DEF Finish
<1>6. IsMap(status', OrderIds, [state: States, filled: Int])
  <2> HIDE DEF state
  <2>1. IsMap(With(status, incoming.id, entry), OrderIds,
              [state: States, filled: Int])
    BY <1>1, <1>2, <1>4, TakerEntryOK
  <2> HIDE DEF entry
  <2> QED BY <1>5, <2>1, PrunedIsMap
<1>7. /\ phase' = "triggering" /\ incoming' = NoOrder /\ fills' = << >>
      /\ report' \in Report \cup {NoReport}
      /\ triggerPrices' \in Seq(Prices) /\ tradeCount' \in Nat
  <2> HIDE DEF state
  <2> QED BY <1>1, <1>2, <1>4, <1>5, EndSubmitOK
<1>8. auditLog' \in Seq(Fill)
  BY <1>1, <1>5, PrunedAuditOK DEF TypeOK
<1>9. /\ LevelsOK(levels')
      /\ IsMap(orderIndex', OrderIds, Sides \X Prices)
      /\ NotCrossed'
  <2>1. IsMap(orderIndex, OrderIds, Sides \X Prices)
    BY <1>1 DEF TypeOK
  <2>2. CASE ~Rests(incoming)
    <3>1. UNCHANGED <<levels, orderIndex>>
      BY <2>2 DEF Finish
    <3> QED BY <1>1, <2>1, <3>1 DEF NotCrossed
  <2>3. CASE Rests(incoming)
    <3> DEFINE orders == Append(queue.orders, incoming)
               total  == queue.total + incoming.remaining
               new    == Requeued(incoming.side, incoming.price, orders, total)
    <3>1. /\ levels' = new
          /\ orderIndex' = With(orderIndex, incoming.id,
                                <<incoming.side, incoming.price>>)
      BY <2>3 DEF Finish
    <3>2. incoming.remaining > 0 /\ ~WouldCross(incoming)
      BY <2>3 DEF Finish, Rests
    <3>3. incoming.price \in Prices
      <4>1. incoming.kind \in {"Limit", "PostOnly"}
        BY <1>1, <1>2, <1>3, <2>3, SentinelsAssumption
           DEF TakerPriced, Rests, Kinds, StopKinds
      <4>2. incoming.price \in Prices \cup {NoPrice}
        BY <1>2 DEF Order
      <4> QED BY <1>1, <1>2, <4>1, <4>2, SentinelsAssumption
              DEF TakerPriced, RequiresPrice
    <3>4. queue.orders \in Seq(Order) /\ queue.total \in Int
      BY <1>1, <1>3, <3>3, QueueAtOK
    <3>5. orders \in Seq(Order) /\ total \in Int
      <4> HIDE DEF queue
      <4> QED BY <1>2, <1>3, <3>4
    <3> HIDE DEF queue, orders, total
    <3>6. /\ LevelsOK(new)
          /\ DOMAIN new[incoming.side]
               \subseteq DOMAIN levels[incoming.side] \cup {incoming.price}
          /\ \A other \in Sides \ {incoming.side} : new[other] = levels[other]
      BY <1>1, <1>3, <3>3, <3>5, RequeuedOK
    <3> HIDE DEF new
    <3>7. NotCrossed'
      BY <1>2, <2>3, <3>1, <3>2, <3>6, RestedNotCrossed
    <3>8. IsMap(orderIndex', OrderIds, Sides \X Prices)
      BY <1>3, <2>1, <3>1, <3>3, WithIsMap
    <3> QED BY <3>1, <3>6, <3>7, <3>8
  <2> QED BY <2>2, <2>3
<1>10. TypeOK' /\ NoEmptyLevel'
  BY <1>1, <1>5, <1>6, <1>7, <1>8, <1>9, TypeFromParts DEF TypeOK
<1>11. TakerPriced'
  BY <1>7 DEF TakerPriced
<1> QED BY <1>9, <1>10, <1>11 DEF IInv

(* An admission touches no level. *)
LEMMA AdmittedOK ==
  ASSUME IInv, phase # "matching", NEW order \in Order, Admit(order),
         UNCHANGED <<fills, cascade>>
  PROVE  IInv'
<1>1. /\ UNCHANGED <<levels, orderIndex, auditLog>>
      /\ stopOrders' \in Seq(Order)
      /\ IsMap(status', OrderIds, [state: States, filled: Int])
      /\ nextSequence' \in Nat
      /\ phase' \in {"matching", "triggering"}
      /\ incoming' \in Order \cup {NoOrder}
      /\ phase' = "matching" <=> incoming' # NoOrder
      /\ report' \in Report \cup {NoReport}
      /\ TakerPriced'
  BY AdmitOK
<1>2. TypeOK /\ LevelsOK(levels) /\ NotCrossed
  BY LevelsFromInv DEF IInv
<1>3. TypeOK' /\ NoEmptyLevel'
  BY <1>1, <1>2, TypeFromParts DEF TypeOK, cascade
<1>4. NotCrossed'
  BY <1>1, <1>2 DEF NotCrossed
<1> QED BY <1>1, <1>3, <1>4 DEF IInv

LEMMA SubmitOrderOK ==
  ASSUME IInv, SubmitOrder
  PROVE  IInv'
<1>1. PICK order \in Requests : Admit(order)
  BY DEF SubmitOrder
<1>2. order \in Order
  BY RequestsAreOrders
<1>3. phase # "matching" /\ UNCHANGED <<fills, cascade>>
  BY DEF SubmitOrder
<1> QED BY <1>1, <1>2, <1>3, AdmittedOK

(* A refusal leaves the book alone, whatever order it refuses. *)
LEMMA RefuseOK ==
  ASSUME IInv, phase # "matching", NEW id \in OrderIds, Refuse(id)
  PROVE  /\ UNCHANGED <<book, incoming>>
         /\ phase' = "triggering" /\ incoming' = NoOrder
         /\ report' \in Report \cup {NoReport}
<1>1. TypeOK /\ incoming = NoOrder /\ report \in Report \cup {NoReport}
  BY DEF IInv, TypeOK
<1>2. << >> \in Seq(Fill) /\ "Rejected" \in States
  BY DEF States
<1>3. Respond(id, FALSE, "Rejected", << >>) /\ UNCHANGED <<book, incoming>>
  BY DEF Refuse
<1> QED BY <1>1, <1>2, <1>3 DEF Respond, Report

(* A refusal touches no level. *)
LEMMA RefusedOK ==
  ASSUME IInv, phase # "matching", NEW id \in OrderIds, Refuse(id),
         UNCHANGED <<fills, cascade>>
  PROVE  IInv'
<1>1. /\ UNCHANGED <<book, incoming>>
      /\ phase' = "triggering" /\ incoming' = NoOrder
      /\ report' \in Report \cup {NoReport}
  BY RefuseOK
<1>2. TypeOK /\ LevelsOK(levels) /\ NotCrossed
  BY LevelsFromInv DEF IInv
<1>3. TypeOK' /\ NoEmptyLevel'
  BY <1>1, <1>2, TypeFromParts DEF TypeOK, book, cascade
<1>4. TakerPriced' /\ NotCrossed'
  BY <1>1, <1>2 DEF TakerPriced, NotCrossed, book
<1> QED BY <1>3, <1>4 DEF IInv

LEMMA RefuseOrderOK ==
  ASSUME IInv, RefuseOrder
  PROVE  IInv'
<1>1. PICK order \in Requests : Refuse(order.id)
  BY DEF RefuseOrder
<1>2. order.id \in OrderIds
  BY RequestsAreOrders DEF Order
<1>3. phase # "matching" /\ UNCHANGED <<fills, cascade>>
  BY DEF RefuseOrder
<1> QED BY <1>1, <1>2, <1>3, RefusedOK

(* Popping a last price moves the stop orders to the drained ones. *)
LEMMA PopTriggerPriceOK ==
  ASSUME IInv, PopTriggerPrice
  PROVE  IInv'
<1>1. TypeOK /\ LevelsOK(levels) /\ NotCrossed /\ TakerPriced
  BY LevelsFromInv DEF IInv
<1>2. triggerPrices \in Seq(Prices) /\ triggerPrices # << >>
  BY <1>1 DEF TypeOK, PopTriggerPrice
<1>3. lastPrice' \in Prices /\ triggerPrices' \in Seq(Prices)
  <2>1. Len(triggerPrices) \in 1 .. Len(triggerPrices)
    BY <1>2
  <2>2. SubSeq(triggerPrices, 1, Len(triggerPrices) - 1) \in Seq(Prices)
    BY <1>2, <2>1
  <2> QED BY <1>2, <2>1, <2>2 DEF PopTriggerPrice
<1>4. drained' \in Seq(Order) /\ stopOrders' \in Seq(Order)
  BY <1>1 DEF TypeOK, PopTriggerPrice
<1>5. UNCHANGED <<levels, orderIndex, status, auditLog, nextSequence, phase,
                  incoming, fills, report, ready, tradeCount>>
  BY DEF PopTriggerPrice
<1>6. TypeOK' /\ NoEmptyLevel'
  BY <1>1, <1>3, <1>4, <1>5, TypeFromParts DEF TypeOK
<1>7. TakerPriced' /\ NotCrossed'
  BY <1>1, <1>5 DEF TakerPriced, NotCrossed
<1> QED BY <1>6, <1>7 DEF IInv

(* Each drained stop order is kept or made ready. *)
LEMMA DrainStopOK ==
  ASSUME IInv, DrainStop
  PROVE  IInv'
<1>1. TypeOK /\ LevelsOK(levels) /\ NotCrossed /\ TakerPriced
  BY LevelsFromInv DEF IInv
<1>2. /\ drained \in Seq(Order) /\ drained # << >>
      /\ ready \in Seq(Order) /\ stopOrders \in Seq(Order)
      /\ IsMap(status, OrderIds, [state: States, filled: Int])
  BY <1>1 DEF TypeOK, DrainStop
<1>3. Head(drained) \in Order /\ drained' \in Seq(Order)
  BY <1>2 DEF DrainStop
<1>4. /\ ready' \in Seq(Order) /\ stopOrders' \in Seq(Order)
      /\ IsMap(status', OrderIds, [state: States, filled: Int])
  <2>1. CASE Triggered(Head(drained), lastPrice)
    <3>1. /\ ready' = Append(ready, Head(drained))
          /\ status' = Without(status, {Head(drained).id})
          /\ stopOrders' = stopOrders
      BY <2>1 DEF DrainStop
    <3>2. IsMap(status', OrderIds, [state: States, filled: Int])
      BY <1>2, <3>1, WithoutIsMap
    <3>3. ready' \in Seq(Order) /\ stopOrders' \in Seq(Order)
      BY <1>2, <1>3, <3>1
    <3> QED BY <3>2, <3>3
  <2>2. CASE ~Triggered(Head(drained), lastPrice)
    <3>1. /\ stopOrders' = Append(stopOrders, Head(drained))
          /\ ready' = ready /\ status' = status
      BY <2>2 DEF DrainStop
    <3> QED BY <1>2, <1>3, <3>1
  <2> QED BY <2>1, <2>2
<1>5. UNCHANGED <<levels, orderIndex, auditLog, nextSequence, phase, incoming,
                  fills, report, triggerPrices, lastPrice, tradeCount>>
  BY DEF DrainStop
<1>6. TypeOK' /\ NoEmptyLevel'
  BY <1>1, <1>3, <1>4, <1>5, TypeFromParts DEF TypeOK
<1>7. TakerPriced' /\ NotCrossed'
  BY <1>1, <1>5 DEF TakerPriced, NotCrossed
<1> QED BY <1>6, <1>7 DEF IInv

(* A triggered stop order enters like any other. *)
LEMMA SubmitTriggeredOK ==
  ASSUME IInv, SubmitTriggered
  PROVE  IInv'
<1> DEFINE order == [Head(ready) EXCEPT
                       !.kind = IF @ = "StopMarket" THEN "Market" ELSE "Limit"]
<1>1. TypeOK /\ LevelsOK(levels) /\ NotCrossed /\ TakerPriced
  BY LevelsFromInv DEF IInv
<1>2. ready \in Seq(Order) /\ ready # << >> /\ phase # "matching"
  BY <1>1 DEF TypeOK, SubmitTriggered
<1>3. Head(ready) \in Order /\ Tail(ready) \in Seq(Order)
  BY <1>2
<1>4. order \in Order /\ order.id \in OrderIds
  BY <1>3 DEF Order, Kinds
<1>5. /\ IF Refused(order) THEN Refuse(order.id) ELSE Admit(order)
      /\ ready' = Tail(ready)
      /\ UNCHANGED <<fills, triggerPrices, lastPrice, drained, tradeCount>>
  BY DEF SubmitTriggered, Enter
<1> HIDE DEF order
<1>6. /\ UNCHANGED <<levels, orderIndex, auditLog>>
      /\ stopOrders' \in Seq(Order)
      /\ IsMap(status', OrderIds, [state: States, filled: Int])
      /\ nextSequence' \in Nat
      /\ phase' \in {"matching", "triggering"}
      /\ incoming' \in Order \cup {NoOrder}
      /\ phase' = "matching" <=> incoming' # NoOrder
      /\ report' \in Report \cup {NoReport}
      /\ TakerPriced'
  <2>1. CASE Refused(order)
    <3>1. Refuse(order.id)
      BY <1>5, <2>1
    <3>2. /\ UNCHANGED <<book, incoming>>
          /\ phase' = "triggering" /\ incoming' = NoOrder
          /\ report' \in Report \cup {NoReport}
      BY <1>2, <1>4, <3>1, RefuseOK
    <3>3. TakerPriced'
      BY <3>2 DEF TakerPriced
    <3>4. UNCHANGED <<levels, stopOrders, orderIndex, status, auditLog,
                      nextSequence>>
      BY <3>2 DEF book
    <3> QED BY <1>1, <3>2, <3>3, <3>4 DEF TypeOK
  <2>2. CASE ~Refused(order)
    <3>1. Admit(order)
      BY <1>5, <2>2
    <3> QED BY <1>2, <1>4, <3>1, AdmitOK
  <2> QED BY <2>1, <2>2
<1>7. TypeOK' /\ NoEmptyLevel'
  BY <1>1, <1>3, <1>5, <1>6, TypeFromParts DEF TypeOK
<1>8. NotCrossed'
  BY <1>1, <1>6 DEF NotCrossed
<1> QED BY <1>6, <1>7, <1>8 DEF IInv

(* The release of the mutex resets the locals. *)
LEMMA ReleaseOK ==
  ASSUME IInv, Release
  PROVE  IInv'
<1>1. TypeOK /\ LevelsOK(levels) /\ NotCrossed /\ TakerPriced
  BY LevelsFromInv DEF IInv
<1>2. /\ phase' = "idle" /\ incoming = NoOrder /\ report' = NoReport
      /\ lastPrice' = NoPrice /\ tradeCount' = 0
      /\ UNCHANGED <<book, incoming, fills, triggerPrices, drained, ready>>
  BY <1>1 DEF Release, TypeOK
<1>3. TypeOK' /\ NoEmptyLevel'
  BY <1>1, <1>2, TypeFromParts DEF TypeOK, book
<1>4. TakerPriced' /\ NotCrossed'
  BY <1>1, <1>2 DEF TakerPriced, NotCrossed, book
<1> QED BY <1>3, <1>4 DEF IInv

(* A queue without its i-th order. *)
LEMMA RemoveAtOK ==
  ASSUME NEW orders \in Seq(Order), NEW i \in DOMAIN orders
  PROVE  RemoveAt(orders, i) \in Seq(Order)
BY DEF RemoveAt

(* The status log after a cancellation, whichever order it closes. *)
LEMMA CancelledEntryOK ==
  ASSUME TypeOK, NEW order \in Order, NEW index
  PROVE  IsMap(Pruned(With(status, order.id,
                           Entry("Cancelled", FilledQuantity(order))), index),
               OrderIds, [state: States, filled: Int])
<1>1. Entry("Cancelled", FilledQuantity(order)) \in [state: States, filled: Int]
  BY DEF Entry, FilledQuantity, States, Order
<1>2. order.id \in OrderIds
  BY DEF Order
<1>3. IsMap(status, OrderIds, [state: States, filled: Int])
  BY DEF TypeOK
<1>4. IsMap(With(status, order.id, Entry("Cancelled", FilledQuantity(order))),
            OrderIds, [state: States, filled: Int])
  BY <1>1, <1>2, <1>3, WithIsMap
<1> QED BY <1>4, PrunedIsMap

(* A cancellation removes an order and, with the last one, its level. *)
LEMMA CancelRestingOK ==
  ASSUME IInv, CancelResting
  PROVE  IInv'
<1>1. TypeOK /\ LevelsOK(levels) /\ NotCrossed /\ TakerPriced
  BY LevelsFromInv DEF IInv
<1>2. PICK id \in DOMAIN orderIndex :
        LET side  == orderIndex[id][1]
            price == orderIndex[id][2]
            level == levels[side][price]
        IN /\ price \in DOMAIN levels[side]
           /\ \E i \in DOMAIN level.orders :
                LET order == level.orders[i]
                IN /\ levels' = Requeued(side, price, RemoveAt(level.orders, i),
                                         level.total - order.remaining)
                   /\ orderIndex' = Without(orderIndex, {id})
                   /\ status' = Pruned(With(status, id,
                                  Entry("Cancelled", FilledQuantity(order))),
                                  orderIndex')
                   /\ order.id = id
  BY DEF CancelResting, CancelAtLevel
<1> DEFINE side  == orderIndex[id][1]
           price == orderIndex[id][2]
           level == levels[side][price]
<1>3. PICK i \in DOMAIN level.orders :
        LET order == level.orders[i]
        IN /\ levels' = Requeued(side, price, RemoveAt(level.orders, i),
                                 level.total - order.remaining)
           /\ orderIndex' = Without(orderIndex, {id})
           /\ status' = Pruned(With(status, id,
                          Entry("Cancelled", FilledQuantity(order))),
                          orderIndex')
           /\ order.id = id
  BY <1>2
<1> DEFINE order == level.orders[i]
           rest  == RemoveAt(level.orders, i)
           total == level.total - order.remaining
<1>4. IsMap(orderIndex, OrderIds, Sides \X Prices)
  BY <1>1 DEF TypeOK
<1>5. side \in Sides /\ price \in DOMAIN levels[side]
  <2>1. orderIndex[id] \in Sides \X Prices
    BY <1>4 DEF IsMap
  <2> QED BY <1>2, <2>1
<1>6. price \in Prices /\ level \in Level
  <2> HIDE DEF side, price
  <2> QED BY <1>1, <1>5 DEF LevelsOK, IsMap
<1>7. level.orders \in Seq(Order) /\ level.total \in Int
  BY <1>6 DEF Level
<1>8. order \in Order /\ order.remaining \in Nat
  <2>1. order \in Order
    <3> HIDE DEF level
    <3> QED BY <1>7
  <2> HIDE DEF order
  <2> QED BY <2>1 DEF Order
<1>9. rest \in Seq(Order) /\ total \in Int
  <2>1. rest \in Seq(Order)
    BY <1>7, RemoveAtOK
  <2> HIDE DEF level, order
  <2> QED BY <1>7, <1>8, <2>1
<1>10. /\ levels' = Requeued(side, price, rest, total)
       /\ orderIndex' = Without(orderIndex, {id})
       /\ status' = Pruned(With(status, order.id,
                      Entry("Cancelled", FilledQuantity(order))), orderIndex')
  BY <1>3
<1> HIDE DEF side, price, level, order, rest, total
<1>11. /\ LevelsOK(levels')
       /\ \A s \in Sides : DOMAIN levels'[s] \subseteq DOMAIN levels[s]
  <2>1. /\ LevelsOK(Requeued(side, price, rest, total))
        /\ DOMAIN Requeued(side, price, rest, total)[side]
             \subseteq DOMAIN levels[side] \cup {price}
        /\ \A other \in Sides \ {side} :
             Requeued(side, price, rest, total)[other] = levels[other]
    BY <1>1, <1>5, <1>6, <1>9, RequeuedOK
  <2>2. /\ LevelsOK(levels')
        /\ DOMAIN levels'[side] \subseteq DOMAIN levels[side] \cup {price}
        /\ \A other \in Sides \ {side} : levels'[other] = levels[other]
    BY <1>10, <2>1
  <2> QED BY <1>5, <2>2
<1>12. IsMap(orderIndex', OrderIds, Sides \X Prices)
  BY <1>4, <1>10, WithoutIsMap
<1>13. IsMap(status', OrderIds, [state: States, filled: Int])
  BY <1>1, <1>8, <1>10, CancelledEntryOK
<1>14. UNCHANGED <<stopOrders, auditLog, nextSequence, phase, incoming, fills,
                   report, cascade>>
  BY DEF CancelResting, CancelAtLevel
<1>15. TypeOK' /\ NoEmptyLevel'
  BY <1>1, <1>11, <1>12, <1>13, <1>14, TypeFromParts DEF TypeOK, cascade
<1>16. TakerPriced'
  BY <1>1, <1>14 DEF TakerPriced
<1>17. NotCrossed'
  BY <1>1, <1>11, FewerPricesNotCrossed
<1> QED BY <1>15, <1>16, <1>17 DEF IInv

(* A cancelled stop order leaves the list. *)
LEMMA CancelStopOK ==
  ASSUME IInv, CancelStop
  PROVE  IInv'
<1>1. TypeOK /\ LevelsOK(levels) /\ NotCrossed /\ TakerPriced
  BY LevelsFromInv DEF IInv
<1>2. PICK i \in DOMAIN stopOrders :
        /\ stopOrders' = RemoveAt(stopOrders, i)
        /\ orderIndex' = orderIndex
        /\ status' = Pruned(With(status, stopOrders[i].id,
                       Entry("Cancelled", FilledQuantity(stopOrders[i]))),
                       orderIndex)
  BY DEF CancelStop, CancelStopAt
<1>3. stopOrders \in Seq(Order)
  BY <1>1 DEF TypeOK
<1>4. stopOrders[i] \in Order /\ stopOrders' \in Seq(Order)
  BY <1>2, <1>3, RemoveAtOK
<1>5. IsMap(status', OrderIds, [state: States, filled: Int])
  BY <1>1, <1>2, <1>4, CancelledEntryOK
<1>6. UNCHANGED <<levels, auditLog, nextSequence, phase, incoming, fills, report,
                  cascade>>
  BY <1>2 DEF CancelStop, CancelStopAt
<1>7. TypeOK' /\ NoEmptyLevel'
  BY <1>1, <1>2, <1>4, <1>5, <1>6, TypeFromParts DEF TypeOK, cascade
<1>8. TakerPriced' /\ NotCrossed'
  BY <1>1, <1>6 DEF TakerPriced, NotCrossed
<1> QED BY <1>7, <1>8 DEF IInv

-----------------------------------------------------------------------------
(* The theorems *)

(* Every step preserves the invariant. *)
LEMMA NextIInv == IInv /\ [Next]_vars => IInv'
<1> SUFFICES ASSUME IInv, [Next]_vars PROVE IInv'
  OBVIOUS
<1>1. CASE SubmitOrder     BY <1>1, SubmitOrderOK
<1>2. CASE RefuseOrder     BY <1>2, RefuseOrderOK
<1>3. CASE FillBest        BY <1>3, FillBestOK
<1>4. CASE PreventSelfTrade BY <1>4, PreventSelfTradeOK
<1>5. CASE Finish          BY <1>5, FinishOK
<1>6. CASE PopTriggerPrice BY <1>6, PopTriggerPriceOK
<1>7. CASE DrainStop       BY <1>7, DrainStopOK
<1>8. CASE SubmitTriggered BY <1>8, SubmitTriggeredOK
<1>9. CASE Release         BY <1>9, ReleaseOK
<1>10. CASE CancelResting  BY <1>10, CancelRestingOK
<1>11. CASE CancelStop     BY <1>11, CancelStopOK
<1>12. CASE UNCHANGED vars
  <2>1. UNCHANGED <<levels, stopOrders, orderIndex, status, auditLog,
                    nextSequence, phase, incoming, fills, report,
                    triggerPrices, lastPrice, drained, ready, tradeCount>>
    BY <1>12 DEF vars, book, cascade
  <2>2. TypeOK' /\ NoEmptyLevel'
    BY <2>1 DEF IInv, TypeOK, NoEmptyLevel
  <2>3. TakerPriced' /\ NotCrossed'
    BY <2>1 DEF IInv, TakerPriced, NotCrossed
  <2> QED BY <2>2, <2>3 DEF IInv
<1> QED BY <1>1, <1>2, <1>3, <1>4, <1>5, <1>6, <1>7, <1>8, <1>9, <1>10, <1>11,
           <1>12 DEF Next, HolderStep

(* The inductive invariant holds of every reachable state of the book,     *)
(* whatever the clients, prices, quantities and logs' sizes.               *)
THEOREM Inductive == Spec => []IInv
<1>1. Init => IInv
  BY InitIInv
<1>2. IInv /\ [Next]_vars => IInv'
  BY NextIInv
<1> QED BY <1>1, <1>2, PTL DEF Spec

(* The book and the locals of submit_order keep their types. *)
THEOREM TypeCorrect == Spec => []TypeOK
<1>1. IInv => TypeOK
  BY DEF IInv
<1> QED BY <1>1, Inductive, PTL

(* No bid ever reaches an ask: an order joins its side only after the match *)
(* loop has seen that the best opposite price is out of its reach, and that *)
(* price speaks for the whole side.                                         *)
THEOREM NeverCrossed == Spec => []NotCrossed
<1>1. IInv => NotCrossed
  BY DEF IInv
<1> QED BY <1>1, Inductive, PTL

(* The match loop always finds a head in the best level, so that its        *)
(* unwrapping of the front of the queue never fails.                        *)
THEOREM HeadAlwaysThere == Spec => []NoEmptyLevel
<1>1. IInv => NoEmptyLevel
  BY DEF IInv
<1> QED BY <1>1, Inductive, PTL


-----------------------------------------------------------------------------
(* Where the live orders are *)

(* What the status log says of a resting order. *)
Known(o) == Entry(IF o.remaining = o.original THEN "New" ELSE "PartiallyFilled",
                  o.original - o.remaining)

(* A resting order is indexed at its level, and known to the status log;   *)
(* its queue has no other order of its identifier.                         *)
QueueOK(side, price, orders, index, log) ==
  \A i \in DOMAIN orders :
    LET o == orders[i]
    IN /\ o.remaining > 0 /\ o.remaining <= o.original
       /\ o.price = price /\ o.side = side
       /\ o.id \in DOMAIN index /\ index[o.id] = <<side, price>>
       /\ o.id \in DOMAIN log /\ log[o.id] = Known(o)
       /\ \A j \in DOMAIN orders : orders[j].id = o.id => j = i

QueuesOK(l, index, log) ==
  \A side \in Sides : \A price \in DOMAIN l[side] :
    QueueOK(side, price, l[side][price].orders, index, log)

InQueue(id, orders) == \E i \in DOMAIN orders : orders[i].id = id

(* What is indexed rests where the index says. *)
IndexOK(l, index) ==
  \A id \in DOMAIN index :
    /\ index[id][2] \in DOMAIN l[index[id][1]]
    /\ InQueue(id, l[index[id][1]][index[id][2]].orders)

Untouched(stop) == stop.kind \in StopKinds /\ stop.remaining = stop.original

Distinct(list) == \A i, j \in DOMAIN list : list[i].id = list[j].id => i = j

(* The status log knows the stop orders that wait; it does not know those  *)
(* that are about to be submitted.                                         *)
Pending(stop, log) ==
  /\ Untouched(stop)
  /\ stop.id \in DOMAIN log /\ log[stop.id] = Entry("PendingStop", 0)

Awaited(stop, index, log) ==
  Untouched(stop) /\ stop.id \notin DOMAIN log \cup DOMAIN index

StopsOK ==
  /\ \A i \in DOMAIN stopOrders : Pending(stopOrders[i], status)
  /\ \A i \in DOMAIN drained : Pending(drained[i], status)
  /\ \A i \in DOMAIN ready : Awaited(ready[i], orderIndex, status)
  /\ Distinct(stopOrders) /\ Distinct(drained) /\ Distinct(ready)
  /\ \A i \in DOMAIN stopOrders, j \in DOMAIN drained :
       stopOrders[i].id # drained[j].id

(* Neither the log nor the index knows the order in the match loop. *)
TakerOK ==
  incoming # NoOrder =>
    /\ incoming.id \notin DOMAIN status \cup DOMAIN orderIndex
    /\ \A i \in DOMAIN ready : ready[i].id # incoming.id
    /\ incoming.remaining <= incoming.original
    /\ fills = << >> <=> incoming.remaining = incoming.original

PhasesOK ==
  /\ phase # "triggering" => drained = << >>
  /\ phase = "idle" => ready = << >>
  /\ phase # "matching" => fills = << >>

PlaceInv ==
  /\ IInv
  /\ QueuesOK(levels, orderIndex, status) /\ IndexOK(levels, orderIndex)
  /\ StopsOK /\ TakerOK /\ PhasesOK

(* A map with a key, and without some. *)
LEMMA WithGives ==
  ASSUME NEW f, NEW key, NEW value
  PROVE  /\ DOMAIN With(f, key, value) = DOMAIN f \cup {key}
         /\ With(f, key, value)[key] = value
         /\ \A k \in DOMAIN f : k # key => With(f, key, value)[k] = f[k]
BY DEF With

LEMMA WithoutGives ==
  ASSUME NEW f, NEW keys
  PROVE  /\ DOMAIN Without(f, keys) = DOMAIN f \ keys
         /\ \A k \in DOMAIN f \ keys : Without(f, keys)[k] = f[k]
BY DEF Without

(* Pruning forgets no order that is indexed or open. *)
LEMMA PrunedKeeps ==
  ASSUME NEW log, NEW index
  PROVE  /\ DOMAIN Pruned(log, index) \subseteq DOMAIN log
         /\ \A id \in DOMAIN Pruned(log, index) : Pruned(log, index)[id] = log[id]
         /\ \A id \in DOMAIN log :
              \/ id \in DOMAIN index
              \/ log[id].state \in {"New", "PartiallyFilled", "PendingStop"}
              => id \in DOMAIN Pruned(log, index)
<1> DEFINE closed == {id \in DOMAIN log :
              /\ id \notin DOMAIN index
              /\ log[id].state \notin {"New", "PartiallyFilled", "PendingStop"}}
<1>1. CASE Pruned(log, index) = log
  BY <1>1
<1>2. CASE Pruned(log, index) = Without(log, closed)
  <2>1. \A id \in DOMAIN log :
          \/ id \in DOMAIN index
          \/ log[id].state \in {"New", "PartiallyFilled", "PendingStop"}
          => id \notin closed
    OBVIOUS
  <2> HIDE DEF closed
  <2>2. /\ DOMAIN Without(log, closed) = DOMAIN log \ closed
        /\ \A id \in DOMAIN log \ closed : Without(log, closed)[id] = log[id]
    BY WithoutGives
  <2> QED BY <1>2, <2>1, <2>2
<1> QED BY <1>1, <1>2 DEF Pruned

(* Levels of which one queue is replaced. *)
LEMMA RequeuedLevels ==
  ASSUME LevelsOK(levels), NEW side \in Sides, NEW price, NEW orders, NEW total
  PROVE  /\ \A s \in Sides : \A p : <<s, p>> # <<side, price>> =>
              /\ p \in DOMAIN Requeued(side, price, orders, total)[s]
                   <=> p \in DOMAIN levels[s]
              /\ p \in DOMAIN levels[s] =>
                   Requeued(side, price, orders, total)[s][p] = levels[s][p]
         /\ price \in DOMAIN Requeued(side, price, orders, total)[side] <=> orders # << >>
         /\ orders # << >> => Requeued(side, price, orders, total)[side][price]
                                = [orders |-> orders, total |-> total]
<1> DEFINE level == [orders |-> orders, total |-> total]
           m == IF orders = << >> THEN Without(levels[side], {price})
                ELSE With(levels[side], price, level)
           new == Requeued(side, price, orders, total)
<1>1. levels = [s \in Sides |-> levels[s]]
  BY DEF LevelsOK
<1>2. new = [levels EXCEPT ![side] = m]
  BY <1>1 DEF Requeued
<1>3. /\ \A p : p # price => /\ p \in DOMAIN m <=> p \in DOMAIN levels[side]
                             /\ p \in DOMAIN levels[side] => m[p] = levels[side][p]
      /\ price \in DOMAIN m <=> orders # << >>
      /\ orders # << >> => m[price] = level
  <2> DEFINE f == levels[side]
             without == Without(f, {price})
             with == With(f, price, level)
  <2>1. CASE orders = << >>
    <3>1. m = without
      BY <2>1
    <3>2. DOMAIN without = DOMAIN f \ {price} /\ \A p \in DOMAIN f \ {price} : without[p] = f[p]
      BY WithoutGives
    <3> HIDE DEF m, without
    <3> QED BY <2>1, <3>1, <3>2
  <2>2. CASE orders # << >>
    <3>1. m = with
      BY <2>2
    <3>2. /\ DOMAIN with = DOMAIN f \cup {price} /\ with[price] = level
          /\ \A p \in DOMAIN f : p # price => with[p] = f[p]
      <4> HIDE DEF f, level
      <4> QED BY DEF With
    <3> HIDE DEF m, with
    <3> QED BY <2>2, <3>1, <3>2
  <2> QED BY <2>1, <2>2
<1> HIDE DEF m, new, level
<1>4. \A s \in Sides : new[s] = IF s = side THEN m ELSE levels[s]
  BY <1>1, <1>2
<1> QED BY <1>3, <1>4 DEF new, level

(* The queues are sound after one is replaced, if the index and the log    *)
(* still say the same of the orders of the others.                         *)
LEMMA QueuesReplaced ==
  ASSUME LevelsOK(levels), NEW side \in Sides, NEW price, NEW orders, NEW total,
         NEW index, NEW log, QueuesOK(levels, orderIndex, status),
         \A id \in DOMAIN orderIndex \cap DOMAIN status :
           orderIndex[id] # <<side, price>> =>
             /\ id \in DOMAIN index /\ index[id] = orderIndex[id]
             /\ id \in DOMAIN log /\ log[id] = status[id],
         QueueOK(side, price, orders, index, log)
  PROVE  QueuesOK(Requeued(side, price, orders, total), index, log)
<1> DEFINE new == Requeued(side, price, orders, total)
<1> SUFFICES ASSUME NEW s \in Sides, NEW p \in DOMAIN new[s]
             PROVE  QueueOK(s, p, new[s][p].orders, index, log)
  BY DEF QueuesOK
<1>0. /\ \A t \in Sides : \A q : <<t, q>> # <<side, price>> =>
           /\ q \in DOMAIN new[t] <=> q \in DOMAIN levels[t]
           /\ q \in DOMAIN levels[t] => new[t][q] = levels[t][q]
      /\ price \in DOMAIN new[side] <=> orders # << >>
      /\ orders # << >> => new[side][price] = [orders |-> orders, total |-> total]
  BY RequeuedLevels
<1> HIDE DEF new
<1>1. CASE <<s, p>> = <<side, price>>
  <2>1. orders # << >> /\ new[side][price].orders = orders
    BY <1>0, <1>1
  <2> QED BY <1>1, <2>1
<1>2. CASE <<s, p>> # <<side, price>>
  <2>1. p \in DOMAIN levels[s] /\ new[s][p] = levels[s][p]
    BY <1>0, <1>2
  <2>2. QueueOK(s, p, levels[s][p].orders, orderIndex, status)
    BY <2>1 DEF QueuesOK
  <2> HIDE DEF new
  <2> QED BY <1>2, <2>1, <2>2 DEF QueueOK
<1> QED BY <1>1, <1>2

(* The queues that are not touched, with another index and log. *)
LEMMA QueuesKept ==
  ASSUME NEW index, NEW log, QueuesOK(levels, orderIndex, status),
         \A id \in DOMAIN orderIndex \cap DOMAIN status :
             /\ id \in DOMAIN index /\ index[id] = orderIndex[id]
             /\ id \in DOMAIN log /\ log[id] = status[id]
  PROVE  QueuesOK(levels, index, log)
<1> SUFFICES ASSUME NEW s \in Sides, NEW p \in DOMAIN levels[s]
             PROVE  QueueOK(s, p, levels[s][p].orders, index, log)
  BY DEF QueuesOK
<1>1. QueueOK(s, p, levels[s][p].orders, orderIndex, status)
  BY DEF QueuesOK
<1> QED BY <1>1 DEF QueueOK

(* An index that differs from the book's at one level only. *)
IndexedAt(index, side, price, orders) ==
  /\ IsMap(index, OrderIds, Sides \X Prices)
  /\ \A id \in DOMAIN index :
       \/ index[id] = <<side, price>> /\ InQueue(id, orders)
       \/ /\ id \in DOMAIN orderIndex /\ index[id] = orderIndex[id]
          /\ index[id] # <<side, price>>

(* The index is sound after a queue is replaced. *)
LEMMA IndexReplaced ==
  ASSUME LevelsOK(levels), NEW side \in Sides, NEW price, NEW orders, NEW total,
         NEW index, IndexOK(levels, orderIndex), IndexedAt(index, side, price, orders)
  PROVE  IndexOK(Requeued(side, price, orders, total), index)
<1> DEFINE new == Requeued(side, price, orders, total)
<1> SUFFICES ASSUME NEW id \in DOMAIN index
             PROVE  /\ index[id][2] \in DOMAIN new[index[id][1]]
                    /\ InQueue(id, new[index[id][1]][index[id][2]].orders)
  BY DEF IndexOK
<1>0. /\ \A t \in Sides : \A q : <<t, q>> # <<side, price>> =>
           /\ q \in DOMAIN new[t] <=> q \in DOMAIN levels[t]
           /\ q \in DOMAIN levels[t] => new[t][q] = levels[t][q]
      /\ price \in DOMAIN new[side] <=> orders # << >>
      /\ orders # << >> => new[side][price] = [orders |-> orders, total |-> total]
  BY RequeuedLevels
<1>1. index[id] \in Sides \X Prices
  BY DEF IndexedAt, IsMap
<1> HIDE DEF new
<1> DEFINE s == index[id][1]
           p == index[id][2]
<1>2. s \in Sides /\ index[id] = <<s, p>>
  BY <1>1
<1>3. CASE index[id] = <<side, price>> /\ InQueue(id, orders)
  <2>1. orders # << >>
    BY <1>3 DEF InQueue
  <2>2. price \in DOMAIN new[side] /\ new[side][price] = [orders |-> orders, total |-> total]
    BY <1>0, <2>1
  <2> QED BY <1>3, <2>2
<1>4. CASE /\ id \in DOMAIN orderIndex /\ index[id] = orderIndex[id]
           /\ index[id] # <<side, price>>
  <2>1. p \in DOMAIN levels[s] /\ InQueue(id, levels[s][p].orders)
    BY <1>4 DEF IndexOK
  <2>2. p \in DOMAIN new[s] /\ new[s][p] = levels[s][p]
    BY <1>0, <1>2, <1>4, <2>1
  <2> QED BY <2>1, <2>2
<1> QED BY <1>3, <1>4 DEF IndexedAt

(* Stop orders that are left alone, with another index and log. *)
LEMMA StopsKept ==
  ASSUME StopsOK, UNCHANGED <<stopOrders, drained, ready>>,
         \A id \in DOMAIN status : status[id] = Entry("PendingStop", 0) =>
           id \in DOMAIN status' /\ status'[id] = status[id],
         NEW new, \A i \in DOMAIN ready : ready[i].id # new,
         DOMAIN status' \subseteq DOMAIN status \cup DOMAIN orderIndex \cup {new},
         DOMAIN orderIndex' \subseteq DOMAIN status \cup DOMAIN orderIndex \cup {new}
  PROVE  StopsOK'
<1>1. ASSUME NEW stop, Pending(stop, status)
      PROVE  Pending(stop, status)'
  BY <1>1 DEF Pending, Untouched
<1>2. \A i \in DOMAIN ready : Awaited(ready[i], orderIndex', status')
  BY DEF StopsOK, Awaited
<1>3. /\ \A i \in DOMAIN stopOrders : Pending(stopOrders[i], status')
      /\ \A i \in DOMAIN drained : Pending(drained[i], status')
  BY DEF StopsOK, Pending
<1> QED BY <1>2, <1>3 DEF StopsOK, Distinct


(* A queue without its g-th order. *)
LEMMA RemoveAtPlaces ==
  ASSUME NEW S, NEW orders \in Seq(S), NEW g \in DOMAIN orders
  PROVE  /\ RemoveAt(orders, g) \in Seq(S)
         /\ Len(RemoveAt(orders, g)) = Len(orders) - 1
         /\ \A j \in 1..Len(orders) - 1 :
              RemoveAt(orders, g)[j] = orders[IF j < g THEN j ELSE j + 1]
<1> DEFINE front == SubSeq(orders, 1, g - 1)
           back  == SubSeq(orders, g + 1, Len(orders))
<1>1. Len(orders) \in Nat /\ g \in 1..Len(orders)
  OBVIOUS
<1>2. /\ front \in Seq(S) /\ Len(front) = g - 1
      /\ \A j \in 1..g - 1 : front[j] = orders[j]
  BY <1>1
<1>3. /\ back \in Seq(S) /\ Len(back) = Len(orders) - g
      /\ \A j \in 1..Len(orders) - g : back[j] = orders[g + j]
  BY <1>1
<1>4. RemoveAt(orders, g) = front \o back
  BY DEF RemoveAt
<1> HIDE DEF front, back
<1>5. front \o back \in Seq(S) /\ Len(front \o back) = Len(orders) - 1
  BY <1>1, <1>2, <1>3
<1>6. ASSUME NEW j \in 1..Len(orders) - 1
      PROVE  (front \o back)[j] = orders[IF j < g THEN j ELSE j + 1]
  <2>1. CASE j < g
    BY <1>1, <1>2, <1>3, <2>1
  <2>2. CASE ~(j < g)
    <3>1. j - (g - 1) \in 1..Len(orders) - g /\ g + (j - (g - 1)) = j + 1
      BY <1>1, <2>2
    <3>2. (front \o back)[j] = back[j - Len(front)]
      <4>1. j \in Len(front) + 1 .. Len(front) + Len(back)
        BY <1>1, <1>2, <1>3, <2>2
      <4>2. \A k \in 1..Len(front) + Len(back) :
              (front \o back)[k] = IF k <= Len(front) THEN front[k]
                                   ELSE back[k - Len(front)]
        BY <1>2, <1>3, ConcatProperties
      <4>3. Len(front) \in Nat /\ Len(back) \in Nat
        BY <1>2, <1>3
      <4>4. j \in 1..Len(front) + Len(back) /\ ~(j <= Len(front))
        BY <4>1, <4>3
      <4> QED BY <4>2, <4>4
    <3> QED BY <1>2, <1>3, <2>2, <3>1, <3>2
  <2> QED BY <2>1, <2>2
<1> QED BY <1>4, <1>5, <1>6

(* The tail of a queue is the queue without its first order. *)
LEMMA TailRemovesFirst ==
  ASSUME NEW S, NEW orders \in Seq(S), orders # << >>
  PROVE  1 \in DOMAIN orders /\ Tail(orders) = RemoveAt(orders, 1)
<1>1. Len(orders) \in Nat \ {0} /\ 1 \in DOMAIN orders
  OBVIOUS
<1>2. /\ Tail(orders) \in Seq(S) /\ Len(Tail(orders)) = Len(orders) - 1
      /\ \A j \in 1..Len(orders) - 1 : Tail(orders)[j] = orders[j + 1]
  BY <1>1
<1>3. /\ RemoveAt(orders, 1) \in Seq(S)
      /\ Len(RemoveAt(orders, 1)) = Len(orders) - 1
      /\ \A j \in 1..Len(orders) - 1 :
           RemoveAt(orders, 1)[j] = orders[IF j < 1 THEN j ELSE j + 1]
  BY <1>1, RemoveAtPlaces
<1>4. \A j \in 1..Len(orders) - 1 : Tail(orders)[j] = RemoveAt(orders, 1)[j]
  BY <1>2, <1>3
<1> QED BY <1>1, <1>2, <1>3, <1>4, SeqEqual

(* A queue that an order leaves stays sound, and keeps its other orders. *)
LEMMA QueueWithout ==
  ASSUME NEW side, NEW price, NEW orders \in Seq(Order), NEW g \in DOMAIN orders,
         NEW index, NEW log, QueueOK(side, price, orders, orderIndex, status),
         \A id \in DOMAIN orderIndex \cap DOMAIN status : id # orders[g].id =>
           /\ id \in DOMAIN index /\ index[id] = orderIndex[id]
           /\ id \in DOMAIN log /\ log[id] = status[id]
  PROVE  /\ QueueOK(side, price, RemoveAt(orders, g), index, log)
         /\ \A id : InQueue(id, orders) /\ id # orders[g].id
                      => InQueue(id, RemoveAt(orders, g))
<1> DEFINE rest == RemoveAt(orders, g)
           at(j) == IF j < g THEN j ELSE j + 1
<1>1. Len(orders) \in Nat /\ DOMAIN orders = 1..Len(orders) /\ g \in 1..Len(orders)
  OBVIOUS
<1>2. /\ rest \in Seq(Order) /\ Len(rest) = Len(orders) - 1
      /\ \A j \in 1..Len(orders) - 1 : rest[j] = orders[at(j)]
  BY RemoveAtPlaces
<1> HIDE DEF rest
<1>3. DOMAIN rest = 1..Len(orders) - 1
  BY <1>1, <1>2
<1>4. \A j \in DOMAIN rest : at(j) \in DOMAIN orders /\ at(j) # g /\ rest[j] = orders[at(j)]
  BY <1>1, <1>2, <1>3
<1>5. \A j, k \in DOMAIN rest : at(j) = at(k) => j = k
  BY <1>1, <1>3
<1>6. \A i \in DOMAIN orders : i # g => \E j \in DOMAIN rest : at(j) = i
  <2> TAKE i \in DOMAIN orders
  <2> HAVE i # g
  <2>1. CASE i < g
    <3>1. i \in DOMAIN rest
      BY <1>1, <1>3, <2>1
    <3> QED BY <2>1, <3>1
  <2>2. CASE i > g
    <3>1. i - 1 \in DOMAIN rest /\ at(i - 1) = i
      BY <1>1, <1>3, <2>2
    <3> QED BY <3>1
  <2> QED BY <1>1, <2>1, <2>2
<1> HIDE DEF at
<1>7. \A id : InQueue(id, orders) /\ id # orders[g].id => InQueue(id, rest)
  BY <1>4, <1>6 DEF InQueue
<1>8. QueueOK(side, price, rest, index, log)
  <2> SUFFICES ASSUME NEW i \in DOMAIN rest
               PROVE  LET o == rest[i]
                      IN /\ o.remaining > 0 /\ o.remaining <= o.original
                         /\ o.price = price /\ o.side = side
                         /\ o.id \in DOMAIN index /\ index[o.id] = <<side, price>>
                         /\ o.id \in DOMAIN log /\ log[o.id] = Known(o)
                         /\ \A j \in DOMAIN rest : rest[j].id = o.id => j = i
    BY DEF QueueOK
  <2> DEFINE o == orders[at(i)]
  <2>1. /\ at(i) \in DOMAIN orders /\ at(i) # g /\ rest[i] = o
    BY <1>4
  <2>2. /\ o.remaining > 0 /\ o.remaining <= o.original
        /\ o.price = price /\ o.side = side
        /\ o.id \in DOMAIN orderIndex /\ orderIndex[o.id] = <<side, price>>
        /\ o.id \in DOMAIN status /\ status[o.id] = Known(o)
        /\ \A j \in DOMAIN orders : orders[j].id = o.id => j = at(i)
    BY <2>1 DEF QueueOK
  <2>3. o.id # orders[g].id
    BY <2>1, <2>2
  <2>4. \A j \in DOMAIN rest : rest[j].id = o.id => j = i
    BY <1>4, <1>5, <2>2
  <2> HIDE DEF o
  <2> QED BY <2>1, <2>2, <2>3, <2>4
<1> QED BY <1>7, <1>8 DEF rest


(* A queue whose first order has so much left. *)
WithHead(orders, left) == [orders EXCEPT ![1].remaining = left]

(* A queue whose first order is filled in part stays sound. *)
LEMMA QueueWithHead ==
  ASSUME NEW side, NEW price, NEW orders \in Seq(Order), orders # << >>,
         NEW left \in Nat, left > 0, left < orders[1].remaining,
         NEW log, QueueOK(side, price, orders, orderIndex, status),
         \A id \in DOMAIN orderIndex \cap DOMAIN status : id # orders[1].id =>
           id \in DOMAIN log /\ log[id] = status[id],
         orders[1].id \in DOMAIN log,
         log[orders[1].id] = Entry("PartiallyFilled", orders[1].original - left)
  PROVE  /\ QueueOK(side, price, WithHead(orders, left), orderIndex, log)
         /\ \A id : InQueue(id, orders)
                      => InQueue(id, WithHead(orders, left))
<1> DEFINE head == [orders[1] EXCEPT !.remaining = left]
           new  == [orders EXCEPT ![1].remaining = left]
<1>1. 1 \in DOMAIN orders /\ orders[1] \in Order
  OBVIOUS
<1>2. /\ head.id = orders[1].id /\ head.price = orders[1].price
      /\ head.side = orders[1].side /\ head.original = orders[1].original
      /\ head.remaining = left
  BY <1>1 DEF Order
<1>3. /\ DOMAIN new = DOMAIN orders /\ new[1] = head
      /\ \A i \in DOMAIN orders : i # 1 => new[i] = orders[i]
  BY <1>1
<1>4. orders[1].remaining \in Nat /\ orders[1].original \in Nat
  BY <1>1 DEF Order
<1> HIDE DEF head, new
<1>5. \A i \in DOMAIN orders : new[i].id = orders[i].id
  BY <1>2, <1>3
<1>6. \A id : InQueue(id, orders) => InQueue(id, new)
  BY <1>3, <1>5 DEF InQueue
<1>7. QueueOK(side, price, new, orderIndex, log)
  <2> SUFFICES ASSUME NEW i \in DOMAIN orders
               PROVE  LET o == new[i]
                      IN /\ o.remaining > 0 /\ o.remaining <= o.original
                         /\ o.price = price /\ o.side = side
                         /\ o.id \in DOMAIN orderIndex
                         /\ orderIndex[o.id] = <<side, price>>
                         /\ o.id \in DOMAIN log /\ log[o.id] = Known(o)
                         /\ \A j \in DOMAIN orders : new[j].id = o.id => j = i
    BY <1>3 DEF QueueOK
  <2>1. LET o == orders[i]
        IN /\ o.remaining > 0 /\ o.remaining <= o.original
           /\ o.price = price /\ o.side = side
           /\ o.id \in DOMAIN orderIndex /\ orderIndex[o.id] = <<side, price>>
           /\ o.id \in DOMAIN status /\ status[o.id] = Known(o)
           /\ \A j \in DOMAIN orders : orders[j].id = o.id => j = i
    BY DEF QueueOK
  <2>2. \A j \in DOMAIN orders : new[j].id = new[i].id => j = i
    BY <1>5, <2>1
  <2>3. CASE i = 1
    <3>1. /\ head.remaining > 0 /\ head.remaining <= head.original
          /\ head.remaining # head.original
      BY <1>2, <1>4, <2>1, <2>3
    <3>2. Known(head) = Entry("PartiallyFilled", head.original - left)
      BY <1>2, <3>1 DEF Known
    <3> QED BY <1>2, <1>3, <2>1, <2>2, <2>3, <3>1, <3>2
  <2>4. CASE i # 1
    <3>1. new[i] = orders[i] /\ orders[i].id # orders[1].id
      BY <1>1, <1>3, <2>1, <2>4
    <3> QED BY <2>1, <2>2, <3>1
  <2> QED BY <2>3, <2>4
<1> QED BY <1>6, <1>7 DEF new, WithHead

(* The record of a fill of a resting order against the one that matches. *)
FillOf(resting, price, quantity) ==
  [maker |-> resting.id, taker |-> incoming.id,
   makerUser |-> resting.user, takerUser |-> incoming.user,
   price |-> price, quantity |-> quantity]

(* One fill, with what FillBest computes by name. *)
FillSays(side, price, orders, quantity, left) ==
  /\ incoming \in Order /\ incoming.remaining > 0
  /\ side = Opposite(incoming.side) /\ price \in BestPrices(side)
  /\ Crosses(incoming, price) /\ orders[1].user # incoming.user
  /\ side \in Sides /\ price \in Prices /\ price \in DOMAIN levels[side]
  /\ orders = levels[side][price].orders /\ orders \in Seq(Order) /\ orders # << >>
  /\ left = orders[1].remaining - quantity
  /\ quantity \in {incoming.remaining, orders[1].remaining}
  /\ incoming' = [incoming EXCEPT !.remaining = @ - quantity]
  /\ levels' = Requeued(side, price,
                 IF left = 0 THEN Tail(orders) ELSE [orders EXCEPT ![1].remaining = left],
                 levels[side][price].total - quantity)
  /\ fills' # << >>
  /\ fills' = Append(fills, FillOf(orders[1], price, quantity))
  /\ auditLog' = Append(auditLog, FillOf(orders[1], price, quantity))
  /\ orderIndex' = IF left = 0 THEN Without(orderIndex, {orders[1].id}) ELSE orderIndex
  /\ status' = IF left = 0
               THEN With(status, orders[1].id, Entry("Filled", orders[1].original))
               ELSE Pruned(With(status, orders[1].id,
                      Entry("PartiallyFilled", orders[1].original - left)),
                      orderIndex')
  /\ UNCHANGED <<stopOrders, nextSequence, phase, report, cascade>>

(* FillBest is such a fill. *)
LEMMA FillBestSays ==
  ASSUME IInv, FillBest
  PROVE  \E side \in Sides, price \in Prices, quantity \in Nat, left \in Nat :
           FillSays(side, price, levels[side][price].orders, quantity, left)
<1> DEFINE side == Opposite(incoming.side)
<1>1. PICK price \in BestPrices(side) :
        LET level    == levels[side][price]
            resting  == Head(level.orders)
            quantity == Min({incoming.remaining, resting.remaining})
            left     == resting.remaining - quantity
            fill     == [maker |-> resting.id, taker |-> incoming.id,
                         makerUser |-> resting.user, takerUser |-> incoming.user,
                         price |-> price, quantity |-> quantity]
        IN /\ Crosses(incoming, price) /\ resting.user # incoming.user
           /\ incoming' = [incoming EXCEPT !.remaining = @ - quantity]
           /\ levels' = Requeued(side, price,
                          IF left = 0 THEN Tail(level.orders)
                          ELSE [level.orders EXCEPT ![1].remaining = left],
                          level.total - quantity)
           /\ fills' = Append(fills, fill) /\ auditLog' = Append(auditLog, fill)
           /\ orderIndex' = IF left = 0 THEN Without(orderIndex, {resting.id})
                            ELSE orderIndex
           /\ status' = IF left = 0
                        THEN With(status, resting.id,
                                  Entry("Filled", resting.original))
                        ELSE Pruned(With(status, resting.id,
                               Entry("PartiallyFilled", resting.original - left)),
                               orderIndex')
  BY DEF FillBest
<1> DEFINE orders   == levels[side][price].orders
           resting  == Head(orders)
           quantity == Min({incoming.remaining, resting.remaining})
           left     == resting.remaining - quantity
           fill     == [maker |-> resting.id, taker |-> incoming.id,
                        makerUser |-> resting.user, takerUser |-> incoming.user,
                        price |-> price, quantity |-> quantity]
<1>2. TypeOK /\ NoEmptyLevel /\ LevelsOK(levels)
  BY LevelsFromInv DEF IInv
<1>3. incoming \in Order /\ incoming.remaining > 0
  BY <1>2 DEF FillBest, TypeOK
<1>4. side \in Sides /\ price \in DOMAIN levels[side]
  BY DEF Opposite, Sides, BestPrices
<1>5. price \in Prices /\ orders \in Seq(Order) /\ orders # << >>
  BY <1>2, <1>4 DEF TypeOK, NoEmptyLevel, IsMap, Level
<1>6. resting = orders[1] /\ resting \in Order
  BY <1>5
<1>7. incoming.remaining \in Nat /\ resting.remaining \in Nat
  BY <1>3, <1>6 DEF Order
<1>8. /\ quantity \in Nat /\ quantity \in {incoming.remaining, resting.remaining}
      /\ quantity <= resting.remaining
  BY <1>7, MinOfTwo
<1>9. left \in Nat
  <2> HIDE DEF quantity, resting
  <2> QED BY <1>7, <1>8
<1>10. fills' # << >>
  <2>1. fills \in Seq(Fill) /\ fills' = Append(fills, fill)
    BY <1>1, <1>2 DEF TypeOK
  <2> HIDE DEF fill
  <2> QED BY <2>1
<1>11. UNCHANGED <<stopOrders, nextSequence, phase, report, cascade>>
  BY DEF FillBest
<1>12. /\ incoming' = [incoming EXCEPT !.remaining = @ - quantity]
       /\ levels' = Requeued(side, price,
                      IF left = 0 THEN Tail(orders)
                      ELSE [orders EXCEPT ![1].remaining = left],
                      levels[side][price].total - quantity)
       /\ orderIndex' = IF left = 0 THEN Without(orderIndex, {resting.id})
                        ELSE orderIndex
       /\ status' = IF left = 0
                    THEN With(status, resting.id, Entry("Filled", resting.original))
                    ELSE Pruned(With(status, resting.id,
                           Entry("PartiallyFilled", resting.original - left)),
                           orderIndex')
  BY <1>1
<1>13. /\ left = resting.remaining - quantity
       /\ side = Opposite(incoming.side) /\ price \in BestPrices(side)
  OBVIOUS
<1>14. Crosses(incoming, price) /\ resting.user # incoming.user
  BY <1>1
<1>15. /\ fills' = Append(fills, FillOf(resting, price, quantity))
       /\ auditLog' = Append(auditLog, FillOf(resting, price, quantity))
  BY <1>1 DEF FillOf
<1> HIDE DEF left, quantity, resting, orders, side, fill
<1>16. FillSays(side, price, orders, quantity, left)
  BY <1>3, <1>4, <1>5, <1>6, <1>8, <1>10, <1>11, <1>12, <1>13, <1>14, <1>15
     DEF FillSays, orders
<1> QED BY <1>4, <1>5, <1>8, <1>9, <1>16 DEF orders


(* A fill keeps every live order where it is, but for a resting order that *)
(* it fills: that one leaves its queue, the index and the open states at   *)
(* once.                                                                   *)
LEMMA FillBestPlaces ==
  ASSUME PlaceInv, FillBest
  PROVE  PlaceInv'
<1>0. IInv /\ IInv'
  BY FillBestOK DEF PlaceInv
<1>1. PICK side \in Sides, price \in Prices, quantity \in Nat, left \in Nat :
        FillSays(side, price, levels[side][price].orders, quantity, left)
  BY <1>0, FillBestSays
<1> DEFINE orders  == levels[side][price].orders
           resting == orders[1]
           total   == levels[side][price].total - quantity
           queue   == IF left = 0 THEN Tail(orders)
                      ELSE [orders EXCEPT ![1].remaining = left]
<1> USE DEF FillSays
<1>2. /\ LevelsOK(levels) /\ price \in DOMAIN levels[side]
      /\ orders \in Seq(Order) /\ orders # << >>
      /\ levels' = Requeued(side, price, queue, total)
  BY <1>0, <1>1, LevelsFromInv DEF IInv
<1>3. /\ incoming \in Order /\ incoming.remaining > 0
      /\ left = resting.remaining - quantity
      /\ quantity \in {incoming.remaining, resting.remaining}
      /\ incoming' = [incoming EXCEPT !.remaining = @ - quantity]
      /\ fills' # << >>
      /\ orderIndex' = IF left = 0 THEN Without(orderIndex, {resting.id}) ELSE orderIndex
      /\ status' = IF left = 0
                   THEN With(status, resting.id, Entry("Filled", resting.original))
                   ELSE Pruned(With(status, resting.id,
                          Entry("PartiallyFilled", resting.original - left)),
                          orderIndex')
      /\ UNCHANGED <<stopOrders, nextSequence, phase, report, drained, ready>>
  BY <1>1 DEF cascade
<1> HIDE DEF FillSays
<1>4. QueueOK(side, price, orders, orderIndex, status)
  BY <1>2 DEF PlaceInv, QueuesOK
<1> HIDE DEF orders, total
<1>5. 1 \in DOMAIN orders /\ resting \in Order
  BY <1>2
<1>6. /\ resting.remaining \in Nat /\ resting.original \in Nat
      /\ incoming.remaining \in Nat /\ incoming.original \in Nat
  BY <1>3, <1>5 DEF Order
<1>7. /\ resting.id \in DOMAIN orderIndex /\ orderIndex[resting.id] = <<side, price>>
      /\ resting.id \in DOMAIN status /\ status[resting.id] = Known(resting)
      /\ resting.remaining > 0 /\ resting.remaining <= resting.original
  BY <1>4, <1>5 DEF QueueOK
<1>8. quantity > 0 /\ (left > 0 => left < resting.remaining)
  BY <1>3, <1>6, <1>7
<1> HIDE DEF resting
<1> DEFINE log == With(status, resting.id,
                    IF left = 0 THEN Entry("Filled", resting.original)
                    ELSE Entry("PartiallyFilled", resting.original - left))
<1>9. /\ DOMAIN log = DOMAIN status
      /\ \A id \in DOMAIN status : id # resting.id => log[id] = status[id]
      /\ left # 0 => log[resting.id] = Entry("PartiallyFilled", resting.original - left)
  BY <1>7 DEF With
<1>10. status' = IF left = 0 THEN log ELSE Pruned(log, orderIndex')
  BY <1>3
<1> HIDE DEF log
<1>11. /\ DOMAIN status' \subseteq DOMAIN status
       /\ \A id \in DOMAIN status' : id # resting.id => status'[id] = status[id]
       /\ \A id \in DOMAIN status :
            /\ id # resting.id
            /\ \/ id \in DOMAIN orderIndex
               \/ status[id].state = "PendingStop"
            => id \in DOMAIN status' /\ status'[id] = status[id]
       /\ left # 0 => /\ resting.id \in DOMAIN status'
                      /\ status'[resting.id]
                           = Entry("PartiallyFilled", resting.original - left)
  <2>1. CASE left = 0
    BY <1>9, <1>10, <2>1
  <2>2. CASE left # 0
    <3>1. orderIndex' = orderIndex /\ status' = Pruned(log, orderIndex)
      BY <1>3, <1>10, <2>2
    <3>2. /\ DOMAIN Pruned(log, orderIndex) \subseteq DOMAIN log
          /\ \A id \in DOMAIN Pruned(log, orderIndex) :
               Pruned(log, orderIndex)[id] = log[id]
          /\ \A id \in DOMAIN log :
               \/ id \in DOMAIN orderIndex
               \/ log[id].state \in {"New", "PartiallyFilled", "PendingStop"}
               => id \in DOMAIN Pruned(log, orderIndex)
      BY PrunedKeeps
    <3>3. /\ DOMAIN status' \subseteq DOMAIN log
          /\ \A id \in DOMAIN status' : status'[id] = log[id]
          /\ \A id \in DOMAIN log :
               \/ id \in DOMAIN orderIndex
               \/ log[id].state \in {"New", "PartiallyFilled", "PendingStop"}
               => id \in DOMAIN status'
      BY <3>1, <3>2
    <3>4. resting.id \in DOMAIN status'
      BY <1>7, <1>9, <3>3
    <3> QED BY <1>9, <2>2, <3>3, <3>4
  <2> QED BY <2>1, <2>2
<1>12. /\ DOMAIN orderIndex' \subseteq DOMAIN orderIndex
       /\ \A id \in DOMAIN orderIndex' : orderIndex'[id] = orderIndex[id]
       /\ \A id \in DOMAIN orderIndex : id # resting.id => id \in DOMAIN orderIndex'
       /\ left = 0 => resting.id \notin DOMAIN orderIndex'
  BY <1>3 DEF Without
<1>13. /\ QueueOK(side, price, queue, orderIndex', status')
       /\ \A id \in DOMAIN orderIndex' : InQueue(id, orders) => InQueue(id, queue)
  <2>1. \A id \in DOMAIN orderIndex \cap DOMAIN status : id # resting.id =>
          /\ id \in DOMAIN orderIndex' /\ orderIndex'[id] = orderIndex[id]
          /\ id \in DOMAIN status' /\ status'[id] = status[id]
    BY <1>11, <1>12
  <2>2. CASE left = 0
    <3>1. queue = RemoveAt(orders, 1)
      BY <1>2, <2>2, TailRemovesFirst
    <3>2. /\ QueueOK(side, price, RemoveAt(orders, 1), orderIndex', status')
          /\ \A id : InQueue(id, orders) /\ id # orders[1].id
                       => InQueue(id, RemoveAt(orders, 1))
      BY <1>2, <1>4, <1>5, <2>1, QueueWithout DEF resting
    <3> QED BY <1>12, <2>2, <3>1, <3>2 DEF resting
  <2>3. CASE left # 0
    <3>1. /\ left > 0 /\ left < resting.remaining
          /\ orderIndex' = orderIndex
          /\ resting.id \in DOMAIN status'
          /\ status'[resting.id]
               = Entry("PartiallyFilled", resting.original - left)
      BY <1>3, <1>8, <1>11, <2>3
    <3>2. /\ QueueOK(side, price, WithHead(orders, left), orderIndex, status')
          /\ \A id : InQueue(id, orders) => InQueue(id, WithHead(orders, left))
      BY <1>2, <1>4, <2>1, <3>1, QueueWithHead DEF resting
    <3>3. queue = WithHead(orders, left)
      BY <2>3 DEF WithHead
    <3> QED BY <3>1, <3>2, <3>3
  <2> QED BY <2>2, <2>3
<1> HIDE DEF queue
<1>14. QueuesOK(levels', orderIndex', status')
  <2>1. \A id \in DOMAIN orderIndex \cap DOMAIN status :
          orderIndex[id] # <<side, price>> =>
            /\ id \in DOMAIN orderIndex' /\ orderIndex'[id] = orderIndex[id]
            /\ id \in DOMAIN status' /\ status'[id] = status[id]
    BY <1>7, <1>11, <1>12
  <2>2. QueuesOK(levels, orderIndex, status)
    BY DEF PlaceInv
  <2> QED BY <1>2, <1>13, <2>1, <2>2, QueuesReplaced
<1>15. IndexOK(levels', orderIndex')
  <2>1. IsMap(orderIndex', OrderIds, Sides \X Prices)
    BY <1>0 DEF IInv, TypeOK
  <2>2. IndexOK(levels, orderIndex)
    BY DEF PlaceInv
  <2>3. ASSUME NEW id \in DOMAIN orderIndex'
        PROVE  \/ orderIndex'[id] = <<side, price>> /\ InQueue(id, queue)
               \/ /\ id \in DOMAIN orderIndex /\ orderIndex'[id] = orderIndex[id]
                  /\ orderIndex'[id] # <<side, price>>
    <3>1. id \in DOMAIN orderIndex /\ orderIndex'[id] = orderIndex[id]
      BY <1>12
    <3>2. CASE orderIndex[id] = <<side, price>>
      <4>1. InQueue(id, orders)
        BY <2>2, <3>1, <3>2 DEF IndexOK, orders
      <4> QED BY <1>13, <3>1, <3>2, <4>1
    <3> QED BY <3>1, <3>2
  <2>4. IndexedAt(orderIndex', side, price, queue)
    BY <2>1, <2>3 DEF IndexedAt
  <2>5. IndexOK(Requeued(side, price, queue, total), orderIndex')
    BY <1>2, <2>2, <2>4, IndexReplaced
  <2> QED BY <1>2, <2>5
<1>16. StopsOK'
  <2>1. ASSUME NEW id \in DOMAIN status, status[id] = Entry("PendingStop", 0)
        PROVE  id \in DOMAIN status' /\ status'[id] = status[id]
    <3>1. status[id].state = "PendingStop"
      BY <2>1 DEF Entry
    <3>2. id # resting.id
      BY <1>7, <3>1 DEF Known, Entry
    <3> QED BY <1>11, <3>1, <3>2
  <2>2. \A i \in DOMAIN ready : ready[i].id # resting.id
    BY <1>7 DEF PlaceInv, StopsOK, Awaited
  <2>3. StopsOK /\ UNCHANGED <<stopOrders, drained, ready>>
    BY <1>3 DEF PlaceInv
  <2>4. /\ DOMAIN status' \subseteq DOMAIN status \cup DOMAIN orderIndex \cup {resting.id}
        /\ DOMAIN orderIndex' \subseteq DOMAIN status \cup DOMAIN orderIndex \cup {resting.id}
    BY <1>11, <1>12
  <2> QED BY <2>1, <2>2, <2>3, <2>4, StopsKept
<1>17. TakerOK'
  <2>1. incoming # NoOrder
    BY <1>3, SentinelsAssumption
  <2>2. /\ incoming.id \notin DOMAIN status \cup DOMAIN orderIndex
        /\ \A i \in DOMAIN ready : ready[i].id # incoming.id
        /\ incoming.remaining <= incoming.original
    BY <2>1 DEF PlaceInv, TakerOK
  <2>3. /\ incoming'.id = incoming.id /\ incoming'.original = incoming.original
        /\ incoming'.remaining = incoming.remaining - quantity
    BY <1>3 DEF Order
  <2>4. /\ incoming'.remaining <= incoming'.original
        /\ incoming'.remaining # incoming'.original
    BY <1>6, <1>8, <2>2, <2>3
  <2> QED BY <1>3, <1>11, <1>12, <2>2, <2>3, <2>4 DEF TakerOK
<1>18. PhasesOK'
  BY <1>3 DEF FillBest, PlaceInv, PhasesOK
<1> QED BY <1>0, <1>14, <1>15, <1>16, <1>17, <1>18 DEF PlaceInv


(* The status log after an entry for an order it did not know, pruned or   *)
(* not: what was indexed or open is as it was.                             *)
EntryAdded(id, log, index) ==
  /\ DOMAIN log \subseteq DOMAIN status \cup {id}
  /\ \A other \in DOMAIN status :
       \/ other \in DOMAIN index
       \/ status[other].state = "PendingStop"
       => other \in DOMAIN log /\ log[other] = status[other]

LEMMA EntryPruned ==
  ASSUME NEW id, id \notin DOMAIN status, NEW entry, NEW index
  PROVE  /\ EntryAdded(id, Pruned(With(status, id, entry), index), index)
         /\ \/ id \in DOMAIN index
            \/ entry.state \in {"New", "PartiallyFilled", "PendingStop"}
            => /\ id \in DOMAIN Pruned(With(status, id, entry), index)
               /\ Pruned(With(status, id, entry), index)[id] = entry
<1> DEFINE log == With(status, id, entry)
           new == Pruned(log, index)
<1>1. /\ DOMAIN log = DOMAIN status \cup {id} /\ log[id] = entry
      /\ \A k \in DOMAIN status : log[k] = status[k]
  BY DEF With
<1> HIDE DEF log
<1>2. /\ DOMAIN new \subseteq DOMAIN log
      /\ \A k \in DOMAIN new : new[k] = log[k]
      /\ \A k \in DOMAIN log :
           \/ k \in DOMAIN index
           \/ log[k].state \in {"New", "PartiallyFilled", "PendingStop"}
           => k \in DOMAIN new
  BY PrunedKeeps
<1> HIDE DEF new
<1>3. EntryAdded(id, new, index)
  BY <1>1, <1>2 DEF EntryAdded
<1> QED BY <1>1, <1>2, <1>3 DEF new, log

(* The end of a submit that leaves the levels alone. *)
LEMMA EndKeepsPlaces ==
  ASSUME PlaceInv, IInv', incoming \in Order,
         UNCHANGED <<levels, orderIndex, stopOrders, drained, ready>>,
         phase' = "triggering", incoming' = NoOrder, fills' = << >>,
         phase = "matching",
         EntryAdded(incoming.id, status', orderIndex)
  PROVE  PlaceInv'
<1>1. incoming # NoOrder
  BY SentinelsAssumption
<1>2. \A i \in DOMAIN ready : ready[i].id # incoming.id
  BY <1>1 DEF PlaceInv, TakerOK
<1>3. StopsOK'
  <2>1. \A id \in DOMAIN status : status[id] = Entry("PendingStop", 0) =>
          id \in DOMAIN status' /\ status'[id] = status[id]
    BY DEF EntryAdded, Entry
  <2>2. /\ DOMAIN status' \subseteq DOMAIN status \cup DOMAIN orderIndex \cup {incoming.id}
        /\ DOMAIN orderIndex' \subseteq DOMAIN status \cup DOMAIN orderIndex \cup {incoming.id}
    BY DEF EntryAdded
  <2>3. StopsOK /\ UNCHANGED <<stopOrders, drained, ready>>
    BY DEF PlaceInv
  <2> QED BY <1>2, <2>1, <2>2, <2>3, StopsKept
<1>4. QueuesOK(levels, orderIndex, status')
  <2>1. QueuesOK(levels, orderIndex, status)
    BY DEF PlaceInv
  <2>2. \A id \in DOMAIN orderIndex \cap DOMAIN status :
          /\ id \in DOMAIN orderIndex /\ orderIndex[id] = orderIndex[id]
          /\ id \in DOMAIN status' /\ status'[id] = status[id]
    BY DEF EntryAdded
  <2> QED BY <2>1, <2>2, QueuesKept
<1>5. QueuesOK(levels', orderIndex', status') /\ IndexOK(levels', orderIndex')
  BY <1>4 DEF PlaceInv
<1>6. TakerOK' /\ PhasesOK'
  BY DEF PlaceInv, TakerOK, PhasesOK
<1> QED BY <1>3, <1>5, <1>6 DEF PlaceInv

LEMMA PreventSelfTradePlaces ==
  ASSUME PlaceInv, PreventSelfTrade
  PROVE  PlaceInv'
<1> DEFINE state == IF fills = << >> THEN "Rejected" ELSE "PartiallyFilled"
           entry == Entry(state, FilledQuantity(incoming))
<1>0. IInv /\ IInv' /\ TypeOK
  BY PreventSelfTradeOK DEF PlaceInv, IInv
<1>1. phase = "matching" /\ incoming \in Order /\ incoming # NoOrder
  BY <1>0 DEF PreventSelfTrade, TypeOK
<1>2. /\ status' = With(status, incoming.id, entry)
      /\ EndSubmit(state, fills # << >>)
      /\ UNCHANGED <<levels, stopOrders, orderIndex, drained, ready>>
  BY DEF PreventSelfTrade
<1>3. phase' = "triggering" /\ incoming' = NoOrder /\ fills' = << >>
  BY <1>2 DEF EndSubmit, Respond
<1> HIDE DEF entry, state
<1>4. incoming.id \notin DOMAIN status
  BY <1>1 DEF PlaceInv, TakerOK
<1>5. EntryAdded(incoming.id, status', orderIndex)
  BY <1>2, <1>4 DEF With, EntryAdded
<1> QED BY <1>0, <1>1, <1>2, <1>3, <1>5, EndKeepsPlaces

(* A queue that an order joins stays sound. *)
LEMMA QueueJoined ==
  ASSUME NEW side, NEW price, NEW orders \in Seq(Order), NEW order \in Order,
         QueueOK(side, price, orders, orderIndex, status),
         order.id \notin DOMAIN orderIndex,
         order.side = side, order.price = price,
         order.remaining > 0, order.remaining <= order.original,
         NEW index, order.id \in DOMAIN index, index[order.id] = <<side, price>>,
         \A id \in DOMAIN orderIndex : id \in DOMAIN index /\ index[id] = orderIndex[id],
         NEW log, order.id \in DOMAIN log, log[order.id] = Known(order),
         \A id \in DOMAIN orderIndex \cap DOMAIN status :
           id \in DOMAIN log /\ log[id] = status[id]
  PROVE  /\ QueueOK(side, price, Append(orders, order), index, log)
         /\ InQueue(order.id, Append(orders, order))
         /\ \A id : InQueue(id, orders) => InQueue(id, Append(orders, order))
<1> DEFINE new == Append(orders, order)
           last == Len(orders) + 1
<1>1. /\ DOMAIN new = 1..last /\ new[last] = order /\ last \in DOMAIN new
      /\ DOMAIN orders = 1..last - 1
      /\ \A i \in DOMAIN orders : i \in DOMAIN new /\ new[i] = orders[i]
      /\ \A i \in DOMAIN new : i = last \/ i \in DOMAIN orders
  OBVIOUS
<1> HIDE DEF new, last
<1>2. InQueue(order.id, new) /\ \A id : InQueue(id, orders) => InQueue(id, new)
  BY <1>1 DEF InQueue
<1>3. \A i \in DOMAIN orders : orders[i].id # order.id
  BY DEF QueueOK
<1>4. ASSUME NEW i \in DOMAIN new
      PROVE  LET o == new[i]
             IN /\ o.remaining > 0 /\ o.remaining <= o.original
                /\ o.price = price /\ o.side = side
                /\ o.id \in DOMAIN index /\ index[o.id] = <<side, price>>
                /\ o.id \in DOMAIN log /\ log[o.id] = Known(o)
                /\ \A j \in DOMAIN new : new[j].id = o.id => j = i
  <2>1. CASE i = last
    BY <1>1, <1>3, <2>1
  <2>2. CASE i \in DOMAIN orders
    <3>1. LET o == orders[i]
          IN /\ o.remaining > 0 /\ o.remaining <= o.original
             /\ o.price = price /\ o.side = side
             /\ o.id \in DOMAIN orderIndex /\ orderIndex[o.id] = <<side, price>>
             /\ o.id \in DOMAIN status /\ status[o.id] = Known(o)
             /\ \A j \in DOMAIN orders : orders[j].id = o.id => j = i
      BY <2>2 DEF QueueOK
    <3>2. new[i] = orders[i]
      BY <1>1, <2>2
    <3>3. \A j \in DOMAIN new : new[j].id = new[i].id => j = i
      BY <1>1, <1>3, <2>2, <3>1, <3>2
    <3> QED BY <3>1, <3>2, <3>3
  <2> QED BY <1>1, <2>1, <2>2
<1>5. QueueOK(side, price, new, index, log)
  BY <1>4 DEF QueueOK
<1> QED BY <1>2, <1>5 DEF new


(* The queue that an order joins is sound, there already or new. *)
LEMMA QueueAtSound ==
  ASSUME NEW side \in Sides, NEW price, QueuesOK(levels, orderIndex, status)
  PROVE  QueueOK(side, price, QueueAt(side, price).orders, orderIndex, status)
<1>1. CASE price \in DOMAIN levels[side]
  BY <1>1 DEF QueueAt, QueuesOK
<1>2. CASE price \notin DOMAIN levels[side]
  <2>1. QueueAt(side, price).orders = << >>
    BY <1>2 DEF QueueAt
  <2> QED BY <2>1 DEF QueueOK
<1> QED BY <1>1, <1>2

(* What the end of a submit reports of an order that rests. *)
LEMMA RestedState ==
  ASSUME incoming \in Order, Rests(incoming),
         fills = << >> <=> incoming.remaining = incoming.original
  PROVE  Entry(FinalState(incoming), FilledQuantity(incoming)) = Known(incoming)
<1>1. incoming.remaining # 0 /\ incoming.kind \notin {"Market", "Ioc", "Fok"}
  BY DEF Rests, Order
<1>2. FinalState(incoming) = IF fills = << >> THEN "New" ELSE "PartiallyFilled"
  BY <1>1 DEF FinalState
<1> QED BY <1>2 DEF Known, FilledQuantity

(* An order that rests is at the end of the queue of its price, in the     *)
(* index and in the log, all at once.                                      *)
LEMMA FinishPlaces ==
  ASSUME PlaceInv, Finish
  PROVE  PlaceInv'
<1> DEFINE entry == Entry(FinalState(incoming), FilledQuantity(incoming))
           side  == incoming.side
           price == incoming.price
           queue == QueueAt(side, price)
           orders == Append(queue.orders, incoming)
           total  == queue.total + incoming.remaining
<1>0. IInv /\ IInv' /\ TypeOK /\ TakerPriced
  BY FinishOK DEF PlaceInv, IInv
<1>1. phase = "matching" /\ incoming \in Order /\ incoming # NoOrder
  BY <1>0 DEF Finish, TypeOK
<1>2. /\ status' = Pruned(With(status, incoming.id, entry), orderIndex')
      /\ EndSubmit(FinalState(incoming), TRUE)
      /\ UNCHANGED <<stopOrders, drained, ready>>
  BY DEF Finish
<1>3. phase' = "triggering" /\ incoming' = NoOrder /\ fills' = << >>
  BY <1>2 DEF EndSubmit, Respond
<1>4. /\ incoming.id \notin DOMAIN status /\ incoming.id \notin DOMAIN orderIndex
      /\ \A i \in DOMAIN ready : ready[i].id # incoming.id
      /\ incoming.remaining <= incoming.original
      /\ fills = << >> <=> incoming.remaining = incoming.original
  BY <1>1 DEF PlaceInv, TakerOK
<1>5. /\ EntryAdded(incoming.id, status', orderIndex')
      /\ incoming.id \in DOMAIN orderIndex' =>
           incoming.id \in DOMAIN status' /\ status'[incoming.id] = entry
  <2> HIDE DEF entry
  <2>1. /\ EntryAdded(incoming.id, Pruned(With(status, incoming.id, entry), orderIndex'),
                      orderIndex')
        /\ incoming.id \in DOMAIN orderIndex' =>
             /\ incoming.id \in DOMAIN Pruned(With(status, incoming.id, entry), orderIndex')
             /\ Pruned(With(status, incoming.id, entry), orderIndex')[incoming.id] = entry
    BY <1>4, EntryPruned
  <2> QED BY <1>2, <2>1
<1>6. CASE ~Rests(incoming)
  <2>1. UNCHANGED <<levels, orderIndex>>
    BY <1>6 DEF Finish
  <2> QED BY <1>0, <1>1, <1>2, <1>3, <1>5, <2>1, EndKeepsPlaces
<1>7. CASE Rests(incoming)
  <2>1. /\ levels' = Requeued(side, price, orders, total)
        /\ orderIndex' = With(orderIndex, incoming.id, <<side, price>>)
    BY <1>7 DEF Finish
  <2>2. entry = Known(incoming)
    BY <1>1, <1>4, <1>7, RestedState
  <2>3. side \in Sides /\ incoming.kind \in Kinds /\ price \in Prices \cup {NoPrice}
    BY <1>1 DEF Order
  <2>4. price \in Prices
    <3>1. incoming.kind \in {"Limit", "PostOnly"}
      BY <1>0, <1>1, <1>7, <2>3 DEF TakerPriced, Rests, Kinds, StopKinds
    <3> QED BY <1>0, <1>1, <2>3, <3>1 DEF TakerPriced, RequiresPrice
  <2>5. LevelsOK(levels)
    BY <1>0, LevelsFromInv DEF IInv
  <2>6. queue.orders \in Seq(Order)
    BY <2>3, <2>4, <2>5, QueueAtOK
  <2>7. QueueOK(side, price, queue.orders, orderIndex, status)
    BY <2>3, QueueAtSound DEF PlaceInv
  <2>8. /\ incoming.id \in DOMAIN orderIndex'
        /\ orderIndex'[incoming.id] = <<side, price>>
        /\ DOMAIN orderIndex' = DOMAIN orderIndex \cup {incoming.id}
        /\ \A id \in DOMAIN orderIndex :
             id \in DOMAIN orderIndex' /\ orderIndex'[id] = orderIndex[id]
    BY <1>4, <2>1 DEF With
  <2>9. incoming.id \in DOMAIN status' /\ status'[incoming.id] = Known(incoming)
    BY <1>5, <2>2, <2>8
  <2>10. \A id \in DOMAIN orderIndex \cap DOMAIN status :
           id \in DOMAIN status' /\ status'[id] = status[id]
    BY <1>5, <2>8 DEF EntryAdded
  <2>11. incoming.remaining > 0
    BY <1>7 DEF Rests
  <2> HIDE DEF entry, queue, total
  <2>12. /\ QueueOK(side, price, orders, orderIndex', status')
         /\ InQueue(incoming.id, orders)
         /\ \A id : InQueue(id, queue.orders) => InQueue(id, orders)
    BY <1>1, <1>4, <2>6, <2>7, <2>8, <2>9, <2>10, <2>11, QueueJoined
  <2> HIDE DEF orders, side, price
  <2>13. QueuesOK(levels', orderIndex', status')
    <3>1. \A id \in DOMAIN orderIndex \cap DOMAIN status :
            orderIndex[id] # <<side, price>> =>
              /\ id \in DOMAIN orderIndex' /\ orderIndex'[id] = orderIndex[id]
              /\ id \in DOMAIN status' /\ status'[id] = status[id]
      BY <2>8, <2>10
    <3>2. QueuesOK(levels, orderIndex, status)
      BY DEF PlaceInv
    <3>3. QueuesOK(Requeued(side, price, orders, total), orderIndex', status')
      BY <2>3, <2>5, <2>12, <3>1, <3>2, QueuesReplaced
    <3> QED BY <2>1, <3>3
  <2>14. IndexOK(levels', orderIndex')
    <3>1. IsMap(orderIndex', OrderIds, Sides \X Prices)
      BY <1>0 DEF IInv, TypeOK
    <3>2. IndexOK(levels, orderIndex)
      BY DEF PlaceInv
    <3>3. ASSUME NEW id \in DOMAIN orderIndex'
          PROVE  \/ orderIndex'[id] = <<side, price>> /\ InQueue(id, orders)
                 \/ /\ id \in DOMAIN orderIndex /\ orderIndex'[id] = orderIndex[id]
                    /\ orderIndex'[id] # <<side, price>>
      <4>1. CASE id = incoming.id
        BY <2>8, <2>12, <4>1
      <4>2. CASE id \in DOMAIN orderIndex /\ orderIndex[id] = <<side, price>>
        <5>1. /\ orderIndex[id][1] = side /\ orderIndex[id][2] = price
              /\ price \in DOMAIN levels[side]
              /\ InQueue(id, levels[side][price].orders)
          BY <3>2, <4>2 DEF IndexOK
        <5>2. queue = levels[side][price]
          BY <5>1 DEF queue, QueueAt
        <5> QED BY <2>8, <2>12, <4>2, <5>1, <5>2
      <4>3. CASE id \in DOMAIN orderIndex /\ orderIndex[id] # <<side, price>>
        BY <2>8, <4>3
      <4> QED BY <2>8, <4>1, <4>2, <4>3
    <3>4. IndexedAt(orderIndex', side, price, orders)
      BY <3>1, <3>3 DEF IndexedAt
    <3>5. IndexOK(Requeued(side, price, orders, total), orderIndex')
      BY <2>3, <2>5, <3>2, <3>4, IndexReplaced
    <3> QED BY <2>1, <3>5
  <2>15. StopsOK'
    <3>1. \A id \in DOMAIN status : status[id] = Entry("PendingStop", 0) =>
            id \in DOMAIN status' /\ status'[id] = status[id]
      BY <1>5 DEF EntryAdded, Entry
    <3>2. /\ DOMAIN status' \subseteq DOMAIN status \cup DOMAIN orderIndex \cup {incoming.id}
          /\ DOMAIN orderIndex' \subseteq DOMAIN status \cup DOMAIN orderIndex \cup {incoming.id}
      BY <1>5, <2>8 DEF EntryAdded
    <3>3. StopsOK /\ UNCHANGED <<stopOrders, drained, ready>>
      BY <1>2 DEF PlaceInv
    <3> QED BY <1>4, <3>1, <3>2, <3>3, StopsKept
  <2>16. TakerOK' /\ PhasesOK'
    BY <1>1, <1>2, <1>3 DEF PlaceInv, TakerOK, PhasesOK
  <2> QED BY <1>0, <2>13, <2>14, <2>15, <2>16 DEF PlaceInv
<1> QED BY <1>6, <1>7


(* The orders that are ready after another one was submitted. *)
ReadyLeft(id) ==
  /\ \A i \in DOMAIN ready' : /\ \E j \in DOMAIN ready : ready'[i] = ready[j]
                              /\ ready'[i].id # id
  /\ Distinct(ready')

(* A stop order that is admitted joins the waiting ones. *)
LEMMA StopJoins ==
  ASSUME PlaceInv, IInv', NEW order \in Order, order.remaining = order.original,
         drained = << >>, ready = << >>, UNCHANGED <<drained, ready, fills>>,
         phase # "matching", ~Refused(order), AcceptStop(order)
  PROVE  PlaceInv'
<1> DEFINE stop  == [order EXCEPT !.sequence = nextSequence']
           entry == Entry("PendingStop", 0)
           id    == order.id
<1>0. TypeOK /\ TypeOK' /\ incoming = NoOrder
  BY DEF PlaceInv, IInv, TypeOK
<1>1. id \notin DOMAIN status /\ id \notin DOMAIN orderIndex
  BY DEF Refused, Duplicate
<1>2. /\ stopOrders' = Append(stopOrders, stop)
      /\ status' = Pruned(With(status, id, entry), orderIndex)
      /\ UNCHANGED <<levels, orderIndex, incoming>>
      /\ phase' = "triggering"
      /\ order.kind \in StopKinds
  BY DEF AcceptStop, Respond
<1>3. stop.id = id /\ Untouched(stop) /\ stop \in Order
  <2>1. nextSequence' \in Nat
    BY <1>0 DEF TypeOK
  <2> QED BY <1>2, <2>1 DEF Order, Untouched
<1>4. entry.state = "PendingStop"
  BY DEF Entry
<1> HIDE DEF stop, entry, id
<1>5. /\ EntryAdded(id, Pruned(With(status, id, entry), orderIndex), orderIndex)
      /\ id \in DOMAIN Pruned(With(status, id, entry), orderIndex)
      /\ Pruned(With(status, id, entry), orderIndex)[id] = entry
  BY <1>1, <1>4, EntryPruned
<1>6. EntryAdded(id, status', orderIndex) /\ id \in DOMAIN status' /\ status'[id] = entry
  BY <1>2, <1>5
<1>7. QueuesOK(levels', orderIndex', status') /\ IndexOK(levels', orderIndex')
  <2>1. \A other \in DOMAIN orderIndex \cap DOMAIN status :
          /\ other \in DOMAIN orderIndex /\ orderIndex[other] = orderIndex[other]
          /\ other \in DOMAIN status' /\ status'[other] = status[other]
    BY <1>6 DEF EntryAdded
  <2>2. QueuesOK(levels, orderIndex, status)
    BY DEF PlaceInv
  <2>3. QueuesOK(levels, orderIndex, status')
    BY <2>1, <2>2, QueuesKept
  <2> QED BY <1>2, <2>3 DEF PlaceInv
<1>8. StopsOK'
  <2> DEFINE last == Len(stopOrders) + 1
  <2>1. stopOrders \in Seq(Order)
    BY <1>0 DEF TypeOK
  <2>2. /\ DOMAIN stopOrders' = 1..last /\ stopOrders'[last] = stop
        /\ DOMAIN stopOrders = 1..last - 1
        /\ \A i \in DOMAIN stopOrders : stopOrders'[i] = stopOrders[i]
        /\ \A i \in DOMAIN stopOrders' : i = last \/ i \in DOMAIN stopOrders
    BY <1>2, <1>3, <2>1
  <2> HIDE DEF last
  <2>3. \A i \in DOMAIN stopOrders : Pending(stopOrders[i], status)
    BY DEF PlaceInv, StopsOK
  <2>4. \A i \in DOMAIN stopOrders :
          /\ stopOrders[i].id # id
          /\ Pending(stopOrders[i], status')
    <3> TAKE i \in DOMAIN stopOrders
    <3>1. /\ stopOrders[i].id \in DOMAIN status
          /\ status[stopOrders[i].id] = Entry("PendingStop", 0)
          /\ Untouched(stopOrders[i])
      BY <2>3 DEF Pending
    <3>2. status[stopOrders[i].id].state = "PendingStop"
      BY <3>1 DEF Entry
    <3> QED BY <1>1, <1>6, <3>1, <3>2 DEF EntryAdded, Pending
  <2>5. Pending(stop, status')
    BY <1>3, <1>6 DEF Pending, entry
  <2>6. \A i \in DOMAIN stopOrders' : Pending(stopOrders'[i], status')
    BY <2>2, <2>4, <2>5
  <2>7. Distinct(stopOrders')
    BY <1>3, <2>2, <2>4 DEF Distinct, PlaceInv, StopsOK
  <2>8. DOMAIN drained' = {} /\ DOMAIN ready' = {}
    OBVIOUS
  <2> QED BY <2>6, <2>7, <2>8 DEF StopsOK, Distinct
<1>9. TakerOK' /\ PhasesOK'
  BY <1>0, <1>2 DEF PlaceInv, TakerOK, PhasesOK
<1> QED BY <1>7, <1>8, <1>9 DEF PlaceInv

(* An order that does not touch the book on its entry: refused, expired,   *)
(* or on its way into the match loop.                                      *)
LEMMA EntryPlaces ==
  ASSUME PlaceInv, IInv', NEW order \in Order, order.remaining = order.original,
         drained = << >>, ReadyLeft(order.id), UNCHANGED <<drained, fills>>,
         phase # "matching",
         UNCHANGED <<levels, stopOrders, orderIndex, status>>,
         \/ phase' = "triggering" /\ incoming' = incoming
         \/ /\ phase' = "matching" /\ ~Refused(order)
            /\ incoming'.id = order.id
            /\ incoming'.remaining = order.remaining
            /\ incoming'.original = order.original
  PROVE  PlaceInv'
<1>1. QueuesOK(levels', orderIndex', status') /\ IndexOK(levels', orderIndex')
  BY DEF PlaceInv
<1>2. StopsOK'
  <2>1. StopsOK
    BY DEF PlaceInv
  <2>2. \A i \in DOMAIN ready' : Awaited(ready'[i], orderIndex, status)
    BY <2>1 DEF StopsOK, ReadyLeft
  <2>3. Distinct(ready') /\ DOMAIN drained' = {}
    BY DEF ReadyLeft
  <2> QED BY <2>1, <2>2, <2>3 DEF StopsOK, Distinct
<1>3. TakerOK'
  <2>1. CASE phase' = "triggering" /\ incoming' = incoming
    <3>1. incoming = NoOrder
      BY DEF PlaceInv, IInv, TypeOK
    <3> QED BY <2>1, <3>1 DEF TakerOK
  <2>2. CASE /\ phase' = "matching" /\ ~Refused(order)
             /\ incoming'.id = order.id
             /\ incoming'.remaining = order.remaining
             /\ incoming'.original = order.original
    <3>1. order.id \notin DOMAIN status \cup DOMAIN orderIndex
      BY <2>2 DEF Refused, Duplicate
    <3>2. fills' = << >>
      BY DEF PlaceInv, PhasesOK
    <3>3. incoming'.remaining <= incoming'.original
      BY <2>2 DEF Order
    <3> QED BY <2>2, <3>1, <3>2, <3>3 DEF TakerOK, ReadyLeft
  <2> QED BY <2>1, <2>2
<1>4. PhasesOK'
  BY DEF PlaceInv, PhasesOK
<1> QED BY <1>1, <1>2, <1>3, <1>4 DEF PlaceInv

(* An order that is admitted. *)
LEMMA AdmitPlaces ==
  ASSUME PlaceInv, IInv', NEW order \in Order, order.remaining = order.original,
         drained = << >>, ReadyLeft(order.id), UNCHANGED <<drained, fills>>,
         phase # "matching", Admit(order),
         order.kind \in StopKinds => ready = << >> /\ ready' = ready
  PROVE  PlaceInv'
<1>1. CASE AcceptStop(order)
  <2>1. ready = << >> /\ ready' = ready /\ ~Refused(order)
    BY <1>1 DEF AcceptStop, Admit
  <2> QED BY <1>1, <2>1, StopJoins
<1>2. CASE ExpireUnfillable(order)
  <2>1. phase' = "triggering" /\ UNCHANGED <<levels, stopOrders, orderIndex, status, incoming>>
    BY <1>2 DEF ExpireUnfillable, Respond, book
  <2> QED BY <2>1, EntryPlaces
<1>3. CASE StartMatching(order)
  <2>1. /\ phase' = "matching" /\ ~Refused(order)
        /\ UNCHANGED <<levels, stopOrders, orderIndex, status>>
        /\ incoming' = [order EXCEPT !.sequence = nextSequence']
    BY <1>3 DEF StartMatching, Admit
  <2>2. /\ incoming'.id = order.id
        /\ incoming'.remaining = order.remaining
        /\ incoming'.original = order.original
    BY <2>1 DEF Order
  <2> QED BY <2>1, <2>2, EntryPlaces
<1> QED BY <1>1, <1>2, <1>3 DEF Admit

(* While the mutex is free no order is ready. *)
LEMMA NoneReady ==
  ASSUME PlaceInv, phase = "idle", UNCHANGED ready, NEW id
  PROVE  drained = << >> /\ ready = << >> /\ ReadyLeft(id)
BY DEF PlaceInv, PhasesOK, ReadyLeft, Distinct

LEMMA SubmitOrderPlaces ==
  ASSUME PlaceInv, SubmitOrder
  PROVE  PlaceInv'
<1>1. PICK order \in Requests : Admit(order)
  BY DEF SubmitOrder
<1>2. order \in Order /\ order.remaining = order.original
  BY RequestsAreOrders DEF Requests
<1>3. phase = "idle" /\ UNCHANGED <<fills, drained, ready>>
  BY DEF SubmitOrder, cascade
<1>4. IInv'
  BY SubmitOrderOK DEF PlaceInv
<1>5. drained = << >> /\ ready = << >> /\ ReadyLeft(order.id)
  BY <1>3, NoneReady
<1> QED BY <1>1, <1>2, <1>3, <1>4, <1>5, AdmitPlaces

LEMMA RefuseOrderPlaces ==
  ASSUME PlaceInv, RefuseOrder
  PROVE  PlaceInv'
<1>1. PICK order \in Requests : Refuse(order.id)
  BY DEF RefuseOrder
<1>2. order \in Order /\ order.remaining = order.original
  BY RequestsAreOrders DEF Requests
<1>3. phase = "idle" /\ UNCHANGED <<fills, drained, ready>>
  BY DEF RefuseOrder, cascade
<1>4. IInv'
  BY RefuseOrderOK DEF PlaceInv
<1>5. drained = << >> /\ ready = << >> /\ ReadyLeft(order.id)
  BY <1>3, NoneReady
<1>6. phase' = "triggering" /\ UNCHANGED <<levels, stopOrders, orderIndex, status, incoming>>
  BY <1>1 DEF Refuse, Respond, book
<1> QED BY <1>2, <1>3, <1>4, <1>5, <1>6, EntryPlaces

(* A list without its first order. *)
LEMMA ShorterList ==
  ASSUME NEW list \in Seq(Order), list # << >>, Distinct(list)
  PROVE  /\ Head(list) = list[1] /\ Head(list) \in Order /\ 1 \in DOMAIN list
         /\ Distinct(Tail(list)) /\ Tail(list) \in Seq(Order)
         /\ \A i \in DOMAIN Tail(list) : /\ i + 1 \in DOMAIN list
                                        /\ Tail(list)[i] = list[i + 1]
                                        /\ Tail(list)[i].id # Head(list).id
<1>1. /\ Head(list) = list[1] /\ Head(list) \in Order /\ 1 \in DOMAIN list
      /\ Tail(list) \in Seq(Order)
  OBVIOUS
<1>2. \A i \in DOMAIN Tail(list) : i \in Nat /\ i + 1 \in DOMAIN list /\ i + 1 # 1
                                   /\ Tail(list)[i] = list[i + 1]
  OBVIOUS
<1>3. \A i \in DOMAIN Tail(list) : Tail(list)[i].id # Head(list).id
  BY <1>1, <1>2 DEF Distinct
<1>4. Distinct(Tail(list))
  <2> SUFFICES ASSUME NEW i \in DOMAIN Tail(list), NEW j \in DOMAIN Tail(list),
                      Tail(list)[i].id = Tail(list)[j].id
               PROVE  i = j
    BY DEF Distinct
  <2>1. i + 1 = j + 1
    BY <1>2 DEF Distinct
  <2> QED BY <1>2, <2>1
<1> QED BY <1>1, <1>2, <1>3, <1>4

LEMMA SubmitTriggeredPlaces ==
  ASSUME PlaceInv, SubmitTriggered
  PROVE  PlaceInv'
<1> DEFINE order == [Head(ready) EXCEPT
                       !.kind = IF @ = "StopMarket" THEN "Market" ELSE "Limit"]
<1>1. IInv /\ IInv' /\ TypeOK /\ StopsOK
  BY SubmitTriggeredOK DEF PlaceInv, IInv
<1>2. /\ ready \in Seq(Order) /\ ready # << >> /\ phase = "triggering"
      /\ drained = << >> /\ ready' = Tail(ready) /\ UNCHANGED <<drained, fills>>
  BY <1>1 DEF TypeOK, SubmitTriggered
<1>3. /\ Head(ready) = ready[1] /\ Head(ready) \in Order /\ 1 \in DOMAIN ready
      /\ Distinct(Tail(ready))
      /\ \A i \in DOMAIN Tail(ready) : /\ i + 1 \in DOMAIN ready
                                      /\ Tail(ready)[i] = ready[i + 1]
                                      /\ Tail(ready)[i].id # Head(ready).id
  BY <1>1, <1>2, ShorterList DEF StopsOK
<1>4. /\ order \in Order /\ order.id = Head(ready).id
      /\ order.remaining = Head(ready).remaining
      /\ order.original = Head(ready).original
      /\ order.kind \notin StopKinds
  BY <1>3 DEF Order, Kinds, StopKinds
<1>5. order.remaining = order.original
  BY <1>1, <1>3, <1>4 DEF StopsOK, Awaited, Untouched
<1>6. IF Refused(order) THEN Refuse(order.id) ELSE Admit(order)
  BY DEF SubmitTriggered, Enter
<1> HIDE DEF order
<1>7. ReadyLeft(order.id)
  BY <1>2, <1>3, <1>4 DEF ReadyLeft
<1>8. CASE Refused(order)
  <2>1. phase' = "triggering" /\ UNCHANGED <<levels, stopOrders, orderIndex, status, incoming>>
    BY <1>6, <1>8 DEF Refuse, Respond, book
  <2> QED BY <1>1, <1>2, <1>4, <1>5, <1>7, <2>1, EntryPlaces
<1>9. CASE ~Refused(order)
  BY <1>1, <1>2, <1>4, <1>5, <1>6, <1>7, <1>9, AdmitPlaces
<1> QED BY <1>8, <1>9


(* The log knows every order of the index as resting. *)
LEMMA IndexedIsKnown ==
  ASSUME IInv, QueuesOK(levels, orderIndex, status), IndexOK(levels, orderIndex),
         NEW id \in DOMAIN orderIndex
  PROVE  /\ id \in DOMAIN status
         /\ status[id].state \in {"New", "PartiallyFilled"}
         /\ \E side \in Sides : \E price \in DOMAIN levels[side] :
              \E i \in DOMAIN levels[side][price].orders :
                /\ orderIndex[id] = <<side, price>>
                /\ levels[side][price].orders[i].id = id
<1> DEFINE side  == orderIndex[id][1]
           price == orderIndex[id][2]
<1>1. orderIndex[id] \in Sides \X Prices
  BY DEF IInv, TypeOK, IsMap
<1>2. side \in Sides /\ orderIndex[id] = <<side, price>>
  BY <1>1
<1>3. price \in DOMAIN levels[side] /\ InQueue(id, levels[side][price].orders)
  BY DEF IndexOK
<1> HIDE DEF side, price
<1>4. PICK i \in DOMAIN levels[side][price].orders : levels[side][price].orders[i].id = id
  BY <1>3 DEF InQueue
<1>5. QueueOK(side, price, levels[side][price].orders, orderIndex, status)
  BY <1>2, <1>3 DEF QueuesOK
<1>6. id \in DOMAIN status /\ status[id] = Known(levels[side][price].orders[i])
  BY <1>4, <1>5 DEF QueueOK
<1> QED BY <1>2, <1>3, <1>4, <1>6 DEF Known, Entry

(* Two lists joined by one order that is in neither. *)
LEMMA LongerList ==
  ASSUME NEW list \in Seq(Order), NEW order \in Order, Distinct(list),
         \A i \in DOMAIN list : list[i].id # order.id
  PROVE  /\ Distinct(Append(list, order))
         /\ \A i \in DOMAIN Append(list, order) :
              \/ Append(list, order)[i] = order
              \/ i \in DOMAIN list /\ Append(list, order)[i] = list[i]
<1> DEFINE new == Append(list, order)
           last == Len(list) + 1
<1>1. /\ \A i \in DOMAIN new : i = last \/ i \in DOMAIN list
      /\ new[last] = order
      /\ \A i \in DOMAIN list : new[i] = list[i]
  OBVIOUS
<1> HIDE DEF new, last
<1>2. Distinct(new)
  BY <1>1 DEF Distinct
<1> QED BY <1>1, <1>2 DEF new

LEMMA PopTriggerPricePlaces ==
  ASSUME PlaceInv, PopTriggerPrice
  PROVE  PlaceInv'
<1>1. IInv'
  BY PopTriggerPriceOK DEF PlaceInv
<1>2. /\ UNCHANGED <<levels, orderIndex, status, phase, incoming, fills, ready>>
      /\ drained' = stopOrders /\ stopOrders' = << >> /\ drained = << >>
      /\ phase = "triggering"
  BY DEF PopTriggerPrice
<1>3. QueuesOK(levels', orderIndex', status') /\ IndexOK(levels', orderIndex')
  BY <1>2 DEF PlaceInv
<1>4. StopsOK'
  BY <1>2 DEF PlaceInv, StopsOK, Distinct
<1>5. TakerOK' /\ PhasesOK'
  BY <1>2 DEF PlaceInv, TakerOK, PhasesOK
<1> QED BY <1>1, <1>3, <1>4, <1>5 DEF PlaceInv

(* A stop order is in one of the three lists, never in two. *)
LEMMA DrainStopPlaces ==
  ASSUME PlaceInv, DrainStop
  PROVE  PlaceInv'
<1> DEFINE stop == Head(drained)
<1>1. IInv /\ IInv' /\ TypeOK /\ StopsOK
  BY DrainStopOK DEF PlaceInv, IInv
<1>2. /\ drained \in Seq(Order) /\ drained # << >> /\ drained' = Tail(drained)
      /\ ready \in Seq(Order) /\ stopOrders \in Seq(Order)
      /\ phase = "triggering"
      /\ UNCHANGED <<levels, orderIndex, phase, incoming, fills>>
  BY <1>1 DEF TypeOK, DrainStop
<1>3. /\ stop = drained[1] /\ stop \in Order /\ 1 \in DOMAIN drained
      /\ Distinct(Tail(drained))
      /\ \A i \in DOMAIN Tail(drained) : /\ i + 1 \in DOMAIN drained
                                        /\ Tail(drained)[i] = drained[i + 1]
                                        /\ Tail(drained)[i].id # stop.id
  BY <1>1, <1>2, ShorterList DEF StopsOK
<1> HIDE DEF stop
<1>4. Pending(stop, status)
  BY <1>1, <1>3 DEF StopsOK
<1>5. stop.id \in DOMAIN status /\ status[stop.id].state = "PendingStop"
  BY <1>4 DEF Pending, Entry
<1>6. stop.id \notin DOMAIN orderIndex
  BY <1>1, <1>5, IndexedIsKnown DEF PlaceInv
<1>7. \A i \in DOMAIN stopOrders : stopOrders[i].id # stop.id
  BY <1>1, <1>3 DEF StopsOK
<1>8. \A i \in DOMAIN stopOrders, j \in DOMAIN Tail(drained) :
        stopOrders[i].id # Tail(drained)[j].id
  BY <1>1, <1>3 DEF StopsOK
<1>9. TakerOK' /\ PhasesOK'
  <2>1. incoming = NoOrder
    BY <1>1, <1>2 DEF TypeOK
  <2> QED BY <1>2, <2>1 DEF PlaceInv, TakerOK, PhasesOK
<1>10. CASE Triggered(stop, lastPrice)
  <2>1. /\ ready' = Append(ready, stop)
        /\ status' = Without(status, {stop.id})
        /\ stopOrders' = stopOrders
    BY <1>10 DEF DrainStop, stop
  <2>2. /\ DOMAIN status' = DOMAIN status \ {stop.id}
        /\ \A id \in DOMAIN status : id # stop.id => status'[id] = status[id]
    BY <2>1 DEF Without
  <2>3. QueuesOK(levels', orderIndex', status') /\ IndexOK(levels', orderIndex')
    <3>1. \A id \in DOMAIN orderIndex \cap DOMAIN status :
            /\ id \in DOMAIN orderIndex /\ orderIndex[id] = orderIndex[id]
            /\ id \in DOMAIN status' /\ status'[id] = status[id]
      BY <1>6, <2>2
    <3>2. QueuesOK(levels, orderIndex, status)
      BY DEF PlaceInv
    <3>3. QueuesOK(levels, orderIndex, status')
      BY <3>1, <3>2, QueuesKept
    <3> QED BY <1>2, <3>3 DEF PlaceInv
  <2>4. /\ \A i \in DOMAIN stopOrders' : Pending(stopOrders'[i], status')
        /\ \A i \in DOMAIN drained' : Pending(drained'[i], status')
    <3>1. ASSUME NEW other, Pending(other, status), other.id # stop.id
          PROVE  Pending(other, status')
      BY <2>2, <3>1 DEF Pending
    <3>2. \A i \in DOMAIN stopOrders' : Pending(stopOrders'[i], status')
      BY <1>1, <1>7, <2>1, <3>1 DEF StopsOK
    <3>3. \A i \in DOMAIN drained' :
            Pending(drained'[i], status) /\ drained'[i].id # stop.id
      BY <1>1, <1>2, <1>3 DEF StopsOK
    <3> QED BY <3>1, <3>2, <3>3
  <2>5. \A i \in DOMAIN ready : ready[i].id # stop.id
    BY <1>1, <1>5 DEF StopsOK, Awaited
  <2>6. /\ Distinct(ready')
        /\ \A i \in DOMAIN ready' : ready'[i] = stop \/ \E j \in DOMAIN ready : ready'[i] = ready[j]
    <3>1. /\ Distinct(Append(ready, stop))
          /\ \A i \in DOMAIN Append(ready, stop) :
               \/ Append(ready, stop)[i] = stop
               \/ i \in DOMAIN ready /\ Append(ready, stop)[i] = ready[i]
      BY <1>1, <1>2, <1>3, <2>5, LongerList DEF StopsOK
    <3> QED BY <2>1, <3>1
  <2>7. Awaited(stop, orderIndex', status')
    BY <1>2, <1>4, <1>6, <2>2 DEF Awaited, Pending
  <2>8. \A i \in DOMAIN ready : Awaited(ready[i], orderIndex', status')
    BY <1>1, <1>2, <2>2 DEF StopsOK, Awaited
  <2>9. \A i \in DOMAIN ready' : Awaited(ready'[i], orderIndex', status')
    BY <2>6, <2>7, <2>8
  <2>10. StopsOK'
    BY <1>1, <1>2, <1>3, <1>8, <2>1, <2>4, <2>6, <2>9 DEF StopsOK
  <2> QED BY <1>1, <1>9, <2>3, <2>10 DEF PlaceInv
<1>11. CASE ~Triggered(stop, lastPrice)
  <2>1. stopOrders' = Append(stopOrders, stop) /\ UNCHANGED <<ready, status>>
    BY <1>11 DEF DrainStop, stop
  <2>2. QueuesOK(levels', orderIndex', status') /\ IndexOK(levels', orderIndex')
    BY <1>2, <2>1 DEF PlaceInv
  <2>3. /\ Distinct(stopOrders')
        /\ \A i \in DOMAIN stopOrders' :
             stopOrders'[i] = stop \/ \E j \in DOMAIN stopOrders : stopOrders'[i] = stopOrders[j]
    <3>1. /\ Distinct(Append(stopOrders, stop))
          /\ \A i \in DOMAIN Append(stopOrders, stop) :
               \/ Append(stopOrders, stop)[i] = stop
               \/ i \in DOMAIN stopOrders /\ Append(stopOrders, stop)[i] = stopOrders[i]
      BY <1>1, <1>2, <1>3, <1>7, LongerList DEF StopsOK
    <3> QED BY <2>1, <3>1
  <2>4. /\ \A i \in DOMAIN stopOrders' : Pending(stopOrders'[i], status')
        /\ \A i \in DOMAIN drained' : Pending(drained'[i], status')
        /\ \A i \in DOMAIN ready' : Awaited(ready'[i], orderIndex', status')
    BY <1>1, <1>2, <1>3, <1>4, <2>1, <2>3 DEF StopsOK
  <2>5. \A i \in DOMAIN stopOrders', j \in DOMAIN drained' :
          stopOrders'[i].id # drained'[j].id
    BY <1>2, <1>3, <1>8, <2>3
  <2>6. StopsOK'
    BY <1>1, <1>2, <1>3, <2>1, <2>3, <2>4, <2>5 DEF StopsOK
  <2> QED BY <1>1, <1>9, <2>2, <2>6 DEF PlaceInv
<1> QED BY <1>10, <1>11

LEMMA ReleasePlaces ==
  ASSUME PlaceInv, Release
  PROVE  PlaceInv'
<1>1. IInv' /\ TypeOK
  BY ReleaseOK DEF PlaceInv, IInv
<1>2. /\ phase = "triggering" /\ phase' = "idle" /\ ready = << >> /\ drained = << >>
      /\ UNCHANGED <<levels, stopOrders, orderIndex, status, incoming, fills,
                     drained, ready>>
  BY DEF Release, book
<1>3. QueuesOK(levels', orderIndex', status') /\ IndexOK(levels', orderIndex') /\ StopsOK'
  BY <1>2 DEF PlaceInv, StopsOK, Distinct
<1>4. TakerOK' /\ PhasesOK'
  BY <1>1, <1>2 DEF PlaceInv, TakerOK, PhasesOK, TypeOK
<1> QED BY <1>1, <1>3, <1>4 DEF PlaceInv


(* The log after an order was cancelled: what is still indexed, or a stop  *)
(* order that waits, is as it was.                                         *)
LEMMA CancelledLog ==
  ASSUME NEW id \in DOMAIN status, NEW entry, NEW index
  PROVE  LET log == Pruned(With(status, id, entry), index)
         IN /\ DOMAIN log \subseteq DOMAIN status
            /\ \A other \in DOMAIN status :
                 /\ other # id
                 /\ \/ other \in DOMAIN index
                    \/ status[other].state = "PendingStop"
                 => other \in DOMAIN log /\ log[other] = status[other]
<1> DEFINE with == With(status, id, entry)
           log  == Pruned(with, index)
<1>1. /\ DOMAIN with = DOMAIN status
      /\ \A k \in DOMAIN status : k # id => with[k] = status[k]
  BY DEF With
<1> HIDE DEF with
<1>2. /\ DOMAIN log \subseteq DOMAIN with
      /\ \A k \in DOMAIN log : log[k] = with[k]
      /\ \A k \in DOMAIN with :
           \/ k \in DOMAIN index
           \/ with[k].state \in {"New", "PartiallyFilled", "PendingStop"}
           => k \in DOMAIN log
  BY PrunedKeeps
<1> HIDE DEF log
<1>3. /\ DOMAIN log \subseteq DOMAIN status
      /\ \A other \in DOMAIN status :
           /\ other # id
           /\ \/ other \in DOMAIN index
              \/ status[other].state = "PendingStop"
           => other \in DOMAIN log /\ log[other] = status[other]
  BY <1>1, <1>2
<1> QED BY <1>3 DEF log, with

(* A cancelled order leaves its queue and the index together. *)
LEMMA CancelRestingPlaces ==
  ASSUME PlaceInv, CancelResting
  PROVE  PlaceInv'
<1>0. IInv /\ IInv' /\ TypeOK /\ LevelsOK(levels)
  BY CancelRestingOK, LevelsFromInv DEF PlaceInv, IInv
<1>1. PICK id \in DOMAIN orderIndex : CancelAtLevel(id)
  BY DEF CancelResting
<1> DEFINE side  == orderIndex[id][1]
           price == orderIndex[id][2]
           level == levels[side][price]
           orders == level.orders
<1>2. PICK i \in DOMAIN orders :
        /\ orders[i].id = id
        /\ levels' = Requeued(side, price, RemoveAt(orders, i),
                              level.total - orders[i].remaining)
        /\ orderIndex' = Without(orderIndex, {id})
        /\ status' = Pruned(With(status, id,
                       Entry("Cancelled", FilledQuantity(orders[i]))), orderIndex')
  BY <1>1 DEF CancelAtLevel
<1>3. /\ price \in DOMAIN levels[side]
      /\ UNCHANGED <<stopOrders, phase, incoming, fills, drained, ready>>
      /\ phase = "idle"
  BY <1>1 DEF CancelAtLevel, CancelResting, cascade
<1>4. side \in Sides /\ price \in Prices /\ orderIndex[id] = <<side, price>>
  <2>1. orderIndex[id] \in Sides \X Prices
    BY <1>0 DEF TypeOK, IsMap
  <2> QED BY <2>1
<1>5. orders \in Seq(Order)
  <2> HIDE DEF side, price
  <2>1. level \in Level
    BY <1>0, <1>3, <1>4 DEF LevelsOK, IsMap
  <2> QED BY <2>1 DEF Level
<1> DEFINE total == level.total - orders[i].remaining
           rest  == RemoveAt(orders, i)
           entry == Entry("Cancelled", FilledQuantity(orders[i]))
<1>6. /\ levels' = Requeued(side, price, rest, total)
      /\ status' = Pruned(With(status, id, entry), orderIndex')
  BY <1>2
<1> HIDE DEF side, price, total, entry, level
<1>7. /\ DOMAIN orderIndex' = DOMAIN orderIndex \ {id}
      /\ \A other \in DOMAIN orderIndex : other # id => orderIndex'[other] = orderIndex[other]
  BY <1>2 DEF Without
<1>8. id \in DOMAIN status /\ status[id].state # "PendingStop"
  BY <1>0, IndexedIsKnown DEF PlaceInv
<1>9. /\ DOMAIN status' \subseteq DOMAIN status
      /\ \A other \in DOMAIN status :
           /\ other # id
           /\ \/ other \in DOMAIN orderIndex'
              \/ status[other].state = "PendingStop"
           => other \in DOMAIN status' /\ status'[other] = status[other]
  <2>1. LET log == Pruned(With(status, id, entry), orderIndex')
        IN /\ DOMAIN log \subseteq DOMAIN status
           /\ \A other \in DOMAIN status :
                /\ other # id
                /\ \/ other \in DOMAIN orderIndex'
                   \/ status[other].state = "PendingStop"
                => other \in DOMAIN log /\ log[other] = status[other]
    BY <1>8, CancelledLog
  <2> QED BY <1>6, <2>1
<1>10. QueueOK(side, price, orders, orderIndex, status)
  BY <1>3, <1>4 DEF PlaceInv, QueuesOK, level
<1>11. /\ QueueOK(side, price, rest, orderIndex', status')
       /\ \A other : InQueue(other, orders) /\ other # id => InQueue(other, rest)
  <2>1. \A other \in DOMAIN orderIndex \cap DOMAIN status : other # orders[i].id =>
           /\ other \in DOMAIN orderIndex' /\ orderIndex'[other] = orderIndex[other]
           /\ other \in DOMAIN status' /\ status'[other] = status[other]
    BY <1>2, <1>7, <1>9
  <2> HIDE DEF orders
  <2>2. /\ QueueOK(side, price, RemoveAt(orders, i), orderIndex', status')
        /\ \A other : InQueue(other, orders) /\ other # orders[i].id
                        => InQueue(other, RemoveAt(orders, i))
    BY <1>5, <1>10, <2>1, QueueWithout
  <2> QED BY <1>2, <2>2
<1> HIDE DEF rest
<1>12. QueuesOK(levels', orderIndex', status')
  <2>1. \A other \in DOMAIN orderIndex \cap DOMAIN status :
          orderIndex[other] # <<side, price>> =>
            /\ other \in DOMAIN orderIndex' /\ orderIndex'[other] = orderIndex[other]
            /\ other \in DOMAIN status' /\ status'[other] = status[other]
    BY <1>4, <1>7, <1>9
  <2>2. QueuesOK(levels, orderIndex, status)
    BY DEF PlaceInv
  <2>3. QueuesOK(Requeued(side, price, rest, total), orderIndex', status')
    BY <1>0, <1>4, <1>11, <2>1, <2>2, QueuesReplaced
  <2> QED BY <1>6, <2>3
<1>13. IndexOK(levels', orderIndex')
  <2>1. IsMap(orderIndex', OrderIds, Sides \X Prices)
    BY <1>0 DEF IInv, TypeOK
  <2>2. IndexOK(levels, orderIndex)
    BY DEF PlaceInv
  <2>3. ASSUME NEW other \in DOMAIN orderIndex'
        PROVE  \/ orderIndex'[other] = <<side, price>> /\ InQueue(other, rest)
               \/ /\ other \in DOMAIN orderIndex /\ orderIndex'[other] = orderIndex[other]
                  /\ orderIndex'[other] # <<side, price>>
    <3>1. other \in DOMAIN orderIndex /\ other # id /\ orderIndex'[other] = orderIndex[other]
      BY <1>7
    <3>2. CASE orderIndex[other] = <<side, price>>
      <4>1. InQueue(other, orders)
        BY <2>2, <3>1, <3>2 DEF IndexOK, level
      <4> QED BY <1>11, <3>1, <3>2, <4>1
    <3> QED BY <3>1, <3>2
  <2>4. IndexedAt(orderIndex', side, price, rest)
    BY <2>1, <2>3 DEF IndexedAt
  <2>5. IndexOK(Requeued(side, price, rest, total), orderIndex')
    BY <1>0, <1>4, <2>2, <2>4, IndexReplaced
  <2> QED BY <1>6, <2>5
<1>14. StopsOK'
  <2>1. \A other \in DOMAIN status : status[other] = Entry("PendingStop", 0) =>
          other \in DOMAIN status' /\ status'[other] = status[other]
    BY <1>8, <1>9 DEF Entry
  <2>2. \A k \in DOMAIN ready : ready[k].id # id
    BY <1>8 DEF PlaceInv, StopsOK, Awaited
  <2>3. StopsOK /\ UNCHANGED <<stopOrders, drained, ready>>
    BY <1>3 DEF PlaceInv
  <2>4. /\ DOMAIN status' \subseteq DOMAIN status \cup DOMAIN orderIndex \cup {id}
        /\ DOMAIN orderIndex' \subseteq DOMAIN status \cup DOMAIN orderIndex \cup {id}
    BY <1>7, <1>9
  <2> QED BY <2>1, <2>2, <2>3, <2>4, StopsKept
<1>15. TakerOK' /\ PhasesOK'
  <2>1. incoming = NoOrder
    BY <1>0, <1>3 DEF TypeOK
  <2> QED BY <1>3, <2>1 DEF PlaceInv, TakerOK, PhasesOK
<1> QED BY <1>0, <1>12, <1>13, <1>14, <1>15 DEF PlaceInv

(* A cancelled stop order leaves the list and the open states together. *)
LEMMA CancelStopPlaces ==
  ASSUME PlaceInv, CancelStop
  PROVE  PlaceInv'
<1>0. IInv /\ IInv' /\ TypeOK /\ StopsOK
  BY CancelStopOK DEF PlaceInv, IInv
<1>1. PICK g \in DOMAIN stopOrders : CancelStopAt(g)
  BY DEF CancelStop
<1> DEFINE id    == stopOrders[g].id
           entry == Entry("Cancelled", FilledQuantity(stopOrders[g]))
<1>2. /\ id \notin DOMAIN orderIndex
      /\ stopOrders' = RemoveAt(stopOrders, g)
      /\ status' = Pruned(With(status, id, entry), orderIndex)
      /\ UNCHANGED <<levels, orderIndex, phase, incoming, fills, drained, ready>>
      /\ phase = "idle"
  BY <1>1 DEF CancelStopAt, CancelStop, cascade
<1>3. stopOrders \in Seq(Order) /\ drained = << >> /\ ready = << >>
  BY <1>0, <1>2 DEF TypeOK, PlaceInv, PhasesOK
<1>4. id \in DOMAIN status
  BY <1>0 DEF StopsOK, Pending
<1> HIDE DEF entry
<1>5. /\ DOMAIN status' \subseteq DOMAIN status
      /\ \A other \in DOMAIN status :
           /\ other # id
           /\ \/ other \in DOMAIN orderIndex
              \/ status[other].state = "PendingStop"
           => other \in DOMAIN status' /\ status'[other] = status[other]
  <2> HIDE DEF id
  <2>1. LET log == Pruned(With(status, id, entry), orderIndex)
        IN /\ DOMAIN log \subseteq DOMAIN status
           /\ \A other \in DOMAIN status :
                /\ other # id
                /\ \/ other \in DOMAIN orderIndex
                   \/ status[other].state = "PendingStop"
                => other \in DOMAIN log /\ log[other] = status[other]
    BY <1>4, CancelledLog
  <2> QED BY <1>2, <2>1
<1>6. QueuesOK(levels', orderIndex', status') /\ IndexOK(levels', orderIndex')
  <2>1. \A other \in DOMAIN orderIndex \cap DOMAIN status :
          /\ other \in DOMAIN orderIndex /\ orderIndex[other] = orderIndex[other]
          /\ other \in DOMAIN status' /\ status'[other] = status[other]
    BY <1>2, <1>5
  <2>2. QueuesOK(levels, orderIndex, status)
    BY DEF PlaceInv
  <2>3. QueuesOK(levels, orderIndex, status')
    BY <2>1, <2>2, QueuesKept
  <2> QED BY <1>2, <2>3 DEF PlaceInv
<1>7. StopsOK'
  <2> DEFINE at(j) == IF j < g THEN j ELSE j + 1
             n == Len(stopOrders) - 1
  <2>1. /\ RemoveAt(stopOrders, g) \in Seq(Order)
        /\ Len(RemoveAt(stopOrders, g)) = Len(stopOrders) - 1
        /\ \A j \in 1..Len(stopOrders) - 1 : RemoveAt(stopOrders, g)[j] = stopOrders[at(j)]
    BY <1>3, RemoveAtPlaces
  <2>2. DOMAIN stopOrders' = 1..n /\ \A j \in 1..n : stopOrders'[j] = stopOrders[at(j)]
    BY <1>2, <2>1
  <2>3. \A j \in 1..n : at(j) \in DOMAIN stopOrders /\ at(j) # g
    BY <1>3
  <2>4. \A j, k \in 1..n : at(j) = at(k) => j = k
    BY <1>3
  <2> HIDE DEF at, n
  <2>5. ASSUME NEW j \in DOMAIN stopOrders'
        PROVE  Pending(stopOrders'[j], status')
    <3>1. /\ stopOrders'[j] = stopOrders[at(j)] /\ at(j) \in DOMAIN stopOrders
          /\ at(j) # g
      BY <2>2, <2>3
    <3>2. Pending(stopOrders[at(j)], status) /\ stopOrders[at(j)].id # id
      BY <1>0, <3>1 DEF StopsOK, Distinct
    <3> QED BY <1>5, <3>1, <3>2 DEF Pending, Entry
  <2>6. Distinct(stopOrders')
    BY <1>0, <2>2, <2>3, <2>4 DEF StopsOK, Distinct
  <2>7. DOMAIN drained' = {} /\ DOMAIN ready' = {}
    BY <1>2, <1>3
  <2> QED BY <2>5, <2>6, <2>7 DEF StopsOK, Distinct
<1>8. TakerOK' /\ PhasesOK'
  <2>1. incoming = NoOrder
    BY <1>0, <1>2 DEF TypeOK
  <2> QED BY <1>2, <2>1 DEF PlaceInv, TakerOK, PhasesOK
<1> QED BY <1>0, <1>6, <1>7, <1>8 DEF PlaceInv

LEMMA InitPlaces == Init => PlaceInv
<1> SUFFICES ASSUME Init PROVE PlaceInv
  OBVIOUS
<1>1. QueuesOK(levels, orderIndex, status) /\ IndexOK(levels, orderIndex)
  BY DEF Init, QueuesOK, QueueOK, IndexOK, Sides
<1>2. StopsOK /\ TakerOK /\ PhasesOK
  BY DEF Init, StopsOK, TakerOK, PhasesOK, Distinct
<1> QED BY <1>1, <1>2, InitIInv DEF PlaceInv

(* Every step keeps every live order in its place. *)
LEMMA NextPlaces == PlaceInv /\ [Next]_vars => PlaceInv'
<1> SUFFICES ASSUME PlaceInv, [Next]_vars PROVE PlaceInv'
  OBVIOUS
<1>1. CASE SubmitOrder     BY <1>1, SubmitOrderPlaces
<1>2. CASE RefuseOrder     BY <1>2, RefuseOrderPlaces
<1>3. CASE FillBest        BY <1>3, FillBestPlaces
<1>4. CASE PreventSelfTrade BY <1>4, PreventSelfTradePlaces
<1>5. CASE Finish          BY <1>5, FinishPlaces
<1>6. CASE PopTriggerPrice BY <1>6, PopTriggerPricePlaces
<1>7. CASE DrainStop       BY <1>7, DrainStopPlaces
<1>8. CASE SubmitTriggered BY <1>8, SubmitTriggeredPlaces
<1>9. CASE Release         BY <1>9, ReleasePlaces
<1>10. CASE CancelResting  BY <1>10, CancelRestingPlaces
<1>11. CASE CancelStop     BY <1>11, CancelStopPlaces
<1>12. CASE UNCHANGED vars
  <2>1. UNCHANGED <<levels, stopOrders, orderIndex, status, phase, incoming,
                    fills, drained, ready>>
    BY <1>12 DEF vars, book, cascade
  <2>2. IInv'
    BY NextIInv DEF PlaceInv
  <2>3. QueuesOK(levels', orderIndex', status') /\ IndexOK(levels', orderIndex')
    BY <2>1 DEF PlaceInv
  <2>4. StopsOK' /\ TakerOK' /\ PhasesOK'
    BY <2>1 DEF PlaceInv, StopsOK, TakerOK, PhasesOK
  <2> QED BY <2>2, <2>3, <2>4 DEF PlaceInv
<1> QED BY <1>1, <1>2, <1>3, <1>4, <1>5, <1>6, <1>7, <1>8, <1>9, <1>10, <1>11,
           <1>12 DEF Next, HolderStep

(* The inductive invariant on the places of the live orders. *)
THEOREM PlacesInductive == Spec => []PlaceInv
<1> QED BY InitPlaces, NextPlaces, PTL DEF Spec

(* The index has the resting orders, and no other. *)
LEMMA PlacesIndexed == PlaceInv => IndexAgrees
<1> SUFFICES ASSUME PlaceInv PROVE IndexAgrees
  OBVIOUS
<1>0. IInv /\ QueuesOK(levels, orderIndex, status) /\ IndexOK(levels, orderIndex)
  BY DEF PlaceInv
<1>1. ASSUME NEW o \in RestingOrders
      PROVE  o.id \in DOMAIN orderIndex /\ orderIndex[o.id] = <<o.side, o.price>>
  <2>1. PICK side \in Sides : o \in Resting(side)
    BY DEF RestingOrders, Sides
  <2>2. PICK price \in DOMAIN levels[side] :
          \E i \in DOMAIN levels[side][price].orders :
            o = levels[side][price].orders[i]
    BY <2>1 DEF Resting, Range
  <2>3. QueueOK(side, price, levels[side][price].orders, orderIndex, status)
    BY <1>0 DEF QueuesOK
  <2> QED BY <2>2, <2>3 DEF QueueOK
<1>2. ASSUME NEW id \in DOMAIN orderIndex
      PROVE  \E o \in RestingOrders : o.id = id
  <2>1. PICK side \in Sides : \E price \in DOMAIN levels[side] :
          \E i \in DOMAIN levels[side][price].orders :
            levels[side][price].orders[i].id = id
    BY <1>0, IndexedIsKnown
  <2>2. PICK price \in DOMAIN levels[side] :
          \E i \in DOMAIN levels[side][price].orders :
            levels[side][price].orders[i].id = id
    BY <2>1
  <2>3. PICK i \in DOMAIN levels[side][price].orders :
          levels[side][price].orders[i].id = id
    BY <2>2
  <2>4. levels[side][price].orders[i] \in Resting(side)
    BY <2>2, <2>3 DEF Resting, Range
  <2> QED BY <2>3, <2>4 DEF RestingOrders, Sides
<1> QED BY <1>1, <1>2 DEF IndexAgrees

(* order_index is exactly where the resting orders are: a cancellation     *)
(* finds every one of them, at any number of levels and orders, whatever   *)
(* fills, cancellations and prunings came before.                          *)
THEOREM IndexCorrect == Spec => []IndexAgrees
<1> QED BY PlacesIndexed, PlacesInductive, PTL


(* Every live order has a status of its own kind in the log.  The second   *)
(* half of LiveKnown: the log knows every live order and what was filled   *)
(* of it.                                                                  *)
LEMMA PlacesKnown ==
  ASSUME PlaceInv
  PROVE  LiveStatusKnown
<1>1. QueuesOK(levels, orderIndex, status) /\ StopsOK
  BY DEF PlaceInv
<1>2. ASSUME NEW o \in RestingOrders
      PROVE  /\ o.id \in DOMAIN status
             /\ status[o.id] = Entry(IF o.remaining = o.original THEN "New"
                                     ELSE "PartiallyFilled", o.original - o.remaining)
  <2>1. PICK side \in Sides : o \in Resting(side)
    BY DEF RestingOrders, Sides
  <2>2. PICK price \in DOMAIN levels[side] :
          \E i \in DOMAIN levels[side][price].orders :
            o = levels[side][price].orders[i]
    BY <2>1 DEF Resting, Range
  <2>3. QueueOK(side, price, levels[side][price].orders, orderIndex, status)
    BY <1>1 DEF QueuesOK
  <2> QED BY <2>2, <2>3 DEF QueueOK, Known
<1>3. \A stop \in Range(stopOrders) :
        stop.id \in DOMAIN status /\ status[stop.id] = Entry("PendingStop", 0)
  BY <1>1 DEF StopsOK, Pending, Range
<1> QED BY <1>2, <1>3 DEF LiveStatusKnown

Ids(list) == {list[i].id : i \in DOMAIN list}

(* A list of distinct orders has as many identifiers as orders. *)
LEMMA IdsCounted ==
  ASSUME NEW list \in Seq(Order), Distinct(list)
  PROVE  IsFiniteSet(Ids(list)) /\ Cardinality(Ids(list)) = Len(list)
<1> DEFINE f == [i \in 1..Len(list) |-> list[i].id]
<1>1. Len(list) \in Nat /\ DOMAIN list = 1..Len(list)
  OBVIOUS
<1>2. f \in Bijection(1..Len(list), Ids(list))
  BY <1>1 DEF Bijection, Injection, Surjection, IsInjective, Ids, Distinct
<1>3. ExistsBijection(1..Len(list), Ids(list))
  BY <1>2 DEF ExistsBijection
<1>4. IsFiniteSet(1..Len(list)) /\ Cardinality(1..Len(list)) = Len(list)
  BY <1>1, FS_Interval
<1> QED BY <1>3, <1>4, FS_Bijection

(* The resting orders are as many as the entries of the index. *)
LEMMA RestingCounted ==
  ASSUME PlaceInv, IndexAgrees, IsFiniteSet(DOMAIN orderIndex)
  PROVE  Cardinality(RestingOrders) = Cardinality(DOMAIN orderIndex)
<1>1. QueuesOK(levels, orderIndex, status) /\ DOMAIN orderIndex = {o.id : o \in RestingOrders}
  BY DEF PlaceInv, IndexAgrees
<1>2. ASSUME NEW o \in RestingOrders, NEW r \in RestingOrders, o.id = r.id
      PROVE  o = r
  <2>1. ASSUME NEW q \in RestingOrders
        PROVE  \E side \in Sides : \E price \in DOMAIN levels[side] :
                 \E i \in DOMAIN levels[side][price].orders :
                   /\ q = levels[side][price].orders[i]
                   /\ orderIndex[q.id] = <<side, price>>
                   /\ \A j \in DOMAIN levels[side][price].orders :
                        levels[side][price].orders[j].id = q.id => j = i
    <3>1. PICK side \in Sides : q \in Resting(side)
      BY DEF RestingOrders, Sides
    <3>2. PICK price \in DOMAIN levels[side] :
            \E i \in DOMAIN levels[side][price].orders :
              q = levels[side][price].orders[i]
      BY <3>1 DEF Resting, Range
    <3>3. QueueOK(side, price, levels[side][price].orders, orderIndex, status)
      BY <1>1 DEF QueuesOK
    <3>4. PICK i \in DOMAIN levels[side][price].orders : q = levels[side][price].orders[i]
      BY <3>2
    <3>5. /\ orderIndex[q.id] = <<side, price>>
          /\ \A j \in DOMAIN levels[side][price].orders :
               levels[side][price].orders[j].id = q.id => j = i
      BY <3>3, <3>4 DEF QueueOK
    <3> QED BY <3>4, <3>5
  <2>2. PICK s \in Sides : \E p \in DOMAIN levels[s] : \E i \in DOMAIN levels[s][p].orders :
          /\ o = levels[s][p].orders[i] /\ orderIndex[o.id] = <<s, p>>
          /\ \A j \in DOMAIN levels[s][p].orders : levels[s][p].orders[j].id = o.id => j = i
    BY <2>1
  <2>3. PICK t \in Sides : \E q \in DOMAIN levels[t] : \E i \in DOMAIN levels[t][q].orders :
          /\ r = levels[t][q].orders[i] /\ orderIndex[r.id] = <<t, q>>
          /\ \A j \in DOMAIN levels[t][q].orders : levels[t][q].orders[j].id = r.id => j = i
    BY <2>1
  <2>4. PICK p \in DOMAIN levels[s] : \E i \in DOMAIN levels[s][p].orders :
          /\ o = levels[s][p].orders[i] /\ orderIndex[o.id] = <<s, p>>
          /\ \A j \in DOMAIN levels[s][p].orders : levels[s][p].orders[j].id = o.id => j = i
    BY <2>2
  <2>5. PICK q \in DOMAIN levels[t] : \E i \in DOMAIN levels[t][q].orders :
          /\ r = levels[t][q].orders[i] /\ orderIndex[r.id] = <<t, q>>
          /\ \A j \in DOMAIN levels[t][q].orders : levels[t][q].orders[j].id = r.id => j = i
    BY <2>3
  <2>6. s = t /\ p = q
    <3>1. orderIndex[o.id] = <<s, p>>
      BY <2>4
    <3>2. orderIndex[r.id] = <<t, q>>
      BY <2>5
    <3>3. <<s, p>> = <<t, q>>
      BY <1>2, <3>1, <3>2
    <3> QED BY <3>3
  <2> QED BY <1>2, <2>4, <2>5, <2>6
<1> DEFINE f == [id \in DOMAIN orderIndex |-> CHOOSE o \in RestingOrders : o.id = id]
<1>3. \A id \in DOMAIN orderIndex : f[id] \in RestingOrders /\ f[id].id = id
  BY <1>1
<1>4. \A o \in RestingOrders : o.id \in DOMAIN orderIndex /\ f[o.id] = o
  BY <1>1, <1>2, <1>3
<1>5. f \in [DOMAIN orderIndex -> RestingOrders]
  BY <1>3
<1> HIDE DEF f
<1>6. f \in Bijection(DOMAIN orderIndex, RestingOrders)
  BY <1>3, <1>4, <1>5 DEF Bijection, Injection, Surjection, IsInjective
<1> QED BY <1>6, FS_Bijection DEF ExistsBijection

(* The sizes of two finite sets without a common element add up. *)
LEMMA DisjointCounts ==
  ASSUME NEW S, NEW T, IsFiniteSet(S), IsFiniteSet(T), S \cap T = {}
  PROVE  /\ IsFiniteSet(S \cup T)
         /\ Cardinality(S \cup T) = Cardinality(S) + Cardinality(T)
<1>1. Cardinality(S \cap T) = 0
  BY FS_EmptySet
<1>2. Cardinality(S) \in Nat /\ Cardinality(T) \in Nat
  BY FS_CardinalityType
<1>3. /\ IsFiniteSet(S \cup T)
      /\ Cardinality(S \cup T) = Cardinality(S) + Cardinality(T) - Cardinality(S \cap T)
  BY FS_Union
<1> QED BY <1>1, <1>2, <1>3

(* No live order has the identifier of another one, wherever they are. *)
LEMMA PlacesDistinct ==
  ASSUME PlaceInv, IndexAgrees, IsFiniteSet(DOMAIN orderIndex)
  PROVE  LiveOnce
<1> DEFINE live == RestingOrders \cup Range(stopOrders) \cup Range(drained)
                   \cup Range(ready) \cup ({incoming} \ {NoOrder})
           A == DOMAIN orderIndex
           B == Ids(stopOrders)
           C == Ids(drained)
           D == Ids(ready)
           E == IF incoming = NoOrder THEN {} ELSE {incoming.id}
<1>1. TypeOK /\ StopsOK /\ TakerOK
  BY DEF PlaceInv, IInv
<1>2. stopOrders \in Seq(Order) /\ drained \in Seq(Order) /\ ready \in Seq(Order)
  BY <1>1 DEF TypeOK
<1>3. {o.id : o \in live} = A \cup B \cup C \cup D \cup E
  <2>1. {o.id : o \in RestingOrders} = A
    BY DEF IndexAgrees
  <2>2. /\ {o.id : o \in Range(stopOrders)} = B
        /\ {o.id : o \in Range(drained)} = C
        /\ {o.id : o \in Range(ready)} = D
    BY DEF Range, Ids
  <2>3. {o.id : o \in {incoming} \ {NoOrder}} = E
    OBVIOUS
  <2> QED BY <2>1, <2>2, <2>3
<1>4. /\ \A id \in A : id \in DOMAIN status /\ status[id].state # "PendingStop"
      /\ \A id \in B \cup C : id \in DOMAIN status /\ status[id].state = "PendingStop"
      /\ \A id \in D : id \notin DOMAIN status
      /\ \A id \in E : id \notin DOMAIN status /\ id \notin D
  <2>1. \A id \in A : id \in DOMAIN status /\ status[id].state # "PendingStop"
    BY IndexedIsKnown DEF PlaceInv
  <2>2. \A id \in B \cup C : id \in DOMAIN status /\ status[id].state = "PendingStop"
    BY <1>1 DEF Ids, StopsOK, Pending, Entry
  <2>3. \A id \in D : id \notin DOMAIN status
    BY <1>1 DEF Ids, StopsOK, Awaited
  <2>4. \A id \in E : id \notin DOMAIN status /\ id \notin D
    BY <1>1 DEF Ids, TakerOK
  <2> QED BY <2>1, <2>2, <2>3, <2>4
<1>5. B \cap C = {}
  BY <1>1 DEF StopsOK, Ids
<1>6. /\ IsFiniteSet(A) /\ Cardinality(A) = Cardinality(RestingOrders)
      /\ IsFiniteSet(B) /\ Cardinality(B) = Len(stopOrders)
      /\ IsFiniteSet(C) /\ Cardinality(C) = Len(drained)
      /\ IsFiniteSet(D) /\ Cardinality(D) = Len(ready)
      /\ IsFiniteSet(E) /\ Cardinality(E) = IF incoming = NoOrder THEN 0 ELSE 1
  <2>1. IsFiniteSet(E) /\ Cardinality(E) = IF incoming = NoOrder THEN 0 ELSE 1
    BY FS_EmptySet, FS_Singleton
  <2>2. Distinct(stopOrders) /\ Distinct(drained) /\ Distinct(ready)
    BY <1>1 DEF StopsOK
  <2> QED BY <1>2, <2>1, <2>2, IdsCounted, RestingCounted
<1> HIDE DEF A, B, C, D, E, live
<1>7. (A \cap B = {}) /\ ((A \cup B) \cap C = {}) /\ ((A \cup B \cup C) \cap D = {})
      /\ ((A \cup B \cup C \cup D) \cap E = {})
  BY <1>4, <1>5
<1>8. /\ IsFiniteSet(A \cup B)
      /\ Cardinality(A \cup B) = Cardinality(A) + Cardinality(B)
  BY <1>6, <1>7, DisjointCounts
<1>9. /\ IsFiniteSet(A \cup B \cup C)
      /\ Cardinality(A \cup B \cup C) = Cardinality(A \cup B) + Cardinality(C)
  BY <1>6, <1>7, <1>8, DisjointCounts
<1>10. /\ IsFiniteSet(A \cup B \cup C \cup D)
       /\ Cardinality(A \cup B \cup C \cup D) = Cardinality(A \cup B \cup C) + Cardinality(D)
  BY <1>6, <1>7, <1>9, DisjointCounts
<1>11. Cardinality(A \cup B \cup C \cup D \cup E)
         = Cardinality(A \cup B \cup C \cup D) + Cardinality(E)
  BY <1>6, <1>7, <1>10, DisjointCounts
<1>12. Cardinality({o.id : o \in live})
         = Cardinality(RestingOrders) + Len(stopOrders) + Len(drained)
           + Len(ready) + IF incoming = NoOrder THEN 0 ELSE 1
  BY <1>3, <1>6, <1>8, <1>9, <1>10, <1>11
<1> QED BY <1>12 DEF LiveOnce, live

FiniteIndex == IsFiniteSet(DOMAIN orderIndex)

(* The index grows by one entry at most in a step. *)
LEMMA IndexStaysFinite == FiniteIndex /\ [Next]_vars => FiniteIndex'
<1> SUFFICES ASSUME FiniteIndex, [Next]_vars PROVE FiniteIndex'
  OBVIOUS
<1>1. \/ UNCHANGED orderIndex
      \/ \E id, place : orderIndex' = With(orderIndex, id, place)
      \/ \E id : orderIndex' = Without(orderIndex, {id})
  <2>1. CASE SubmitOrder
    BY <2>1 DEF SubmitOrder, Admit, AcceptStop, ExpireUnfillable, StartMatching, book
  <2>2. CASE RefuseOrder
    BY <2>2 DEF RefuseOrder, Refuse, book
  <2>3. CASE FillBest
    BY <2>3 DEF FillBest
  <2>4. CASE Finish
    BY <2>4 DEF Finish
  <2>5. CASE SubmitTriggered
    BY <2>5 DEF SubmitTriggered, Enter, Refuse, Admit, AcceptStop, ExpireUnfillable,
                StartMatching, book
  <2>6. CASE CancelResting
    BY <2>6 DEF CancelResting, CancelAtLevel
  <2>7. CASE CancelStop
    BY <2>7 DEF CancelStop, CancelStopAt
  <2>8. CASE PreventSelfTrade \/ PopTriggerPrice \/ DrainStop \/ Release \/ UNCHANGED vars
    BY <2>8 DEF PreventSelfTrade, PopTriggerPrice, DrainStop, Release, vars, book
  <2> QED BY <2>1, <2>2, <2>3, <2>4, <2>5, <2>6, <2>7, <2>8 DEF Next, HolderStep
<1>2. \A id : /\ IsFiniteSet(DOMAIN orderIndex \cup {id})
              /\ IsFiniteSet(DOMAIN orderIndex \ {id})
  BY FS_AddElement, FS_RemoveElement DEF FiniteIndex
<1> QED BY <1>1, <1>2 DEF FiniteIndex, With, Without

(* Whatever the log has forgotten and whichever identifiers come back, a   *)
(* live order shares its identifier with no other, and the log knows it    *)
(* with the quantity that was filled of it.                                *)
THEOREM LiveOrdersKnown == Spec => []LiveKnown
<1>1. Init => FiniteIndex
  BY FS_EmptySet DEF Init, FiniteIndex
<1>2. Spec => []FiniteIndex
  BY <1>1, IndexStaysFinite, PTL DEF Spec
<1>3. PlaceInv /\ IndexAgrees /\ FiniteIndex => LiveKnown
  BY PlacesKnown, PlacesDistinct DEF LiveKnown, FiniteIndex
<1> QED BY <1>2, <1>3, PlacesInductive, IndexCorrect, PTL


-----------------------------------------------------------------------------
(* The totals of the levels *)

(* What the orders of a queue have left, together. *)
LeftOf(orders) == FoldLeft(LAMBDA sum, o : sum + o.remaining, 0, orders)

Remaining(orders) == [i \in 1..Len(orders) |-> orders[i].remaining]

(* The sum over a queue, order by order. *)
LEMMA LeftIsSum ==
  ASSUME NEW orders \in Seq(Order)
  PROVE  \E p \in [0..Len(orders) -> Int] :
           Adds(p, Remaining(orders), Len(orders)) /\ LeftOf(orders) = p[Len(orders)]
<1> DEFINE n == Len(orders)
           S == SUBSET (1..n)
           q == Remaining(orders)
           Rec(g) == [s \in S |-> IF s = {} THEN 0
                                  ELSE g[s \ {Max(s)}] + orders[Max(s)].remaining]
           h == CHOOSE g : g = Rec(g)
<1>1. /\ n \in Nat /\ DOMAIN orders = 1..n
      /\ \A i \in 1..n : orders[i].remaining \in Int
  <2>1. n \in Nat /\ DOMAIN orders = 1..n /\ \A i \in 1..n : orders[i] \in Order
    OBVIOUS
  <2> QED BY <2>1 DEF Order
<1>2. LeftOf(orders) = h[1..n]
  BY <1>1 DEF LeftOf, FoldLeft, MapThenFoldSet
<1>3. q \in [1..n -> Int] /\ \A i \in 1..n : q[i] = orders[i].remaining
  BY <1>1 DEF Remaining
<1> HIDE DEF n, q
<1>4. HasSums(q, n)
  BY <1>1, <1>3, SequenceSum
<1>5. PICK g \in [S -> Int] : SumsUp(g, q, n)
  BY <1>4 DEF HasSums
<1>6. \A s \in S : s # {} => Max(s) \in 1..n
  BY <1>1, MaxIsIn
<1>7. g = Rec(g)
  <2>1. \A s \in S : s # {} => g[s] = g[s \ {Max(s)}] + orders[Max(s)].remaining
    BY <1>3, <1>5, <1>6 DEF SumsUp
  <2> QED BY <1>5, <2>1 DEF SumsUp
<1>8. h = Rec(h)
  <2> HIDE DEF Rec
  <2> QED BY <1>7
<1> HIDE DEF h
<1>9. SumsUp(h, q, n)
  <2>1. h[{}] = 0 /\ \A s \in S : s # {} => h[s] = h[s \ {Max(s)}] + orders[Max(s)].remaining
    BY <1>8
  <2> QED BY <1>3, <1>6, <2>1 DEF SumsUp
<1>10. PICK p \in [0..n -> Int] :
         Adds(p, q, n) /\ \A k : SumsUp(k, q, n) => k[1..n] = p[n]
  BY <1>4 DEF HasSums
<1>11. h[1..n] = p[n]
  BY <1>9, <1>10
<1> QED BY <1>2, <1>10, <1>11 DEF n, q

(* The value of a sum that was found in some other way. *)
LEMMA LeftFound ==
  ASSUME NEW orders \in Seq(Order), NEW r, Adds(r, Remaining(orders), Len(orders))
  PROVE  LeftOf(orders) = r[Len(orders)]
<1>1. Len(orders) \in Nat
  OBVIOUS
<1> QED BY <1>1, LeftIsSum, OneSum


(* No orders, nothing left. *)
LEMMA LeftOfNone == LeftOf(<< >>) = 0
<1> DEFINE r == [k \in 0..0 |-> 0]
           none == << >>
<1>1. none \in Seq(Order) /\ Len(none) = 0
  OBVIOUS
<1> HIDE DEF none
<1>2. Adds(r, Remaining(none), Len(none))
  BY <1>1 DEF Adds
<1>3. LeftOf(none) = r[Len(none)]
  BY <1>1, <1>2, LeftFound
<1> QED BY <1>1, <1>3 DEF none

(* An order that joins a queue adds what it has left. *)
LEMMA LeftAppended ==
  ASSUME NEW orders \in Seq(Order), NEW order \in Order
  PROVE  LeftOf(Append(orders, order)) = LeftOf(orders) + order.remaining
<1> DEFINE n == Len(orders)
           new == Append(orders, order)
<1>1. PICK p \in [0..n -> Int] : Adds(p, Remaining(orders), n) /\ LeftOf(orders) = p[n]
  BY LeftIsSum
<1> DEFINE r == [k \in 0..n + 1 |-> IF k = n + 1 THEN p[n] + order.remaining ELSE p[k]]
<1>2. /\ new \in Seq(Order) /\ Len(new) = n + 1 /\ n \in Nat
      /\ new[n + 1] = order /\ \A i \in 1..n : new[i] = orders[i]
  OBVIOUS
<1> HIDE DEF new, n
<1>3. /\ Remaining(new)[n + 1] = order.remaining
      /\ \A i \in 1..n : Remaining(new)[i] = Remaining(orders)[i]
  BY <1>2 DEF Remaining, n
<1>4. r[0] = 0 /\ r[n + 1] = p[n] + order.remaining /\ \A k \in 0..n : r[k] = p[k]
  BY <1>1, <1>2 DEF Adds
<1> HIDE DEF r
<1>5. ASSUME NEW k \in 1..n + 1
      PROVE  r[k] = r[k - 1] + Remaining(new)[k]
  <2>1. CASE k = n + 1
    <3>1. k - 1 = n /\ n \in 0..n
      BY <1>2, <2>1
    <3> QED BY <1>3, <1>4, <2>1, <3>1
  <2>2. CASE k # n + 1
    <3>1. k \in 1..n /\ k \in 0..n /\ k - 1 \in 0..n
      BY <1>2, <2>2
    <3> QED BY <1>1, <1>3, <1>4, <3>1 DEF Adds
  <2> QED BY <2>1, <2>2
<1>6. Adds(r, Remaining(new), Len(new))
  BY <1>2, <1>4, <1>5 DEF Adds
<1>7. LeftOf(new) = r[Len(new)]
  BY <1>2, <1>6, LeftFound
<1> QED BY <1>1, <1>2, <1>4, <1>7 DEF new

(* An order that leaves a queue takes with it what it has left. *)
LEMMA LeftWithout ==
  ASSUME NEW orders \in Seq(Order), NEW g \in DOMAIN orders
  PROVE  LeftOf(RemoveAt(orders, g)) = LeftOf(orders) - orders[g].remaining
<1> DEFINE n == Len(orders)
           new == RemoveAt(orders, g)
           gone == orders[g].remaining
<1>1. PICK p \in [0..n -> Int] : Adds(p, Remaining(orders), n) /\ LeftOf(orders) = p[n]
  BY LeftIsSum
<1> DEFINE r == [k \in 0..n - 1 |-> IF k < g THEN p[k] ELSE p[k + 1] - gone]
<1>2. n \in Nat /\ g \in 1..n /\ gone \in Int
  <2>1. orders[g] \in Order
    OBVIOUS
  <2> QED BY <2>1 DEF Order
<1>3. /\ new \in Seq(Order) /\ Len(new) = n - 1
      /\ \A j \in 1..n - 1 : new[j] = orders[IF j < g THEN j ELSE j + 1]
  BY RemoveAtPlaces
<1>4. \A i \in 1..n : Remaining(orders)[i] = orders[i].remaining
                      /\ Remaining(orders)[i] \in Int
  <2>1. \A i \in 1..n : orders[i] \in Order
    OBVIOUS
  <2> QED BY <2>1 DEF Remaining, Order
<1> HIDE DEF new, gone
<1>5. \A j \in 1..n - 1 : Remaining(new)[j] = Remaining(orders)[IF j < g THEN j ELSE j + 1]
  BY <1>2, <1>3 DEF Remaining
<1>6. Remaining(orders)[g] = gone
  BY <1>2, <1>4 DEF gone
<1> HIDE DEF n
<1>7. \A k \in 1..n : p[k] = p[k - 1] + Remaining(orders)[k] /\ p[k] \in Int /\ p[k - 1] \in Int
  <2>1. \A k \in 1..n : k \in 0..n /\ k - 1 \in 0..n
    BY <1>2
  <2> QED BY <1>1, <2>1 DEF Adds
<1>8. \A k \in 0..n - 1 : r[k] = IF k < g THEN p[k] ELSE p[k + 1] - gone
  OBVIOUS
<1> HIDE DEF r
<1>9. r[0] = 0
  BY <1>1, <1>2, <1>8 DEF Adds
<1>10. ASSUME NEW k \in 1..n - 1
       PROVE  r[k] = r[k - 1] + Remaining(new)[k]
  <2>1. k \in 0..n - 1 /\ k - 1 \in 0..n - 1 /\ k \in 1..n /\ k + 1 \in 1..n
        /\ (k + 1) - 1 = k /\ (k - 1) + 1 = k
    BY <1>2
  <2>2. CASE k < g
    <3>1. r[k] = p[k] /\ r[k - 1] = p[k - 1] /\ Remaining(new)[k] = Remaining(orders)[k]
      BY <1>2, <1>5, <1>8, <2>1, <2>2
    <3> QED BY <1>7, <2>1, <3>1
  <2>3. CASE k = g
    <3>1. /\ r[k] = p[k + 1] - gone /\ r[k - 1] = p[k - 1]
          /\ Remaining(new)[k] = Remaining(orders)[k + 1]
      <4>1. k - 1 < g /\ ~(k < g)
        BY <1>2, <2>3
      <4> QED BY <1>5, <1>8, <2>1, <4>1
    <3>2. p[k + 1] = p[k] + Remaining(orders)[k + 1] /\ p[k] = p[k - 1] + gone
          /\ p[k + 1] \in Int /\ p[k] \in Int /\ p[k - 1] \in Int
      BY <1>6, <1>7, <2>1, <2>3
    <3>3. Remaining(orders)[k + 1] \in Int
      BY <1>4, <2>1
    <3> QED BY <1>2, <3>1, <3>2, <3>3
  <2>4. CASE k > g
    <3>1. /\ r[k] = p[k + 1] - gone /\ r[k - 1] = p[k] - gone
          /\ Remaining(new)[k] = Remaining(orders)[k + 1]
      <4>1. ~(k - 1 < g) /\ ~(k < g)
        BY <1>2, <2>4
      <4>2. r[k - 1] = p[(k - 1) + 1] - gone
        BY <1>8, <2>1, <4>1
      <4> QED BY <1>5, <1>8, <2>1, <4>1, <4>2
    <3>2. p[k + 1] = p[k] + Remaining(orders)[k + 1] /\ p[k + 1] \in Int /\ p[k] \in Int
      BY <1>7, <2>1
    <3>3. Remaining(orders)[k + 1] \in Int
      BY <1>4, <2>1
    <3> QED BY <1>2, <3>1, <3>2, <3>3
  <2> QED BY <1>2, <2>2, <2>3, <2>4
<1>11. Adds(r, Remaining(new), Len(new))
  BY <1>3, <1>9, <1>10 DEF Adds
<1>12. LeftOf(new) = r[n - 1]
  BY <1>3, <1>11, LeftFound
<1>13. r[n - 1] = p[n] - gone
  <2>1. CASE n - 1 < g
    <3>1. n - 1 \in 0..n - 1 /\ n = g
      BY <1>2, <2>1
    <3>2. p[n] = p[n - 1] + gone /\ p[n - 1] \in Int /\ r[n - 1] = p[n - 1]
      BY <1>2, <1>6, <1>7, <1>8, <3>1
    <3> QED BY <1>2, <3>2
  <2>2. CASE ~(n - 1 < g)
    <3>1. n - 1 \in 0..n - 1 /\ (n - 1) + 1 = n
      BY <1>2
    <3> QED BY <1>8, <2>2, <3>1
  <2> QED BY <2>1, <2>2
<1> QED BY <1>1, <1>12, <1>13 DEF new, gone, n

(* A queue of whose first order a part is filled has so much less left. *)
LEMMA LeftWithHead ==
  ASSUME NEW orders \in Seq(Order), orders # << >>, NEW left \in Nat
  PROVE  /\ WithHead(orders, left) \in Seq(Order)
         /\ LeftOf(WithHead(orders, left)) = LeftOf(orders) - (orders[1].remaining - left)
<1> DEFINE n == Len(orders)
           new == WithHead(orders, left)
           d == orders[1].remaining - left
<1>1. PICK p \in [0..n -> Int] : Adds(p, Remaining(orders), n) /\ LeftOf(orders) = p[n]
  BY LeftIsSum
<1> DEFINE r == [k \in 0..n |-> IF k = 0 THEN 0 ELSE p[k] - d]
<1>2. n \in Nat \ {0} /\ 1 \in 1..n /\ DOMAIN orders = 1..n /\ orders[1] \in Order
  OBVIOUS
<1>3. orders[1].remaining \in Nat /\ d \in Int
  BY <1>2 DEF Order
<1>4. /\ new \in Seq(Order) /\ Len(new) = n
      /\ new[1].remaining = left /\ \A i \in 2..n : new[i] = orders[i]
  <2> DEFINE head == [orders[1] EXCEPT !.remaining = left]
  <2>1. head \in Order /\ head.remaining = left
    BY <1>2 DEF Order
  <2>2. new = [orders EXCEPT ![1] = head]
    BY <1>2 DEF WithHead
  <2> HIDE DEF head
  <2>3. new \in Seq(Order) /\ Len(new) = n /\ new[1] = head /\ \A i \in 2..n : new[i] = orders[i]
    BY <1>2, <2>1, <2>2
  <2> QED BY <2>1, <2>3
<1> HIDE DEF new
<1>5. /\ Remaining(new)[1] = left /\ Remaining(orders)[1] = orders[1].remaining
      /\ \A i \in 2..n : Remaining(new)[i] = Remaining(orders)[i]
  BY <1>2, <1>4 DEF Remaining
<1> DEFINE first == orders[1].remaining
<1> HIDE DEF n, first
<1>6. \A k \in 1..n : p[k] = p[k - 1] + Remaining(orders)[k] /\ p[k] \in Int /\ p[k - 1] \in Int
  <2>1. \A k \in 1..n : k \in 0..n /\ k - 1 \in 0..n
    BY <1>2
  <2> QED BY <1>1, <2>1 DEF Adds
<1>7. p[0] = 0 /\ p[1] = p[0] + first /\ 1 - 1 = 0
  BY <1>1, <1>2, <1>5, <1>6 DEF Adds, first
<1>8. \A k \in 1..n : r[k] = p[k] - d
  BY <1>2
<1>9. r[0] = 0
  BY <1>2
<1>10. first \in Nat /\ d = first - left
  BY <1>3 DEF first
<1> HIDE DEF r, d
<1>11. ASSUME NEW k \in 1..n
       PROVE  r[k] = r[k - 1] + Remaining(new)[k]
  <2>1. CASE k = 1
    <3>1. r[1] = p[1] - d /\ r[1 - 1] = 0 /\ Remaining(new)[1] = left
      BY <1>2, <1>5, <1>8, <1>9
    <3>2. p[1] = first
      BY <1>7, <1>10
    <3> QED BY <1>10, <2>1, <3>1, <3>2
  <2>2. CASE k # 1
    <3>1. k \in 2..n /\ k - 1 \in 1..n
      BY <1>2, <2>2
    <3>2. /\ r[k] = p[k] - d /\ r[k - 1] = p[k - 1] - d
          /\ Remaining(new)[k] = Remaining(orders)[k]
      BY <1>5, <1>8, <3>1
    <3> DEFINE a == Remaining(orders)[k]
    <3>3. a \in Int
      <4>1. orders[k] \in Order
        BY <1>2
      <4> QED BY <1>2, <4>1 DEF Remaining, n, Order
    <3> HIDE DEF a
    <3>4. p[k] = p[k - 1] + a /\ p[k] \in Int /\ p[k - 1] \in Int
      BY <1>6 DEF a
    <3>5. Remaining(new)[k] = a
      BY <3>2 DEF a
    <3> QED BY <1>3, <1>10, <3>2, <3>3, <3>4, <3>5
  <2> QED BY <2>1, <2>2
<1>12. Adds(r, Remaining(new), Len(new))
  BY <1>4, <1>9, <1>11 DEF Adds, n
<1>13. LeftOf(new) = r[Len(new)]
  BY <1>4, <1>12, LeftFound
<1>14. LeftOf(new) = p[n] - d
  BY <1>2, <1>4, <1>8, <1>13
<1> QED BY <1>1, <1>4, <1>10, <1>14 DEF new, first


TotalsOK(l) ==
  \A side \in Sides : \A price \in DOMAIN l[side] :
    l[side][price].total = LeftOf(l[side][price].orders)

(* Totals stay right if the one of the queue that is replaced is right. *)
LEMMA TotalsReplaced ==
  ASSUME LevelsOK(levels), TotalsOK(levels), NEW side \in Sides, NEW price,
         NEW orders, NEW total, total = LeftOf(orders)
  PROVE  TotalsOK(Requeued(side, price, orders, total))
<1> DEFINE new == Requeued(side, price, orders, total)
<1>1. /\ \A t \in Sides : \A q : <<t, q>> # <<side, price>> =>
           /\ q \in DOMAIN new[t] <=> q \in DOMAIN levels[t]
           /\ q \in DOMAIN levels[t] => new[t][q] = levels[t][q]
      /\ price \in DOMAIN new[side] <=> orders # << >>
      /\ orders # << >> => new[side][price] = [orders |-> orders, total |-> total]
  BY RequeuedLevels
<1> HIDE DEF new
<1>2. ASSUME NEW s \in Sides, NEW p \in DOMAIN new[s]
      PROVE  new[s][p].total = LeftOf(new[s][p].orders)
  <2>1. CASE <<s, p>> = <<side, price>>
    <3>1. new[s][p] = [orders |-> orders, total |-> total]
      BY <1>1, <2>1
    <3> QED BY <3>1
  <2>2. CASE <<s, p>> # <<side, price>>
    <3>1. p \in DOMAIN levels[s] /\ new[s][p] = levels[s][p]
      BY <1>1, <2>2
    <3> QED BY <3>1 DEF TotalsOK
  <2> QED BY <2>1, <2>2
<1> QED BY <1>2 DEF TotalsOK, new

(* A fill takes from the total what it takes from the first order. *)
LEMMA FillBestTotals ==
  ASSUME PlaceInv, TotalsOK(levels), FillBest
  PROVE  TotalsOK(levels')
<1>0. IInv /\ LevelsOK(levels)
  BY LevelsFromInv DEF PlaceInv, IInv
<1>1. PICK side \in Sides, price \in Prices, quantity \in Nat, left \in Nat :
        FillSays(side, price, levels[side][price].orders, quantity, left)
  BY <1>0, FillBestSays
<1> DEFINE orders  == levels[side][price].orders
           total   == levels[side][price].total - quantity
           queue   == IF left = 0 THEN Tail(orders)
                      ELSE [orders EXCEPT ![1].remaining = left]
<1>2. /\ orders \in Seq(Order) /\ orders # << >>
      /\ left = orders[1].remaining - quantity
      /\ levels' = Requeued(side, price, queue, total)
      /\ levels[side][price].total = LeftOf(orders)
  BY <1>1 DEF FillSays, TotalsOK
<1> HIDE DEF orders
<1>3. orders[1] \in Order /\ orders[1].remaining \in Nat
  <2>1. orders[1] \in Order
    BY <1>2
  <2> QED BY <2>1 DEF Order
<1>4. LeftOf(orders) \in Int
  BY <1>2, LeftIsSum
<1>5. total = LeftOf(queue)
  <2>1. CASE left = 0
    <3>1. queue = RemoveAt(orders, 1) /\ 1 \in DOMAIN orders
      BY <1>2, <2>1, TailRemovesFirst
    <3>2. LeftOf(RemoveAt(orders, 1)) = LeftOf(orders) - orders[1].remaining
      BY <1>2, <3>1, LeftWithout
    <3>3. quantity = orders[1].remaining
      BY <1>2, <1>3, <2>1
    <3> HIDE DEF queue
    <3> QED BY <1>2, <3>1, <3>2, <3>3
  <2>2. CASE left # 0
    <3>1. queue = WithHead(orders, left)
      BY <2>2 DEF WithHead
    <3>2. LeftOf(WithHead(orders, left)) = LeftOf(orders) - (orders[1].remaining - left)
      BY <1>2, LeftWithHead
    <3>3. quantity = orders[1].remaining - left
      BY <1>2, <1>3
    <3> HIDE DEF queue
    <3> QED BY <1>2, <3>1, <3>2, <3>3
  <2> QED BY <2>1, <2>2
<1> HIDE DEF queue, total
<1>6. TotalsOK(Requeued(side, price, queue, total))
  BY <1>0, <1>5, TotalsReplaced
<1> QED BY <1>2, <1>6

(* An order that rests brings what it has left. *)
LEMMA FinishTotals ==
  ASSUME PlaceInv, TotalsOK(levels), Finish
  PROVE  TotalsOK(levels')
<1> DEFINE side  == incoming.side
           price == incoming.price
           queue == QueueAt(side, price)
           orders == Append(queue.orders, incoming)
           total  == queue.total + incoming.remaining
<1>0. IInv /\ TypeOK /\ TakerPriced /\ LevelsOK(levels)
  BY LevelsFromInv DEF PlaceInv, IInv
<1>1. incoming \in Order /\ incoming # NoOrder
  BY <1>0, SentinelsAssumption DEF Finish, TypeOK
<1>2. CASE ~Rests(incoming)
  BY <1>2 DEF Finish
<1>3. CASE Rests(incoming)
  <2>1. levels' = Requeued(side, price, orders, total)
    BY <1>3 DEF Finish
  <2>2. side \in Sides /\ incoming.kind \in Kinds /\ price \in Prices \cup {NoPrice}
    BY <1>1 DEF Order
  <2>3. price \in Prices
    <3>1. incoming.kind \in {"Limit", "PostOnly"}
      BY <1>0, <1>1, <1>3, <2>2 DEF TakerPriced, Rests, Kinds, StopKinds
    <3> QED BY <1>0, <1>1, <2>2, <3>1 DEF TakerPriced, RequiresPrice
  <2>4. queue.orders \in Seq(Order)
    BY <1>0, <2>2, <2>3, QueueAtOK
  <2>5. queue.total = LeftOf(queue.orders)
    <3>1. CASE price \in DOMAIN levels[side]
      BY <2>2, <3>1 DEF QueueAt, TotalsOK
    <3>2. CASE price \notin DOMAIN levels[side]
      BY <3>2, LeftOfNone DEF QueueAt
    <3> QED BY <3>1, <3>2
  <2> HIDE DEF queue
  <2>6. total = LeftOf(orders)
    BY <1>1, <2>4, <2>5, LeftAppended
  <2> HIDE DEF orders, total
  <2>7. TotalsOK(Requeued(side, price, orders, total))
    BY <1>0, <2>2, <2>6, TotalsReplaced
  <2> QED BY <2>1, <2>7
<1> QED BY <1>2, <1>3

(* A cancelled order takes what it has left. *)
LEMMA CancelRestingTotals ==
  ASSUME PlaceInv, TotalsOK(levels), CancelResting
  PROVE  TotalsOK(levels')
<1>0. IInv /\ TypeOK /\ LevelsOK(levels)
  BY LevelsFromInv DEF PlaceInv, IInv
<1>1. PICK id \in DOMAIN orderIndex : CancelAtLevel(id)
  BY DEF CancelResting
<1> DEFINE side  == orderIndex[id][1]
           price == orderIndex[id][2]
           level == levels[side][price]
           orders == level.orders
<1>2. PICK i \in DOMAIN orders :
        levels' = Requeued(side, price, RemoveAt(orders, i),
                           level.total - orders[i].remaining)
  BY <1>1 DEF CancelAtLevel
<1>3. price \in DOMAIN levels[side]
  BY <1>1 DEF CancelAtLevel
<1>4. side \in Sides
  <2>1. orderIndex[id] \in Sides \X Prices
    BY <1>0 DEF TypeOK, IsMap
  <2> QED BY <2>1
<1> DEFINE total == level.total - orders[i].remaining
           rest  == RemoveAt(orders, i)
<1>5. levels' = Requeued(side, price, rest, total)
  BY <1>2
<1> HIDE DEF side, price
<1>6. orders \in Seq(Order) /\ level.total = LeftOf(orders)
  <2>1. level \in Level
    BY <1>0, <1>3, <1>4 DEF LevelsOK, IsMap
  <2> QED BY <1>3, <1>4, <2>1 DEF Level, TotalsOK
<1> HIDE DEF level, orders
<1>7. total = LeftOf(rest)
  BY <1>6, LeftWithout
<1> HIDE DEF total, rest
<1>8. TotalsOK(Requeued(side, price, rest, total))
  BY <1>0, <1>4, <1>7, TotalsReplaced
<1> QED BY <1>5, <1>8

LEMMA NextTotals == PlaceInv /\ TotalsOK(levels) /\ [Next]_vars => TotalsOK(levels')
<1> SUFFICES ASSUME PlaceInv, TotalsOK(levels), [Next]_vars PROVE TotalsOK(levels')
  OBVIOUS
<1>1. CASE FillBest      BY <1>1, FillBestTotals
<1>2. CASE Finish        BY <1>2, FinishTotals
<1>3. CASE CancelResting BY <1>3, CancelRestingTotals
<1>4. CASE SubmitOrder
  BY <1>4 DEF SubmitOrder, Admit, AcceptStop, ExpireUnfillable, StartMatching, book
<1>5. CASE SubmitTriggered
  BY <1>5 DEF SubmitTriggered, Enter, Refuse, Admit, AcceptStop, ExpireUnfillable,
              StartMatching, book
<1>6. CASE RefuseOrder
  BY <1>6 DEF RefuseOrder, Refuse, book
<1>7. CASE CancelStop
  BY <1>7 DEF CancelStop, CancelStopAt
<1>8. CASE PreventSelfTrade \/ PopTriggerPrice \/ DrainStop \/ Release \/ UNCHANGED vars
  BY <1>8 DEF PreventSelfTrade, PopTriggerPrice, DrainStop, Release, vars, book
<1> QED BY <1>1, <1>2, <1>3, <1>4, <1>5, <1>6, <1>7, <1>8 DEF Next, HolderStep

(* Queues whose orders are in place and whose totals are right are sound. *)
LEMMA PlacesSound == PlaceInv /\ TotalsOK(levels) => LevelsSound
<1> SUFFICES ASSUME PlaceInv, TotalsOK(levels), NEW side \in Sides,
                    NEW price \in DOMAIN levels[side]
             PROVE  LET level == levels[side][price]
                    IN /\ level.orders # << >>
                       /\ \A i \in DOMAIN level.orders :
                            /\ level.orders[i].remaining > 0
                            /\ level.orders[i].price = price
                            /\ level.orders[i].side = side
                       /\ level.total = LeftOf(level.orders)
  BY DEF LevelsSound, LeftOf
<1>1. levels[side][price].orders # << >>
  BY DEF PlaceInv, IInv, NoEmptyLevel
<1>2. QueueOK(side, price, levels[side][price].orders, orderIndex, status)
  BY DEF PlaceInv, QueuesOK
<1> QED BY <1>1, <1>2 DEF QueueOK, TotalsOK

(* Every level that the match loop and depth() see has orders, all of its  *)
(* side and price and with something left, and its total is what they have *)
(* left: no fill or cancellation lets the two drift apart.                 *)
THEOREM LevelsStaySound == Spec => []LevelsSound
<1>1. Init => TotalsOK(levels)
  BY DEF Init, TotalsOK, Sides
<1>2. Spec => []TotalsOK(levels)
  <2>1. PlaceInv /\ TotalsOK(levels) /\ [Next]_vars => TotalsOK(levels)'
    BY NextTotals
  <2> QED BY <1>1, <2>1, PlacesInductive, PTL DEF Spec
<1> QED BY <1>2, PlacesSound, PlacesInductive, PTL


-----------------------------------------------------------------------------
(* What the status log says never changes for a closed order *)

(* The log changes for one order at most that was in it, and that one was  *)
(* open and does not lose a fill.                                          *)
Forward(log, new) ==
  \A id \in DOMAIN log \cap DOMAIN new :
    \/ new[id] = log[id]
    \/ log[id].state \notin Closed /\ new[id].filled >= log[id].filled

(* An entry for one order, pruned or not. *)
LEMMA ForwardEntry ==
  ASSUME IsMap(status, OrderIds, [state: States, filled: Int]), NEW id, NEW entry,
         NEW new, DOMAIN new \subseteq DOMAIN status \cup {id},
         \A k \in DOMAIN new : new[k] = With(status, id, entry)[k],
         \/ id \notin DOMAIN status
         \/ status[id].state \notin Closed /\ entry.filled >= status[id].filled
  PROVE  Forward(status, new)
BY DEF Forward, With

LEMMA ForwardPruned ==
  ASSUME IsMap(status, OrderIds, [state: States, filled: Int]), NEW id, NEW entry,
         NEW index,
         \/ id \notin DOMAIN status
         \/ status[id].state \notin Closed /\ entry.filled >= status[id].filled
  PROVE  /\ Forward(status, With(status, id, entry))
         /\ Forward(status, Pruned(With(status, id, entry), index))
<1> DEFINE with == With(status, id, entry)
           new  == Pruned(with, index)
<1>1. DOMAIN with = DOMAIN status \cup {id}
  BY DEF With
<1>2. Forward(status, with)
  <2>1. DOMAIN with \subseteq DOMAIN status \cup {id}
    BY <1>1
  <2> QED BY <2>1, ForwardEntry
<1> HIDE DEF with
<1>3. DOMAIN new \subseteq DOMAIN with /\ \A k \in DOMAIN new : new[k] = with[k]
  BY PrunedKeeps
<1> HIDE DEF new
<1>4. Forward(status, new)
  BY <1>1, <1>3, ForwardEntry DEF with
<1> QED BY <1>2, <1>4 DEF new, with

(* Every step goes forward. *)
LEMMA NextForward ==
  ASSUME PlaceInv, [Next]_vars
  PROVE  Forward(status, status')
<1>1. IInv /\ TypeOK /\ LevelsOK(levels) /\ IsMap(status, OrderIds, [state: States, filled: Int])
  BY LevelsFromInv DEF PlaceInv, IInv, TypeOK
<1>2. status' = status => Forward(status, status')
  BY DEF Forward
<1>3. ASSUME NEW order, Admit(order)
      PROVE  Forward(status, status')
  <2>1. CASE AcceptStop(order)
    <3>1. order.id \notin DOMAIN status
      BY <1>3 DEF Admit, Refused, Duplicate
    <3>2. status' = Pruned(With(status, order.id, Entry("PendingStop", 0)), orderIndex)
      BY <2>1 DEF AcceptStop
    <3>3. Forward(status, Pruned(With(status, order.id, Entry("PendingStop", 0)),
                                 orderIndex))
      BY <1>1, <3>1, ForwardPruned
    <3> QED BY <3>2, <3>3
  <2>2. CASE ExpireUnfillable(order) \/ StartMatching(order)
    BY <1>2, <2>2 DEF ExpireUnfillable, StartMatching, book
  <2> QED BY <1>3, <2>1, <2>2 DEF Admit
<1>4. ASSUME NEW entry, incoming # NoOrder,
             \/ status' = With(status, incoming.id, entry)
             \/ status' = Pruned(With(status, incoming.id, entry), orderIndex')
      PROVE  Forward(status, status')
  <2>1. incoming.id \notin DOMAIN status
    BY <1>4 DEF PlaceInv, TakerOK
  <2>2. /\ Forward(status, With(status, incoming.id, entry))
        /\ Forward(status, Pruned(With(status, incoming.id, entry), orderIndex'))
    BY <1>1, <2>1, ForwardPruned
  <2> QED BY <1>4, <2>2
<1>5. CASE SubmitOrder
  BY <1>3, <1>5 DEF SubmitOrder
<1>6. CASE RefuseOrder
  BY <1>2, <1>6 DEF RefuseOrder, Refuse, book
<1>7. CASE SubmitTriggered
  <2>1. \E order : \/ Refuse(order.id)
                   \/ Admit(order)
    BY <1>7 DEF SubmitTriggered, Enter
  <2> QED BY <1>2, <1>3, <2>1 DEF Refuse, book
<1>8. CASE PreventSelfTrade
  <2>1. incoming # NoOrder
    BY <1>1, <1>8 DEF TypeOK, PreventSelfTrade
  <2>2. \E state : status' = With(status, incoming.id,
                               Entry(state, FilledQuantity(incoming)))
    BY <1>8 DEF PreventSelfTrade
  <2> QED BY <1>4, <2>1, <2>2
<1>9. CASE Finish
  <2>1. incoming # NoOrder
    BY <1>1, <1>9 DEF TypeOK, Finish
  <2>2. status' = Pruned(With(status, incoming.id,
             Entry(FinalState(incoming), FilledQuantity(incoming))), orderIndex')
    BY <1>9 DEF Finish
  <2> QED BY <1>4, <2>1, <2>2
<1>10. CASE DrainStop
  <2>1. \/ status' = status
        \/ status' = Without(status, {Head(drained).id})
    BY <1>10 DEF DrainStop
  <2> QED BY <1>2, <2>1 DEF Forward, Without
<1>11. CASE FillBest
  <2>1. PICK side \in Sides, price \in Prices, quantity \in Nat, left \in Nat :
          FillSays(side, price, levels[side][price].orders, quantity, left)
    BY <1>1, <1>11, FillBestSays
  <2> DEFINE orders  == levels[side][price].orders
             resting == orders[1]
             full    == Entry("Filled", resting.original)
             part    == Entry("PartiallyFilled", resting.original - left)
  <2>2. /\ price \in DOMAIN levels[side] /\ orders \in Seq(Order) /\ orders # << >>
        /\ left = resting.remaining - quantity
        /\ \/ status' = With(status, resting.id, full)
           \/ status' = Pruned(With(status, resting.id, part), orderIndex')
    BY <2>1 DEF FillSays
  <2>3. QueueOK(side, price, orders, orderIndex, status)
    BY <2>2 DEF PlaceInv, QueuesOK
  <2> HIDE DEF orders
  <2>4. 1 \in DOMAIN orders /\ resting \in Order
    BY <2>2
  <2>5. status[resting.id] = Known(resting)
    BY <2>3, <2>4 DEF QueueOK
  <2>6. resting.remaining \in Nat /\ resting.original \in Nat
    BY <2>4 DEF Order
  <2> HIDE DEF resting
  <2>7. status[resting.id].state \notin Closed
        /\ status[resting.id].filled = resting.original - resting.remaining
    BY <2>5 DEF Known, Entry, Closed
  <2>8. full.filled = resting.original /\ part.filled = resting.original - left
    BY DEF Entry
  <2> HIDE DEF full, part
  <2>9. /\ full.filled >= status[resting.id].filled
        /\ part.filled >= status[resting.id].filled
    BY <2>2, <2>6, <2>7, <2>8
  <2>10. /\ Forward(status, With(status, resting.id, full))
         /\ Forward(status, Pruned(With(status, resting.id, part), orderIndex'))
    BY <1>1, <2>7, <2>9, ForwardPruned
  <2> QED BY <2>2, <2>10
<1>12. CASE CancelResting
  <2>1. PICK id \in DOMAIN orderIndex : CancelAtLevel(id)
    BY <1>12 DEF CancelResting
  <2> DEFINE side  == orderIndex[id][1]
             price == orderIndex[id][2]
             orders == levels[side][price].orders
  <2>2. PICK i \in DOMAIN orders :
          /\ orders[i].id = id
          /\ status' = Pruned(With(status, id,
                         Entry("Cancelled", FilledQuantity(orders[i]))), orderIndex')
    BY <2>1 DEF CancelAtLevel
  <2>3. price \in DOMAIN levels[side] /\ side \in Sides
    <3>1. orderIndex[id] \in Sides \X Prices
      BY <1>1 DEF TypeOK, IsMap
    <3> QED BY <2>1, <3>1 DEF CancelAtLevel
  <2> DEFINE entry == Entry("Cancelled", FilledQuantity(orders[i]))
  <2>4. /\ QueueOK(side, price, orders, orderIndex, status)
        /\ orders[i] \in Order
    <3>1. QueueOK(side, price, orders, orderIndex, status)
      BY <2>3 DEF PlaceInv, QueuesOK
    <3> HIDE DEF side, price
    <3>2. levels[side][price] \in Level
      BY <1>1, <2>3 DEF LevelsOK, IsMap
    <3> QED BY <3>1, <3>2 DEF Level
  <2> HIDE DEF side, price, orders
  <2>5. status[id] = Known(orders[i])
    BY <2>2, <2>4 DEF QueueOK
  <2>6. /\ status[id].state \notin Closed /\ entry.filled = status[id].filled
        /\ entry.filled \in Int
    BY <2>4, <2>5 DEF Known, Entry, Closed, FilledQuantity, Order
  <2> HIDE DEF entry
  <2>7. Forward(status, Pruned(With(status, id, entry), orderIndex'))
    BY <1>1, <2>6, ForwardPruned
  <2> QED BY <2>2, <2>7 DEF entry
<1>13. CASE CancelStop
  <2>1. PICK i \in DOMAIN stopOrders : CancelStopAt(i)
    BY <1>13 DEF CancelStop
  <2> DEFINE id == stopOrders[i].id
             entry == Entry("Cancelled", FilledQuantity(stopOrders[i]))
  <2>2. status' = Pruned(With(status, id, entry), orderIndex)
    BY <2>1 DEF CancelStopAt
  <2>3. Pending(stopOrders[i], status) /\ stopOrders[i] \in Order
    BY <1>1 DEF PlaceInv, StopsOK, TypeOK
  <2>4. status[id] = Entry("PendingStop", 0)
    BY <2>3 DEF Pending
  <2>5. FilledQuantity(stopOrders[i]) = 0
    BY <2>3 DEF Pending, Untouched, FilledQuantity, Order
  <2>6. status[id].state \notin Closed /\ entry.filled >= status[id].filled
    BY <2>4, <2>5 DEF Entry, Closed
  <2> HIDE DEF id, entry
  <2>7. Forward(status, Pruned(With(status, id, entry), orderIndex))
    BY <1>1, <2>6, ForwardPruned
  <2> QED BY <2>2, <2>7
<1>14. CASE PopTriggerPrice \/ Release \/ UNCHANGED vars
  BY <1>2, <1>14 DEF PopTriggerPrice, Release, vars, book
<1> QED BY <1>5, <1>6, <1>7, <1>8, <1>9, <1>10, <1>11, <1>12, <1>13, <1>14
        DEF Next, HolderStep

(* No step reopens a closed order or changes its quantity, nor does an     *)
(* open one lose a fill, as long as the log remembers it.                  *)
THEOREM ClosedForGood == Spec => ClosedStaysClosed
<1> DEFINE Step == \A id \in DOMAIN status \cap DOMAIN status' :
                     /\ status[id].state \in Closed => status'[id] = status[id]
                     /\ status'[id].filled >= status[id].filled
<1>1. PlaceInv /\ [Next]_vars => [Step]_vars
  <2> SUFFICES ASSUME PlaceInv, [Next]_vars PROVE Step
    OBVIOUS
  <2>1. Forward(status, status')
    BY NextForward
  <2>2. \A id \in DOMAIN status : status[id].filled \in Int
    BY DEF PlaceInv, IInv, TypeOK, IsMap
  <2> QED BY <2>1, <2>2 DEF Forward
<1> HIDE DEF Step
<1>2. Spec => [][Step]_vars
  BY <1>1, PlacesInductive, PTL DEF Spec
<1> QED BY <1>2 DEF ClosedStaysClosed, Step


-----------------------------------------------------------------------------
(* The book serves by price, then by time *)

(* A queue is in the order of its arrivals, none of them later than n. *)
Rising(orders, n) ==
  \A i \in DOMAIN orders :
    /\ orders[i].sequence <= n
    /\ \A j \in DOMAIN orders : i < j => orders[i].sequence < orders[j].sequence

RisingLevels(l, n) ==
  \A side \in Sides : \A price \in DOMAIN l[side] : Rising(l[side][price].orders, n)

(* The newest sequence that a resting order may have: the order in the     *)
(* match loop came after all of them.                                      *)
NewestResting == IF incoming = NoOrder THEN nextSequence ELSE nextSequence - 1

SequenceInv ==
  /\ RisingLevels(levels, NewestResting)
  /\ incoming # NoOrder => incoming.sequence = nextSequence

(* The sequences of a queue are natural numbers. *)
LEMMA SequencesInQueue ==
  ASSUME NEW orders \in Seq(Order), NEW i \in DOMAIN orders
  PROVE  orders[i] \in Order /\ orders[i].sequence \in Nat
<1>1. orders[i] \in Order
  OBVIOUS
<1> QED BY <1>1 DEF Order

(* A queue that an order leaves, or whose first order is filled in part,   *)
(* or that a newer order joins, is still in the order of arrival.          *)
LEMMA RisingWithout ==
  ASSUME NEW orders \in Seq(Order), NEW g \in DOMAIN orders, NEW n, Rising(orders, n)
  PROVE  Rising(RemoveAt(orders, g), n)
<1> DEFINE rest == RemoveAt(orders, g)
           at(j) == IF j < g THEN j ELSE j + 1
<1>1. /\ DOMAIN rest = 1..Len(orders) - 1
      /\ \A j \in 1..Len(orders) - 1 : rest[j] = orders[at(j)]
  <2>1. /\ rest \in Seq(Order) /\ Len(rest) = Len(orders) - 1
        /\ \A j \in 1..Len(orders) - 1 : rest[j] = orders[IF j < g THEN j ELSE j + 1]
    BY RemoveAtPlaces
  <2> HIDE DEF rest
  <2> QED BY <2>1
<1>2. /\ \A j \in 1..Len(orders) - 1 : at(j) \in DOMAIN orders
      /\ \A j, k \in 1..Len(orders) - 1 : j < k => at(j) < at(k)
  <2>1. DOMAIN orders = 1..Len(orders) /\ Len(orders) \in Nat /\ g \in 1..Len(orders)
    OBVIOUS
  <2> QED BY <2>1
<1> HIDE DEF rest, at
<1>3. ASSUME NEW j \in DOMAIN rest
      PROVE  /\ rest[j].sequence <= n
             /\ \A k \in DOMAIN rest : j < k => rest[j].sequence < rest[k].sequence
  BY <1>1, <1>2 DEF Rising
<1> QED BY <1>3 DEF Rising, rest

LEMMA RisingWithHead ==
  ASSUME NEW orders \in Seq(Order), orders # << >>, NEW left, NEW n, Rising(orders, n)
  PROVE  Rising(WithHead(orders, left), n)
<1> DEFINE new == WithHead(orders, left)
<1>1. DOMAIN new = DOMAIN orders
  BY DEF WithHead
<1>2. ASSUME NEW i \in DOMAIN orders
      PROVE  new[i].sequence = orders[i].sequence
  <2>1. orders[i] \in Order
    OBVIOUS
  <2>2. CASE i = 1
    <3>1. new[i] = [orders[i] EXCEPT !.remaining = left]
      BY <2>2 DEF WithHead
    <3> HIDE DEF new
    <3> QED BY <2>1, <3>1 DEF Order
  <2>3. CASE i # 1
    <3>1. new[i] = orders[i]
      BY <2>3 DEF WithHead
    <3> QED BY <3>1
  <2> QED BY <2>2, <2>3
<1> HIDE DEF new
<1> QED BY <1>1, <1>2 DEF Rising, new

LEMMA RisingAppended ==
  ASSUME NEW orders \in Seq(Order), NEW order \in Order, NEW n \in Int,
         Rising(orders, n - 1), order.sequence = n
  PROVE  Rising(Append(orders, order), n)
<1> DEFINE new == Append(orders, order)
           last == Len(orders) + 1
<1>1. /\ Len(orders) \in Nat /\ DOMAIN orders = 1..Len(orders)
      /\ DOMAIN new = 1..last
      /\ new[last] = order
      /\ \A i \in DOMAIN orders : new[i] = orders[i]
  OBVIOUS
<1>2. \A i \in DOMAIN orders : orders[i].sequence \in Nat /\ orders[i].sequence <= n - 1
  BY SequencesInQueue DEF Rising
<1>3. \A i \in DOMAIN new : i = last \/ i \in DOMAIN orders
  BY <1>1
<1>4. \A i \in DOMAIN orders : i < last /\ last \notin DOMAIN orders
  BY <1>1
<1>5. \A i \in DOMAIN new : ~(last < i)
  BY <1>1
<1> HIDE DEF new, last
<1>6. ASSUME NEW i \in DOMAIN new
      PROVE  new[i].sequence <= n
  <2>1. CASE i = last
    BY <1>1, <2>1
  <2>2. CASE i \in DOMAIN orders
    <3>1. orders[i].sequence \in Nat /\ orders[i].sequence <= n - 1
      BY <1>2, <2>2
    <3>2. new[i].sequence = orders[i].sequence
      BY <1>1, <2>2
    <3> QED BY <3>1, <3>2
  <2> QED BY <1>3, <2>1, <2>2
<1>7. ASSUME NEW i \in DOMAIN new, NEW j \in DOMAIN new, i < j
      PROVE  new[i].sequence < new[j].sequence
  <2>1. i \in DOMAIN orders
    BY <1>3, <1>5, <1>7
  <2>2. orders[i].sequence \in Nat /\ orders[i].sequence <= n - 1
    BY <1>2, <2>1
  <2>3. new[i] = orders[i]
    BY <1>1, <2>1
  <2>4. CASE j = last
    BY <1>1, <2>2, <2>3, <2>4
  <2>5. CASE j \in DOMAIN orders
    BY <1>1, <1>7, <2>1, <2>3, <2>5 DEF Rising
  <2> QED BY <1>3, <2>4, <2>5
<1> QED BY <1>6, <1>7 DEF Rising, new

(* A later bound is a bound. *)
LEMMA RisingLater ==
  ASSUME LevelsOK(levels), NEW m \in Int, NEW n \in Int, m <= n, RisingLevels(levels, m)
  PROVE  RisingLevels(levels, n)
<1> SUFFICES ASSUME NEW side \in Sides, NEW price \in DOMAIN levels[side],
                    NEW i \in DOMAIN levels[side][price].orders
             PROVE  levels[side][price].orders[i].sequence <= n
  BY DEF RisingLevels, Rising
<1>1. levels[side][price].orders \in Seq(Order)
  BY DEF LevelsOK, IsMap, Level
<1>2. levels[side][price].orders[i].sequence \in Nat
  BY <1>1, SequencesInQueue
<1>3. levels[side][price].orders[i].sequence <= m
  BY DEF RisingLevels, Rising
<1> QED BY <1>2, <1>3

LEMMA RisingReplaced ==
  ASSUME LevelsOK(levels), NEW n, RisingLevels(levels, n), NEW side \in Sides, NEW price,
         NEW orders, NEW total, Rising(orders, n)
  PROVE  RisingLevels(Requeued(side, price, orders, total), n)
<1> DEFINE new == Requeued(side, price, orders, total)
<1>1. /\ \A t \in Sides : \A q : <<t, q>> # <<side, price>> =>
           /\ q \in DOMAIN new[t] <=> q \in DOMAIN levels[t]
           /\ q \in DOMAIN levels[t] => new[t][q] = levels[t][q]
      /\ price \in DOMAIN new[side] <=> orders # << >>
      /\ orders # << >> => new[side][price] = [orders |-> orders, total |-> total]
  BY RequeuedLevels
<1> HIDE DEF new
<1>2. ASSUME NEW s \in Sides, NEW p \in DOMAIN new[s]
      PROVE  Rising(new[s][p].orders, n)
  <2>1. CASE <<s, p>> = <<side, price>>
    <3>1. new[s][p] = [orders |-> orders, total |-> total]
      BY <1>1, <2>1
    <3> QED BY <3>1
  <2>2. CASE <<s, p>> # <<side, price>>
    <3>1. p \in DOMAIN levels[s] /\ new[s][p] = levels[s][p]
      BY <1>1, <2>2
    <3> QED BY <3>1 DEF RisingLevels
  <2> QED BY <2>1, <2>2
<1> QED BY <1>2 DEF RisingLevels, new


(* A fill takes no more than the order in the match loop has left, and     *)
(* changes nothing else of it.                                             *)
LEMMA FillTaker ==
  ASSUME IInv, FillBest, NEW side, NEW price, NEW quantity \in Nat, NEW left,
         FillSays(side, price, levels[side][price].orders, quantity, left)
  PROVE  /\ incoming # NoOrder /\ incoming' # NoOrder
         /\ incoming \in Order /\ incoming' \in Order
         /\ incoming' = [incoming EXCEPT !.remaining = incoming.remaining - quantity]
         /\ quantity <= incoming.remaining
<1>1. TypeOK /\ TypeOK'
  BY FillBestOK DEF IInv
<1>2. phase = "matching" /\ phase' = "matching"
  BY DEF FillBest
<1>3. /\ incoming # NoOrder /\ incoming' # NoOrder
      /\ incoming \in Order /\ incoming' \in Order
  BY <1>1, <1>2 DEF TypeOK
<1>4. incoming' = [incoming EXCEPT !.remaining = incoming.remaining - quantity]
  BY DEF FillSays
<1>5. incoming.remaining - quantity \in Nat /\ incoming.remaining \in Nat
  <2>1. incoming'.remaining = incoming.remaining - quantity
    BY <1>3, <1>4 DEF Order
  <2> QED BY <1>3, <2>1 DEF Order
<1>6. quantity <= incoming.remaining
  BY <1>5
<1> QED BY <1>3, <1>4, <1>6

(* An order that may rest has a price. *)
LEMMA RestsPriced ==
  ASSUME TakerPriced, incoming \in Order, incoming # NoOrder, Rests(incoming)
  PROVE  incoming.side \in Sides /\ incoming.price \in Prices
<1>1. /\ incoming.side \in Sides /\ incoming.kind \in Kinds
      /\ incoming.price \in Prices \cup {NoPrice}
  BY DEF Order
<1>2. incoming.kind \in {"Limit", "PostOnly"}
  BY <1>1 DEF TakerPriced, Rests, Kinds, StopKinds
<1> QED BY <1>1, <1>2 DEF TakerPriced, RequiresPrice

(* A triggered stop order enters as an order of the kind it stood for. *)
LEMMA TriggeredEnters ==
  ASSUME TypeOK, SubmitTriggered
  PROVE  \E order \in Order : Enter(order)
<1> DEFINE order == [Head(ready) EXCEPT
                       !.kind = IF @ = "StopMarket" THEN "Market" ELSE "Limit"]
<1>1. ready \in Seq(Order) /\ ready # << >> /\ Enter(order)
  BY DEF TypeOK, SubmitTriggered
<1>2. Head(ready) \in Order
  BY <1>1
<1>3. order \in Order
  BY <1>2 DEF Order, Kinds
<1> QED BY <1>1, <1>3

(* A fill leaves the queues in their order. *)
LEMMA FillBestSequences ==
  ASSUME PlaceInv, SequenceInv, FillBest
  PROVE  SequenceInv'
<1>0. IInv /\ TypeOK /\ LevelsOK(levels)
  BY LevelsFromInv DEF PlaceInv, IInv
<1>1. PICK side \in Sides, price \in Prices, quantity \in Nat, left \in Nat :
        FillSays(side, price, levels[side][price].orders, quantity, left)
  BY <1>0, FillBestSays
<1> DEFINE orders == levels[side][price].orders
           total  == levels[side][price].total - quantity
           queue  == IF left = 0 THEN Tail(orders)
                     ELSE [orders EXCEPT ![1].remaining = left]
           newest == nextSequence - 1
<1>2. /\ orders \in Seq(Order) /\ orders # << >> /\ price \in DOMAIN levels[side]
      /\ levels' = Requeued(side, price, queue, total)
      /\ nextSequence' = nextSequence
  BY <1>1 DEF FillSays
<1>3. /\ incoming # NoOrder /\ incoming' # NoOrder /\ incoming \in Order
      /\ incoming' = [incoming EXCEPT !.remaining = incoming.remaining - quantity]
  BY <1>0, <1>1, FillTaker
<1>4. incoming'.sequence = incoming.sequence
  BY <1>3 DEF Order
<1>5. RisingLevels(levels, newest) /\ incoming.sequence = nextSequence
  BY <1>3 DEF SequenceInv, NewestResting
<1> HIDE DEF newest
<1>6. Rising(queue, newest)
  <2>1. Rising(orders, newest)
    BY <1>2, <1>5 DEF RisingLevels
  <2> HIDE DEF orders
  <2>2. CASE left = 0
    BY <1>2, <2>1, <2>2, TailRemovesFirst, RisingWithout
  <2>3. CASE left # 0
    <3>1. queue = WithHead(orders, left)
      BY <2>3 DEF WithHead
    <3> HIDE DEF queue
    <3> QED BY <1>2, <2>1, <3>1, RisingWithHead
  <2> QED BY <2>2, <2>3
<1> HIDE DEF queue, total
<1>7. RisingLevels(levels', newest)
  <2>1. RisingLevels(Requeued(side, price, queue, total), newest)
    BY <1>0, <1>5, <1>6, RisingReplaced
  <2> QED BY <1>2, <2>1
<1>8. NewestResting' = newest
  BY <1>2, <1>3 DEF NewestResting, newest
<1> QED BY <1>2, <1>3, <1>4, <1>5, <1>7, <1>8 DEF SequenceInv

(* The order that rests is the newest of its queue. *)
LEMMA FinishSequences ==
  ASSUME PlaceInv, SequenceInv, Finish
  PROVE  SequenceInv'
<1> DEFINE side  == incoming.side
           price == incoming.price
           queue == QueueAt(side, price)
           orders == Append(queue.orders, incoming)
           total  == queue.total + incoming.remaining
<1>0. IInv /\ TypeOK /\ TakerPriced /\ LevelsOK(levels)
  BY LevelsFromInv DEF PlaceInv, IInv
<1>1. /\ incoming \in Order /\ incoming # NoOrder /\ incoming' = NoOrder
      /\ nextSequence' = nextSequence /\ nextSequence \in Nat
  BY <1>0, SentinelsAssumption DEF Finish, EndSubmit, TypeOK
<1>2. RisingLevels(levels, nextSequence - 1) /\ incoming.sequence = nextSequence
  BY <1>1 DEF SequenceInv, NewestResting
<1>3. RisingLevels(levels, nextSequence)
  BY <1>0, <1>1, <1>2, RisingLater
<1>4. RisingLevels(levels', nextSequence)
  <2>1. CASE ~Rests(incoming)
    BY <1>3, <2>1 DEF Finish
  <2>2. CASE Rests(incoming)
    <3>1. levels' = Requeued(side, price, orders, total)
      BY <2>2 DEF Finish
    <3>2. side \in Sides /\ price \in Prices
      BY <1>0, <1>1, <2>2, RestsPriced
    <3>3. queue.orders \in Seq(Order)
      BY <1>0, <3>2, QueueAtOK
    <3>4. Rising(queue.orders, nextSequence - 1)
      <4>1. CASE price \in DOMAIN levels[side]
        BY <1>2, <3>2, <4>1 DEF QueueAt, RisingLevels
      <4>2. CASE price \notin DOMAIN levels[side]
        BY <4>2 DEF QueueAt, Rising
      <4> QED BY <4>1, <4>2
    <3> HIDE DEF queue, side, price
    <3>5. Rising(orders, nextSequence)
      BY <1>1, <1>2, <3>3, <3>4, RisingAppended
    <3> HIDE DEF orders, total
    <3>6. RisingLevels(Requeued(side, price, orders, total), nextSequence)
      BY <1>0, <1>3, <3>2, <3>5, RisingReplaced
    <3> QED BY <3>1, <3>6
  <2> QED BY <2>1, <2>2
<1>5. NewestResting' = nextSequence
  BY <1>1 DEF NewestResting
<1> QED BY <1>1, <1>4, <1>5 DEF SequenceInv

LEMMA CancelRestingSequences ==
  ASSUME PlaceInv, SequenceInv, CancelResting
  PROVE  SequenceInv'
<1>0. IInv /\ TypeOK /\ LevelsOK(levels)
  BY LevelsFromInv DEF PlaceInv, IInv
<1>1. PICK id \in DOMAIN orderIndex : CancelAtLevel(id)
  BY DEF CancelResting
<1> DEFINE side  == orderIndex[id][1]
           price == orderIndex[id][2]
           level == levels[side][price]
           orders == level.orders
<1>2. PICK i \in DOMAIN orders :
        levels' = Requeued(side, price, RemoveAt(orders, i),
                           level.total - orders[i].remaining)
  BY <1>1 DEF CancelAtLevel
<1>3. price \in DOMAIN levels[side] /\ nextSequence' = nextSequence
  BY <1>1 DEF CancelAtLevel
<1>4. side \in Sides
  <2>1. orderIndex[id] \in Sides \X Prices
    BY <1>0 DEF TypeOK, IsMap
  <2> QED BY <2>1
<1>5. incoming' = incoming
  BY DEF CancelResting
<1> DEFINE total == level.total - orders[i].remaining
           rest  == RemoveAt(orders, i)
<1>6. levels' = Requeued(side, price, rest, total)
  BY <1>2
<1> HIDE DEF side, price
<1>7. orders \in Seq(Order) /\ Rising(orders, NewestResting)
  <2>1. level \in Level
    BY <1>0, <1>3, <1>4 DEF LevelsOK, IsMap
  <2> QED BY <1>3, <1>4, <2>1 DEF Level, SequenceInv, RisingLevels
<1> HIDE DEF level, orders
<1>8. Rising(rest, NewestResting)
  BY <1>7, RisingWithout
<1> HIDE DEF total, rest
<1>9. RisingLevels(Requeued(side, price, rest, total), NewestResting)
  BY <1>0, <1>4, <1>8, RisingReplaced DEF SequenceInv
<1>10. NewestResting' = NewestResting
  BY <1>3, <1>5 DEF NewestResting
<1> QED BY <1>3, <1>5, <1>6, <1>9, <1>10 DEF SequenceInv

(* An order that is admitted comes after all that rest. *)
LEMMA AdmitSequences ==
  ASSUME PlaceInv, SequenceInv, NEW order \in Order, Admit(order), incoming = NoOrder
  PROVE  SequenceInv'
<1>0. LevelsOK(levels) /\ nextSequence \in Nat
  BY LevelsFromInv DEF PlaceInv, IInv, TypeOK
<1>1. RisingLevels(levels, nextSequence)
  BY DEF SequenceInv, NewestResting
<1>2. CASE AcceptStop(order)
  <2>1. levels' = levels /\ incoming' = NoOrder /\ nextSequence' = nextSequence + 1
    BY <1>2 DEF AcceptStop
  <2>2. nextSequence + 1 \in Int /\ nextSequence <= nextSequence + 1
    BY <1>0
  <2>3. RisingLevels(levels, nextSequence + 1)
    BY <1>0, <1>1, <2>2, RisingLater
  <2> QED BY <2>1, <2>3 DEF SequenceInv, NewestResting
<1>3. CASE ExpireUnfillable(order)
  BY <1>1, <1>3 DEF ExpireUnfillable, book, SequenceInv, NewestResting
<1>4. CASE StartMatching(order)
  <2>1. /\ levels' = levels /\ nextSequence' = nextSequence + 1
        /\ incoming' = [order EXCEPT !.sequence = nextSequence + 1]
    BY <1>4 DEF StartMatching
  <2>2. incoming' \in Order /\ incoming'.sequence = nextSequence'
    BY <1>0, <2>1 DEF Order
  <2>3. incoming' # NoOrder
    BY <2>2, SentinelsAssumption
  <2>4. NewestResting' = nextSequence
    BY <1>0, <2>1, <2>3 DEF NewestResting
  <2> QED BY <1>1, <2>1, <2>2, <2>4 DEF SequenceInv
<1> QED BY <1>2, <1>3, <1>4 DEF Admit

LEMMA NextSequences == PlaceInv /\ SequenceInv /\ [Next]_vars => SequenceInv'
<1> SUFFICES ASSUME PlaceInv, SequenceInv, [Next]_vars PROVE SequenceInv'
  OBVIOUS
<1>0. TypeOK /\ LevelsOK(levels) /\ nextSequence \in Nat
  BY LevelsFromInv DEF PlaceInv, IInv, TypeOK
<1>1. CASE FillBest      BY <1>1, FillBestSequences
<1>2. CASE Finish        BY <1>2, FinishSequences
<1>3. CASE CancelResting BY <1>3, CancelRestingSequences
<1>4. CASE SubmitOrder
  <2>1. PICK order \in Requests : Admit(order)
    BY <1>4 DEF SubmitOrder
  <2>2. order \in Order /\ incoming = NoOrder
    BY <1>0, <1>4, RequestsAreOrders DEF SubmitOrder, TypeOK
  <2> QED BY <2>1, <2>2, AdmitSequences
<1>5. CASE SubmitTriggered
  <2>1. PICK order \in Order : Enter(order)
    BY <1>0, <1>5, TriggeredEnters
  <2>2. incoming = NoOrder
    BY <1>0, <1>5 DEF SubmitTriggered, TypeOK
  <2>3. CASE Admit(order)
    BY <2>2, <2>3, AdmitSequences
  <2>4. CASE Refuse(order.id)
    BY <2>4 DEF Refuse, book, SequenceInv, NewestResting
  <2> QED BY <2>1, <2>3, <2>4 DEF Enter
<1>6. CASE RefuseOrder
  BY <1>6 DEF RefuseOrder, Refuse, book, SequenceInv, NewestResting
<1>7. CASE CancelStop
  BY <1>7 DEF CancelStop, CancelStopAt, SequenceInv, NewestResting
<1>8. CASE PreventSelfTrade
  <2>1. /\ levels' = levels /\ incoming' = NoOrder /\ nextSequence' = nextSequence
        /\ incoming # NoOrder
    BY <1>0, <1>8 DEF PreventSelfTrade, EndSubmit, TypeOK
  <2>2. RisingLevels(levels, nextSequence - 1)
    BY <2>1 DEF SequenceInv, NewestResting
  <2>3. RisingLevels(levels, nextSequence)
    BY <1>0, <2>2, RisingLater
  <2> QED BY <2>1, <2>3 DEF SequenceInv, NewestResting
<1>9. CASE PopTriggerPrice \/ DrainStop \/ Release \/ UNCHANGED vars
  BY <1>9 DEF PopTriggerPrice, DrainStop, Release, vars, book, SequenceInv, NewestResting
<1> QED BY <1>1, <1>2, <1>3, <1>4, <1>5, <1>6, <1>7, <1>8, <1>9 DEF Next, HolderStep


(* What PriceTimePriority sees of the book. *)
Open == {Ticket(o) : o \in RestingOrders}

Taker == IF incoming = NoOrder THEN NoOrder
         ELSE [Ticket(incoming) EXCEPT
                 !.price = IF incoming.kind = "Market" THEN NoPrice ELSE @]

(* A resting order is in a queue of its side and price. *)
LEMMA RestingPlaces ==
  ASSUME PlaceInv, NEW o \in RestingOrders
  PROVE  /\ o \in Order /\ o.side \in Sides /\ o.price \in DOMAIN levels[o.side]
         /\ levels[o.side][o.price].orders \in Seq(Order)
         /\ o.remaining > 0
         /\ \E i \in DOMAIN levels[o.side][o.price].orders :
              o = levels[o.side][o.price].orders[i]
<1>0. LevelsOK(levels) /\ QueuesOK(levels, orderIndex, status)
  BY LevelsFromInv DEF PlaceInv, IInv
<1>1. PICK side \in Sides : o \in Resting(side)
  BY DEF RestingOrders, Sides
<1>2. PICK price \in DOMAIN levels[side] :
        \E i \in DOMAIN levels[side][price].orders : o = levels[side][price].orders[i]
  BY <1>1 DEF Resting, Range
<1>3. PICK i \in DOMAIN levels[side][price].orders : o = levels[side][price].orders[i]
  BY <1>2
<1>4. o.side = side /\ o.price = price /\ o.remaining > 0
  BY <1>0, <1>3 DEF QueuesOK, QueueOK
<1>5. levels[side][price].orders \in Seq(Order)
  BY <1>0 DEF LevelsOK, IsMap, Level
<1>6. o \in Order
  BY <1>3, <1>5
<1> QED BY <1>3, <1>4, <1>5, <1>6

(* What is in a queue is resting. *)
LEMMA QueuedRests ==
  ASSUME NEW side \in Sides, NEW price \in DOMAIN levels[side],
         NEW i \in DOMAIN levels[side][price].orders
  PROVE  levels[side][price].orders[i] \in RestingOrders
<1>1. levels[side][price].orders[i] \in Resting(side)
  BY DEF Resting, Range
<1> QED BY <1>1 DEF RestingOrders, Sides

(* Two resting orders have two identifiers. *)
LEMMA RestingOnce ==
  ASSUME PlaceInv, NEW o \in RestingOrders, NEW p \in RestingOrders, o.id = p.id
  PROVE  o = p
<1>0. QueuesOK(levels, orderIndex, status)
  BY DEF PlaceInv
<1>1. /\ o.side \in Sides /\ o.price \in DOMAIN levels[o.side]
      /\ p.side \in Sides /\ p.price \in DOMAIN levels[p.side]
  BY RestingPlaces
<1>2. PICK i \in DOMAIN levels[o.side][o.price].orders :
        o = levels[o.side][o.price].orders[i]
  BY RestingPlaces
<1>3. PICK j \in DOMAIN levels[p.side][p.price].orders :
        p = levels[p.side][p.price].orders[j]
  BY RestingPlaces
<1>4. orderIndex[o.id] = <<o.side, o.price>> /\ orderIndex[p.id] = <<p.side, p.price>>
  BY <1>0, <1>1, <1>2, <1>3 DEF QueuesOK, QueueOK
<1>5. o.side = p.side /\ o.price = p.price
  BY <1>4
<1>6. i = j
  BY <1>0, <1>1, <1>2, <1>3, <1>5 DEF QueuesOK, QueueOK
<1> QED BY <1>2, <1>3, <1>5, <1>6

(* A ticket tells its order. *)
LEMMA TicketGives ==
  ASSUME NEW o
  PROVE  /\ Ticket(o).id = o.id /\ Ticket(o).user = o.user /\ Ticket(o).side = o.side
         /\ Ticket(o).price = o.price /\ Ticket(o).remaining = o.remaining
         /\ Ticket(o).sequence = o.sequence
BY DEF Ticket

(* The tickets of all resting orders but one. *)
LEMMA OpenWithout ==
  ASSUME PlaceInv, NEW r \in RestingOrders
  PROVE  {Ticket(o) : o \in RestingOrders \ {r}} = Open \ {Ticket(r)}
<1>1. \A o \in RestingOrders : Ticket(o) = Ticket(r) => o = r
  BY RestingOnce, TicketGives
<1> HIDE DEF Ticket
<1> QED BY <1>1 DEF Open

(* The orders that rest anywhere but at one level. *)
Elsewhere(side, price) ==
  {o \in RestingOrders : o.side # side \/ o.price # price}

(* If one level gets a queue, the resting orders are those of this queue   *)
(* and those that rest elsewhere.                                          *)
LEMMA RestingRequeued ==
  ASSUME PlaceInv, NEW side \in Sides, NEW price, NEW orders, NEW total,
         levels' = Requeued(side, price, orders, total)
  PROVE  RestingOrders' = Elsewhere(side, price) \cup Range(orders)
<1>0. LevelsOK(levels) /\ QueuesOK(levels, orderIndex, status)
  BY LevelsFromInv DEF PlaceInv, IInv
<1>1. /\ \A t \in Sides : \A q : <<t, q>> # <<side, price>> =>
           /\ q \in DOMAIN levels'[t] <=> q \in DOMAIN levels[t]
           /\ q \in DOMAIN levels[t] => levels'[t][q] = levels[t][q]
      /\ price \in DOMAIN levels'[side] <=> orders # << >>
      /\ orders # << >> => levels'[side][price] = [orders |-> orders, total |-> total]
  BY <1>0, RequeuedLevels
<1>2. ASSUME NEW o \in RestingOrders'
      PROVE  o \in Elsewhere(side, price) \cup Range(orders)
  <2>1. PICK s \in Sides : o \in Resting(s)'
    BY DEF RestingOrders, Sides
  <2>2. PICK p \in DOMAIN levels'[s] :
          \E i \in DOMAIN levels'[s][p].orders : o = levels'[s][p].orders[i]
    BY <2>1 DEF Resting, Range
  <2>3. CASE <<s, p>> = <<side, price>>
    <3>1. levels'[s][p].orders = orders
      BY <1>1, <2>2, <2>3
    <3> QED BY <2>2, <3>1 DEF Range
  <2>4. CASE <<s, p>> # <<side, price>>
    <3>1. p \in DOMAIN levels[s] /\ levels'[s][p] = levels[s][p]
      BY <1>1, <2>2, <2>4
    <3>2. PICK i \in DOMAIN levels[s][p].orders : o = levels[s][p].orders[i]
      BY <2>2, <3>1
    <3>3. o \in RestingOrders
      BY <3>1, <3>2, QueuedRests
    <3>4. o.side = s /\ o.price = p
      BY <1>0, <3>1, <3>2 DEF QueuesOK, QueueOK
    <3> QED BY <2>4, <3>3, <3>4 DEF Elsewhere
  <2> QED BY <2>3, <2>4
<1>3. ASSUME NEW o \in Elsewhere(side, price)
      PROVE  o \in RestingOrders'
  <2>1. /\ o \in RestingOrders /\ <<o.side, o.price>> # <<side, price>>
        /\ o.side \in Sides /\ o.price \in DOMAIN levels[o.side]
    BY RestingPlaces DEF Elsewhere
  <2>2. PICK i \in DOMAIN levels[o.side][o.price].orders :
          o = levels[o.side][o.price].orders[i]
    BY <2>1, RestingPlaces
  <2>3. o.price \in DOMAIN levels'[o.side] /\ levels'[o.side][o.price] = levels[o.side][o.price]
    BY <1>1, <2>1
  <2>4. o \in Resting(o.side)'
    BY <2>2, <2>3 DEF Resting, Range
  <2> QED BY <2>1, <2>4 DEF RestingOrders, Sides
<1>4. ASSUME NEW o \in Range(orders)
      PROVE  o \in RestingOrders'
  <2>1. PICK i \in DOMAIN orders : o = orders[i]
    BY DEF Range
  <2>2. orders # << >>
    BY <2>1
  <2>3. price \in DOMAIN levels'[side] /\ levels'[side][price].orders = orders
    BY <1>1, <2>2
  <2>4. o \in Resting(side)'
    BY <2>3 DEF Resting
  <2> QED BY <2>4 DEF RestingOrders, Sides
<1> QED BY <1>2, <1>3, <1>4

(* Elsewhere and at a level are all. *)
LEMMA RestingHere ==
  ASSUME PlaceInv, NEW side \in Sides, NEW price
  PROVE  RestingOrders = Elsewhere(side, price) \cup Range(QueueAt(side, price).orders)
<1>0. QueuesOK(levels, orderIndex, status)
  BY DEF PlaceInv
<1>1. CASE price \in DOMAIN levels[side]
  <2>1. QueueAt(side, price).orders = levels[side][price].orders
    BY <1>1 DEF QueueAt
  <2>2. ASSUME NEW o \in Range(levels[side][price].orders)
        PROVE  o \in RestingOrders
    BY <1>1, QueuedRests DEF Range
  <2>3. ASSUME NEW o \in RestingOrders, o \notin Elsewhere(side, price)
        PROVE  o \in Range(levels[side][price].orders)
    <3>1. o.side = side /\ o.price = price
      BY <2>3 DEF Elsewhere
    <3> QED BY <3>1, RestingPlaces DEF Range
  <2> QED BY <2>1, <2>2, <2>3 DEF Elsewhere
<1>2. CASE price \notin DOMAIN levels[side]
  <2>1. QueueAt(side, price).orders = << >>
    BY <1>2 DEF QueueAt
  <2>2. Range(QueueAt(side, price).orders) = {}
    BY <2>1 DEF Range
  <2>3. \A o \in RestingOrders : o \in Elsewhere(side, price)
    BY <1>2, RestingPlaces DEF Elsewhere
  <2> QED BY <2>2, <2>3 DEF Elsewhere
<1> QED BY <1>1, <1>2

(* Taking one order from its queue takes it from the resting orders. *)
LEMMA RestingWithout ==
  ASSUME PlaceInv, NEW side \in Sides, NEW price \in DOMAIN levels[side],
         NEW g \in DOMAIN levels[side][price].orders, NEW total,
         levels' = Requeued(side, price, RemoveAt(levels[side][price].orders, g), total)
  PROVE  RestingOrders' = RestingOrders \ {levels[side][price].orders[g]}
<1> DEFINE orders == levels[side][price].orders
           r == orders[g]
           rest == RemoveAt(orders, g)
<1>0. LevelsOK(levels) /\ QueueOK(side, price, orders, orderIndex, status)
  BY LevelsFromInv DEF PlaceInv, IInv, QueuesOK
<1>1. orders \in Seq(Order)
  BY <1>0 DEF LevelsOK, IsMap, Level
<1>2. RestingOrders = Elsewhere(side, price) \cup Range(orders)
  <2>1. QueueAt(side, price).orders = orders
    BY DEF QueueAt
  <2> QED BY <2>1, RestingHere
<1>3. RestingOrders' = Elsewhere(side, price) \cup Range(rest)
  BY RestingRequeued
<1>4. r \notin Elsewhere(side, price)
  BY <1>0 DEF QueueOK, Elsewhere
<1> HIDE DEF orders
<1>5. Range(rest) = Range(orders) \ {r}
  <2> DEFINE at(j) == IF j < g THEN j ELSE j + 1
  <2>1. /\ DOMAIN rest = 1..Len(orders) - 1
        /\ \A j \in 1..Len(orders) - 1 : rest[j] = orders[at(j)]
    <3>1. /\ rest \in Seq(Order) /\ Len(rest) = Len(orders) - 1
          /\ \A j \in 1..Len(orders) - 1 : rest[j] = orders[IF j < g THEN j ELSE j + 1]
      BY <1>1, RemoveAtPlaces DEF orders
    <3> HIDE DEF rest
    <3> QED BY <3>1
  <2>2. /\ \A j \in 1..Len(orders) - 1 : at(j) \in DOMAIN orders /\ at(j) # g
        /\ \A k \in DOMAIN orders : k # g => \E j \in 1..Len(orders) - 1 : at(j) = k
    <3>1. DOMAIN orders = 1..Len(orders) /\ Len(orders) \in Nat /\ g \in 1..Len(orders)
      BY <1>1 DEF orders
    <3>2. ASSUME NEW k \in DOMAIN orders, k # g
          PROVE  \E j \in 1..Len(orders) - 1 : at(j) = k
      <4>1. CASE k < g
        <5>1. k \in 1..Len(orders) - 1 /\ at(k) = k
          BY <3>1, <4>1
        <5> QED BY <5>1
      <4>2. CASE ~(k < g)
        <5>1. k - 1 \in 1..Len(orders) - 1 /\ at(k - 1) = k
          BY <3>1, <3>2, <4>2
        <5> QED BY <5>1
      <4> QED BY <4>1, <4>2
    <3> QED BY <3>1, <3>2
  <2>3. \A k \in DOMAIN orders : orders[k] = r => k = g
    BY <1>0 DEF QueueOK, orders
  <2> HIDE DEF rest, at
  <2>4. \A x : x \in Range(rest) <=> \E k \in DOMAIN orders : k # g /\ x = orders[k]
    <3>1. ASSUME NEW k \in DOMAIN orders, k # g
          PROVE  orders[k] \in Range(rest)
      <4>1. PICK j \in 1..Len(orders) - 1 : at(j) = k
        BY <2>2, <3>1
      <4>2. rest[j] = orders[k] /\ j \in DOMAIN rest
        BY <2>1, <4>1
      <4> QED BY <4>2 DEF Range
    <3>2. ASSUME NEW j \in DOMAIN rest
          PROVE  \E k \in DOMAIN orders : k # g /\ rest[j] = orders[k]
      BY <2>1, <2>2
    <3> QED BY <3>1, <3>2 DEF Range
  <2>5. \A x : x \in Range(orders) \ {r} <=> \E k \in DOMAIN orders : k # g /\ x = orders[k]
    BY <2>3 DEF Range
  <2> QED BY <2>4, <2>5
<1> HIDE DEF r, rest
<1>6. RestingOrders' = RestingOrders \ {r}
  BY <1>2, <1>3, <1>4, <1>5
<1> QED BY <1>6 DEF r, orders

(* Filling the first order in part changes that one alone. *)
LEMMA RestingWithHead ==
  ASSUME PlaceInv, NEW side \in Sides, NEW price \in DOMAIN levels[side], NEW left, NEW total,
         levels' = Requeued(side, price, WithHead(levels[side][price].orders, left), total)
  PROVE  RestingOrders' = (RestingOrders \ {levels[side][price].orders[1]})
                            \cup {[levels[side][price].orders[1] EXCEPT !.remaining = left]}
<1> DEFINE orders == levels[side][price].orders
           r == orders[1]
           new == [r EXCEPT !.remaining = left]
           queue == WithHead(orders, left)
<1>0. LevelsOK(levels) /\ QueueOK(side, price, orders, orderIndex, status)
  BY LevelsFromInv DEF PlaceInv, IInv, QueuesOK
<1>1. orders \in Seq(Order) /\ orders # << >>
  BY <1>0 DEF LevelsOK, IsMap, Level
<1>2. RestingOrders = Elsewhere(side, price) \cup Range(orders)
  <2>1. QueueAt(side, price).orders = orders
    BY DEF QueueAt
  <2> QED BY <2>1, RestingHere
<1>3. RestingOrders' = Elsewhere(side, price) \cup Range(queue)
  BY RestingRequeued
<1>4. 1 \in DOMAIN orders
  <2> HIDE DEF orders
  <2> QED BY <1>1
<1>5. r \notin Elsewhere(side, price)
  BY <1>0, <1>4 DEF QueueOK, Elsewhere
<1>6. \A k \in DOMAIN orders : orders[k] = r => k = 1
  BY <1>0, <1>4 DEF QueueOK
<1> HIDE DEF orders
<1>7. /\ DOMAIN queue = DOMAIN orders /\ queue[1] = new
      /\ \A k \in DOMAIN orders : k # 1 => queue[k] = orders[k]
  BY <1>4 DEF WithHead
<1> HIDE DEF queue, new, r
<1>8. Range(queue) = (Range(orders) \ {r}) \cup {new}
  <2>1. \A x : x \in Range(queue) <=> x = new \/ \E k \in DOMAIN orders : k # 1 /\ x = orders[k]
    BY <1>4, <1>7 DEF Range
  <2>2. \A x : x \in Range(orders) \ {r} <=> \E k \in DOMAIN orders : k # 1 /\ x = orders[k]
    BY <1>4, <1>6 DEF Range, r
  <2> QED BY <2>1, <2>2
<1>9. RestingOrders' = (RestingOrders \ {r}) \cup {new}
  BY <1>2, <1>3, <1>5, <1>8
<1> QED BY <1>9 DEF new, r, orders


(* The order in the match loop, as a ticket; a market order has no price. *)
LEMMA TakerGives ==
  ASSUME incoming \in Order, incoming # NoOrder
  PROVE  /\ Taker # NoOrder /\ Taker \in Priority!Ticket
         /\ Taker = [Ticket(incoming) EXCEPT
                       !.price = IF incoming.kind = "Market" THEN NoPrice
                                 ELSE incoming.price]
         /\ Taker.id = incoming.id /\ Taker.user = incoming.user
         /\ Taker.side = incoming.side /\ Taker.remaining = incoming.remaining
         /\ Taker.sequence = incoming.sequence
         /\ Taker.price = IF incoming.kind = "Market" THEN NoPrice ELSE incoming.price
<1> DEFINE price == IF incoming.kind = "Market" THEN NoPrice ELSE incoming.price
<1>1. Taker = [Ticket(incoming) EXCEPT !.price = price]
  BY DEF Taker, Ticket
<1>2. price \in Prices \cup {NoPrice}
  BY DEF Order
<1> HIDE DEF price
<1>3. /\ Taker.id = incoming.id /\ Taker.user = incoming.user
      /\ Taker.side = incoming.side /\ Taker.remaining = incoming.remaining
      /\ Taker.sequence = incoming.sequence /\ Taker.price = price
  BY <1>1 DEF Ticket
<1>4. Taker = [id |-> incoming.id, user |-> incoming.user, side |-> incoming.side,
               price |-> price, remaining |-> incoming.remaining,
               sequence |-> incoming.sequence]
  BY <1>1 DEF Ticket
<1>5. Taker \in Priority!Ticket
  BY <1>2, <1>4 DEF Order, Sides, Priority!Ticket
<1>6. Taker # NoOrder
  BY <1>5, TicketsAssumption
<1> QED BY <1>1, <1>3, <1>5, <1>6 DEF price

(* What a taker accepts is what the order crosses. *)
LEMMA AcceptsCrossed ==
  ASSUME incoming \in Order, incoming # NoOrder, TakerPriced, NEW price \in Prices
  PROVE  Priority!Accepts(Taker, price) <=> Crosses(incoming, price)
<1>1. /\ Taker.side = incoming.side
      /\ Taker.price = IF incoming.kind = "Market" THEN NoPrice ELSE incoming.price
  BY TakerGives
<1>2. incoming.kind # "Market" => incoming.price # NoPrice
  BY DEF TakerPriced, Order, Kinds, StopKinds, RequiresPrice
<1> QED BY <1>1, <1>2 DEF Priority!Accepts, Crosses

(* The tickets that may meet the taker are those of the other side. *)
LEMMA OpposingTickets ==
  ASSUME PlaceInv, incoming \in Order, incoming # NoOrder
  PROVE  \A o : o \in {t \in Open : t.side # Taker.side} <=>
                  \E x \in RestingOrders : o = Ticket(x) /\ x.side = Opposite(incoming.side)
<1>1. Taker.side = incoming.side /\ incoming.side \in {"Buy", "Sell"}
  BY TakerGives DEF Order, Sides
<1>2. \A x \in RestingOrders : x.side \in {"Buy", "Sell"} /\ Ticket(x).side = x.side
  BY RestingPlaces, TicketGives DEF Sides
<1>3. \A x \in RestingOrders : Ticket(x).side # Taker.side
                                 <=> x.side = Opposite(incoming.side)
  BY <1>1, <1>2 DEF Opposite
<1> HIDE DEF Ticket
<1> QED BY <1>3 DEF Open

(* The first order of the best level is served before every other order    *)
(* of its side.                                                            *)
LEMMA HeadServedFirst ==
  ASSUME PlaceInv, SequenceInv, NEW side \in Sides, NEW price \in BestPrices(side)
  PROVE  /\ 1 \in DOMAIN levels[side][price].orders
         /\ levels[side][price].orders[1] \in RestingOrders
         /\ levels[side][price].orders[1].side = side
         /\ levels[side][price].orders[1].price = price
         /\ \A x \in RestingOrders : x.side = side =>
              \/ x = levels[side][price].orders[1]
              \/ Priority!Before(Ticket(levels[side][price].orders[1]), Ticket(x))
<1> DEFINE orders == levels[side][price].orders
           r == orders[1]
<1>0. LevelsOK(levels) /\ QueuesOK(levels, orderIndex, status) /\ TypeOK
  BY LevelsFromInv DEF PlaceInv, IInv
<1>1. /\ price \in DOMAIN levels[side]
      /\ \A q \in DOMAIN levels[side] : IF side = "Sell" THEN price <= q ELSE price >= q
  BY DEF BestPrices
<1>2. orders \in Seq(Order) /\ orders # << >>
  BY <1>0, <1>1 DEF LevelsOK, IsMap, Level
<1>3. 1 \in DOMAIN orders
  <2> HIDE DEF orders
  <2> QED BY <1>2
<1>4. r \in RestingOrders /\ r.side = side /\ r.price = price
  BY <1>0, <1>1, <1>3, QueuedRests DEF QueuesOK, QueueOK
<1>5. ASSUME NEW x \in RestingOrders, x.side = side, x # r
      PROVE  Priority!Before(Ticket(r), Ticket(x))
  <2>1. /\ Ticket(r).side = side /\ Ticket(r).price = price /\ Ticket(r).sequence = r.sequence
        /\ Ticket(x).price = x.price /\ Ticket(x).sequence = x.sequence
    BY <1>4, TicketGives
  <2>2. /\ x.price \in DOMAIN levels[side]
        /\ IF side = "Sell" THEN price <= x.price ELSE price >= x.price
    BY <1>1, <1>5, RestingPlaces
  <2>3. price \in Nat /\ x.price \in Nat
    BY <1>0, <1>1, <2>2, PricesAssumption DEF TypeOK, IsMap
  <2>4. CASE x.price = price
    <3>1. PICK i \in DOMAIN orders : x = orders[i]
      BY <1>5, <2>4, RestingPlaces
    <3>2. i # 1
      BY <1>5, <3>1
    <3> HIDE DEF orders
    <3>3. 1 < i
      BY <1>2, <3>2
    <3>4. r.sequence < x.sequence
      <4>1. Rising(orders, NewestResting)
        BY <1>1 DEF SequenceInv, RisingLevels, orders
      <4> QED BY <1>3, <3>1, <3>3, <4>1 DEF Rising
    <3> HIDE DEF r
    <3> QED BY <2>1, <2>4, <3>4 DEF Priority!Before
  <2>5. CASE x.price # price
    <3> HIDE DEF r
    <3>1. IF side = "Buy" THEN price > x.price ELSE price < x.price
      BY <2>2, <2>3, <2>5 DEF Sides
    <3> QED BY <2>1, <3>1 DEF Priority!Before
  <2> QED BY <2>4, <2>5
<1> QED BY <1>3, <1>4, <1>5


(* The range of a sequence and one more. *)
LEMMA RangeAppended ==
  ASSUME NEW S, NEW list \in Seq(S), NEW e \in S
  PROVE  Range(Append(list, e)) = Range(list) \cup {e}
<1>1. /\ DOMAIN Append(list, e) = DOMAIN list \cup {Len(list) + 1}
      /\ Append(list, e)[Len(list) + 1] = e
      /\ \A i \in DOMAIN list : Append(list, e)[i] = list[i]
  OBVIOUS
<1> QED BY <1>1 DEF Range

(* The ticket of the order that has entered the match loop. *)
LEMMA TakerNext ==
  ASSUME incoming' \in Order, incoming' # NoOrder
  PROVE  /\ Taker' \in Priority!Ticket
         /\ Taker'.id = incoming'.id /\ Taker'.remaining = incoming'.remaining
         /\ Taker'.sequence = incoming'.sequence
<1> DEFINE price == IF incoming'.kind = "Market" THEN NoPrice ELSE incoming'.price
<1>1. Taker' = [Ticket(incoming') EXCEPT !.price = price]
  BY DEF Taker, Ticket
<1>2. price \in Prices \cup {NoPrice}
  BY DEF Order
<1> HIDE DEF price
<1>3. Taker' = [id |-> incoming'.id, user |-> incoming'.user, side |-> incoming'.side,
                price |-> price, remaining |-> incoming'.remaining,
                sequence |-> incoming'.sequence]
  BY <1>1 DEF Ticket
<1> QED BY <1>2, <1>3 DEF Order, Sides, Priority!Ticket

(* A fill is a trade with the order that is served first. *)
LEMMA FillBestTrades ==
  ASSUME PlaceInv, SequenceInv, FillBest
  PROVE  Priority!Trade
<1>0. IInv /\ TakerPriced /\ LevelsOK(levels)
  BY LevelsFromInv DEF PlaceInv, IInv
<1>1. PICK side \in Sides, price \in Prices, quantity \in Nat, left \in Nat :
        FillSays(side, price, levels[side][price].orders, quantity, left)
  BY <1>0, FillBestSays
<1> DEFINE orders == levels[side][price].orders
           r      == orders[1]
           total  == levels[side][price].total - quantity
           queue  == IF left = 0 THEN Tail(orders)
                     ELSE [orders EXCEPT ![1].remaining = left]
           fewer  == [Ticket(r) EXCEPT !.remaining = Ticket(r).remaining - quantity]
<1>2. /\ orders \in Seq(Order) /\ orders # << >> /\ price \in DOMAIN levels[side]
      /\ levels' = Requeued(side, price, queue, total)
      /\ left = r.remaining - quantity
      /\ quantity \in {incoming.remaining, r.remaining}
      /\ side = Opposite(incoming.side) /\ price \in BestPrices(side)
      /\ Crosses(incoming, price) /\ r.user # incoming.user
      /\ incoming.remaining > 0
  BY <1>1 DEF FillSays
<1>3. /\ incoming # NoOrder /\ incoming' # NoOrder
      /\ incoming \in Order /\ incoming' \in Order
      /\ incoming' = [incoming EXCEPT !.remaining = incoming.remaining - quantity]
      /\ quantity <= incoming.remaining
  BY <1>0, <1>1, FillTaker
<1>4. /\ 1 \in DOMAIN orders /\ r \in RestingOrders /\ r.side = side /\ r.price = price
      /\ \A x \in RestingOrders : x.side = side =>
           x = r \/ Priority!Before(Ticket(r), Ticket(x))
  BY <1>2, HeadServedFirst
<1>5. r \in Order /\ r.remaining \in Nat /\ r.remaining > 0
  <2>1. r \in Order /\ r.remaining > 0
    BY <1>4, RestingPlaces
  <2> HIDE DEF r
  <2> QED BY <2>1 DEF Order
<1>6. /\ Taker # NoOrder
      /\ Taker.side = incoming.side /\ Taker.user = incoming.user
      /\ Taker.remaining = incoming.remaining
  BY <1>3, TakerGives
<1>7. Taker' = [Taker EXCEPT !.remaining = Taker.remaining - quantity]
  <2> DEFINE limit == IF incoming.kind = "Market" THEN NoPrice ELSE incoming.price
             limitNow == IF incoming'.kind = "Market" THEN NoPrice ELSE incoming'.price
  <2>1. Taker = [id |-> incoming.id, user |-> incoming.user, side |-> incoming.side,
                 price |-> limit, remaining |-> incoming.remaining,
                 sequence |-> incoming.sequence]
    BY <1>3 DEF Taker, Ticket
  <2>2. Taker' = [id |-> incoming'.id, user |-> incoming'.user, side |-> incoming'.side,
                  price |-> limitNow, remaining |-> incoming'.remaining,
                  sequence |-> incoming'.sequence]
    BY <1>3 DEF Taker, Ticket
  <2>3. /\ incoming'.id = incoming.id /\ incoming'.user = incoming.user
        /\ incoming'.side = incoming.side /\ incoming'.kind = incoming.kind
        /\ incoming'.price = incoming.price /\ incoming'.sequence = incoming.sequence
        /\ incoming'.remaining = incoming.remaining - quantity
    BY <1>3 DEF Order
  <2>4. limitNow = limit
    BY <2>3
  <2> HIDE DEF limit, limitNow
  <2> QED BY <2>1, <2>2, <2>3, <2>4
<1>8. Open' = (Open \ {Ticket(r)})
                \cup (IF quantity = r.remaining THEN {} ELSE {fewer})
  <2>1. {Ticket(o) : o \in RestingOrders \ {r}} = Open \ {Ticket(r)}
    BY <1>4, OpenWithout
  <2>0. /\ price \in DOMAIN levels[side] /\ 1 \in DOMAIN orders
        /\ levels' = Requeued(side, price, queue, total)
    BY <1>2, <1>4
  <2>2. CASE left = 0
    <3>1. queue = RemoveAt(orders, 1)
      BY <1>2, <2>2, TailRemovesFirst
    <3> HIDE DEF queue, total
    <3>2. levels' = Requeued(side, price, RemoveAt(orders, 1), total)
      BY <2>0, <3>1
    <3>3. RestingOrders' = RestingOrders \ {r}
      BY <2>0, <3>2, RestingWithout
    <3>4. quantity = r.remaining
      <4> HIDE DEF r
      <4> QED BY <1>2, <1>5, <2>2
    <3>5. Open' = {Ticket(o) : o \in RestingOrders'}
      BY DEF Open
    <3> HIDE DEF r, Ticket
    <3> QED BY <2>1, <3>3, <3>4, <3>5
  <2>3. CASE left # 0
    <3>1. levels' = Requeued(side, price, WithHead(orders, left), total)
      BY <2>0, <2>3 DEF WithHead
    <3> HIDE DEF queue, total
    <3>2. RestingOrders' = (RestingOrders \ {r}) \cup {[r EXCEPT !.remaining = left]}
      BY <2>0, <3>1, RestingWithHead
    <3>3. quantity # r.remaining
      BY <1>2, <1>5, <2>3
    <3>4. Ticket([r EXCEPT !.remaining = left]) = fewer
      <4> HIDE DEF r
      <4> DEFINE s == [r EXCEPT !.remaining = left]
      <4>1. /\ s.id = r.id /\ s.user = r.user /\ s.side = r.side /\ s.price = r.price
            /\ s.remaining = left /\ s.sequence = r.sequence
        BY <1>5 DEF Order
      <4> HIDE DEF s
      <4>2. Ticket(s) = [id |-> r.id, user |-> r.user, side |-> r.side, price |-> r.price,
                         remaining |-> left, sequence |-> r.sequence]
        BY <4>1 DEF Ticket
      <4>3. Ticket(r) = [id |-> r.id, user |-> r.user, side |-> r.side, price |-> r.price,
                         remaining |-> r.remaining, sequence |-> r.sequence]
        BY DEF Ticket
      <4>4. fewer = [id |-> r.id, user |-> r.user, side |-> r.side, price |-> r.price,
                     remaining |-> r.remaining - quantity, sequence |-> r.sequence]
        BY <4>3
      <4>5. left = r.remaining - quantity
        BY <1>2
      <4> HIDE DEF fewer
      <4>6. Ticket(s) = fewer
        BY <4>2, <4>4, <4>5
      <4> QED BY <4>6 DEF s
    <3>5. Open' = {Ticket(o) : o \in RestingOrders'}
      BY DEF Open
    <3> HIDE DEF r, fewer, Ticket
    <3> QED BY <2>1, <3>2, <3>3, <3>4, <3>5
  <2> QED BY <2>2, <2>3
<1> DEFINE o == Ticket(r)
<1>9. /\ o \in {t \in Open : t.side # Taker.side}
      /\ \A p \in {t \in Open : t.side # Taker.side} : p = o \/ Priority!Before(o, p)
      /\ Priority!Accepts(Taker, o.price) /\ o.user # Taker.user
      /\ o.remaining = r.remaining
  <2>1. o.price = price /\ o.user = r.user /\ o.remaining = r.remaining
    BY <1>4, TicketGives
  <2>2. Priority!Accepts(Taker, price)
    BY <1>0, <1>1, <1>2, <1>3, AcceptsCrossed
  <2>3. \A p : p \in {t \in Open : t.side # Taker.side} <=>
                 \E x \in RestingOrders : p = Ticket(x) /\ x.side = side
    BY <1>2, <1>3, OpposingTickets
  <2> HIDE DEF r, Ticket
  <2> QED BY <1>2, <1>4, <1>6, <2>1, <2>2, <2>3
<1>10. /\ quantity \in {o.remaining, Taker.remaining}
       /\ quantity > 0 /\ quantity <= o.remaining /\ quantity <= Taker.remaining
  <2>1. o.remaining = r.remaining
    BY <1>9
  <2> HIDE DEF o, r
  <2> QED BY <1>2, <1>3, <1>5, <1>6, <2>1
<1>11. Open' = (Open \ {o})
                \cup (IF quantity = o.remaining THEN {}
                      ELSE {[o EXCEPT !.remaining = o.remaining - quantity]})
  BY <1>8, <1>9
<1> HIDE DEF o
<1> QED BY <1>6, <1>7, <1>9, <1>10, <1>11
        DEF Priority!Trade, Priority!Opposing, Open, Taker

(* If the order in the match loop crosses nothing, its ticket accepts      *)
(* nothing.                                                                *)
LEMMA NothingAccepted ==
  ASSUME PlaceInv, incoming \in Order, incoming # NoOrder, ~WouldCross(incoming)
  PROVE  \A o \in {t \in Open : t.side # Taker.side} : ~Priority!Accepts(Taker, o.price)
<1> SUFFICES ASSUME NEW x \in RestingOrders, x.side = Opposite(incoming.side)
             PROVE  ~Priority!Accepts(Taker, Ticket(x).price)
  BY OpposingTickets
<1>0. TypeOK /\ TakerPriced
  BY DEF PlaceInv, IInv
<1>1. x.side \in Sides /\ x.price \in DOMAIN levels[x.side] /\ Ticket(x).price = x.price
  BY RestingPlaces, TicketGives
<1>2. x.price \in Prices
  BY <1>0, <1>1 DEF TypeOK, IsMap
<1>3. incoming.side = Opposite(x.side)
  BY DEF Opposite, Order, Sides
<1>4. ~Crosses(incoming, x.price)
  BY <1>0, <1>1, <1>3, BestCrossesFirst
<1> QED BY <1>0, <1>1, <1>2, <1>4, AcceptsCrossed

(* The end of the match loop: what is left rests, or the order leaves. *)
LEMMA FinishRestsOrLeaves ==
  ASSUME PlaceInv, SequenceInv, Finish
  PROVE  Priority!Rest \/ Priority!Leave
<1> DEFINE side  == incoming.side
           price == incoming.price
           queue == QueueAt(side, price)
           orders == Append(queue.orders, incoming)
           total  == queue.total + incoming.remaining
<1>0. IInv /\ TypeOK /\ TakerPriced /\ LevelsOK(levels)
  BY LevelsFromInv DEF PlaceInv, IInv
<1>1. incoming \in Order /\ incoming # NoOrder /\ incoming' = NoOrder
  BY <1>0 DEF Finish, EndSubmit, TypeOK
<1>2. Taker # NoOrder /\ Taker' = NoOrder
  BY <1>1, TakerGives DEF Taker
<1>3. incoming.remaining > 0 =>
        \A o \in {t \in Open : t.side # Taker.side} : ~Priority!Accepts(Taker, o.price)
  BY <1>1, NothingAccepted DEF Finish
<1>4. Taker.remaining = incoming.remaining /\ incoming.remaining \in Nat
  BY <1>1, TakerGives DEF Order
<1>5. CASE Rests(incoming)
  <2>1. incoming.remaining > 0 /\ incoming.kind # "Market"
    BY <1>5 DEF Rests
  <2>2. side \in Sides /\ price \in Prices
    BY <1>0, <1>1, <1>5, RestsPriced
  <2>3. Taker = Ticket(incoming) /\ Taker.price # NoPrice
    BY <1>1, <2>1, <2>2, TakerGives, NoPriceAssumption, PricesAssumption DEF Ticket
  <2>4. RestingOrders' = RestingOrders \cup {incoming}
    <3>1. levels' = Requeued(side, price, orders, total)
      BY <1>5 DEF Finish
    <3>2. RestingOrders' = Elsewhere(side, price) \cup Range(orders)
      BY <2>2, <3>1, RestingRequeued
    <3>3. RestingOrders = Elsewhere(side, price) \cup Range(queue.orders)
      BY <2>2, RestingHere
    <3>4. queue.orders \in Seq(Order)
      BY <1>0, <2>2, QueueAtOK
    <3> HIDE DEF queue, side, price
    <3>5. Range(orders) = Range(queue.orders) \cup {incoming}
      BY <1>1, <3>4, RangeAppended
    <3> QED BY <3>2, <3>3, <3>5
  <2>5. Open' = Open \cup {Taker}
    <3>1. Open' = {Ticket(o) : o \in RestingOrders'}
      BY DEF Open
    <3> HIDE DEF Ticket
    <3> QED BY <2>3, <2>4, <3>1 DEF Open
  <2>6. Priority!Rest
    BY <1>2, <1>3, <1>4, <2>1, <2>3, <2>5 DEF Priority!Rest, Priority!Opposing, Open, Taker
  <2> QED BY <2>6
<1>6. CASE ~Rests(incoming)
  <2>1. levels' = levels
    BY <1>6 DEF Finish
  <2>2. Open' = Open
    BY <2>1 DEF Open, RestingOrders, Resting
  <2>3. Taker.remaining = 0
        \/ \A o \in {t \in Open : t.side # Taker.side} : ~Priority!Accepts(Taker, o.price)
    BY <1>3, <1>4
  <2>4. Priority!Leave
    BY <1>2, <2>2, <2>3 DEF Priority!Leave, Priority!Opposing, Open, Taker
  <2> QED BY <2>4
<1> QED BY <1>5, <1>6

(* Matching stops at the taker's own order only when that is the one to be *)
(* served.                                                                 *)
LEMMA PreventSelfTradeLeaves ==
  ASSUME PlaceInv, SequenceInv, PreventSelfTrade
  PROVE  Priority!Leave
<1>0. TypeOK /\ TakerPriced
  BY DEF PlaceInv, IInv
<1>1. /\ incoming \in Order /\ incoming # NoOrder /\ incoming' = NoOrder
      /\ levels' = levels
  BY <1>0 DEF PreventSelfTrade, EndSubmit, TypeOK
<1> DEFINE side == Opposite(incoming.side)
<1>2. PICK price \in BestPrices(side) :
        Crosses(incoming, price) /\ Head(levels[side][price].orders).user = incoming.user
  BY DEF PreventSelfTrade
<1>3. side \in Sides
  BY DEF Opposite, Sides
<1> HIDE DEF side
<1> DEFINE r == levels[side][price].orders[1]
           o == Ticket(r)
<1>4. /\ r \in RestingOrders /\ r.side = side /\ r.price = price
      /\ \A x \in RestingOrders : x.side = side =>
           x = r \/ Priority!Before(Ticket(r), Ticket(x))
  BY <1>2, <1>3, HeadServedFirst
<1>5. r.user = incoming.user
  BY <1>2
<1>6. price \in Prices
  BY <1>0, <1>2, <1>3 DEF BestPrices, TypeOK, IsMap
<1>7. Taker # NoOrder /\ Taker' = NoOrder /\ Taker.user = incoming.user
  BY <1>1, TakerGives DEF Taker
<1>8. Open' = Open
  BY <1>1 DEF Open, RestingOrders, Resting
<1>9. /\ o \in {t \in Open : t.side # Taker.side}
      /\ \A p \in {t \in Open : t.side # Taker.side} : p = o \/ Priority!Before(o, p)
      /\ Priority!Accepts(Taker, o.price) /\ o.user = Taker.user
  <2>1. o.price = price /\ o.user = r.user
    BY <1>4, TicketGives
  <2>2. Priority!Accepts(Taker, price)
    BY <1>0, <1>1, <1>2, <1>6, AcceptsCrossed
  <2>3. \A p : p \in {t \in Open : t.side # Taker.side} <=>
                 \E x \in RestingOrders : p = Ticket(x) /\ x.side = side
    BY <1>1, OpposingTickets DEF side
  <2> HIDE DEF r, Ticket
  <2> QED BY <1>4, <1>5, <1>7, <2>1, <2>2, <2>3
<1> HIDE DEF o
<1> QED BY <1>7, <1>8, <1>9 DEF Priority!Leave, Priority!Opposing, Open, Taker

(* A cancellation between submissions withdraws one order. *)
LEMMA CancelRestingWithdraws ==
  ASSUME PlaceInv, CancelResting
  PROVE  Priority!Withdraw
<1>0. IInv /\ TypeOK
  BY DEF PlaceInv, IInv
<1>1. PICK id \in DOMAIN orderIndex : CancelAtLevel(id)
  BY DEF CancelResting
<1> DEFINE side  == orderIndex[id][1]
           price == orderIndex[id][2]
           level == levels[side][price]
           orders == level.orders
<1>2. PICK i \in DOMAIN orders :
        levels' = Requeued(side, price, RemoveAt(orders, i),
                           level.total - orders[i].remaining)
  BY <1>1 DEF CancelAtLevel
<1>3. price \in DOMAIN levels[side]
  BY <1>1 DEF CancelAtLevel
<1>4. side \in Sides
  <2>1. orderIndex[id] \in Sides \X Prices
    BY <1>0 DEF TypeOK, IsMap
  <2> QED BY <2>1
<1> HIDE DEF side, price
<1>5. RestingOrders' = RestingOrders \ {orders[i]} /\ orders[i] \in RestingOrders
  BY <1>2, <1>3, <1>4, RestingWithout, QueuedRests
<1> HIDE DEF orders
<1>6. {Ticket(o) : o \in RestingOrders \ {orders[i]}} = Open \ {Ticket(orders[i])}
  BY <1>5, OpenWithout
<1>7. Open' = Open \ {Ticket(orders[i])} /\ Ticket(orders[i]) \in Open
  <2>1. Open' = {Ticket(o) : o \in RestingOrders'}
    BY DEF Open
  <2> HIDE DEF Ticket
  <2> QED BY <1>5, <1>6, <2>1 DEF Open
<1>8. Taker = NoOrder /\ Taker' = Taker
  BY <1>0 DEF CancelResting, TypeOK, Taker
<1> HIDE DEF Ticket
<1> QED BY <1>7, <1>8 DEF Priority!Withdraw, Open, Taker

(* An order that enters the match loop arrives, with a new identifier and  *)
(* a sequence above all others; one that does not is not seen.             *)
LEMMA AdmitArrives ==
  ASSUME PlaceInv, SequenceInv, NEW order \in Order, ~Refused(order), Admit(order),
         incoming = NoOrder
  PROVE  Priority!Arrive \/ UNCHANGED <<Open, Taker>>
<1>0. TypeOK /\ LevelsOK(levels) /\ nextSequence \in Nat
  BY LevelsFromInv DEF PlaceInv, IInv, TypeOK
<1>1. CASE AcceptStop(order)
  BY <1>1 DEF AcceptStop, Open, RestingOrders, Resting, Taker
<1>2. CASE ExpireUnfillable(order)
  BY <1>2 DEF ExpireUnfillable, book, Open, RestingOrders, Resting, Taker
<1>3. CASE StartMatching(order)
  <2>1. /\ levels' = levels
        /\ incoming' = [order EXCEPT !.sequence = nextSequence + 1]
    BY <1>3 DEF StartMatching
  <2>2. /\ incoming' \in Order /\ incoming'.sequence = nextSequence + 1
        /\ incoming'.id = order.id /\ incoming'.remaining = order.remaining
    BY <1>0, <2>1 DEF Order
  <2>3. incoming' # NoOrder
    BY <2>2, SentinelsAssumption
  <2>4. order.remaining > 0 /\ order.id \notin DOMAIN orderIndex
    BY DEF Refused, Malformed, Duplicate, Order
  <2>5. /\ Taker' \in Priority!Ticket /\ Taker'.id = order.id
        /\ Taker'.remaining = order.remaining /\ Taker'.sequence = nextSequence + 1
    BY <2>2, <2>3, TakerNext
  <2>6. Open' = Open
    BY <2>1 DEF Open, RestingOrders, Resting
  <2>7. \A o \in Open : o.id # Taker'.id /\ o.sequence < Taker'.sequence
    <3> SUFFICES ASSUME NEW x \in RestingOrders
                 PROVE  Ticket(x).id # order.id /\ Ticket(x).sequence < nextSequence + 1
      BY <2>5 DEF Open
    <3>1. Ticket(x).id = x.id /\ Ticket(x).sequence = x.sequence
      BY TicketGives
    <3>2. /\ x \in Order /\ x.side \in Sides /\ x.price \in DOMAIN levels[x.side]
          /\ \E i \in DOMAIN levels[x.side][x.price].orders :
               x = levels[x.side][x.price].orders[i]
      BY RestingPlaces
    <3>3. x.id \in DOMAIN orderIndex
      BY <3>2 DEF PlaceInv, QueuesOK, QueueOK
    <3>4. x.sequence <= nextSequence
      BY <3>2 DEF SequenceInv, NewestResting, RisingLevels, Rising
    <3>5. x.sequence \in Nat
      BY <3>2 DEF Order
    <3> QED BY <1>0, <2>4, <3>1, <3>3, <3>4, <3>5
  <2>8. Taker = NoOrder
    BY DEF Taker
  <2>9. \E t \in {Taker'} : /\ t \in Priority!Ticket /\ t.remaining > 0
                            /\ \A o \in Open : o.id # t.id /\ o.sequence < t.sequence
    BY <2>4, <2>5, <2>7
  <2>10. Priority!Arrive
    BY <2>6, <2>8, <2>9 DEF Priority!Arrive, Open, Taker
  <2> QED BY <2>10
<1> QED BY <1>1, <1>2, <1>3 DEF Admit


(* Every step of the book is a step of the plain set of open orders, or    *)
(* one that it does not show.                                              *)
LEMMA NextServes ==
  ASSUME PlaceInv, SequenceInv, [Next]_vars
  PROVE  Priority!Next \/ UNCHANGED <<Open, Taker>>
<1>0. TypeOK
  BY DEF PlaceInv, IInv
<1>1. CASE FillBest
  BY <1>1, FillBestTrades DEF Priority!Next
<1>2. CASE Finish
  BY <1>2, FinishRestsOrLeaves DEF Priority!Next
<1>3. CASE PreventSelfTrade
  BY <1>3, PreventSelfTradeLeaves DEF Priority!Next
<1>4. CASE CancelResting
  BY <1>4, CancelRestingWithdraws DEF Priority!Next
<1>5. CASE SubmitOrder
  <2>1. PICK order \in Requests : Admit(order)
    BY <1>5 DEF SubmitOrder
  <2>2. order \in Order /\ incoming = NoOrder /\ ~Refused(order)
    BY <1>0, <1>5, <2>1, RequestsAreOrders DEF SubmitOrder, TypeOK, Admit
  <2> QED BY <2>1, <2>2, AdmitArrives DEF Priority!Next
<1>6. CASE SubmitTriggered
  <2>1. PICK order \in Order : Enter(order)
    BY <1>0, <1>6, TriggeredEnters
  <2>2. incoming = NoOrder
    BY <1>0, <1>6 DEF SubmitTriggered, TypeOK
  <2>3. CASE Refused(order)
    <3>1. levels' = levels /\ incoming' = incoming
      BY <2>1, <2>3 DEF Enter, Refuse, book
    <3> QED BY <3>1 DEF Open, RestingOrders, Resting, Taker
  <2>4. CASE ~Refused(order)
    <3>1. Admit(order)
      BY <2>1, <2>4 DEF Enter
    <3> QED BY <2>2, <2>4, <3>1, AdmitArrives DEF Priority!Next
  <2> QED BY <2>3, <2>4
<1>7. CASE RefuseOrder \/ CancelStop \/ PopTriggerPrice \/ DrainStop \/ Release
           \/ UNCHANGED vars
  <2>1. levels' = levels /\ incoming' = incoming
    BY <1>7 DEF RefuseOrder, Refuse, CancelStop, CancelStopAt, PopTriggerPrice, DrainStop,
                Release, vars, book
  <2> QED BY <2>1 DEF Open, RestingOrders, Resting, Taker
<1> QED BY <1>1, <1>2, <1>3, <1>4, <1>5, <1>6, <1>7 DEF Next, HolderStep

(* Levels, queues and index, with their partial fills, self-trade stops    *)
(* and cascades of stop orders, do what a plain set of open orders served  *)
(* strictly by price and then by time of arrival does: for any numbers of  *)
(* orders, users, prices and quantities.                                   *)
THEOREM PriorityImplemented == Spec => ImplementsPriceTimePriority
<1>1. Init => Priority!Init
  <2> SUFFICES ASSUME Init PROVE Priority!Init
    OBVIOUS
  <2>1. incoming = NoOrder /\ \A side \in Sides : DOMAIN levels[side] = {}
    BY DEF Init
  <2>2. RestingOrders = {}
    BY <2>1 DEF RestingOrders, Resting, Sides
  <2> QED BY <2>1, <2>2 DEF Priority!Init
<1>2. Init => SequenceInv
  <2> SUFFICES ASSUME Init PROVE SequenceInv
    OBVIOUS
  <2>1. incoming = NoOrder /\ \A side \in Sides : DOMAIN levels[side] = {}
    BY DEF Init
  <2> QED BY <2>1 DEF SequenceInv, RisingLevels
<1>3. PlaceInv /\ SequenceInv /\ [Next]_vars => SequenceInv'
  BY NextSequences
<1>4. Spec => []SequenceInv
  BY <1>2, <1>3, PlacesInductive, PTL DEF Spec
<1>5. PlaceInv /\ SequenceInv /\ [Next]_vars
        => [Priority!Next]_<<Open, Taker>>
  BY NextServes
<1>6. PlaceInv /\ SequenceInv /\ [Next]_vars
        => [Priority!Next]_<<{Ticket(o) : o \in RestingOrders},
             IF incoming = NoOrder THEN NoOrder
             ELSE [Ticket(incoming) EXCEPT
                     !.price = IF incoming.kind = "Market" THEN NoPrice ELSE @]>>
  BY <1>5 DEF Open, Taker
<1> QED BY <1>1, <1>4, <1>6, PlacesInductive, PTL
        DEF Spec, ImplementsPriceTimePriority, Priority!Spec


-----------------------------------------------------------------------------
(* What was filled of an order is what was traded of it *)

TradedIn(id, log) ==
  FoldLeft(LAMBDA sum, f : IF id \in {f.maker, f.taker} THEN sum + f.quantity
                           ELSE sum, 0, log)

Shares(id, log) ==
  [i \in 1..Len(log) |-> IF id \in {log[i].maker, log[i].taker} THEN log[i].quantity
                         ELSE 0]

(* The sum over a log, fill by fill. *)
LEMMA TradedIsSum ==
  ASSUME NEW id, NEW log \in Seq(Fill)
  PROVE  \E p \in [0..Len(log) -> Int] :
           Adds(p, Shares(id, log), Len(log)) /\ TradedIn(id, log) = p[Len(log)]
<1> DEFINE n == Len(log)
           S == SUBSET (1..n)
           q == Shares(id, log)
           Rec(g) == [s \in S |->
                        IF s = {} THEN 0
                        ELSE IF id \in {log[Max(s)].maker, log[Max(s)].taker}
                             THEN g[s \ {Max(s)}] + log[Max(s)].quantity
                             ELSE g[s \ {Max(s)}]]
           h == CHOOSE g : g = Rec(g)
<1>1. /\ n \in Nat /\ DOMAIN log = 1..n
      /\ \A i \in 1..n : log[i].quantity \in Int
  <2>1. n \in Nat /\ DOMAIN log = 1..n /\ \A i \in 1..n : log[i] \in Fill
    OBVIOUS
  <2> QED BY <2>1 DEF Fill
<1>2. TradedIn(id, log) = h[1..n]
  BY <1>1 DEF TradedIn, FoldLeft, MapThenFoldSet
<1>3. /\ q \in [1..n -> Int]
      /\ \A i \in 1..n : q[i] = IF id \in {log[i].maker, log[i].taker}
                                THEN log[i].quantity ELSE 0
  BY <1>1 DEF Shares
<1> HIDE DEF n, q
<1>4. HasSums(q, n)
  BY <1>1, <1>3, SequenceSum
<1>5. PICK g \in [S -> Int] : SumsUp(g, q, n)
  BY <1>4 DEF HasSums
<1>6. \A s \in S : s # {} => Max(s) \in s /\ Max(s) \in 1..n /\ s \ {Max(s)} \in S
  BY <1>1, MaxIsIn
<1>7. g = Rec(g)
  <2>1. ASSUME NEW s \in S, s # {}
        PROVE  g[s] = IF id \in {log[Max(s)].maker, log[Max(s)].taker}
                      THEN g[s \ {Max(s)}] + log[Max(s)].quantity
                      ELSE g[s \ {Max(s)}]
    <3>1. g[s] = g[s \ {Max(s)}] + q[Max(s)]
      BY <1>5, <2>1 DEF SumsUp
    <3>2. g[s \ {Max(s)}] \in Int
      BY <1>6, <2>1
    <3> QED BY <1>3, <1>6, <2>1, <3>1, <3>2
  <2> QED BY <1>5, <2>1 DEF SumsUp
<1>8. h = Rec(h)
  <2> HIDE DEF Rec
  <2> QED BY <1>7
<1> HIDE DEF h
<1>9. \A s \in S : h[s] = IF s = {} THEN 0
                          ELSE IF id \in {log[Max(s)].maker, log[Max(s)].taker}
                               THEN h[s \ {Max(s)}] + log[Max(s)].quantity
                               ELSE h[s \ {Max(s)}]
  BY <1>8
<1>10. \A s \in S : g[s] = IF s = {} THEN 0
                           ELSE IF id \in {log[Max(s)].maker, log[Max(s)].taker}
                                THEN g[s \ {Max(s)}] + log[Max(s)].quantity
                                ELSE g[s \ {Max(s)}]
  BY <1>7
<1> HIDE DEF Rec
<1> DEFINE G == {s \in S : h[s] = g[s]}
<1>11. {} \in G
  BY <1>9, <1>10
<1>12. ASSUME NEW s \in S, s # {}, \A x \in s : s \ {x} \in G
       PROVE  s \in G
  <2>1. h[s \ {Max(s)}] = g[s \ {Max(s)}]
    BY <1>6, <1>12
  <2> QED BY <1>9, <1>10, <1>12, <2>1
<1> HIDE DEF G
<1>13. IsFiniteSet(1..n)
  BY <1>1, FS_Interval
<1>14. 1..n \in G
  <2>1. \A s \in SUBSET (1..n) : s # {} /\ (\A x \in s : s \ {x} \in G) => s \in G
    BY <1>12
  <2>2. SUBSET (1..n) \subseteq G
    BY <1>11, <1>13, <2>1, SubsetInduction
  <2> QED BY <2>2
<1>15. h[1..n] = g[1..n]
  BY <1>14 DEF G
<1>16. PICK p \in [0..n -> Int] :
         Adds(p, q, n) /\ \A k : SumsUp(k, q, n) => k[1..n] = p[n]
  BY <1>4 DEF HasSums
<1>17. g[1..n] = p[n]
  BY <1>5, <1>16
<1> QED BY <1>2, <1>15, <1>16, <1>17 DEF n, q

(* One more fill is traded of its maker and of its taker. *)
LEMMA TradedAppended ==
  ASSUME NEW id, NEW log \in Seq(Fill), NEW f \in Fill
  PROVE  /\ TradedIn(id, log) \in Int
         /\ TradedIn(id, Append(log, f))
              = TradedIn(id, log) + IF id \in {f.maker, f.taker} THEN f.quantity ELSE 0
<1> DEFINE n == Len(log)
           new == Append(log, f)
           share == IF id \in {f.maker, f.taker} THEN f.quantity ELSE 0
<1>1. PICK p \in [0..n -> Int] : Adds(p, Shares(id, log), n) /\ TradedIn(id, log) = p[n]
  BY TradedIsSum
<1> DEFINE r == [k \in 0..n + 1 |-> IF k = n + 1 THEN p[n] + share ELSE p[k]]
<1>2. /\ new \in Seq(Fill) /\ Len(new) = n + 1 /\ n \in Nat
      /\ new[n + 1] = f /\ \A i \in 1..n : new[i] = log[i]
  OBVIOUS
<1> HIDE DEF new, n
<1>3. /\ Shares(id, new)[n + 1] = share
      /\ \A i \in 1..n : Shares(id, new)[i] = Shares(id, log)[i]
  BY <1>2 DEF Shares, n
<1> HIDE DEF share
<1>4. r[0] = 0 /\ r[n + 1] = p[n] + share /\ \A k \in 0..n : r[k] = p[k]
  BY <1>1, <1>2 DEF Adds
<1> HIDE DEF r
<1>5. ASSUME NEW k \in 1..n + 1
      PROVE  r[k] = r[k - 1] + Shares(id, new)[k]
  <2>1. CASE k = n + 1
    <3>1. k - 1 = n /\ n \in 0..n
      BY <1>2, <2>1
    <3> QED BY <1>3, <1>4, <2>1, <3>1
  <2>2. CASE k # n + 1
    <3>1. k \in 1..n /\ k \in 0..n /\ k - 1 \in 0..n
      BY <1>2, <2>2
    <3> QED BY <1>1, <1>3, <1>4, <3>1 DEF Adds
  <2> QED BY <2>1, <2>2
<1>6. Adds(r, Shares(id, new), Len(new))
  BY <1>2, <1>4, <1>5 DEF Adds
<1>7. PICK t \in [0..Len(new) -> Int] :
        Adds(t, Shares(id, new), Len(new)) /\ TradedIn(id, new) = t[Len(new)]
  BY <1>2, TradedIsSum
<1>8. t[Len(new)] = r[Len(new)]
  <2>1. Len(new) \in Nat
    BY <1>2
  <2> QED BY <1>6, <1>7, <2>1, OneSum
<1>9. p[n] \in Int
  BY <1>1, <1>2
<1> QED BY <1>1, <1>2, <1>4, <1>7, <1>8, <1>9 DEF new, n, share

(* Nothing is traded of anyone in an empty log. *)
LEMMA TradedOfNone ==
  ASSUME NEW id
  PROVE  TradedIn(id, << >>) = 0
<1> DEFINE none == << >>
<1>1. none \in Seq(Fill) /\ Len(none) = 0
  OBVIOUS
<1> HIDE DEF none
<1>2. PICK p \in [0..Len(none) -> Int] :
        Adds(p, Shares(id, none), Len(none)) /\ TradedIn(id, none) = p[Len(none)]
  BY <1>1, TradedIsSum
<1> QED BY <1>1, <1>2 DEF Adds, none

(* The quantity that the status log reports as filled of an order, or that *)
(* the match loop has filled of the one it holds; none of any other.       *)
Counted(id) ==
  IF id \in DOMAIN status THEN status[id].filled
  ELSE IF incoming # NoOrder /\ incoming.id = id THEN FilledQuantity(incoming)
  ELSE 0

CountsOK == \A id \in OrderIds : TradedIn(id, auditLog) = Counted(id)

(* The status log and the audit log are below their caps: no step prunes them. *)
StatusRoomy == Cardinality(DOMAIN status) < MAX_ORDER_STATUS_ENTRIES

AuditRoomy == Len(auditLog) < MAX_AUDIT_LOG_FILLS

FiniteStatus == IsFiniteSet(DOMAIN status)

Roomy == FiniteStatus /\ StatusRoomy

(* An entry for one more order is then kept as it is. *)
LEMMA NotPruned ==
  ASSUME Roomy, NEW id, NEW entry, NEW index
  PROVE  Pruned(With(status, id, entry), index) = With(status, id, entry)
<1> DEFINE known == DOMAIN status
           more  == known \cup {id}
<1>1. DOMAIN With(status, id, entry) = more
  BY DEF With
<1>2. IsFiniteSet(known) /\ Cardinality(known) < MAX_ORDER_STATUS_ENTRIES
  BY DEF Roomy, FiniteStatus, StatusRoomy
<1> HIDE DEF known
<1>3. Cardinality(known) \in Nat /\ MAX_ORDER_STATUS_ENTRIES \in Nat
  BY <1>2, FS_CardinalityType, BoundsAssumption
<1>4. Cardinality(more) = IF id \in known THEN Cardinality(known)
                          ELSE Cardinality(known) + 1
  BY <1>2, FS_AddElement
<1> HIDE DEF more
<1>5. Cardinality(more) <= MAX_ORDER_STATUS_ENTRIES
  BY <1>2, <1>3, <1>4
<1> QED BY <1>1, <1>5 DEF Pruned

(* The status log grows by one entry at most in a step. *)
LEMMA StatusStaysFinite == FiniteStatus /\ [Next]_vars => FiniteStatus'
<1> SUFFICES ASSUME IsFiniteSet(DOMAIN status), [Next]_vars
             PROVE  IsFiniteSet(DOMAIN status')
  BY DEF FiniteStatus
<1>1. \/ UNCHANGED status
      \/ \E id, entry : status' = With(status, id, entry)
      \/ \E id, entry, index : status' = Pruned(With(status, id, entry), index)
      \/ \E id : status' = Without(status, {id})
  <2>1. CASE SubmitOrder
    BY <2>1 DEF SubmitOrder, Admit, AcceptStop, ExpireUnfillable, StartMatching, book
  <2>2. CASE RefuseOrder
    BY <2>2 DEF RefuseOrder, Refuse, book
  <2>3. CASE FillBest
    <3>1. \/ \E id, entry : status' = With(status, id, entry)
          \/ \E id, entry : status' = Pruned(With(status, id, entry), orderIndex')
      BY <2>3 DEF FillBest
    <3> QED BY <3>1
  <2>4. CASE Finish
    BY <2>4 DEF Finish
  <2>5. CASE SubmitTriggered
    BY <2>5 DEF SubmitTriggered, Enter, Refuse, Admit, AcceptStop, ExpireUnfillable,
                StartMatching, book
  <2>6. CASE CancelResting
    BY <2>6 DEF CancelResting, CancelAtLevel
  <2>7. CASE CancelStop
    BY <2>7 DEF CancelStop, CancelStopAt
  <2>8. CASE PreventSelfTrade
    BY <2>8 DEF PreventSelfTrade
  <2>9. CASE DrainStop
    BY <2>9 DEF DrainStop
  <2>10. CASE PopTriggerPrice \/ Release \/ UNCHANGED vars
    BY <2>10 DEF PopTriggerPrice, Release, vars, book
  <2> QED BY <2>1, <2>2, <2>3, <2>4, <2>5, <2>6, <2>7, <2>8, <2>9, <2>10 DEF Next, HolderStep
<1>2. \E id : DOMAIN status' \subseteq DOMAIN status \cup {id}
  <2>1. CASE UNCHANGED status
    BY <2>1
  <2>2. CASE \E id, entry : status' = With(status, id, entry)
    BY <2>2 DEF With
  <2>3. CASE \E id, entry, index : status' = Pruned(With(status, id, entry), index)
    <3>1. PICK id, entry, index : status' = Pruned(With(status, id, entry), index)
      BY <2>3
    <3>2. DOMAIN With(status, id, entry) = DOMAIN status \cup {id}
      BY DEF With
    <3> QED BY <3>1, <3>2, PrunedKeeps
  <2>4. CASE \E id : status' = Without(status, {id})
    BY <2>4 DEF Without
  <2> QED BY <1>1, <2>1, <2>2, <2>3, <2>4
<1> QED BY <1>2, FS_AddElement, FS_Subset

(* The end of a submit counts of its order what the match loop counted. *)
LEMMA TakerCounted ==
  ASSUME incoming # NoOrder, incoming' = NoOrder, incoming.id \notin DOMAIN status,
         NEW state, NEW id,
         status' = With(status, incoming.id, Entry(state, FilledQuantity(incoming)))
  PROVE  Counted(id)' = Counted(id)
<1>1. Entry(state, FilledQuantity(incoming)).filled = FilledQuantity(incoming)
  BY DEF Entry
<1> HIDE DEF Entry, FilledQuantity
<1> DEFINE entry == Entry(state, FilledQuantity(incoming))
<1> HIDE DEF entry
<1>2. entry.filled = FilledQuantity(incoming) /\ status' = With(status, incoming.id, entry)
  BY <1>1 DEF entry
<1> QED BY <1>2 DEF Counted, With

(* An entry for a known order with the quantity it had. *)
LEMMA EntryCounted ==
  ASSUME NEW known \in DOMAIN status, NEW entry, entry.filled = status[known].filled,
         status' = With(status, known, entry), incoming' = incoming, NEW id
  PROVE  Counted(id)' = Counted(id)
BY DEF Counted, With

(* A stop order joins or leaves the log without a fill. *)
LEMMA UnfilledCounted ==
  ASSUME NEW stop,
         \/ /\ status' = With(status, stop, Entry("PendingStop", 0))
            /\ stop \notin DOMAIN status
         \/ /\ status' = Without(status, {stop})
            /\ stop \in DOMAIN status => status[stop].filled = 0,
         incoming = NoOrder, incoming' = NoOrder, NEW id
  PROVE  Counted(id)' = Counted(id)
<1>1. Entry("PendingStop", 0).filled = 0
  BY DEF Entry
<1> QED BY <1>1 DEF Counted, With, Without

(* An order that enters unfilled. *)
LEMMA AdmitCounts ==
  ASSUME PlaceInv, Roomy, phase # "matching", NEW order \in Order,
         order.remaining = order.original, Admit(order), NEW id
  PROVE  Counted(id)' = Counted(id) /\ UNCHANGED auditLog
<1>1. incoming = NoOrder
  BY DEF PlaceInv, IInv, TypeOK
<1>2. UNCHANGED auditLog
  BY DEF Admit, AcceptStop, ExpireUnfillable, StartMatching, book
<1>3. order.id \notin DOMAIN status
  BY DEF Admit, Refused, Duplicate
<1>4. CASE AcceptStop(order)
  <2>1. /\ status' = Pruned(With(status, order.id, Entry("PendingStop", 0)), orderIndex)
        /\ incoming' = incoming
    BY <1>4 DEF AcceptStop
  <2>2. status' = With(status, order.id, Entry("PendingStop", 0))
    BY <2>1, NotPruned
  <2> QED BY <1>1, <1>2, <1>3, <2>1, <2>2, UnfilledCounted
<1>5. CASE ExpireUnfillable(order)
  BY <1>2, <1>5 DEF ExpireUnfillable, book, Counted
<1>6. CASE StartMatching(order)
  <2>1. /\ status' = status /\ incoming' = [order EXCEPT !.sequence = nextSequence']
    BY <1>6 DEF StartMatching
  <2>2. FilledQuantity(incoming') = 0
    BY <2>1 DEF FilledQuantity, Order
  <2> QED BY <1>1, <1>2, <2>1, <2>2 DEF Counted
<1> QED BY <1>4, <1>5, <1>6 DEF Admit

(* A fill adds its quantity to what is counted of the maker and the taker. *)
LEMMA FillCounts ==
  ASSUME PlaceInv, Roomy, CountsOK, FillBest, NEW id \in OrderIds
  PROVE  TradedIn(id, auditLog') = Counted(id)'
<1>1. IInv /\ TypeOK /\ LevelsOK(levels) /\ auditLog \in Seq(Fill)
  BY LevelsFromInv DEF PlaceInv, IInv, TypeOK
<1>2. PICK side \in Sides, price \in Prices, quantity \in Nat, left \in Nat :
        FillSays(side, price, levels[side][price].orders, quantity, left)
  BY <1>1, FillBestSays
<1> DEFINE orders  == levels[side][price].orders
           maker   == orders[1]
           f       == FillOf(maker, price, quantity)
           full    == Entry("Filled", maker.original)
           part    == Entry("PartiallyFilled", maker.original - left)
<1>3. /\ price \in DOMAIN levels[side] /\ orders \in Seq(Order) /\ orders # << >>
      /\ left = maker.remaining - quantity
      /\ auditLog' = Append(auditLog, f)
      /\ IF left = 0 THEN status' = With(status, maker.id, full)
         ELSE status' = Pruned(With(status, maker.id, part), orderIndex')
  BY <1>2 DEF FillSays
<1>4. /\ incoming # NoOrder /\ incoming' # NoOrder
      /\ incoming \in Order /\ incoming' \in Order
      /\ incoming' = [incoming EXCEPT !.remaining = incoming.remaining - quantity]
  BY <1>1, <1>2, FillTaker
<1>5. QueueOK(side, price, orders, orderIndex, status)
  BY <1>3 DEF PlaceInv, QueuesOK
<1> HIDE DEF orders
<1>6. 1 \in DOMAIN orders /\ maker \in Order
  BY <1>3
<1>7. maker.id \in DOMAIN status /\ status[maker.id] = Known(maker)
  BY <1>5, <1>6 DEF QueueOK
<1> HIDE DEF maker
<1>8. /\ maker.remaining \in Nat /\ maker.original \in Nat /\ maker.id \in OrderIds
      /\ incoming.id \in OrderIds /\ incoming.remaining \in Nat /\ incoming.original \in Nat
  BY <1>4, <1>6 DEF Order
<1>9. /\ f.maker = maker.id /\ f.taker = incoming.id /\ f.quantity = quantity
      /\ f \in Fill
  BY <1>4, <1>6 DEF FillOf, Fill, Order
<1> HIDE DEF f
<1>10. /\ incoming.id \notin DOMAIN status
       /\ incoming'.id = incoming.id
       /\ FilledQuantity(incoming') = FilledQuantity(incoming) + quantity
       /\ FilledQuantity(incoming) \in Int
  <2>1. incoming.id \notin DOMAIN status
    BY <1>4 DEF PlaceInv, TakerOK
  <2>2. /\ incoming'.id = incoming.id
        /\ incoming'.original = incoming.original
        /\ incoming'.remaining = incoming.remaining - quantity
    BY <1>4 DEF Order
  <2> QED BY <1>8, <2>1, <2>2 DEF FilledQuantity
<1>11. status[maker.id].filled = maker.original - maker.remaining
  BY <1>7 DEF Known, Entry
<1>12. \E entry : /\ status' = With(status, maker.id, entry)
                  /\ entry.filled = status[maker.id].filled + quantity
  <2>1. full.filled = maker.original /\ part.filled = maker.original - left
    BY DEF Entry
  <2> HIDE DEF full, part
  <2>2. CASE left = 0
    <3>1. full.filled = status[maker.id].filled + quantity
      BY <1>3, <1>8, <1>11, <2>1, <2>2
    <3> QED BY <1>3, <2>2, <3>1
  <2>3. CASE left # 0
    <3>1. part.filled = status[maker.id].filled + quantity
      BY <1>3, <1>8, <1>11, <2>1
    <3>2. status' = With(status, maker.id, part)
      BY <1>3, <2>3, NotPruned
    <3> QED BY <3>1, <3>2
  <2> QED BY <2>2, <2>3
<1>13. PICK entry : /\ status' = With(status, maker.id, entry)
                    /\ entry.filled = status[maker.id].filled + quantity
  BY <1>12
<1> HIDE DEF full, part
<1>14. /\ DOMAIN status' = DOMAIN status
       /\ status'[maker.id] = entry
       /\ \A k \in DOMAIN status : k # maker.id => status'[k] = status[k]
  BY <1>7, <1>13 DEF With
<1>15. TradedIn(id, auditLog')
         = Counted(id) + IF id \in {maker.id, incoming.id} THEN quantity ELSE 0
  <2>1. TradedIn(id, Append(auditLog, f))
          = TradedIn(id, auditLog) + IF id \in {f.maker, f.taker} THEN f.quantity ELSE 0
    BY <1>1, <1>9, TradedAppended
  <2> QED BY <1>3, <1>9, <2>1 DEF CountsOK
<1>16. CASE id = maker.id
  <2>1. Counted(id) = status[maker.id].filled /\ Counted(id)' = entry.filled
    BY <1>7, <1>14, <1>16 DEF Counted
  <2> QED BY <1>13, <1>15, <1>16, <2>1
<1>17. CASE id = incoming.id
  <2>1. /\ Counted(id) = FilledQuantity(incoming)
        /\ Counted(id)' = FilledQuantity(incoming')
    BY <1>4, <1>10, <1>14, <1>17 DEF Counted
  <2> QED BY <1>10, <1>15, <1>17, <2>1
<1>18. CASE id # maker.id /\ id # incoming.id
  <2>1. Counted(id)' = Counted(id)
    BY <1>10, <1>14, <1>18 DEF Counted
  <2>2. Counted(id) \in Int
    <3>1. TradedIn(id, auditLog) \in Int
      BY <1>1, <1>9, TradedAppended
    <3> QED BY <3>1 DEF CountsOK
  <2> QED BY <1>15, <1>18, <2>1, <2>2
<1> QED BY <1>16, <1>17, <1>18

(* Every other step moves counts between the match loop and the status     *)
(* log, and changes none.                                                  *)
LEMMA OtherCounts ==
  ASSUME PlaceInv, Roomy, AuditRoomy, [Next]_vars, ~FillBest, NEW id
  PROVE  Counted(id)' = Counted(id) /\ auditLog' = auditLog
<1>1. IInv /\ TypeOK /\ LevelsOK(levels)
  BY LevelsFromInv DEF PlaceInv, IInv
<1>2. CASE SubmitOrder
  <2>1. PICK order \in Requests : Admit(order)
    BY <1>2 DEF SubmitOrder
  <2>2. order \in Order /\ order.remaining = order.original /\ phase # "matching"
    BY <1>2, RequestsAreOrders DEF Requests, SubmitOrder
  <2> QED BY <2>1, <2>2, AdmitCounts
<1>3. CASE RefuseOrder
  BY <1>3 DEF RefuseOrder, Refuse, book, Counted
<1>4. CASE SubmitTriggered
  <2> DEFINE order == [Head(ready) EXCEPT
                         !.kind = IF @ = "StopMarket" THEN "Market" ELSE "Limit"]
  <2>1. ready \in Seq(Order) /\ ready # << >> /\ phase # "matching"
    BY <1>1, <1>4 DEF TypeOK, SubmitTriggered
  <2>2. Head(ready) \in Order /\ Head(ready) = ready[1] /\ 1 \in DOMAIN ready
    BY <2>1
  <2>3. Untouched(Head(ready))
    BY <2>2 DEF PlaceInv, StopsOK, Awaited
  <2>4. order \in Order /\ order.remaining = order.original
    BY <2>2, <2>3 DEF Order, Kinds, Untouched
  <2>5. Enter(order)
    BY <1>4 DEF SubmitTriggered
  <2> HIDE DEF order
  <2>6. CASE Refuse(order.id)
    BY <2>6 DEF Refuse, book, Counted
  <2>7. CASE Admit(order)
    BY <2>1, <2>4, <2>7, AdmitCounts
  <2> QED BY <2>5, <2>6, <2>7 DEF Enter
<1>5. CASE PreventSelfTrade
  <2>1. incoming # NoOrder
    BY <1>1, <1>5 DEF TypeOK, PreventSelfTrade
  <2>2. \E state : /\ status' = With(status, incoming.id,
                                 Entry(state, FilledQuantity(incoming)))
                   /\ EndSubmit(state, fills # << >>) /\ auditLog' = auditLog
    BY <1>5 DEF PreventSelfTrade
  <2>3. incoming' = NoOrder
    BY <2>2 DEF EndSubmit
  <2>4. incoming.id \notin DOMAIN status
    BY <2>1 DEF PlaceInv, TakerOK
  <2> QED BY <2>1, <2>2, <2>3, <2>4, TakerCounted
<1>6. CASE Finish
  <2>1. incoming # NoOrder
    BY <1>1, <1>6 DEF TypeOK, Finish
  <2>2. /\ status' = Pruned(With(status, incoming.id,
             Entry(FinalState(incoming), FilledQuantity(incoming))), orderIndex')
        /\ EndSubmit(FinalState(incoming), TRUE)
        /\ auditLog' = PrunedAudit(auditLog)
    BY <1>6 DEF Finish
  <2>3. incoming' = NoOrder
    BY <2>2 DEF EndSubmit
  <2>4. incoming.id \notin DOMAIN status
    BY <2>1 DEF PlaceInv, TakerOK
  <2>5. status' = With(status, incoming.id,
                    Entry(FinalState(incoming), FilledQuantity(incoming)))
    BY <2>2, NotPruned
  <2>6. auditLog' = auditLog
    <3>1. Len(auditLog) \in Nat /\ MAX_AUDIT_LOG_FILLS \in Nat
      BY <1>1, BoundsAssumption DEF TypeOK
    <3>2. ~(Len(auditLog) > MAX_AUDIT_LOG_FILLS)
      BY <3>1 DEF AuditRoomy
    <3> QED BY <2>2, <3>2 DEF PrunedAudit
  <2> QED BY <2>1, <2>3, <2>4, <2>5, <2>6, TakerCounted
<1>7. CASE DrainStop
  <2>1. drained \in Seq(Order) /\ drained # << >> /\ incoming = NoOrder
        /\ incoming' = NoOrder /\ auditLog' = auditLog
    BY <1>1, <1>7 DEF TypeOK, DrainStop
  <2>2. Head(drained) = drained[1] /\ 1 \in DOMAIN drained
    BY <2>1
  <2>3. status[Head(drained).id].filled = 0
    BY <2>2 DEF PlaceInv, StopsOK, Pending, Entry
  <2>4. \/ status' = status
        \/ status' = Without(status, {Head(drained).id})
    BY <1>7 DEF DrainStop
  <2>5. CASE status' = status
    BY <2>1, <2>5 DEF Counted
  <2>6. CASE status' = Without(status, {Head(drained).id})
    BY <2>1, <2>3, <2>6, UnfilledCounted
  <2> QED BY <2>4, <2>5, <2>6
<1>8. CASE CancelResting
  <2>1. PICK order \in DOMAIN orderIndex : CancelAtLevel(order)
    BY <1>8 DEF CancelResting
  <2> DEFINE side   == orderIndex[order][1]
             price  == orderIndex[order][2]
             orders == levels[side][price].orders
  <2>2. PICK i \in DOMAIN orders :
          /\ orders[i].id = order
          /\ status' = Pruned(With(status, order,
                         Entry("Cancelled", FilledQuantity(orders[i]))), orderIndex')
    BY <2>1 DEF CancelAtLevel
  <2>3. price \in DOMAIN levels[side] /\ side \in Sides
    <3>1. orderIndex[order] \in Sides \X Prices
      BY <1>1 DEF TypeOK, IsMap
    <3> QED BY <2>1, <3>1 DEF CancelAtLevel
  <2>4. QueueOK(side, price, orders, orderIndex, status)
    BY <2>3 DEF PlaceInv, QueuesOK
  <2> DEFINE entry == Entry("Cancelled", FilledQuantity(orders[i]))
  <2> HIDE DEF side, price, orders
  <2>5. order \in DOMAIN status /\ status[order] = Known(orders[i])
    BY <2>2, <2>4 DEF QueueOK
  <2>6. entry.filled = status[order].filled
    BY <2>5 DEF Known, Entry, FilledQuantity
  <2> HIDE DEF entry
  <2>7. status' = With(status, order, entry)
    BY <2>2, NotPruned DEF entry
  <2>8. UNCHANGED <<incoming, auditLog>>
    BY <1>8, <2>1 DEF CancelResting, CancelAtLevel
  <2> QED BY <2>5, <2>6, <2>7, <2>8, EntryCounted
<1>9. CASE CancelStop
  <2>1. PICK i \in DOMAIN stopOrders : CancelStopAt(i)
    BY <1>9 DEF CancelStop
  <2> DEFINE stop  == stopOrders[i].id
             entry == Entry("Cancelled", FilledQuantity(stopOrders[i]))
  <2>2. status' = Pruned(With(status, stop, entry), orderIndex)
    BY <2>1 DEF CancelStopAt
  <2>3. Pending(stopOrders[i], status) /\ stopOrders[i] \in Order
    BY <1>1 DEF PlaceInv, StopsOK, TypeOK
  <2>4. stop \in DOMAIN status /\ status[stop] = Entry("PendingStop", 0)
    BY <2>3 DEF Pending
  <2>5. FilledQuantity(stopOrders[i]) = 0
    BY <2>3 DEF Pending, Untouched, FilledQuantity, Order
  <2>6. entry.filled = status[stop].filled
    BY <2>4, <2>5 DEF Entry
  <2> HIDE DEF stop, entry
  <2>7. status' = With(status, stop, entry)
    BY <2>2, NotPruned
  <2>8. UNCHANGED <<incoming, auditLog>>
    BY <1>9, <2>1 DEF CancelStop, CancelStopAt
  <2> QED BY <2>4, <2>6, <2>7, <2>8, EntryCounted
<1>10. CASE PopTriggerPrice \/ Release \/ UNCHANGED vars
  BY <1>10 DEF PopTriggerPrice, Release, vars, book, Counted
<1> QED BY <1>2, <1>3, <1>4, <1>5, <1>6, <1>7, <1>8, <1>9, <1>10 DEF Next, HolderStep

LEMMA NextCounts ==
  PlaceInv /\ Roomy /\ AuditRoomy /\ CountsOK /\ [Next]_vars => CountsOK'
<1> SUFFICES ASSUME PlaceInv, Roomy, AuditRoomy, CountsOK, [Next]_vars, NEW id \in OrderIds
             PROVE  TradedIn(id, auditLog') = Counted(id)'
  BY DEF CountsOK
<1>1. CASE FillBest
  BY <1>1, FillCounts
<1>2. CASE ~FillBest
  <2>1. Counted(id)' = Counted(id) /\ auditLog' = auditLog
    BY <1>2, OtherCounts
  <2> QED BY <2>1 DEF CountsOK
<1> QED BY <1>1, <1>2

(* What is counted is what the status log reports. *)
LEMMA CountsMatch == PlaceInv /\ CountsOK => FilledMatchesTrades
<1> SUFFICES ASSUME PlaceInv, CountsOK PROVE FilledMatchesTrades
  OBVIOUS
<1>1. \A id \in OrderIds : Traded(id) = Counted(id)
  BY DEF CountsOK, TradedIn, Traded
<1>2. DOMAIN status \subseteq OrderIds
  BY DEF PlaceInv, IInv, TypeOK, IsMap
<1>3. incoming # NoOrder => incoming.id \in OrderIds /\ incoming.id \notin DOMAIN status
  BY DEF PlaceInv, IInv, TypeOK, TakerOK, Order
<1> QED BY <1>1, <1>2, <1>3 DEF FilledMatchesTrades, Counted, FilledQuantity

(* As long as neither log has reached its cap, so that none is pruned,     *)
(* every quantity reported as filled was traded and every trade is         *)
(* reported: fills, cancellations, self-trade prevention and the cascade   *)
(* of stop orders lose and double none.                                    *)
THEOREM FillsCounted ==
  Spec /\ [](StatusRoomy /\ AuditRoomy) => []FilledMatchesTrades
<1>1. Init => CountsOK
  <2>1. Init => auditLog = << >> /\ DOMAIN status = {} /\ incoming = NoOrder
    BY DEF Init
  <2> QED BY <2>1, TradedOfNone DEF CountsOK, Counted
<1>2. Init => FiniteStatus
  BY FS_EmptySet DEF Init, FiniteStatus
<1>3. FiniteStatus /\ StatusRoomy => Roomy
  BY DEF Roomy
<1> QED BY <1>1, <1>2, <1>3, NextCounts, CountsMatch, StatusStaysFinite,
           PlacesInductive, PTL DEF Spec

-----------------------------------------------------------------------------
(* No stop order is passed over *)

(* A last price is handled when it still waits for the stop orders, or     *)
(* when none of those it has been given is left that it triggers: while it *)
(* is being given, only the drained ones may still be.                     *)
Passed(price) ==
  /\ \A i \in DOMAIN stopOrders : ~Triggered(stopOrders[i], price)
  /\ \/ price = lastPrice
     \/ \A i \in DOMAIN drained : ~Triggered(drained[i], price)

Handled(price) ==
  \/ \E i \in DOMAIN triggerPrices : triggerPrices[i] = price
  \/ \E i \in DOMAIN fills : fills[i].price = price
  \/ Passed(price)

(* The fills of this submission, of its cascade and of the match loop. *)
Trades == tradeCount + Len(fills)

(* The audit log ends with them, as many as its cap lets it hold, and each *)
(* of their prices is handled.                                             *)
CascadeInv ==
  /\ phase = "idle" => tradeCount = 0
  /\ Len(auditLog) >= Trades \/ Len(auditLog) >= MAX_AUDIT_LOG_FILLS
  /\ \A i \in 1..Len(auditLog), price \in Prices :
       i > Len(auditLog) - Trades /\ auditLog[i].price = price => Handled(price)

(* Steps that trade nothing, and take no price from those that are handled. *)
LEMMA StillHandled ==
  ASSUME CascadeInv, auditLog' = auditLog, Trades' = Trades, phase' # "idle",
         \A price : Handled(price) => Handled(price)'
  PROVE  CascadeInv'
BY DEF CascadeInv

(* Where no trade is to be handled. *)
LEMMA NothingToHandle ==
  ASSUME auditLog \in Seq(Fill), Trades = 0, tradeCount = 0
  PROVE  CascadeInv
BY DEF CascadeInv

(* While the mutex is free no trade is to be handled. *)
LEMMA IdleTrades ==
  ASSUME PlaceInv, CascadeInv, phase = "idle"
  PROVE  tradeCount = 0 /\ Trades = 0 /\ fills = << >>
<1>1. fills = << >> /\ tradeCount = 0
  BY DEF PlaceInv, PhasesOK, CascadeInv
<1> QED BY <1>1 DEF Trades

(* A fill joins the log and the prices that are to be given at once. *)
LEMMA FillBestHandled ==
  ASSUME PlaceInv, CascadeInv, FillBest
  PROVE  CascadeInv'
<1>1. IInv /\ auditLog \in Seq(Fill) /\ fills \in Seq(Fill) /\ tradeCount \in Nat
  BY DEF PlaceInv, IInv, TypeOK
<1>2. PICK side \in Sides, price \in Prices, quantity \in Nat, left \in Nat :
        FillSays(side, price, levels[side][price].orders, quantity, left)
  BY <1>1, FillBestSays
<1> DEFINE f == FillOf(levels[side][price].orders[1], price, quantity)
<1>3. /\ fills' = Append(fills, f) /\ auditLog' = Append(auditLog, f)
      /\ UNCHANGED <<stopOrders, triggerPrices, lastPrice, drained, tradeCount, phase>>
  BY <1>2 DEF FillSays, cascade
<1>4. f.price = price
  BY DEF FillOf
<1> HIDE DEF f
<1>5. /\ Len(auditLog) \in Nat /\ Len(auditLog') = Len(auditLog) + 1
      /\ auditLog'[Len(auditLog) + 1] = f
      /\ \A i \in 1..Len(auditLog) : auditLog'[i] = auditLog[i]
  BY <1>1, <1>3
<1>6. /\ Len(fills) \in Nat /\ Len(fills') = Len(fills) + 1
      /\ Len(fills) + 1 \in DOMAIN fills' /\ fills'[Len(fills) + 1] = f
      /\ \A i \in DOMAIN fills : i \in DOMAIN fills' /\ fills'[i] = fills[i]
  BY <1>1, <1>3
<1>7. Trades \in Nat /\ Trades' = Trades + 1
  BY <1>1, <1>3, <1>6 DEF Trades
<1>8. \A p : Handled(p) => Handled(p)'
  BY <1>3, <1>6 DEF Handled, Passed
<1>9. ASSUME NEW p, f.price = p
      PROVE  Handled(p)'
  BY <1>6, <1>9 DEF Handled
<1>10. ASSUME NEW i \in 1..Len(auditLog'), NEW p \in Prices, auditLog'[i].price = p,
              i > Len(auditLog') - Trades'
       PROVE  Handled(p)'
  <2>1. CASE i = Len(auditLog) + 1
    BY <1>5, <1>9, <1>10, <2>1
  <2>2. CASE i # Len(auditLog) + 1
    <3>1. i \in 1..Len(auditLog) /\ i > Len(auditLog) - Trades
      BY <1>5, <1>7, <1>10, <2>2
    <3>2. Handled(p)
      BY <1>5, <1>10, <3>1 DEF CascadeInv
    <3> QED BY <1>8, <3>2
  <2> QED BY <2>1, <2>2
<1>11. MAX_AUDIT_LOG_FILLS \in Nat
  BY BoundsAssumption
<1>12. Len(auditLog') >= Trades' \/ Len(auditLog') >= MAX_AUDIT_LOG_FILLS
  BY <1>5, <1>7, <1>11 DEF CascadeInv
<1> QED BY <1>3, <1>10, <1>12 DEF CascadeInv

(* The end of a submit hands the prices of its fills on. *)
LEMMA EndSubmitHandled ==
  ASSUME TypeOK, NEW state, NEW accepted, EndSubmit(state, accepted),
         UNCHANGED <<stopOrders, drained, lastPrice>>
  PROVE  /\ Trades' = Trades /\ phase' # "idle"
         /\ \A price : Handled(price) => Handled(price)'
<1> DEFINE prices == [i \in DOMAIN fills |-> fills[i].price]
<1>1. /\ fills \in Seq(Fill) /\ triggerPrices \in Seq(Prices) /\ tradeCount \in Nat
  BY DEF TypeOK
<1>2. /\ triggerPrices' = triggerPrices \o prices /\ fills' = << >>
      /\ tradeCount' = tradeCount + Len(fills) /\ phase' = "triggering"
  BY DEF EndSubmit, Respond
<1>3. Len(<< >>) = 0 /\ Len(fills) \in Nat
  BY <1>1
<1>4. Trades' = Trades
  BY <1>1, <1>2, <1>3 DEF Trades
<1>5. /\ prices \in Seq(Prices) /\ DOMAIN prices = DOMAIN fills
      /\ Len(prices) = Len(fills)
      /\ \A i \in DOMAIN fills : prices[i] = fills[i].price
  <2>1. \A i \in 1..Len(fills) : fills[i].price \in Prices
    <3>1. \A i \in 1..Len(fills) : fills[i] \in Fill
      BY <1>1
    <3> QED BY <3>1 DEF Fill
  <2>2. DOMAIN fills = 1..Len(fills)
    BY <1>1
  <2>3. prices = [i \in 1..Len(fills) |-> fills[i].price]
    BY <2>2
  <2> QED BY <1>3, <2>1, <2>2, <2>3
<1> HIDE DEF prices
<1>6. /\ \A i \in DOMAIN triggerPrices :
           i \in DOMAIN triggerPrices' /\ triggerPrices'[i] = triggerPrices[i]
      /\ \A i \in DOMAIN prices :
           /\ Len(triggerPrices) + i \in DOMAIN triggerPrices'
           /\ triggerPrices'[Len(triggerPrices) + i] = prices[i]
  BY <1>1, <1>2, <1>5
<1>7. \A price : Handled(price) => Handled(price)'
  BY <1>5, <1>6 DEF Handled, Passed
<1> QED BY <1>2, <1>4, <1>7

(* Cutting the audit log to its newest fills keeps those that count. *)
LEMMA FinishHandled ==
  ASSUME PlaceInv, CascadeInv, Finish
  PROVE  CascadeInv'
<1>1. TypeOK /\ auditLog \in Seq(Fill) /\ fills \in Seq(Fill) /\ tradeCount \in Nat
  BY DEF PlaceInv, IInv, TypeOK
<1>2. /\ auditLog' = PrunedAudit(auditLog)
      /\ EndSubmit(FinalState(incoming), TRUE)
      /\ UNCHANGED <<stopOrders, drained, lastPrice>>
  BY DEF Finish
<1>3. /\ Trades' = Trades /\ phase' # "idle"
      /\ \A price : Handled(price) => Handled(price)'
  BY <1>1, <1>2, EndSubmitHandled
<1>4. CASE auditLog' = auditLog
  BY <1>3, <1>4, StillHandled
<1>5. CASE auditLog' # auditLog
  <2> DEFINE cap == MAX_AUDIT_LOG_FILLS
             cut == Len(auditLog) - cap
  <2>1. /\ Len(auditLog) > cap
        /\ auditLog' = SubSeq(auditLog, Len(auditLog) - cap + 1, Len(auditLog))
    BY <1>2, <1>5 DEF PrunedAudit
  <2>2. cap \in Nat /\ Len(auditLog) \in Nat /\ Trades \in Nat
    BY <1>1, BoundsAssumption DEF Trades
  <2>3. cut \in Nat /\ Len(auditLog) = cut + cap
    BY <2>1, <2>2
  <2>4. /\ Len(auditLog') = cap
        /\ \A i \in 1..cap : auditLog'[i] = auditLog[cut + i]
    BY <1>1, <2>1, <2>2
  <2> HIDE DEF cut
  <2>5. ASSUME NEW i \in 1..Len(auditLog'), NEW price \in Prices,
               auditLog'[i].price = price, i > Len(auditLog') - Trades'
        PROVE  Handled(price)'
    <3>1. i \in 1..cap /\ auditLog'[i] = auditLog[cut + i]
      BY <2>4
    <3>2. cut + i \in 1..Len(auditLog) /\ cut + i > Len(auditLog) - Trades
      BY <1>3, <2>2, <2>3, <2>4, <2>5
    <3>3. Handled(price)
      BY <2>5, <3>1, <3>2 DEF CascadeInv
    <3> QED BY <1>3, <3>3
  <2> QED BY <1>3, <2>2, <2>4, <2>5 DEF CascadeInv
<1> QED BY <1>4, <1>5

(* The newest last price is now being given, to every stop order. *)
LEMMA PopTriggerPriceHandled ==
  ASSUME PlaceInv, CascadeInv, PopTriggerPrice
  PROVE  CascadeInv'
<1>1. triggerPrices \in Seq(Prices) /\ triggerPrices # << >>
  BY DEF PlaceInv, IInv, TypeOK, PopTriggerPrice
<1>2. /\ lastPrice' = triggerPrices[Len(triggerPrices)]
      /\ triggerPrices' = SubSeq(triggerPrices, 1, Len(triggerPrices) - 1)
      /\ drained = << >> /\ drained' = stopOrders /\ stopOrders' = << >>
      /\ UNCHANGED <<fills, tradeCount, auditLog, phase>> /\ phase = "triggering"
  BY DEF PopTriggerPrice
<1>3. \A i \in DOMAIN triggerPrices :
        \/ triggerPrices[i] = lastPrice'
        \/ i \in DOMAIN triggerPrices' /\ triggerPrices'[i] = triggerPrices[i]
  BY <1>1, <1>2
<1>4. \A price : Passed(price) => Passed(price)'
  BY <1>2 DEF Passed
<1>5. Passed(lastPrice)'
  BY <1>2 DEF Passed
<1>6. \A price : Handled(price) => Handled(price)'
  BY <1>2, <1>3, <1>4, <1>5 DEF Handled
<1> QED BY <1>2, <1>6, StillHandled DEF Trades

(* A drained stop order is kept only if the last price does not trigger it. *)
LEMMA DrainStopHandled ==
  ASSUME PlaceInv, CascadeInv, DrainStop
  PROVE  CascadeInv'
<1>1. drained \in Seq(Order) /\ drained # << >> /\ stopOrders \in Seq(Order)
  BY DEF PlaceInv, IInv, TypeOK, DrainStop
<1> DEFINE stop == Head(drained)
<1>2. /\ drained' = Tail(drained) /\ phase = "triggering"
      /\ \/ stopOrders' = stopOrders
         \/ ~Triggered(stop, lastPrice) /\ stopOrders' = Append(stopOrders, stop)
      /\ UNCHANGED <<fills, tradeCount, auditLog, phase, triggerPrices, lastPrice>>
  BY DEF DrainStop
<1>3. stop = drained[1] /\ 1 \in DOMAIN drained
  BY <1>1
<1> HIDE DEF stop
<1>4. \A i \in DOMAIN drained' : \E j \in DOMAIN drained : drained'[i] = drained[j]
  <2>1. \A i \in DOMAIN Tail(drained) :
          i + 1 \in DOMAIN drained /\ Tail(drained)[i] = drained[i + 1]
    BY <1>1
  <2> QED BY <1>2, <2>1
<1>5. \A i \in DOMAIN stopOrders' :
        \/ \E j \in DOMAIN stopOrders : stopOrders'[i] = stopOrders[j]
        \/ ~Triggered(stop, lastPrice) /\ stopOrders'[i] = stop
  <2>1. CASE stopOrders' = stopOrders
    BY <2>1
  <2>2. CASE ~Triggered(stop, lastPrice) /\ stopOrders' = Append(stopOrders, stop)
    <3>1. stop \in Order
      BY <1>1, <1>3
    <3>2. \A i \in DOMAIN Append(stopOrders, stop) :
            \/ i \in DOMAIN stopOrders /\ Append(stopOrders, stop)[i] = stopOrders[i]
            \/ Append(stopOrders, stop)[i] = stop
      BY <1>1, <3>1
    <3> QED BY <2>2, <3>2
  <2> QED BY <1>2, <2>1, <2>2
<1>6. ASSUME NEW price, Passed(price)
      PROVE  Passed(price)'
  <2>1. ~Triggered(stop, lastPrice) => ~Triggered(stop, price)
    BY <1>3, <1>6 DEF Passed
  <2>2. \A i \in DOMAIN stopOrders' : ~Triggered(stopOrders'[i], price)
    BY <1>5, <1>6, <2>1 DEF Passed
  <2>3. \/ price = lastPrice'
        \/ \A i \in DOMAIN drained' : ~Triggered(drained'[i], price)
    BY <1>2, <1>4, <1>6 DEF Passed
  <2> QED BY <2>2, <2>3 DEF Passed, Triggered
<1>7. \A price : Handled(price) => Handled(price)'
  BY <1>2, <1>6 DEF Handled
<1> QED BY <1>2, <1>7, StillHandled DEF Trades

(* A triggered stop order enters as an order that is none: no stop order   *)
(* is added in a cascade.                                                  *)
LEMMA SubmitTriggeredHandled ==
  ASSUME PlaceInv, CascadeInv, SubmitTriggered
  PROVE  CascadeInv'
<1> DEFINE order == [Head(ready) EXCEPT
                       !.kind = IF @ = "StopMarket" THEN "Market" ELSE "Limit"]
<1>1. ready \in Seq(Order) /\ ready # << >>
  BY DEF PlaceInv, IInv, TypeOK, SubmitTriggered
<1>2. Head(ready) \in Order
  BY <1>1
<1>3. order.kind \notin StopKinds
  BY <1>2 DEF Order, StopKinds
<1>4. Enter(order) /\ UNCHANGED <<fills, triggerPrices, lastPrice, drained, tradeCount>>
  BY DEF SubmitTriggered
<1> HIDE DEF order
<1>5. UNCHANGED <<stopOrders, auditLog>> /\ phase' # "idle"
  <2>1. Refuse(order.id) \/ ExpireUnfillable(order) \/ StartMatching(order)
    BY <1>3, <1>4 DEF Enter, Admit, AcceptStop
  <2> QED BY <2>1 DEF Refuse, ExpireUnfillable, StartMatching, Respond, book
<1>6. \A price : Handled(price) => Handled(price)'
  BY <1>4, <1>5 DEF Handled, Passed
<1> QED BY <1>4, <1>5, <1>6, StillHandled DEF Trades

LEMMA NextHandled == PlaceInv /\ CascadeInv /\ [Next]_vars => CascadeInv'
<1> SUFFICES ASSUME PlaceInv, CascadeInv, [Next]_vars PROVE CascadeInv'
  OBVIOUS
<1>0. IInv' /\ auditLog' \in Seq(Fill) /\ TypeOK
  BY NextIInv DEF PlaceInv, IInv, TypeOK
<1>1. CASE FillBest         BY <1>1, FillBestHandled
<1>2. CASE Finish           BY <1>2, FinishHandled
<1>3. CASE PopTriggerPrice  BY <1>3, PopTriggerPriceHandled
<1>4. CASE DrainStop        BY <1>4, DrainStopHandled
<1>5. CASE SubmitTriggered  BY <1>5, SubmitTriggeredHandled
<1>6. CASE PreventSelfTrade
  <2>1. /\ \E state, accepted : EndSubmit(state, accepted)
        /\ UNCHANGED <<stopOrders, drained, lastPrice, auditLog>>
    BY <1>6 DEF PreventSelfTrade
  <2>2. /\ Trades' = Trades /\ phase' # "idle"
        /\ \A price : Handled(price) => Handled(price)'
    BY <1>0, <2>1, EndSubmitHandled
  <2> QED BY <2>1, <2>2, StillHandled
<1>7. CASE SubmitOrder \/ RefuseOrder \/ CancelResting \/ CancelStop
  <2>1. phase = "idle" /\ UNCHANGED <<fills, tradeCount>>
    BY <1>7 DEF SubmitOrder, RefuseOrder, CancelResting, CancelStop, cascade
  <2>2. tradeCount' = 0 /\ Trades' = 0
    BY <2>1, IdleTrades DEF Trades
  <2> QED BY <1>0, <2>2, NothingToHandle DEF CascadeInv
<1>8. CASE Release
  <2>1. phase = "triggering" /\ tradeCount' = 0 /\ fills' = fills
    BY <1>8 DEF Release
  <2>2. fills = << >>
    BY <2>1 DEF PlaceInv, PhasesOK
  <2>3. Trades' = 0
    BY <2>1, <2>2 DEF Trades
  <2> QED BY <1>0, <2>1, <2>3 DEF CascadeInv
<1>9. CASE UNCHANGED vars
  BY <1>9 DEF vars, book, cascade, CascadeInv, Trades, Handled, Passed
<1> QED BY <1>1, <1>2, <1>3, <1>4, <1>5, <1>6, <1>7, <1>8, <1>9 DEF Next, HolderStep

(* When the reply is due, no stop order is left that a trade of the        *)
(* submission or of its cascade should have triggered, however many fills  *)
(* there were and in whatever order their prices were popped, as long as   *)
(* the audit log holds them all.                                           *)
THEOREM StopsAllTriggered ==
  Spec => [](tradeCount <= MAX_AUDIT_LOG_FILLS => NoStopMissed)
<1>1. Init => CascadeInv
  BY DEF Init, CascadeInv, Trades
<1>2. PlaceInv /\ CascadeInv => (tradeCount <= MAX_AUDIT_LOG_FILLS => NoStopMissed)
  <2> SUFFICES ASSUME PlaceInv, CascadeInv, tradeCount <= MAX_AUDIT_LOG_FILLS,
                      phase = "triggering", drained = << >>, triggerPrices = << >>,
                      NEW i \in Len(auditLog) - tradeCount + 1 .. Len(auditLog),
                      NEW stop \in Range(stopOrders)
               PROVE  ~Triggered(stop, auditLog[i].price)
    BY DEF NoStopMissed
  <2>1. fills = << >> /\ tradeCount \in Nat /\ auditLog \in Seq(Fill)
    BY DEF PlaceInv, PhasesOK, IInv, TypeOK
  <2>2. Trades = tradeCount
    BY <2>1 DEF Trades
  <2>3. Len(auditLog) >= tradeCount
    BY <2>1, <2>2, BoundsAssumption DEF CascadeInv
  <2>4. i \in 1..Len(auditLog) /\ i > Len(auditLog) - Trades
    BY <2>1, <2>2, <2>3
  <2>5. Handled(auditLog[i].price)
    <3>1. auditLog[i] \in Fill
      BY <2>1, <2>4
    <3>2. auditLog[i].price \in Prices
      BY <3>1 DEF Fill
    <3> QED BY <2>4, <3>2 DEF CascadeInv
  <2>6. Passed(auditLog[i].price)
    BY <2>1, <2>5 DEF Handled
  <2>7. \E j \in DOMAIN stopOrders : stop = stopOrders[j]
    BY DEF Range
  <2> QED BY <2>6, <2>7 DEF Passed
<1> QED BY <1>1, <1>2, NextHandled, PlacesInductive, PTL DEF Spec

-----------------------------------------------------------------------------
(* The book of the engine: lost, saved, restored and replayed *)

(* What a book between two requests satisfies, whether it is served or     *)
(* saved in a file.                                                        *)
BookSound(l, stops, index, log, audit, n) ==
  /\ LevelsOK(l) /\ \A bid \in DOMAIN l["Buy"], ask \in DOMAIN l["Sell"] : bid < ask
  /\ stops \in Seq(Order) /\ audit \in Seq(Fill) /\ n \in Nat
  /\ IsMap(index, OrderIds, Sides \X Prices) /\ IsFiniteSet(DOMAIN index)
  /\ IsMap(log, OrderIds, [state: States, filled: Int]) /\ IsFiniteSet(DOMAIN log)
  /\ QueuesOK(l, index, log) /\ IndexOK(l, index) /\ TotalsOK(l)
  /\ Distinct(stops) /\ \A i \in DOMAIN stops : Pending(stops[i], log)

(* A snapshot is sound if the book that is rebuilt of it is. *)
SnapshotSound(s) ==
  BookSound(RestoredLevels(s.queues), s.stopOrders, RestoredIndex(s.queues),
            s.status, s.auditLog, s.nextSequence)

BookInv == PlaceInv /\ TotalsOK(levels) /\ FiniteIndex /\ FiniteStatus

(* Levels without their totals, from which the totals are computed again. *)
LEMMA LevelsRestored ==
  ASSUME LevelsOK(levels), TotalsOK(levels)
  PROVE  RestoredLevels(Queues(levels)) = levels
<1> DEFINE l == RestoredLevels(Queues(levels))
<1>1. /\ l = [side \in Sides |-> l[side]]
      /\ \A side \in Sides :
           /\ DOMAIN l[side] = DOMAIN levels[side]
           /\ l[side] = [price \in DOMAIN levels[side] |-> l[side][price]]
           /\ \A price \in DOMAIN levels[side] :
                l[side][price] = [orders |-> levels[side][price].orders,
                                  total  |-> LeftOf(levels[side][price].orders)]
  BY DEF RestoredLevels, Queues, LeftOf
<1>2. ASSUME NEW side \in Sides, NEW price \in DOMAIN levels[side]
      PROVE  levels[side][price] = [orders |-> levels[side][price].orders,
                                    total  |-> LeftOf(levels[side][price].orders)]
  <2>1. levels[side][price] \in Level
    BY DEF LevelsOK, IsMap
  <2>2. levels[side][price].total = LeftOf(levels[side][price].orders)
    BY DEF TotalsOK
  <2> QED BY <2>1, <2>2 DEF Level
<1> HIDE DEF l
<1>3. ASSUME NEW side \in Sides
      PROVE  l[side] = levels[side]
  <2>1. levels[side] = [price \in DOMAIN levels[side] |-> levels[side][price]]
    BY DEF LevelsOK, IsMap
  <2>2. \A price \in DOMAIN levels[side] : l[side][price] = levels[side][price]
    BY <1>1, <1>2
  <2>3. l[side] = [price \in DOMAIN levels[side] |-> l[side][price]]
    BY <1>1
  <2> QED BY <2>1, <2>2, <2>3
<1>4. levels = [side \in Sides |-> levels[side]]
  BY DEF LevelsOK
<1> QED BY <1>1, <1>3, <1>4 DEF l

(* restore_level files every order where the index had it. *)
LEMMA IndexRestored ==
  ASSUME TypeOK, QueuesOK(levels, orderIndex, status), IndexOK(levels, orderIndex)
  PROVE  RestoredIndex(Queues(levels)) = orderIndex
<1> DEFINE queues  == Queues(levels)
           places  == {at \in Sides \X Prices : at[2] \in DOMAIN queues[at[1]]}
           ids(at) == {o.id : o \in Range(queues[at[1]][at[2]])}
           known   == UNION {ids(at) : at \in places}
<1>1. \A side \in Sides :
        /\ DOMAIN queues[side] = DOMAIN levels[side]
        /\ \A price \in DOMAIN levels[side] :
             queues[side][price] = levels[side][price].orders
  BY DEF Queues
<1> HIDE DEF queues
<1>2. ASSUME NEW at \in places, NEW id \in ids(at)
      PROVE  id \in DOMAIN orderIndex /\ orderIndex[id] = at
  <2>1. at[1] \in Sides /\ at[2] \in DOMAIN levels[at[1]] /\ at = <<at[1], at[2]>>
    BY <1>1
  <2>2. PICK i \in DOMAIN levels[at[1]][at[2]].orders :
          id = levels[at[1]][at[2]].orders[i].id
    BY <1>1, <2>1 DEF Range
  <2>3. QueueOK(at[1], at[2], levels[at[1]][at[2]].orders, orderIndex, status)
    BY <2>1 DEF QueuesOK
  <2> QED BY <2>1, <2>2, <2>3 DEF QueueOK
<1>3. ASSUME NEW id \in DOMAIN orderIndex
      PROVE  orderIndex[id] \in places /\ id \in ids(orderIndex[id])
  <2> DEFINE at == orderIndex[id]
  <2>1. at \in Sides \X Prices
    BY DEF TypeOK, IsMap
  <2>2. at[2] \in DOMAIN levels[at[1]] /\ InQueue(id, levels[at[1]][at[2]].orders)
    BY DEF IndexOK
  <2> HIDE DEF at
  <2>3. at \in places
    BY <1>1, <2>1, <2>2
  <2>4. id \in ids(at)
    BY <1>1, <2>1, <2>2 DEF InQueue, Range
  <2> QED BY <2>3, <2>4 DEF at
<1> HIDE DEF places, ids
<1>4. known = DOMAIN orderIndex
  BY <1>2, <1>3
<1>5. \A id \in DOMAIN orderIndex :
        (CHOOSE at \in places : id \in ids(at)) = orderIndex[id]
  BY <1>2, <1>3
<1>6. orderIndex = [id \in DOMAIN orderIndex |-> orderIndex[id]]
  BY DEF TypeOK, IsMap
<1>7. RestoredIndex(queues)
        = [id \in known |-> CHOOSE at \in places : id \in ids(at)]
  BY DEF RestoredIndex, places, ids
<1> QED BY <1>4, <1>5, <1>6, <1>7 DEF queues

(* What is saved while the mutex is free is a sound book. *)
LEMMA SnapshotTaken ==
  ASSUME BookInv, phase = "idle"
  PROVE  SnapshotSound(ToSnapshot)
<1>1. /\ TypeOK /\ NotCrossed /\ LevelsOK(levels)
      /\ QueuesOK(levels, orderIndex, status) /\ IndexOK(levels, orderIndex)
      /\ TotalsOK(levels) /\ StopsOK
  BY LevelsFromInv DEF BookInv, PlaceInv, IInv
<1>2. RestoredLevels(Queues(levels)) = levels /\ RestoredIndex(Queues(levels)) = orderIndex
  BY <1>1, LevelsRestored, IndexRestored
<1>3. BookSound(levels, stopOrders, orderIndex, status, auditLog, nextSequence)
  <2>1. /\ stopOrders \in Seq(Order) /\ auditLog \in Seq(Fill) /\ nextSequence \in Nat
        /\ IsMap(orderIndex, OrderIds, Sides \X Prices)
        /\ IsMap(status, OrderIds, [state: States, filled: Int])
    BY <1>1 DEF TypeOK
  <2> QED BY <1>1, <2>1 DEF BookSound, NotCrossed, StopsOK, BookInv, FiniteIndex, FiniteStatus
<1>4. /\ ToSnapshot.queues = Queues(levels) /\ ToSnapshot.stopOrders = stopOrders
      /\ ToSnapshot.status = status /\ ToSnapshot.auditLog = auditLog
      /\ ToSnapshot.nextSequence = nextSequence
  BY DEF ToSnapshot
<1> QED BY <1>2, <1>3, <1>4 DEF SnapshotSound

(* Without a file the book is empty. *)
LEMMA EmptySound == SnapshotSound(EmptySnapshot)
<1> DEFINE queues == [side \in Sides |-> << >>]
<1>1. /\ EmptySnapshot.queues = queues /\ EmptySnapshot.stopOrders = << >>
      /\ EmptySnapshot.status = << >> /\ EmptySnapshot.auditLog = << >>
      /\ EmptySnapshot.nextSequence = 0
  BY DEF EmptySnapshot
<1>2. /\ RestoredLevels(queues) = [side \in Sides |-> RestoredLevels(queues)[side]]
      /\ \A side \in Sides : /\ DOMAIN RestoredLevels(queues)[side] = {}
                             /\ IsMap(RestoredLevels(queues)[side], Prices, Level)
  <2> DEFINE l == RestoredLevels(queues)
  <2>1. \A side \in Sides : queues[side] = << >>
    OBVIOUS
  <2> HIDE DEF queues
  <2>2. l = [side \in Sides |-> l[side]]
    BY DEF RestoredLevels
  <2>3. ASSUME NEW side \in Sides
        PROVE  l[side] = [price \in {} |-> l[side][price]]
    <3>1. DOMAIN queues[side] = {}
      BY <2>1
    <3> QED BY <3>1 DEF RestoredLevels
  <2> HIDE DEF l
  <2>4. \A side \in Sides : DOMAIN l[side] = {} /\ l[side] \in [{} -> Level]
    BY <2>3
  <2> QED BY <2>2, <2>4 DEF IsMap, l
<1>3. DOMAIN RestoredIndex(queues) = {}
  BY DEF RestoredIndex
<1>4. IsMap(RestoredIndex(queues), OrderIds, Sides \X Prices)
  BY <1>3 DEF IsMap, RestoredIndex
<1> HIDE DEF queues
<1>5. LevelsOK(RestoredLevels(queues))
  BY <1>2 DEF LevelsOK
<1>6. /\ DOMAIN RestoredLevels(queues)["Buy"] = {}
      /\ DOMAIN RestoredLevels(queues)["Sell"] = {}
  BY <1>2 DEF Sides
<1>7. /\ QueuesOK(RestoredLevels(queues), RestoredIndex(queues), << >>)
      /\ IndexOK(RestoredLevels(queues), RestoredIndex(queues))
      /\ TotalsOK(RestoredLevels(queues))
  BY <1>2, <1>3 DEF QueuesOK, IndexOK, TotalsOK
<1>8. /\ << >> \in Seq(Order) /\ << >> \in Seq(Fill) /\ DOMAIN << >> = {}
      /\ IsMap(<< >>, OrderIds, [state: States, filled: Int])
  BY DEF IsMap
<1>9. IsFiniteSet({})
  BY FS_EmptySet
<1> QED BY <1>1, <1>3, <1>4, <1>5, <1>6, <1>7, <1>8, <1>9
        DEF SnapshotSound, BookSound, Distinct

(* A restart serves what the file holds. *)
LEMMA RestartSound ==
  ASSUME saved # NoFile => SnapshotSound(saved), Restart
  PROVE  BookInv'
<1> DEFINE file == IF saved = NoFile THEN EmptySnapshot ELSE saved
<1>1. SnapshotSound(file)
  BY EmptySound
<1>2. /\ levels' = RestoredLevels(file.queues)
      /\ orderIndex' = RestoredIndex(file.queues)
      /\ stopOrders' = file.stopOrders /\ status' = file.status
      /\ auditLog' = file.auditLog /\ nextSequence' = file.nextSequence
  BY DEF Restart
<1> HIDE DEF file
<1>3. BookSound(levels', stopOrders', orderIndex', status', auditLog', nextSequence')
  BY <1>1, <1>2 DEF SnapshotSound
<1>4. /\ phase' = "idle" /\ incoming' = NoOrder /\ fills' = << >>
      /\ report' = NoReport /\ triggerPrices' = << >> /\ lastPrice' = NoPrice
      /\ drained' = << >> /\ ready' = << >> /\ tradeCount' = 0
  BY DEF Restart
<1>5. TypeOK' /\ NoEmptyLevel'
  <2>1. LevelsOK(levels)'
    BY <1>3 DEF BookSound
  <2>2. /\ (stopOrders \in Seq(Order))' /\ (auditLog \in Seq(Fill))' /\ (nextSequence \in Nat)'
        /\ IsMap(orderIndex, OrderIds, Sides \X Prices)'
        /\ IsMap(status, OrderIds, [state: States, filled: Int])'
    BY <1>3 DEF BookSound
  <2> QED BY <1>4, <2>1, <2>2, TypeFromParts
<1>6. TakerPriced' /\ NotCrossed'
  BY <1>3, <1>4 DEF TakerPriced, NotCrossed, BookSound
<1>7. StopsOK' /\ TakerOK' /\ PhasesOK'
  BY <1>3, <1>4 DEF StopsOK, TakerOK, PhasesOK, BookSound, Distinct
<1> QED BY <1>3, <1>5, <1>6, <1>7
        DEF BookInv, PlaceInv, IInv, BookSound, FiniteIndex, FiniteStatus


LEMMA PrunedFinite ==
  ASSUME FiniteStatus, NEW id, NEW entry, NEW index
  PROVE  IsFiniteSet(DOMAIN Pruned(With(status, id, entry), index))
<1>1. DOMAIN With(status, id, entry) = DOMAIN status \cup {id}
  BY DEF With
<1>2. DOMAIN Pruned(With(status, id, entry), index) \subseteq DOMAIN status \cup {id}
  BY <1>1, PrunedKeeps
<1> QED BY <1>2, FS_AddElement, FS_Subset DEF FiniteStatus

(* The steps of the book alone keep it sound, ... *)
LEMMA NextBook == BookInv /\ [Next]_vars => BookInv'
<1> SUFFICES ASSUME BookInv, [Next]_vars PROVE BookInv'
  OBVIOUS
<1>1. PlaceInv' /\ TotalsOK(levels')
  BY NextPlaces, NextTotals DEF BookInv
<1>2. FiniteIndex' /\ FiniteStatus'
  BY IndexStaysFinite, StatusStaysFinite DEF BookInv
<1> QED BY <1>1, <1>2 DEF BookInv

(* ... and so does an order that enters it, from a client or from the log, *)
LEMMA EnterBook ==
  ASSUME BookInv, phase = "idle", NEW order \in Requests, Enter(order),
         UNCHANGED <<fills, cascade>>
  PROVE  BookInv' /\ phase' \in {"matching", "triggering"}
<1>1. order \in Order /\ order.remaining = order.original /\ order.id \in OrderIds
  BY RequestsAreOrders DEF Requests, Order
<1>2. PlaceInv /\ IInv /\ UNCHANGED <<fills, drained, ready>> /\ phase # "matching"
  BY DEF BookInv, PlaceInv, cascade
<1>3. drained = << >> /\ ready = << >> /\ ReadyLeft(order.id)
  BY <1>2, NoneReady
<1>4. CASE Refuse(order.id)
  <2>1. IInv'
    BY <1>1, <1>2, <1>4, RefusedOK
  <2>2. phase' = "triggering"
        /\ UNCHANGED <<levels, stopOrders, orderIndex, status, incoming>>
    BY <1>4 DEF Refuse, Respond, book
  <2>3. PlaceInv'
    BY <1>1, <1>2, <1>3, <2>1, <2>2, EntryPlaces
  <2> QED BY <2>2, <2>3 DEF BookInv, FiniteIndex, FiniteStatus
<1>5. CASE Admit(order)
  <2>1. IInv'
    BY <1>1, <1>2, <1>5, AdmittedOK
  <2>2. PlaceInv'
    BY <1>1, <1>2, <1>3, <1>5, <2>1, AdmitPlaces
  <2>3. UNCHANGED <<levels, orderIndex>> /\ phase' \in {"matching", "triggering"}
    BY <1>1, <1>2, <1>5, AdmitOK
  <2>4. \/ status' = status
        \/ status' = Pruned(With(status, order.id, Entry("PendingStop", 0)), orderIndex)
    BY <1>5 DEF Admit, AcceptStop, ExpireUnfillable, StartMatching, book
  <2>5. FiniteStatus'
    BY <2>4, PrunedFinite DEF BookInv, FiniteStatus
  <2> QED BY <2>2, <2>3, <2>5 DEF BookInv, FiniteIndex
<1> QED BY <1>4, <1>5 DEF Enter

(* ... the end of a replayed request, ... *)
LEMMA ReplayNextBook ==
  ASSUME BookInv, ready = << >>, drained = << >>, ReplayNext
  PROVE  BookInv'
<1>1. /\ phase = "triggering" /\ phase' = "idle" /\ report' = NoReport
      /\ triggerPrices' = << >> /\ tradeCount' = 0
      /\ UNCHANGED <<levels, stopOrders, orderIndex, status, auditLog, nextSequence,
                     incoming, fills, lastPrice, drained, ready>>
  BY DEF ReplayNext, book
<1>2. TypeOK /\ NoEmptyLevel /\ TakerPriced /\ NotCrossed
  BY DEF BookInv, PlaceInv, IInv
<1>3. TypeOK'
  BY <1>1, <1>2 DEF TypeOK
<1>4. NoEmptyLevel' /\ TakerPriced' /\ NotCrossed'
  BY <1>1, <1>2 DEF NoEmptyLevel, TakerPriced, NotCrossed
<1>5. StopsOK' /\ TakerOK' /\ PhasesOK'
  BY <1>1 DEF BookInv, PlaceInv, StopsOK, TakerOK, PhasesOK
<1> QED BY <1>1, <1>3, <1>4, <1>5 DEF BookInv, PlaceInv, IInv, FiniteIndex, FiniteStatus

(* ... and a cancellation of whatever identifier by whatever user.         *)
LEMMA CancelOfSteps ==
  ASSUME PlaceInv, phase = "idle", NEW id, NEW user, CancelOf(id, user),
         UNCHANGED <<phase, incoming, fills, report, cascade>>
  PROVE  CancelResting \/ CancelStop \/ UNCHANGED vars
<1>1. CASE CancelAtLevel(id) /\ \E o \in RestingOrders : o.id = id
  <2>1. id \in DOMAIN orderIndex
    BY <1>1, PlacesIndexed DEF IndexAgrees
  <2> QED BY <1>1, <2>1 DEF CancelResting
<1>2. CASE \E i \in DOMAIN stopOrders : CancelStopAt(i)
  BY <1>2 DEF CancelStop
<1>3. CASE UNCHANGED book
  BY <1>3 DEF vars
<1> QED BY <1>1, <1>2, <1>3 DEF CancelOf

-----------------------------------------------------------------------------
(* The threads *)

Lines == Record \cup {NewLine}

Places == {"ready", "append", "newline", "apply", "holding", "count",
           "capture", "write", "rename", "truncate", "stopping"}

(* The mutex has one holder, or the book is idle. *)
MutexOK ==
  IF phase = "idle" THEN \A t \in Clients : pc[t] # "holding"
  ELSE \E t \in Clients : /\ pc[t] = "holding"
                          /\ \A u \in Clients : pc[u] = "holding" => u = t

(* A thread that writes or applies a request has one; nothing runs while   *)
(* the log is replayed, and no stop order is triggered.                    *)
ThreadsInv ==
  /\ mode \in {"running", "replaying"}
  /\ pc \in [Threads -> Places]
  /\ request \in [Threads -> Record \cup {NoRequest}]
  /\ \A t \in Threads : pc[t] \in {"append", "newline", "apply"} => request[t] \in Record
  /\ counted \in [Threads -> Nat] /\ DOMAIN captured = Threads
  /\ wal \in Seq(Lines) /\ unread \in Seq(Lines)
  /\ trades_since_snapshot \in 0 .. snapshot_interval_trades - 1
  /\ DOMAIN shown.status \subseteq OrderIds
  /\ mode = "replaying" =>
       (\A t \in Threads : pc[t] = "ready") /\ ready = << >> /\ drained = << >>
  /\ mode = "running" => MutexOK

(* A thread moves that neither takes nor gives back the mutex. *)
LEMMA ThreadMoves ==
  ASSUME ThreadsInv, mode = "running", NEW t \in Threads,
         NEW next \in Places \ {"holding"}, pc[t] # "holding",
         pc' = [pc EXCEPT ![t] = next], UNCHANGED phase
  PROVE  /\ pc' \in [Threads -> Places]
         /\ \A u \in Threads : pc'[u] = IF u = t THEN next ELSE pc[u]
         /\ MutexOK'
<1>1. pc \in [Threads -> Places] /\ MutexOK
  BY DEF ThreadsInv
<1>2. /\ pc' \in [Threads -> Places]
      /\ \A u \in Threads : pc'[u] = IF u = t THEN next ELSE pc[u]
  BY <1>1
<1>3. \A u \in Clients : pc'[u] = "holding" <=> pc[u] = "holding"
  BY <1>2 DEF Threads
<1> QED BY <1>1, <1>2, <1>3 DEF MutexOK

(* The steps of a request before it has the mutex. *)
LEMMA RequestThreads ==
  ASSUME BookInv, ThreadsInv, NEW t \in Clients,
         StartRequest(t) \/ AppendRecord(t) \/ AppendNewLine(t) \/ AppendFails(t)
  PROVE  ThreadsInv'
<1>1. t \in Threads
  BY DEF Threads
<1>2. mode = "running" /\ mode' = mode
  BY <1>1 DEF ThreadsInv, StartRequest, AppendRecord, AppendNewLine, AppendFails
<1>3. UNCHANGED <<phase, shown, counted, captured, unread, trades_since_snapshot>>
  BY DEF StartRequest, AppendRecord, AppendNewLine, AppendFails, vars, files, history
<1>4. \E next \in Places \ {"holding"} : /\ pc' = [pc EXCEPT ![t] = next]
                                        /\ pc[t] # "holding"
  BY DEF StartRequest, AppendRecord, AppendNewLine, AppendFails, Goto, Places
<1>5. /\ pc' \in [Threads -> Places] /\ MutexOK'
      /\ \A u \in Threads : u # t => pc'[u] = pc[u]
  BY <1>1, <1>2, <1>3, <1>4, ThreadMoves
<1>6. /\ request' \in [Threads -> Record \cup {NoRequest}]
      /\ \A u \in Threads : pc'[u] \in {"append", "newline", "apply"} => request'[u] \in Record
  <2>1. CASE StartRequest(t)
    <3>1. PICK r \in Asked : request' = [request EXCEPT ![t] = r]
      BY <2>1 DEF StartRequest
    <3>2. r \in Record
      BY DEF ThreadsInv, Asked, Record, Cancellable
    <3>3. request \in [Threads -> Record \cup {NoRequest}]
      BY DEF ThreadsInv
    <3> QED BY <1>1, <1>5, <3>1, <3>2, <3>3 DEF ThreadsInv
  <2>2. CASE AppendRecord(t) \/ AppendNewLine(t) \/ AppendFails(t)
    <3>1. UNCHANGED request
      BY <2>2 DEF AppendRecord, AppendNewLine, AppendFails
    <3>2. pc'[t] \in {"append", "newline", "apply"} => pc[t] \in {"append", "newline"}
      BY <1>1, <2>2 DEF AppendRecord, AppendNewLine, AppendFails, Goto, ThreadsInv
    <3> QED BY <1>1, <1>5, <3>1, <3>2 DEF ThreadsInv
  <2> QED BY <2>1, <2>2
<1>7. wal' \in Seq(Lines)
  <2>1. wal \in Seq(Lines)
    BY DEF ThreadsInv
  <2>2. CASE AppendRecord(t)
    <3>1. request[t] \in Lines /\ wal' = Append(wal, request[t])
      BY <1>1, <2>2 DEF AppendRecord, ThreadsInv, Lines
    <3> QED BY <2>1, <3>1
  <2>3. CASE AppendNewLine(t)
    <3>1. NewLine \in Lines /\ wal' = Append(wal, NewLine)
      BY <2>3 DEF AppendNewLine, Lines
    <3> QED BY <2>1, <3>1
  <2>4. CASE StartRequest(t) \/ AppendFails(t)
    BY <2>1, <2>4 DEF StartRequest, AppendFails, files
  <2> QED BY <2>2, <2>3, <2>4
<1> QED BY <1>2, <1>3, <1>5, <1>6, <1>7 DEF ThreadsInv

(* The steps of a snapshot, of the trade count and of the signal. *)
LEMMA SnapshotThreads ==
  ASSUME BookInv, ThreadsInv, NEW t \in Threads,
         \/ CountTrades(t) \/ Capture(t) \/ WriteTemp(t) \/ Rename(t) \/ Truncate(t)
         \/ SnapshotFails(t)
         \/ t = Main /\ Signal
  PROVE  ThreadsInv'
<1>1. mode = "running" /\ mode' = mode
  BY DEF ThreadsInv, CountTrades, Capture, WriteTemp, Rename, Truncate, SnapshotFails, Signal
<1>2. UNCHANGED <<phase, shown, request, counted, unread>>
  BY DEF CountTrades, Capture, WriteTemp, Rename, Truncate, SnapshotFails, Signal,
         vars, history
<1>3. \E next \in Places \ {"holding", "append", "newline", "apply"} :
        pc' = [pc EXCEPT ![t] = next] /\ pc[t] # "holding"
  BY DEF CountTrades, Capture, WriteTemp, Rename, Truncate, SnapshotFails, Signal,
         AfterSnapshot, Goto, Places
<1>4. PICK next \in Places \ {"holding", "append", "newline", "apply"} :
        pc' = [pc EXCEPT ![t] = next] /\ pc[t] # "holding"
  BY <1>3
<1>5. /\ pc' \in [Threads -> Places] /\ MutexOK'
      /\ \A u \in Threads : pc'[u] = IF u = t THEN next ELSE pc[u]
  BY <1>1, <1>2, <1>4, ThreadMoves
<1>6. DOMAIN captured' = Threads
  BY DEF CountTrades, Capture, WriteTemp, Rename, Truncate, SnapshotFails, Signal, ThreadsInv
<1>7. wal' \in Seq(Lines)
  <2>1. wal' = wal \/ wal' = << >>
    BY DEF CountTrades, Capture, WriteTemp, Rename, Truncate, SnapshotFails, Signal, files
  <2>2. wal \in Seq(Lines)
    BY DEF ThreadsInv
  <2>3. << >> \in Seq(Lines)
    OBVIOUS
  <2> QED BY <2>1, <2>2, <2>3
<1>8. trades_since_snapshot' \in 0 .. snapshot_interval_trades - 1
  <2>1. CASE CountTrades(t)
    <3>1. counted[t] \in Nat /\ trades_since_snapshot \in Nat
      BY DEF ThreadsInv
    <3> QED BY <2>1, <3>1, IntervalAssumption DEF CountTrades
  <2>2. CASE ~CountTrades(t)
    BY <2>2 DEF Capture, WriteTemp, Rename, Truncate, SnapshotFails, Signal, ThreadsInv
  <2> QED BY <2>1, <2>2
<1>9. \A u \in Threads : pc'[u] \in {"append", "newline", "apply"} => request'[u] \in Record
  BY <1>2, <1>4, <1>5 DEF ThreadsInv
<1> QED BY <1>1, <1>2, <1>5, <1>6, <1>7, <1>8, <1>9 DEF ThreadsInv

(* The steps under the mutex: it is taken, used and given back by one. *)
LEMMA HolderThreads ==
  ASSUME BookInv, BookInv', ThreadsInv, NEW t \in Clients,
         Submit(t) \/ Work(t) \/ ReleaseBook(t) \/ Cancel(t)
  PROVE  ThreadsInv'
<1>1. t \in Threads /\ pc \in [Threads -> Places]
  BY DEF Threads, ThreadsInv
<1>2. mode = "running" /\ mode' = mode /\ MutexOK
  BY <1>1 DEF ThreadsInv, Submit, Work, ReleaseBook, Cancel, engine
<1>3. UNCHANGED <<request, captured, wal, unread, trades_since_snapshot>>
  BY DEF Submit, Work, ReleaseBook, Cancel, engine, files
<1>4. counted' \in [Threads -> Nat]
  <2>1. tradeCount \in Nat
    BY DEF BookInv, PlaceInv, IInv, TypeOK
  <2> QED BY <1>1, <2>1 DEF Submit, Work, ReleaseBook, Cancel, engine, ThreadsInv
<1>5. DOMAIN shown'.status \subseteq OrderIds
  <2>1. DOMAIN status \subseteq OrderIds /\ DOMAIN status' \subseteq OrderIds
    BY DEF BookInv, PlaceInv, IInv, TypeOK, IsMap
  <2>2. ToSnapshot.status = status /\ ToSnapshot'.status = status'
    BY DEF ToSnapshot
  <2> QED BY <2>1, <2>2 DEF Submit, Work, ReleaseBook, Cancel, engine, history, ThreadsInv
<1>6. /\ pc' \in [Threads -> Places] /\ MutexOK'
      /\ \A u \in Threads : pc'[u] \in {"append", "newline", "apply"} => pc'[u] = pc[u]
  <2>1. CASE Submit(t)
    <3>1. phase = "idle" /\ pc' = [pc EXCEPT ![t] = "holding"] /\ Enter(request[t].order)
      BY <2>1 DEF Submit, Goto
    <3>2. phase' # "idle"
      BY <3>1 DEF Enter, Refuse, Admit, AcceptStop, ExpireUnfillable, StartMatching, Respond
    <3>3. /\ pc' \in [Threads -> Places]
          /\ \A u \in Threads : pc'[u] = IF u = t THEN "holding" ELSE pc[u]
      BY <1>1, <3>1 DEF Places
    <3> QED BY <1>2, <3>1, <3>2, <3>3 DEF MutexOK, Threads
  <2>2. CASE Work(t)
    <3>1. phase # "idle" /\ phase' # "idle"
      BY <2>2 DEF Work, FillBest, PreventSelfTrade, Finish, EndSubmit, PopTriggerPrice,
                  DrainStop, SubmitTriggered, Enter, Refuse, Admit, AcceptStop,
                  ExpireUnfillable, StartMatching, Respond
    <3>2. pc' = pc
      BY <2>2 DEF Work, engine
    <3> QED BY <1>1, <1>2, <3>1, <3>2 DEF MutexOK
  <2>3. CASE ReleaseBook(t)
    <3>1. /\ phase' = "idle" /\ phase = "triggering" /\ pc[t] = "holding"
          /\ \E next \in {"count", "ready"} : pc' = [pc EXCEPT ![t] = next]
      BY <2>3 DEF ReleaseBook, Release, Goto
    <3>2. PICK next \in {"count", "ready"} : pc' = [pc EXCEPT ![t] = next]
      BY <3>1
    <3>3. /\ pc' \in [Threads -> Places]
          /\ \A u \in Threads : pc'[u] = IF u = t THEN next ELSE pc[u]
      BY <1>1, <3>2 DEF Places
    <3>4. \A u \in Clients : pc[u] = "holding" => u = t
      BY <1>2, <3>1 DEF MutexOK
    <3>5. MutexOK'
      BY <3>1, <3>3, <3>4 DEF MutexOK, Threads
    <3> QED BY <3>3, <3>5
  <2>4. CASE Cancel(t)
    <3>1. pc[t] # "holding" /\ pc' = [pc EXCEPT ![t] = "ready"] /\ phase' = phase
      BY <2>4 DEF Cancel, Goto
    <3>2. /\ pc' \in [Threads -> Places] /\ MutexOK'
          /\ \A u \in Threads : pc'[u] = IF u = t THEN "ready" ELSE pc[u]
      BY <1>1, <1>2, <3>1, ThreadMoves DEF Places
    <3> QED BY <3>2
  <2> QED BY <2>1, <2>2, <2>3, <2>4
<1> QED BY <1>2, <1>3, <1>4, <1>5, <1>6 DEF ThreadsInv

(* A restart, and the replay of the log until it is served again. *)
LEMMA RecoveryThreads ==
  ASSUME BookInv, ThreadsInv, Restart \/ RecoveryStep
  PROVE  ThreadsInv'
<1>1. CASE Restart
  <2>1. /\ mode' = "replaying" /\ pc' = [t \in Threads |-> "ready"]
        /\ request' = [t \in Threads |-> NoRequest]
        /\ counted' = [t \in Threads |-> 0] /\ captured' = [t \in Threads |-> NoFile]
        /\ unread' = wal /\ trades_since_snapshot' = 0
        /\ ready' = << >> /\ drained' = << >> /\ UNCHANGED <<wal, shown>>
    BY <1>1 DEF Restart, files
  <2>2. 0 \in 0 .. snapshot_interval_trades - 1
    BY IntervalAssumption
  <2>3. pc' \in [Threads -> Places] /\ counted' \in [Threads -> Nat]
    BY <2>1 DEF Places
  <2> QED BY <2>1, <2>2, <2>3 DEF ThreadsInv
<1>2. CASE ReplayLine
  <2>1. UNCHANGED <<mode, pc, request, counted, captured, wal, trades_since_snapshot,
                    shown, ready, drained>>
    BY <1>2 DEF ReplayLine, files, history, vars, cascade
  <2>2. mode = "replaying"
    BY <1>2 DEF ReplayLine
  <2>3. unread' \in Seq(Lines)
    <3>1. unread \in Seq(Lines) /\ unread' = SubSeq(unread, LineEnd + 1, Len(unread))
      BY <1>2 DEF ReplayLine, ThreadsInv
    <3>2. LineEnd \in Nat
      <4>1. CASE NewLine \in Range(unread)
        <5>1. \E i \in DOMAIN unread :
                unread[i] = NewLine /\ \A j \in 1 .. i - 1 : unread[j] # NewLine
          <6> DEFINE ends == {i \in 1..Len(unread) : unread[i] = NewLine}
          <6>1. ends \in SUBSET Nat /\ ends # {} /\ DOMAIN unread = 1..Len(unread)
            BY <3>1, <4>1 DEF Range
          <6>2. PICK i \in ends : \A j \in ends : i <= j
            BY <6>1, LeastNatural
          <6>3. \A j \in 1 .. i - 1 : unread[j] # NewLine
            BY <3>1, <6>1, <6>2
          <6> QED BY <6>1, <6>2, <6>3
        <5>2. LineEnd \in DOMAIN unread
          BY <4>1, <5>1 DEF LineEnd
        <5> QED BY <3>1, <5>2
      <4>2. CASE NewLine \notin Range(unread)
        BY <3>1, <4>2 DEF LineEnd
      <4> QED BY <4>1, <4>2
    <3> QED BY <3>1, <3>2
  <2> QED BY <2>1, <2>2, <2>3 DEF ThreadsInv
<1>3. CASE ReplayWork \/ ReplayNext
  <2>1. UNCHANGED <<engine, ready, drained>> /\ mode = "replaying"
    BY <1>3 DEF ReplayWork, ReplayNext, FillBest, PreventSelfTrade, Finish, cascade
  <2> QED BY <2>1 DEF ThreadsInv, engine, files, history
<1>4. CASE Serve
  <2>1. /\ UNCHANGED <<phase, pc, request, counted, captured, wal, unread,
                       trades_since_snapshot, shown>>
        /\ mode = "replaying" /\ mode' = "running" /\ phase = "idle"
    BY <1>4 DEF Serve, vars, files, history
  <2>2. MutexOK'
    BY <2>1 DEF ThreadsInv, MutexOK, Threads
  <2> QED BY <2>1, <2>2 DEF ThreadsInv
<1> QED BY <1>1, <1>2, <1>3, <1>4 DEF RecoveryStep


-----------------------------------------------------------------------------
(* The engine as a whole *)

(* The snapshots in the hands of the threads and in the two files. *)
Saved == ({captured[t] : t \in Threads} \cup {temp, saved}) \ {NoFile}

(* Each of them is a book of a moment when the mutex was free. *)
LEMMA SavedFiles ==
  ASSUME DOMAIN captured = Threads, [EngineNext]_allVars
  PROVE  \A s \in Saved' : s \in Saved \/ (phase = "idle" /\ s = ToSnapshot)
<1>1. CASE \E t \in Threads : Capture(t)
  <2>1. PICK t \in Threads : Capture(t)
    BY <1>1
  <2>2. /\ phase = "idle" /\ captured' = [captured EXCEPT ![t] = ToSnapshot]
        /\ UNCHANGED <<temp, saved>>
    BY <2>1 DEF Capture, files
  <2>3. \A u \in Threads : captured'[u] \in {captured[u], ToSnapshot}
    BY <2>2
  <2> QED BY <2>2, <2>3 DEF Saved
<1>2. CASE \E t \in Threads : WriteTemp(t) \/ SnapshotFails(t)
  <2>1. PICK t \in Threads : WriteTemp(t) \/ SnapshotFails(t)
    BY <1>2
  <2>2. /\ captured' = [captured EXCEPT ![t] = NoFile]
        /\ temp' \in {temp, captured[t]} /\ UNCHANGED saved
    BY <2>1 DEF WriteTemp, SnapshotFails, files
  <2>3. \A u \in Threads : captured'[u] \in {captured[u], NoFile}
    BY <2>2
  <2> QED BY <2>2, <2>3 DEF Saved
<1>3. CASE \E t \in Threads : Rename(t)
  <2>1. UNCHANGED captured /\ {temp', saved'} \subseteq {temp, saved, NoFile}
    BY <1>3 DEF Rename
  <2> QED BY <2>1 DEF Saved
<1>4. CASE Crash \/ Exit
  <2>1. captured' = [t \in Threads |-> NoFile] /\ UNCHANGED <<temp, saved>>
    BY <1>4 DEF Crash, Exit, Restart, files
  <2> QED BY <2>1 DEF Saved
<1>5. CASE \/ \E t \in Clients : StartRequest(t) \/ ClientStep(t) \/ AppendFails(t)
           \/ \E t \in Threads : Truncate(t)
           \/ Signal \/ RecoveryStep \/ UNCHANGED allVars
  <2>1. UNCHANGED <<captured, temp, saved>>
    <3>1. CASE \E t \in Clients : StartRequest(t) \/ AppendFails(t)
      BY <3>1 DEF StartRequest, AppendFails, files
    <3>2. CASE \E t \in Clients : ClientStep(t)
      BY <3>2 DEF ClientStep, AppendRecord, AppendNewLine, Submit, Work, ReleaseBook,
                  Cancel, CountTrades, engine, files
    <3>3. CASE \/ \E t \in Threads : Truncate(t)
               \/ Signal \/ UNCHANGED allVars
      BY <3>3 DEF Truncate, Signal, allVars, engine, files
    <3>4. CASE RecoveryStep
      BY <3>4 DEF RecoveryStep, ReplayLine, ReplayWork, ReplayNext, Serve, engine, files
    <3> QED BY <1>5, <3>1, <3>2, <3>3, <3>4
  <2> QED BY <2>1 DEF Saved
<1> QED BY <1>1, <1>2, <1>3, <1>4, <1>5 DEF EngineNext, SnapshotStep

(* The book enters an order, or gives up the report of a replayed one. *)
Entering ==
  /\ phase = "idle" /\ UNCHANGED <<fills, cascade>>
  /\ \E order \in Requests : Enter(order)

Dropping == ReplayNext /\ ready = << >> /\ drained = << >>

(* What a step of the engine does to the book. *)
LEMMA EngineSteps ==
  ASSUME BookInv, ThreadsInv, [EngineNext]_allVars
  PROVE  Restart \/ Entering \/ Dropping \/ [Next]_vars
<1>1. ASSUME NEW t \in Clients, Submit(t)
      PROVE  Entering
  <2>1. t \in Threads
    BY DEF Threads
  <2>2. request[t] \in Record /\ request[t].type = "Submit"
    BY <1>1, <2>1 DEF Submit, ThreadsInv
  <2>3. request[t].order \in Requests
    BY <2>2 DEF Record
  <2> QED BY <1>1, <2>3 DEF Submit, Entering
<1>2. ASSUME NEW t \in Clients, Work(t) \/ ReleaseBook(t)
      PROVE  Next
  BY <1>2 DEF Work, ReleaseBook, HolderStep, Next
<1>3. ASSUME NEW t \in Clients, Cancel(t)
      PROVE  [Next]_vars
  <2>1. /\ phase = "idle" /\ CancelOf(request[t].id, request[t].user)
        /\ UNCHANGED <<phase, incoming, fills, report, cascade>>
    BY <1>3 DEF Cancel
  <2>2. CancelResting \/ CancelStop \/ UNCHANGED vars
    BY <2>1, CancelOfSteps DEF BookInv
  <2> QED BY <2>2 DEF Next
<1>4. ASSUME NEW t \in Clients,
             StartRequest(t) \/ AppendRecord(t) \/ AppendNewLine(t) \/ AppendFails(t)
               \/ CountTrades(t)
      PROVE  UNCHANGED vars
  BY <1>4 DEF StartRequest, AppendRecord, AppendNewLine, AppendFails, CountTrades
<1>5. ASSUME NEW t \in Threads, SnapshotStep(t) \/ SnapshotFails(t)
      PROVE  UNCHANGED vars
  BY <1>5 DEF SnapshotStep, Capture, WriteTemp, Rename, Truncate, SnapshotFails
<1>6. Signal \/ Serve => UNCHANGED vars
  BY DEF Signal, Serve
<1>7. ASSUME ReplayLine
      PROVE  Entering \/ [Next]_vars
  <2>1. phase = "idle" /\ unread \in Seq(Lines)
    BY <1>7 DEF ReplayLine, ThreadsInv
  <2>2. CASE LineEnd # 2
    BY <1>7, <2>2 DEF ReplayLine
  <2>3. CASE LineEnd = 2 /\ unread[1].type = "Submit"
    <3>1. Enter(unread[1].order) /\ UNCHANGED <<fills, cascade>>
      BY <1>7, <2>3 DEF ReplayLine
    <3>2. 1 \in DOMAIN unread /\ unread[1] # NewLine
      <4>1. CASE NewLine \in Range(unread)
        <5>1. PICK k \in DOMAIN unread : unread[k] = NewLine
          BY <4>1 DEF Range
        <5> DEFINE ends == {i \in 1..Len(unread) : unread[i] = NewLine}
        <5>2. ends \in SUBSET Nat /\ ends # {}
          BY <2>1, <5>1
        <5>3. PICK i \in ends : \A j \in ends : i <= j
          BY <5>2, LeastNatural
        <5>4. i \in DOMAIN unread /\ unread[i] = NewLine /\ \A j \in 1 .. i - 1 : unread[j] # NewLine
          BY <2>1, <5>3
        <5>5. /\ LineEnd \in DOMAIN unread
              /\ \A j \in 1 .. LineEnd - 1 : unread[j] # NewLine
          BY <4>1, <5>4 DEF LineEnd
        <5> QED BY <2>1, <2>3, <5>5
      <4>2. CASE NewLine \notin Range(unread)
        <5>1. LineEnd = Len(unread) + 1
          BY <4>2 DEF LineEnd
        <5>2. Len(unread) \in Nat
          BY <2>1
        <5>3. \A n \in Nat : n + 1 = 2 => n = 1
          OBVIOUS
        <5>4. Len(unread) = 1
          BY <2>3, <5>1, <5>2, <5>3, Zenon
        <5> QED BY <2>1, <4>2, <5>4 DEF Range
      <4> QED BY <4>1, <4>2
    <3>3. unread[1] \in Record
      BY <2>1, <3>2 DEF Lines
    <3>4. unread[1].order \in Requests
      BY <2>3, <3>3 DEF Record
    <3> QED BY <2>1, <3>1, <3>4 DEF Entering
  <2>4. CASE LineEnd = 2 /\ unread[1].type # "Submit"
    <3>1. /\ CancelOf(unread[1].id, unread[1].user)
          /\ UNCHANGED <<phase, incoming, fills, report, cascade>>
      BY <1>7, <2>4 DEF ReplayLine
    <3>2. CancelResting \/ CancelStop \/ UNCHANGED vars
      BY <2>1, <3>1, CancelOfSteps DEF BookInv
    <3> QED BY <3>2 DEF Next
  <2> QED BY <2>2, <2>3, <2>4
<1>8. ReplayWork => Next
  BY DEF ReplayWork, HolderStep, Next
<1>9. ReplayNext => Dropping
  BY DEF ReplayNext, Dropping, ThreadsInv
<1>10. Crash \/ Exit => Restart
  BY DEF Crash, Exit
<1>11. UNCHANGED allVars => UNCHANGED vars
  BY DEF allVars
<1> QED BY <1>1, <1>2, <1>3, <1>4, <1>5, <1>6, <1>7, <1>8, <1>9, <1>10, <1>11
        DEF EngineNext, ClientStep, RecoveryStep

(* What holds of the engine between any two of its steps. *)
EngineInv == BookInv /\ ThreadsInv /\ \A s \in Saved : SnapshotSound(s)

LEMMA EngineInitial == EngineInit => EngineInv
<1> SUFFICES ASSUME EngineInit PROVE EngineInv
  OBVIOUS
<1>1. BookInv
  <2>1. Init
    BY DEF EngineInit
  <2>2. PlaceInv /\ TotalsOK(levels)
    BY <2>1, InitPlaces DEF Init, TotalsOK, Sides
  <2>3. FiniteIndex /\ FiniteStatus
    BY <2>1, FS_EmptySet DEF Init, FiniteIndex, FiniteStatus
  <2> QED BY <2>2, <2>3 DEF BookInv
<1>2. ThreadsInv
  <2>1. /\ mode = "running" /\ phase = "idle"
        /\ pc = [t \in Threads |-> "ready"] /\ request = [t \in Threads |-> NoRequest]
        /\ counted = [t \in Threads |-> 0] /\ captured = [t \in Threads |-> NoFile]
        /\ wal = << >> /\ unread = << >> /\ trades_since_snapshot = 0
        /\ shown.status = << >>
    BY DEF EngineInit, Init, EmptySnapshot
  <2>2. 0 \in 0 .. snapshot_interval_trades - 1
    BY IntervalAssumption
  <2>3. MutexOK
    BY <2>1 DEF MutexOK, Threads
  <2>4. pc \in [Threads -> Places] /\ DOMAIN shown.status = {}
    BY <2>1 DEF Places
  <2> QED BY <2>1, <2>2, <2>3, <2>4 DEF ThreadsInv
<1>3. Saved = {}
  BY DEF EngineInit, Saved
<1> QED BY <1>1, <1>2, <1>3 DEF EngineInv

LEMMA EngineThreads ==
  ASSUME BookInv, BookInv', ThreadsInv, [EngineNext]_allVars
  PROVE  ThreadsInv'
<1>1. ASSUME NEW t \in Clients, StartRequest(t) \/ ClientStep(t) \/ AppendFails(t)
      PROVE  ThreadsInv'
  <2>1. CASE StartRequest(t) \/ AppendRecord(t) \/ AppendNewLine(t) \/ AppendFails(t)
    BY <2>1, RequestThreads
  <2>2. CASE Submit(t) \/ Work(t) \/ ReleaseBook(t) \/ Cancel(t)
    BY <2>2, HolderThreads
  <2>3. CASE CountTrades(t)
    BY <2>3, SnapshotThreads DEF Threads
  <2> QED BY <1>1, <2>1, <2>2, <2>3 DEF ClientStep
<1>2. ASSUME NEW t \in Threads, SnapshotStep(t) \/ SnapshotFails(t)
      PROVE  ThreadsInv'
  BY <1>2, SnapshotThreads DEF SnapshotStep
<1>3. CASE Signal
  BY <1>3, SnapshotThreads DEF Threads
<1>4. CASE Crash \/ Exit \/ RecoveryStep
  BY <1>4, RecoveryThreads DEF Crash, Exit
<1>5. CASE UNCHANGED allVars
  <2>1. /\ UNCHANGED <<mode, pc, request, counted, captured, wal, unread,
                       trades_since_snapshot, shown>>
        /\ UNCHANGED <<phase, ready, drained>>
    BY <1>5 DEF allVars, vars, engine, files, history, cascade
  <2> QED BY <2>1 DEF ThreadsInv, MutexOK
<1> QED BY <1>1, <1>2, <1>3, <1>4, <1>5 DEF EngineNext

LEMMA EngineInductive == EngineInv /\ [EngineNext]_allVars => EngineInv'
<1> SUFFICES ASSUME EngineInv, [EngineNext]_allVars PROVE EngineInv'
  OBVIOUS
<1>1. BookInv /\ ThreadsInv /\ \A s \in Saved : SnapshotSound(s)
  BY DEF EngineInv
<1>2. saved # NoFile => SnapshotSound(saved)
  BY <1>1 DEF Saved
<1>3. Restart \/ Entering \/ Dropping \/ [Next]_vars
  BY <1>1, EngineSteps
<1>4. BookInv'
  <2>1. CASE Restart
    BY <1>2, <2>1, RestartSound
  <2>2. CASE Entering
    BY <1>1, <2>2, EnterBook DEF Entering
  <2>3. CASE Dropping
    BY <1>1, <2>3, ReplayNextBook DEF Dropping
  <2>4. CASE [Next]_vars
    BY <1>1, <2>4, NextBook
  <2> QED BY <1>3, <2>1, <2>2, <2>3, <2>4
<1>5. ThreadsInv'
  BY <1>1, <1>4, EngineThreads
<1>6. \A s \in Saved' : SnapshotSound(s)
  <2>1. \A s \in Saved' : s \in Saved \/ (phase = "idle" /\ s = ToSnapshot)
    BY <1>1, SavedFiles DEF ThreadsInv
  <2> QED BY <1>1, <2>1, SnapshotTaken
<1> QED BY <1>4, <1>5, <1>6 DEF EngineInv


(* The status log of a snapshot counts the fills of its audit log. *)
CountsIn(log, audit) ==
  \A id \in OrderIds :
    TradedIn(id, audit) = IF id \in DOMAIN log THEN log[id].filled ELSE 0

CountsSaved == \A s \in Saved : CountsIn(s.status, s.auditLog)

EngineCounts == CountsOK /\ CountsSaved

(* What is counted stays so in the book, in the files and across restarts. *)
LEMMA EngineStaysCounted ==
  EngineInv /\ StatusRoomy /\ AuditRoomy /\ EngineCounts /\ [EngineNext]_allVars
    => EngineCounts'
<1> SUFFICES ASSUME EngineInv, StatusRoomy, AuditRoomy, EngineCounts, [EngineNext]_allVars
             PROVE  EngineCounts'
  OBVIOUS
<1>1. BookInv /\ ThreadsInv /\ CountsOK /\ \A s \in Saved : CountsIn(s.status, s.auditLog)
  BY DEF EngineInv, EngineCounts, CountsSaved
<1>2. PlaceInv /\ Roomy
  BY <1>1 DEF BookInv, Roomy
<1>3. CountsOK'
  <2>1. CASE Restart
    <3> DEFINE file == IF saved = NoFile THEN EmptySnapshot ELSE saved
    <3>1. CountsIn(file.status, file.auditLog)
      <4>1. CASE saved = NoFile
        <5>1. file.auditLog = << >> /\ DOMAIN file.status = {}
          BY <4>1 DEF EmptySnapshot
        <5> QED BY <5>1, TradedOfNone DEF CountsIn
      <4>2. CASE saved # NoFile
        BY <1>1, <4>2 DEF Saved
      <4> QED BY <4>1, <4>2
    <3>2. status' = file.status /\ auditLog' = file.auditLog /\ incoming' = NoOrder
      BY <2>1 DEF Restart
    <3> HIDE DEF file
    <3> QED BY <3>1, <3>2 DEF CountsIn, CountsOK, Counted
  <2>2. CASE Entering
    <3>1. PICK order \in Requests : Enter(order)
      BY <2>2 DEF Entering
    <3>2. order \in Order /\ order.remaining = order.original /\ phase # "matching"
      BY <2>2, RequestsAreOrders DEF Requests, Entering
    <3>3. ASSUME NEW id \in OrderIds
          PROVE  Counted(id)' = Counted(id) /\ UNCHANGED auditLog
      <4>1. CASE Admit(order)
        BY <1>2, <3>2, <4>1, AdmitCounts
      <4>2. CASE Refuse(order.id)
        BY <4>2 DEF Refuse, book, Counted
      <4> QED BY <3>1, <4>1, <4>2 DEF Enter
    <3> QED BY <1>1, <3>3 DEF CountsOK
  <2>3. CASE Dropping
    <3>1. UNCHANGED <<status, auditLog, incoming>>
      BY <2>3 DEF Dropping, ReplayNext, book
    <3> QED BY <1>1, <3>1 DEF CountsOK, Counted
  <2>4. CASE [Next]_vars
    BY <1>1, <1>2, <2>4, NextCounts
  <2> QED BY <1>1, <2>1, <2>2, <2>3, <2>4, EngineSteps
<1>4. ASSUME NEW s \in Saved'
      PROVE  CountsIn(s.status, s.auditLog)
  <2>1. CASE s \in Saved
    BY <1>1, <2>1
  <2>2. CASE phase = "idle" /\ s = ToSnapshot
    <3>1. s.status = status /\ s.auditLog = auditLog
      BY <2>2 DEF ToSnapshot
    <3>2. incoming = NoOrder
      BY <1>2, <2>2 DEF PlaceInv, IInv, TypeOK
    <3> QED BY <1>1, <3>1, <3>2 DEF CountsOK, Counted, CountsIn
  <2> QED BY <1>1, <2>1, <2>2, SavedFiles DEF ThreadsInv
<1> QED BY <1>3, <1>4 DEF EngineCounts, CountsSaved

(* The engine's variables have their types and the mutex of the book has   *)
(* one holder, whatever the threads, the signal, the errors of the files   *)
(* and the restarts do.                                                    *)
THEOREM EngineTypeCorrect == EngineSpec => []EngineTypeOK
<1>1. EngineInv => EngineTypeOK
  <2> SUFFICES ASSUME EngineInv PROVE EngineTypeOK
    OBVIOUS
  <2>1. TypeOK /\ ThreadsInv
    BY DEF EngineInv, BookInv, PlaceInv, IInv
  <2>2. Range(wal) \cup Range(unread) \subseteq Record \cup {NewLine}
    <3>1. wal \in Seq(Lines) /\ unread \in Seq(Lines)
      BY <2>1 DEF ThreadsInv
    <3>2. Range(wal) \subseteq Lines /\ Range(unread) \subseteq Lines
      BY <3>1 DEF Range
    <3> QED BY <3>2 DEF Lines
  <2>3. ASSUME mode = "running"
        PROVE  Cardinality({t \in Clients : pc[t] = "holding"})
                 = IF phase = "idle" THEN 0 ELSE 1
    <3> DEFINE holders == {t \in Clients : pc[t] = "holding"}
    <3>1. MutexOK
      BY <2>1, <2>3 DEF ThreadsInv
    <3>2. CASE phase = "idle"
      <4>1. holders = {}
        BY <3>1, <3>2 DEF MutexOK
      <4> QED BY <3>2, <4>1, FS_EmptySet
    <3>3. CASE phase # "idle"
      <4>1. PICK t \in Clients :
              pc[t] = "holding" /\ \A u \in Clients : pc[u] = "holding" => u = t
        BY <3>1, <3>3 DEF MutexOK
      <4>2. holders = {t}
        BY <4>1
      <4> HIDE DEF holders
      <4>3. Cardinality(holders) = 1
        BY <4>2, FS_Singleton
      <4> QED BY <3>3, <4>3 DEF holders
    <3> QED BY <3>2, <3>3
  <2>4. \A t \in Threads : request[t] \in Record \cup {NoRequest}
    BY <2>1 DEF ThreadsInv
  <2> QED BY <2>1, <2>2, <2>3, <2>4 DEF EngineTypeOK, ThreadsInv, Places
<1> QED BY <1>1, EngineInitial, EngineInductive, PTL DEF EngineSpec

(* Served, restored or replayed, the book is sound in itself, whatever the *)
(* log has lost, run together or holds twice: levels, totals, index and    *)
(* live orders agree, ...                                                  *)
THEOREM RestoredBookSound == EngineSpec => [](LevelsSound /\ IndexAgrees /\ LiveOnce)
<1>1. EngineInv => LevelsSound /\ IndexAgrees /\ LiveOnce
  BY PlacesSound, PlacesIndexed, PlacesDistinct DEF EngineInv, BookInv, FiniteIndex
<1> QED BY <1>1, EngineInitial, EngineInductive, PTL DEF EngineSpec

(* ... and as long as neither log has reached its cap, what is reported as *)
(* filled is what was traded, across every crash and restart.              *)
THEOREM RestoredStaysSound ==
  EngineSpec /\ [](StatusRoomy /\ AuditRoomy) => []RestoredSound
<1>1. EngineInit => EngineCounts
  <2> SUFFICES ASSUME EngineInit PROVE EngineCounts
    OBVIOUS
  <2>1. auditLog = << >> /\ DOMAIN status = {} /\ incoming = NoOrder
    BY DEF EngineInit, Init
  <2>2. Saved = {}
    BY DEF EngineInit, Saved
  <2> QED BY <2>1, <2>2, TradedOfNone DEF EngineCounts, CountsSaved, CountsOK, Counted
<1>2. EngineInv /\ EngineCounts => RestoredSound
  <2>1. EngineInv => LevelsSound /\ IndexAgrees /\ LiveOnce
    BY PlacesSound, PlacesIndexed, PlacesDistinct DEF EngineInv, BookInv, FiniteIndex
  <2>2. EngineInv /\ EngineCounts => FilledMatchesTrades
    BY CountsMatch DEF EngineInv, BookInv, EngineCounts
  <2> QED BY <2>1, <2>2 DEF RestoredSound
<1> QED BY <1>1, <1>2, EngineInitial, EngineInductive, EngineStaysCounted, PTL
        DEF EngineSpec
=============================================================================
