----------------------------- MODULE OrderBook -----------------------------
(***************************************************************************)
(* One order book of the matching engine (services/matching-engine), as    *)
(* driven by MatchingEngineCore::submit_order and ::cancel_order.           *)
(*                                                                         *)
(* The engine holds the book's mutex from the moment a submission enters   *)
(* the book until the cascade of stop orders it set off has ended.  The    *)
(* work done under the mutex is cut into steps: the admission of an order, *)
(* each turn of the match loop, the end of the loop, each last price       *)
(* handed to the stop orders, and the release of the mutex with the reply. *)
(* `phase' says where the holder is; "idle" means that the mutex is free.  *)
(*                                                                         *)
(* Quantities and prices are numbers of ticks; fields that only label a    *)
(* record (trade_id, reject_reason) are left out.                          *)
(***************************************************************************)
EXTENDS Integers, Sequences, FiniteSets, FiniteSetsExt, SequencesExt

CONSTANTS
  OrderIds, Users,
  Prices,                    \* prices that orders and stops may name
  Quantities,                \* quantities that orders may ask for
  SubmittedKinds,            \* the order kinds that clients submit
  NoPrice,                   \* Option::None of a price
  NoOrder, NoReport,
  MAX_AUDIT_LOG_FILLS,
  MAX_ORDER_STATUS_ENTRIES,
  MaxSequence                \* bound: clients' orders are admitted up to here

Sides == {"Buy", "Sell"}
StopKinds == {"StopMarket", "StopLimit"}
Kinds == {"Market", "Limit", "Ioc", "Fok", "PostOnly"} \cup StopKinds
States == {"New", "PartiallyFilled", "Filled", "Cancelled", "Expired",
           "Rejected", "PendingStop"}

ASSUME PricesAssumption ==
  /\ Prices \in SUBSET Nat
  /\ \E top \in Prices : \A p \in Prices : p <= top
ASSUME QuantitiesAssumption == Quantities \in SUBSET Nat
ASSUME KindsAssumption == SubmittedKinds \in SUBSET Kinds
ASSUME NoPriceAssumption == NoPrice \notin Nat
ASSUME BoundsAssumption ==
  /\ MAX_AUDIT_LOG_FILLS \in Nat
  /\ MAX_ORDER_STATUS_ENTRIES \in Nat
  /\ MaxSequence \in Nat

Order == [id: OrderIds, user: Users, side: Sides, kind: Kinds,
          price: Prices \cup {NoPrice}, stop: Prices \cup {NoPrice},
          original: Nat, remaining: Nat, sequence: Nat]

Fill == [maker: OrderIds, taker: OrderIds, makerUser: Users,
         takerUser: Users, price: Prices, quantity: Nat]

Level == [orders: Seq(Order), total: Int]

Report == [id: OrderIds, accepted: BOOLEAN, status: States, fills: Seq(Fill)]

ASSUME SentinelsAssumption == NoOrder \notin Order /\ NoReport \notin Report

VARIABLES
  levels,          \* bids and asks: per side, a map from price to level
  stopOrders,      \* stop_orders, in order of arrival
  orderIndex,      \* order_index: where each resting order is
  status,          \* status: the state and filled quantity of each order
  auditLog,        \* audit_log: the fills, oldest first
  nextSequence,    \* next_sequence
  phase,           \* where the holder of the mutex is
  incoming,        \* the order in the match loop
  fills,           \* its fills so far
  report,          \* the reply of the client's submission, once known
  triggerPrices,   \* trigger_prices: last prices not yet given to the stops
  lastPrice,       \* the last price that trigger_stops was given
  drained,         \* stop orders it has still to look at
  ready,           \* triggered stop orders not yet submitted
  tradeCount       \* trade_count: fills of this submission and its cascade

book == <<levels, stopOrders, orderIndex, status, auditLog, nextSequence>>
cascade == <<triggerPrices, lastPrice, drained, ready, tradeCount>>
vars == <<book, phase, incoming, fills, report, cascade>>

-----------------------------------------------------------------------------
(* Maps *)

IsMap(f, S, T) == DOMAIN f \subseteq S /\ f \in [DOMAIN f -> T]

With(f, key, value) ==
  [k \in DOMAIN f \cup {key} |-> IF k = key THEN value ELSE f[k]]

Without(f, keys) == [k \in DOMAIN f \ keys |-> f[k]]

-----------------------------------------------------------------------------
(* Orders and levels *)

Opposite(side) == IF side = "Buy" THEN "Sell" ELSE "Buy"

RequiresPrice(kind) == kind \in {"Limit", "StopLimit", "Ioc", "Fok", "PostOnly"}

(* Mutant of Crosses: an order that meets a price exactly does not trade.  *)
CrossesStrictly(order, price) ==
  \/ order.kind = "Market"
  \/ /\ order.price # NoPrice
     /\ IF order.side = "Buy" THEN order.price > price ELSE order.price < price

(* Whether an order may trade at a resting price. *)
Crosses(order, price) ==
  \/ order.kind = "Market"
  \/ /\ order.price # NoPrice
     /\ IF order.side = "Buy" THEN order.price >= price
                              ELSE order.price <= price

(* Mutant of BestPrices: each map is read from its wrong end. *)
WorstPrices(side) ==
  {p \in DOMAIN levels[side] :
     \A q \in DOMAIN levels[side] : IF side = "Sell" THEN p >= q ELSE p <= q}

(* The best price of a side: the lowest ask or the highest bid, if any. *)
BestPrices(side) ==
  {p \in DOMAIN levels[side] :
     \A q \in DOMAIN levels[side] : IF side = "Sell" THEN p <= q ELSE p >= q}

WouldCross(order) ==
  \E price \in BestPrices(Opposite(order.side)) : Crosses(order, price)

Resting(side) ==
  UNION {Range(levels[side][p].orders) : p \in DOMAIN levels[side]}

(* What a fill-or-kill order counts on: everything it crosses except the   *)
(* orders of its own user.                                                 *)
AvailableCrossingQuantity(order) ==
  MapThenSumSet(LAMBDA o : o.remaining,
    {o \in Resting(Opposite(order.side)) :
       o.user # order.user /\ Crosses(order, o.price)})

(* Mutant of Pruned: only the orders in the levels are spared. *)
PrunedToResting(log, index) ==
  IF Cardinality(DOMAIN log) <= MAX_ORDER_STATUS_ENTRIES
  THEN log
  ELSE Without(log, DOMAIN log \ DOMAIN index)

(* The status log, rid of its closed orders once it is over its size. *)
Pruned(log, index) ==
  IF Cardinality(DOMAIN log) <= MAX_ORDER_STATUS_ENTRIES
  THEN log
  ELSE Without(log, {id \in DOMAIN log :
         /\ id \notin DOMAIN index
         /\ log[id].state \notin {"New", "PartiallyFilled", "PendingStop"}})

(* The audit log, cut to its newest fills. *)
PrunedAudit(log) ==
  IF Len(log) > MAX_AUDIT_LOG_FILLS
  THEN SubSeq(log, Len(log) - MAX_AUDIT_LOG_FILLS + 1, Len(log))
  ELSE log

Entry(state, filled) == [state |-> state, filled |-> filled]

(* Mutant of FilledQuantity: what was asked for. *)
AskedQuantity(order) == order.original

FilledQuantity(order) == order.original - order.remaining

(* Mutant of Requeued: a level stays when its last order leaves. *)
RequeuedForGood(side, price, orders, total) ==
  [levels EXCEPT ![side] =
     With(@, price, [orders |-> orders, total |-> total])]

(* A level after a change of its queue; a level without orders is removed. *)
Requeued(side, price, orders, total) ==
  [levels EXCEPT ![side] =
     IF orders = << >> THEN Without(@, {price})
     ELSE With(@, price, [orders |-> orders, total |-> total])]

-----------------------------------------------------------------------------
Init ==
  /\ levels = [side \in Sides |-> << >>]
  /\ stopOrders = << >>
  /\ orderIndex = << >>
  /\ status = << >>
  /\ auditLog = << >>
  /\ nextSequence = 0
  /\ phase = "idle"
  /\ incoming = NoOrder
  /\ fills = << >>
  /\ report = NoReport
  /\ triggerPrices = << >>
  /\ lastPrice = NoPrice
  /\ drained = << >>
  /\ ready = << >>
  /\ tradeCount = 0

(* The end of one OrderBook::submit.  The first report is the client's;    *)
(* those of triggered stop orders are dropped.                             *)
Respond(id, accepted, state, trades) ==
  /\ phase' = "triggering"
  /\ report' = IF report = NoReport
               THEN [id |-> id, accepted |-> accepted, status |-> state,
                     fills |-> trades]
               ELSE report

-----------------------------------------------------------------------------
(* OrderBook::submit up to its match loop *)

(* Mutant of Duplicate: only the resting orders are looked up. *)
DuplicateOfResting(order) == order.id \in DOMAIN orderIndex

Duplicate(order) == order.id \in DOMAIN status \cup DOMAIN orderIndex

Malformed(order) ==
  \/ order.remaining <= 0
  \/ RequiresPrice(order.kind) /\ order.price = NoPrice
  \/ order.kind \in StopKinds /\ order.stop = NoPrice

Refused(order) ==
  \/ Duplicate(order)
  \/ Malformed(order)
  \/ order.kind = "PostOnly" /\ WouldCross(order)

Unfillable(order) ==
  order.kind = "Fok" /\ AvailableCrossingQuantity(order) < order.remaining

Refuse(id) ==
  /\ Respond(id, FALSE, "Rejected", << >>)
  /\ UNCHANGED <<book, incoming>>

AcceptStop(order) ==
  /\ order.kind \in StopKinds
  /\ nextSequence' = nextSequence + 1
  /\ stopOrders' = Append(stopOrders, [order EXCEPT !.sequence = nextSequence'])
  /\ orderIndex' = orderIndex
  /\ status' = Pruned(With(status, order.id, Entry("PendingStop", 0)),
                    orderIndex)
  /\ Respond(order.id, TRUE, "PendingStop", << >>)
  /\ UNCHANGED <<levels, auditLog, incoming>>

(* A fill-or-kill order that cannot be filled expires without a trace in   *)
(* the status log.                                                         *)
ExpireUnfillable(order) ==
  /\ Unfillable(order)
  /\ Respond(order.id, TRUE, "Expired", << >>)
  /\ UNCHANGED <<book, incoming>>

StartMatching(order) ==
  /\ order.kind \notin StopKinds
  /\ ~Unfillable(order)
  /\ nextSequence' = nextSequence + 1
  /\ incoming' = [order EXCEPT !.sequence = nextSequence']
  /\ phase' = "matching"
  /\ UNCHANGED <<levels, stopOrders, orderIndex, status, auditLog, report>>

Admit(order) ==
  /\ ~Refused(order)
  /\ AcceptStop(order) \/ ExpireUnfillable(order) \/ StartMatching(order)

(* OrderBook::submit is called: refused, or admitted. *)
Enter(order) == IF Refused(order) THEN Refuse(order.id) ELSE Admit(order)

(* What clients may ask for; a price a kind has no use for is left out. *)
Requests ==
  {order \in [id: OrderIds, user: Users, side: Sides, kind: SubmittedKinds,
              price: Prices \cup {NoPrice}, stop: Prices \cup {NoPrice},
              original: Quantities, remaining: Quantities, sequence: {0}] :
     /\ order.remaining = order.original
     /\ order.kind \notin StopKinds => order.stop = NoPrice
     /\ ~RequiresPrice(order.kind) => order.price = NoPrice}

(* A client's order is admitted, as long as the bound allows. *)
SubmitOrder ==
  /\ phase = "idle"
  /\ nextSequence < MaxSequence
  /\ \E order \in Requests : Admit(order)
  /\ UNCHANGED <<fills, cascade>>

(* A client's order is refused. *)
RefuseOrder ==
  /\ phase = "idle"
  /\ \E id \in {order.id : order \in {r \in Requests : Refused(r)}} : Refuse(id)
  /\ UNCHANGED <<fills, cascade>>

-----------------------------------------------------------------------------
(* The match loop of OrderBook::submit *)

(* One fill against the oldest order of the best level. *)
FillBest ==
  /\ phase = "matching"
  /\ incoming.remaining > 0
  /\ \E price \in BestPrices(Opposite(incoming.side)) :
       LET side     == Opposite(incoming.side)
           level    == levels[side][price]
           resting  == Head(level.orders)
           quantity == Min({incoming.remaining, resting.remaining})
           left     == resting.remaining - quantity
           fill     == [maker |-> resting.id, taker |-> incoming.id,
                        makerUser |-> resting.user, takerUser |-> incoming.user,
                        price |-> price, quantity |-> quantity]
       IN /\ Crosses(incoming, price)
          /\ resting.user # incoming.user
          /\ incoming' = [incoming EXCEPT !.remaining = @ - quantity]
          /\ levels' = Requeued(side, price,
                         IF left = 0 THEN Tail(level.orders)
                         ELSE [level.orders EXCEPT ![1].remaining = left],
                         level.total - quantity)
          /\ fills' = Append(fills, fill)
          /\ auditLog' = Append(auditLog, fill)
          /\ orderIndex' = IF left = 0 THEN Without(orderIndex, {resting.id})
                           ELSE orderIndex
          /\ status' = IF left = 0
                       THEN With(status, resting.id,
                                 Entry("Filled", resting.original))
                       ELSE Pruned(With(status, resting.id,
                              Entry("PartiallyFilled", resting.original - left)),
                              orderIndex')
  /\ UNCHANGED <<stopOrders, nextSequence, phase, report, cascade>>

(* Mutant of EndSubmit: fills of triggered orders trigger nothing. *)
EndSubmitOnce(state, accepted) ==
  /\ Respond(incoming.id, accepted, state, fills)
  /\ triggerPrices' = IF report = NoReport
                      THEN [i \in DOMAIN fills |-> fills[i].price]
                      ELSE triggerPrices
  /\ tradeCount' = tradeCount + Len(fills)
  /\ incoming' = NoOrder
  /\ fills' = << >>

(* One submit is over: its last prices join those waiting for the stops. *)
EndSubmit(state, accepted) ==
  /\ Respond(incoming.id, accepted, state, fills)
  /\ triggerPrices' = triggerPrices \o [i \in DOMAIN fills |-> fills[i].price]
  /\ tradeCount' = tradeCount + Len(fills)
  /\ incoming' = NoOrder
  /\ fills' = << >>

(* The best level's oldest order is the taker's own: matching stops. *)
PreventSelfTrade ==
  /\ phase = "matching"
  /\ incoming.remaining > 0
  /\ \E price \in BestPrices(Opposite(incoming.side)) :
       /\ Crosses(incoming, price)
       /\ Head(levels[Opposite(incoming.side)][price].orders).user = incoming.user
  /\ LET state == IF fills = << >> THEN "Rejected" ELSE "PartiallyFilled"
     IN /\ status' = With(status, incoming.id,
                          Entry(state, FilledQuantity(incoming)))
        /\ EndSubmit(state, fills # << >>)
  /\ UNCHANGED <<levels, stopOrders, orderIndex, auditLog, nextSequence,
                 lastPrice, drained, ready>>

(* Mutant of Rests: a market order is not told apart. *)
RestsUnlessImmediate(order) ==
  order.remaining > 0 /\ order.kind \notin {"Ioc", "Fok"}

(* Whether what is left of the order joins the book. *)
Rests(order) == order.remaining > 0 /\ order.kind \notin {"Market", "Ioc", "Fok"}

FinalState(order) ==
  CASE order.remaining = 0 -> "Filled"
    [] order.remaining > 0 /\ order.kind \in {"Market", "Ioc"} ->
         IF fills = << >> THEN "Rejected" ELSE "PartiallyFilled"
    [] order.remaining > 0 /\ order.kind = "Fok" -> "Expired"
    [] Rests(order) -> IF fills = << >> THEN "New" ELSE "PartiallyFilled"

(* Mutant of QueueAt: a new level replaces the one that is there. *)
QueueAtFresh(side, price) == [orders |-> << >>, total |-> 0]

QueueAt(side, price) ==
  IF price \in DOMAIN levels[side] THEN levels[side][price]
  ELSE [orders |-> << >>, total |-> 0]

(* Nothing is left to match: the order is filled, dropped or rested. *)
Finish ==
  /\ phase = "matching"
  /\ incoming.remaining > 0 => ~WouldCross(incoming)
  /\ IF Rests(incoming)
     THEN LET queue == QueueAt(incoming.side, incoming.price)
          IN /\ levels' = Requeued(incoming.side, incoming.price,
                            Append(queue.orders, incoming),
                            queue.total + incoming.remaining)
             /\ orderIndex' = With(orderIndex, incoming.id,
                                   <<incoming.side, incoming.price>>)
     ELSE UNCHANGED <<levels, orderIndex>>
  /\ status' = Pruned(With(status, incoming.id,
                 Entry(FinalState(incoming),
                       FilledQuantity(incoming))), orderIndex')
  /\ auditLog' = PrunedAudit(auditLog)
  /\ EndSubmit(FinalState(incoming), TRUE)
  /\ UNCHANGED <<stopOrders, nextSequence, lastPrice, drained, ready>>

-----------------------------------------------------------------------------
(* The cascade of stop orders in submit_order and trigger_stops *)

Triggered(stop, price) ==
  IF stop.side = "Buy" THEN price >= stop.stop ELSE price <= stop.stop

(* The newest last price is popped, and the stop orders are drained. *)
PopTriggerPrice ==
  /\ phase = "triggering"
  /\ ready = << >> /\ drained = << >>
  /\ triggerPrices # << >>
  /\ lastPrice' = triggerPrices[Len(triggerPrices)]
  /\ triggerPrices' = SubSeq(triggerPrices, 1, Len(triggerPrices) - 1)
  /\ drained' = stopOrders
  /\ stopOrders' = << >>
  /\ UNCHANGED <<levels, orderIndex, status, auditLog, nextSequence, phase,
                 incoming, fills, report, ready, tradeCount>>

(* The next drained stop order is triggered, or kept. *)
DrainStop ==
  /\ phase = "triggering"
  /\ drained # << >>
  /\ drained' = Tail(drained)
  /\ LET stop == Head(drained)
     IN IF Triggered(stop, lastPrice)
        THEN /\ ready' = Append(ready, stop)
             /\ status' = Without(status, {stop.id})
             /\ UNCHANGED stopOrders
        ELSE /\ stopOrders' = Append(stopOrders, stop)
             /\ UNCHANGED <<ready, status>>
  /\ UNCHANGED <<levels, orderIndex, auditLog, nextSequence, phase, incoming,
                 fills, report, triggerPrices, lastPrice, tradeCount>>

(* Mutant of SubmitTriggered: the order is not taken from the list. *)
SubmitTriggeredAgain ==
  /\ phase = "triggering"
  /\ ready # << >> /\ drained = << >>
  /\ LET order == [Head(ready) EXCEPT
                     !.kind = IF @ = "StopMarket" THEN "Market" ELSE "Limit"]
     IN Enter(order)
  /\ ready' = ready
  /\ UNCHANGED <<fills, triggerPrices, lastPrice, drained, tradeCount>>

(* The next triggered stop order is submitted as the order it stood for. *)
SubmitTriggered ==
  /\ phase = "triggering"
  /\ ready # << >> /\ drained = << >>
  /\ LET order == [Head(ready) EXCEPT
                     !.kind = IF @ = "StopMarket" THEN "Market" ELSE "Limit"]
     IN Enter(order)
  /\ ready' = Tail(ready)
  /\ UNCHANGED <<fills, triggerPrices, lastPrice, drained, tradeCount>>

(* The mutex is released and the client's report returned. *)
Release ==
  /\ phase = "triggering"
  /\ ready = << >> /\ drained = << >>
  /\ triggerPrices = << >>
  /\ phase' = "idle"
  /\ report' = NoReport
  /\ lastPrice' = NoPrice
  /\ tradeCount' = 0
  /\ UNCHANGED <<book, incoming, fills, triggerPrices, drained, ready>>

-----------------------------------------------------------------------------
(* OrderBook::cancel, asked by the order's own user.  A request that finds *)
(* no such order of that user changes nothing.                             *)

(* The order with this identifier leaves its level, ... *)
CancelAtLevel(id) ==
  LET side  == orderIndex[id][1]
      price == orderIndex[id][2]
      level == levels[side][price]
  IN /\ price \in DOMAIN levels[side]
     /\ \E i \in DOMAIN level.orders :
          LET order == level.orders[i]
          IN /\ order.id = id
             /\ levels' = Requeued(side, price, RemoveAt(level.orders, i),
                                   level.total - order.remaining)
             /\ orderIndex' = Without(orderIndex, {id})
             /\ status' = Pruned(With(status, id,
                            Entry("Cancelled", FilledQuantity(order))),
                            orderIndex')
     /\ UNCHANGED <<stopOrders, auditLog, nextSequence>>

(* ... or the i-th stop order the list of stop orders. *)
CancelStopAt(i) ==
  LET order == stopOrders[i]
  IN /\ order.id \notin DOMAIN orderIndex
     /\ stopOrders' = RemoveAt(stopOrders, i)
     /\ orderIndex' = orderIndex
     /\ status' = Pruned(With(status, order.id,
                    Entry("Cancelled", FilledQuantity(order))), orderIndex)
     /\ UNCHANGED <<levels, auditLog, nextSequence>>

CancelResting ==
  /\ phase = "idle"
  /\ \E id \in DOMAIN orderIndex : CancelAtLevel(id)
  /\ UNCHANGED <<phase, incoming, fills, report, cascade>>

CancelStop ==
  /\ phase = "idle"
  /\ \E i \in DOMAIN stopOrders : CancelStopAt(i)
  /\ UNCHANGED <<phase, incoming, fills, report, cascade>>

-----------------------------------------------------------------------------
(* What the holder of the mutex does on its own. *)
HolderStep ==
  \/ FillBest \/ PreventSelfTrade \/ Finish
  \/ PopTriggerPrice \/ DrainStop \/ SubmitTriggered \/ Release

Next == SubmitOrder \/ RefuseOrder \/ HolderStep \/ CancelResting \/ CancelStop

Spec == Init /\ [][Next]_vars

(* A thread that holds the mutex is scheduled until it releases it: there  *)
(* is no wait inside the critical section.                                 *)
FairSpec == Spec /\ WF_vars(HolderStep)

-----------------------------------------------------------------------------
(* Properties *)

RestingOrders == Resting("Buy") \cup Resting("Sell")

(* The variables have the types of the OrderBook struct and of the locals  *)
(* of submit_order, and each phase has the locals it needs.                *)
TypeOK ==
  /\ levels = [side \in Sides |-> levels[side]]
  /\ \A side \in Sides : IsMap(levels[side], Prices, Level)
  /\ stopOrders \in Seq(Order)
  /\ IsMap(orderIndex, OrderIds, Sides \X Prices)
  /\ IsMap(status, OrderIds, [state: States, filled: Int])
  /\ auditLog \in Seq(Fill)
  /\ nextSequence \in Nat
  /\ phase \in {"idle", "matching", "triggering"}
  /\ incoming \in Order \cup {NoOrder}
  /\ fills \in Seq(Fill)
  /\ report \in Report \cup {NoReport}
  /\ triggerPrices \in Seq(Prices)
  /\ lastPrice \in Prices \cup {NoPrice}
  /\ drained \in Seq(Order)
  /\ ready \in Seq(Order)
  /\ tradeCount \in Nat
  /\ phase = "matching" <=> incoming # NoOrder

(* Between two submissions no bid reaches an ask (nor at any other time,   *)
(* for an order only rests once it crosses nothing).                       *)
NotCrossed ==
  \A bid \in DOMAIN levels["Buy"], ask \in DOMAIN levels["Sell"] : bid < ask

(* Each level that depth() and the match loop see has orders, all of them  *)
(* with something left, and its total_quantity is what they have left.     *)
LevelsSound ==
  \A side \in Sides : \A price \in DOMAIN levels[side] :
    LET level == levels[side][price]
    IN /\ level.orders # << >>
       /\ \A i \in DOMAIN level.orders :
            /\ level.orders[i].remaining > 0
            /\ level.orders[i].price = price
            /\ level.orders[i].side = side
       /\ level.total = FoldLeft(LAMBDA sum, o : sum + o.remaining, 0,
                                 level.orders)

(* order_index holds exactly the resting orders, each at its place, so     *)
(* that a cancellation finds every live order and a restored snapshot      *)
(* (restore_level rebuilds the index) is the book that was saved.          *)
IndexAgrees ==
  /\ DOMAIN orderIndex = {o.id : o \in RestingOrders}
  /\ \A o \in RestingOrders : orderIndex[o.id] = <<o.side, o.price>>

(* An identifier names one live order at most: the duplicate check of      *)
(* submit is enough even after prune_status_log has forgotten closed ones. *)
LiveOnce ==
  LET live == RestingOrders \cup Range(stopOrders) \cup Range(drained)
              \cup Range(ready) \cup ({incoming} \ {NoOrder})
      count == Cardinality(RestingOrders) + Len(stopOrders) + Len(drained)
               + Len(ready) + IF incoming = NoOrder THEN 0 ELSE 1
  IN Cardinality({o.id : o \in live}) = count

(* The status log knows every live order and what was filled of it, across *)
(* partial fills and prunings.                                             *)
LiveStatusKnown ==
  /\ \A o \in RestingOrders :
       /\ o.id \in DOMAIN status
       /\ status[o.id] = Entry(IF o.remaining = o.original THEN "New"
                               ELSE "PartiallyFilled", o.original - o.remaining)
  /\ \A stop \in Range(stopOrders) :
       stop.id \in DOMAIN status /\ status[stop.id] = Entry("PendingStop", 0)

(* However closed orders are forgotten and their identifiers come back,    *)
(* the live ones stay distinct and known.                                  *)
LiveKnown == LiveOnce /\ LiveStatusKnown

(* What the audit log says was traded for an order, as maker or taker. *)
Traded(id) ==
  FoldLeft(LAMBDA sum, f : IF id \in {f.maker, f.taker} THEN sum + f.quantity
                           ELSE sum, 0, auditLog)

(* Every quantity that the status log reports as filled was traded, and    *)
(* every trade is in the filled quantities: nothing is filled twice, lost  *)
(* by a cancellation or by the end of an order.  (While no log is pruned.) *)
FilledMatchesTrades ==
  /\ \A id \in DOMAIN status : status[id].filled = Traded(id)
  /\ incoming # NoOrder =>
       incoming.original - incoming.remaining = Traded(incoming.id)

(* When the reply is due, no stop order is left that one of the trades of  *)
(* this submission or of its cascade should have triggered, whatever the   *)
(* order in which the last prices were popped.  (While no log is pruned.)  *)
NoStopMissed ==
  phase = "triggering" /\ ready = << >> /\ drained = << >>
    /\ triggerPrices = << >> =>
    \A i \in Len(auditLog) - tradeCount + 1 .. Len(auditLog) :
      \A stop \in Range(stopOrders) : ~Triggered(stop, auditLog[i].price)

Closed == {"Filled", "Cancelled", "Expired", "Rejected"}

(* A closed order stays closed, with the quantity it had, as long as the   *)
(* log remembers it; an open one never loses a fill.                       *)
ClosedStaysClosed ==
  [][\A id \in DOMAIN status \cap DOMAIN status' :
       /\ status[id].state \in Closed => status'[id] = status[id]
       /\ status'[id].filled >= status[id].filled]_vars

(* A fill-or-kill order is filled in full or not at all.  The test         *)
(* fok_expires_without_full_available_quantity states it; the code breaks  *)
(* it, for it counts on orders that lie behind one of the user's own.      *)
FokAllOrNothing ==
  [][incoming # NoOrder /\ incoming'= NoOrder /\ incoming.kind = "Fok"
       => fills = << >> \/ incoming.remaining = 0]_vars

(* Every submission ends: the match loop and the cascade of stop orders    *)
(* cannot run for ever, so the mutex is released and the client answered.  *)
EveryOrderAnswered == phase # "idle" ~> phase = "idle"

-----------------------------------------------------------------------------
(* The book implements strict price-time priority. *)

Ticket(order) == [id |-> order.id, user |-> order.user, side |-> order.side,
                  price |-> order.price, remaining |-> order.remaining,
                  sequence |-> order.sequence]

Priority == INSTANCE PriceTimePriority WITH
  open <- {Ticket(o) : o \in RestingOrders},
  taker <- IF incoming = NoOrder THEN NoOrder
           ELSE [Ticket(incoming) EXCEPT
                   !.price = IF incoming.kind = "Market" THEN NoPrice ELSE @]

ASSUME TicketsAssumption == NoOrder \notin Priority!Ticket

(* Levels, queues and index together do what a plain set of open orders    *)
(* served by price and then by time of arrival does.                       *)
ImplementsPriceTimePriority == Priority!Spec
=============================================================================
