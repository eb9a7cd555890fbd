------------------------------ MODULE Trading ------------------------------
(***************************************************************************)
(* TradingService (services/trading-service): the life of an order across  *)
(* the database, the wallet and the matching engine.                       *)
(*                                                                         *)
(* A request runs from one await to the next; between them others run.  It *)
(* saves the order, locks what the order may cost, submits it (the gRPC    *)
(* client tries again when the call fails), settles the reported fills one *)
(* by one, each followed by the update of the maker, records the order and *)
(* adds it to the list of resting orders.  No transaction spans the steps. *)
(* The wallet is Ledger, one operation at a time; the engine is what       *)
(* OrderBook does between two requests.  Base amounts are units, quote     *)
(* amounts are ten-thousandths, as fees are in basis points.               *)
(***************************************************************************)
EXTENDS Ledger, FiniteSets

CONSTANTS
  AskedOrders,     \* [user, side, kind, price, quantity] that clients place
  NoPrice,
  MaxRetries,      \* of a gRPC call
  MaxOrders, MaxInFlight, MaxCancels, MaxFaults    \* bounds

Pair == CHOOSE p \in Pairs : TRUE
Scale == 10000
MakerFeeBps == 2
TakerFeeBps == 4

(* What a client asks for. *)
PlaceOrderDto ==
  [user : Users, side : {"Buy", "Sell"}, kind : {"Limit", "Ioc", "Market"},
   price : Nat \cup {NoPrice}, quantity : Nat \ {0}]

ASSUME OrdersAssumption == Cardinality(Pairs) = 1 /\ AskedOrders \subseteq PlaceOrderDto
ASSUME BoundsAssumption == MaxOrders \in Nat

VARIABLES
  asked,           \* the placed orders, in the order of their rows
  rows,            \* per order: [filled, status] in the orders table
  memory,          \* per order: [filled, locked, status] of its StoredOrder
  list,            \* this.orders: orders that may still trade
  place,           \* per order: where its placement is
  cancel,          \* per order: where its cancellation is
  left,            \* engine: what rests in the book, per order
  seen,            \* engine: submitted orders, in order of arrival
  traded,          \* engine: its trades
  settled,         \* the trades that the wallet has settled
  disturbed,       \* history: orders handled by two requests at once, or cut
  restarted,       \* history: the service has been restarted
  cancels, faults                                  \* counters for the bounds

database == <<asked, rows>>
local == <<memory, list>>
engine == <<left, seen, traded>>
counters == <<restarted, cancels, faults>>
vars == <<database, local, place, cancel, engine, settled, disturbed, counters,
          accounts, active>>

Ids == 1..MaxOrders
Order(o) == asked[o]
Placed == DOMAIN asked

Open == {"New", "PartiallyFilled"}
Statuses == Open \cup {"Filled", "Cancelled", "Rejected"}

(* A row of the orders table, an order of the local list, a fill. *)
OrderEntity == [filled : Nat, status : Statuses]
StoredOrder == [filled : Nat, locked : Int, status : Statuses]
MatchFill == [maker : Ids, taker : Ids, price : Nat, quantity : Nat \ {0}]

NoPlacement == [at |-> "none", fills |-> << >>, status |-> "New", attempts |-> 0,
                pending |-> [filled |-> 0, status |-> "New"], release |-> 0]
NoCancel == [at |-> "none", attempts |-> 0, release |-> 0]

Init ==
  /\ LedgerInit
  /\ asked = << >>
  /\ rows = [o \in Ids |-> [filled |-> 0, status |-> "New"]]
  /\ memory = [o \in Ids |-> [filled |-> 0, locked |-> 0, status |-> "New"]]
  /\ list = << >>
  /\ place = [o \in Ids |-> NoPlacement]
  /\ cancel = [o \in Ids |-> NoCancel]
  /\ left = [o \in Ids |-> 0] /\ seen = << >> /\ traded = {}
  /\ settled = {} /\ disturbed = {}
  /\ restarted = FALSE /\ cancels = 0 /\ faults = 0

-----------------------------------------------------------------------------
(* Amounts *)

Sides(o) == Order(o).side
LockedAsset(o) == IF Sides(o) = "Buy" THEN Pair[2] ELSE Pair[1]

(* consumedLockForFill: what a quantity costs, the fee included. *)
Cost(o, price, quantity, bps) ==
  IF Sides(o) = "Sell" THEN quantity ELSE price * quantity * (Scale + bps)

Lockable(o) == Sides(o) = "Sell" \/ Order(o).price # NoPrice

(* Mutant of RemainingLock: of the whole order. *)
WholeLock(o, filled) == Cost(o, Order(o).price, Order(o).quantity, TakerFeeBps)

RemainingLock(o, filled) ==
  IF Lockable(o)
  THEN Cost(o, Order(o).price, Order(o).quantity - filled, TakerFeeBps)
  ELSE 0

EstimateLockAmount(o) == Cost(o, Order(o).price, Order(o).quantity, TakerFeeBps)

(* The members of a set, each at the place that those before it leave. *)
InOrder(S, Before(_, _)) ==
  [i \in 1..Cardinality(S) |->
     CHOOSE m \in S : Cardinality({n \in S : Before(n, m)}) = i - 1]

Executed(o, trades) ==
  MapThenSumSet(LAMBDA t : t.quantity,
                {t \in trades : t.maker = o \/ t.taker = o})

-----------------------------------------------------------------------------
(* The wallet service, over HTTP: it does the whole operation or refuses it. *)

Granted(op) ==
  /\ \A u \in Range(op.users) : active[u]
  /\ \A w \in Wallets : AfterAll(op)[w].available >= 0 /\ AfterAll(op)[w].locked >= 0

(* unlockBalance asks for nothing unless the amount is positive. *)
UnlockBalance(o, amount) ==
  IF amount <= 0 THEN {} ELSE {Unlock(Order(o).user, LockedAsset(o), amount)}

(* calculateFee *)
FeeOf(t, o) == t.price * t.quantity * (IF o = t.maker THEN MakerFeeBps ELSE TakerFeeBps)

(* The settlement of a trade; the fees are paid in the quote asset. *)
Settlement(t) ==
  LET seller == IF Sides(t.maker) = "Sell" THEN t.maker ELSE t.taker
      buyer  == IF seller = t.maker THEN t.taker ELSE t.maker
  IN SettleTrade(Order(seller).user, Order(buyer).user, Order(t.maker).user,
                 Order(t.taker).user, Pair, t.price * Scale, t.quantity,
                 <<FeeOf(t, seller), FeeOf(t, buyer)>>)

-----------------------------------------------------------------------------
(* The engine between two requests (OrderBook says how it gets there) *)

Crosses(o, m) ==
  \/ Order(o).kind = "Market"
  \/ IF Sides(o) = "Buy" THEN Order(m).price <= Order(o).price
     ELSE Order(m).price >= Order(o).price

Arrival(m) == CHOOSE i \in DOMAIN seen : seen[i] = m

ServedBefore(m, n) ==
  \/ IF Sides(m) = "Sell" THEN Order(m).price < Order(n).price
     ELSE Order(m).price > Order(n).price
  \/ Order(m).price = Order(n).price /\ Arrival(m) < Arrival(n)

Facing(o) == {m \in Placed : left[m] > 0 /\ Sides(m) # Sides(o) /\ Crosses(o, m)}

Queue(o) == InOrder(Facing(o), ServedBefore)

(* Positions of the queue that an order reaches: up to one of its own user's. *)
Reached(o) ==
  {i \in DOMAIN Queue(o) :
     \A j \in 1..i : Order(Queue(o)[j]).user # Order(o).user}

(* What the order takes from the i-th order of the queue. *)
Taken(o, i) ==
  LET before == MapThenSumSet(LAMBDA j : left[Queue(o)[j]], 1..i - 1)
  IN Max({0, Min({left[Queue(o)[i]], Order(o).quantity - before})})

FillsOf(o) ==
  LET fill(i) == [maker |-> Queue(o)[i], taker |-> o,
                  price |-> Order(Queue(o)[i]).price, quantity |-> Taken(o, i)]
      met == {i \in Reached(o) : Taken(o, i) > 0}
  IN [i \in 1..Cardinality(met) |-> fill(i)]

StoppedByOwn(o) == Reached(o) # DOMAIN Queue(o)

RestsAtEngine(o) == Order(o).kind = "Limit" /\ ~StoppedByOwn(o)

(* The report; an order that met only its user's own is not accepted. *)
EngineStatus(o, filled) ==
  CASE filled = Order(o).quantity -> "Filled"
    [] filled = 0 /\ StoppedByOwn(o) -> "Refused"
    [] filled = 0 /\ RestsAtEngine(o) -> "New"
    [] filled = 0 /\ ~RestsAtEngine(o) /\ ~StoppedByOwn(o) -> "Rejected"
    [] OTHER -> "PartiallyFilled"

(* Mutant of AfterFills: the order rests with all of its quantity. *)
RestsWhole(o, fills) ==
  [m \in Ids |->
     IF m # o THEN left[m] - Executed(m, Range(fills))
     ELSE IF RestsAtEngine(o) THEN Order(o).quantity
     ELSE 0]

(* What rests in the book after a submission. *)
AfterFills(o, fills) ==
  [m \in Ids |->
     IF m # o THEN left[m] - Executed(m, Range(fills))
     ELSE IF RestsAtEngine(o) THEN Order(o).quantity - Executed(o, Range(fills))
     ELSE 0]

-----------------------------------------------------------------------------
(* Placing an order *)

InFlight == {o \in Ids : place[o].at \notin {"none", "done", "failed"}}
Cancelling == {o \in Ids : cancel[o].at \notin {"none", "done", "failed"}}

Goto(o, at) == place' = [place EXCEPT ![o].at = at]

(* Mutant of NextFill: the loop does not go on to the next fill. *)
SameFill(o) ==
  place' = [place EXCEPT ![o].pending = NoPlacement.pending, ![o].release = 0,
                         ![o].at = IF Len(place[o].fills) = 1 THEN "write" ELSE "settle"]

(* After a step of a fill: the next one, or the end of the loop. *)
NextFill(o) ==
  place' = [place EXCEPT ![o].fills = Tail(place[o].fills), ![o].pending = NoPlacement.pending,
                         ![o].release = 0,
                         ![o].at = IF Len(place[o].fills) = 1 THEN "write" ELSE "settle"]

FillsReported(o) == {t \in traded : t.taker = o}

ShouldRest(o) ==
  Order(o).quantity > memory[o].filled /\ memory[o].status \in Open

RestLock(o) == IF ShouldRest(o) THEN RemainingLock(o, memory[o].filled) ELSE 0

(* unlockUnusedIncomingLock: what neither the fills nor the rest need. *)
Unused(o) ==
  memory[o].locked
  - MapThenSumSet(LAMBDA t : Cost(o, t.price, t.quantity, TakerFeeBps), FillsReported(o))
  - RestLock(o)

(* What the placement asks of the wallet where it is: at most one operation. *)
Wanted(o) ==
  CASE place[o].at = "lock" ->
         {Lock(Order(o).user, LockedAsset(o), EstimateLockAmount(o))}
    [] place[o].at \in {"giveUp", "unlockRefused"} -> UnlockBalance(o, memory[o].locked)
    [] place[o].at = "settle" -> {Settlement(Head(place[o].fills))}
    [] place[o].at = "unlockMaker" ->
         UnlockBalance(Head(place[o].fills).maker, place[o].release)
    [] place[o].at = "unused" -> UnlockBalance(o, Unused(o))
    [] OTHER -> {}

(* walletPost: the wallet does all of the operation. *)
WalletPost(wanted) ==
  /\ \A op \in wanted : Granted(op)
  /\ accounts' = IF wanted = {} THEN accounts ELSE AfterAll(CHOOSE op \in wanted : TRUE)
  /\ UNCHANGED active

(* walletPost: the wallet refuses the operation, and the request fails. *)
Refused(o) ==
  /\ \E op \in Wanted(o) : ~Granted(op)
  /\ Goto(o, "failed")
  /\ UNCHANGED <<database, local, cancel, engine, settled, counters, ledgerVars>>

(* A call of the request fails: a database, the wallet, Kafka.  When it is *)
(* the answer of the wallet that is lost, the wallet has done its part.    *)
Fail(o) ==
  /\ place[o].at \notin {"none", "submit", "answer", "done", "failed"}
  /\ faults < MaxFaults
  /\ faults' = faults + 1
  /\ Goto(o, "failed")
  /\ \/ UNCHANGED <<settled, ledgerVars>>
     \/ /\ Wanted(o) # {} /\ WalletPost(Wanted(o))
        /\ settled' = IF place[o].at = "settle" THEN settled \cup {Head(place[o].fills)}
                      ELSE settled
  /\ UNCHANGED <<database, local, cancel, engine, restarted, cancels>>

(* assertCanTrade: the account's own freeze is taken to be that of its user. *)
CanTrade(user) == active[user]

(* The row is saved; a buy order without a price fails after that. *)
Place ==
  \E t \in AskedOrders :
    /\ Len(asked) < MaxOrders
    /\ Cardinality(InFlight) + Cardinality(Cancelling) < MaxInFlight
    /\ CanTrade(t.user)
    /\ asked' = Append(asked, t)
    /\ Goto(Len(asked'), IF t.side = "Buy" /\ t.price = NoPrice THEN "failed" ELSE "lock")
    /\ UNCHANGED <<rows, local, cancel, engine, settled, counters, ledgerVars>>

LockBalance(o) ==
  /\ place[o].at = "lock"
  /\ WalletPost(Wanted(o))
  /\ memory' = [memory EXCEPT ![o].locked = EstimateLockAmount(o)]
  /\ Goto(o, "submit")
  /\ UNCHANGED <<database, list, cancel, engine, settled, counters>>

(* The engine executes the order.  It refuses an identifier that it has    *)
(* seen, and an order without the price that its kind requires.            *)
Submit(o) ==
  /\ place[o].at = "submit"
  /\ IF o \in Range(seen) \/ (Order(o).kind # "Market" /\ Order(o).price = NoPrice)
     THEN /\ place' = [place EXCEPT ![o].at = "answer", ![o].status = "Refused"]
          /\ UNCHANGED engine
     ELSE LET fills == FillsOf(o)
          IN /\ place' = [place EXCEPT ![o].at = "answer", ![o].fills = fills,
                                       ![o].status = EngineStatus(o, Executed(o, Range(fills)))]
             /\ left' = AfterFills(o, fills)
             /\ seen' = Append(seen, o)
             /\ traded' = traded \cup Range(fills)
  /\ UNCHANGED <<database, local, cancel, settled, counters, ledgerVars>>

(* The first failure of a call is counted; those of its repetitions are    *)
(* bounded by MaxRetries.                                                  *)
MayFail(attempts) ==
  IF attempts = 0 THEN faults < MaxFaults /\ faults' = faults + 1
  ELSE UNCHANGED faults

(* unary: the call fails, before or after the engine has served it; it is  *)
(* repeated when the error is of a kind that may pass.                     *)
CallFails(o) ==
  /\ place[o].at \in {"submit", "answer"}
  /\ MayFail(place[o].attempts)
  /\ \E at \in {"giveUp"} \cup (IF place[o].attempts < MaxRetries THEN {"submit"} ELSE {}) :
       place' = [place EXCEPT ![o].at = at, ![o].attempts = place[o].attempts + 1]
  /\ UNCHANGED <<database, local, cancel, engine, settled, restarted, cancels, ledgerVars>>

Answered(o) ==
  /\ place[o].at = "answer"
  /\ Goto(o, IF place[o].status = "Refused" THEN "refused"
             ELSE IF place[o].fills = << >> THEN "write" ELSE "settle")
  /\ UNCHANGED <<database, local, cancel, engine, settled, counters, ledgerVars>>

(* The engine could not be reached: the lock is given back. *)
GiveUp(o) ==
  /\ place[o].at = "giveUp"
  /\ WalletPost(Wanted(o))
  /\ Goto(o, "failed")
  /\ UNCHANGED <<database, local, cancel, engine, settled, counters>>

RejectRow(o) ==
  /\ place[o].at = "refused"
  /\ memory' = [memory EXCEPT ![o].status = "Rejected"]
  /\ rows' = [rows EXCEPT ![o].status = "Rejected"]
  /\ Goto(o, "unlockRefused")
  /\ UNCHANGED <<asked, list, cancel, engine, settled, counters, ledgerVars>>

UnlockRefused(o) ==
  /\ place[o].at = "unlockRefused"
  /\ WalletPost(Wanted(o))
  /\ Goto(o, "done")
  /\ UNCHANGED <<database, local, cancel, engine, settled, counters>>

(* Mutant of Settle: that the wallet has refused is not noticed. *)
SettleUnchecked(o) ==
  /\ place[o].at = "settle"
  /\ IF Granted(Settlement(Head(place[o].fills)))
     THEN WalletPost(Wanted(o)) /\ settled' = settled \cup {Head(place[o].fills)}
     ELSE UNCHANGED <<settled, ledgerVars>>
  /\ Goto(o, "apply")
  /\ UNCHANGED <<database, local, cancel, engine, counters>>

(* settleTrade: the first of the remaining fills. *)
Settle(o) ==
  /\ place[o].at = "settle"
  /\ WalletPost(Wanted(o))
  /\ settled' = settled \cup {Head(place[o].fills)}
  /\ Goto(o, "apply")
  /\ UNCHANGED <<database, local, cancel, engine, counters>>

(* applyFillToLocalOrders up to its first await: the maker, if the list    *)
(* has it; the row will be written as the order is now.                    *)
ApplyFill(o) ==
  /\ place[o].at = "apply"
  /\ LET trade  == Head(place[o].fills)
         maker  == trade.maker
         filled == memory[maker].filled + trade.quantity
         status == IF filled >= Order(maker).quantity THEN "Filled" ELSE "PartiallyFilled"
     IN IF maker \in Range(list)
        THEN /\ memory' = [memory EXCEPT ![maker] =
                  [filled |-> filled, status |-> status,
                   locked |-> memory[maker].locked
                              - Cost(maker, trade.price, trade.quantity, MakerFeeBps)]]
             /\ place' = [place EXCEPT ![o].at = "writeMaker",
                            ![o].pending = [filled |-> filled, status |-> status]]
        ELSE NextFill(o) /\ UNCHANGED memory
  /\ UNCHANGED <<database, list, cancel, engine, settled, counters, ledgerVars>>

(* The maker's row; then whether the maker is filled is asked of the       *)
(* object, which others may have changed meanwhile.                        *)
WriteMaker(o) ==
  /\ place[o].at = "writeMaker"
  /\ LET maker == Head(place[o].fills).maker
     IN /\ rows' = [rows EXCEPT ![maker] = place[o].pending]
        /\ IF memory[maker].status = "Filled"
           THEN place' = [place EXCEPT ![o].at = "unlockMaker",
                                       ![o].release = memory[maker].locked]
           ELSE NextFill(o)
  /\ UNCHANGED <<asked, local, cancel, engine, settled, counters, ledgerVars>>

(* orders.splice(orders.indexOf(o), 1): the last one, if o is not there. *)
Spliced(o) ==
  IF o \in Range(list)
  THEN RemoveAt(list, CHOOSE i \in DOMAIN list : list[i] = o)
  ELSE IF list = << >> THEN list ELSE Front(list)

(* What the maker's better price has left of its lock is given back. *)
UnlockMaker(o) ==
  /\ place[o].at = "unlockMaker"
  /\ WalletPost(Wanted(o))
  /\ LET maker == Head(place[o].fills).maker
     IN /\ memory' = [memory EXCEPT ![maker].locked = 0]
        /\ list' = Spliced(maker)
  /\ NextFill(o)
  /\ UNCHANGED <<database, cancel, engine, settled, counters>>

(* The order's own row, from the report of the engine. *)
WriteOrder(o) ==
  /\ place[o].at = "write"
  /\ LET filled == memory[o].filled + Executed(o, FillsReported(o))
     IN /\ memory' = [memory EXCEPT ![o].filled = filled, ![o].status = place[o].status]
        /\ rows' = [rows EXCEPT ![o] = [filled |-> filled, status |-> place[o].status]]
  /\ Goto(o, "unused")
  /\ UNCHANGED <<asked, list, cancel, engine, settled, counters, ledgerVars>>

UnlockUnused(o) ==
  /\ place[o].at = "unused"
  /\ WalletPost(Wanted(o))
  /\ memory' = [memory EXCEPT ![o].locked = RestLock(o)]
  /\ Goto(o, "rest")
  /\ UNCHANGED <<database, list, cancel, engine, settled, counters>>

(* Mutant of Rest: only an order without fills joins the list. *)
RestIfNew(o) ==
  /\ place[o].at = "rest"
  /\ list' = IF memory[o].status = "New" THEN Append(list, o) ELSE list
  /\ Goto(o, "done")
  /\ UNCHANGED <<database, memory, cancel, engine, settled, counters, ledgerVars>>

(* The events are produced, and the order joins the list. *)
Rest(o) ==
  /\ place[o].at = "rest"
  /\ list' = IF ShouldRest(o) THEN Append(list, o) ELSE list
  /\ Goto(o, "done")
  /\ UNCHANGED <<database, memory, cancel, engine, settled, counters, ledgerVars>>

PlaceStep(o) ==
  \/ LockBalance(o) \/ Submit(o) \/ Answered(o) \/ GiveUp(o)
  \/ RejectRow(o) \/ UnlockRefused(o)
  \/ Settle(o) \/ ApplyFill(o) \/ WriteMaker(o) \/ UnlockMaker(o)
  \/ WriteOrder(o) \/ UnlockUnused(o) \/ Rest(o) \/ Refused(o)

-----------------------------------------------------------------------------
(* Cancelling an order *)

StartCancel(o) ==
  /\ o \in Placed /\ cancel[o].at = "none"
  /\ cancels < MaxCancels
  /\ Cardinality(InFlight) + Cardinality(Cancelling) < MaxInFlight
  /\ cancels' = cancels + 1
  /\ cancel' = [cancel EXCEPT ![o].at = "ask"]
  /\ UNCHANGED <<database, local, place, engine, settled, restarted, faults, ledgerVars>>

(* The engine takes the order out of the book, if it is there.  When the   *)
(* answer is lost the client asks again, and fails in the end.             *)
CancelAtEngine(o) ==
  /\ cancel[o].at = "ask"
  /\ left' = [left EXCEPT ![o] = 0]
  /\ \/ /\ cancel' = [cancel EXCEPT ![o].at = IF left[o] > 0 THEN "find" ELSE "done"]
        /\ UNCHANGED faults
     \/ /\ MayFail(cancel[o].attempts)
        /\ cancel' = [cancel EXCEPT ![o].attempts = cancel[o].attempts + 1,
                        ![o].at = IF cancel[o].attempts = MaxRetries THEN "failed" ELSE "ask"]
  /\ UNCHANGED <<database, local, place, seen, traded, settled, restarted, cancels, ledgerVars>>

(* The order of the list, and the amount that it has locked now. *)
FindCancelled(o) ==
  /\ cancel[o].at = "find"
  /\ cancel' = [cancel EXCEPT ![o].at = IF o \in Range(list) THEN "unlock" ELSE "done",
                              ![o].release = memory[o].locked]
  /\ UNCHANGED <<database, local, place, engine, settled, counters, ledgerVars>>

UnlockCancelled(o) ==
  /\ cancel[o].at = "unlock"
  /\ WalletPost(UnlockBalance(o, cancel[o].release))
  /\ memory' = [memory EXCEPT ![o].locked = 0, ![o].status = "Cancelled"]
  /\ cancel' = [cancel EXCEPT ![o].at = "close", ![o].release = 0]
  /\ UNCHANGED <<database, list, place, engine, settled, counters>>

CloseCancelled(o) ==
  /\ cancel[o].at = "close"
  /\ rows' = [rows EXCEPT ![o].status = "Cancelled"]
  /\ list' = Spliced(o)
  /\ cancel' = [cancel EXCEPT ![o].at = "done"]
  /\ UNCHANGED <<asked, memory, place, engine, settled, counters, ledgerVars>>

(* The wallet refuses, a call fails, or the answer of the wallet is lost. *)
CancelFails(o) ==
  /\ \/ /\ cancel[o].at = "unlock"
        /\ \E op \in UnlockBalance(o, cancel[o].release) : ~Granted(op)
        /\ UNCHANGED <<faults, ledgerVars>>
     \/ /\ cancel[o].at \in {"unlock", "close"}
        /\ faults < MaxFaults
        /\ faults' = faults + 1
        /\ \/ UNCHANGED ledgerVars
           \/ /\ cancel[o].at = "unlock" /\ cancel[o].release > 0
              /\ WalletPost(UnlockBalance(o, cancel[o].release))
  /\ cancel' = [cancel EXCEPT ![o].at = "failed"]
  /\ UNCHANGED <<database, local, place, engine, settled, restarted, cancels>>

CancelStep(o) ==
  CancelAtEngine(o) \/ FindCancelled(o) \/ UnlockCancelled(o) \/ CloseCancelled(o)

-----------------------------------------------------------------------------
(* The service stops at any point; onModuleInit rebuilds the list from the *)
(* rows.  The engine and the wallet go on.                                 *)
Restart ==
  /\ faults < MaxFaults
  /\ faults' = faults + 1
  /\ restarted' = TRUE
  /\ place' = [o \in Ids |-> IF o \in InFlight THEN [place[o] EXCEPT !.at = "failed"]
                             ELSE place[o]]
  /\ cancel' = [o \in Ids |-> IF o \in Cancelling THEN [cancel[o] EXCEPT !.at = "failed"]
                              ELSE cancel[o]]
  /\ list' = InOrder({o \in Placed : /\ rows[o].status \in Open
                                     /\ rows[o].filled < Order(o).quantity}, <)
  /\ memory' = [o \in Ids |->
                  IF o \in Range(list')
                  THEN [filled |-> rows[o].filled, status |-> rows[o].status,
                        locked |-> RemainingLock(o, rows[o].filled)]
                  ELSE memory[o]]
  /\ UNCHANGED <<database, engine, settled, cancels, ledgerVars>>

(* An operator freezes an account, or reopens it. *)
ChangeStatus ==
  /\ faults < MaxFaults
  /\ faults' = faults + 1
  /\ SetStatus
  /\ UNCHANGED <<database, local, place, cancel, engine, settled, restarted, cancels>>

(* Orders on which a request has failed, or whose answer was lost, with    *)
(* the makers of the fills that it has not applied.                        *)
Cut ==
  LET lost == {o \in Ids : \/ place[o].at = "failed"
                           \/ place[o].at \in {"submit", "giveUp"} /\ o \in Range(seen)}
  IN lost \cup (UNION {{f.maker : f \in Range(place[o].fills)} : o \in lost})
     \cup {o \in Ids : cancel[o].at = "failed" \/ cancel[o].attempts > 0}

(* The requests that are at work on an order. *)
Handling(o) ==
  {<<"place", t>> : t \in {t \in InFlight :
                            t = o \/ \E f \in Range(place[t].fills) : f.maker = o}}
  \cup {<<"cancel", t>> : t \in Cancelling \cap {o}}

Step ==
  \/ Place
  \/ \E o \in Ids : \/ PlaceStep(o) \/ CallFails(o) \/ Fail(o)
                    \/ StartCancel(o) \/ CancelStep(o) \/ CancelFails(o)
  \/ Restart \/ ChangeStatus

Raced == {o \in Ids : Cardinality(Handling(o)) > 1}

(* Orders that leave the list without being closed: a splice that does not *)
(* find its order takes the last one.                                      *)
Dropped ==
  {o \in Range(list) \ Range(list') : rows'[o].status \in Open \/ memory'[o].locked # 0}

Next == Step /\ disturbed' = disturbed \cup Raced' \cup Cut' \cup Dropped

Spec == Init /\ [][Next]_vars

-----------------------------------------------------------------------------
(* Properties *)

(* The variables have their types. *)
TypeOK ==
  /\ asked \in Seq(AskedOrders) /\ seen \in Seq(Ids) /\ list \in Seq(Ids)
  /\ rows \in [Ids -> OrderEntity] /\ memory \in [Ids -> StoredOrder]
  /\ traded \subseteq MatchFill
  /\ \A o \in Placed : place[o].fills \in Seq(MatchFill) /\ left[o] \in Nat
  /\ settled \subseteq traded
  /\ accounts \in [Wallets -> Account] /\ active \in [Users -> BOOLEAN]

(* No order is filled beyond its quantity: not by the trades of the engine *)
(* with what still rests there, nor in its row or in the list, whatever    *)
(* orders meet it, and whichever call is repeated, cut off or overtaken.   *)
WithinQuantity ==
  \A o \in Placed :
    /\ rows[o].filled <= Order(o).quantity
    /\ memory[o].filled <= Order(o).quantity
    /\ left[o] \in 0..Order(o).quantity - Executed(o, traded)

OrdersOf(u, a) == {o \in Placed : Order(o).user = u /\ LockedAsset(o) = a}

(* What an order may still cost: what rests of it, and its trades that the *)
(* wallet has not settled.                                                 *)
Owed(o) ==
  Cost(o, IF Lockable(o) THEN Order(o).price ELSE 0, left[o], MakerFeeBps)
  + MapThenSumSet(LAMBDA t : Cost(o, t.price, t.quantity,
                                  IF t.maker = o THEN MakerFeeBps ELSE TakerFeeBps),
                  {t \in traded \ settled : o \in {t.maker, t.taker}})

(* A market order takes any price, and its own says only what is locked.   *)
Unbounded(o) == Order(o).kind = "Market" /\ Sides(o) = "Buy"

(* The locks of a user cover what the user's orders may still cost, so     *)
(* that no settlement is refused for want of funds: through partial fills, *)
(* better prices, rejections, cancellations and restarts.                  *)
Covered ==
  \A u \in Users, a \in Assets :
    (\A o \in OrdersOf(u, a) : o \notin disturbed /\ ~Unbounded(o)) =>
      accounts[<<u, a>>].locked >= MapThenSumSet(Owed, OrdersOf(u, a))

(* What an order's row shows as filled has been settled in the wallets,    *)
(* whatever failed, raced or was restarted.                                *)
FillsAreSettled ==
  \A o \in Placed : rows[o].filled <= Executed(o, settled)

(* What the wallets hold, with the fees of the settled trades, is what     *)
(* they held at first: every trade of the engine is settled once, at most, *)
(* whatever call is retried, cut off or has lost its answer.               *)
SettledOnce ==
  LET fees == MapThenSumSet(LAMBDA t : FeeOf(t, t.maker) + FeeOf(t, t.taker), settled)
      gained(u, a) == accounts[<<u, a>>].available - Opening[<<u, a>>].available
                      + accounts[<<u, a>>].locked - Opening[<<u, a>>].locked
  IN \A a \in Assets :
       MapThenSumSet(LAMBDA u : gained(u, a), Users) = IF a = Pair[2] THEN -fees ELSE 0

Resting(o) == Order(o).kind = "Limit" /\ left[o] > 0

(* When no request is at work, and none has been disturbed, the database,  *)
(* the local list, the engine and the wallet tell the same: the rows show  *)
(* what was executed, the list holds the open rows and those are what      *)
(* rests in the engine (or was dropped by it, filled in part, on arrival), *)
(* and the wallet has locked what the list says besides what it had locked *)
(* at first (more, after a restart).                                       *)
IdleAgrees ==
  InFlight \cup Cancelling \cup disturbed = {} =>
    /\ \A o \in Placed :
         /\ rows[o].filled = Executed(o, traded)
         /\ o \in Range(list) <=> rows[o].status \in Open
         /\ Resting(o) => o \in Range(list)
         /\ o \in Range(list) => Resting(o) \/ place[o].status = "PartiallyFilled"
    /\ \A u \in Users, a \in Assets :
         LET said == MapThenSumSet(LAMBDA o : memory[o].locked,
                                   OrdersOf(u, a) \cap Range(list))
                 locked == accounts[<<u, a>>].locked - Opening[<<u, a>>].locked
         IN (\A o \in OrdersOf(u, a) : ~Unbounded(o)) =>
              IF ~restarted THEN locked = said ELSE locked >= said
=============================================================================
