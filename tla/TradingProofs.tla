--------------------------- MODULE TradingProofs ---------------------------
(***************************************************************************)
(* Trading for any number of orders, requests and failures: that no order  *)
(* is filled beyond its quantity, that a trade is settled once, that what  *)
(* a row shows as filled has been settled, that the locks of a user cover  *)
(* what the user's orders may still cost, and that the database, the list, *)
(* the engine and the wallet agree once no request is at work.             *)
(***************************************************************************)
EXTENDS Trading, MovementProofs, SequenceTheorems, FoldProofs, TLAPS

-----------------------------------------------------------------------------
(* What is executed of an order *)

Fill == [maker : Ids, taker : Ids, price : Nat, quantity : Nat]

Of(o, trades) == {t \in trades : t.maker = o \/ t.taker = o}

(* The sums over some trades are those of their quantities. *)
LEMMA ExecutedFound ==
  ASSUME NEW U \in SUBSET Fill, IsFiniteSet(U), NEW f, NEW g,
         \A t \in U : f[t] = t.quantity, Totals(g, f, U), NEW o, NEW T \in SUBSET U
  PROVE  Executed(o, T) = g[Of(o, T)]
<1> DEFINE S == Of(o, T)
           Rec(h) == [s \in SUBSET S |->
                        IF s = {} THEN 0 ELSE Chosen(s).quantity + h[s \ {Chosen(s)}]]
           h == CHOOSE h : h = Rec(h)
           k == [s \in SUBSET S |-> g[s]]
<1>1. S \in SUBSET U
  BY DEF Of
<1>2. Executed(o, T) = h[S]
  BY DEF Executed, MapThenSumSet, MapThenFoldSet, Chosen, Of
<1> HIDE DEF S
<1>3. \A s \in SUBSET S : s # {} => Chosen(s) \in s /\ s \ {Chosen(s)} \in SUBSET S
  BY ChosenLeaves
<1>4. \A s \in SUBSET S : k[s] = g[s]
  OBVIOUS
<1>5. \A s \in SUBSET S : s # {} => g[s] = Chosen(s).quantity + g[s \ {Chosen(s)}]
  BY <1>1, <1>3 DEF Totals
<1>6. k = Rec(k)
  <2>1. \A s \in SUBSET S :
          k[s] = IF s = {} THEN 0 ELSE Chosen(s).quantity + k[s \ {Chosen(s)}]
    BY <1>3, <1>4, <1>5 DEF Totals
  <2> QED BY <2>1
<1>7. h = Rec(h)
  <2> HIDE DEF Rec
  <2> QED BY <1>6
<1> HIDE DEF h
<1>8. \A s \in SUBSET S : h[s] = IF s = {} THEN 0
                                 ELSE Chosen(s).quantity + h[s \ {Chosen(s)}]
  BY <1>7
<1>9. AddsChosen(h, f, S)
  BY <1>1, <1>3, <1>8 DEF AddsChosen
<1>10. h[S] = g[S]
  BY <1>1, <1>9, TotalFoundBy
<1> QED BY <1>2, <1>10 DEF S

(* The quantities of some trades, and their sums. *)
LEMMA QuantitySums ==
  ASSUME NEW U \in SUBSET Fill, IsFiniteSet(U)
  PROVE  \E f \in [U -> Nat] : \E g \in [SUBSET U -> Int] :
           /\ \A t \in U : f[t] = t.quantity
           /\ Totals(g, f, U)
           /\ \A o : \A T \in SUBSET U : Executed(o, T) = g[Of(o, T)]
<1> DEFINE f == [t \in U |-> t.quantity]
<1>1. f \in [U -> Nat] /\ \A t \in U : f[t] = t.quantity
  BY DEF Fill
<1> HIDE DEF f
<1>2. f \in [U -> Int]
  BY <1>1
<1>3. PICK g \in [SUBSET U -> Int] : Totals(g, f, U)
  BY <1>2, TotalsExist
<1>4. \A o : \A T \in SUBSET U : Executed(o, T) = g[Of(o, T)]
  BY <1>1, <1>3, ExecutedFound
<1> QED BY <1>1, <1>3, <1>4

(* What is executed by more trades is no less. *)
LEMMA ExecutedGrows ==
  ASSUME NEW T \in SUBSET Fill, IsFiniteSet(T), NEW o
  PROVE  /\ Executed(o, T) \in Nat
         /\ \A S \in SUBSET T : Executed(o, S) \in Nat /\ Executed(o, S) <= Executed(o, T)
<1>1. PICK f \in [T -> Nat] : \E g \in [SUBSET T -> Int] :
             /\ Totals(g, f, T)
             /\ \A r : \A S \in SUBSET T : Executed(r, S) = g[Of(r, S)]
  BY QuantitySums
<1>2. PICK g \in [SUBSET T -> Int] :
             /\ Totals(g, f, T)
             /\ \A r : \A S \in SUBSET T : Executed(r, S) = g[Of(r, S)]
  BY <1>1
<1>3. \A A \in SUBSET T : \A B \in SUBSET A : 0 <= g[B] /\ g[B] <= g[A]
  BY <1>2, TotalsGrow
<1>4. \A S \in SUBSET T : Of(o, S) \in SUBSET Of(o, T) /\ Of(o, T) \in SUBSET T
  BY DEF Of
<1>5. \A S \in SUBSET T : /\ 0 <= g[Of(o, S)] /\ g[Of(o, S)] <= g[Of(o, T)]
                          /\ g[Of(o, S)] \in Int
  BY <1>3, <1>4
<1>6. \A S \in SUBSET T : Executed(o, S) = g[Of(o, S)]
  BY <1>2
<1>7. T \in SUBSET T
  OBVIOUS
<1> QED BY <1>5, <1>6, <1>7

(* One more trade counts for its maker and its taker. *)
LEMMA ExecutedAdds ==
  ASSUME NEW T \in SUBSET Fill, IsFiniteSet(T), NEW t \in Fill, t \notin T, NEW o
  PROVE  Executed(o, T \cup {t})
           = Executed(o, T) + IF t.maker = o \/ t.taker = o THEN t.quantity ELSE 0
<1> DEFINE U == T \cup {t}
<1>1. U \in SUBSET Fill /\ IsFiniteSet(U) /\ T \in SUBSET U /\ U \in SUBSET U
  BY FS_AddElement
<1>2. PICK f \in [U -> Nat] : \E g \in [SUBSET U -> Int] :
             /\ \A x \in U : f[x] = x.quantity
             /\ Totals(g, f, U)
             /\ \A r : \A S \in SUBSET U : Executed(r, S) = g[Of(r, S)]
  BY <1>1, QuantitySums
<1>3. PICK g \in [SUBSET U -> Int] :
             /\ \A x \in U : f[x] = x.quantity
             /\ Totals(g, f, U)
             /\ \A r : \A S \in SUBSET U : Executed(r, S) = g[Of(r, S)]
  BY <1>2
<1>4. /\ Executed(o, U) = g[Of(o, U)] /\ Executed(o, T) = g[Of(o, T)]
      /\ Of(o, T) \in SUBSET U /\ Of(o, U) \in SUBSET U
  BY <1>1, <1>3 DEF Of
<1>e. U = T \cup {t} /\ t \in U
  OBVIOUS
<1> HIDE DEF U
<1>5. CASE t.maker = o \/ t.taker = o
  <2>1. t \in Of(o, U) /\ Of(o, U) \ {t} = Of(o, T)
    BY <1>e, <1>5 DEF Of
  <2>2. g[Of(o, U)] = f[t] + g[Of(o, U) \ {t}]
    BY <1>3, <1>4, <2>1 DEF Totals
  <2>3. f[t] = t.quantity /\ f[t] \in Nat /\ g[Of(o, T)] \in Int
    BY <1>e, <1>3, <1>4
  <2>4. g[Of(o, U)] = t.quantity + g[Of(o, T)] /\ t.quantity \in Nat
    BY <2>1, <2>2, <2>3
  <2>5. Executed(o, U) = Executed(o, T) + t.quantity
    BY <1>4, <2>3, <2>4
  <2> QED BY <1>e, <1>5, <2>5
<1>6. CASE ~(t.maker = o \/ t.taker = o)
  <2>1. Of(o, U) = Of(o, T)
    BY <1>e, <1>6 DEF Of
  <2>2. g[Of(o, T)] \in Int
    BY <1>4
  <2>3. Executed(o, U) = Executed(o, T) + 0
    BY <1>4, <2>1, <2>2
  <2> QED BY <1>e, <1>6, <2>3
<1> QED BY <1>5, <1>6

-----------------------------------------------------------------------------
(* The invariant *)

Early == {"none", "lock", "submit", "answer", "giveUp", "refused", "unlockRefused"}
AtFill == {"settle", "apply", "writeMaker", "unlockMaker"}
Later == {"unused", "rest", "done", "failed"}
Stages == Early \cup AtFill \cup {"write"} \cup Later

Placement == [at : Stages, fills : Seq(Fill), status : Statuses \cup {"Refused"},
              attempts : Nat, pending : OrderEntity, release : Int]

OrdersTyped == asked \in Seq(AskedOrders) /\ Len(asked) <= MaxOrders

EngineTyped ==
  /\ left \in [Ids -> Int] /\ seen \in Seq(Ids)
  /\ traded \in SUBSET Fill /\ IsFiniteSet(traded) /\ settled \in SUBSET traded

LocalTyped ==
  /\ rows \in [Ids -> OrderEntity] /\ memory \in [Ids -> StoredOrder] /\ list \in Seq(Ids)
  /\ place \in [Ids -> Placement]

Typed == OrdersTyped /\ EngineTyped /\ LocalTyped

(* The engine has seen what rests in its book and what was traded; what    *)
(* rests has a price, and no order meets itself.                           *)
EngineOK ==
  /\ Range(seen) \subseteq Placed
  /\ \A m \in Ids : left[m] > 0 => m \in Range(seen) /\ Order(m).price \in Nat
  /\ \A t \in traded : /\ t.maker \in Range(seen) /\ t.taker \in Range(seen)
                       /\ t.maker # t.taker

(* The fills of a placement are trades of its order, each of them once.    *)
(* Those it has passed are settled, those before it are not; together they *)
(* are all that the order took.                                            *)
Held(o) ==
  /\ o \in Placed <=> place[o].at # "none"
  /\ place[o].at \notin {"none", "failed"} => Lockable(o)
  /\ o \notin Range(seen) => place[o].fills = << >>
  /\ \A i \in DOMAIN place[o].fills :
       place[o].fills[i] \in traded /\ place[o].fills[i].taker = o
  /\ \A i, j \in DOMAIN place[o].fills : place[o].fills[i] = place[o].fills[j] => i = j

Unsettled(o) == place[o].at \in Early => \A t \in settled : t.taker # o

AtFillOK(o) ==
  /\ place[o].at \in AtFill => place[o].fills # << >>
  /\ place[o].at = "settle" =>
       \A i \in DOMAIN place[o].fills : place[o].fills[i] \notin settled
  /\ place[o].at \in AtFill \ {"settle"} =>
       \A i \in DOMAIN place[o].fills : place[o].fills[i] \in settled <=> i = 1
  /\ place[o].at = "write" => place[o].fills = << >>

AllReported(o) ==
  place[o].at \in AtFill \cup {"answer", "write"} =>
    \/ place[o].status = "Refused" /\ place[o].at = "answer"
    \/ /\ place[o].status # "Refused"
       /\ \A t \in traded : t.taker = o => t \in settled \cup Range(place[o].fills)

PlaceOK(o) == Held(o) /\ Unsettled(o) /\ AtFillOK(o) /\ AllReported(o)

Places == \A o \in Ids : PlaceOK(o)

(* An order that may be a maker of the list has been placed or cut off. *)
ListOK == \A o \in Range(list) : place[o].at \in {"done", "failed"}

(* The settled trades, but for those that are about to be applied. *)
AppliedTrades ==
  {t \in settled : \A q \in Ids : place[q].at = "apply" => t # Head(place[q].fills)}

(* The row and the object of an order show no more than was settled, and   *)
(* those of an order that has not come to its own row show nothing yet.    *)
FilledOK ==
  \A o \in Ids :
    /\ rows[o].filled <= Executed(o, settled)
    /\ memory[o].filled <= Executed(o, AppliedTrades)
    /\ place[o].at \in Early \cup AtFill \cup {"write"} => memory[o].filled = 0
    /\ place[o].at = "writeMaker" =>
         place[o].pending.filled <= Executed(Head(place[o].fills).maker, settled)

SettledInv == Typed /\ EngineOK /\ Places /\ ListOK /\ FilledOK

(* Orders are what clients ask for. *)
LEMMA OrderFound ==
  ASSUME OrdersTyped, NEW o \in Placed
  PROVE  /\ o \in Ids /\ Placed = 1..Len(asked) /\ Len(asked) \in Nat
         /\ Order(o) \in AskedOrders /\ Order(o) \in PlaceOrderDto
         /\ Order(o).quantity \in Nat \ {0} /\ Order(o).price \in Nat \cup {NoPrice}
         /\ Sides(o) \in {"Buy", "Sell"} /\ Order(o).user \in Users
         /\ Sides(o) = "Buy" /\ Lockable(o) => Order(o).price \in Nat
<1>1. /\ Len(asked) \in Nat /\ Placed = 1..Len(asked)
      /\ \A i \in 1..Len(asked) : asked[i] \in AskedOrders
  BY LenProperties, ElementOfSeq DEF OrdersTyped, Placed
<1>2. o \in Ids /\ Order(o) \in AskedOrders
  BY <1>1, BoundsAssumption DEF OrdersTyped, Ids, Order
<1>3. Order(o) \in PlaceOrderDto
  BY <1>2, OrdersAssumption
<1> QED BY <1>1, <1>2, <1>3 DEF PlaceOrderDto, Sides, Lockable

(* What may rest in the book can be served in one order only. *)
LEMMA ServedInOrder ==
  ASSUME Typed, EngineOK, NEW o \in Placed
  PROVE  /\ IsFiniteSet(Facing(o)) /\ Facing(o) \subseteq Range(seen)
         /\ Orders({p \in Facing(o) \X Facing(o) : ServedBefore(p[1], p[2])}, Facing(o))
<1> DEFINE S == Facing(o)
           R == {p \in S \X S : ServedBefore(p[1], p[2])}
<1>1. \A m \in S : /\ m \in Placed /\ m \in Range(seen) /\ Order(m).price \in Nat
                   /\ Sides(m) \in {"Buy", "Sell"} /\ Sides(m) # Sides(o)
  BY OrderFound DEF Facing, EngineOK, Typed
<1>2. Sides(o) \in {"Buy", "Sell"}
  BY OrderFound DEF Typed
<1>3. \A m \in S : Arrival(m) \in Nat /\ seen[Arrival(m)] = m
  <2>1. DOMAIN seen = 1..Len(seen) /\ Len(seen) \in Nat
    BY LenProperties DEF Typed, EngineTyped
  <2>2. \A m \in S : \E i \in DOMAIN seen : seen[i] = m
    BY <1>1 DEF Range
  <2> QED BY <2>1, <2>2 DEF Arrival
<1>4. IsFiniteSet(Placed)
  BY OrderFound, FS_Interval DEF Typed
<1>5. IsFiniteSet(S)
  BY <1>4, FS_Subset DEF Facing
<1>6. PICK side \in {"Buy", "Sell"} : \A m \in S : Sides(m) = side
  BY <1>1, <1>2
<1>7. \A m, n \in S : <<m, n>> \in R <=>
        \/ IF side = "Sell" THEN Order(m).price < Order(n).price
           ELSE Order(m).price > Order(n).price
        \/ Order(m).price = Order(n).price /\ Arrival(m) < Arrival(n)
  BY <1>6 DEF ServedBefore
<1>8. \A m, n \in S : Arrival(m) = Arrival(n) => m = n
  BY <1>3
<1> HIDE DEF S, R
<1>9. Orders(R, S)
  BY <1>1, <1>3, <1>7, <1>8 DEF Orders
<1> QED BY <1>1, <1>5, <1>9 DEF S, R

(* The queue has each of the orders that face o once, at most. *)
LEMMA QueueFound ==
  ASSUME Typed, EngineOK, NEW o \in Placed
  PROVE  /\ Cardinality(Facing(o)) \in Nat
         /\ Queue(o) \in [1..Cardinality(Facing(o)) -> Facing(o)]
         /\ \A i, j \in 1..Cardinality(Facing(o)) : Queue(o)[i] = Queue(o)[j] => i = j
<1> DEFINE S == Facing(o)
           R == {p \in S \X S : ServedBefore(p[1], p[2])}
           n == Cardinality(S)
           q == Queue(o)
<1>1. Orders(R, S) /\ IsFiniteSet(S)
  BY ServedInOrder
<1>2. n \in Nat /\ \A i \in 1..n : \E m \in S : Cardinality({x \in S : <<x, m>> \in R}) = i - 1
  <2> HIDE DEF R, S
  <2> QED BY <1>1, RankedOnce
<1>3. \A m \in S : {x \in S : <<x, m>> \in R} = {x \in S : ServedBefore(x, m)}
  <2> HIDE DEF S
  <2> QED OBVIOUS
<1>4. \A i \in 1..n : \E m \in S : Cardinality({x \in S : ServedBefore(x, m)}) = i - 1
  BY <1>2, <1>3
<1>5. q = [i \in 1..n |-> CHOOSE m \in S : Cardinality({x \in S : ServedBefore(x, m)}) = i - 1]
  BY DEF Queue, InOrder
<1> HIDE DEF q, S
<1>6. \A i \in 1..n : q[i] \in S /\ Cardinality({x \in S : ServedBefore(x, q[i])}) = i - 1
  BY <1>4, <1>5
<1>7. \A i, j \in 1..n : q[i] = q[j] => i = j
  <2> SUFFICES ASSUME NEW i \in 1..n, NEW j \in 1..n, q[i] = q[j] PROVE i - 1 = j - 1
    BY <1>2
  <2> DEFINE before(m) == {x \in S : ServedBefore(x, m)}
  <2>1. before(q[i]) = before(q[j])
    OBVIOUS
  <2> QED BY <1>6, <2>1
<1> QED BY <1>2, <1>5, <1>6, <1>7 DEF q, S

(* What rests at some places of the queue. *)
RestsAt(o, places) == MapThenSumSet(LAMBDA j : left[Queue(o)[j]], places)

(* It is a sum. *)
RestSums(o, U) ==
  \E f \in [U -> Int] : \E g \in [SUBSET U -> Int] :
    /\ \A j \in U : f[j] = left[Queue(o)[j]]
    /\ Totals(g, f, U)
    /\ \A S \in SUBSET U : RestsAt(o, S) = g[S]

LEMMA RestsAtFound ==
  ASSUME NEW U, IsFiniteSet(U), NEW o, \A j \in U : left[Queue(o)[j]] \in Int
  PROVE  RestSums(o, U)
<1> DEFINE f == [j \in U |-> left[Queue(o)[j]]]
<1>1. f \in [U -> Int] /\ \A j \in U : f[j] = left[Queue(o)[j]]
  OBVIOUS
<1> HIDE DEF f
<1>2. PICK g \in [SUBSET U -> Int] : Totals(g, f, U)
  BY <1>1, TotalsExist
<1>3. ASSUME NEW S \in SUBSET U
      PROVE  RestsAt(o, S) = g[S]
  <2> DEFINE Rec(h) == [s \in SUBSET S |->
                          IF s = {} THEN 0 ELSE left[Queue(o)[Chosen(s)]] + h[s \ {Chosen(s)}]]
             h == CHOOSE h : h = Rec(h)
             k == [s \in SUBSET S |-> g[s]]
  <2>1. RestsAt(o, S) = h[S]
    BY DEF RestsAt, MapThenSumSet, MapThenFoldSet, Chosen
  <2>2. SUBSET S \subseteq SUBSET U
    OBVIOUS
  <2>3. \A s \in SUBSET S : s # {} => Chosen(s) \in s /\ s \ {Chosen(s)} \in SUBSET S
    BY ChosenLeaves
  <2>4. \A s \in SUBSET S : s # {} =>
          g[s] = left[Queue(o)[Chosen(s)]] + g[s \ {Chosen(s)}]
    BY <1>1, <1>2, <2>2, <2>3 DEF Totals
  <2>5. k = Rec(k)
    <3>1. \A s \in SUBSET S :
            k[s] = IF s = {} THEN 0 ELSE left[Queue(o)[Chosen(s)]] + k[s \ {Chosen(s)}]
      BY <1>2, <2>2, <2>3, <2>4 DEF Totals
    <3> QED BY <3>1
  <2>6. h = Rec(h)
    <3> HIDE DEF Rec
    <3> QED BY <2>5
  <2> HIDE DEF h
  <2>7. \A s \in SUBSET S : h[s] = IF s = {} THEN 0
                                   ELSE left[Queue(o)[Chosen(s)]] + h[s \ {Chosen(s)}]
    BY <2>6
  <2>8. AddsChosen(h, f, S)
    BY <1>1, <2>2, <2>3, <2>7 DEF AddsChosen
  <2>9. h[S] = g[S]
    BY <1>2, <2>8, TotalFoundBy
  <2> QED BY <2>1, <2>9
<1> QED BY <1>1, <1>2, <1>3 DEF RestSums

LEMMA RestsAtType ==
  ASSUME NEW U, IsFiniteSet(U), NEW o, \A j \in U : left[Queue(o)[j]] \in Int,
         NEW S \in SUBSET U
  PROVE  RestsAt(o, S) \in Int
<1>1. RestSums(o, U)
  BY RestsAtFound
<1> QED BY <1>1 DEF RestSums

(* What an order takes from the queue is a number of units. *)
LEMMA TakenType ==
  ASSUME Typed, EngineOK, NEW o \in Placed, NEW i \in 1..Cardinality(Facing(o))
  PROVE  Taken(o, i) \in Nat
<1> DEFINE n == Cardinality(Facing(o))
           before == RestsAt(o, 1..i - 1)
           rest == Order(o).quantity - before
           x == Min({left[Queue(o)[i]], rest})
<1>1. n \in Nat /\ Queue(o) \in [1..n -> Ids]
  <2>1. Facing(o) \subseteq Ids
    BY OrderFound DEF Facing, Typed
  <2> QED BY <2>1, QueueFound
<1>2. /\ IsFiniteSet(1..n) /\ 1..i - 1 \in SUBSET (1..n)
      /\ \A j \in 1..n : left[Queue(o)[j]] \in Int
  <2>1. 1..i - 1 \in SUBSET (1..n)
    BY <1>1
  <2>2. \A j \in 1..n : left[Queue(o)[j]] \in Int
    BY <1>1 DEF Typed, EngineTyped
  <2>3. IsFiniteSet(1..n)
    BY <1>1, FS_Interval
  <2> QED BY <2>1, <2>2, <2>3
<1>3. before \in Int
  BY <1>2, RestsAtType
<1>4. left[Queue(o)[i]] \in Int
  BY <1>1 DEF Typed, EngineTyped
<1>5. rest \in Int
  <2> HIDE DEF before
  <2> QED BY <1>3, OrderFound DEF Typed
<1>6. Taken(o, i) = Max({0, x})
  BY DEF Taken, RestsAt
<1> HIDE DEF rest
<1>7. x \in Int
  BY <1>4, <1>5 DEF Min
<1> HIDE DEF x
<1>8. Max({0, x}) \in Nat
  BY <1>7 DEF Max
<1> QED BY <1>6, <1>8

(* The fills of a submission are trades of the order with orders that the  *)
(* engine has seen, each of them with another one.                         *)
LEMMA FillsFound ==
  ASSUME Typed, EngineOK, NEW o \in Placed, o \notin Range(seen)
  PROVE  /\ FillsOf(o) \in Seq(Fill)
         /\ \A i \in DOMAIN FillsOf(o) :
              /\ FillsOf(o)[i].taker = o /\ FillsOf(o)[i].maker \in Range(seen)
              /\ FillsOf(o)[i].maker # o
         /\ \A i, j \in DOMAIN FillsOf(o) : FillsOf(o)[i] = FillsOf(o)[j] => i = j
<1> DEFINE n == Cardinality(Facing(o))
           met == {i \in Reached(o) : Taken(o, i) > 0}
           k == Cardinality(met)
           fill(i) == [maker |-> Queue(o)[i], taker |-> o,
                       price |-> Order(Queue(o)[i]).price, quantity |-> Taken(o, i)]
<1>1. /\ n \in Nat /\ Queue(o) \in [1..n -> Facing(o)]
      /\ \A i, j \in 1..n : Queue(o)[i] = Queue(o)[j] => i = j
  BY QueueFound
<1>2. met \in SUBSET (1..n)
  BY <1>1 DEF Reached
<1>3. k \in Nat /\ k <= n
  <2>1. IsFiniteSet(1..n) /\ Cardinality(1..n) = n
    BY <1>1, FS_Interval
  <2> HIDE DEF met
  <2> QED BY <1>2, <2>1, SubsetCounts
<1>4. FillsOf(o) = [i \in 1..k |-> fill(i)]
  BY DEF FillsOf
<1> HIDE DEF k
<1>5. \A i \in 1..k : i \in 1..n /\ Queue(o)[i] \in Facing(o)
  BY <1>1, <1>3
<1>6. \A m \in Facing(o) : /\ m \in Range(seen) /\ m \in Ids
                           /\ Order(m).price \in Nat
  BY OrderFound, ServedInOrder DEF Facing, Typed, EngineOK
<1>7. o \in Ids
  BY OrderFound DEF Typed
<1>8. \A i \in 1..k : fill(i) \in Fill
  <2> TAKE i \in 1..k
  <2>1. Taken(o, i) \in Nat
    BY <1>5, TakenType
  <2> QED BY <1>5, <1>6, <1>7, <2>1 DEF Fill
<1>9. FillsOf(o) \in Seq(Fill)
  <2> HIDE DEF fill
  <2> QED BY <1>3, <1>4, <1>8, IsASeq
<1>10. DOMAIN FillsOf(o) = 1..k
  BY <1>4
<1>11. \A i \in 1..k : FillsOf(o)[i].taker = o /\ FillsOf(o)[i].maker = Queue(o)[i]
  BY <1>4
<1> HIDE DEF n, met
<1> QED BY <1>1, <1>5, <1>6, <1>9, <1>10, <1>11

-----------------------------------------------------------------------------
(* Steps *)

(* A step of the request that places o, or of none: the other placements   *)
(* stay where they are, and nothing is added but for o.                    *)
Grows(o) ==
  /\ \A q \in Ids : q # o => place'[q] = place[q]
  /\ \A q \in Ids : q # o => (q \in Placed <=> q \in Placed')
  /\ \A q \in Placed : q \in Placed' /\ asked'[q] = asked[q]
  /\ Range(seen) \subseteq Range(seen')
  /\ traded \subseteq traded' /\ settled \subseteq settled'
  /\ \A t \in traded' : t.taker # o => t \in traded
  /\ \A t \in settled' : t.taker # o => t \in settled

(* Where a placement goes, it keeps the rest. *)
LEMMA GotoSays ==
  ASSUME LocalTyped, NEW o \in Ids, NEW at \in Stages, Goto(o, at)
  PROVE  /\ place' \in [Ids -> Placement]
         /\ \A q \in Ids : q # o => place'[q] = place[q]
         /\ place'[o] = [place[o] EXCEPT !.at = at]
         /\ place'[o].at = at /\ place'[o].fills = place[o].fills
         /\ place'[o].status = place[o].status /\ place'[o].pending = place[o].pending
<1>1. place[o] \in Placement
  BY DEF LocalTyped
<1>2. [place[o] EXCEPT !.at = at] \in Placement
  BY <1>1 DEF Placement
<1>3. place' = [place EXCEPT ![o] = [place[o] EXCEPT !.at = at]]
  BY DEF Goto
<1>4. place'[o] = [place[o] EXCEPT !.at = at]
  BY <1>3 DEF LocalTyped
<1>5. /\ place' \in [Ids -> Placement]
      /\ \A q \in Ids : q # o => place'[q] = place[q]
  BY <1>2, <1>3 DEF LocalTyped
<1> QED BY <1>1, <1>4, <1>5 DEF Placement

(* The next fill, or the end of the loop. *)
LEMMA NextFillSays ==
  ASSUME LocalTyped, NEW o \in Ids, place[o].fills # << >>, NextFill(o)
  PROVE  /\ place' \in [Ids -> Placement]
         /\ \A q \in Ids : q # o => place'[q] = place[q]
         /\ place'[o].fills = Tail(place[o].fills)
         /\ place'[o].status = place[o].status
         /\ place'[o].at = IF place'[o].fills = << >> THEN "write" ELSE "settle"
<1>1. place[o] \in Placement /\ place[o].fills \in Seq(Fill)
  BY DEF LocalTyped, Placement
<1> DEFINE at == IF Len(place[o].fills) = 1 THEN "write" ELSE "settle"
           p == [at |-> at, fills |-> Tail(place[o].fills), status |-> place[o].status,
                 attempts |-> place[o].attempts, pending |-> NoPlacement.pending,
                 release |-> 0]
<1>2. /\ Tail(place[o].fills) \in Seq(Fill)
      /\ Tail(place[o].fills) = << >> <=> Len(place[o].fills) = 1
  <2>1. /\ Tail(place[o].fills) \in Seq(Fill)
        /\ Len(Tail(place[o].fills)) = Len(place[o].fills) - 1
        /\ Len(place[o].fills) \in Nat
    BY <1>1, HeadTailProperties, LenProperties
  <2>2. Tail(place[o].fills) = << >> <=> Len(Tail(place[o].fills)) = 0
    BY <2>1, EmptySeq
  <2> QED BY <2>1, <2>2
<1>3. NoPlacement.pending \in OrderEntity
  BY DEF NoPlacement, OrderEntity, Statuses, Open
<1>4. at \in Stages
  BY DEF Stages, AtFill
<1>5. p \in Placement /\ p.at = at /\ p.fills = Tail(place[o].fills)
      /\ p.status = place[o].status
  <2> HIDE DEF at
  <2> QED BY <1>1, <1>2, <1>3, <1>4 DEF Placement
<1>6. place' = [place EXCEPT ![o] = p]
  <2> DEFINE r == [place[o] EXCEPT !.fills = Tail(place[o].fills),
                                   !.pending = NoPlacement.pending,
                                   !.release = 0, !.at = at]
  <2>1. place' = [place EXCEPT ![o] = r]
    BY DEF NextFill
  <2>2. r = [place[o] EXCEPT !.fills = Tail(place[o].fills),
                             !.pending = NoPlacement.pending, !.release = 0, !.at = at]
    OBVIOUS
  <2> HIDE DEF r, at
  <2>3. r = p
    BY <1>1, <2>2 DEF Placement
  <2> QED BY <2>1, <2>3
<1> HIDE DEF at
<1> HIDE DEF p
<1>7. place'[o] = p
  BY <1>6 DEF LocalTyped
<1>8. /\ place' \in [Ids -> Placement]
      /\ \A q \in Ids : q # o => place'[q] = place[q]
  BY <1>5, <1>6 DEF LocalTyped
<1> QED BY <1>2, <1>5, <1>7, <1>8 DEF at

(* The other placements stay as they should be. *)
LEMMA OthersKeep ==
  ASSUME Places, NEW o \in Ids, Grows(o), NEW q \in Ids, q # o
  PROVE  PlaceOK(q)'
<1>1. PlaceOK(q) /\ place'[q] = place[q]
  BY DEF Places, Grows
<1>2. Held(q)'
  BY <1>1 DEF PlaceOK, Held, Grows, Lockable, Sides, Order
<1>3. Unsettled(q)'
  BY <1>1 DEF PlaceOK, Unsettled, Grows
<1>4. AtFillOK(q)'
  BY <1>1 DEF PlaceOK, Held, AtFillOK, Grows
<1>5. AllReported(q)'
  BY <1>1 DEF PlaceOK, AllReported, Grows
<1> QED BY <1>2, <1>3, <1>4, <1>5 DEF PlaceOK

(* A placement that goes on without fills to look after. *)
LEMMA QuietKeeps ==
  ASSUME NEW o \in Ids, PlaceOK(o), Grows(o), place[o].at # "none",
         place'[o].fills = place[o].fills,
         place'[o].at \in (Early \ {"none", "answer"}) \cup Later,
         place'[o].at \in Early => place[o].at \in Early /\ settled' = settled,
         place'[o].at # "failed" => place[o].at # "failed"
  PROVE  PlaceOK(o)'
<1>1. Held(o)'
  BY DEF PlaceOK, Held, Grows, Lockable, Sides, Order, Early, Later
<1>2. Unsettled(o)'
  BY DEF PlaceOK, Unsettled
<1>3. AtFillOK(o)' /\ AllReported(o)'
  BY DEF AtFillOK, AllReported, Early, Later, AtFill
<1> QED BY <1>1, <1>2, <1>3 DEF PlaceOK

(* What an order shows before its own row has been written. *)
Fresh == Early \cup AtFill \cup {"write"}

(* Only the order that goes on may join the list, and only in the end. *)
ListStep(o) ==
  /\ \A q \in Range(list') :
       q \in Range(list) \/ (q = o /\ place'[o].at \in {"done", "failed"})
  /\ place[o].at \in {"done", "failed"} => place'[o].at \in {"done", "failed"}

(* A fill to apply is still to apply, or is settled by the step. *)
ApplyStep(o) ==
  place'[o].at = "apply" =>
    \/ place[o].at = "apply" /\ place'[o].fills = place[o].fills
    \/ Head(place'[o].fills) \notin settled

(* What is shown as filled stays, or it was settled. *)
FilledStep(o) ==
  /\ \A q \in Ids : \/ rows'[q].filled = rows[q].filled
                    \/ rows'[q].filled <= Executed(q, settled')
  /\ \A q \in Ids : \/ memory'[q].filled = memory[q].filled
                    \/ memory'[q].filled <= Executed(q, AppliedTrades')
                       /\ place'[q].at \notin Fresh
  /\ place'[o].at \in Fresh => place[o].at \in Fresh
  /\ place'[o].at = "writeMaker" =>
       place'[o].pending.filled <= Executed(Head(place'[o].fills).maker, settled')

(* What was applied stays applied. *)
LEMMA AppliedGrows ==
  ASSUME NEW o \in Ids, Grows(o), ApplyStep(o)
  PROVE  AppliedTrades \subseteq AppliedTrades'
<1> SUFFICES ASSUME NEW t \in AppliedTrades PROVE t \in AppliedTrades'
  OBVIOUS
<1>1. t \in settled /\ t \in settled'
  BY DEF AppliedTrades, Grows
<1>2. ASSUME NEW q \in Ids, place'[q].at = "apply" PROVE t # Head(place'[q].fills)
  BY <1>1, <1>2 DEF AppliedTrades, Grows, ApplyStep
<1> QED BY <1>1, <1>2 DEF AppliedTrades

(* Trades are finitely many fills, and more of them execute no less. *)
LEMMA SettledGrows ==
  ASSUME EngineTyped, NEW o
  PROVE  /\ \A T \in SUBSET settled : /\ Executed(o, T) \in Nat
                                      /\ Executed(o, T) <= Executed(o, settled)
         /\ Executed(o, settled) \in Nat
         /\ \A T \in SUBSET settled : \A S \in SUBSET T : Executed(o, S) <= Executed(o, T)
<1>1. \A T \in SUBSET settled : T \in SUBSET Fill /\ IsFiniteSet(T)
  BY FS_Subset DEF EngineTyped
<1>2. \A T \in SUBSET settled :
        /\ Executed(o, T) \in Nat
        /\ \A S \in SUBSET T : Executed(o, S) <= Executed(o, T)
  BY <1>1, ExecutedGrows
<1> QED BY <1>2

(* A step of one placement keeps the invariant. *)
LEMMA StepKeeps ==
  ASSUME SettledInv, Typed', EngineOK', NEW o \in Ids, Grows(o), PlaceOK(o)',
         ListStep(o), ApplyStep(o), FilledStep(o)
  PROVE  SettledInv'
<1> USE DEF SettledInv
<1>1. Places'
  BY OthersKeep DEF Places
<1>2. ListOK'
  <2>1. \A q \in Range(list) : q \in Ids
    BY ElementOfSeq, LenProperties DEF Typed, LocalTyped, Range
  <2> QED BY <2>1 DEF ListOK, ListStep, Grows
<1>3. AppliedTrades \subseteq AppliedTrades' /\ AppliedTrades' \subseteq settled'
      /\ settled \subseteq settled'
  BY AppliedGrows DEF AppliedTrades, Grows
<1>4. EngineTyped' /\ EngineTyped
  BY DEF Typed
<1>5. \A q : /\ \A T \in SUBSET settled' :
                  Executed(q, T) \in Nat /\ Executed(q, T) <= Executed(q, settled')
             /\ Executed(q, settled') \in Nat
             /\ \A T \in SUBSET settled' : \A S \in SUBSET T :
                  Executed(q, S) <= Executed(q, T)
  <2> TAKE q
  <2>1. IsFiniteSet(settled') /\ settled' \in SUBSET Fill
    BY <1>4, FS_Subset DEF EngineTyped
  <2>2. \A T \in SUBSET settled' : T \in SUBSET Fill /\ IsFiniteSet(T)
    BY <2>1, FS_Subset
  <2> QED BY <2>1, <2>2, ExecutedGrows
<1>6. \A q \in Ids : /\ rows[q].filled \in Nat /\ rows'[q].filled \in Nat
                     /\ memory[q].filled \in Nat /\ memory'[q].filled \in Nat
                     /\ place[q].pending.filled \in Nat
  BY DEF Typed, LocalTyped, OrderEntity, StoredOrder, Placement
<1>7. ASSUME NEW q \in Ids
      PROVE  rows'[q].filled <= Executed(q, settled')
  <2>1. rows[q].filled <= Executed(q, settled)
    BY DEF FilledOK
  <2>2. /\ Executed(q, settled) <= Executed(q, settled')
        /\ Executed(q, settled) \in Nat /\ Executed(q, settled') \in Nat
    BY <1>3, <1>5
  <2> QED BY <1>6, <2>1, <2>2 DEF FilledStep
<1>8. ASSUME NEW q \in Ids
      PROVE  memory'[q].filled <= Executed(q, AppliedTrades')
  <2>1. memory[q].filled <= Executed(q, AppliedTrades)
    BY DEF FilledOK
  <2>2. /\ Executed(q, AppliedTrades) <= Executed(q, AppliedTrades')
        /\ Executed(q, AppliedTrades) \in Nat /\ Executed(q, AppliedTrades') \in Nat
    BY <1>3, <1>5
  <2> QED BY <1>6, <2>1, <2>2 DEF FilledStep
<1>9. ASSUME NEW q \in Ids, place'[q].at \in Fresh
      PROVE  memory'[q].filled = 0
  BY <1>9 DEF FilledOK, FilledStep, Fresh, Grows
<1>10. ASSUME NEW q \in Ids, place'[q].at = "writeMaker"
       PROVE  place'[q].pending.filled <= Executed(Head(place'[q].fills).maker, settled')
  <2>1. CASE q = o
    BY <1>10, <2>1 DEF FilledStep
  <2>2. CASE q # o
    <3>1. place'[q] = place[q]
      BY <2>2 DEF Grows
    <3> DEFINE m == Head(place[q].fills).maker
    <3>2. place[q].pending.filled <= Executed(m, settled)
      BY <1>10, <3>1 DEF FilledOK
    <3>3. /\ Executed(m, settled) <= Executed(m, settled')
          /\ Executed(m, settled) \in Nat /\ Executed(m, settled') \in Nat
      BY <1>3, <1>5
    <3> HIDE DEF m
    <3>4. place[q].pending.filled <= Executed(m, settled')
      BY <1>6, <3>2, <3>3
    <3> QED BY <3>1, <3>4 DEF m
  <2> QED BY <2>1, <2>2
<1>11. FilledOK'
  BY <1>7, <1>8, <1>9, <1>10 DEF FilledOK, Fresh
<1> QED BY <1>1, <1>2, <1>11

(* Amounts are numbers. *)
LEMMA CostType ==
  ASSUME NEW o, NEW price, Sides(o) # "Sell" => price \in Int, NEW quantity \in Int,
         NEW bps \in Int
  PROVE  Cost(o, price, quantity, bps) \in Int
<1>1. CASE Sides(o) = "Sell"
  BY <1>1 DEF Cost
<1>2. CASE Sides(o) # "Sell"
  <2>1. price \in Int /\ Scale + bps \in Int
    BY <1>2 DEF Scale
  <2>2. price * quantity \in Int
    BY <2>1
  <2>3. price * quantity * (Scale + bps) \in Int
    BY <2>1, <2>2
  <2> QED BY <1>2, <2>3 DEF Cost
<1> QED BY <1>1, <1>2

LEMMA LockTypes ==
  ASSUME OrdersTyped, NEW o \in Placed, Lockable(o), NEW filled \in Int
  PROVE  EstimateLockAmount(o) \in Int /\ RemainingLock(o, filled) \in Int
<1>1. /\ Sides(o) # "Sell" => Order(o).price \in Int
      /\ Order(o).quantity \in Int /\ Order(o).quantity - filled \in Int
      /\ TakerFeeBps \in Int
  BY OrderFound DEF TakerFeeBps
<1> QED BY <1>1, CostType DEF EstimateLockAmount, RemainingLock

(* A step that leaves the engine as it is. *)
LEMMA EngineStays ==
  ASSUME SettledInv, NEW o \in Ids, LocalTyped', UNCHANGED <<asked, engine>>,
         settled \subseteq settled',
         \A t \in settled' : t \in settled \/ (t \in traded /\ t.taker = o),
         \A q \in Ids : q # o => place'[q] = place[q]
  PROVE  Typed' /\ EngineOK' /\ Grows(o)
<1>1. Typed'
  BY DEF SettledInv, Typed, OrdersTyped, EngineTyped, engine
<1>2. EngineOK'
  BY DEF SettledInv, EngineOK, engine, Placed, Order
<1>3. Grows(o)
  BY DEF Grows, engine, Placed
<1> QED BY <1>1, <1>2, <1>3

(* A step of a placement that leaves the engine, with no fill to look after. *)
LEMMA QuietStep ==
  ASSUME SettledInv, NEW o \in Ids, LocalTyped', UNCHANGED <<asked, engine>>,
         settled \subseteq settled',
         \A t \in settled' : t \in settled \/ (t \in traded /\ t.taker = o),
         \A q \in Ids : q # o => place'[q] = place[q],
         place'[o].fills = place[o].fills, place[o].at # "none",
         place'[o].at \in (Early \ {"none", "answer"}) \cup Later,
         place'[o].at \in Early => place[o].at \in Early /\ settled' = settled,
         place'[o].at # "failed" => place[o].at # "failed",
         ListStep(o), FilledStep(o)
  PROVE  SettledInv'
<1>1. Typed' /\ EngineOK' /\ Grows(o)
  BY EngineStays
<1>2. PlaceOK(o)'
  BY <1>1, QuietKeeps DEF SettledInv, Places
<1>3. ApplyStep(o)
  BY DEF ApplyStep, Early, Later
<1> QED BY <1>1, <1>2, <1>3, StepKeeps

(* The same, for a placement that only goes on. *)
LEMMA QuietGoto ==
  ASSUME SettledInv, NEW o \in Ids, NEW at \in (Early \ {"none", "answer"}) \cup Later,
         Goto(o, at), UNCHANGED <<asked, engine, settled>>,
         rows' \in [Ids -> OrderEntity], memory' \in [Ids -> StoredOrder], list' \in Seq(Ids),
         place[o].at \notin {"none", "done", "failed"},
         at \in Early => place[o].at \in Early,
         \A q \in Range(list') : q \in Range(list) \/ (q = o /\ at = "done"),
         \A q \in Ids : rows'[q].filled = rows[q].filled,
         \A q \in Ids : memory'[q].filled = memory[q].filled
  PROVE  SettledInv'
<1>1. LocalTyped
  BY DEF SettledInv, Typed
<1>2. at \in Stages
  BY DEF Stages, Later
<1>3. /\ place' \in [Ids -> Placement]
      /\ \A q \in Ids : q # o => place'[q] = place[q]
      /\ place'[o].at = at /\ place'[o].fills = place[o].fills
  BY <1>1, <1>2, GotoSays
<1>4. LocalTyped'
  BY <1>3 DEF LocalTyped
<1>5. ListStep(o)
  BY <1>3 DEF ListStep
<1>6. FilledStep(o)
  BY <1>3 DEF FilledStep, Fresh, Early, AtFill, Later
<1> QED BY <1>3, <1>4, <1>5, <1>6, QuietStep

LEMMA LockBalanceKeeps ==
  ASSUME SettledInv, NEW o \in Ids, LockBalance(o)
  PROVE  SettledInv'
<1>1. LocalTyped /\ OrdersTyped /\ PlaceOK(o)
  BY DEF SettledInv, Typed, Places
<1>2. o \in Placed /\ Lockable(o) /\ place[o].at = "lock"
  BY <1>1 DEF LockBalance, PlaceOK, Held
<1>3. EstimateLockAmount(o) \in Int
  BY <1>1, <1>2, LockTypes
<1>4. /\ memory' \in [Ids -> StoredOrder]
      /\ \A q \in Ids : memory'[q].filled = memory[q].filled
  BY <1>1, <1>3 DEF LockBalance, LocalTyped, StoredOrder
<1>5. /\ UNCHANGED <<asked, engine, settled, rows, list>> /\ Goto(o, "submit")
  BY DEF LockBalance, database
<1> QED BY <1>1, <1>2, <1>4, <1>5, QuietGoto DEF Early, LocalTyped

LEMMA GiveUpKeeps ==
  ASSUME SettledInv, NEW o \in Ids, GiveUp(o) \/ UnlockRefused(o)
  PROVE  SettledInv'
<1>1. LocalTyped
  BY DEF SettledInv, Typed
<1>2. PICK at \in {"failed", "done"} : Goto(o, at)
  BY DEF GiveUp, UnlockRefused
<1>3. /\ UNCHANGED <<asked, engine, settled, rows, memory, list>>
      /\ place[o].at \in {"giveUp", "unlockRefused"}
  BY DEF GiveUp, UnlockRefused, database, local
<1> QED BY <1>1, <1>2, <1>3, QuietGoto DEF Early, Later, LocalTyped

LEMMA RejectRowKeeps ==
  ASSUME SettledInv, NEW o \in Ids, RejectRow(o)
  PROVE  SettledInv'
<1>1. LocalTyped
  BY DEF SettledInv, Typed
<1>2. "Rejected" \in Statuses
  BY DEF Statuses
<1>3. /\ memory' \in [Ids -> StoredOrder]
      /\ \A q \in Ids : memory'[q].filled = memory[q].filled
  BY <1>1, <1>2 DEF RejectRow, LocalTyped, StoredOrder
<1>4. /\ rows' \in [Ids -> OrderEntity]
      /\ \A q \in Ids : rows'[q].filled = rows[q].filled
  BY <1>1, <1>2 DEF RejectRow, LocalTyped, OrderEntity
<1>5. /\ UNCHANGED <<asked, engine, settled, list>> /\ Goto(o, "unlockRefused")
      /\ place[o].at = "refused"
  BY DEF RejectRow
<1> QED BY <1>1, <1>3, <1>4, <1>5, QuietGoto DEF Early, LocalTyped

LEMMA UnlockUnusedKeeps ==
  ASSUME SettledInv, NEW o \in Ids, UnlockUnused(o)
  PROVE  SettledInv'
<1>1. LocalTyped /\ OrdersTyped /\ PlaceOK(o)
  BY DEF SettledInv, Typed, Places
<1>2. o \in Placed /\ Lockable(o) /\ place[o].at = "unused"
  BY <1>1 DEF UnlockUnused, PlaceOK, Held
<1>3. memory[o].filled \in Int
  BY <1>1 DEF LocalTyped, StoredOrder
<1>4. RestLock(o) \in Int
  BY <1>1, <1>2, <1>3, LockTypes DEF RestLock
<1>5. /\ memory' \in [Ids -> StoredOrder]
      /\ \A q \in Ids : memory'[q].filled = memory[q].filled
  BY <1>1, <1>4 DEF UnlockUnused, LocalTyped, StoredOrder
<1>6. /\ UNCHANGED <<asked, engine, settled, rows, list>> /\ Goto(o, "rest")
  BY DEF UnlockUnused, database
<1> QED BY <1>1, <1>2, <1>5, <1>6, QuietGoto DEF Early, Later, LocalTyped

LEMMA RestKeeps ==
  ASSUME SettledInv, NEW o \in Ids, Rest(o)
  PROVE  SettledInv'
<1>1. LocalTyped
  BY DEF SettledInv, Typed
<1>2. /\ list' \in Seq(Ids)
      /\ \A q \in Range(list') : q \in Range(list) \/ q = o
  <2>1. list \in Seq(Ids)
    BY <1>1 DEF LocalTyped
  <2>2. CASE list' = list
    BY <2>1, <2>2
  <2>3. CASE list' = Append(list, o)
    <3>1. /\ list' \in Seq(Ids) /\ Len(list') = Len(list) + 1 /\ Len(list) \in Nat
          /\ \A i \in 1..Len(list) : list'[i] = list[i]
          /\ list'[Len(list) + 1] = o
      BY <2>1, <2>3, AppendProperties, LenProperties
    <3>2. DOMAIN list' = 1..Len(list') /\ DOMAIN list = 1..Len(list)
      BY <2>1, <3>1, LenProperties
    <3> QED BY <3>1, <3>2 DEF Range
  <2> QED BY <2>2, <2>3 DEF Rest
<1>3. /\ UNCHANGED <<asked, engine, settled, rows, memory>> /\ Goto(o, "done")
      /\ place[o].at = "rest"
  BY DEF Rest, database
<1> QED BY <1>1, <1>2, <1>3, QuietGoto DEF Early, Later, LocalTyped

LEMMA RefusedKeeps ==
  ASSUME SettledInv, NEW o \in Ids, Refused(o)
  PROVE  SettledInv'
<1>1. LocalTyped
  BY DEF SettledInv, Typed
<1>2. /\ UNCHANGED <<asked, engine, settled, rows, memory, list>> /\ Goto(o, "failed")
  BY DEF Refused, database, local
<1>3. place[o].at \notin {"none", "done", "failed"}
  BY DEF Refused, Wanted
<1> QED BY <1>1, <1>2, <1>3, QuietGoto DEF Early, Later, LocalTyped

LEMMA CallFailsKeeps ==
  ASSUME SettledInv, NEW o \in Ids, CallFails(o)
  PROVE  SettledInv'
<1>1. LocalTyped
  BY DEF SettledInv, Typed
<1>2. PICK at \in {"giveUp", "submit"} :
        place' = [place EXCEPT ![o].at = at, ![o].attempts = place[o].attempts + 1]
  BY DEF CallFails
<1>3. place[o] \in Placement /\ place[o].attempts + 1 \in Nat
  BY <1>1 DEF LocalTyped, Placement
<1>4. at \in Stages
  BY DEF Stages, Early
<1> DEFINE p == [place[o] EXCEPT !.at = at, !.attempts = place[o].attempts + 1]
<1>5. p \in Placement /\ p.at = at /\ p.fills = place[o].fills
  BY <1>3, <1>4 DEF Placement
<1>6. place' = [place EXCEPT ![o] = p]
  BY <1>2
<1> HIDE DEF p
<1>7. /\ place' \in [Ids -> Placement] /\ place'[o] = p
      /\ \A q \in Ids : q # o => place'[q] = place[q]
  BY <1>1, <1>5, <1>6 DEF LocalTyped
<1>8. /\ UNCHANGED <<asked, engine, settled, rows, memory, list>>
      /\ place[o].at \in {"submit", "answer"}
  BY DEF CallFails, database, local
<1>9. LocalTyped'
  BY <1>1, <1>7, <1>8 DEF LocalTyped
<1>10. ListStep(o)
  BY <1>8 DEF ListStep
<1>11. FilledStep(o)
  BY <1>5, <1>7, <1>8 DEF FilledStep, Fresh, Early
<1> QED BY <1>5, <1>7, <1>8, <1>9, <1>10, <1>11, QuietStep DEF Early

(* The next fill of a placement is a trade of its order. *)
LEMMA FirstFill ==
  ASSUME SettledInv, NEW o \in Ids, place[o].at \in AtFill
  PROVE  /\ place[o].fills \in Seq(Fill) /\ place[o].fills # << >>
         /\ Len(place[o].fills) \in Nat \ {0} /\ DOMAIN place[o].fills = 1..Len(place[o].fills)
         /\ Head(place[o].fills) = place[o].fills[1]
         /\ Head(place[o].fills) \in Fill
         /\ Head(place[o].fills) \in traded /\ Head(place[o].fills).taker = o
         /\ Head(place[o].fills).maker \in Ids /\ Head(place[o].fills).maker # o
         /\ Head(place[o].fills).quantity \in Nat /\ Head(place[o].fills).price \in Nat
         /\ Head(place[o].fills).maker \in Placed
<1>1. place[o].fills \in Seq(Fill)
  BY DEF SettledInv, Typed, LocalTyped, Placement
<1>2. PlaceOK(o)
  BY DEF SettledInv, Places
<1>3. place[o].fills # << >>
  BY <1>2 DEF PlaceOK, AtFillOK
<1>4. /\ Len(place[o].fills) \in Nat \ {0} /\ DOMAIN place[o].fills = 1..Len(place[o].fills)
      /\ Head(place[o].fills) = place[o].fills[1] /\ Head(place[o].fills) \in Fill
  BY <1>1, <1>3, EmptySeq, LenProperties, HeadTailProperties
<1>5. 1 \in DOMAIN place[o].fills
  BY <1>4
<1>6. Head(place[o].fills) \in traded /\ Head(place[o].fills).taker = o
  BY <1>2, <1>4, <1>5 DEF PlaceOK, Held
<1>7. Head(place[o].fills).maker # o /\ Head(place[o].fills).maker \in Placed
  BY <1>6 DEF SettledInv, EngineOK
<1> QED BY <1>1, <1>3, <1>4, <1>6, <1>7 DEF Fill

LEMMA FailKeeps ==
  ASSUME SettledInv, NEW o \in Ids, Fail(o)
  PROVE  SettledInv'
<1>1. LocalTyped
  BY DEF SettledInv, Typed
<1>2. /\ UNCHANGED <<asked, engine, rows, memory, list>> /\ Goto(o, "failed")
      /\ place[o].at \notin {"none", "done", "failed"}
  BY DEF Fail, database, local
<1>3. /\ settled \subseteq settled'
      /\ \A t \in settled' : t \in settled \/ (t \in traded /\ t.taker = o)
  <2>1. CASE settled' = settled
    BY <2>1
  <2>2. CASE settled' # settled
    <3>1. place[o].at = "settle" /\ settled' = settled \cup {Head(place[o].fills)}
      BY <2>2 DEF Fail
    <3> QED BY <3>1, FirstFill DEF AtFill
  <2> QED BY <2>1, <2>2
<1>4. "failed" \in Stages
  BY DEF Stages, Later
<1>5. /\ place' \in [Ids -> Placement]
      /\ \A q \in Ids : q # o => place'[q] = place[q]
      /\ place'[o].at = "failed" /\ place'[o].fills = place[o].fills
  BY <1>1, <1>2, <1>4, GotoSays
<1>6. LocalTyped'
  BY <1>1, <1>2, <1>5 DEF LocalTyped
<1>7. ListStep(o)
  BY <1>2, <1>5 DEF ListStep
<1>8. FilledStep(o)
  BY <1>2, <1>5 DEF FilledStep, Fresh, Early, AtFill
<1> QED BY <1>2, <1>3, <1>5, <1>6, <1>7, <1>8, QuietStep DEF Early, Later

(* What an order took has been settled when its own row is written. *)
LEMMA WriteOrderKeeps ==
  ASSUME SettledInv, NEW o \in Ids, WriteOrder(o)
  PROVE  SettledInv'
<1> DEFINE n == Executed(o, FillsReported(o))
<1>1. LocalTyped /\ EngineTyped /\ PlaceOK(o)
  BY DEF SettledInv, Typed, Places
<1>2. /\ UNCHANGED <<asked, engine, settled, list>> /\ Goto(o, "unused")
      /\ place[o].at = "write"
  BY DEF WriteOrder
<1>3. memory[o].filled = 0
  BY <1>2 DEF SettledInv, FilledOK
<1>4. place[o].status \in Statuses /\ place[o].fills = << >>
      /\ \A t \in traded : t.taker = o => t \in settled
  <2>1. place[o].fills = << >> /\ place[o].status # "Refused"
        /\ \A t \in traded : t.taker = o => t \in settled \cup Range(place[o].fills)
    BY <1>1, <1>2 DEF PlaceOK, AtFillOK, AllReported
  <2>2. Range(place[o].fills) = {}
    BY <2>1 DEF Range
  <2> QED BY <1>1, <2>1, <2>2 DEF LocalTyped, Placement
<1>5. FillsReported(o) \in SUBSET settled
  BY <1>1, <1>4 DEF FillsReported, EngineTyped
<1>6. "unused" \in Stages
  BY DEF Stages, Later
<1>7. /\ place' \in [Ids -> Placement]
      /\ \A q \in Ids : q # o => place'[q] = place[q]
      /\ place'[o].at = "unused" /\ place'[o].fills = place[o].fills
  BY <1>1, <1>2, <1>6, GotoSays
<1>8. FillsReported(o) \subseteq AppliedTrades'
  <2> SUFFICES ASSUME NEW t \in FillsReported(o), NEW q \in Ids, place'[q].at = "apply"
               PROVE  t # Head(place'[q].fills)
    BY <1>2, <1>5 DEF AppliedTrades
  <2>1. q # o /\ place'[q] = place[q] /\ t.taker = o
    BY <1>7 DEF FillsReported
  <2>2. Head(place[q].fills).taker = q
    BY <2>1, FirstFill DEF AtFill
  <2> QED BY <2>1, <2>2
<1>9. AppliedTrades' \subseteq settled /\ settled' = settled
  BY <1>2 DEF AppliedTrades
<1>10. n \in Nat /\ n <= Executed(o, settled) /\ n <= Executed(o, AppliedTrades')
  BY <1>1, <1>5, <1>8, <1>9, SettledGrows
<1> HIDE DEF n
<1>11. /\ rows' = [rows EXCEPT ![o] = [filled |-> n, status |-> place[o].status]]
       /\ memory' = [memory EXCEPT ![o].filled = n, ![o].status = place[o].status]
  <2>1. memory[o].filled + n = n
    BY <1>3, <1>10
  <2> QED BY <2>1 DEF WriteOrder, n
<1>12. /\ rows' \in [Ids -> OrderEntity] /\ rows'[o].filled = n
       /\ \A q \in Ids : q # o => rows'[q].filled = rows[q].filled
  BY <1>1, <1>4, <1>10, <1>11 DEF LocalTyped, OrderEntity
<1>13. /\ memory' \in [Ids -> StoredOrder] /\ memory'[o].filled = n
       /\ \A q \in Ids : q # o => memory'[q].filled = memory[q].filled
  BY <1>1, <1>4, <1>10, <1>11 DEF LocalTyped, StoredOrder
<1>14. LocalTyped'
  BY <1>1, <1>2, <1>7, <1>12, <1>13 DEF LocalTyped
<1>15. ListStep(o)
  BY <1>2 DEF ListStep
<1>16. FilledStep(o)
  BY <1>2, <1>7, <1>10, <1>12, <1>13 DEF FilledStep, Fresh, Early, AtFill
<1> QED BY <1>2, <1>7, <1>14, <1>15, <1>16, QuietStep DEF Early, Later

LEMMA AnsweredKeeps ==
  ASSUME SettledInv, NEW o \in Ids, Answered(o)
  PROVE  SettledInv'
<1> DEFINE at == IF place[o].status = "Refused" THEN "refused"
                 ELSE IF place[o].fills = << >> THEN "write" ELSE "settle"
<1>1. LocalTyped /\ PlaceOK(o)
  BY DEF SettledInv, Typed, Places
<1>2. /\ UNCHANGED <<asked, engine, settled, rows, memory, list>> /\ Goto(o, at)
      /\ place[o].at = "answer"
  BY DEF Answered, database, local
<1>3. at \in Stages
  BY DEF Stages, Early, AtFill
<1>4. CASE place[o].status = "Refused"
  <2>1. at = "refused"
    BY <1>4
  <2> HIDE DEF at
  <2> QED BY <1>1, <1>2, <2>1, QuietGoto DEF Early, LocalTyped
<1>5. CASE place[o].status # "Refused"
  <2>1. at = IF place[o].fills = << >> THEN "write" ELSE "settle"
    BY <1>5
  <2> HIDE DEF at
  <2>2. /\ place' \in [Ids -> Placement]
        /\ \A q \in Ids : q # o => place'[q] = place[q]
        /\ place'[o].at = at /\ place'[o].fills = place[o].fills
        /\ place'[o].status = place[o].status
    BY <1>1, <1>2, <1>3, GotoSays
  <2>3. LocalTyped'
    BY <1>1, <1>2, <2>2 DEF LocalTyped
  <2>4. Typed' /\ EngineOK' /\ Grows(o)
    BY <1>2, <2>2, <2>3, EngineStays
  <2>5. Held(o)'
    BY <1>1, <1>2, <2>1, <2>2 DEF PlaceOK, Held, engine, Lockable, Sides, Order, Placed
  <2>6. Unsettled(o)' /\ AtFillOK(o)'
    BY <1>1, <1>2, <2>1, <2>2 DEF PlaceOK, Held, Unsettled, AtFillOK, Early, AtFill
  <2>7. AllReported(o)'
    BY <1>1, <1>2, <1>5, <2>1, <2>2 DEF PlaceOK, AllReported, AtFill, engine
  <2>8. ListStep(o) /\ ApplyStep(o)
    BY <1>2, <2>1, <2>2 DEF ListStep, ApplyStep
  <2>9. FilledStep(o)
    BY <1>2, <2>1, <2>2 DEF FilledStep, Fresh, Early
  <2> QED BY <2>4, <2>5, <2>6, <2>7, <2>8, <2>9, StepKeeps DEF PlaceOK
<1> QED BY <1>4, <1>5

(* The first fill is settled, which it was not before. *)
LEMMA SettleKeeps ==
  ASSUME SettledInv, NEW o \in Ids, Settle(o)
  PROVE  SettledInv'
<1> DEFINE t == Head(place[o].fills)
<1>1. LocalTyped /\ PlaceOK(o)
  BY DEF SettledInv, Typed, Places
<1>2. /\ UNCHANGED <<asked, engine, rows, memory, list>> /\ Goto(o, "apply")
      /\ place[o].at = "settle" /\ settled' = settled \cup {t}
  BY DEF Settle, database, local
<1>3. /\ t = place[o].fills[1] /\ t \in traded /\ t.taker = o
      /\ 1 \in DOMAIN place[o].fills
  BY <1>2, FirstFill DEF AtFill
<1> HIDE DEF t
<1>4. "apply" \in Stages
  BY DEF Stages, AtFill
<1>5. /\ place' \in [Ids -> Placement]
      /\ \A q \in Ids : q # o => place'[q] = place[q]
      /\ place'[o].at = "apply" /\ place'[o].fills = place[o].fills
      /\ place'[o].status = place[o].status
  BY <1>1, <1>2, <1>4, GotoSays
<1>6. LocalTyped'
  BY <1>1, <1>2, <1>5 DEF LocalTyped
<1>7. Typed' /\ EngineOK' /\ Grows(o)
  BY <1>2, <1>3, <1>5, <1>6, EngineStays
<1>8. Held(o)'
  BY <1>1, <1>2, <1>5 DEF PlaceOK, Held, engine, Lockable, Sides, Order, Placed
<1>9. Unsettled(o)' /\ AtFillOK(o)'
  BY <1>1, <1>2, <1>3, <1>5 DEF PlaceOK, Held, Unsettled, AtFillOK, Early, AtFill
<1>10. AllReported(o)'
  BY <1>1, <1>2, <1>5 DEF PlaceOK, AllReported, AtFill, engine
<1>11. ApplyStep(o)
  BY <1>1, <1>2, <1>3, <1>5 DEF ApplyStep, PlaceOK, AtFillOK, t
<1>12. ListStep(o) /\ FilledStep(o)
  BY <1>2, <1>5 DEF ListStep, FilledStep, Fresh, AtFill
<1> QED BY <1>7, <1>8, <1>9, <1>10, <1>11, <1>12, StepKeeps DEF PlaceOK

(* A placement that has settled the first fill goes on with it. *)
LEMMA AtFillGoesOn ==
  ASSUME SettledInv, NEW o \in Ids, LocalTyped', UNCHANGED <<asked, engine, settled>>,
         \A q \in Ids : q # o => place'[q] = place[q],
         place'[o].fills = place[o].fills, place'[o].status = place[o].status,
         place[o].at \in AtFill \ {"settle"}, place'[o].at \in AtFill \ {"settle", "apply"},
         ListStep(o), FilledStep(o)
  PROVE  SettledInv'
<1>1. PlaceOK(o)
  BY DEF SettledInv, Places
<1>2. Typed' /\ EngineOK' /\ Grows(o)
  BY EngineStays
<1>3. Held(o)'
  BY <1>1 DEF PlaceOK, Held, engine, Lockable, Sides, Order, Placed, AtFill
<1>4. Unsettled(o)' /\ AtFillOK(o)'
  BY <1>1 DEF PlaceOK, Held, Unsettled, AtFillOK, Early, AtFill
<1>5. AllReported(o)'
  BY <1>1 DEF PlaceOK, AllReported, AtFill, engine
<1>6. ApplyStep(o)
  BY DEF ApplyStep
<1> QED BY <1>2, <1>3, <1>4, <1>5, <1>6, StepKeeps DEF PlaceOK

(* The rest of the fills are not settled yet; those that are passed are. *)
LEMMA FillsGoOn ==
  ASSUME SettledInv, NEW o \in Ids, LocalTyped', UNCHANGED <<asked, engine, settled>>,
         NextFill(o), place[o].at \in AtFill \ {"settle"}, ListStep(o), FilledStep(o)
  PROVE  SettledInv'
<1> DEFINE f == place[o].fills
           g == place'[o].fills
<1>1. PlaceOK(o) /\ LocalTyped
  BY DEF SettledInv, Places, Typed
<1>2. f \in Seq(Fill) /\ f # << >> /\ Len(f) \in Nat \ {0} /\ DOMAIN f = 1..Len(f)
  BY FirstFill
<1>3. /\ \A q \in Ids : q # o => place'[q] = place[q]
      /\ g = Tail(f) /\ place'[o].status = place[o].status
      /\ place'[o].at = IF g = << >> THEN "write" ELSE "settle"
  BY <1>1, <1>2, NextFillSays
<1>4. /\ g \in Seq(Fill) /\ DOMAIN g = 1..Len(f) - 1
      /\ \A i \in DOMAIN g : i + 1 \in DOMAIN f /\ g[i] = f[i + 1] /\ i + 1 # 1
  <2>1. /\ Tail(f) \in Seq(Fill) /\ Len(Tail(f)) = Len(f) - 1
        /\ \A i \in 1..Len(Tail(f)) : Tail(f)[i] = f[i + 1]
    BY <1>2, HeadTailProperties
  <2>2. DOMAIN Tail(f) = 1..Len(Tail(f))
    BY <2>1, LenProperties
  <2> HIDE DEF f, g
  <2> QED BY <1>2, <1>3, <2>1, <2>2
<1>5. Typed' /\ EngineOK' /\ Grows(o)
  BY <1>3, EngineStays
<1> HIDE DEF f, g
<1>6. /\ f = place[o].fills /\ g = place'[o].fills
  BY DEF f, g
<1>7. \A i \in DOMAIN f : f[i] \in traded /\ f[i].taker = o /\ (f[i] \in settled <=> i = 1)
  BY <1>1, <1>6 DEF PlaceOK, Held, AtFillOK
<1>8. \A i, j \in DOMAIN f : f[i] = f[j] => i = j
  BY <1>1, <1>6 DEF PlaceOK, Held
<1>9. \A i, j \in DOMAIN g : g[i] = g[j] => i = j
  <2>1. DOMAIN g \subseteq Nat
    BY <1>2, <1>4
  <2> QED BY <1>4, <1>8, <2>1
<1>10. o \in Range(seen) /\ o \in Placed /\ Lockable(o)
  BY <1>1, <1>2, <1>6 DEF PlaceOK, Held, AtFill
<1>11. Held(o)'
  <2>1. \A i \in DOMAIN g : g[i] \in traded' /\ g[i].taker = o
    BY <1>4, <1>7 DEF engine
  <2>2. o \in Placed' /\ Lockable(o)' /\ o \in Range(seen')
    BY <1>10 DEF Lockable, Sides, Order, engine, Placed
  <2> QED BY <1>3, <1>6, <1>9, <2>1, <2>2 DEF Held
<1>12. Unsettled(o)'
  BY <1>3 DEF Unsettled, Early
<1>13. AtFillOK(o)'
  <2>1. \A i \in DOMAIN g : g[i] \notin settled'
    BY <1>4, <1>7
  <2> QED BY <1>3, <1>6, <2>1 DEF AtFillOK, AtFill
<1>14. AllReported(o)'
  <2>1. place[o].status # "Refused" /\ \A t \in traded : t.taker = o => t \in settled \cup Range(f)
    BY <1>1, <1>6 DEF PlaceOK, AllReported, AtFill
  <2>2. \A t \in Range(f) : t \in settled \/ t \in Range(g)
    <3> SUFFICES ASSUME NEW i \in DOMAIN f, i # 1 PROVE f[i] \in Range(g)
      BY <1>7 DEF Range
    <3>1. i - 1 \in DOMAIN g /\ (i - 1) + 1 = i
      BY <1>2, <1>4
    <3>2. g[i - 1] = f[i]
      BY <1>4, <3>1
    <3> QED BY <3>1, <3>2 DEF Range
  <2> QED BY <1>3, <1>6, <2>1, <2>2 DEF AllReported, engine
<1>15. ApplyStep(o)
  BY <1>3 DEF ApplyStep
<1> QED BY <1>5, <1>11, <1>12, <1>13, <1>14, <1>15, StepKeeps DEF PlaceOK

(* What is executed of the maker of the fill that is applied. *)
LEMMA FillCounted ==
  ASSUME SettledInv, NEW o \in Ids, place[o].at = "apply"
  PROVE  LET t == Head(place[o].fills)
         IN /\ t \in settled
            /\ memory[t.maker].filled + t.quantity <= Executed(t.maker, settled)
            /\ \A T \in SUBSET settled : AppliedTrades \cup {t} \subseteq T =>
                 memory[t.maker].filled + t.quantity <= Executed(t.maker, T)
<1> DEFINE t == Head(place[o].fills)
           m == t.maker
<1>1. /\ t \in Fill /\ t = place[o].fills[1] /\ 1 \in DOMAIN place[o].fills
      /\ m \in Ids /\ t.quantity \in Nat
  BY FirstFill DEF AtFill
<1>2. PlaceOK(o) /\ EngineTyped
  BY DEF SettledInv, Places, Typed
<1>3. t \in settled /\ t \notin AppliedTrades
  BY <1>1, <1>2 DEF PlaceOK, AtFillOK, AtFill, AppliedTrades
<1> HIDE DEF t
<1>4. AppliedTrades \in SUBSET Fill /\ IsFiniteSet(AppliedTrades)
      /\ AppliedTrades \in SUBSET settled
  <2>1. AppliedTrades \in SUBSET settled
    BY DEF AppliedTrades
  <2> QED BY <1>2, <2>1, FS_Subset DEF EngineTyped
<1>5. Executed(m, AppliedTrades \cup {t}) = Executed(m, AppliedTrades) + t.quantity
  BY <1>1, <1>3, <1>4, ExecutedAdds
<1>6. memory[m].filled <= Executed(m, AppliedTrades)
  BY <1>1 DEF SettledInv, FilledOK
<1>7. memory[m].filled \in Nat
  BY <1>1 DEF SettledInv, Typed, LocalTyped, StoredOrder
<1>8. ASSUME NEW T \in SUBSET settled, AppliedTrades \cup {t} \subseteq T
      PROVE  memory[m].filled + t.quantity <= Executed(m, T)
  <2>1. /\ Executed(m, AppliedTrades \cup {t}) <= Executed(m, T) /\ Executed(m, T) \in Nat
        /\ Executed(m, AppliedTrades) \in Nat
    BY <1>2, <1>4, <1>8, SettledGrows
  <2> HIDE DEF m
  <2> QED BY <1>1, <1>5, <1>6, <1>7, <2>1
<1>9. AppliedTrades \cup {t} \subseteq settled
  BY <1>3, <1>4
<1> QED BY <1>3, <1>8, <1>9 DEF t

(* A maker of the list shows one more settled trade. *)
LEMMA MakerApplied ==
  ASSUME SettledInv, NEW o \in Ids, ApplyFill(o), Head(place[o].fills).maker \in Range(list)
  PROVE  SettledInv'
<1> DEFINE t == Head(place[o].fills)
           m == t.maker
           filled == memory[m].filled + t.quantity
           status == IF filled >= Order(m).quantity THEN "Filled" ELSE "PartiallyFilled"
           locked == memory[m].locked - Cost(m, t.price, t.quantity, MakerFeeBps)
           pending == [filled |-> filled, status |-> status]
           p == [place[o] EXCEPT !.at = "writeMaker", !.pending = pending]
<1>1. LocalTyped /\ place[o].at = "apply"
  BY DEF SettledInv, Typed, ApplyFill
<1>2. /\ m \in Ids /\ t.quantity \in Nat /\ t.price \in Nat /\ t.taker = o /\ m # o
      /\ m \in Placed
  BY <1>1, FirstFill DEF AtFill
<1>3. UNCHANGED <<asked, engine, settled, rows, list>>
  BY DEF ApplyFill, database
<1>4. memory' = [memory EXCEPT ![m] = [filled |-> filled, status |-> status, locked |-> locked]]
  BY DEF ApplyFill
<1>5. place' = [place EXCEPT ![o] = p]
  BY DEF ApplyFill
<1>6. /\ t \in settled
      /\ filled <= Executed(m, settled)
      /\ \A T \in SUBSET settled : AppliedTrades \cup {t} \subseteq T =>
           filled <= Executed(m, T)
  BY <1>1, FillCounted
<1> HIDE DEF t
<1>7. memory[m] \in StoredOrder /\ memory[m].filled \in Nat /\ memory[m].locked \in Int
  BY <1>1, <1>2 DEF LocalTyped, StoredOrder
<1>8. filled \in Nat /\ status \in Statuses
  BY <1>2, <1>7 DEF Statuses, Open
<1>9. locked \in Int
  <2>1. /\ Sides(m) # "Sell" => t.price \in Int
        /\ t.quantity \in Int /\ MakerFeeBps \in Int
    BY <1>2 DEF MakerFeeBps
  <2>2. Cost(m, t.price, t.quantity, MakerFeeBps) \in Int
    BY <2>1, CostType
  <2> QED BY <1>7, <2>2
<1> HIDE DEF filled, status, locked
<1>10. pending \in OrderEntity /\ pending.filled = filled
  BY <1>8 DEF OrderEntity
<1> HIDE DEF pending
<1>11. /\ p \in Placement /\ p.at = "writeMaker" /\ p.fills = place[o].fills
       /\ p.status = place[o].status /\ p.pending = pending
  BY <1>1, <1>10 DEF LocalTyped, Placement, Stages, AtFill
<1> HIDE DEF p
<1>12. /\ place' \in [Ids -> Placement] /\ place'[o] = p
       /\ \A q \in Ids : q # o => place'[q] = place[q]
  BY <1>1, <1>5, <1>11 DEF LocalTyped
<1>13. /\ memory' \in [Ids -> StoredOrder] /\ memory'[m].filled = filled
       /\ \A q \in Ids : q # m => memory'[q] = memory[q]
  BY <1>1, <1>2, <1>4, <1>8, <1>9 DEF LocalTyped, StoredOrder
<1>14. LocalTyped'
  BY <1>1, <1>3, <1>12, <1>13 DEF LocalTyped
<1>15. AppliedTrades \cup {t} \subseteq AppliedTrades' /\ AppliedTrades' \in SUBSET settled
  <2>1. ASSUME NEW q \in Ids, place'[q].at = "apply" PROVE t # Head(place'[q].fills)
    <3>1. q # o /\ place'[q] = place[q]
      BY <1>11, <1>12, <2>1
    <3>2. Head(place[q].fills).taker = q
      BY <2>1, <3>1, FirstFill DEF AtFill
    <3> QED BY <1>2, <3>1, <3>2
  <2>2. \A q \in Ids : place'[q].at = "apply" => place[q].at = "apply" /\ place'[q] = place[q]
    BY <1>11, <1>12
  <2> QED BY <1>3, <1>6, <2>1, <2>2 DEF AppliedTrades
<1>16. filled <= Executed(m, AppliedTrades')
  BY <1>6, <1>15
<1>17. place'[m].at \notin Fresh
  <2>1. place[m].at \in {"done", "failed"}
    BY DEF SettledInv, ListOK, t
  <2> QED BY <1>2, <1>12, <2>1 DEF Fresh, Early, AtFill
<1>18. FilledStep(o)
  <2>1. place'[o].at = "writeMaker" /\ place[o].at \in Fresh
    BY <1>1, <1>11, <1>12 DEF Fresh, AtFill
  <2>2. place'[o].pending.filled <= Executed(Head(place'[o].fills).maker, settled')
    BY <1>3, <1>6, <1>10, <1>11, <1>12 DEF t
  <2>3. \A q \in Ids : \/ memory'[q].filled = memory[q].filled
                       \/ memory'[q].filled <= Executed(q, AppliedTrades')
                          /\ place'[q].at \notin Fresh
    BY <1>13, <1>16, <1>17
  <2> QED BY <1>3, <2>1, <2>2, <2>3 DEF FilledStep
<1>19. ListStep(o)
  BY <1>1, <1>3 DEF ListStep
<1> QED BY <1>1, <1>3, <1>11, <1>12, <1>14, <1>18, <1>19, AtFillGoesOn DEF AtFill

LEMMA ApplyFillKeeps ==
  ASSUME SettledInv, NEW o \in Ids, ApplyFill(o)
  PROVE  SettledInv'
<1>1. CASE Head(place[o].fills).maker \in Range(list)
  BY <1>1, MakerApplied
<1>2. CASE Head(place[o].fills).maker \notin Range(list)
  <2>1. /\ UNCHANGED <<asked, engine, settled, rows, list, memory>> /\ NextFill(o)
        /\ place[o].at = "apply"
    BY <1>2 DEF ApplyFill, database
  <2>2. LocalTyped /\ place[o].fills # << >>
    BY <2>1, FirstFill DEF SettledInv, Typed, AtFill
  <2>3. /\ place' \in [Ids -> Placement] /\ place'[o].at \in {"write", "settle"}
    BY <2>1, <2>2, NextFillSays
  <2>4. LocalTyped' /\ ListStep(o) /\ FilledStep(o)
    BY <2>1, <2>2, <2>3 DEF LocalTyped, ListStep, FilledStep, Fresh, AtFill
  <2> QED BY <2>1, <2>4, FillsGoOn DEF AtFill
<1> QED BY <1>1, <1>2

(* The maker's row is written as the order was when the fill was applied. *)
LEMMA WriteMakerKeeps ==
  ASSUME SettledInv, NEW o \in Ids, WriteMaker(o)
  PROVE  SettledInv'
<1> DEFINE m == Head(place[o].fills).maker
<1>1. LocalTyped /\ place[o].at = "writeMaker" /\ place[o] \in Placement
  BY DEF SettledInv, Typed, WriteMaker, LocalTyped
<1>2. m \in Ids /\ place[o].fills # << >>
  BY <1>1, FirstFill DEF AtFill
<1>3. /\ UNCHANGED <<asked, engine, settled, memory, list>>
      /\ rows' = [rows EXCEPT ![m] = place[o].pending]
  BY DEF WriteMaker, local
<1>4. place[o].pending \in OrderEntity /\ place[o].pending.filled <= Executed(m, settled)
  BY <1>1 DEF Placement, SettledInv, FilledOK
<1>5. /\ rows' \in [Ids -> OrderEntity] /\ rows'[m] = place[o].pending
      /\ \A q \in Ids : q # m => rows'[q] = rows[q]
  <2> HIDE DEF m
  <2> QED BY <1>1, <1>2, <1>3, <1>4 DEF LocalTyped
<1>6. \A q \in Ids : rows'[q].filled = rows[q].filled \/ rows'[q].filled <= Executed(q, settled')
  <2> HIDE DEF m
  <2> QED BY <1>3, <1>4, <1>5
<1>7. CASE memory[m].status = "Filled"
  <2> DEFINE p == [place[o] EXCEPT !.at = "unlockMaker", !.release = memory[m].locked]
  <2>1. place' = [place EXCEPT ![o] = p]
    BY <1>7 DEF WriteMaker
  <2>2. memory[m].locked \in Int
    BY <1>1, <1>2 DEF LocalTyped, StoredOrder
  <2>3. /\ p \in Placement /\ p.at = "unlockMaker" /\ p.fills = place[o].fills
        /\ p.status = place[o].status
    BY <1>1, <2>2 DEF Placement, Stages, AtFill
  <2> HIDE DEF p
  <2>4. /\ place' \in [Ids -> Placement] /\ place'[o] = p
        /\ \A q \in Ids : q # o => place'[q] = place[q]
    BY <1>1, <2>1, <2>3 DEF LocalTyped
  <2>5. LocalTyped'
    BY <1>1, <1>3, <1>5, <2>4 DEF LocalTyped
  <2>6. ListStep(o)
    BY <1>1, <1>3 DEF ListStep
  <2>7. FilledStep(o)
    BY <1>1, <1>3, <1>6, <2>3, <2>4 DEF FilledStep, Fresh, AtFill
  <2> QED BY <1>1, <1>3, <2>3, <2>4, <2>5, <2>6, <2>7, AtFillGoesOn DEF AtFill
<1>8. CASE memory[m].status # "Filled"
  <2>1. NextFill(o)
    BY <1>8 DEF WriteMaker
  <2>2. /\ place' \in [Ids -> Placement] /\ place'[o].at \in {"write", "settle"}
    BY <1>1, <1>2, <2>1, NextFillSays
  <2>3. LocalTyped'
    BY <1>1, <1>3, <1>5, <2>2 DEF LocalTyped
  <2>4. ListStep(o)
    BY <1>1, <1>3 DEF ListStep
  <2>5. FilledStep(o)
    BY <1>1, <1>3, <1>6, <2>2 DEF FilledStep, Fresh, AtFill
  <2> QED BY <1>1, <1>3, <2>1, <2>3, <2>4, <2>5, FillsGoOn DEF AtFill
<1> QED BY <1>7, <1>8

(* What is spliced leaves the list; nothing joins it. *)
LEMMA SplicedType ==
  ASSUME list \in Seq(Ids), NEW o
  PROVE  Spliced(o) \in Seq(Ids) /\ \A q \in Range(Spliced(o)) : q \in Range(list)
<1> DEFINE R == Range(list)
<1>1. /\ Len(list) \in Nat /\ DOMAIN list = 1..Len(list)
      /\ \A i \in 1..Len(list) : list[i] \in R /\ list[i] \in Ids
  BY LenProperties, ElementOfSeq DEF Range
<1>2. ASSUME NEW m \in Int, NEW n \in Int, 1 <= m, n <= Len(list)
      PROVE  SubSeq(list, m, n) \in Seq(R)
  BY <1>1, <1>2, SubSeqProperties
<1>3. R \subseteq Ids
  BY <1>1 DEF Range
<1>4. list \in Seq(R)
  BY <1>1, SeqDef DEF Range
<1>5. Spliced(o) \in Seq(R)
  <2>1. CASE o \in Range(list)
    <3> DEFINE i == CHOOSE i \in DOMAIN list : list[i] = o
    <3>1. i \in 1..Len(list)
      BY <1>1, <2>1 DEF Range
    <3>2. Spliced(o) = SubSeq(list, 1, i - 1) \o SubSeq(list, i + 1, Len(list))
      BY <2>1 DEF Spliced, RemoveAt
    <3> HIDE DEF i, R
    <3>3. SubSeq(list, 1, i - 1) \in Seq(R) /\ SubSeq(list, i + 1, Len(list)) \in Seq(R)
      BY <1>1, <1>2, <3>1
    <3> QED BY <3>2, <3>3, ConcatProperties
  <2>2. CASE o \notin Range(list) /\ list = << >>
    BY <1>4, <2>2 DEF Spliced
  <2>3. CASE o \notin Range(list) /\ list # << >>
    <3>1. Spliced(o) = SubSeq(list, 1, Len(list) - 1)
      BY <2>3 DEF Spliced, Front
    <3> HIDE DEF R
    <3> QED BY <1>1, <1>2, <3>1
  <2> QED BY <2>1, <2>2, <2>3
<1> HIDE DEF R
<1>6. \A q \in Range(Spliced(o)) : q \in R
  BY <1>5, ElementOfSeq, LenProperties DEF Range
<1>7. Spliced(o) \in Seq(Ids)
  BY <1>3, <1>5, SeqMonotonic
<1> QED BY <1>6, <1>7 DEF R

LEMMA UnlockMakerKeeps ==
  ASSUME SettledInv, NEW o \in Ids, UnlockMaker(o)
  PROVE  SettledInv'
<1>1. LocalTyped /\ place[o].at = "unlockMaker" /\ list \in Seq(Ids)
  BY DEF SettledInv, Typed, UnlockMaker, LocalTyped
<1>2. PICK m \in Ids : m = Head(place[o].fills).maker
  BY <1>1, FirstFill DEF AtFill
<1>3. /\ UNCHANGED <<asked, engine, settled, rows>> /\ list' = Spliced(m)
      /\ memory' = [memory EXCEPT ![m].locked = 0] /\ NextFill(o)
  BY <1>2 DEF UnlockMaker, database
<1>4. /\ memory' \in [Ids -> StoredOrder]
      /\ \A q \in Ids : memory'[q].filled = memory[q].filled
  <2>1. memory \in [Ids -> StoredOrder]
    BY <1>1 DEF LocalTyped
  <2>2. memory' = [memory EXCEPT ![m].locked = 0]
    BY <1>3
  <2>3. \A q \in Ids : q # m => memory'[q] = memory[q]
    BY <2>1, <2>2
  <2>4. memory'[m].filled = memory[m].filled
    BY <2>1, <2>2 DEF StoredOrder
  <2>5. memory' \in [Ids -> StoredOrder]
    BY <2>1, <2>2 DEF StoredOrder
  <2> QED BY <2>3, <2>4, <2>5
<1>5. list' \in Seq(Ids) /\ \A q \in Range(list') : q \in Range(list)
  BY <1>1, <1>3, SplicedType
<1>6. place' \in [Ids -> Placement] /\ place'[o].at \in {"write", "settle"}
  BY <1>1, <1>3, FirstFill, NextFillSays DEF AtFill
<1>7. LocalTyped'
  BY <1>1, <1>3, <1>4, <1>5, <1>6 DEF LocalTyped
<1>8. ListStep(o)
  BY <1>1, <1>5 DEF ListStep
<1>9. FilledStep(o)
  BY <1>1, <1>3, <1>4, <1>6 DEF FilledStep, Fresh, AtFill
<1> QED BY <1>1, <1>3, <1>7, <1>8, <1>9, FillsGoOn DEF AtFill

(* A step that leaves all that the invariant is about. *)
LEMMA StutterKeeps ==
  ASSUME SettledInv, UNCHANGED <<asked, rows, memory, list, place, left, seen, traded, settled>>
  PROVE  SettledInv'
<1>1. Typed'
  BY DEF SettledInv, Typed, OrdersTyped, EngineTyped, LocalTyped
<1>2. EngineOK'
  BY DEF SettledInv, EngineOK, Placed, Order
<1>3. Places'
  BY DEF SettledInv, Places, PlaceOK, Held, Unsettled, AtFillOK, AllReported, Placed,
         Lockable, Sides, Order
<1>4. ListOK' /\ FilledOK'
  BY DEF SettledInv, ListOK, FilledOK, AppliedTrades
<1> QED BY <1>1, <1>2, <1>3, <1>4 DEF SettledInv

(* A step that leaves all placements, and every trade. *)
LEMMA PlacesStay ==
  ASSUME SettledInv, Typed', EngineOK', NEW o \in Ids,
         UNCHANGED <<asked, place, seen, traded, settled>>,
         \A q \in Range(list') : q \in Range(list),
         \A q \in Ids : rows'[q].filled = rows[q].filled,
         \A q \in Ids : memory'[q].filled = memory[q].filled
  PROVE  SettledInv'
<1>1. Grows(o) /\ ListStep(o) /\ ApplyStep(o)
  BY DEF Grows, ListStep, ApplyStep, Placed
<1>2. PlaceOK(o)'
  BY DEF SettledInv, Places, PlaceOK, Held, Unsettled, AtFillOK, AllReported, Placed,
         Lockable, Sides, Order
<1>3. FilledStep(o)
  BY DEF SettledInv, FilledOK, FilledStep
<1> QED BY <1>1, <1>2, <1>3, StepKeeps

LEMMA CancelAtEngineKeeps ==
  ASSUME SettledInv, NEW o \in Ids, CancelAtEngine(o)
  PROVE  SettledInv'
<1>1. /\ UNCHANGED <<asked, rows, memory, list, place, seen, traded, settled>>
      /\ left' = [left EXCEPT ![o] = 0]
  BY DEF CancelAtEngine, database, local
<1>2. left \in [Ids -> Int]
  BY DEF SettledInv, Typed, EngineTyped
<1>3. left' \in [Ids -> Int] /\ \A m \in Ids : left'[m] > 0 => left[m] > 0
  BY <1>1, <1>2
<1>4. Typed'
  BY <1>1, <1>3 DEF SettledInv, Typed, OrdersTyped, EngineTyped, LocalTyped
<1>5. EngineOK'
  BY <1>1, <1>3 DEF SettledInv, EngineOK, Placed, Order
<1> QED BY <1>1, <1>4, <1>5, PlacesStay

LEMMA UnlockCancelledKeeps ==
  ASSUME SettledInv, NEW o \in Ids, UnlockCancelled(o)
  PROVE  SettledInv'
<1>1. /\ UNCHANGED <<asked, rows, list, place, left, seen, traded, settled>>
      /\ memory' = [memory EXCEPT ![o].locked = 0, ![o].status = "Cancelled"]
  BY DEF UnlockCancelled, database, engine
<1>2. memory \in [Ids -> StoredOrder] /\ "Cancelled" \in Statuses
  BY DEF SettledInv, Typed, LocalTyped, Statuses
<1>3. memory' \in [Ids -> StoredOrder]
  <2> DEFINE r == [memory[o] EXCEPT !.locked = 0, !.status = "Cancelled"]
  <2>1. memory' = [memory EXCEPT ![o] = r]
    BY <1>1
  <2>2. memory[o] \in StoredOrder
    BY <1>2
  <2>3. r = [memory[o] EXCEPT !.locked = 0, !.status = "Cancelled"]
    OBVIOUS
  <2> HIDE DEF r
  <2>4. r = [filled |-> memory[o].filled, locked |-> 0, status |-> "Cancelled"]
    BY <2>2, <2>3 DEF StoredOrder
  <2>5. r \in StoredOrder
    BY <1>2, <2>2, <2>4 DEF StoredOrder
  <2> QED BY <1>2, <2>1, <2>5
<1>4. \A q \in Ids : memory'[q].filled = memory[q].filled
  <2>1. \A q \in Ids : q # o => memory'[q] = memory[q]
    BY <1>1, <1>2
  <2>2. memory'[o].filled = memory[o].filled
    BY <1>1, <1>2 DEF StoredOrder
  <2> QED BY <2>1, <2>2
<1>5. Typed'
  BY <1>1, <1>3 DEF SettledInv, Typed, OrdersTyped, EngineTyped, LocalTyped
<1>6. EngineOK'
  BY <1>1 DEF SettledInv, EngineOK, Placed, Order
<1> QED BY <1>1, <1>4, <1>5, <1>6, PlacesStay

LEMMA CloseCancelledKeeps ==
  ASSUME SettledInv, NEW o \in Ids, CloseCancelled(o)
  PROVE  SettledInv'
<1>1. /\ UNCHANGED <<asked, memory, place, left, seen, traded, settled>>
      /\ rows' = [rows EXCEPT ![o].status = "Cancelled"] /\ list' = Spliced(o)
  BY DEF CloseCancelled, engine
<1>2. /\ rows \in [Ids -> OrderEntity] /\ list \in Seq(Ids) /\ "Cancelled" \in Statuses
  BY DEF SettledInv, Typed, LocalTyped, Statuses
<1>3. rows' \in [Ids -> OrderEntity]
  BY <1>1, <1>2 DEF OrderEntity
<1>4. \A q \in Ids : rows'[q].filled = rows[q].filled
  BY <1>1, <1>2 DEF OrderEntity
<1>5. list' \in Seq(Ids) /\ \A q \in Range(list') : q \in Range(list)
  BY <1>1, <1>2, SplicedType
<1>6. Typed'
  BY <1>1, <1>3, <1>5 DEF SettledInv, Typed, OrdersTyped, EngineTyped, LocalTyped
<1>7. EngineOK'
  BY <1>1 DEF SettledInv, EngineOK, Placed, Order
<1> QED BY <1>1, <1>4, <1>5, <1>6, <1>7, PlacesStay

(* The placement of an order that is new to all. *)
LEMMA PlaceKeeps ==
  ASSUME SettledInv, Place
  PROVE  SettledInv'
<1>1. PICK t \in AskedOrders :
        /\ Len(asked) < MaxOrders /\ asked' = Append(asked, t)
        /\ Goto(Len(asked'), IF t.side = "Buy" /\ t.price = NoPrice THEN "failed" ELSE "lock")
        /\ UNCHANGED <<rows, local, cancel, engine, settled, counters, ledgerVars>>
  BY DEF Place
<1> DEFINE at == IF t.side = "Buy" /\ t.price = NoPrice THEN "failed" ELSE "lock"
<1>2. asked \in Seq(AskedOrders) /\ Len(asked) \in Nat /\ Placed = 1..Len(asked)
  BY LenProperties DEF SettledInv, Typed, OrdersTyped, Placed
<1>3. PICK o \in Ids : o = Len(asked) + 1
  BY <1>1, <1>2, BoundsAssumption DEF Ids
<1>4. /\ asked' \in Seq(AskedOrders) /\ Len(asked') = o /\ asked'[o] = t
      /\ \A q \in 1..Len(asked) : asked'[q] = asked[q]
  BY <1>1, <1>2, <1>3, AppendProperties
<1>5. Placed' = 1..o
  BY <1>4, LenProperties DEF Placed
<1>6. o \notin Placed /\ o \in Placed' /\ OrdersTyped'
  BY <1>2, <1>4, <1>5, <1>3 DEF Ids, OrdersTyped
<1>7. \A q \in Ids : q # o => (q \in Placed <=> q \in Placed')
  BY <1>2, <1>5, <1>3 DEF Ids
<1>8. \A q \in Placed : q \in Placed' /\ asked'[q] = asked[q]
  BY <1>2, <1>4, <1>5, <1>3
<1>9. PlaceOK(o) /\ LocalTyped /\ EngineOK
  BY <1>6 DEF SettledInv, Places, Typed
<1>10. place[o].at = "none" /\ o \notin Range(seen) /\ place[o].fills = << >>
  BY <1>6, <1>9 DEF PlaceOK, Held, EngineOK
<1>11. at \in Stages /\ at \in {"lock", "failed"}
  BY DEF Stages, Early, Later
<1>12. at = "lock" => t.side # "Buy" \/ t.price # NoPrice
  OBVIOUS
<1>13. Goto(o, at)
  BY <1>1, <1>4
<1> HIDE DEF at
<1>14. /\ place' \in [Ids -> Placement]
       /\ \A q \in Ids : q # o => place'[q] = place[q]
       /\ place'[o].at = at /\ place'[o].fills = << >>
  BY <1>6, <1>9, <1>10, <1>11, <1>13, GotoSays
<1>15. UNCHANGED <<rows, memory, list, left, seen, traded, settled>>
  BY <1>1 DEF local, engine
<1>16. Typed'
  BY <1>6, <1>14, <1>15 DEF SettledInv, Typed, EngineTyped, LocalTyped
<1>17. EngineOK'
  BY <1>8, <1>9, <1>15 DEF EngineOK, Order
<1>18. Grows(o)
  BY <1>7, <1>8, <1>14, <1>15 DEF Grows
<1>19. at = "lock" => Lockable(o)'
  <2>1. t.side \in {"Buy", "Sell"}
    BY OrdersAssumption DEF PlaceOrderDto
  <2> QED BY <1>4, <1>12, <2>1 DEF Lockable, Sides, Order
<1>20. PlaceOK(o)'
  <2>1. Held(o)'
    BY <1>6, <1>11, <1>14, <1>19 DEF Held
  <2>2. Unsettled(o)'
    BY <1>9, <1>10, <1>15 DEF PlaceOK, Unsettled, Early
  <2>3. AtFillOK(o)' /\ AllReported(o)'
    BY <1>11, <1>14 DEF AtFillOK, AllReported, AtFill
  <2> QED BY <2>1, <2>2, <2>3 DEF PlaceOK
<1>21. ListStep(o) /\ ApplyStep(o) /\ FilledStep(o)
  BY <1>10, <1>11, <1>14, <1>15 DEF ListStep, ApplyStep, FilledStep, Fresh, Early
<1> QED BY <1>6, <1>16, <1>17, <1>18, <1>20, <1>21, StepKeeps

(* The engine refuses the order, and nothing has changed there. *)
LEMMA RefusedAtEngine ==
  ASSUME SettledInv, NEW o \in Ids, Submit(o),
         place' = [place EXCEPT ![o].at = "answer", ![o].status = "Refused"],
         UNCHANGED engine
  PROVE  SettledInv'
<1>1. LocalTyped /\ PlaceOK(o)
  BY DEF SettledInv, Typed, Places
<1>2. UNCHANGED <<asked, rows, memory, list, settled>> /\ place[o].at = "submit"
  BY DEF Submit, database, local
<1> DEFINE p == [place[o] EXCEPT !.at = "answer", !.status = "Refused"]
<1>3. place' = [place EXCEPT ![o] = p] /\ place[o] \in Placement
  BY <1>1 DEF LocalTyped
<1>4. /\ p \in Placement /\ p.at = "answer" /\ p.status = "Refused"
      /\ p.fills = place[o].fills
  BY <1>3 DEF Placement, Stages, Early
<1> HIDE DEF p
<1>5. /\ place' \in [Ids -> Placement] /\ place'[o] = p
      /\ \A q \in Ids : q # o => place'[q] = place[q]
  BY <1>1, <1>3, <1>4 DEF LocalTyped
<1>6. LocalTyped'
  BY <1>1, <1>2, <1>5 DEF LocalTyped
<1>7. Typed' /\ EngineOK' /\ Grows(o)
  BY <1>2, <1>5, <1>6, EngineStays
<1>8. Held(o)'
  BY <1>1, <1>2, <1>4, <1>5 DEF PlaceOK, Held, engine, Lockable, Sides, Order, Placed
<1>9. Unsettled(o)' /\ AtFillOK(o)' /\ AllReported(o)'
  BY <1>1, <1>2, <1>4, <1>5 DEF PlaceOK, Unsettled, AtFillOK, AllReported, Early, AtFill
<1>10. ListStep(o) /\ ApplyStep(o) /\ FilledStep(o)
  BY <1>2, <1>4, <1>5 DEF ListStep, ApplyStep, FilledStep, Fresh, Early
<1> QED BY <1>7, <1>8, <1>9, <1>10, StepKeeps DEF PlaceOK

(* What the engine has done is sound: what rests has come with a price,    *)
(* and the new trades are of the order with others that it has seen.       *)
LEMMA EngineExecutes ==
  ASSUME SettledInv, NEW o \in Placed, o \notin Range(seen),
         Order(o).kind = "Market" \/ Order(o).price # NoPrice,
         UNCHANGED <<asked, settled>>, left' = AfterFills(o, FillsOf(o)),
         seen' = Append(seen, o), traded' = traded \cup Range(FillsOf(o))
  PROVE  EngineTyped' /\ EngineOK' /\ Range(seen') = Range(seen) \cup {o}
<1> DEFINE f == FillsOf(o)
<1>1. Typed /\ EngineOK /\ EngineTyped /\ OrdersTyped
  BY DEF SettledInv, Typed
<1>2. /\ f \in Seq(Fill)
      /\ \A i \in DOMAIN f : /\ f[i].taker = o /\ f[i].maker \in Range(seen)
                             /\ f[i].maker # o
  BY <1>1, FillsFound
<1>3. /\ o \in Ids /\ Order(o).quantity \in Nat /\ Order(o).price \in Nat \cup {NoPrice}
  BY <1>1, OrderFound
<1>4. Range(seen') = Range(seen) \cup {o} /\ seen' \in Seq(Ids)
  <2>1. seen \in Seq(Ids)
    BY <1>1 DEF EngineTyped
  <2>2. /\ seen' \in Seq(Ids) /\ Len(seen') = Len(seen) + 1 /\ Len(seen) \in Nat
        /\ \A i \in 1..Len(seen) : seen'[i] = seen[i]
        /\ seen'[Len(seen) + 1] = o
    BY <1>3, <2>1, AppendProperties, LenProperties
  <2>3. DOMAIN seen' = 1..Len(seen) + 1 /\ DOMAIN seen = 1..Len(seen)
    BY <2>1, <2>2, LenProperties
  <2> QED BY <2>2, <2>3 DEF Range
<1>5. Range(f) \in SUBSET Fill /\ IsFiniteSet(Range(f))
  <2>1. /\ Len(f) \in Nat /\ DOMAIN f = 1..Len(f) /\ \A i \in 1..Len(f) : f[i] \in Fill
    BY <1>2, LenProperties, ElementOfSeq
  <2>2. IsFiniteSet(1..Len(f))
    BY <2>1, FS_Interval
  <2>3. f \in Surjection(1..Len(f), Range(f))
    <3>1. f \in [1..Len(f) -> Range(f)]
      BY <1>2, <2>1, LenProperties DEF Range
    <3>2. \A t \in Range(f) : \E i \in 1..Len(f) : f[i] = t
      BY <2>1 DEF Range
    <3> HIDE DEF f
    <3> QED BY <3>1, <3>2 DEF Surjection
  <2>4. IsFiniteSet(Range(f))
    <3> HIDE DEF f
    <3> QED BY <2>2, <2>3, FS_Surjection
  <2>5. Range(f) \in SUBSET Fill
    BY <2>1 DEF Range
  <2> QED BY <2>4, <2>5
<1>6. \A t \in Range(f) : t.taker = o /\ t.maker \in Range(seen) /\ t.maker # o
  BY <1>2 DEF Range
<1> HIDE DEF f
<1>7. \A m : Executed(m, Range(f)) \in Nat
  BY <1>5, ExecutedGrows
<1>8. \A m \in Ids : left'[m] \in Int /\
        (left'[m] > 0 => (m # o /\ left[m] > 0)
                         \/ (m = o /\ Order(o).kind = "Limit"))
  <2> SUFFICES ASSUME NEW m \in Ids
               PROVE  left'[m] \in Int /\
                        (left'[m] > 0 => (m # o /\ left[m] > 0)
                                         \/ (m = o /\ Order(o).kind = "Limit"))
    OBVIOUS
  <2>1. left'[m] = IF m # o THEN left[m] - Executed(m, Range(f))
                   ELSE IF RestsAtEngine(o) THEN Order(o).quantity - Executed(m, Range(f))
                   ELSE 0
    BY DEF AfterFills, f
  <2>2. left[m] \in Int /\ Executed(m, Range(f)) \in Nat
    BY <1>1, <1>7 DEF EngineTyped
  <2>3. RestsAtEngine(o) => Order(o).kind = "Limit"
    BY DEF RestsAtEngine
  <2> QED BY <1>3, <2>1, <2>2, <2>3
<1>9. left' \in [Ids -> Int]
  <2>1. left' = [m \in Ids |-> left'[m]]
    BY DEF AfterFills
  <2> QED BY <1>8, <2>1
<1>10. traded' = traded \cup Range(f)
  BY DEF f
<1>11. EngineTyped'
  <2>1. IsFiniteSet(traded') /\ traded' \in SUBSET Fill /\ settled' \in SUBSET traded'
    BY <1>1, <1>5, <1>10, FS_Union DEF EngineTyped
  <2> QED BY <1>4, <1>9, <2>1 DEF EngineTyped
<1>12. EngineOK'
  <2>1. Range(seen') \subseteq Placed'
    BY <1>1, <1>4 DEF EngineOK, Placed
  <2>2. \A m \in Ids : left'[m] > 0 => m \in Range(seen') /\ Order(m)'.price \in Nat
    BY <1>1, <1>3, <1>4, <1>8 DEF EngineOK, Order
  <2>3. \A t \in traded' : /\ t.maker \in Range(seen') /\ t.taker \in Range(seen')
                           /\ t.maker # t.taker
    BY <1>1, <1>4, <1>6, <1>10 DEF EngineOK
  <2> QED BY <2>1, <2>2, <2>3 DEF EngineOK
<1> QED BY <1>4, <1>11, <1>12

LEMMA SubmitKeeps ==
  ASSUME SettledInv, NEW o \in Ids, Submit(o)
  PROVE  SettledInv'
<1>1. CASE o \in Range(seen) \/ (Order(o).kind # "Market" /\ Order(o).price = NoPrice)
  <2>1. /\ place' = [place EXCEPT ![o].at = "answer", ![o].status = "Refused"]
        /\ UNCHANGED engine
    BY <1>1 DEF Submit
  <2> QED BY <2>1, RefusedAtEngine
<1>2. CASE ~(o \in Range(seen) \/ (Order(o).kind # "Market" /\ Order(o).price = NoPrice))
  <2> DEFINE f == FillsOf(o)
             status == EngineStatus(o, Executed(o, Range(f)))
             p == [place[o] EXCEPT !.at = "answer", !.fills = f, !.status = status]
  <2>1. /\ LocalTyped /\ PlaceOK(o) /\ Typed /\ EngineOK /\ EngineTyped
        /\ place[o] \in Placement /\ place[o].at = "submit"
    BY DEF SettledInv, Typed, Places, LocalTyped, Submit
  <2>2. /\ UNCHANGED <<asked, rows, memory, list, settled>>
        /\ left' = AfterFills(o, FillsOf(o)) /\ seen' = Append(seen, o)
        /\ traded' = traded \cup Range(FillsOf(o)) /\ place' = [place EXCEPT ![o] = p]
    BY <1>2 DEF Submit, database, local
  <2>3. o \in Placed /\ Lockable(o)
    BY <2>1 DEF PlaceOK, Held
  <2>4. EngineTyped' /\ EngineOK' /\ Range(seen') = Range(seen) \cup {o}
    BY <1>2, <2>2, <2>3, EngineExecutes
  <2>5. /\ f \in Seq(Fill) /\ \A i \in DOMAIN f : f[i].taker = o
        /\ \A i, j \in DOMAIN f : f[i] = f[j] => i = j
    BY <1>2, <2>1, <2>3, FillsFound
  <2>6. status \in Statuses \cup {"Refused"}
    <3> HIDE DEF f
    <3> QED BY DEF EngineStatus, Statuses, Open
  <2>7. p \in Placement /\ p.at = "answer" /\ p.fills = f /\ p.status = status
    <3> HIDE DEF f, status
    <3> QED BY <2>1, <2>5, <2>6 DEF Placement, Stages, Early
  <2> HIDE DEF p, status
  <2>8. /\ place' \in [Ids -> Placement] /\ place'[o] = p
        /\ \A q \in Ids : q # o => place'[q] = place[q]
    BY <2>1, <2>2, <2>7 DEF LocalTyped
  <2>9. Typed'
    BY <2>2, <2>4, <2>8 DEF SettledInv, Typed, OrdersTyped, LocalTyped
  <2>10. traded' = traded \cup Range(f)
    BY <2>2
  <2> HIDE DEF f
  <2>11. \A t \in Range(f) : t.taker = o
    BY <2>5 DEF Range
  <2>12. Grows(o)
    BY <2>2, <2>4, <2>8, <2>10, <2>11 DEF Grows, Placed
  <2>13. Held(o)'
    <3>1. o \in Placed' /\ Lockable(o)' /\ o \in Range(seen')
      BY <2>2, <2>3, <2>4 DEF Lockable, Sides, Order, Placed
    <3>2. \A i \in DOMAIN f : f[i] \in traded' /\ f[i].taker = o
      BY <2>5, <2>10 DEF Range
    <3> QED BY <2>5, <2>7, <2>8, <3>1, <3>2 DEF Held
  <2>14. Unsettled(o)' /\ AtFillOK(o)'
    BY <2>1, <2>2, <2>7, <2>8 DEF PlaceOK, Unsettled, AtFillOK, Early, AtFill
  <2>15. AllReported(o)'
    <3>1. \A t \in traded' : t.taker = o => t \in Range(f)
      BY <1>2, <2>1, <2>10 DEF EngineOK
    <3> QED BY <2>7, <2>8, <3>1 DEF AllReported
  <2>16. ListStep(o) /\ ApplyStep(o) /\ FilledStep(o)
    BY <2>1, <2>2, <2>7, <2>8 DEF ListStep, ApplyStep, FilledStep, Fresh, Early
  <2> QED BY <2>4, <2>9, <2>12, <2>13, <2>14, <2>15, <2>16, StepKeeps DEF PlaceOK
<1> QED BY <1>1, <1>2

(* The rows that the service takes up when it starts, each of them once. *)
LEMMA ListRebuilt ==
  ASSUME OrdersTyped, Restart
  PROVE  /\ list' \in Seq(Ids) /\ \A q \in Range(list') : q \in Placed
         /\ \A i, j \in DOMAIN list' : list'[i] = list'[j] => i = j
         /\ Range(list') = {o \in Placed : /\ rows[o].status \in Open
                                          /\ rows[o].filled < Order(o).quantity}
<1> DEFINE S == {o \in Placed : /\ rows[o].status \in Open
                                /\ rows[o].filled < Order(o).quantity}
           R == {p \in S \X S : p[1] < p[2]}
           n == Cardinality(S)
<1>1. /\ Placed = 1..Len(asked) /\ Len(asked) \in Nat /\ \A o \in Placed : o \in Ids
  <2>1. Len(asked) \in Nat /\ Placed = 1..Len(asked)
    BY LenProperties DEF OrdersTyped, Placed
  <2> QED BY <2>1, OrderFound
<1>2. S \subseteq Placed
  OBVIOUS
<1>3. list' = [i \in 1..n |-> CHOOSE m \in S : Cardinality({x \in S : x < m}) = i - 1]
  BY DEF Restart, InOrder
<1> HIDE DEF S
<1>4. \A x \in S : x \in Nat
  BY <1>1, <1>2
<1>5. \A x, y \in S : <<x, y>> \in R <=> x < y
  OBVIOUS
<1>6. Orders(R, S)
  <2> HIDE DEF R
  <2> QED BY <1>4, <1>5 DEF Orders
<1>7. IsFiniteSet(S)
  <2>1. IsFiniteSet(Placed)
    BY <1>1, FS_Interval
  <2> QED BY <1>2, <2>1, FS_Subset
<1>8. n \in Nat /\ \A i \in 1..n : \E m \in S : Cardinality({x \in S : <<x, m>> \in R}) = i - 1
  <2> HIDE DEF R
  <2> QED BY <1>6, <1>7, RankedOnce
<1>9. \A m \in S : {x \in S : <<x, m>> \in R} = {x \in S : x < m}
  OBVIOUS
<1>10. \A i \in 1..n : \E m \in S : Cardinality({x \in S : x < m}) = i - 1
  BY <1>8, <1>9
<1> HIDE DEF n
<1>11. \A i \in 1..n : list'[i] \in S
  BY <1>3, <1>10
<1>12. list' \in Seq(S)
  <2>1. list' \in [1..n -> S]
    BY <1>3, <1>11
  <2>2. n \in Nat
    BY <1>8
  <2> QED BY <2>1, <2>2, SeqDef
<1>13. \A q \in Range(list') : q \in S
  BY <1>12, ElementOfSeq, LenProperties DEF Range
<1>14. S \subseteq Ids
  BY <1>1, <1>2
<1>15. \A i, j \in 1..n : list'[i] = list'[j] => i = j
  <2> SUFFICES ASSUME NEW i \in 1..n, NEW j \in 1..n, list'[i] = list'[j] PROVE i - 1 = j - 1
    BY <1>8
  <2> DEFINE before(m) == {x \in S : x < m}
  <2>1. Cardinality(before(list'[i])) = i - 1 /\ Cardinality(before(list'[j])) = j - 1
    BY <1>3, <1>10
  <2>2. before(list'[i]) = before(list'[j])
    OBVIOUS
  <2> QED BY <2>1, <2>2
<1>16. DOMAIN list' = 1..n
  BY <1>3
<1>17. Range(list') = S
  <2>1. list' \in Injection(1..n, S)
    <3>1. list' \in [1..n -> S]
      BY <1>3, <1>11
    <3> QED BY <1>15, <3>1 DEF Injection, IsInjective
  <2>2. n = Cardinality(S) /\ IsFiniteSet(1..n) /\ Cardinality(1..n) = n
    BY <1>7, <1>8, FS_Interval DEF n
  <2>3. list' \in Surjection(1..n, S)
    BY <1>7, <2>1, <2>2, FS_Injection
  <2>4. \A x \in S : \E k \in 1..n : list'[k] = x
    BY <2>3 DEF Surjection
  <2> QED BY <1>13, <1>16, <2>4 DEF Range
<1>18. list' \in Seq(Ids) /\ \A q \in Range(list') : q \in Placed
  BY <1>2, <1>12, <1>13, <1>14, SeqMonotonic
<1> QED BY <1>15, <1>16, <1>17, <1>18 DEF S

(* After a restart no request is at work, and the list shows the rows. *)
LEMMA RestartKeeps ==
  ASSUME SettledInv, Restart
  PROVE  SettledInv'
<1>1. /\ Typed /\ OrdersTyped /\ EngineTyped /\ LocalTyped /\ EngineOK /\ FilledOK
      /\ \A o \in Ids : PlaceOK(o)
  BY DEF SettledInv, Typed, Places
<1>2. UNCHANGED <<asked, rows, left, seen, traded, settled>>
  BY DEF Restart, database, engine
<1>3. list' \in Seq(Ids) /\ \A q \in Range(list') : q \in Placed
  BY <1>1, ListRebuilt
<1>4. \A o \in Ids : /\ place'[o] \in Placement
                     /\ place'[o].fills = place[o].fills
                     /\ place'[o].at \in {"none", "done", "failed"}
                     /\ place'[o].at # "failed" => place'[o].at = place[o].at
                     /\ place'[o].at = "none" <=> place[o].at = "none"
  <2> TAKE o \in Ids
  <2>1. place'[o] = IF o \in InFlight THEN [place[o] EXCEPT !.at = "failed"] ELSE place[o]
    BY DEF Restart
  <2>2. place[o] \in Placement
    BY <1>1 DEF LocalTyped
  <2>3. o \notin InFlight => place[o].at \in {"none", "done", "failed"}
    BY DEF InFlight
  <2>4. o \in InFlight => place[o].at \notin {"none", "done", "failed"}
    BY DEF InFlight
  <2>5. CASE o \in InFlight
    BY <2>1, <2>2, <2>4, <2>5 DEF Placement, Stages, Later
  <2>6. CASE o \notin InFlight
    BY <2>1, <2>2, <2>3, <2>6
  <2> QED BY <2>5, <2>6
<1>5. place' \in [Ids -> Placement]
  <2>1. place' = [o \in Ids |-> place'[o]]
    BY DEF Restart
  <2> QED BY <1>4, <2>1
<1>6. \A o \in Ids : memory'[o] = IF o \in Range(list')
                                  THEN [filled |-> rows[o].filled, status |-> rows[o].status,
                                        locked |-> RemainingLock(o, rows[o].filled)]
                                  ELSE memory[o]
  BY DEF Restart
<1>7. \A o \in Ids : memory'[o] \in StoredOrder /\
        memory'[o].filled = IF o \in Range(list') THEN rows[o].filled ELSE memory[o].filled
  <2> TAKE o \in Ids
  <2>1. CASE o \in Range(list')
    <3>1. rows[o].filled \in Nat /\ rows[o].status \in Statuses
      BY <1>1 DEF LocalTyped, OrderEntity
    <3>2. RemainingLock(o, rows[o].filled) \in Int
      <4>1. CASE Lockable(o)
        BY <1>1, <1>3, <2>1, <3>1, <4>1, LockTypes
      <4>2. CASE ~Lockable(o)
        BY <4>2 DEF RemainingLock
      <4> QED BY <4>1, <4>2
    <3>3. memory'[o] = [filled |-> rows[o].filled, status |-> rows[o].status,
                        locked |-> RemainingLock(o, rows[o].filled)]
      BY <1>6, <2>1
    <3> DEFINE n == RemainingLock(o, rows[o].filled)
    <3> HIDE DEF n
    <3>4. n \in Int /\ memory'[o] = [filled |-> rows[o].filled, status |-> rows[o].status,
                                     locked |-> n]
      BY <3>2, <3>3 DEF n
    <3> QED BY <2>1, <3>1, <3>4 DEF StoredOrder
  <2>2. CASE o \notin Range(list')
    BY <1>1, <1>6, <2>2 DEF LocalTyped
  <2> QED BY <2>1, <2>2
<1>8. memory' \in [Ids -> StoredOrder]
  <2>1. memory' = [o \in Ids |-> memory'[o]]
    BY DEF Restart
  <2> QED BY <1>7, <2>1
<1>9. Typed'
  BY <1>1, <1>2, <1>3, <1>5, <1>8 DEF Typed, OrdersTyped, EngineTyped, LocalTyped
<1>10. EngineOK'
  BY <1>1, <1>2 DEF EngineOK, Placed, Order
<1>11. Places'
  <2> SUFFICES ASSUME NEW o \in Ids PROVE PlaceOK(o)'
    BY DEF Places
  <2>1. PlaceOK(o)
    BY <1>1
  <2>2. Held(o)'
    BY <1>2, <1>4, <2>1 DEF PlaceOK, Held, Placed, Lockable, Sides, Order
  <2>3. Unsettled(o)'
    BY <1>2, <1>4, <2>1 DEF PlaceOK, Unsettled, Early
  <2>4. AtFillOK(o)' /\ AllReported(o)'
    BY <1>4 DEF AtFillOK, AllReported, AtFill
  <2> QED BY <2>2, <2>3, <2>4 DEF PlaceOK
<1>12. ListOK'
  <2> SUFFICES ASSUME NEW q \in Range(list') PROVE place'[q].at \in {"done", "failed"}
    BY DEF ListOK
  <2>1. q \in Placed /\ q \in Ids
    BY <1>1, <1>3, OrderFound
  <2>2. place[q].at # "none"
    BY <1>1, <2>1 DEF PlaceOK, Held
  <2> QED BY <1>4, <2>1, <2>2
<1>13. AppliedTrades' = settled /\ AppliedTrades \in SUBSET settled
  BY <1>2, <1>4 DEF AppliedTrades
<1>14. FilledOK'
  <2> SUFFICES ASSUME NEW o \in Ids
               PROVE  /\ rows'[o].filled <= Executed(o, settled')
                      /\ memory'[o].filled <= Executed(o, AppliedTrades')
                      /\ place'[o].at \in Early \cup AtFill \cup {"write"} =>
                           memory'[o].filled = 0
                      /\ place'[o].at # "writeMaker"
    BY DEF FilledOK
  <2>1. /\ rows[o].filled <= Executed(o, settled)
        /\ memory[o].filled <= Executed(o, AppliedTrades)
        /\ place[o].at = "none" => memory[o].filled = 0
    BY <1>1 DEF FilledOK, Early
  <2>2. /\ Executed(o, AppliedTrades) <= Executed(o, settled)
        /\ Executed(o, AppliedTrades) \in Nat /\ Executed(o, settled) \in Nat
    BY <1>1, <1>13, SettledGrows
  <2>3. memory[o].filled \in Nat
    BY <1>1 DEF LocalTyped, StoredOrder
  <2>4. memory'[o].filled <= Executed(o, settled)
    BY <1>7, <2>1, <2>2, <2>3
  <2>5. o \in Range(list') => place[o].at # "none"
    BY <1>1, <1>3 DEF PlaceOK, Held
  <2>6. place'[o].at \in Early \cup AtFill \cup {"write"} => memory'[o].filled = 0
    BY <1>4, <1>7, <2>1, <2>5 DEF Early, AtFill
  <2> QED BY <1>2, <1>4, <1>13, <2>1, <2>4, <2>6
<1> QED BY <1>9, <1>10, <1>11, <1>12, <1>14 DEF SettledInv

LEMMA NothingExecuted ==
  ASSUME NEW T \in SUBSET Fill, IsFiniteSet(T), NEW o
  PROVE  Executed(o, {}) = 0
<1>1. PICK f \in [T -> Nat] : \E g \in [SUBSET T -> Int] :
             /\ Totals(g, f, T)
             /\ \A r : \A S \in SUBSET T : Executed(r, S) = g[Of(r, S)]
  BY QuantitySums
<1>2. PICK g \in [SUBSET T -> Int] :
             /\ Totals(g, f, T)
             /\ \A r : \A S \in SUBSET T : Executed(r, S) = g[Of(r, S)]
  BY <1>1
<1>3. Of(o, {}) = {} /\ {} \in SUBSET T
  BY DEF Of
<1>4. Executed(o, {}) = g[Of(o, {})]
  BY <1>2, <1>3
<1> QED BY <1>2, <1>3, <1>4 DEF Totals

LEMMA InitSettled ==
  ASSUME Init
  PROVE  SettledInv
<1>1. OrdersTyped /\ Placed = {}
  BY EmptySeq, BoundsAssumption DEF Init, OrdersTyped, Placed
<1>2. EngineTyped
  BY EmptySeq, FS_EmptySet DEF Init, EngineTyped
<1>3. NoPlacement \in Placement
  <2>1. << >> \in Seq(Fill)
    BY EmptySeq
  <2> QED BY <2>1 DEF NoPlacement, Placement, OrderEntity, Stages, Early, Statuses, Open
<1>4. LocalTyped
  <2>1. /\ [filled |-> 0, status |-> "New"] \in OrderEntity
        /\ [filled |-> 0, locked |-> 0, status |-> "New"] \in StoredOrder
    BY DEF OrderEntity, StoredOrder, Statuses, Open
  <2>2. << >> \in Seq(Ids)
    BY EmptySeq
  <2> QED BY <1>3, <2>1, <2>2 DEF Init, LocalTyped
<1>5. Range(seen) = {} /\ Range(list) = {}
  BY DEF Init, Range
<1>6. EngineOK /\ ListOK
  BY <1>5 DEF Init, EngineOK, ListOK
<1>7. \A o \in Ids : place[o].at = "none" /\ place[o].fills = << >>
  BY DEF Init, NoPlacement
<1>8. ASSUME NEW o \in Ids PROVE PlaceOK(o)
  BY <1>1, <1>5, <1>7
     DEF Init, PlaceOK, Held, Unsettled, AtFillOK, AllReported, Early, AtFill
<1>9. FilledOK
  <2>1. settled = {} /\ AppliedTrades = {}
    BY DEF Init, AppliedTrades
  <2>2. \A o \in Ids : rows[o].filled = 0 /\ memory[o].filled = 0
    BY DEF Init
  <2>3. \A o : Executed(o, {}) = 0
    BY <1>2, NothingExecuted DEF EngineTyped
  <2> QED BY <1>7, <2>1, <2>2, <2>3 DEF FilledOK
<1> QED BY <1>1, <1>2, <1>4, <1>6, <1>8, <1>9 DEF SettledInv, Typed, Places

LEMMA NextSettled ==
  ASSUME SettledInv, [Next]_vars
  PROVE  SettledInv'
<1>1. ASSUME NEW o \in Ids, PlaceStep(o)
      PROVE  SettledInv'
  <2>1. CASE ApplyFill(o) \/ WriteMaker(o) \/ UnlockMaker(o) \/ WriteOrder(o)
    BY <2>1, ApplyFillKeeps, WriteMakerKeeps, UnlockMakerKeeps, WriteOrderKeeps
  <2>2. CASE LockBalance(o) \/ Submit(o) \/ Answered(o) \/ Settle(o)
    BY <2>2, LockBalanceKeeps, SubmitKeeps, AnsweredKeeps, SettleKeeps
  <2>3. CASE GiveUp(o) \/ RejectRow(o) \/ UnlockRefused(o)
    BY <2>3, GiveUpKeeps, RejectRowKeeps
  <2>4. CASE UnlockUnused(o) \/ Rest(o) \/ Refused(o)
    BY <2>4, UnlockUnusedKeeps, RestKeeps, RefusedKeeps
  <2> QED BY <1>1, <2>1, <2>2, <2>3, <2>4 DEF PlaceStep
<1>2. ASSUME NEW o \in Ids, CancelStep(o)
      PROVE  SettledInv'
  <2>1. CASE FindCancelled(o)
    BY <2>1, StutterKeeps DEF FindCancelled, database, local, engine
  <2> QED BY <1>2, <2>1, CancelAtEngineKeeps, UnlockCancelledKeeps, CloseCancelledKeeps
          DEF CancelStep
<1>3. ASSUME NEW o \in Ids, StartCancel(o) \/ CancelFails(o)
      PROVE  SettledInv'
  <2>1. UNCHANGED <<asked, rows, memory, list, place, left, seen, traded, settled>>
    BY <1>3 DEF StartCancel, CancelFails, database, local, engine
  <2> QED BY <2>1, StutterKeeps
<1>4. CASE ChangeStatus \/ UNCHANGED vars
  <2>1. UNCHANGED <<asked, rows, memory, list, place, left, seen, traded, settled>>
    BY <1>4 DEF ChangeStatus, vars, database, local, engine
  <2> QED BY <2>1, StutterKeeps
<1> QED BY <1>1, <1>2, <1>3, <1>4, PlaceKeeps, RestartKeeps, CallFailsKeeps, FailKeeps
        DEF Next, Step

(* What an order's row shows as filled has been settled in the wallets:    *)
(* settleTrade comes before the update of either row (trading.service.ts), *)
(* and no failure, race, retried call or restart puts a row before it.     *)
THEOREM FillsSettled == Spec => []FillsAreSettled
<1>1. SettledInv => FillsAreSettled
  <2>1. SettledInv => \A o \in Placed : o \in Ids
    BY OrderFound DEF SettledInv, Typed
  <2> QED BY <2>1 DEF SettledInv, FilledOK, FillsAreSettled
<1> QED BY <1>1, InitSettled, NextSettled, PTL DEF Spec

-----------------------------------------------------------------------------
(* Fees, and what an order's fills cost *)

FeesOfTrade(t) == FeeOf(t, t.maker) + FeeOf(t, t.taker)

FeesOf(trades) == MapThenSumSet(LAMBDA t : FeeOf(t, t.maker) + FeeOf(t, t.taker), trades)

CostsOf(o, trades) ==
  MapThenSumSet(LAMBDA t : Cost(o, t.price, t.quantity, TakerFeeBps), trades)

(* The fees of some trades are a sum. *)
LEMMA FeesFound ==
  ASSUME NEW S, IsFiniteSet(S), NEW f, NEW g, \A t \in S : f[t] = FeesOfTrade(t),
         Totals(g, f, S), NEW T \in SUBSET S
  PROVE  FeesOf(T) = g[T]
<1> DEFINE Rec(h) == [s \in SUBSET T |->
                        IF s = {} THEN 0
                        ELSE FeesOfTrade(Chosen(s)) + h[s \ {Chosen(s)}]]
           h == CHOOSE h : h = Rec(h)
           k == [s \in SUBSET T |-> g[s]]
<1>1. FeesOf(T) = h[T]
  BY DEF FeesOf, FeesOfTrade, MapThenSumSet, MapThenFoldSet, Chosen
<1>2. \A s \in SUBSET T : s # {} => Chosen(s) \in s /\ s \ {Chosen(s)} \in SUBSET T
  BY ChosenLeaves
<1>3. \A s \in SUBSET T : s # {} => g[s] = FeesOfTrade(Chosen(s)) + g[s \ {Chosen(s)}]
  BY <1>2 DEF Totals
<1>4. k = Rec(k)
  <2>1. \A s \in SUBSET T :
          k[s] = IF s = {} THEN 0 ELSE FeesOfTrade(Chosen(s)) + k[s \ {Chosen(s)}]
    BY <1>2, <1>3 DEF Totals
  <2> QED BY <2>1
<1>5. h = Rec(h)
  <2> HIDE DEF Rec
  <2> QED BY <1>4
<1> HIDE DEF h
<1>6. \A s \in SUBSET T : h[s] = IF s = {} THEN 0
                                 ELSE FeesOfTrade(Chosen(s)) + h[s \ {Chosen(s)}]
  BY <1>5
<1>7. AddsChosen(h, f, T)
  BY <1>2, <1>6 DEF AddsChosen
<1>8. h[T] = g[T]
  BY <1>7, TotalFoundBy
<1> QED BY <1>1, <1>8

LEMMA FeesType ==
  ASSUME NEW t \in Fill
  PROVE  /\ \A o : FeeOf(t, o) \in Int
         /\ FeesOfTrade(t) \in Int
<1>1. t.price \in Int /\ t.quantity \in Int
  BY DEF Fill
<1>2. t.price * t.quantity \in Int
  BY <1>1
<1>3. \A o : FeeOf(t, o) \in Int
  <2> TAKE o
  <2> DEFINE n == t.price * t.quantity
  <2>1. FeeOf(t, o) = n * (IF o = t.maker THEN 2 ELSE 4)
    BY DEF FeeOf, MakerFeeBps, TakerFeeBps
  <2> HIDE DEF n
  <2>2. n \in Int
    BY <1>2 DEF n
  <2> QED BY <2>1, <2>2
<1> QED BY <1>3 DEF FeesOfTrade

(* Fees are a number, and nothing costs none. *)
LEMMA FeesNumber ==
  ASSUME NEW T \in SUBSET Fill, IsFiniteSet(T)
  PROVE  FeesOf(T) \in Int /\ FeesOf({}) = 0
<1> DEFINE f == [x \in T |-> FeesOfTrade(x)]
<1>1. f \in [T -> Int] /\ \A x \in T : f[x] = FeesOfTrade(x)
  BY FeesType
<1> HIDE DEF f
<1>2. PICK g \in [SUBSET T -> Int] : Totals(g, f, T)
  BY <1>1, TotalsExist
<1>3. T \in SUBSET T /\ {} \in SUBSET T
  OBVIOUS
<1>4. FeesOf(T) = g[T] /\ FeesOf({}) = g[{}]
  BY <1>1, <1>2, <1>3, FeesFound
<1> QED BY <1>2, <1>3, <1>4 DEF Totals

(* One more trade adds its fees. *)
LEMMA FeesAdd ==
  ASSUME NEW T \in SUBSET Fill, IsFiniteSet(T), NEW t \in Fill
  PROVE  /\ FeesOf(T) \in Int
         /\ t \notin T => FeesOf(T \cup {t}) = FeesOf(T) + FeesOfTrade(t)
<1> DEFINE S == T \cup {t}
           f == [x \in S |-> FeesOfTrade(x)]
<1>1. /\ S \in SUBSET Fill /\ IsFiniteSet(S) /\ T \in SUBSET S /\ S \in SUBSET S
      /\ S \ {t} = T \ {t} /\ t \in S
  BY FS_AddElement
<1>2. S = T \cup {t}
  OBVIOUS
<1> HIDE DEF S
<1>3. f \in [S -> Int] /\ \A x \in S : f[x] = FeesOfTrade(x)
  BY <1>1, FeesType
<1> HIDE DEF f
<1>4. PICK g \in [SUBSET S -> Int] : Totals(g, f, S)
  BY <1>1, <1>3, TotalsExist
<1>5. FeesOf(T) = g[T] /\ FeesOf(S) = g[S]
  BY <1>1, <1>3, <1>4, FeesFound
<1>6. g[S] = f[t] + g[S \ {t}]
  BY <1>1, <1>4 DEF Totals
<1>7. ASSUME t \notin T PROVE FeesOf(S) = FeesOf(T) + FeesOfTrade(t)
  <2>1. S \ {t} = T
    BY <1>1, <1>7
  <2>2. f[t] = FeesOfTrade(t) /\ f[t] \in Int /\ g[T] \in Int
    BY <1>1, <1>3, <1>4
  <2>3. g[S \ {t}] = g[T]
    BY <2>1
  <2>4. g[S] = g[T] + f[t]
    BY <1>6, <2>2, <2>3
  <2> QED BY <1>5, <2>2, <2>4
<1> QED BY <1>1, <1>2, <1>4, <1>5, <1>6, <1>7

(* What an order's fills cost is a number. *)
LEMMA CostsType ==
  ASSUME NEW T \in SUBSET Fill, IsFiniteSet(T), NEW o
  PROVE  CostsOf(o, T) \in Int
<1> DEFINE cost(t) == Cost(o, t.price, t.quantity, TakerFeeBps)
           Rec(h) == [s \in SUBSET T |->
                        IF s = {} THEN 0 ELSE cost(Chosen(s)) + h[s \ {Chosen(s)}]]
           h == CHOOSE h : h = Rec(h)
           f == [t \in T |-> cost(t)]
<1>1. CostsOf(o, T) = h[T]
  BY DEF CostsOf, MapThenSumSet, MapThenFoldSet, Chosen
<1>2. \A t \in T : cost(t) \in Int
  <2> TAKE t \in T
  <2>1. t.price \in Int /\ t.quantity \in Int /\ TakerFeeBps \in Int
    BY DEF Fill, TakerFeeBps
  <2> QED BY <2>1, CostType
<1> HIDE DEF cost
<1>3. f \in [T -> Int] /\ \A t \in T : f[t] = cost(t)
  BY <1>2
<1> HIDE DEF f
<1>4. PICK g \in [SUBSET T -> Int] : Totals(g, f, T)
  BY <1>3, TotalsExist
<1> DEFINE k == [s \in SUBSET T |-> g[s]]
<1>5. \A s \in SUBSET T : s # {} => Chosen(s) \in s /\ s \ {Chosen(s)} \in SUBSET T
  BY ChosenLeaves
<1>6. \A s \in SUBSET T : s # {} => g[s] = cost(Chosen(s)) + g[s \ {Chosen(s)}]
  BY <1>3, <1>4, <1>5 DEF Totals
<1>7. k = Rec(k)
  <2>1. \A s \in SUBSET T :
          k[s] = IF s = {} THEN 0 ELSE cost(Chosen(s)) + k[s \ {Chosen(s)}]
    BY <1>4, <1>5, <1>6 DEF Totals
  <2> QED BY <2>1
<1>8. h = Rec(h)
  <2> HIDE DEF Rec
  <2> QED BY <1>7
<1> HIDE DEF h
<1>9. \A s \in SUBSET T : h[s] = IF s = {} THEN 0
                                 ELSE cost(Chosen(s)) + h[s \ {Chosen(s)}]
  BY <1>8
<1>10. AddsChosen(h, f, T)
  BY <1>3, <1>5, <1>9 DEF AddsChosen
<1>11. T \in SUBSET T
  OBVIOUS
<1>12. h[T] = g[T]
  BY <1>4, <1>10, <1>11, TotalFoundBy
<1> QED BY <1>1, <1>4, <1>11, <1>12

-----------------------------------------------------------------------------
(* What the wallets hold *)

Cancellation ==
  [at : {"none", "ask", "find", "unlock", "close", "done", "failed"}, attempts : Nat,
   release : Int]

CancelsOK ==
  /\ cancel \in [Ids -> Cancellation]
  /\ \A o \in Ids : cancel[o].at # "none" => o \in Placed

(* What is held of an asset is what was held at first, but for the fees of *)
(* the trades that have been settled.                                      *)
FeesPaid ==
  /\ accounts \in [Wallets -> Account]
  /\ \A a \in Assets :
       Holding(accounts, a) = Holding(Opening, a)
                              - IF a = Pair[2] THEN FeesOf(settled) ELSE 0

MoneyInv == SettledInv /\ CancelsOK /\ FeesPaid

(* There is one market, of two assets. *)
LEMMA PairFound == Pair \in Assets \X Assets /\ Pair[1] # Pair[2]
<1>1. Pairs # {}
  BY OrdersAssumption, FS_EmptySet
<1> QED BY <1>1, PairsAssumption DEF Pair

(* An operation that only moves an amount between the parts of a wallet. *)
Locking(op) ==
  \E u \in Users, a \in Assets : \E n \in Int : op = Lock(u, a, n) \/ op = Unlock(u, a, n)

(* An operation applies its legs to each wallet. *)
LEMMA AppliedAll ==
  ASSUME NEW op
  PROVE  AfterAll(op) = Applied(accounts, op.legs)
BY DEF AfterAll, Applied, AfterLegs

(* What an operation brings in is held afterwards. *)
LEMMA InflowHeld ==
  ASSUME accounts \in [Wallets -> Account], NEW op \in Operations, BringsInflow(op)
  PROVE  /\ AfterAll(op) \in [Wallets -> Account]
         /\ \A b \in Assets :
              Holding(AfterAll(op), b) = Holding(accounts, b) + op.inflow[b]
<1>1. op.legs \in Seq(Legs)
  BY DEF Operations
<1> QED BY <1>1, AppliedAll, AppliedType DEF BringsInflow, Bring

(* Locks bring nothing in. *)
LEMMA LockingBrings ==
  ASSUME accounts \in [Wallets -> Account], NEW op, Locking(op)
  PROVE  /\ AfterAll(op) \in [Wallets -> Account]
         /\ \A b \in Assets : Holding(AfterAll(op), b) = Holding(accounts, b)
<1>1. PICK u \in Users, a \in Assets : \E n \in Int : op = Lock(u, a, n) \/ op = Unlock(u, a, n)
  BY DEF Locking
<1>2. PICK n \in Int : op = Lock(u, a, n) \/ op = Unlock(u, a, n)
  BY <1>1
<1>3. PICK x \in Int, y \in Int :
        x + y = 0 /\ op = Operation(<<u>>, <<Leg(u, a, x, y, n)>>, a, x + y)
  <2>1. -n \in Int /\ -n + n = 0 /\ n + (-n) = 0
    OBVIOUS
  <2>2. CASE op = Lock(u, a, n)
    BY <2>1, <2>2 DEF Lock
  <2>3. CASE op = Unlock(u, a, n)
    BY <2>1, <2>3 DEF Unlock
  <2> QED BY <1>2, <2>2, <2>3
<1>4. op \in Operations /\ BringsInflow(op)
  BY <1>3, OneLeg, OneLegInflow
<1>5. \A b \in Assets : op.inflow[b] = 0
  BY <1>3 DEF Operation
<1>6. \A b \in Assets : Holding(accounts, b) \in Int
  BY HoldingType
<1> QED BY <1>4, <1>5, <1>6, InflowHeld

(* A settlement brings in minus its fees. *)
LEMMA SettlementBrings ==
  ASSUME SettledInv, accounts \in [Wallets -> Account], NEW o \in Ids, place[o].at \in AtFill
  PROVE  LET t == Head(place[o].fills)
         IN /\ AfterAll(Settlement(t)) \in [Wallets -> Account]
            /\ \A b \in Assets :
                 Holding(AfterAll(Settlement(t)), b)
                   = Holding(accounts, b) - IF b = Pair[2] THEN FeesOfTrade(t) ELSE 0
<1>1. PICK t \in Fill : t = Head(place[o].fills)
  BY FirstFill
<1>2. /\ t \in Fill /\ t.taker # t.maker /\ t.price \in Nat /\ t.quantity \in Nat
      /\ t.maker \in Placed /\ t.taker \in Placed
  <2>1. t \in traded /\ t.price \in Nat /\ t.quantity \in Nat
    BY <1>1, FirstFill
  <2> QED BY <1>1, <2>1 DEF SettledInv, EngineOK
<1> DEFINE seller == IF Sides(t.maker) = "Sell" THEN t.maker ELSE t.taker
           buyer  == IF seller = t.maker THEN t.taker ELSE t.maker
           fees == <<FeeOf(t, seller), FeeOf(t, buyer)>>
           price == t.price * Scale
           op == SettleTrade(Order(seller).user, Order(buyer).user, Order(t.maker).user,
                             Order(t.taker).user, Pair, price, t.quantity, fees)
<1>3. Settlement(t) = op
  BY DEF Settlement
<1>4. \/ seller = t.maker /\ buyer = t.taker
      \/ seller = t.taker /\ buyer = t.maker
  BY <1>2
<1> HIDE DEF seller, buyer
<1>5. Order(seller).user \in Users /\ Order(buyer).user \in Users
  BY <1>2, <1>4, OrderFound DEF SettledInv, Typed
<1>6. /\ fees[1] = FeeOf(t, seller) /\ fees[2] = FeeOf(t, buyer)
      /\ FeeOf(t, seller) \in Int /\ FeeOf(t, buyer) \in Int
      /\ FeesOfTrade(t) = FeeOf(t, seller) + FeeOf(t, buyer)
  <2>1. \A x : FeeOf(t, x) \in Int
    BY <1>2, FeesType
  <2>2. FeesOfTrade(t) = FeeOf(t, seller) + FeeOf(t, buyer)
    BY <1>4, <2>1 DEF FeesOfTrade
  <2> QED BY <2>1, <2>2
<1>7. price \in Int /\ t.quantity \in Int
  BY <1>2 DEF Scale
<1> HIDE DEF fees, price
<1>8. BringsInflow(op)
  BY <1>5, <1>6, <1>7, PairFound, SettlementInflow
<1>9. op.legs \in Seq(Legs)
  BY <1>5, <1>6, <1>7, PairFound, SettledLegs
<1>10. \A b \in Assets : op.inflow[b] = IF b = Pair[2] THEN -(fees[1] + fees[2]) ELSE 0
  BY DEF SettleTrade, Operation
<1> HIDE DEF op
<1>11. /\ AfterAll(op) \in [Wallets -> Account]
       /\ \A b \in Assets :
            Holding(AfterAll(op), b) = Holding(accounts, b) + op.inflow[b]
  BY <1>8, <1>9, AppliedAll, AppliedType DEF BringsInflow, Bring
<1>12. \A b \in Assets : Holding(accounts, b) \in Int
  BY HoldingType
<1>13. ASSUME NEW b \in Assets
       PROVE  Holding(AfterAll(op), b)
                = Holding(accounts, b) - IF b = Pair[2] THEN FeesOfTrade(t) ELSE 0
  <2>1. op.inflow[b] = IF b = Pair[2] THEN -FeesOfTrade(t) ELSE 0
    BY <1>6, <1>10
  <2>2. FeesOfTrade(t) \in Int
    BY <1>6
  <2> QED BY <1>11, <1>12, <2>1, <2>2
<1> QED BY <1>1, <1>3, <1>11, <1>13

-----------------------------------------------------------------------------
(* No step takes anything from the wallets, but for a settlement its fees *)

(* Of what was wanted, the wallet has done one operation, if any. *)
LEMMA Posted ==
  ASSUME NEW W, WalletPost(W)
  PROVE  accounts' = accounts \/ \E op \in W : accounts' = AfterAll(op)
<1>1. CASE W = {}
  BY <1>1 DEF WalletPost
<1>2. CASE W # {}
  <2>1. (CHOOSE op \in W : TRUE) \in W
    BY <1>2
  <2>2. accounts' = AfterAll(CHOOSE op \in W : TRUE)
    BY <1>2 DEF WalletPost
  <2> QED BY <2>1, <2>2
<1> QED BY <1>1, <1>2

(* What is unlocked is an amount of a wallet of the order's user. *)
LEMMA UnlockSays ==
  ASSUME OrdersTyped, NEW m \in Placed, NEW n \in Int, NEW op \in UnlockBalance(m, n)
  PROVE  Locking(op)
<1>1. Order(m).user \in Users /\ LockedAsset(m) \in Assets
  BY OrderFound, PairFound DEF LockedAsset
<1>2. op = Unlock(Order(m).user, LockedAsset(m), n)
  BY DEF UnlockBalance
<1> QED BY <1>1, <1>2 DEF Locking

(* What a placement may unlock in the end is a number. *)
LEMMA UnusedType ==
  ASSUME SettledInv, NEW o \in Ids, place[o].at = "unused"
  PROVE  Unused(o) \in Int
<1>1. LocalTyped /\ OrdersTyped /\ EngineTyped /\ PlaceOK(o)
  BY DEF SettledInv, Typed, Places
<1>2. o \in Placed /\ Lockable(o)
  BY <1>1 DEF PlaceOK, Held
<1>3. memory[o].filled \in Int /\ memory[o].locked \in Int
  BY <1>1 DEF LocalTyped, StoredOrder
<1>4. RestLock(o) \in Int
  BY <1>1, <1>2, <1>3, LockTypes DEF RestLock
<1>5. FillsReported(o) \in SUBSET Fill /\ FillsReported(o) \in SUBSET traded
  BY <1>1 DEF FillsReported, EngineTyped
<1>6. IsFiniteSet(FillsReported(o))
  BY <1>1, <1>5, FS_Subset DEF EngineTyped
<1>7. CostsOf(o, FillsReported(o)) \in Int
  BY <1>5, <1>6, CostsType
<1>8. Unused(o) = memory[o].locked - CostsOf(o, FillsReported(o)) - RestLock(o)
  BY DEF Unused, CostsOf
<1> QED BY <1>3, <1>4, <1>7, <1>8

(* But for the settlements, a placement locks and unlocks. *)
LEMMA WantedSays ==
  ASSUME SettledInv, NEW o \in Ids, place[o].at # "settle", NEW op \in Wanted(o)
  PROVE  Locking(op)
<1>1. LocalTyped /\ OrdersTyped /\ PlaceOK(o)
  BY DEF SettledInv, Typed, Places
<1>2. place[o].at \in {"lock", "giveUp", "unlockRefused", "unlockMaker", "unused"}
  BY DEF Wanted
<1>3. o \in Placed /\ Lockable(o)
  BY <1>1, <1>2 DEF PlaceOK, Held
<1>4. memory[o].locked \in Int /\ place[o].release \in Int
  BY <1>1 DEF LocalTyped, StoredOrder, Placement
<1>5. CASE place[o].at = "lock"
  <2>1. op = Lock(Order(o).user, LockedAsset(o), EstimateLockAmount(o))
    BY <1>5 DEF Wanted
  <2>2. EstimateLockAmount(o) \in Int /\ Order(o).user \in Users /\ LockedAsset(o) \in Assets
    <3>1. 0 \in Int
      OBVIOUS
    <3> QED BY <1>1, <1>3, <3>1, LockTypes, OrderFound, PairFound DEF LockedAsset
  <2> QED BY <2>1, <2>2 DEF Locking
<1>6. CASE place[o].at \in {"giveUp", "unlockRefused"}
  <2>1. op \in UnlockBalance(o, memory[o].locked)
    BY <1>6 DEF Wanted
  <2> QED BY <1>1, <1>3, <1>4, <2>1, UnlockSays
<1>7. CASE place[o].at = "unlockMaker"
  <2>1. op \in UnlockBalance(Head(place[o].fills).maker, place[o].release)
    BY <1>7 DEF Wanted
  <2>2. Head(place[o].fills).maker \in Placed
    BY <1>7, FirstFill DEF AtFill
  <2> QED BY <1>1, <1>4, <2>1, <2>2, UnlockSays
<1>8. CASE place[o].at = "unused"
  <2>1. op \in UnlockBalance(o, Unused(o))
    BY <1>8 DEF Wanted
  <2> QED BY <1>1, <1>3, <1>8, <2>1, UnusedType, UnlockSays
<1> QED BY <1>2, <1>5, <1>6, <1>7, <1>8

(* Locking and unlocking leave what is held. *)
LEMMA LocksKeep ==
  ASSUME FeesPaid, UNCHANGED settled,
         accounts' = accounts \/ \E op : Locking(op) /\ accounts' = AfterAll(op)
  PROVE  FeesPaid'
<1>1. CASE accounts' = accounts
  BY <1>1 DEF FeesPaid
<1>2. CASE \E op : Locking(op) /\ accounts' = AfterAll(op)
  <2>1. PICK op : Locking(op) /\ accounts' = AfterAll(op)
    BY <1>2
  <2>2. accounts \in [Wallets -> Account]
    BY DEF FeesPaid
  <2>3. /\ accounts' \in [Wallets -> Account]
        /\ \A b \in Assets : Holding(accounts', b) = Holding(accounts, b)
    BY <2>1, <2>2, LockingBrings
  <2> QED BY <2>3 DEF FeesPaid
<1> QED BY <1>1, <1>2

(* A settlement that was not done before takes its fees. *)
LEMMA SettlementKeeps ==
  ASSUME SettledInv, FeesPaid, NEW o \in Ids, place[o].at = "settle",
         WalletPost(Wanted(o)), settled' = settled \cup {Head(place[o].fills)}
  PROVE  FeesPaid'
<1>1. PICK t \in Fill : t = Head(place[o].fills)
  BY FirstFill DEF AtFill
<1>2. t \notin settled
  <2>1. PlaceOK(o) /\ 1 \in DOMAIN place[o].fills /\ t = place[o].fills[1]
    BY <1>1, FirstFill DEF SettledInv, Places, AtFill
  <2> QED BY <2>1 DEF PlaceOK, AtFillOK
<1>3. accounts' = AfterAll(Settlement(t))
  <2>1. Wanted(o) = {Settlement(t)}
    BY <1>1 DEF Wanted
  <2>2. (CHOOSE op \in {Settlement(t)} : TRUE) = Settlement(t)
    OBVIOUS
  <2> QED BY <2>1, <2>2 DEF WalletPost
<1>4. accounts \in [Wallets -> Account]
  BY DEF FeesPaid
<1>5. /\ accounts' \in [Wallets -> Account]
      /\ \A b \in Assets :
           Holding(accounts', b)
             = Holding(accounts, b) - IF b = Pair[2] THEN FeesOfTrade(t) ELSE 0
  BY <1>1, <1>3, <1>4, SettlementBrings DEF AtFill
<1>6. settled \in SUBSET Fill /\ IsFiniteSet(settled)
  BY FS_Subset DEF SettledInv, Typed, EngineTyped
<1>7. /\ FeesOf(settled) \in Int /\ FeesOfTrade(t) \in Int
      /\ FeesOf(settled') = FeesOf(settled) + FeesOfTrade(t)
  BY <1>1, <1>2, <1>6, FeesAdd, FeesType
<1>8. \A b \in Assets : Holding(Opening, b) \in Int
  BY OpeningAssumption, HoldingType
<1>9. ASSUME NEW b \in Assets
      PROVE  Holding(accounts', b) = Holding(Opening, b)
                                     - IF b = Pair[2] THEN FeesOf(settled') ELSE 0
  <2>1. Holding(accounts, b) = Holding(Opening, b)
                               - IF b = Pair[2] THEN FeesOf(settled) ELSE 0
    BY DEF FeesPaid
  <2>2. Holding(accounts', b)
          = Holding(accounts, b) - IF b = Pair[2] THEN FeesOfTrade(t) ELSE 0
    BY <1>5
  <2>3. Holding(Opening, b) \in Int
    BY <1>8
  <2> QED BY <1>7, <2>1, <2>2, <2>3
<1> QED BY <1>5, <1>9 DEF FeesPaid

(* The same, of the steps of a placement. *)
LEMMA PostedKeeps ==
  ASSUME SettledInv, FeesPaid, NEW o \in Ids, place[o].at # "settle", UNCHANGED settled,
         WalletPost(Wanted(o))
  PROVE  FeesPaid'
<1>1. \A op \in Wanted(o) : Locking(op)
  BY WantedSays
<1>2. accounts' = accounts \/ \E op \in Wanted(o) : accounts' = AfterAll(op)
  BY Posted
<1> QED BY <1>1, <1>2, LocksKeep

LEMMA PlaceStepPays ==
  ASSUME SettledInv, FeesPaid, NEW o \in Ids, PlaceStep(o)
  PROVE  FeesPaid'
<1>1. CASE \/ Submit(o) \/ Answered(o) \/ RejectRow(o) \/ ApplyFill(o) \/ WriteMaker(o)
           \/ WriteOrder(o) \/ Rest(o) \/ Refused(o)
  <2>1. UNCHANGED <<accounts, settled>>
    BY <1>1 DEF Submit, Answered, RejectRow, ApplyFill, WriteMaker, WriteOrder, Rest,
                Refused, ledgerVars
  <2> QED BY <2>1, LocksKeep
<1>2. CASE \/ LockBalance(o) \/ GiveUp(o) \/ UnlockRefused(o) \/ UnlockMaker(o)
           \/ UnlockUnused(o)
  <2>1. place[o].at # "settle" /\ WalletPost(Wanted(o)) /\ UNCHANGED settled
    BY <1>2 DEF LockBalance, GiveUp, UnlockRefused, UnlockMaker, UnlockUnused
  <2> QED BY <2>1, PostedKeeps
<1>3. CASE Settle(o)
  BY <1>3, SettlementKeeps DEF Settle
<1> QED BY <1>1, <1>2, <1>3 DEF PlaceStep

LEMMA FailPays ==
  ASSUME SettledInv, FeesPaid, NEW o \in Ids, Fail(o)
  PROVE  FeesPaid'
<1>1. CASE UNCHANGED <<settled, ledgerVars>>
  <2>1. UNCHANGED <<accounts, settled>>
    BY <1>1 DEF ledgerVars
  <2> QED BY <2>1, LocksKeep
<1>2. CASE /\ WalletPost(Wanted(o))
           /\ settled' = IF place[o].at = "settle" THEN settled \cup {Head(place[o].fills)}
                         ELSE settled
  <2>1. CASE place[o].at = "settle"
    BY <1>2, <2>1, SettlementKeeps
  <2>2. CASE place[o].at # "settle"
    BY <1>2, <2>2, PostedKeeps
  <2> QED BY <2>1, <2>2
<1> QED BY <1>1, <1>2 DEF Fail

-----------------------------------------------------------------------------
(* Cancellations *)

LEMMA CancelChanges ==
  ASSUME CancelsOK, NEW o \in Ids, NEW c \in Cancellation, o \in Placed,
         cancel' = [cancel EXCEPT ![o] = c], UNCHANGED asked
  PROVE  CancelsOK'
<1>1. cancel' \in [Ids -> Cancellation] /\ \A q \in Ids : q # o => cancel'[q] = cancel[q]
  BY DEF CancelsOK
<1> QED BY <1>1 DEF CancelsOK, Placed

(* A cancellation is that of a placed order, and what it gives back is a   *)
(* number.                                                                 *)
LEMMA CancelStepKeeps ==
  ASSUME SettledInv, CancelsOK, NEW o \in Ids,
         StartCancel(o) \/ CancelStep(o) \/ CancelFails(o)
  PROVE  CancelsOK'
<1>1. cancel[o] \in Cancellation /\ UNCHANGED asked /\ memory[o].locked \in Int
  BY DEF SettledInv, Typed, LocalTyped, StoredOrder, CancelsOK, StartCancel, CancelStep,
         CancelAtEngine, FindCancelled, UnlockCancelled, CloseCancelled, CancelFails,
         database
<1>2. o \in Placed
  BY DEF CancelsOK, StartCancel, CancelStep, CancelAtEngine, FindCancelled,
         UnlockCancelled, CloseCancelled, CancelFails
<1>3. \E c \in Cancellation : cancel' = [cancel EXCEPT ![o] = c]
  <2>1. CASE StartCancel(o) \/ CloseCancelled(o) \/ CancelFails(o)
    <3>1. PICK at \in {"ask", "done", "failed"} : cancel' = [cancel EXCEPT ![o].at = at]
      BY <2>1 DEF StartCancel, CloseCancelled, CancelFails
    <3>2. [cancel[o] EXCEPT !.at = at] \in Cancellation
      BY <1>1 DEF Cancellation
    <3> QED BY <3>1, <3>2
  <2>2. CASE CancelAtEngine(o)
    <3>1. CASE cancel' = [cancel EXCEPT ![o].at = IF left[o] > 0 THEN "find" ELSE "done"]
      <4>1. PICK at \in {"find", "done"} : cancel' = [cancel EXCEPT ![o].at = at]
        BY <3>1
      <4>2. [cancel[o] EXCEPT !.at = at] \in Cancellation
        BY <1>1 DEF Cancellation
      <4> QED BY <4>1, <4>2
    <3>2. CASE cancel' = [cancel EXCEPT ![o].attempts = cancel[o].attempts + 1,
                            ![o].at = IF cancel[o].attempts = MaxRetries THEN "failed"
                                      ELSE "ask"]
      <4>1. PICK at \in {"failed", "ask"} :
              cancel' = [cancel EXCEPT ![o].attempts = cancel[o].attempts + 1, ![o].at = at]
        BY <3>2
      <4> DEFINE r == [cancel[o] EXCEPT !.attempts = cancel[o].attempts + 1, !.at = at]
      <4>2. cancel' = [cancel EXCEPT ![o] = r]
        BY <4>1
      <4>3. r = [cancel[o] EXCEPT !.attempts = cancel[o].attempts + 1, !.at = at]
        OBVIOUS
      <4> HIDE DEF r
      <4>4. r = [at |-> at, attempts |-> cancel[o].attempts + 1,
                 release |-> cancel[o].release]
        BY <1>1, <4>3 DEF Cancellation
      <4>5. cancel[o].attempts + 1 \in Nat /\ cancel[o].release \in Int
        BY <1>1 DEF Cancellation
      <4>6. r \in Cancellation
        BY <4>4, <4>5 DEF Cancellation
      <4> QED BY <4>2, <4>6
    <3> QED BY <2>2, <3>1, <3>2 DEF CancelAtEngine
  <2>3. CASE FindCancelled(o)
    <3>1. PICK at \in {"unlock", "done"} :
            cancel' = [cancel EXCEPT ![o].at = at, ![o].release = memory[o].locked]
      BY <2>3 DEF FindCancelled
    <3> DEFINE r == [cancel[o] EXCEPT !.at = at, !.release = memory[o].locked]
    <3>2. r \in Cancellation
      BY <1>1 DEF Cancellation
    <3>3. cancel' = [cancel EXCEPT ![o] = r]
      BY <3>1
    <3> HIDE DEF r
    <3> QED BY <3>2, <3>3
  <2>4. CASE UnlockCancelled(o)
    <3> DEFINE r == [cancel[o] EXCEPT !.at = "close", !.release = 0]
    <3>1. cancel' = [cancel EXCEPT ![o] = r]
      BY <2>4 DEF UnlockCancelled
    <3>2. r = [cancel[o] EXCEPT !.at = "close", !.release = 0]
      OBVIOUS
    <3> HIDE DEF r
    <3>3. r = [at |-> "close", attempts |-> cancel[o].attempts, release |-> 0]
      BY <1>1, <3>2 DEF Cancellation
    <3>4. r \in Cancellation
      BY <1>1, <3>3 DEF Cancellation
    <3> QED BY <3>1, <3>4
  <2> QED BY <2>1, <2>2, <2>3, <2>4 DEF CancelStep
<1>4. PICK c \in Cancellation : cancel' = [cancel EXCEPT ![o] = c]
  BY <1>3
<1> QED BY <1>1, <1>2, <1>4, CancelChanges

(* A cancellation only unlocks. *)
LEMMA CancelStepPays ==
  ASSUME SettledInv, CancelsOK, FeesPaid, NEW o \in Ids,
         StartCancel(o) \/ CancelStep(o) \/ CancelFails(o)
  PROVE  FeesPaid'
<1>1. UNCHANGED settled
  BY DEF StartCancel, CancelStep, CancelAtEngine, FindCancelled, UnlockCancelled,
         CloseCancelled, CancelFails
<1>2. \/ accounts' = accounts
      \/ cancel[o].at = "unlock" /\ WalletPost(UnlockBalance(o, cancel[o].release))
  BY DEF StartCancel, CancelStep, CancelAtEngine, FindCancelled, UnlockCancelled,
         CloseCancelled, CancelFails, ledgerVars
<1>3. CASE accounts' = accounts
  BY <1>1, <1>3, LocksKeep
<1>4. CASE cancel[o].at = "unlock" /\ WalletPost(UnlockBalance(o, cancel[o].release))
  <2>1. OrdersTyped /\ o \in Placed /\ cancel[o].release \in Int
    BY <1>4 DEF SettledInv, Typed, CancelsOK, Cancellation
  <2>2. \A op \in UnlockBalance(o, cancel[o].release) : Locking(op)
    BY <2>1, UnlockSays
  <2>3. \/ accounts' = accounts
        \/ \E op \in UnlockBalance(o, cancel[o].release) : accounts' = AfterAll(op)
    BY <1>4, Posted
  <2> QED BY <1>1, <2>2, <2>3, LocksKeep
<1> QED BY <1>2, <1>3, <1>4

(* The steps that cancel nothing leave the cancellations. *)
LEMMA CancelsStay ==
  ASSUME CancelsOK, UNCHANGED cancel, \A o \in Placed : o \in Placed'
  PROVE  CancelsOK'
BY DEF CancelsOK

LEMMA PlacedGrow ==
  ASSUME SettledInv, Place
  PROVE  \A o \in Placed : o \in Placed'
<1>1. PICK t \in AskedOrders : asked' = Append(asked, t)
  BY DEF Place
<1>2. asked \in Seq(AskedOrders)
  BY DEF SettledInv, Typed, OrdersTyped
<1>3. /\ asked' \in Seq(AskedOrders) /\ Len(asked') = Len(asked) + 1 /\ Len(asked) \in Nat
  BY <1>1, <1>2, AppendProperties, LenProperties
<1>4. DOMAIN asked = 1..Len(asked) /\ DOMAIN asked' = 1..Len(asked')
  BY <1>2, <1>3, LenProperties
<1> QED BY <1>3, <1>4 DEF Placed

LEMMA RestartCancels ==
  ASSUME CancelsOK, Restart
  PROVE  CancelsOK'
<1>1. cancel' = [o \in Ids |-> IF o \in Cancelling THEN [cancel[o] EXCEPT !.at = "failed"]
                               ELSE cancel[o]]
  BY DEF Restart
<1>2. UNCHANGED asked
  BY DEF Restart, database
<1>3. ASSUME NEW o \in Ids
      PROVE  /\ cancel'[o] \in Cancellation
             /\ cancel'[o].at # "none" => o \in Placed
  <2>1. cancel[o] \in Cancellation /\ (cancel[o].at # "none" => o \in Placed)
    BY DEF CancelsOK
  <2>2. [cancel[o] EXCEPT !.at = "failed"] \in Cancellation
    BY <2>1 DEF Cancellation
  <2>3. CASE o \in Cancelling
    BY <1>1, <2>1, <2>2, <2>3 DEF Cancelling
  <2>4. CASE o \notin Cancelling
    BY <1>1, <2>1, <2>4
  <2> QED BY <2>3, <2>4
<1>4. cancel' \in [Ids -> Cancellation]
  BY <1>1, <1>3
<1> QED BY <1>2, <1>3, <1>4 DEF CancelsOK, Placed

-----------------------------------------------------------------------------
(* Every trade is settled once, at most *)

LEMMA InitMoney ==
  ASSUME Init
  PROVE  MoneyInv
<1>1. CancelsOK
  <2>1. NoCancel \in Cancellation /\ NoCancel.at = "none"
    BY DEF NoCancel, Cancellation
  <2> QED BY <2>1 DEF Init, CancelsOK
<1>2. accounts = Opening /\ settled = {}
  BY DEF Init, LedgerInit
<1>3. FeesOf({}) = 0
  <2>1. settled \in SUBSET Fill /\ IsFiniteSet(settled)
    BY <1>2, FS_EmptySet
  <2> QED BY <2>1, FeesNumber
<1>4. \A a \in Assets : Holding(Opening, a) \in Int
  BY OpeningAssumption, HoldingType
<1>5. FeesPaid
  BY <1>2, <1>3, <1>4, OpeningAssumption DEF FeesPaid
<1> QED BY <1>1, <1>5, InitSettled DEF MoneyInv

LEMMA NextMoney ==
  ASSUME MoneyInv, [Next]_vars
  PROVE  MoneyInv'
<1>1. SettledInv /\ CancelsOK /\ FeesPaid
  BY DEF MoneyInv
<1>2. SettledInv'
  BY <1>1, NextSettled
<1>3. CancelsOK' /\ FeesPaid'
  <2>1. CASE Place
    <3>1. UNCHANGED <<cancel, accounts, settled>>
      BY <2>1 DEF Place, ledgerVars
    <3> QED BY <1>1, <2>1, <3>1, PlacedGrow, CancelsStay, LocksKeep
  <2>2. ASSUME NEW o \in Ids, PlaceStep(o) \/ CallFails(o) \/ Fail(o)
        PROVE  CancelsOK' /\ FeesPaid'
    <3>1. UNCHANGED <<asked, cancel>>
      BY <2>2 DEF PlaceStep, LockBalance, Submit, Answered, GiveUp, RejectRow,
                  UnlockRefused, Settle, ApplyFill, WriteMaker, UnlockMaker, WriteOrder,
                  UnlockUnused, Rest, Refused, CallFails, Fail, database
    <3>2. CASE CallFails(o)
      <4>1. UNCHANGED <<accounts, settled>>
        BY <3>2 DEF CallFails, ledgerVars
      <4> QED BY <1>1, <3>1, <4>1, CancelsStay, LocksKeep DEF Placed
    <3> QED BY <1>1, <2>2, <3>1, <3>2, CancelsStay, PlaceStepPays, FailPays DEF Placed
  <2>3. ASSUME NEW o \in Ids, StartCancel(o) \/ CancelStep(o) \/ CancelFails(o)
        PROVE  CancelsOK' /\ FeesPaid'
    BY <1>1, <2>3, CancelStepKeeps, CancelStepPays
  <2>4. CASE Restart
    <3>1. UNCHANGED <<accounts, settled>>
      BY <2>4 DEF Restart, ledgerVars
    <3> QED BY <1>1, <2>4, <3>1, RestartCancels, LocksKeep
  <2>5. CASE ChangeStatus \/ UNCHANGED vars
    <3>1. UNCHANGED <<asked, cancel, accounts, settled>>
      BY <2>5 DEF ChangeStatus, SetStatus, vars, database, ledgerVars
    <3> QED BY <1>1, <3>1, CancelsStay, LocksKeep DEF Placed
  <2> QED BY <2>1, <2>2, <2>3, <2>4, <2>5 DEF Next, Step
<1> QED BY <1>2, <1>3 DEF MoneyInv

Gained(u, a) == accounts[<<u, a>>].available - Opening[<<u, a>>].available
                + accounts[<<u, a>>].locked - Opening[<<u, a>>].locked

GainedBy(a) == MapThenSumSet(LAMBDA u : Gained(u, a), Users)

(* What the users gained is what they hold more than at first. *)
LEMMA GainedIsHeld ==
  ASSUME accounts \in [Wallets -> Account], NEW a \in Assets
  PROVE  GainedBy(a) = Holding(accounts, a) - Holding(Opening, a)
<1> DEFINE now == Parts(accounts, a)
           before == Parts(Opening, a)
           f == [u \in Users |-> Gained(u, a)]
           Rec(h) == [s \in SUBSET Users |->
                        IF s = {} THEN 0 ELSE Gained(Chosen(s), a) + h[s \ {Chosen(s)}]]
           h == CHOOSE h : h = Rec(h)
<1>1. now \in [Users -> Int] /\ before \in [Users -> Int]
  BY OpeningAssumption, PartsType
<1>2. /\ Holding(accounts, a) = SumOf(now, Users)
      /\ Holding(Opening, a) = SumOf(before, Users)
  BY OpeningAssumption, HoldingIsSum
<1>3. \A u \in Users : Gained(u, a) \in Int /\ now[u] = before[u] + Gained(u, a)
  <2> TAKE u \in Users
  <2>1. accounts[<<u, a>>] \in Account /\ Opening[<<u, a>>] \in Account
    BY OpeningAssumption DEF Wallets
  <2> QED BY <2>1 DEF Account, Gained, Parts, InWallet
<1>4. f \in [Users -> Int] /\ \A u \in Users : f[u] = Gained(u, a)
  BY <1>3
<1>5. \A u \in Users : now[u] = before[u] + f[u]
  BY <1>3, <1>4
<1> HIDE DEF now, before, f
<1>6. SumOf(now, Users) = SumOf(before, Users) + SumOf(f, Users)
  BY <1>1, <1>4, <1>5, UsersAssumption, SumAdds
<1>7. SumOf(f, Users) \in Int /\ SumOf(before, Users) \in Int
  BY <1>1, <1>4, UsersAssumption, SumType
<1>8. GainedBy(a) = h[Users]
  BY DEF GainedBy, MapThenSumSet, MapThenFoldSet, Chosen
<1>9. PICK g \in [SUBSET Users -> Int] : AreSums(g, f, Users)
  BY <1>4, UsersAssumption, SumRecursion
<1>10. PICK k \in [SUBSET Users -> Int] : Totals(k, f, Users)
  BY <1>4, UsersAssumption, TotalsExist
<1>11. \A s \in SUBSET Users : s # {} => /\ Chosen(s) \in s /\ Chosen(s) \in Users
                                         /\ s \ {Chosen(s)} \in SUBSET Users
  BY ChosenLeaves
<1>12. g = Rec(g)
  <2>1. \A s \in SUBSET Users :
          g[s] = IF s = {} THEN 0 ELSE Gained(Chosen(s), a) + g[s \ {Chosen(s)}]
    BY <1>4, <1>9, <1>11 DEF AreSums
  <2> QED BY <2>1
<1>13. h = Rec(h)
  <2> HIDE DEF Rec
  <2> QED BY <1>12
<1> HIDE DEF h
<1>14. \A s \in SUBSET Users :
         h[s] = IF s = {} THEN 0 ELSE Gained(Chosen(s), a) + h[s \ {Chosen(s)}]
  BY <1>13
<1>15. AddsChosen(h, f, Users) /\ AddsChosen(g, f, Users)
  BY <1>4, <1>9, <1>11, <1>14 DEF AddsChosen, AreSums
<1>16. Users \in SUBSET Users
  OBVIOUS
<1>17. h[Users] = k[Users] /\ g[Users] = k[Users]
  BY <1>10, <1>15, <1>16, UsersAssumption, TotalFoundBy
<1>18. GainedBy(a) = SumOf(f, Users)
  BY <1>8, <1>9, <1>17 DEF AreSums
<1> QED BY <1>2, <1>6, <1>7, <1>18

(* What the wallets hold, with the fees of the settled trades, is what     *)
(* they held at first: no call that is repeated, cut off or has lost its   *)
(* answer settles a trade twice, and every other request to the wallet     *)
(* only moves an amount between the parts of one (trading.service.ts).     *)
THEOREM SettledAtMostOnce == Spec => []SettledOnce
<1>1. ASSUME MoneyInv PROVE SettledOnce
  <2>1. SettledOnce <=> \A a \in Assets :
                          GainedBy(a) = IF a = Pair[2] THEN -FeesOf(settled) ELSE 0
    BY DEF SettledOnce, GainedBy, Gained, FeesOf
  <2>2. ASSUME NEW a \in Assets
        PROVE  GainedBy(a) = IF a = Pair[2] THEN -FeesOf(settled) ELSE 0
    <3>1. GainedBy(a) = Holding(accounts, a) - Holding(Opening, a)
      BY <1>1, GainedIsHeld DEF MoneyInv, FeesPaid
    <3>2. Holding(accounts, a) = Holding(Opening, a)
                                 - IF a = Pair[2] THEN FeesOf(settled) ELSE 0
      BY <1>1 DEF MoneyInv, FeesPaid
    <3>3. Holding(Opening, a) \in Int
      BY OpeningAssumption, HoldingType
    <3>4. FeesOf(settled) \in Int
      <4>1. settled \in SUBSET Fill /\ IsFiniteSet(settled)
        BY <1>1, FS_Subset DEF MoneyInv, SettledInv, Typed, EngineTyped
      <4> QED BY <4>1, FeesNumber
    <3> QED BY <3>1, <3>2, <3>3, <3>4
  <2> QED BY <2>1, <2>2
<1> QED BY <1>1, InitMoney, NextMoney, PTL DEF Spec

-----------------------------------------------------------------------------
(* No order is executed beyond its quantity *)

(* Trades of which none is counted twice add up. *)
LEMMA ExecutedJoins ==
  ASSUME NEW S \in SUBSET Fill, IsFiniteSet(S), NEW T \in SUBSET Fill, IsFiniteSet(T),
         S \cap T = {}, NEW o
  PROVE  Executed(o, S \cup T) = Executed(o, S) + Executed(o, T)
<1> DEFINE U == S \cup T
<1>1. U \in SUBSET Fill /\ IsFiniteSet(U)
  BY FS_Union
<1>2. S \in SUBSET U /\ T \in SUBSET U /\ U \in SUBSET U
  OBVIOUS
<1> DEFINE A == Of(o, S)
           B == Of(o, T)
<1>3. A \cup B = Of(o, U) /\ A \cap B = {} /\ A \in SUBSET U /\ B \in SUBSET U
  BY DEF Of
<1>4. A = Of(o, S) /\ B = Of(o, T)
  OBVIOUS
<1>e. U = S \cup T
  OBVIOUS
<1> HIDE DEF U, A, B
<1>5. PICK f \in [U -> Nat] : \E g \in [SUBSET U -> Int] :
             /\ \A t \in U : f[t] = t.quantity
             /\ Totals(g, f, U)
             /\ \A r : \A V \in SUBSET U : Executed(r, V) = g[Of(r, V)]
  BY <1>1, QuantitySums
<1>6. PICK g \in [SUBSET U -> Int] :
             /\ Totals(g, f, U)
             /\ \A r : \A V \in SUBSET U : Executed(r, V) = g[Of(r, V)]
  BY <1>5
<1>7. f \in [U -> Int]
  OBVIOUS
<1>8. g[A \cup B] = g[A] + g[B]
  <2>1. Joins(g, U)
    BY <1>1, <1>6, <1>7, TotalsJoin
  <2> QED BY <1>3, <2>1 DEF Joins
<1>9. /\ Executed(o, S) = g[A] /\ Executed(o, T) = g[B]
      /\ Executed(o, U) = g[A \cup B]
  BY <1>2, <1>3, <1>4, <1>6
<1> QED BY <1>e, <1>8, <1>9

(* An order that has no part in some trades has nothing executed by them. *)
LEMMA ExecutedOfOthers ==
  ASSUME NEW T \in SUBSET Fill, IsFiniteSet(T), NEW o,
         \A t \in T : t.maker # o /\ t.taker # o
  PROVE  Executed(o, T) = 0
<1>1. PICK f \in [T -> Nat] : \E g \in [SUBSET T -> Int] :
             /\ Totals(g, f, T)
             /\ \A r : \A S \in SUBSET T : Executed(r, S) = g[Of(r, S)]
  BY QuantitySums
<1>2. PICK g \in [SUBSET T -> Int] :
             /\ Totals(g, f, T)
             /\ \A r : \A S \in SUBSET T : Executed(r, S) = g[Of(r, S)]
  BY <1>1
<1>3. Of(o, T) = {}
  BY DEF Of
<1>4. Executed(o, T) = g[Of(o, T)]
  BY <1>2
<1> QED BY <1>2, <1>3, <1>4 DEF Totals

(* An order that has a part in one of some trades alone has that executed. *)
LEMMA ExecutedByOne ==
  ASSUME NEW T \in SUBSET Fill, IsFiniteSet(T), NEW o, NEW t \in T,
         t.maker = o \/ t.taker = o,
         \A x \in T : x # t => x.maker # o /\ x.taker # o
  PROVE  Executed(o, T) = t.quantity
<1> DEFINE R == T \ {t}
<1>1. R \in SUBSET Fill /\ IsFiniteSet(R) /\ t \notin R /\ R \cup {t} = T
      /\ \A x \in R : x.maker # o /\ x.taker # o
  BY FS_Subset
<1>2. t \in Fill /\ t.quantity \in Nat
  BY DEF Fill
<1> HIDE DEF R
<1>3. Executed(o, R) = 0
  BY <1>1, ExecutedOfOthers
<1>4. Executed(o, R \cup {t}) = Executed(o, R) + t.quantity
  BY <1>1, <1>2, ExecutedAdds
<1> QED BY <1>1, <1>2, <1>3, <1>4

(* It adds up place by place. *)
RestsAddUp(o, i) ==
  /\ RestsAt(o, 1..i - 1) \in Int
  /\ RestsAt(o, 1..i) = RestsAt(o, 1..i - 1) + left[Queue(o)[i]]
  /\ RestsAt(o, {}) = 0

LEMMA RestsAtAdds ==
  ASSUME NEW n \in Nat, NEW o, \A j \in 1..n : left[Queue(o)[j]] \in Int,
         NEW i \in 1..n
  PROVE  RestsAddUp(o, i)
<1> DEFINE U == 1..n
<1>1. /\ IsFiniteSet(U) /\ 1..i \in SUBSET U /\ 1..i - 1 \in SUBSET U /\ {} \in SUBSET U
      /\ i \in 1..i /\ (1..i) \ {i} = 1..i - 1 /\ i \in U
  BY FS_Interval
<1>2. \A j \in U : left[Queue(o)[j]] \in Int
  OBVIOUS
<1> HIDE DEF U
<1>3. PICK f \in [U -> Int] : \E g \in [SUBSET U -> Int] :
             /\ \A j \in U : f[j] = left[Queue(o)[j]]
             /\ Totals(g, f, U)
             /\ \A S \in SUBSET U : RestsAt(o, S) = g[S]
  <2>1. RestSums(o, U)
    BY <1>1, <1>2, RestsAtFound
  <2> QED BY <2>1 DEF RestSums
<1>4. PICK g \in [SUBSET U -> Int] :
             /\ \A j \in U : f[j] = left[Queue(o)[j]]
             /\ Totals(g, f, U)
             /\ \A S \in SUBSET U : RestsAt(o, S) = g[S]
  BY <1>3
<1>5. g[1..i] = f[i] + g[1..i - 1]
  <2>1. g[1..i] = f[i] + g[(1..i) \ {i}]
    BY <1>1, <1>4, Zenon DEF Totals
  <2> QED BY <1>1, <2>1
<1>6. /\ RestsAt(o, 1..i) = g[1..i] /\ RestsAt(o, 1..i - 1) = g[1..i - 1]
      /\ RestsAt(o, {}) = g[{}]
  BY <1>1, <1>4
<1>7. g[1..i - 1] \in Int /\ f[i] \in Int /\ f[i] = left[Queue(o)[i]] /\ g[{}] = 0
  BY <1>1, <1>4 DEF Totals
<1> QED BY <1>5, <1>6, <1>7 DEF RestsAddUp

(* The orders that an order meets are the first ones of the queue, as far  *)
(* as its quantity goes; and what rests in front of each of them, it takes *)
(* before.                                                                 *)
Met(o) == {i \in Reached(o) : Taken(o, i) > 0}

MeetsAt(o, i) ==
  /\ RestsAddUp(o, i)
  /\ RestsAt(o, 1..i - 1) \in Nat
  /\ RestsAt(o, 1..i - 1) < Order(o).quantity
  /\ left[Queue(o)[i]] \in Nat
  /\ Taken(o, i) = IF RestsAt(o, 1..i) <= Order(o).quantity THEN left[Queue(o)[i]]
                   ELSE Order(o).quantity - RestsAt(o, 1..i - 1)

LEMMA MetFirst ==
  ASSUME Typed, EngineOK, \A m \in Ids : left[m] \in Nat, NEW o \in Placed
  PROVE  /\ Met(o) = 1..Cardinality(Met(o)) /\ Cardinality(Met(o)) \in Nat
         /\ Cardinality(Met(o)) <= Cardinality(Facing(o))
         /\ \A i \in Met(o) : MeetsAt(o, i)
<1> DEFINE n == Cardinality(Facing(o))
           q == Order(o).quantity
           met == Met(o)
           B(i) == RestsAt(o, 1..i)
<1>1. /\ n \in Nat /\ Queue(o) \in [1..n -> Facing(o)]
  BY QueueFound
<1>2. q \in Nat
  BY OrderFound DEF Typed
<1>3. \A m \in Facing(o) : m \in Ids /\ left[m] > 0 /\ left[m] \in Nat
  <2>1. \A m \in Placed : m \in Ids
    BY OrderFound DEF Typed
  <2> QED BY <2>1 DEF Facing
<1>4. \A j \in 1..n : left[Queue(o)[j]] \in Nat /\ left[Queue(o)[j]] > 0
  BY <1>1, <1>3
<1>7. \A i \in 1..n :
        Taken(o, i) = Max({0, Min({left[Queue(o)[i]], q - B(i - 1)})})
  BY DEF Taken, RestsAt
<1>8. Reached(o) \in SUBSET (1..n) /\ \A i \in Reached(o) : \A j \in 1..i : j \in Reached(o)
  <2>1. DOMAIN Queue(o) = 1..n
    BY <1>1
  <2> QED BY <1>1, <2>1 DEF Reached
<1>m. \A i : i \in met <=> i \in Reached(o) /\ Taken(o, i) > 0
  BY DEF Met
<1>a. \A i \in 1..n : RestsAddUp(o, i)
  <2> TAKE i \in 1..n
  <2>1. \A j \in 1..n : left[Queue(o)[j]] \in Int
    BY <1>4
  <2> QED BY <1>1, <2>1, RestsAtAdds
<1>5. \A i \in 1..n : B(i - 1) \in Int /\ B(i) = B(i - 1) + left[Queue(o)[i]]
  BY <1>a DEF RestsAddUp
<1>6. n > 0 => B(0) = 0
  <2>1. n > 0 => 1 \in 1..n
    BY <1>1
  <2>2. 1..0 = {}
    OBVIOUS
  <2> QED BY <1>a, <2>1, <2>2 DEF RestsAddUp
<1> HIDE DEF met
<1> HIDE DEF B, n, q
<1>9. \A i \in 1..n : /\ B(i) \in Int /\ B(i - 1) \in Int /\ B(i - 1) < B(i)
  <2> TAKE i \in 1..n
  <2>1. left[Queue(o)[i]] \in Nat /\ left[Queue(o)[i]] > 0
    BY <1>4
  <2>2. B(i - 1) \in Int /\ B(i) = B(i - 1) + left[Queue(o)[i]]
    BY <1>5
  <2> QED BY <2>1, <2>2
<1>10. \A i \in 1..n :
         /\ Taken(o, i) > 0 <=> B(i - 1) < q
         /\ B(i - 1) < q => Taken(o, i) = IF B(i) <= q THEN left[Queue(o)[i]]
                                          ELSE q - B(i - 1)
  <2> TAKE i \in 1..n
  <2> DEFINE a == left[Queue(o)[i]]
             d == q - B(i - 1)
             x == Min({a, d})
  <2>1. a \in Nat /\ a > 0 /\ d \in Int /\ B(i) = B(i - 1) + a /\ B(i - 1) \in Int
    BY <1>2, <1>4, <1>5, <1>9
  <2>2. Taken(o, i) = Max({0, x})
    BY <1>7
  <2> HIDE DEF a
  <2>3. d > 0 <=> B(i - 1) < q
    BY <1>2, <2>1
  <2>4. a <= d <=> B(i) <= q
    BY <1>2, <2>1
  <2> HIDE DEF d
  <2>5. x = IF a <= d THEN a ELSE d
    <3>1. x \in {a, d} /\ x <= a /\ x <= d
      <4>1. \E y \in {a, d} : \A z \in {a, d} : y <= z
        <5>1. CASE a <= d BY <2>1, <5>1
        <5>2. CASE ~(a <= d) BY <2>1, <5>2
        <5> QED BY <5>1, <5>2
      <4> QED BY <4>1 DEF Min
    <3> HIDE DEF x
    <3> QED BY <2>1, <3>1
  <2> HIDE DEF x
  <2>6. x \in Int
    BY <2>1, <2>5
  <2>7. Max({0, x}) = IF x > 0 THEN x ELSE 0
    <3> DEFINE y == Max({0, x})
    <3>1. y \in {0, x} /\ y >= 0 /\ y >= x
      <4>1. \E z \in {0, x} : \A w \in {0, x} : z >= w
        <5>1. CASE x >= 0 BY <2>6, <5>1
        <5>2. CASE ~(x >= 0) BY <2>6, <5>2
        <5> QED BY <5>1, <5>2
      <4> QED BY <4>1 DEF Max
    <3> HIDE DEF y
    <3>2. y = IF x > 0 THEN x ELSE 0
      BY <2>6, <3>1
    <3> QED BY <3>2 DEF y
  <2>8. Taken(o, i) > 0 <=> d > 0
    BY <2>1, <2>2, <2>5, <2>6, <2>7
  <2>9. d > 0 => Taken(o, i) = IF a <= d THEN a ELSE d
    BY <2>1, <2>2, <2>5, <2>6, <2>7
  <2> QED BY <2>3, <2>4, <2>8, <2>9 DEF a, d
<1>11. \A i, j \in 1..n : j <= i => B(j - 1) <= B(i - 1)
  <2> DEFINE N == {k \in Nat : \A i, j \in 1..n : i = j + k => B(j - 1) <= B(i - 1)}
  <2>1. 0 \in N
    BY <1>1, <1>9
  <2>2. ASSUME NEW k \in Nat, k \in N PROVE k + 1 \in N
    <3> SUFFICES ASSUME NEW i \in 1..n, NEW j \in 1..n, i = j + (k + 1)
                 PROVE  B(j - 1) <= B(i - 1)
      OBVIOUS
    <3>1. i - 1 \in 1..n /\ i - 1 = j + k
      BY <1>1
    <3>2. B(j - 1) <= B((i - 1) - 1)
      BY <2>2, <3>1
    <3>3. B((i - 1) - 1) < B(i - 1)
      BY <1>9, <3>1
    <3> QED BY <1>9, <3>1, <3>2, <3>3
  <2> HIDE DEF N
  <2>3. Nat \subseteq N
    BY <2>1, <2>2, SetInduction
  <2> SUFFICES ASSUME NEW i \in 1..n, NEW j \in 1..n, j <= i PROVE B(j - 1) <= B(i - 1)
    OBVIOUS
  <2>4. i - j \in Nat /\ i = j + (i - j)
    BY <1>1
  <2> QED BY <2>3, <2>4 DEF N
<1>12. met \in SUBSET (1..n) /\ \A i \in met : \A j \in 1..i : j \in met
  <2>1. met \in SUBSET (1..n)
    BY <1>8, <1>m
  <2>2. ASSUME NEW i \in met, NEW j \in 1..i PROVE j \in met
    <3>1. i \in 1..n /\ j \in 1..n /\ j <= i /\ j \in Reached(o) /\ Taken(o, i) > 0
      BY <1>1, <1>8, <1>m, <2>1
    <3>2. B(i - 1) < q /\ B(j - 1) <= B(i - 1)
      BY <1>10, <1>11, <3>1
    <3>3. B(j - 1) < q
      BY <1>2, <1>9, <3>1, <3>2
    <3> QED BY <1>10, <1>m, <3>1, <3>3
  <2> QED BY <2>1, <2>2
<1>13. \A i \in met : i \in 1..n /\ B(i - 1) < q
  BY <1>8, <1>10, <1>m
<1>14. \A i \in met : B(i - 1) >= 0
  <2> SUFFICES ASSUME NEW i \in met PROVE B(i - 1) >= 0
    OBVIOUS
  <2>1. i \in 1..n /\ 1 \in 1..n /\ 1 <= i
    BY <1>1, <1>13
  <2>2. B(1 - 1) <= B(i - 1) /\ B(i - 1) \in Int
    BY <1>9, <1>11, <2>1
  <2>3. B(0) = 0
    BY <1>1, <1>6, <2>1
  <2> QED BY <2>2, <2>3
<1> HIDE DEF met
<1>15. met = 1..Cardinality(met) /\ Cardinality(met) \in Nat /\ Cardinality(met) <= n
  <2>1. CASE met = {}
    BY <1>1, <2>1, FS_EmptySet
  <2>2. CASE met # {}
    <3>1. Max(met) \in met /\ \A x \in met : Max(met) >= x
      BY <1>1, <1>12, <2>2, MaxIsIn
    <3>2. PICK k \in met : \A x \in met : x <= k
      BY <1>12, <3>1
    <3>3. k \in 1..n /\ met = 1..k
      <4>1. k \in 1..n /\ 1..k \subseteq met
        BY <1>12, <3>2
      <4>2. met \subseteq 1..k
        <5> SUFFICES ASSUME NEW x \in met PROVE x \in 1..k
          OBVIOUS
        <5>1. x \in 1..n /\ x <= k
          BY <1>12, <3>2
        <5> QED BY <1>1, <4>1, <5>1
      <4> QED BY <4>1, <4>2
    <3>4. Cardinality(met) = k
      BY <1>1, <3>3, FS_Interval
    <3> QED BY <1>1, <3>3, <3>4
  <2> QED BY <2>1, <2>2
<1>16. \A i \in met : MeetsAt(o, i)
  <2> TAKE i \in met
  <2>1. i \in 1..n /\ B(i - 1) < q /\ B(i - 1) >= 0 /\ B(i - 1) \in Int
    BY <1>9, <1>13, <1>14
  <2>2. Taken(o, i) = IF B(i) <= q THEN left[Queue(o)[i]] ELSE q - B(i - 1)
    BY <1>10, <2>1
  <2>3. left[Queue(o)[i]] \in Nat /\ RestsAddUp(o, i) /\ B(i - 1) \in Nat
    BY <1>4, <1>a, <2>1
  <2> QED BY <2>1, <2>2, <2>3 DEF MeetsAt, B, q
<1> QED BY <1>15, <1>16 DEF n, met

(* The fills are those of the orders that the order meets. *)
FillAt(o, i) == [maker |-> Queue(o)[i], taker |-> o,
                 price |-> Order(Queue(o)[i]).price, quantity |-> Taken(o, i)]

LEMMA FillsMet ==
  ASSUME NEW o
  PROVE  FillsOf(o) = [i \in 1..Cardinality(Met(o)) |-> FillAt(o, i)]
BY DEF FillsOf, FillAt, Met

(* A submission takes no more than was asked, and of no order more than    *)
(* rests of it.                                                            *)
LEMMA FillsFit ==
  ASSUME Typed, EngineOK, \A m \in Ids : left[m] \in Nat,
         NEW o \in Placed, o \notin Range(seen)
  PROVE  /\ Range(FillsOf(o)) \in SUBSET Fill /\ IsFiniteSet(Range(FillsOf(o)))
         /\ \A t \in Range(FillsOf(o)) : t.quantity > 0
         /\ Executed(o, Range(FillsOf(o))) <= Order(o).quantity
         /\ \A m \in Ids : m # o => Executed(m, Range(FillsOf(o))) <= left[m]
<1> DEFINE f == FillsOf(o)
           n == Cardinality(Facing(o))
           k == Cardinality(Met(o))
           q == Order(o).quantity
           F(i) == {FillAt(o, j) : j \in 1..i}
           E(i) == Executed(o, F(i))
<1>1. /\ Met(o) = 1..k /\ k \in Nat /\ k <= n /\ \A i \in 1..k : MeetsAt(o, i)
  BY MetFirst
<1>2. /\ n \in Nat /\ Queue(o) \in [1..n -> Facing(o)]
      /\ \A i, j \in 1..n : Queue(o)[i] = Queue(o)[j] => i = j
  BY QueueFound
<1>3. f = [i \in 1..k |-> FillAt(o, i)]
  BY FillsMet
<1>4. /\ f \in Seq(Fill)
      /\ \A i \in DOMAIN f : /\ f[i].taker = o /\ f[i].maker \in Range(seen)
                             /\ f[i].maker # o
  BY FillsFound
<1>5. q \in Nat
  BY OrderFound DEF Typed
<1> HIDE DEF k, n, f, q
<1>6. DOMAIN f = 1..k /\ \A i \in 1..k : f[i] = FillAt(o, i)
  BY <1>3
<1>7. \A i \in 1..k : FillAt(o, i) \in Fill
  <2>1. Len(f) = k
    BY <1>1, <1>4, <1>6, LenProperties
  <2> QED BY <1>4, <1>6, <2>1, ElementOfSeq
<1>8. \A i \in 1..k : /\ FillAt(o, i).taker = o /\ FillAt(o, i).maker = Queue(o)[i]
                      /\ FillAt(o, i).quantity = Taken(o, i)
  BY DEF FillAt
<1>9. \A i \in 1..k : FillAt(o, i).maker # o
  BY <1>4, <1>6
<1>10. \A i, j \in 1..k : FillAt(o, i).maker = FillAt(o, j).maker => i = j
  <2> SUFFICES ASSUME NEW i \in 1..k, NEW j \in 1..k,
                      FillAt(o, i).maker = FillAt(o, j).maker
               PROVE  i = j
    OBVIOUS
  <2>1. i \in 1..n /\ j \in 1..n
    BY <1>1, <1>2
  <2> QED BY <1>2, <1>8, <2>1
<1>11. Range(f) = F(k)
  BY <1>6 DEF Range
<1>12. \A i \in 0..k : F(i) \in SUBSET Fill /\ IsFiniteSet(F(i))
  <2> TAKE i \in 0..k
  <2>1. F(i) \in SUBSET Fill
    BY <1>1, <1>7
  <2>2. IsFiniteSet(1..i)
    BY <1>1, FS_Interval
  <2> DEFINE g == [j \in 1..i |-> FillAt(o, j)]
  <2>3. g \in Surjection(1..i, F(i))
    BY DEF Surjection
  <2>4. IsFiniteSet(F(i))
    <3> HIDE DEF g, F
    <3> QED BY <2>2, <2>3, FS_Surjection
  <2> QED BY <2>1, <2>4
<1>13. \A i \in 1..k : Taken(o, i) > 0
  BY <1>1 DEF Met
<1> HIDE DEF F
<1>14. \A i \in 1..k : /\ F(i) = F(i - 1) \cup {FillAt(o, i)}
                       /\ FillAt(o, i) \notin F(i - 1)
  <2> TAKE i \in 1..k
  <2>1. 1..i = (1..i - 1) \cup {i} /\ 1..i - 1 \subseteq 1..k
    BY <1>1
  <2>2. F(i) = F(i - 1) \cup {FillAt(o, i)}
    BY <2>1 DEF F
  <2>3. ASSUME NEW j \in 1..i - 1, FillAt(o, j) = FillAt(o, i) PROVE FALSE
    <3>1. j = i
      BY <1>10, <2>1, <2>3
    <3> QED BY <1>1, <3>1
  <2> QED BY <2>2, <2>3 DEF F
<1>15. \A i \in 1..k : E(i) = E(i - 1) + Taken(o, i)
  <2> TAKE i \in 1..k
  <2>1. i - 1 \in 0..k
    BY <1>1
  <2>2. F(i - 1) \in SUBSET Fill /\ IsFiniteSet(F(i - 1))
    BY <1>12, <2>1
  <2> DEFINE T == F(i - 1)
             t == FillAt(o, i)
  <2>3. t \in Fill /\ t \notin T /\ t.taker = o /\ T \in SUBSET Fill /\ IsFiniteSet(T)
    BY <1>7, <1>8, <1>14, <2>2
  <2>4. Executed(o, T \cup {t}) = Executed(o, T) + t.quantity
    <3> HIDE DEF T, t
    <3> QED BY <2>3, ExecutedAdds
  <2> QED BY <1>8, <1>14, <2>4
<1>16. E(0) = 0
  <2>1. F(0) = {} /\ {} \in SUBSET Fill /\ IsFiniteSet({})
    BY FS_EmptySet DEF F
  <2>2. Executed(o, {}) = 0
    BY <2>1, ExecutedOfOthers
  <2> QED BY <2>1, <2>2
<1> HIDE DEF E
<1> DEFINE B(i) == RestsAt(o, 1..i)
           N == {i \in Nat : i <= k => /\ E(i) \in Nat /\ E(i) <= q
                                       /\ i < k => E(i) = B(i)}
<1>17. 0 \in N
  <2>1. k > 0 => B(0) = 0
    <3>1. k > 0 => 1 \in 1..k
      BY <1>1
    <3>2. 1..0 = {}
      OBVIOUS
    <3> QED BY <1>1, <3>1, <3>2 DEF MeetsAt, RestsAddUp
  <2> HIDE DEF B
  <2> QED BY <1>1, <1>5, <1>16, <2>1
<1>18. ASSUME NEW i \in N PROVE i + 1 \in N
  <2> SUFFICES ASSUME i + 1 <= k
               PROVE  /\ E(i + 1) \in Nat /\ E(i + 1) <= q
                      /\ i + 1 < k => E(i + 1) = B(i + 1)
    OBVIOUS
  <2>1. /\ i \in Nat /\ i + 1 \in 1..k /\ (i + 1) - 1 = i
        /\ E(i) \in Nat /\ E(i) = B(i)
    BY <1>1
  <2>2. MeetsAt(o, i + 1)
    BY <1>1, <2>1
  <2>3. /\ B(i) \in Nat /\ B(i) < q /\ left[Queue(o)[i + 1]] \in Nat
        /\ B(i + 1) = B(i) + left[Queue(o)[i + 1]]
        /\ Taken(o, i + 1) = IF B(i + 1) <= q THEN left[Queue(o)[i + 1]] ELSE q - B(i)
    BY <2>1, <2>2 DEF MeetsAt, RestsAddUp, q
  <2>4. E(i + 1) = E(i) + Taken(o, i + 1)
    BY <1>15, <2>1
  <2>5. i + 1 < k => B(i + 1) < q
    <3> SUFFICES ASSUME i + 1 < k PROVE B(i + 1) < q
      OBVIOUS
    <3>1. (i + 1) + 1 \in 1..k /\ ((i + 1) + 1) - 1 = i + 1
      BY <1>1, <2>1
    <3>2. MeetsAt(o, (i + 1) + 1)
      BY <1>1, <3>1
    <3> QED BY <3>1, <3>2 DEF MeetsAt, q
  <2> HIDE DEF B
  <2> QED BY <1>5, <2>1, <2>3, <2>4, <2>5
<1>19. Executed(o, Range(f)) <= q
  <2> HIDE DEF N
  <2>1. Nat \subseteq N
    BY <1>17, <1>18, SetInduction
  <2>2. E(k) <= q
    BY <1>1, <2>1 DEF N
  <2> QED BY <1>11, <2>2 DEF E
<1>20. \A t \in Range(f) : \E i \in 1..k : t = FillAt(o, i)
  BY <1>6 DEF Range
<1>21. \A t \in Range(f) : t.quantity > 0
  BY <1>8, <1>13, <1>20
<1>22. Range(f) \in SUBSET Fill /\ IsFiniteSet(Range(f))
  BY <1>1, <1>11, <1>12
<1>23. ASSUME NEW m \in Ids, m # o
       PROVE  Executed(m, Range(f)) <= left[m]
  <2>1. CASE \E i \in 1..k : Queue(o)[i] = m
    <3>1. PICK i \in 1..k : Queue(o)[i] = m
      BY <2>1
    <3>2. FillAt(o, i) \in Range(f) /\ FillAt(o, i).maker = m
      BY <1>6, <1>8, <3>1 DEF Range
    <3>3. \A x \in Range(f) : x # FillAt(o, i) => x.maker # m /\ x.taker # m
      BY <1>8, <1>20, <1>23, <1>10, <3>1
    <3>4. Executed(m, Range(f)) = FillAt(o, i).quantity
      BY <1>22, <3>2, <3>3, ExecutedByOne
    <3>5. Taken(o, i) <= left[Queue(o)[i]]
      <4>1. MeetsAt(o, i)
        BY <1>1
      <4>2. /\ B(i) = B(i - 1) + left[Queue(o)[i]] /\ B(i - 1) \in Nat /\ B(i - 1) < q
            /\ left[Queue(o)[i]] \in Nat
            /\ Taken(o, i) = IF B(i) <= q THEN left[Queue(o)[i]] ELSE q - B(i - 1)
        BY <4>1 DEF MeetsAt, RestsAddUp, q
      <4> HIDE DEF B
      <4> QED BY <1>5, <4>2
    <3> QED BY <1>8, <3>1, <3>4, <3>5
  <2>2. CASE ~\E i \in 1..k : Queue(o)[i] = m
    <3>1. \A x \in Range(f) : x.maker # m /\ x.taker # m
      BY <1>8, <1>20, <1>23, <2>2
    <3>2. Executed(m, Range(f)) = 0
      BY <1>22, <3>1, ExecutedOfOthers
    <3> QED BY <3>2
  <2> QED BY <2>1, <2>2
<1> QED BY <1>19, <1>21, <1>22, <1>23 DEF f, q

(* What rests of an order and what was executed of it are no more than was *)
(* asked.                                                                  *)
EngineFits ==
  /\ \A o \in Ids : left[o] \in Nat
  /\ \A o \in Placed : left[o] + Executed(o, traded) <= Order(o).quantity
  /\ \A t \in traded : t.quantity > 0

LEMMA FitsStay ==
  ASSUME EngineFits, UNCHANGED <<asked, left, traded>>
  PROVE  EngineFits'
BY DEF EngineFits, Placed, Order

(* An order that the engine has not seen has nothing executed. *)
LEMMA UnseenHasNone ==
  ASSUME Typed, EngineOK, NEW o, o \notin Range(seen)
  PROVE  Executed(o, traded) = 0
<1>1. traded \in SUBSET Fill /\ IsFiniteSet(traded)
  BY DEF Typed, EngineTyped
<1>2. \A t \in traded : t.maker # o /\ t.taker # o
  BY DEF EngineOK
<1> QED BY <1>1, <1>2, ExecutedOfOthers

LEMMA PlaceFits ==
  ASSUME SettledInv, EngineFits, Place
  PROVE  EngineFits'
<1>1. PICK t \in AskedOrders : asked' = Append(asked, t)
  BY DEF Place
<1>2. /\ Typed /\ EngineOK /\ asked \in Seq(AskedOrders) /\ UNCHANGED <<left, traded>>
      /\ Len(asked) < MaxOrders
  BY DEF SettledInv, Typed, OrdersTyped, Place, engine
<1> DEFINE o == Len(asked) + 1
<1>3. /\ Len(asked) \in Nat /\ Placed = 1..Len(asked) /\ asked' \in Seq(AskedOrders)
      /\ Len(asked') = o /\ asked'[o] = t
      /\ \A q \in 1..Len(asked) : asked'[q] = asked[q]
  BY <1>1, <1>2, AppendProperties, LenProperties DEF Placed
<1>4. Placed' = 1..o
  BY <1>3, LenProperties DEF Placed
<1>5. o \in Ids /\ o \notin Range(seen) /\ t.quantity \in Nat
  <2>1. o \in Ids
    BY <1>2, <1>3, BoundsAssumption DEF Ids
  <2>2. o \notin Placed
    BY <1>3
  <2> QED BY <1>2, <2>1, <2>2, OrdersAssumption DEF EngineOK, PlaceOrderDto
<1>6. Executed(o, traded) = 0
  BY <1>2, <1>5, UnseenHasNone
<1>7. left[o] = 0
  <2>1. left[o] \in Nat /\ ~(left[o] > 0)
    BY <1>2, <1>5 DEF EngineFits, EngineOK
  <2> QED BY <2>1
<1>8. ASSUME NEW q \in Placed'
      PROVE  left[q] + Executed(q, traded) <= Order(q)'.quantity
  <2>1. CASE q = o
    BY <1>3, <1>5, <1>6, <1>7, <2>1 DEF Order
  <2>2. CASE q # o
    <3>1. q \in Placed
      BY <1>3, <1>4, <2>2
    <3> QED BY <1>3, <3>1 DEF EngineFits, Order
  <2> QED BY <2>1, <2>2
<1> HIDE DEF o
<1> QED BY <1>2, <1>8 DEF EngineFits

LEMMA SubmitFits ==
  ASSUME SettledInv, EngineFits, NEW o \in Ids, Submit(o)
  PROVE  EngineFits'
<1>1. /\ Typed /\ EngineOK /\ EngineTyped /\ OrdersTyped /\ PlaceOK(o)
      /\ place[o].at = "submit" /\ UNCHANGED asked
  BY DEF SettledInv, Typed, Places, Submit, database
<1>2. CASE o \in Range(seen) \/ (Order(o).kind # "Market" /\ Order(o).price = NoPrice)
  <2>1. UNCHANGED <<left, traded>>
    BY <1>2 DEF Submit, engine
  <2> QED BY <1>1, <2>1, FitsStay
<1>3. CASE ~(o \in Range(seen) \/ (Order(o).kind # "Market" /\ Order(o).price = NoPrice))
  <2> DEFINE R == Range(FillsOf(o))
  <2>1. left' = AfterFills(o, FillsOf(o)) /\ traded' = traded \cup R
    BY <1>3 DEF Submit
  <2>2. o \in Placed /\ o \notin Range(seen)
    BY <1>1, <1>3 DEF PlaceOK, Held
  <2>3. /\ R \in SUBSET Fill /\ IsFiniteSet(R)
        /\ \A t \in R : t.quantity > 0
        /\ Executed(o, R) <= Order(o).quantity
        /\ \A m \in Ids : m # o => Executed(m, R) <= left[m]
    BY <1>1, <2>2, FillsFit DEF EngineFits
  <2>4. \A t \in R : t.taker = o
    BY <1>1, <2>2, FillsFound DEF Range
  <2>5. \A m \in Ids : left'[m] = IF m # o THEN left[m] - Executed(m, R)
                                  ELSE IF RestsAtEngine(o)
                                       THEN Order(o).quantity - Executed(o, R)
                                       ELSE 0
    BY <2>1 DEF AfterFills
  <2> HIDE DEF R
  <2>6. \A m : Executed(m, R) \in Nat
    BY <2>3, ExecutedGrows
  <2>7. traded \in SUBSET Fill /\ IsFiniteSet(traded) /\ traded \cap R = {}
    BY <1>1, <2>2, <2>4 DEF EngineTyped, EngineOK
  <2>8. \A m : Executed(m, traded') = Executed(m, traded) + Executed(m, R)
    BY <2>1, <2>3, <2>7, ExecutedJoins
  <2>9. Executed(o, traded) = 0
    BY <1>1, <2>2, UnseenHasNone
  <2>10. \A m : Executed(m, traded) \in Nat
    BY <2>7, ExecutedGrows
  <2>11. Order(o).quantity \in Nat
    BY <1>1, <2>2, OrderFound
  <2>12. ASSUME NEW m \in Ids
         PROVE  /\ left'[m] \in Nat
                /\ m # o => left'[m] + Executed(m, traded') = left[m] + Executed(m, traded)
                /\ m = o => left'[m] + Executed(m, traded') <= Order(m).quantity
    <3>1. CASE m # o
      <4>1. left[m] \in Nat /\ Executed(m, R) <= left[m] /\ left'[m] = left[m] - Executed(m, R)
        BY <2>3, <2>5, <3>1 DEF EngineFits
      <4>2. /\ Executed(m, R) \in Nat /\ Executed(m, traded) \in Nat
            /\ Executed(m, traded') = Executed(m, traded) + Executed(m, R)
        BY <2>6, <2>8, <2>10
      <4> QED BY <3>1, <4>1, <4>2
    <3>2. CASE m = o
      <4>1. /\ Executed(o, R) \in Nat /\ Executed(o, R) <= Order(o).quantity
            /\ Executed(o, traded') = Executed(o, R)
        BY <2>3, <2>6, <2>8, <2>9
      <4>2. left'[o] = IF RestsAtEngine(o) THEN Order(o).quantity - Executed(o, R) ELSE 0
        BY <2>5
      <4> QED BY <2>11, <3>2, <4>1, <4>2
    <3> QED BY <3>1, <3>2
  <2>13. \A m \in Placed : left'[m] + Executed(m, traded') <= Order(m).quantity
    <3>1. \A m \in Placed : m \in Ids
      BY <1>1, OrderFound
    <3>2. \A m \in Placed : left[m] + Executed(m, traded) <= Order(m).quantity
      BY DEF EngineFits
    <3> QED BY <2>12, <3>1, <3>2
  <2>14. \A t \in traded' : t.quantity > 0
    BY <2>1, <2>3 DEF EngineFits
  <2> QED BY <1>1, <2>12, <2>13, <2>14 DEF EngineFits, Order, Placed
<1> QED BY <1>2, <1>3

LEMMA CancelAtEngineFits ==
  ASSUME SettledInv, EngineFits, NEW o \in Ids, CancelAtEngine(o)
  PROVE  EngineFits'
<1>1. left' = [left EXCEPT ![o] = 0] /\ UNCHANGED <<asked, traded>>
  BY DEF CancelAtEngine, database
<1>2. left \in [Ids -> Int] /\ IsFiniteSet(traded) /\ traded \in SUBSET Fill
  BY DEF SettledInv, Typed, EngineTyped
<1>3. \A m \in Ids : left'[m] \in Nat /\ left[m] \in Nat /\ left'[m] <= left[m]
  BY <1>1, <1>2 DEF EngineFits
<1>4. \A m : Executed(m, traded) \in Nat
  BY <1>2, ExecutedGrows
<1>5. ASSUME NEW m \in Placed
      PROVE  left'[m] + Executed(m, traded) <= Order(m).quantity
  <2>1. m \in Ids /\ Order(m).quantity \in Nat
    BY OrderFound DEF SettledInv, Typed
  <2>2. left[m] + Executed(m, traded) <= Order(m).quantity
    BY DEF EngineFits
  <2> QED BY <1>3, <1>4, <2>1, <2>2
<1> QED BY <1>1, <1>3, <1>5 DEF EngineFits, Placed, Order

(* Only these steps change the orders or the engine. *)
LEMMA NextFits ==
  ASSUME SettledInv, EngineFits, [Next]_vars
  PROVE  EngineFits'
<1>1. CASE Place
  BY <1>1, PlaceFits
<1>2. ASSUME NEW o \in Ids, PlaceStep(o)
      PROVE  EngineFits'
  <2>1. CASE Submit(o)
    BY <2>1, SubmitFits
  <2>2. CASE ~Submit(o)
    <3>1. UNCHANGED <<asked, left, traded>>
      BY <1>2, <2>2 DEF PlaceStep, LockBalance, Answered, GiveUp, RejectRow,
                        UnlockRefused, Settle, ApplyFill, WriteMaker, UnlockMaker,
                        WriteOrder, UnlockUnused, Rest, Refused, database, engine
    <3> QED BY <3>1, FitsStay
  <2> QED BY <2>1, <2>2
<1>3. ASSUME NEW o \in Ids, CancelStep(o)
      PROVE  EngineFits'
  <2>1. CASE CancelAtEngine(o)
    BY <2>1, CancelAtEngineFits
  <2>2. CASE ~CancelAtEngine(o)
    <3>1. UNCHANGED <<asked, left, traded>>
      BY <1>3, <2>2 DEF CancelStep, FindCancelled, UnlockCancelled, CloseCancelled,
                        database, engine
    <3> QED BY <3>1, FitsStay
  <2> QED BY <2>1, <2>2
<1>4. ASSUME NEW o \in Ids, CallFails(o) \/ Fail(o) \/ StartCancel(o) \/ CancelFails(o)
      PROVE  EngineFits'
  <2>1. UNCHANGED <<asked, left, traded>>
    BY <1>4 DEF CallFails, Fail, StartCancel, CancelFails, database, engine
  <2> QED BY <2>1, FitsStay
<1>5. CASE Restart \/ ChangeStatus \/ UNCHANGED vars
  <2>1. UNCHANGED <<asked, left, traded>>
    BY <1>5 DEF Restart, ChangeStatus, vars, database, engine
  <2> QED BY <2>1, FitsStay
<1> QED BY <1>1, <1>2, <1>3, <1>4, <1>5 DEF Next, Step

(* Users are active or not. *)
LEMMA ActiveStays ==
  ASSUME active \in [Users -> BOOLEAN], [Next]_vars
  PROVE  active' \in [Users -> BOOLEAN]
<1>1. CASE ChangeStatus
  <2>1. PICK u \in Users : active' = [active EXCEPT ![u] = ~@]
    BY <1>1 DEF ChangeStatus, SetStatus
  <2> QED BY <2>1
<1>2. ASSUME NEW o \in Ids, PlaceStep(o) \/ CallFails(o) \/ Fail(o)
      PROVE  active' = active
  BY <1>2 DEF PlaceStep, LockBalance, Submit, Answered, GiveUp, RejectRow, UnlockRefused,
              Settle, ApplyFill, WriteMaker, UnlockMaker, WriteOrder, UnlockUnused, Rest,
              Refused, CallFails, Fail, WalletPost, ledgerVars
<1>3. ASSUME NEW o \in Ids, StartCancel(o) \/ CancelStep(o) \/ CancelFails(o)
      PROVE  active' = active
  BY <1>3 DEF StartCancel, CancelStep, CancelAtEngine, FindCancelled, UnlockCancelled,
              CloseCancelled, CancelFails, WalletPost, ledgerVars
<1>4. CASE Place \/ Restart \/ UNCHANGED vars
  BY <1>4 DEF Place, Restart, vars, ledgerVars
<1> QED BY <1>1, <1>2, <1>3, <1>4 DEF Next, Step

TradingInv == MoneyInv /\ EngineFits /\ active \in [Users -> BOOLEAN]

LEMMA InitTrading ==
  ASSUME Init
  PROVE  TradingInv
<1>1. /\ Placed = {} /\ traded = {} /\ active = [u \in Users |-> TRUE]
      /\ left = [o \in Ids |-> 0]
  BY DEF Init, LedgerInit, Placed
<1>2. EngineFits
  BY <1>1 DEF EngineFits
<1> QED BY <1>1, <1>2, InitMoney DEF TradingInv

LEMMA NextTrading ==
  ASSUME TradingInv, [Next]_vars
  PROVE  TradingInv'
BY NextMoney, NextFits, ActiveStays DEF TradingInv, MoneyInv

(* No order is filled beyond its quantity.  Orders meet it one after the   *)
(* other (matchOrder of the engine), and what they take of it is settled   *)
(* and added to its row by whichever requests they came with: no lost      *)
(* answer, repeated call or restart has a fill counted twice.              *)
THEOREM NothingOverfilled == Spec => []WithinQuantity
<1>1. ASSUME TradingInv PROVE WithinQuantity
  <2>1. SettledInv /\ EngineFits /\ Typed /\ FilledOK
    BY <1>1 DEF TradingInv, MoneyInv, SettledInv
  <2> SUFFICES ASSUME NEW o \in Placed
               PROVE  /\ rows[o].filled <= Order(o).quantity
                      /\ memory[o].filled <= Order(o).quantity
                      /\ left[o] \in 0..Order(o).quantity - Executed(o, traded)
    BY DEF WithinQuantity
  <2>2. o \in Ids /\ Order(o).quantity \in Nat
    BY <2>1, OrderFound DEF Typed
  <2>3. /\ traded \in SUBSET Fill /\ IsFiniteSet(traded) /\ settled \in SUBSET traded
        /\ AppliedTrades \in SUBSET traded
    BY <2>1 DEF Typed, EngineTyped, AppliedTrades
  <2>4. /\ Executed(o, traded) \in Nat /\ Executed(o, settled) \in Nat
        /\ Executed(o, settled) <= Executed(o, traded)
        /\ Executed(o, AppliedTrades) \in Nat
        /\ Executed(o, AppliedTrades) <= Executed(o, traded)
    BY <2>3, ExecutedGrows
  <2>5. left[o] \in Nat /\ left[o] + Executed(o, traded) <= Order(o).quantity
    BY <2>1, <2>2 DEF EngineFits
  <2>6. /\ rows[o].filled <= Executed(o, settled) /\ rows[o].filled \in Nat
        /\ memory[o].filled <= Executed(o, AppliedTrades) /\ memory[o].filled \in Nat
    BY <2>1, <2>2 DEF FilledOK, Typed, LocalTyped, OrderEntity, StoredOrder
  <2> QED BY <2>2, <2>4, <2>5, <2>6
<1> QED BY <1>1, InitTrading, NextTrading, PTL DEF Spec

(* The variables have their types. *)
THEOREM TypeCorrect == Spec => []TypeOK
<1>1. ASSUME TradingInv PROVE TypeOK
  <2>1. /\ SettledInv /\ EngineFits /\ Typed /\ Places /\ active \in [Users -> BOOLEAN]
        /\ accounts \in [Wallets -> Account]
    BY <1>1 DEF TradingInv, MoneyInv, FeesPaid, SettledInv
  <2>2. traded \subseteq MatchFill
    BY <2>1 DEF EngineFits, Typed, EngineTyped, Fill, MatchFill
  <2>3. ASSUME NEW o \in Placed
        PROVE  place[o].fills \in Seq(MatchFill) /\ left[o] \in Nat
    <3>1. o \in Ids
      BY <2>1, OrderFound DEF Typed
    <3> DEFINE f == place[o].fills
    <3>2. f \in Seq(Fill) /\ \A i \in DOMAIN f : f[i] \in traded
      BY <2>1, <3>1 DEF Typed, LocalTyped, Placement, Places, PlaceOK, Held
    <3> HIDE DEF f
    <3>3. Len(f) \in Nat /\ DOMAIN f = 1..Len(f) /\ f = [i \in 1..Len(f) |-> f[i]]
      BY <3>2, LenProperties
    <3>4. \A i \in 1..Len(f) : f[i] \in MatchFill
      BY <2>2, <3>2, <3>3
    <3>5. f \in Seq(MatchFill)
      BY <3>3, <3>4, IsASeq
    <3> QED BY <2>1, <3>1, <3>5 DEF EngineFits, f
  <2> QED BY <2>1, <2>2, <2>3 DEF TypeOK, Typed, OrdersTyped, EngineTyped, LocalTyped
<1> QED BY <1>1, InitTrading, NextTrading, PTL DEF Spec

-----------------------------------------------------------------------------
(* What the locks are for *)

Working == {"answer"} \cup AtFill
Serving == {"submit", "giveUp", "refused", "unlockRefused", "write", "unused"} \cup Working
Releasing == {"writeMaker", "unlockMaker"}

(* Orders of which something is claimed: nothing has come between their    *)
(* requests.                                                               *)
Clean == {o \in Placed : o \notin disturbed}

Making(o) == {t \in traded : t.maker = o}

(* The trades of an order, and those that the list and the row show.       *)
TradesOf(o) == FillsReported(o) \cup Making(o)
Booked(o) == FillsReported(o) \cup (Making(o) \cap AppliedTrades)

(* Nothing can be executed of the order any more, or is still to apply. *)
Dead(o) == left[o] = 0 /\ Making(o) \subseteq AppliedTrades

(* The request that places q is between the update of its maker o and the  *)
(* next fill.                                                              *)
Updates(q, o) == place[q].at \in Releasing /\ Head(place[q].fills).maker = o

(* Requests that have come between each other, and orders on which one has *)
(* failed, are noted.                                                      *)
Noted == Raced \cup Cut \subseteq disturbed

(* Each trade is between two sides, at the maker's price, which is no      *)
(* worse than the taker has asked for.                                     *)
TradesOK ==
  \A t \in traded :
    /\ Sides(t.maker) # Sides(t.taker)
    /\ t.price = Order(t.maker).price
    /\ Sides(t.taker) = "Buy" /\ Order(t.taker).kind # "Market" => t.price <= Order(t.taker).price

(* The request of the taker goes on to settle the trade. *)
Pending(t) ==
  LET p == place[t.taker]
  IN p.at \in Working /\ t \in Range(p.fills) /\ ~(p.at = "answer" /\ p.status = "Refused")

PendingHeld == \A t \in traded \ settled : t.maker \in disturbed \/ Pending(t)

ListOnce == \A i, j \in DOMAIN list : list[i] = list[j] => i = j

(* An order whose report says that it is open is not filled; one that is   *)
(* new rests in the book with what its trades have left of it.             *)
Reported(o) ==
  /\ place[o].status \in Open => Executed(o, FillsReported(o)) < Order(o).quantity
  /\ place[o].status = "New" =>
       Order(o).kind = "Limit" /\ left[o] + Executed(o, TradesOf(o)) = Order(o).quantity

(* An order that is being placed has locked what it may cost at most until *)
(* its own lock is released; it has been nobody's maker.                   *)
Served(o) ==
  LET at == place[o].at
  IN /\ at = "lock" => o \notin Range(seen)
     /\ at \in Serving => memory[o].locked = EstimateLockAmount(o)
     /\ at \in Serving \cup {"lock", "rest"} => Making(o) = {}
     /\ at \in {"refused", "unlockRefused"} \/ (at = "answer" /\ place[o].status = "Refused") =>
          left[o] = 0 /\ FillsReported(o) = {}
     /\ at = "unlockRefused" => rows[o].status = "Rejected"
     /\ at \in Working \cup {"write", "unused", "rest"} => left[o] = 0 \/ place[o].status \in Open
     /\ at \in Working \cup {"write", "unused", "rest"} => Reported(o)
     /\ at \in {"unused", "rest"} =>
          /\ memory[o].filled = Executed(o, FillsReported(o)) /\ rows[o].filled = memory[o].filled
          /\ memory[o].status = place[o].status /\ rows[o].status = place[o].status
     /\ at = "rest" => memory[o].locked = RestLock(o)
     /\ at \in {"unused", "rest", "done"} => FillsReported(o) \subseteq settled

(* An order that has been placed: in the list, it has locked what remains  *)
(* of it; out of it, nothing can be executed of it.                        *)
InList(o) ==
  /\ cancel[o].at # "close" => memory[o].locked >= RemainingLock(o, memory[o].filled)
  /\ cancel[o].at \in {"find", "unlock", "close"} => Dead(o)
  /\ (\A q \in Ids : ~(Updates(q, o) /\ place[q].at = "writeMaker")) =>
        rows[o].filled = memory[o].filled
  /\ (\A q \in Ids : ~(Updates(q, o) /\ place[q].at = "unlockMaker")) => rows[o].status \in Open
  /\ memory[o].status = "Filled" => memory[o].filled >= Order(o).quantity
  /\ memory[o].filled = Executed(o, Booked(o))
  /\ (\A q \in Ids : ~Updates(q, o)) => memory[o].filled < Order(o).quantity
  /\ place[o].status \in Open
  /\ place[o].status = "New" /\ cancel[o].at \notin {"find", "unlock", "close"} =>
       Order(o).kind = "Limit" /\ left[o] + Executed(o, TradesOf(o)) = Order(o).quantity

OutOfList(o) ==
  /\ Dead(o)
  /\ rows[o].status \notin Open /\ rows[o].filled = Executed(o, Booked(o))
  /\ cancel[o].at # "unlock"

(* The requests that are at work on it know what it has locked. *)
Known(o) ==
  /\ \A q \in Ids : Updates(q, o) =>
       IF place[q].at = "writeMaker"
       THEN /\ o \in Range(list)
            /\ place[q].pending = [filled |-> memory[o].filled, status |-> memory[o].status]
            /\ memory[o].status = IF memory[o].filled < Order(o).quantity
                                 THEN "PartiallyFilled" ELSE "Filled"
       ELSE /\ place[q].release = memory[o].locked /\ memory[o].filled >= Order(o).quantity
            /\ o \in Range(list) \/ memory[o].locked = 0
            /\ rows[o].status = "Filled"
  /\ cancel[o].at = "unlock" => cancel[o].release = memory[o].locked
  /\ cancel[o].at = "close" => memory[o].locked = 0

Listed(o) ==
  place[o].at = "done" => Known(o) /\ IF o \in Range(list) THEN InList(o) ELSE OutOfList(o)

(* What some trades cost on one side. *)
Worth(side, bps, trades) ==
  MapThenSumSet(LAMBDA t : IF side = "Sell" THEN t.quantity
                           ELSE t.price * t.quantity * (Scale + bps), trades)

(* What the wallet must have locked for an order: what the service says,   *)
(* but for the settlements that it has not taken off yet.                  *)
Needs(o) ==
  LET at == place[o].at
  IN IF at \in {"none", "lock", "failed"} \/ (at = "done" /\ o \notin Range(list)) THEN 0
     ELSE memory[o].locked
          - IF at \in Serving THEN Worth(Sides(o), TakerFeeBps, FillsReported(o) \cap settled)
            ELSE Worth(Sides(o), MakerFeeBps, Making(o) \cap (settled \ AppliedTrades))

(* The lock of a user's wallet, beyond what it was at first.               *)
LockedSince(u, a) == accounts[<<u, a>>].locked - Opening[<<u, a>>].locked

(* Wallets of users all of whose orders are clean and priced.              *)
Followed(u, a) == \A o \in OrdersOf(u, a) : o \in Clean /\ ~Unbounded(o)

(* The wallet has locked what the user's orders need: that precisely, as   *)
(* long as no restart has lowered the locks of the list.                   *)
Provided ==
  \A u \in Users, a \in Assets :
    Followed(u, a) =>
      /\ LockedSince(u, a) >= SumOf([o \in Ids |-> Needs(o)], OrdersOf(u, a))
      /\ ~restarted => LockedSince(u, a) = SumOf([o \in Ids |-> Needs(o)], OrdersOf(u, a))

CoverInv ==
  /\ Noted /\ TradesOK /\ PendingHeld /\ ListOnce
  /\ \A o \in Clean : Served(o) /\ Listed(o)
  /\ Provided

-----------------------------------------------------------------------------
(* What trades cost *)

FillWorth(side, bps, t) ==
  IF side = "Sell" THEN t.quantity ELSE t.price * t.quantity * (Scale + bps)

(* What some trades cost is the sum over them of what each costs. *)
LEMMA WorthFound ==
  ASSUME NEW S, IsFiniteSet(S), NEW side, NEW bps, NEW f, NEW g,
         \A t \in S : f[t] = FillWorth(side, bps, t), Totals(g, f, S), NEW T \in SUBSET S
  PROVE  Worth(side, bps, T) = g[T]
<1> DEFINE Rec(h) == [s \in SUBSET T |->
                        IF s = {} THEN 0
                        ELSE FillWorth(side, bps, Chosen(s)) + h[s \ {Chosen(s)}]]
           h == CHOOSE h : h = Rec(h)
           k == [s \in SUBSET T |-> g[s]]
<1>1. Worth(side, bps, T) = h[T]
  BY DEF Worth, FillWorth, MapThenSumSet, MapThenFoldSet, Chosen
<1>2. \A s \in SUBSET T : s # {} => Chosen(s) \in s /\ s \ {Chosen(s)} \in SUBSET T
  BY ChosenLeaves
<1>3. \A s \in SUBSET T : s # {} =>
        g[s] = FillWorth(side, bps, Chosen(s)) + g[s \ {Chosen(s)}]
  BY <1>2 DEF Totals
<1>4. k = Rec(k)
  <2>1. \A s \in SUBSET T :
          k[s] = IF s = {} THEN 0
                 ELSE FillWorth(side, bps, Chosen(s)) + k[s \ {Chosen(s)}]
    BY <1>2, <1>3 DEF Totals
  <2> QED BY <2>1
<1>5. h = Rec(h)
  <2> HIDE DEF Rec
  <2> QED BY <1>4
<1> HIDE DEF h
<1>6. \A s \in SUBSET T : h[s] = IF s = {} THEN 0
                                 ELSE FillWorth(side, bps, Chosen(s)) + h[s \ {Chosen(s)}]
  BY <1>5
<1>7. AddsChosen(h, f, T)
  BY <1>2, <1>6 DEF AddsChosen
<1>8. h[T] = g[T]
  BY <1>7, TotalFoundBy
<1> QED BY <1>1, <1>8

LEMMA FillWorthType ==
  ASSUME NEW t \in Fill, NEW side, NEW bps \in Nat
  PROVE  FillWorth(side, bps, t) \in Nat
<1>1. t.price \in Nat /\ t.quantity \in Nat /\ Scale + bps \in Nat
  BY DEF Fill, Scale
<1> DEFINE r == Scale + bps
<1>2. t.price * t.quantity \in Nat
  BY <1>1
<1>3. r \in Nat
  BY <1>1
<1> HIDE DEF r
<1>4. (t.price * t.quantity) * r \in Nat
  BY <1>2, <1>3
<1> QED BY <1>1, <1>4 DEF FillWorth, r

(* What some trades cost, and the sums of it. *)
WorthSum(side, bps, U) ==
  \E f \in [U -> Nat] : \E g \in [SUBSET U -> Int] :
    /\ \A t \in U : f[t] = FillWorth(side, bps, t)
    /\ Totals(g, f, U)
    /\ \A T \in SUBSET U : Worth(side, bps, T) = g[T]

(* There are such sums. *)
LEMMA WorthSums ==
  ASSUME NEW U \in SUBSET Fill, IsFiniteSet(U), NEW side, NEW bps \in Nat
  PROVE  WorthSum(side, bps, U)
<1> DEFINE f == [t \in U |-> FillWorth(side, bps, t)]
<1>1. f \in [U -> Nat] /\ \A t \in U : f[t] = FillWorth(side, bps, t)
  BY FillWorthType
<1> HIDE DEF f
<1>2. f \in [U -> Int]
  BY <1>1
<1>3. PICK g \in [SUBSET U -> Int] : Totals(g, f, U)
  BY <1>2, TotalsExist
<1>4. \A T \in SUBSET U : Worth(side, bps, T) = g[T]
  BY <1>1, <1>3, WorthFound
<1> QED BY <1>1, <1>3, <1>4 DEF WorthSum

(* What trades cost is a natural number. *)
LEMMA WorthType ==
  ASSUME NEW T \in SUBSET Fill, IsFiniteSet(T), NEW side, NEW bps \in Nat
  PROVE  /\ Worth(side, bps, T) \in Nat
         /\ T = {} => Worth(side, bps, T) = 0
<1>1. WorthSum(side, bps, T)
  BY WorthSums
<1>2. PICK f \in [T -> Nat] : \E g \in [SUBSET T -> Int] :
    /\ Totals(g, f, T)
    /\ \A S \in SUBSET T : Worth(side, bps, S) = g[S]
  BY <1>1 DEF WorthSum
<1>3. PICK g \in [SUBSET T -> Int] :
    /\ Totals(g, f, T)
    /\ \A S \in SUBSET T : Worth(side, bps, S) = g[S]
  BY <1>2
<1>4. \A A \in SUBSET T : \A B \in SUBSET A : 0 <= g[B] /\ g[B] <= g[A]
  BY <1>3, TotalsGrow
<1>5. T \in SUBSET T
  OBVIOUS
<1>6. 0 <= g[T] /\ g[T] \in Int /\ Worth(side, bps, T) = g[T]
  BY <1>3, <1>4, <1>5
<1>7. T = {} => g[T] = 0
  BY <1>3 DEF Totals
<1> QED BY <1>6, <1>7

(* What trades cost adds up. *)
LEMMA WorthJoins ==
  ASSUME NEW U \in SUBSET Fill, IsFiniteSet(U), NEW side, NEW bps \in Nat,
         NEW S \in SUBSET U, NEW T \in SUBSET U, S \cap T = {}
  PROVE  Worth(side, bps, S \cup T) = Worth(side, bps, S) + Worth(side, bps, T)
<1>1. WorthSum(side, bps, U)
  BY WorthSums
<1>2. PICK f \in [U -> Nat] : \E g \in [SUBSET U -> Int] :
    /\ Totals(g, f, U)
    /\ \A V \in SUBSET U : Worth(side, bps, V) = g[V]
  BY <1>1 DEF WorthSum
<1>3. PICK g \in [SUBSET U -> Int] :
    /\ Totals(g, f, U)
    /\ \A V \in SUBSET U : Worth(side, bps, V) = g[V]
  BY <1>2
<1>4. f \in [U -> Int]
  OBVIOUS
<1>5. Joins(g, U)
  BY <1>3, <1>4, TotalsJoin
<1>6. g[S \cup T] = g[S] + g[T] /\ S \cup T \in SUBSET U
  BY <1>5 DEF Joins
<1> QED BY <1>3, <1>6

(* One trade costs what it says. *)
LEMMA WorthAdds ==
  ASSUME NEW T \in SUBSET Fill, IsFiniteSet(T), NEW side, NEW bps \in Nat, NEW t \in Fill,
         t \notin T
  PROVE  Worth(side, bps, T \cup {t}) = Worth(side, bps, T) + FillWorth(side, bps, t)
<1> DEFINE U == T \cup {t}
<1>1. U \in SUBSET Fill /\ IsFiniteSet(U) /\ t \in U /\ U \ {t} = T /\ T \in SUBSET U
      /\ U \in SUBSET U
  BY FS_AddElement
<1>e. U = T \cup {t}
  OBVIOUS
<1> HIDE DEF U
<1>2. WorthSum(side, bps, U)
  BY <1>1, WorthSums
<1>3. PICK f \in [U -> Nat] : \E g \in [SUBSET U -> Int] :
    /\ \A x \in U : f[x] = FillWorth(side, bps, x)
    /\ Totals(g, f, U)
    /\ \A V \in SUBSET U : Worth(side, bps, V) = g[V]
  BY <1>2 DEF WorthSum
<1>4. PICK g \in [SUBSET U -> Int] :
    /\ \A x \in U : f[x] = FillWorth(side, bps, x)
    /\ Totals(g, f, U)
    /\ \A V \in SUBSET U : Worth(side, bps, V) = g[V]
  BY <1>3
<1>5. g[U] = f[t] + g[U \ {t}]
  BY <1>1, <1>4 DEF Totals
<1>6. f[t] = FillWorth(side, bps, t) /\ f[t] \in Nat /\ g[T] \in Int
      /\ Worth(side, bps, U) = g[U] /\ Worth(side, bps, T) = g[T]
  BY <1>1, <1>4
<1>7. g[U \ {t}] = g[T]
  BY <1>1
<1>8. g[U] = g[T] + f[t]
  BY <1>5, <1>6, <1>7
<1>9. Worth(side, bps, U) = Worth(side, bps, T) + FillWorth(side, bps, t)
  BY <1>6, <1>8
<1> QED BY <1>e, <1>9

(* What an order pays for a unit at its own price. *)
Rate(o, bps) == IF Sides(o) = "Sell" THEN 1 ELSE Order(o).price * (Scale + bps)

(* What an order's trades cost: no more than at its own price, if none of  *)
(* them is at a worse one; just that, if all are at its price.             *)
LEMMA WorthBounded ==
  ASSUME NEW S \in SUBSET Fill, IsFiniteSet(S), NEW o, NEW bps \in Nat,
         \A t \in S : t.maker = o \/ t.taker = o, Rate(o, bps) \in Nat
  PROVE  /\ (Sides(o) # "Sell" => Order(o).price \in Nat /\ \A t \in S : t.price <= Order(o).price) =>
              Worth(Sides(o), bps, S) <= Rate(o, bps) * Executed(o, S)
         /\ (Sides(o) # "Sell" => \A t \in S : t.price = Order(o).price) =>
              Worth(Sides(o), bps, S) = Rate(o, bps) * Executed(o, S)
<1> DEFINE side == Sides(o)
           c == Rate(o, bps)
<1>0. WorthSum(side, bps, S) /\ S \in SUBSET S
  BY WorthSums
<1>1. PICK f \in [S -> Nat] : \E g \in [SUBSET S -> Int] :
        /\ \A t \in S : f[t] = FillWorth(side, bps, t)
        /\ Totals(g, f, S)
        /\ \A T \in SUBSET S : Worth(side, bps, T) = g[T]
  BY <1>0 DEF WorthSum
<1>2. PICK g \in [SUBSET S -> Int] :
        /\ \A t \in S : f[t] = FillWorth(side, bps, t)
        /\ Totals(g, f, S)
        /\ \A T \in SUBSET S : Worth(side, bps, T) = g[T]
  BY <1>1
<1>3. Of(o, S) = S
  BY DEF Of
<1>4. PICK h \in [S -> Nat] : \E k \in [SUBSET S -> Int] :
        /\ \A t \in S : h[t] = t.quantity
        /\ Totals(k, h, S)
        /\ \A r : \A T \in SUBSET S : Executed(r, T) = k[Of(r, T)]
  BY QuantitySums
<1>5. PICK k \in [SUBSET S -> Int] :
        /\ \A t \in S : h[t] = t.quantity
        /\ Totals(k, h, S)
        /\ \A r : \A T \in SUBSET S : Executed(r, T) = k[Of(r, T)]
  BY <1>4
<1>6. f \in [S -> Int] /\ h \in [S -> Int] /\ c \in Int
  OBVIOUS
<1>7. /\ (\A x \in S : f[x] <= c * h[x]) => g[S] <= c * k[S]
      /\ (\A x \in S : f[x] = c * h[x]) => g[S] = c * k[S]
  <2> HIDE DEF c
  <2>1. Totals(g, f, S) /\ Totals(k, h, S)
    BY <1>2, <1>5
  <2>2. /\ AtMost(f, c, h, S) => AtMost(g, c, k, SUBSET S)
        /\ Exactly(f, c, h, S) => Exactly(g, c, k, SUBSET S)
    BY <1>6, <2>1, TotalsCompare
  <2> QED BY <1>0, <2>2 DEF AtMost, Exactly
<1>8. ASSUME NEW t \in S
      PROVE  /\ side = "Sell" => f[t] = c * h[t]
             /\ side # "Sell" /\ t.price = Order(o).price => f[t] = c * h[t]
             /\ side # "Sell" /\ Order(o).price \in Nat /\ t.price <= Order(o).price =>
                   f[t] <= c * h[t]
  <2>1. /\ f[t] = FillWorth(side, bps, t) /\ h[t] = t.quantity
        /\ t.price \in Nat /\ t.quantity \in Nat /\ Scale + bps \in Nat
    BY <1>2, <1>5 DEF Fill, Scale
  <2> DEFINE q == t.quantity
             p == t.price
             s == Scale + bps
             r == Order(o).price
  <2>2. CASE side = "Sell"
    BY <2>1, <2>2 DEF FillWorth, Rate
  <2>3. CASE side # "Sell"
    <3>1. f[t] = p * q * s /\ c = r * s /\ h[t] = q /\ p \in Nat /\ q \in Nat /\ s \in Nat
      BY <2>1, <2>3 DEF FillWorth, Rate
    <3> HIDE DEF p, q, s, r, c
    <3>2. p = r => f[t] = c * h[t]
      BY <3>1
    <3>3. ASSUME r \in Nat, p <= r PROVE f[t] <= c * h[t]
      <4>1. \E d \in Nat : r = p + d
        <5>1. r - p \in Nat /\ r = p + (r - p)
          BY <3>1, <3>3
        <5> QED BY <5>1
      <4>2. PICK d \in Nat : r = p + d
        BY <4>1
      <4>3. (p + d) * s * q = p * q * s + d * s * q /\ d * s * q \in Nat
        <5>1. d * s \in Nat
          BY <3>1
        <5>2. (d * s) * q \in Nat
          BY <3>1, <5>1
        <5>3. (p + d) * s * q = p * q * s + d * s * q
          BY <3>1
        <5> QED BY <5>2, <5>3
      <4>4. p * q * s \in Int
        BY <3>1
      <4> QED BY <3>1, <4>2, <4>3, <4>4
    <3> QED BY <2>3, <3>2, <3>3 DEF p, r
  <2> QED BY <2>2, <2>3
<1>9. Worth(side, bps, S) = g[S] /\ Executed(o, S) = k[S]
  BY <1>0, <1>2, <1>3, <1>5
<1>10. (side # "Sell" => Order(o).price \in Nat /\ \A t \in S : t.price <= Order(o).price) =>
         \A x \in S : f[x] <= c * h[x]
  <2>1. \A x \in S : f[x] \in Int
    OBVIOUS
  <2> HIDE DEF c
  <2> QED BY <1>8, <2>1
<1>11. (side # "Sell" => \A t \in S : t.price = Order(o).price) =>
         \A x \in S : f[x] = c * h[x]
  <2> HIDE DEF c
  <2> QED BY <1>8
<1> HIDE DEF c
<1> QED BY <1>7, <1>9, <1>10, <1>11 DEF c

-----------------------------------------------------------------------------
(* What is claimed covers what the orders may still cost *)

(* Amounts are proportional to quantities. *)
LEMMA RateSays ==
  ASSUME Typed, NEW o \in Placed, Lockable(o)
  PROVE  /\ Rate(o, MakerFeeBps) \in Nat /\ Rate(o, TakerFeeBps) \in Nat
         /\ Rate(o, MakerFeeBps) <= Rate(o, TakerFeeBps)
         /\ \A n \in Int : /\ Cost(o, Order(o).price, n, MakerFeeBps) = Rate(o, MakerFeeBps) * n
                           /\ Cost(o, Order(o).price, n, TakerFeeBps) = Rate(o, TakerFeeBps) * n
                           /\ RemainingLock(o, n) = Rate(o, TakerFeeBps) * (Order(o).quantity - n)
         /\ EstimateLockAmount(o) = Rate(o, TakerFeeBps) * Order(o).quantity
         /\ o \in Ids /\ Order(o).quantity \in Nat
         /\ Sides(o) # "Sell" => Sides(o) = "Buy" /\ Order(o).price \in Nat
<1>1. /\ Order(o).quantity \in Nat /\ Sides(o) \in {"Buy", "Sell"} /\ o \in Ids
      /\ Sides(o) = "Buy" => Order(o).price \in Nat
  BY OrderFound DEF Typed
<1>2. \A n \in Int : /\ Cost(o, Order(o).price, n, MakerFeeBps) = Rate(o, MakerFeeBps) * n
                     /\ Cost(o, Order(o).price, n, TakerFeeBps) = Rate(o, TakerFeeBps) * n
  <2> TAKE n \in Int
  <2>1. CASE Sides(o) = "Sell"
    BY <2>1 DEF Cost, Rate
  <2>2. CASE Sides(o) # "Sell"
    <3>1. Order(o).price \in Nat
      BY <1>1, <2>2
    <3> DEFINE p == Order(o).price
    <3>2. p * n * 10002 = p * 10002 * n /\ p * n * 10004 = p * 10004 * n
      BY <3>1
    <3> QED BY <2>2, <3>2 DEF Cost, Rate, Scale, MakerFeeBps, TakerFeeBps
  <2> QED BY <2>1, <2>2
<1>3. /\ Rate(o, MakerFeeBps) \in Nat /\ Rate(o, TakerFeeBps) \in Nat
      /\ Rate(o, MakerFeeBps) <= Rate(o, TakerFeeBps)
  BY <1>1 DEF Rate, Scale, MakerFeeBps, TakerFeeBps
<1>4. \A n \in Int : RemainingLock(o, n) = Rate(o, TakerFeeBps) * (Order(o).quantity - n)
  <2> TAKE n \in Int
  <2>1. Order(o).quantity - n \in Int
    BY <1>1
  <2> QED BY <1>2, <2>1 DEF RemainingLock
<1>5. EstimateLockAmount(o) = Rate(o, TakerFeeBps) * Order(o).quantity
  BY <1>1, <1>2 DEF EstimateLockAmount
<1> QED BY <1>1, <1>2, <1>3, <1>4, <1>5

(* The orders that are noted as cut. *)
Lost(q) ==
  \/ place[q].at = "failed"
  \/ place[q].at \in {"submit", "giveUp"} /\ q \in Range(seen)

CutHas ==
  /\ \A q \in Ids : Lost(q) => q \in Cut /\ \A t \in Range(place[q].fills) : t.maker \in Cut
  /\ \A q \in Ids : (cancel[q].at = "failed" \/ cancel[q].attempts > 0) => q \in Cut

(* What Cut says of the requests that have failed, now and after a step. *)
LEMMA CutSays == CutHas
<1>1. \A q \in Ids : Lost(q) => q \in Cut
  BY DEF Cut, Lost
<1>2. ASSUME NEW q \in Ids, Lost(q), NEW t \in Range(place[q].fills)
      PROVE  t.maker \in Cut
  <2>1. t.maker \in {f.maker : f \in Range(place[q].fills)}
    OBVIOUS
  <2> QED BY <1>2, <2>1 DEF Cut, Lost
<1>3. ASSUME NEW q \in Ids, cancel[q].at = "failed" \/ cancel[q].attempts > 0
      PROVE  q \in Cut
  <2>1. q \in {o \in Ids : cancel[o].at = "failed" \/ cancel[o].attempts > 0}
    BY <1>3
  <2> QED BY <2>1, Zenon DEF Cut
<1> QED BY <1>1, <1>2, <1>3 DEF CutHas

LEMMA CutSaysNext == CutHas'
BY CutSays, PTL

(* Nothing is claimed of an order on which a request has failed. *)
LEMMA CleanSays ==
  ASSUME SettledInv, Noted, NEW o \in Clean
  PROVE  /\ o \in Placed /\ o \in Ids /\ Lockable(o) /\ o \notin Raced /\ o \notin Cut
         /\ place[o].at \in Serving \cup {"lock", "rest", "done"}
         /\ cancel[o].at # "failed"
<1>1. o \in Placed /\ o \in Ids /\ o \notin disturbed
  BY OrderFound DEF Clean, SettledInv, Typed
<1>2. o \notin Raced /\ o \notin Cut
  BY <1>1 DEF Noted
<1>3. place[o].at # "failed" /\ cancel[o].at # "failed"
  BY <1>1, <1>2, CutSays DEF CutHas, Lost
<1>4. PlaceOK(o) /\ place[o].at \in Stages
  BY <1>1 DEF SettledInv, Places, Typed, LocalTyped, Placement
<1>5. place[o].at # "none" /\ Lockable(o)
  BY <1>1, <1>3, <1>4 DEF PlaceOK, Held
<1>6. place[o].at \in Serving \cup {"lock", "rest", "done"}
  BY <1>3, <1>4, <1>5 DEF Stages, Serving, Working, Early, Later
<1> QED BY <1>1, <1>2, <1>3, <1>5, <1>6

(* Only the trades that an order has a part in count for it. *)
LEMMA ExecutedOfOwn ==
  ASSUME NEW o, NEW T
  PROVE  Executed(o, T) = Executed(o, Of(o, T))
<1>1. {t \in T : t.maker = o \/ t.taker = o}
        = {t \in Of(o, T) : t.maker = o \/ t.taker = o}
  BY DEF Of
<1> QED BY <1>1 DEF Executed

OwedFor(o, trades) ==
  MapThenSumSet(LAMBDA t : Cost(o, t.price, t.quantity,
                                IF t.maker = o THEN MakerFeeBps ELSE TakerFeeBps), trades)

(* What an order owes for its trades, when it has one part in all of them. *)
LEMMA OwedForFound ==
  ASSUME NEW T \in SUBSET Fill, IsFiniteSet(T), NEW o, NEW bps \in Nat,
         \A t \in T : bps = IF t.maker = o THEN MakerFeeBps ELSE TakerFeeBps
  PROVE  OwedFor(o, T) = Worth(Sides(o), bps, T)
<1> DEFINE term(t) == Cost(o, t.price, t.quantity,
                           IF t.maker = o THEN MakerFeeBps ELSE TakerFeeBps)
           Rec(h) == [s \in SUBSET T |->
                        IF s = {} THEN 0 ELSE term(Chosen(s)) + h[s \ {Chosen(s)}]]
           h == CHOOSE h : h = Rec(h)
<1>1. OwedFor(o, T) = h[T]
  BY DEF OwedFor, MapThenSumSet, MapThenFoldSet, Chosen
<1>0. WorthSum(Sides(o), bps, T)
  BY WorthSums
<1>2. PICK f \in [T -> Nat] : \E g \in [SUBSET T -> Int] :
        /\ \A t \in T : f[t] = FillWorth(Sides(o), bps, t)
        /\ Totals(g, f, T)
        /\ \A S \in SUBSET T : Worth(Sides(o), bps, S) = g[S]
  BY <1>0 DEF WorthSum
<1>3. PICK g \in [SUBSET T -> Int] :
        /\ \A t \in T : f[t] = FillWorth(Sides(o), bps, t)
        /\ Totals(g, f, T)
        /\ \A S \in SUBSET T : Worth(Sides(o), bps, S) = g[S]
  BY <1>2
<1>4. \A t \in T : f[t] = term(t)
  <2>1. \A t \in T : term(t) = Cost(o, t.price, t.quantity, bps)
    OBVIOUS
  <2> QED BY <1>3, <2>1 DEF Cost, FillWorth
<1> HIDE DEF term
<1>5. \A s \in SUBSET T : s # {} => Chosen(s) \in s /\ s \ {Chosen(s)} \in SUBSET T
  BY ChosenLeaves
<1>6. \A s \in SUBSET T : s # {} => g[s] = term(Chosen(s)) + g[s \ {Chosen(s)}]
  BY <1>3, <1>4, <1>5 DEF Totals
<1> DEFINE k == [s \in SUBSET T |-> g[s]]
<1>7. k = Rec(k)
  <2>1. \A s \in SUBSET T :
          k[s] = IF s = {} THEN 0 ELSE term(Chosen(s)) + k[s \ {Chosen(s)}]
    BY <1>3, <1>5, <1>6 DEF Totals
  <2> QED BY <2>1
<1>8. h = Rec(h)
  <2> HIDE DEF Rec
  <2> QED BY <1>7
<1> HIDE DEF h
<1>9. \A s \in SUBSET T : h[s] = IF s = {} THEN 0
                                 ELSE term(Chosen(s)) + h[s \ {Chosen(s)}]
  BY <1>8
<1>10. AddsChosen(h, f, T)
  BY <1>4, <1>5, <1>9 DEF AddsChosen
<1>11. T \in SUBSET T
  OBVIOUS
<1>12. h[T] = g[T]
  BY <1>3, <1>10, <1>11, TotalFoundBy
<1> QED BY <1>1, <1>3, <1>11, <1>12

(* The trades of an order, and what they cost it. *)
LEMMA OwnTrades ==
  ASSUME TradingInv, TradesOK, NEW o \in Placed, Lockable(o), ~Unbounded(o)
  PROVE  /\ FillsReported(o) \in SUBSET traded /\ Making(o) \in SUBSET traded
         /\ traded \in SUBSET Fill /\ IsFiniteSet(traded)
         /\ \A S \in SUBSET traded : S \in SUBSET Fill /\ IsFiniteSet(S) /\ Executed(o, S) \in Nat
         /\ \A S \in SUBSET FillsReported(o) :
              /\ Worth(Sides(o), TakerFeeBps, S) \in Nat
              /\ Worth(Sides(o), TakerFeeBps, S) <= Rate(o, TakerFeeBps) * Executed(o, S)
              /\ OwedFor(o, S) = Worth(Sides(o), TakerFeeBps, S)
         /\ \A S \in SUBSET Making(o) :
              /\ Worth(Sides(o), MakerFeeBps, S) \in Nat
              /\ Worth(Sides(o), MakerFeeBps, S) = Rate(o, MakerFeeBps) * Executed(o, S)
              /\ OwedFor(o, S) = Worth(Sides(o), MakerFeeBps, S)
         /\ \A S \in SUBSET traded :
              {t \in S : o \in {t.maker, t.taker}}
                = (S \cap FillsReported(o)) \cup (S \cap Making(o))
         /\ FillsReported(o) \cap Making(o) = {}
<1>1. /\ SettledInv /\ Typed /\ EngineOK /\ EngineFits
      /\ traded \in SUBSET Fill /\ IsFiniteSet(traded)
  BY DEF TradingInv, MoneyInv, SettledInv, Typed, EngineTyped
<1>2. FillsReported(o) \in SUBSET traded /\ Making(o) \in SUBSET traded
  BY DEF FillsReported, Making
<1>3. /\ Rate(o, MakerFeeBps) \in Nat /\ Rate(o, TakerFeeBps) \in Nat
      /\ Sides(o) # "Sell" => Sides(o) = "Buy" /\ Order(o).price \in Nat
      /\ MakerFeeBps \in Nat /\ TakerFeeBps \in Nat
  BY <1>1, RateSays DEF MakerFeeBps, TakerFeeBps
<1>4. \A S \in SUBSET traded : S \in SUBSET Fill /\ IsFiniteSet(S)
  BY <1>1, FS_Subset
<1>5. \A S \in SUBSET traded : Executed(o, S) \in Nat
  BY <1>4, ExecutedGrows
<1>6. \A t \in FillsReported(o) : /\ t.taker = o /\ t.maker # o
                                  /\ Sides(o) # "Sell" => t.price <= Order(o).price
  BY <1>1, <1>3 DEF FillsReported, EngineOK, TradesOK, Unbounded
<1>7. \A t \in Making(o) : t.maker = o /\ t.price = Order(o).price
  BY DEF Making, TradesOK
<1>8. ASSUME NEW S \in SUBSET FillsReported(o)
      PROVE  /\ Worth(Sides(o), TakerFeeBps, S) \in Nat
             /\ Worth(Sides(o), TakerFeeBps, S) <= Rate(o, TakerFeeBps) * Executed(o, S)
             /\ OwedFor(o, S) = Worth(Sides(o), TakerFeeBps, S)
  <2>1. S \in SUBSET Fill /\ IsFiniteSet(S)
    BY <1>2, <1>4
  <2>2. Worth(Sides(o), TakerFeeBps, S) \in Nat
    BY <1>3, <2>1, WorthType
  <2>3. Worth(Sides(o), TakerFeeBps, S) <= Rate(o, TakerFeeBps) * Executed(o, S)
    BY <1>3, <1>6, <2>1, WorthBounded
  <2>4. OwedFor(o, S) = Worth(Sides(o), TakerFeeBps, S)
    BY <1>3, <1>6, <2>1, OwedForFound
  <2> QED BY <2>2, <2>3, <2>4
<1>9. ASSUME NEW S \in SUBSET Making(o)
      PROVE  /\ Worth(Sides(o), MakerFeeBps, S) \in Nat
             /\ Worth(Sides(o), MakerFeeBps, S) = Rate(o, MakerFeeBps) * Executed(o, S)
             /\ OwedFor(o, S) = Worth(Sides(o), MakerFeeBps, S)
  <2>1. S \in SUBSET Fill /\ IsFiniteSet(S)
    BY <1>2, <1>4
  <2>2. Worth(Sides(o), MakerFeeBps, S) \in Nat
    BY <1>3, <2>1, WorthType
  <2>3. Worth(Sides(o), MakerFeeBps, S) = Rate(o, MakerFeeBps) * Executed(o, S)
    BY <1>3, <1>7, <2>1, WorthBounded
  <2>4. OwedFor(o, S) = Worth(Sides(o), MakerFeeBps, S)
    BY <1>3, <1>7, <2>1, OwedForFound
  <2> QED BY <2>2, <2>3, <2>4
<1>10. \A S \in SUBSET traded :
         {t \in S : o \in {t.maker, t.taker}} = (S \cap FillsReported(o)) \cup (S \cap Making(o))
  BY DEF FillsReported, Making
<1>11. FillsReported(o) \cap Making(o) = {}
  BY <1>6, <1>7
<1> QED BY <1>1, <1>2, <1>4, <1>5, <1>8, <1>9, <1>10, <1>11

(* The parts of what is owed, and of what is claimed, are numbers. *)
LEMMA NeedsType ==
  ASSUME TradingInv, NEW o \in Placed
  PROVE  /\ Needs(o) \in Int
         /\ memory[o].locked \in Int
         /\ \A S \in SUBSET traded : /\ Worth(Sides(o), TakerFeeBps, S) \in Nat
                                     /\ Worth(Sides(o), MakerFeeBps, S) \in Nat
<1>1. /\ traded \in SUBSET Fill /\ IsFiniteSet(traded) /\ memory \in [Ids -> StoredOrder]
      /\ o \in Ids
  BY OrderFound DEF TradingInv, MoneyInv, SettledInv, Typed, EngineTyped, LocalTyped
<1>2. \A S \in SUBSET traded : S \in SUBSET Fill /\ IsFiniteSet(S)
  BY <1>1, FS_Subset
<1>3. MakerFeeBps \in Nat /\ TakerFeeBps \in Nat
  BY DEF MakerFeeBps, TakerFeeBps
<1>4. \A S \in SUBSET traded : /\ Worth(Sides(o), TakerFeeBps, S) \in Nat
                               /\ Worth(Sides(o), MakerFeeBps, S) \in Nat
  BY <1>2, <1>3, WorthType
<1>5. memory[o].locked \in Int
  BY <1>1 DEF StoredOrder
<1>6. FillsReported(o) \cap settled \in SUBSET traded
      /\ Making(o) \cap (settled \ AppliedTrades) \in SUBSET traded
  BY DEF FillsReported, Making
<1> DEFINE w == Worth(Sides(o), TakerFeeBps, FillsReported(o) \cap settled)
           v == Worth(Sides(o), MakerFeeBps, Making(o) \cap (settled \ AppliedTrades))
<1>7. w \in Nat /\ v \in Nat
  BY <1>4, <1>6
<1> HIDE DEF w, v
<1>8. Needs(o) \in {0, memory[o].locked - w, memory[o].locked - v}
  BY DEF Needs, w, v
<1> QED BY <1>4, <1>5, <1>7, <1>8

(* What rests of an order, and what was executed of it in different trades. *)
LEMMA PartsFit ==
  ASSUME TradingInv, NEW o \in Placed, NEW S \in SUBSET traded, NEW T \in SUBSET traded,
         S \cap T = {}
  PROVE  /\ left[o] \in Nat /\ Executed(o, S) \in Nat /\ Executed(o, T) \in Nat
         /\ left[o] + Executed(o, S) + Executed(o, T) <= Order(o).quantity
         /\ Order(o).quantity \in Nat /\ o \in Ids
<1>1. /\ traded \in SUBSET Fill /\ IsFiniteSet(traded) /\ EngineFits /\ OrdersTyped
  BY DEF TradingInv, MoneyInv, SettledInv, Typed, EngineTyped
<1>2. o \in Ids /\ Order(o).quantity \in Nat
  BY <1>1, OrderFound
<1>3. left[o] \in Nat /\ left[o] + Executed(o, traded) <= Order(o).quantity
  BY <1>1, <1>2 DEF EngineFits
<1>4. /\ S \in SUBSET Fill /\ IsFiniteSet(S) /\ T \in SUBSET Fill /\ IsFiniteSet(T)
      /\ S \cup T \in SUBSET traded
  BY <1>1, FS_Subset
<1>5. Executed(o, S \cup T) = Executed(o, S) + Executed(o, T)
  BY <1>4, ExecutedJoins
<1>6. /\ Executed(o, S) \in Nat /\ Executed(o, T) \in Nat
      /\ Executed(o, S \cup T) <= Executed(o, traded) /\ Executed(o, traded) \in Nat
  BY <1>1, <1>4, ExecutedGrows
<1> QED BY <1>2, <1>3, <1>5, <1>6

(* An order whose object shows all of its quantity is executed, and every  *)
(* trade of it was applied.                                                *)
LEMMA FullIsDead ==
  ASSUME TradingInv, NEW o \in Placed, memory[o].filled >= Order(o).quantity
  PROVE  Dead(o)
<1>1. /\ traded \in SUBSET Fill /\ IsFiniteSet(traded) /\ FilledOK /\ EngineFits
      /\ memory \in [Ids -> StoredOrder] /\ AppliedTrades \in SUBSET traded
      /\ settled \in SUBSET traded
  BY DEF TradingInv, MoneyInv, SettledInv, Typed, EngineTyped, LocalTyped, AppliedTrades
<1> DEFINE A == AppliedTrades
<1>2. A \in SUBSET traded /\ {} \in SUBSET traded
  BY <1>1
<1>3. /\ left[o] \in Nat /\ Executed(o, A) \in Nat /\ Executed(o, {}) \in Nat
      /\ left[o] + Executed(o, A) + Executed(o, {}) <= Order(o).quantity
      /\ Order(o).quantity \in Nat /\ o \in Ids
  BY <1>2, PartsFit
<1>4. memory[o].filled <= Executed(o, A) /\ memory[o].filled \in Nat
  BY <1>1, <1>3 DEF FilledOK, StoredOrder
<1> HIDE DEF A
<1>5. left[o] = 0 /\ Executed(o, A) = Order(o).quantity
  BY <1>3, <1>4
<1>6. ASSUME NEW t \in Making(o), t \notin A PROVE FALSE
  <2>1. t \in traded /\ t.maker = o /\ t \in Fill /\ t.quantity \in Nat /\ t.quantity > 0
    BY <1>1, <1>6 DEF Making, EngineFits, Fill
  <2>2. {t} \in SUBSET traded /\ A \cap {t} = {}
    BY <1>6, <2>1
  <2>3. left[o] + Executed(o, A) + Executed(o, {t}) <= Order(o).quantity
        /\ Executed(o, {t}) \in Nat
    BY <1>2, <2>2, PartsFit
  <2>4. Executed(o, {t}) = t.quantity
    <3>1. {t} \in SUBSET Fill /\ IsFiniteSet({t}) /\ t \in {t}
      BY <2>1, FS_Singleton
    <3> QED BY <2>1, <3>1, ExecutedByOne
  <2> QED BY <1>3, <1>5, <2>1, <2>3, <2>4
<1> QED BY <1>5, <1>6 DEF Dead, A

(* What an order may still cost is for what is left of it, for the trades  *)
(* that it took and for those that it made.                                *)
LEMMA OwedParts ==
  ASSUME TradingInv, Noted, TradesOK, NEW o \in Clean, ~Unbounded(o)
  PROVE  /\ o \in Placed /\ o \in Ids /\ Lockable(o) /\ ~Unbounded(o)
         /\ Owed(o) = Rate(o, MakerFeeBps) * left[o]
                      + OwedFor(o, ((traded \ settled) \cap FillsReported(o))
                                   \cup ((traded \ settled) \cap Making(o)))
         /\ left[o] \in Nat /\ Rate(o, MakerFeeBps) \in Nat /\ Rate(o, TakerFeeBps) \in Nat
         /\ Rate(o, MakerFeeBps) <= Rate(o, TakerFeeBps) /\ Order(o).quantity \in Nat
         /\ MakerFeeBps \in Nat /\ TakerFeeBps \in Nat
<1>1. o \in Placed /\ o \in Ids /\ Lockable(o) /\ ~Unbounded(o)
  BY CleanSays DEF TradingInv, MoneyInv, Clean
<1>2. /\ left[o] \in Nat /\ Order(o).quantity \in Nat
      /\ Rate(o, MakerFeeBps) \in Nat /\ Rate(o, TakerFeeBps) \in Nat
      /\ Rate(o, MakerFeeBps) <= Rate(o, TakerFeeBps)
      /\ Cost(o, Order(o).price, left[o], MakerFeeBps) = Rate(o, MakerFeeBps) * left[o]
  BY <1>1, RateSays DEF TradingInv, MoneyInv, SettledInv, EngineFits
<1> DEFINE U == traded \ settled
<1>3. {t \in U : o \in {t.maker, t.taker}}
        = (U \cap FillsReported(o)) \cup (U \cap Making(o))
  BY <1>1, OwnTrades
<1>4. Owed(o) = Cost(o, Order(o).price, left[o], MakerFeeBps)
                + OwedFor(o, {t \in U : o \in {t.maker, t.taker}})
  BY <1>1 DEF Owed, OwedFor
<1> HIDE DEF U
<1>5. Owed(o) = Rate(o, MakerFeeBps) * left[o]
                + OwedFor(o, (U \cap FillsReported(o)) \cup (U \cap Making(o)))
  BY <1>2, <1>3, <1>4
<1> QED BY <1>1, <1>2, <1>5 DEF U, MakerFeeBps, TakerFeeBps

(* What is claimed for an order is no less than what it may still cost. *)
EnoughFor(o) == Owed(o) \in Int /\ Needs(o) \in Int /\ Owed(o) <= Needs(o)

(* An order on its way has been nobody's maker. *)
LEMMA EnoughServed ==
  ASSUME TradingInv, Noted, TradesOK, NEW o \in Clean, ~Unbounded(o), Served(o),
         place[o].at \in Serving \cup {"lock", "rest"}
  PROVE  EnoughFor(o)
<1> DEFINE T == FillsReported(o)
           U == traded \ settled
           r == Rate(o, TakerFeeBps)
           m == Rate(o, MakerFeeBps)
<1>1. /\ o \in Placed /\ o \in Ids /\ Lockable(o) /\ ~Unbounded(o)
      /\ Owed(o) = m * left[o] + OwedFor(o, (U \cap T) \cup (U \cap Making(o)))
      /\ left[o] \in Nat /\ m \in Nat /\ r \in Nat /\ m <= r /\ Order(o).quantity \in Nat
      /\ TakerFeeBps \in Nat
  BY OwedParts
<1>2. Making(o) = {}
  BY DEF Served
<1>3. /\ T \in SUBSET traded /\ traded \in SUBSET Fill /\ IsFiniteSet(traded)
      /\ T \in SUBSET Fill /\ IsFiniteSet(T)
      /\ \A S \in SUBSET T :
           /\ Worth(Sides(o), TakerFeeBps, S) \in Nat
           /\ Worth(Sides(o), TakerFeeBps, S) <= r * Executed(o, S)
           /\ OwedFor(o, S) = Worth(Sides(o), TakerFeeBps, S)
  BY <1>1, OwnTrades
<1>4. Needs(o) \in Int
  BY <1>1, NeedsType
<1>5. /\ {} \in SUBSET traded /\ T \cap {} = {}
  OBVIOUS
<1>6. /\ Executed(o, T) \in Nat /\ left[o] + Executed(o, T) <= Order(o).quantity
  <2>1. /\ left[o] \in Nat /\ Executed(o, T) \in Nat /\ Executed(o, {}) \in Nat
        /\ left[o] + Executed(o, T) + Executed(o, {}) <= Order(o).quantity
    BY <1>1, <1>3, <1>5, PartsFit
  <2> QED BY <1>1, <2>1
<1>7. (U \cap T) \cup (U \cap Making(o)) = T \ settled /\ T \ settled \in SUBSET T
      /\ T \cap settled \in SUBSET T
  BY <1>2, <1>3
<1> DEFINE w == Worth(Sides(o), TakerFeeBps, T \ settled)
           v == Worth(Sides(o), TakerFeeBps, T \cap settled)
<1>8. Owed(o) = m * left[o] + w /\ w \in Nat /\ v \in Nat
  <2>1. w \in Nat /\ v \in Nat /\ OwedFor(o, T \ settled) = w
    BY <1>3, <1>7
  <2> HIDE DEF U, T, w, v, m
  <2> QED BY <1>1, <1>7, <2>1
<1>9. m * left[o] \in Nat
  <2> HIDE DEF m
  <2> QED BY <1>1
<1>10. CASE place[o].at \in Serving
  <2>1. w + v <= r * Executed(o, T)
    <3>1. (T \ settled) \cup (T \cap settled) = T /\ (T \ settled) \cap (T \cap settled) = {}
      OBVIOUS
    <3>2. Worth(Sides(o), TakerFeeBps, (T \ settled) \cup (T \cap settled)) = w + v
      BY <1>1, <1>3, <1>7, <3>1, WorthJoins
    <3>3. Worth(Sides(o), TakerFeeBps, T) <= r * Executed(o, T)
      BY <1>3
    <3> HIDE DEF T, w, v, r
    <3> QED BY <3>1, <3>2, <3>3
  <2>2. Needs(o) = memory[o].locked - v /\ memory[o].locked = r * Order(o).quantity
    <3>1. Needs(o) = memory[o].locked - v
      BY <1>10 DEF Needs, Serving, Working, AtFill
    <3>2. memory[o].locked = EstimateLockAmount(o)
      BY <1>10 DEF Served
    <3>3. EstimateLockAmount(o) = r * Order(o).quantity
      BY <1>1, RateSays DEF TradingInv, MoneyInv, SettledInv
    <3> QED BY <3>1, <3>2, <3>3
  <2> HIDE DEF T, w, v, r, m
  <2>3. /\ r * Executed(o, T) \in Nat /\ r * Order(o).quantity \in Nat
        /\ m * left[o] + r * Executed(o, T) <= r * Order(o).quantity
    BY <1>1, <1>6, RatesBound
  <2>4. Owed(o) \in Int /\ Owed(o) <= Needs(o)
    BY <1>8, <1>9, <2>1, <2>2, <2>3
  <2> QED BY <1>4, <2>4 DEF EnoughFor
<1>11. CASE place[o].at = "lock"
  <2>1. left[o] = 0 /\ T = {}
    <3>1. o \notin Range(seen)
      BY <1>11 DEF Served
    <3> QED BY <1>1, <3>1 DEF TradingInv, MoneyInv, SettledInv, EngineOK, FillsReported
  <2>2. w = 0
    BY <1>1, <1>3, <2>1, WorthType
  <2>3. Needs(o) = 0
    BY <1>11 DEF Needs
  <2>4. Owed(o) = 0
    <3> HIDE DEF m, w
    <3> QED BY <1>1, <1>8, <2>1, <2>2
  <2> QED BY <2>3, <2>4 DEF EnoughFor
<1>12. CASE place[o].at = "rest"
  <2>1. T \subseteq settled
    BY <1>12 DEF Served
  <2>2. w = 0
    <3>1. T \ settled = {} /\ {} \in SUBSET Fill /\ IsFiniteSet({})
      BY <2>1, FS_EmptySet
    <3> QED BY <1>1, <3>1, WorthType
  <2>3. Needs(o) = RestLock(o)
    <3>1. Needs(o) = memory[o].locked
                     - Worth(Sides(o), MakerFeeBps, Making(o) \cap (settled \ AppliedTrades))
      BY <1>12 DEF Needs, Serving, Working, AtFill
    <3>2. Making(o) \cap (settled \ AppliedTrades) = {}
      BY <1>2
    <3>3. Worth(Sides(o), MakerFeeBps, Making(o) \cap (settled \ AppliedTrades)) = 0
      BY <3>2, FS_EmptySet, WorthType DEF MakerFeeBps
    <3>4. memory[o].locked = RestLock(o)
      BY <1>12 DEF Served
    <3>5. memory[o].locked \in Int
      BY <1>1, NeedsType
    <3> QED BY <3>1, <3>3, <3>4, <3>5
  <2>4. /\ memory[o].filled = Executed(o, T)
        /\ left[o] = 0 \/ memory[o].status \in Open
    BY <1>12 DEF Served
  <2>5. CASE ShouldRest(o)
    <3>1. RestLock(o) = r * (Order(o).quantity - Executed(o, T))
      <4>1. \A n \in Int : RemainingLock(o, n) = r * (Order(o).quantity - n)
        BY <1>1, RateSays DEF TradingInv, MoneyInv, SettledInv
      <4> HIDE DEF r, T
      <4> QED BY <1>6, <2>4, <2>5, <4>1 DEF RestLock
    <3> DEFINE q == Order(o).quantity - Executed(o, T)
    <3> HIDE DEF T, w, r, m
    <3>2. q \in Nat /\ left[o] + 0 <= q
      BY <1>1, <1>6
    <3> HIDE DEF q
    <3>3. m * left[o] + m * 0 <= r * q /\ m * 0 = 0 /\ r * q \in Nat
      BY <1>1, <3>2, RatesBound
    <3>4. Owed(o) <= Needs(o) /\ Owed(o) \in Int
      BY <1>8, <1>9, <2>2, <2>3, <3>1, <3>3 DEF q
    <3> QED BY <1>4, <3>4 DEF EnoughFor
  <2>6. CASE ~ShouldRest(o)
    <3>1. left[o] = 0
      <4>1. CASE memory[o].status \in Open
        <5>1. ~(Order(o).quantity > Executed(o, T))
          BY <2>4, <2>6, <4>1 DEF ShouldRest
        <5> HIDE DEF T
        <5> QED BY <1>1, <1>6, <5>1
      <4> QED BY <2>4, <4>1
    <3>2. Needs(o) = 0
      BY <2>3, <2>6 DEF RestLock
    <3>3. Owed(o) = 0
      <4> HIDE DEF m, w
      <4> QED BY <1>1, <1>8, <2>2, <3>1
    <3> QED BY <3>2, <3>3 DEF EnoughFor
  <2> QED BY <2>5, <2>6
<1> QED BY <1>10, <1>11, <1>12

(* Of an order that has been placed, the list says what it may still cost. *)
LEMMA EnoughListed ==
  ASSUME TradingInv, Noted, TradesOK, NEW o \in Clean, ~Unbounded(o), Served(o),
         Listed(o), place[o].at = "done"
  PROVE  EnoughFor(o)
<1> DEFINE T == FillsReported(o)
           M == Making(o)
           A == AppliedTrades
           U == traded \ settled
           D == M \ A
           r == Rate(o, TakerFeeBps)
           m == Rate(o, MakerFeeBps)
           w == Worth(Sides(o), MakerFeeBps, U \cap M)
           v == Worth(Sides(o), MakerFeeBps, M \cap (settled \ A))
<1>1. /\ o \in Placed /\ o \in Ids /\ Lockable(o) /\ ~Unbounded(o)
      /\ Owed(o) = m * left[o] + OwedFor(o, (U \cap T) \cup (U \cap M))
      /\ left[o] \in Nat /\ m \in Nat /\ r \in Nat /\ m <= r /\ Order(o).quantity \in Nat
      /\ MakerFeeBps \in Nat
  BY OwedParts
<1>2. /\ M \in SUBSET traded /\ traded \in SUBSET Fill /\ IsFiniteSet(traded)
      /\ M \in SUBSET Fill /\ IsFiniteSet(M)
      /\ \A S \in SUBSET M :
           /\ Worth(Sides(o), MakerFeeBps, S) \in Nat
           /\ Worth(Sides(o), MakerFeeBps, S) = m * Executed(o, S)
           /\ OwedFor(o, S) = Worth(Sides(o), MakerFeeBps, S)
  BY <1>1, OwnTrades
<1>3. Needs(o) \in Int
  BY <1>1, NeedsType
<1>4. T \subseteq settled
  BY DEF Served
<1>5. A \subseteq settled /\ settled \subseteq traded /\ A \in SUBSET traded
  BY DEF AppliedTrades, TradingInv, MoneyInv, SettledInv, Typed, EngineTyped
<1>6. /\ (U \cap T) \cup (U \cap M) = U \cap M /\ U \cap M \in SUBSET M
      /\ M \cap (settled \ A) \in SUBSET M /\ D \in SUBSET M
      /\ D = (U \cap M) \cup (M \cap (settled \ A))
      /\ (U \cap M) \cap (M \cap (settled \ A)) = {}
  BY <1>2, <1>4, <1>5
<1>7. /\ Owed(o) = m * left[o] + w /\ w \in Nat /\ v \in Nat
      /\ w + v = m * Executed(o, D)
  <2>1. w \in Nat /\ v \in Nat /\ OwedFor(o, U \cap M) = w
    BY <1>2, <1>6
  <2>2. Worth(Sides(o), MakerFeeBps, D) = m * Executed(o, D)
    BY <1>2, <1>6
  <2>3. Worth(Sides(o), MakerFeeBps, (U \cap M) \cup (M \cap (settled \ A))) = w + v
    BY <1>1, <1>2, <1>6, WorthJoins
  <2>4. Owed(o) = m * left[o] + w
    <3> HIDE DEF U, T, M, w, m
    <3> QED BY <1>1, <1>6, <2>1
  <2> HIDE DEF U, M, A, D, w, v, m
  <2> QED BY <1>6, <2>1, <2>2, <2>3, <2>4
<1>8. m * left[o] \in Nat
  <2> HIDE DEF m
  <2> QED BY <1>1
<1>9. o \in Range(list) => Needs(o) = memory[o].locked - v
  BY DEF Needs, Serving, Working, AtFill
<1>10. o \notin Range(list) => Needs(o) = 0
  BY DEF Needs
<1>11. ASSUME Dead(o) PROVE Owed(o) = 0 /\ v = 0
  <2>1. left[o] = 0 /\ D = {}
    BY <1>11 DEF Dead
  <2>2. Worth(Sides(o), MakerFeeBps, D) = 0
    BY <1>1, <2>1, FS_EmptySet, WorthType
  <2>3. Worth(Sides(o), MakerFeeBps, D) = m * Executed(o, D)
    BY <1>2, <1>6
  <2> HIDE DEF D, m, w, v
  <2>4. w = 0 /\ v = 0
    BY <1>7, <2>2, <2>3
  <2>5. m * left[o] = 0
    BY <1>1, <2>1
  <2> QED BY <1>7, <2>4, <2>5
<1>12. CASE o \notin Range(list)
  <2>1. Dead(o)
    BY <1>12 DEF Listed, OutOfList
  <2> QED BY <1>10, <1>11, <1>12, <2>1 DEF EnoughFor
<1>13. CASE o \in Range(list) /\ cancel[o].at = "close"
  <2>1. Dead(o) /\ memory[o].locked = 0
    BY <1>13 DEF Listed, InList, Known
  <2> HIDE DEF v
  <2>2. Owed(o) = 0 /\ Needs(o) = 0
    BY <1>9, <1>11, <1>13, <2>1
  <2> QED BY <2>2 DEF EnoughFor
<1>14. CASE o \in Range(list) /\ cancel[o].at # "close"
  <2> DEFINE f == memory[o].filled
             l == memory[o].locked
             q == Order(o).quantity - f
             e == Executed(o, D)
  <2>1. l >= RemainingLock(o, f)
    BY <1>14 DEF Listed, InList
  <2>2. f \in Nat /\ l \in Int /\ f <= Executed(o, A)
    BY <1>1 DEF TradingInv, MoneyInv, SettledInv, Typed, LocalTyped, StoredOrder, FilledOK
  <2>3. /\ e \in Nat /\ Executed(o, A) \in Nat
        /\ left[o] + e + Executed(o, A) <= Order(o).quantity
    <3>1. D \in SUBSET traded /\ D \cap A = {}
      BY <1>2
    <3> QED BY <1>1, <1>5, <3>1, PartsFit
  <2>4. RemainingLock(o, f) = r * q
    <3>1. \A n \in Int : RemainingLock(o, n) = r * (Order(o).quantity - n)
      BY <1>1, RateSays DEF TradingInv, MoneyInv, SettledInv
    <3> HIDE DEF r, f
    <3> QED BY <2>2, <3>1
  <2>5. Needs(o) = l - v
    BY <1>9, <1>14
  <2> HIDE DEF r, m, f, l, e, v, w, A, D
  <2>6. q \in Nat /\ left[o] + e <= q
    BY <1>1, <2>2, <2>3
  <2> HIDE DEF q
  <2>7. m * left[o] + m * e <= r * q /\ m * e \in Nat /\ r * q \in Nat
    BY <1>1, <2>3, <2>6, RatesBound
  <2>8. w + v = m * e
    BY <1>7 DEF e
  <2>9. Owed(o) <= Needs(o) /\ Owed(o) \in Int
    BY <1>7, <1>8, <2>1, <2>2, <2>4, <2>5, <2>7, <2>8
  <2> QED BY <1>3, <2>9 DEF EnoughFor
<1> QED BY <1>12, <1>13, <1>14

(* What the wallet must have locked for an order covers what it may cost. *)
LEMMA Enough ==
  ASSUME TradingInv, Noted, TradesOK, NEW o \in Clean, ~Unbounded(o), Served(o),
         Listed(o)
  PROVE  EnoughFor(o)
<1>1. place[o].at \in Serving \cup {"lock", "rest", "done"}
  BY CleanSays DEF TradingInv, MoneyInv
<1> QED BY <1>1, EnoughServed, EnoughListed

(* The sum of what is owed is that of its terms. *)
LEMMA OwedFound ==
  ASSUME NEW S, IsFiniteSet(S), S \subseteq Ids
  PROVE  MapThenSumSet(Owed, S) = SumOf([o \in Ids |-> Owed(o)], S)
<1> DEFINE f == [o \in Ids |-> Owed(o)]
<1>1. \A x \in S : f[x] = Owed(x)
  OBVIOUS
<1>2. \A s \in SUBSET S : s # {} => Chosen(s) \in s /\ s \ {Chosen(s)} \in SUBSET S
  BY ChosenLeaves
<1> DEFINE A(h) == [s \in SUBSET S |->
                      IF s = {} THEN 0 ELSE Owed(Chosen(s)) + h[s \ {Chosen(s)}]]
           B(h) == [s \in SUBSET S |->
                      IF s = {} THEN 0 ELSE f[Chosen(s)] + h[s \ {Chosen(s)}]]
<1>3. \A h : A(h) = B(h)
  <2> TAKE h
  <2>1. \A s \in SUBSET S :
          (IF s = {} THEN 0 ELSE Owed(Chosen(s)) + h[s \ {Chosen(s)}])
            = (IF s = {} THEN 0 ELSE f[Chosen(s)] + h[s \ {Chosen(s)}])
    BY <1>1, <1>2
  <2> HIDE DEF f
  <2> QED BY <2>1
<1>4. MapThenSumSet(Owed, S) = (CHOOSE h : h = A(h))[S]
  BY DEF MapThenSumSet, MapThenFoldSet, Chosen
<1>5. SumOf(f, S) = (CHOOSE h : h = B(h))[S]
  BY DEF SumOf, MapThenSumSet, MapThenFoldSet, Chosen
<1> HIDE DEF A, B, f
<1>6. (CHOOSE h : h = A(h)) = (CHOOSE h : h = B(h))
  BY <1>3
<1>7. MapThenSumSet(Owed, S) = SumOf(f, S)
  BY <1>4, <1>5, <1>6
<1> QED BY <1>7 DEF f

(* What a wallet has locked is a number, as what it had at first is. *)
LEMMA LocksAreInt ==
  ASSUME TradingInv, NEW u \in Users, NEW a \in Assets
  PROVE  accounts[<<u, a>>].locked \in Int /\ Opening[<<u, a>>].locked \in Int
<1>1. /\ accounts \in [Wallets -> Account] /\ Opening \in [Wallets -> Account]
      /\ <<u, a>> \in Wallets
  BY OpeningAssumption DEF TradingInv, MoneyInv, FeesPaid, Wallets
<1> QED BY <1>1 DEF Account

(* What is claimed is what the property asks. *)
LEMMA CoverSays ==
  ASSUME TradingInv, CoverInv
  PROVE  Covered
<1> SUFFICES ASSUME NEW u \in Users, NEW a \in Assets,
                    \A o \in OrdersOf(u, a) : o \notin disturbed /\ ~Unbounded(o)
             PROVE  accounts[<<u, a>>].locked >= MapThenSumSet(Owed, OrdersOf(u, a))
  BY DEF Covered
<1> DEFINE S == OrdersOf(u, a)
           f == [o \in Ids |-> Owed(o)]
           h == [o \in Ids |-> Needs(o)]
<1>1. S \subseteq Clean /\ Followed(u, a) /\ \A o \in S : ~Unbounded(o)
  BY DEF Clean, OrdersOf, Followed
<1>2. S \subseteq Placed /\ Placed \subseteq Ids /\ IsFiniteSet(S)
  <2>1. OrdersTyped
    BY DEF TradingInv, MoneyInv, SettledInv, Typed
  <2>2. S \subseteq Placed /\ Placed \subseteq Ids
    BY <2>1, OrderFound DEF OrdersOf
  <2>3. IsFiniteSet(Ids)
    BY BoundsAssumption, FS_Interval DEF Ids
  <2>4. S \subseteq Ids
    BY <2>2
  <2> HIDE DEF S
  <2> QED BY <2>2, <2>3, <2>4, FS_Subset
<1>3. accounts[<<u, a>>].locked - Opening[<<u, a>>].locked >= SumOf(h, S)
  BY <1>1 DEF CoverInv, Provided, LockedSince
<1>4. \A x \in S : f[x] \in Int /\ h[x] \in Int /\ f[x] <= h[x]
  <2> TAKE x \in S
  <2>1. EnoughFor(x)
    BY <1>1, Enough DEF CoverInv
  <2> QED BY <1>2, <2>1 DEF EnoughFor
<1>5. MapThenSumSet(Owed, S) = SumOf(f, S)
  BY <1>2, OwedFound
<1>6. /\ accounts[<<u, a>>].locked \in Int /\ Opening[<<u, a>>].locked \in Int
      /\ Opening[<<u, a>>].locked >= 0
  BY LocksAreInt, OpeningAssumption DEF Wallets
<1> HIDE DEF S, f, h
<1>7. SumOf(f, S) \in Int /\ SumOf(h, S) \in Int /\ SumOf(f, S) <= SumOf(h, S)
  BY <1>2, <1>4, SumGrows
<1>8. SumOf(f, S) <= accounts[<<u, a>>].locked
  BY <1>3, <1>6, <1>7
<1> QED BY <1>5, <1>6, <1>7, <1>8 DEF S

Idle == InFlight \cup Cancelling \cup disturbed = {}

(* When nothing is at work, all trades have been settled and applied. *)
LEMMA IdleSays ==
  ASSUME TradingInv, CoverInv, Idle
  PROVE  /\ AppliedTrades = traded /\ settled = traded
         /\ \A o \in Placed : /\ o \in Clean /\ o \in Ids /\ place[o].at = "done"
                              /\ cancel[o].at \in {"none", "done"} /\ Served(o) /\ Known(o)
                              /\ \A q \in Ids : ~Updates(q, o)
                              /\ o \in Range(list) => InList(o)
                              /\ o \notin Range(list) => OutOfList(o)
<1>1. SettledInv /\ Typed /\ EngineTyped /\ Noted /\ settled \subseteq traded /\ OrdersTyped
  BY DEF TradingInv, MoneyInv, SettledInv, Typed, EngineTyped, CoverInv
<1>2. /\ \A q \in Ids : place[q].at \in {"none", "done", "failed"}
      /\ \A q \in Ids : cancel[q].at \in {"none", "done", "failed"}
      /\ disturbed = {}
  BY DEF Idle, InFlight, Cancelling
<1>3. settled = traded
  <2>1. ASSUME NEW t \in traded \ settled PROVE FALSE
    <3>1. t.taker \in Ids /\ t.maker \notin disturbed
      BY <1>1, <1>2 DEF EngineTyped, Fill
    <3>2. Pending(t)
      BY <3>1 DEF CoverInv, PendingHeld
    <3> QED BY <1>2, <3>1, <3>2 DEF Pending, Working, AtFill
  <2> QED BY <1>1, <2>1
<1>4. AppliedTrades = settled
  BY <1>2 DEF AppliedTrades
<1>5. ASSUME NEW o \in Placed
      PROVE  /\ o \in Clean /\ o \in Ids /\ place[o].at = "done"
             /\ cancel[o].at \in {"none", "done"} /\ Served(o) /\ Known(o)
             /\ \A q \in Ids : ~Updates(q, o)
             /\ o \in Range(list) => InList(o)
             /\ o \notin Range(list) => OutOfList(o)
  <2>1. o \in Clean
    BY <1>2 DEF Clean
  <2>2. /\ o \in Ids /\ place[o].at \in Serving \cup {"lock", "rest", "done"}
        /\ cancel[o].at # "failed"
    BY <1>1, <2>1, CleanSays
  <2>3. place[o].at = "done"
    BY <1>2, <2>2 DEF Serving, Working, AtFill
  <2>4. Served(o) /\ Listed(o)
    BY <2>1 DEF CoverInv
  <2>5. \A q \in Ids : ~Updates(q, o)
    BY <1>2 DEF Updates, Releasing
  <2> QED BY <1>2, <2>1, <2>2, <2>3, <2>4, <2>5 DEF Listed
<1> QED BY <1>3, <1>4, <1>5

(* Then row, list and engine tell the same of each order, *)
LEMMA IdleOrders ==
  ASSUME TradingInv, CoverInv, Idle, NEW o \in Placed
  PROVE  /\ rows[o].filled = Executed(o, traded)
         /\ o \in Range(list) <=> rows[o].status \in Open
         /\ Resting(o) => o \in Range(list)
         /\ o \in Range(list) => Resting(o) \/ place[o].status = "PartiallyFilled"
<1>1. /\ AppliedTrades = traded
      /\ o \in Ids /\ cancel[o].at \in {"none", "done"}
      /\ \A q \in Ids : ~Updates(q, o)
      /\ o \in Range(list) => InList(o)
      /\ o \notin Range(list) => OutOfList(o)
  BY IdleSays
<1>2. Executed(o, Booked(o)) = Executed(o, traded) /\ Executed(o, TradesOf(o)) = Executed(o, traded)
  <2>1. Booked(o) = Of(o, traded) /\ TradesOf(o) = Of(o, traded)
    BY <1>1 DEF Booked, TradesOf, Of, FillsReported, Making
  <2> QED BY <2>1, ExecutedOfOwn
<1>3. left[o] \in Nat /\ Order(o).quantity \in Nat /\ Executed(o, traded) \in Nat
  <2>1. traded \in SUBSET traded /\ {} \in SUBSET traded /\ traded \cap {} = {}
    OBVIOUS
  <2> QED BY <2>1, PartsFit
<1>4. CASE o \in Range(list)
  <2>1. /\ rows[o].filled = Executed(o, traded) /\ rows[o].status \in Open
        /\ Executed(o, traded) < Order(o).quantity
        /\ place[o].status \in Open
        /\ place[o].status = "New" =>
             Order(o).kind = "Limit" /\ left[o] + Executed(o, traded) = Order(o).quantity
    BY <1>1, <1>2, <1>4 DEF InList
  <2>2. place[o].status = "New" => left[o] > 0
    BY <1>3, <2>1
  <2> QED BY <1>4, <2>1, <2>2 DEF Resting, Open
<1>5. CASE o \notin Range(list)
  <2>1. rows[o].filled = Executed(o, traded) /\ rows[o].status \notin Open /\ left[o] = 0
    BY <1>1, <1>2, <1>5 DEF OutOfList, Dead
  <2> QED BY <1>5, <2>1 DEF Resting
<1> QED BY <1>4, <1>5

LockedOf(S) == MapThenSumSet(LAMBDA o : memory[o].locked, S)

(* The sum of what the list says is that of its terms. *)
LEMMA LockedFound ==
  ASSUME NEW S, IsFiniteSet(S), S \subseteq Ids
  PROVE  LockedOf(S) = SumOf([o \in Ids |-> memory[o].locked], S)
<1> DEFINE f == [o \in Ids |-> memory[o].locked]
<1>1. \A x \in S : f[x] = memory[x].locked
  OBVIOUS
<1>2. \A s \in SUBSET S : s # {} => Chosen(s) \in s /\ s \ {Chosen(s)} \in SUBSET S
  BY ChosenLeaves
<1> DEFINE A(h) == [s \in SUBSET S |->
                      IF s = {} THEN 0 ELSE memory[Chosen(s)].locked + h[s \ {Chosen(s)}]]
           B(h) == [s \in SUBSET S |->
                      IF s = {} THEN 0 ELSE f[Chosen(s)] + h[s \ {Chosen(s)}]]
<1>3. \A h : A(h) = B(h)
  <2> TAKE h
  <2>1. \A s \in SUBSET S :
          (IF s = {} THEN 0 ELSE memory[Chosen(s)].locked + h[s \ {Chosen(s)}])
            = (IF s = {} THEN 0 ELSE f[Chosen(s)] + h[s \ {Chosen(s)}])
    BY <1>1, <1>2
  <2> HIDE DEF f
  <2> QED BY <2>1
<1>4. LockedOf(S) = (CHOOSE h : h = A(h))[S]
  BY DEF LockedOf, MapThenSumSet, MapThenFoldSet, Chosen
<1>5. SumOf(f, S) = (CHOOSE h : h = B(h))[S]
  BY DEF SumOf, MapThenSumSet, MapThenFoldSet, Chosen
<1> HIDE DEF A, B, f
<1>6. (CHOOSE h : h = A(h)) = (CHOOSE h : h = B(h))
  BY <1>3
<1>7. LockedOf(S) = SumOf(f, S)
  BY <1>4, <1>5, <1>6
<1> QED BY <1>7 DEF f

(* and the wallet has locked what the list says. *)
LEMMA IdleLocks ==
  ASSUME TradingInv, CoverInv, Idle, NEW u \in Users, NEW a \in Assets,
         \A o \in OrdersOf(u, a) : ~Unbounded(o)
  PROVE  /\ LockedSince(u, a) >= LockedOf(OrdersOf(u, a) \cap Range(list))
         /\ ~restarted => LockedSince(u, a) = LockedOf(OrdersOf(u, a) \cap Range(list))
<1> DEFINE S == OrdersOf(u, a)
           T == S \cap Range(list)
           f == [o \in Ids |-> Needs(o)]
           h == [o \in Ids |-> memory[o].locked]
<1>1. S \subseteq Placed /\ S \subseteq Ids /\ IsFiniteSet(S)
  <2>1. OrdersTyped
    BY DEF TradingInv, MoneyInv, SettledInv, Typed
  <2>2. S \subseteq Placed /\ S \subseteq Ids
    BY <2>1, OrderFound DEF OrdersOf
  <2>3. IsFiniteSet(Ids)
    BY BoundsAssumption, FS_Interval DEF Ids
  <2> HIDE DEF S
  <2> QED BY <2>2, <2>3, FS_Subset
<1>2. Followed(u, a)
  BY <1>1, IdleSays DEF Followed
<1>3. /\ LockedSince(u, a) >= SumOf(f, S)
      /\ ~restarted => LockedSince(u, a) = SumOf(f, S)
  BY <1>2 DEF CoverInv, Provided
<1>4. \A x \in S : /\ f[x] \in Int
                   /\ x \in T => f[x] = h[x]
                   /\ x \notin T => f[x] = 0
  <2> TAKE x \in S
  <2>1. x \in Placed /\ x \in Ids /\ place[x].at = "done" /\ AppliedTrades = traded /\ settled = traded
    BY <1>1, IdleSays
  <2>2. Making(x) \cap (settled \ AppliedTrades) = {}
    BY <2>1
  <2>3. Worth(Sides(x), MakerFeeBps, Making(x) \cap (settled \ AppliedTrades)) = 0
    BY <2>2, FS_EmptySet, WorthType DEF MakerFeeBps
  <2>4. Needs(x) = IF x \in Range(list)
                   THEN memory[x].locked
                        - Worth(Sides(x), MakerFeeBps, Making(x) \cap (settled \ AppliedTrades))
                   ELSE 0
    BY <2>1 DEF Needs, Serving, Working, AtFill
  <2>5. Needs(x) \in Int /\ memory[x].locked \in Int
    BY <2>1, NeedsType
  <2>6. Needs(x) = IF x \in Range(list) THEN memory[x].locked ELSE 0
    BY <2>3, <2>4, <2>5
  <2> QED BY <2>1, <2>5, <2>6
<1>5. LockedOf(T) = SumOf(h, T)
  <2>1. IsFiniteSet(T) /\ T \subseteq Ids
    BY <1>1, FS_Subset
  <2> HIDE DEF T
  <2> QED BY <2>1, LockedFound
<1>6. T \subseteq S
  OBVIOUS
<1> HIDE DEF S, T, f, h
<1>7. SumOf(f, S) = SumOf(f, T)
  BY <1>1, <1>4, <1>6, SumOfSome
<1>8. SumOf(f, T) = SumOf(h, T)
  <2>1. IsFiniteSet(T) /\ \A x \in T : f[x] \in Int /\ h[x] \in Int /\ f[x] = h[x]
    BY <1>1, <1>4, <1>6, FS_Subset
  <2>2. 0 \notin T
    BY <1>1, <1>6 DEF Ids
  <2>3. \A x \in T : f[x] \in Int /\ h[x] \in Int /\ (x # 0 => h[x] = f[x])
    BY <2>1
  <2> QED BY <2>1, <2>2, <2>3, SumMoves
<1>9. LockedOf(T) = SumOf(f, S)
  BY <1>5, <1>7, <1>8
<1> QED BY <1>3, <1>9 DEF S, T

(* What is claimed is what the property asks of idle moments. *)
LEMMA AgreeSays ==
  ASSUME TradingInv, CoverInv
  PROVE  IdleAgrees
<1>1. ASSUME Idle, NEW u \in Users, NEW a \in Assets,
             \A o \in OrdersOf(u, a) : ~Unbounded(o)
      PROVE  IF ~restarted
             THEN accounts[<<u, a>>].locked - Opening[<<u, a>>].locked
                    = MapThenSumSet(LAMBDA o : memory[o].locked, OrdersOf(u, a) \cap Range(list))
             ELSE accounts[<<u, a>>].locked - Opening[<<u, a>>].locked
                    >= MapThenSumSet(LAMBDA o : memory[o].locked, OrdersOf(u, a) \cap Range(list))
  BY <1>1, IdleLocks DEF LockedOf, LockedSince
<1> QED BY <1>1, IdleOrders DEF IdleAgrees, Idle

-----------------------------------------------------------------------------
(* Who is at work on an order *)

(* The request that places q may still change o. *)
Works(q, o) == q \in InFlight /\ (q = o \/ \E f \in Range(place[q].fills) : f.maker = o)

(* At most one request may. *)
Alone(o) ==
  /\ \A q \in Ids : \A r \in Ids : Works(q, o) /\ Works(r, o) => q = r
  /\ \A q \in Ids : Works(q, o) => o \notin Cancelling

Undisturbed == \A o \in Ids : o \notin Raced => Alone(o)

LEMMA HandlingFinite ==
  ASSUME NEW o
  PROVE  IsFiniteSet(Handling(o))
<1> DEFINE P == {<<"place", t>> : t \in Ids}
           C == {<<"cancel", t>> : t \in Ids}
           T == {"place", "cancel"} \X Ids
<1>1. IsFiniteSet(Ids)
  BY FS_Interval, BoundsAssumption DEF Ids
<1>2. IsFiniteSet({"place", "cancel"})
  <2>1. {"place", "cancel"} = {"place"} \cup {"cancel"}
    OBVIOUS
  <2>2. IsFiniteSet({"place"} \cup {"cancel"})
    BY FS_Singleton, FS_AddElement
  <2> QED BY <2>1, <2>2
<1>3. IsFiniteSet(T)
  BY <1>1, <1>2, FS_Product
<1>4. Handling(o) \subseteq T
  BY DEF Handling, InFlight, Cancelling
<1> QED BY <1>3, <1>4, FS_Subset

(* Two that are at work on an order race. *)
LEMMA TwoRace ==
  ASSUME NEW o \in Ids, NEW x \in Handling(o), NEW y \in Handling(o), x # y
  PROVE  o \in Raced
<1>1. {x, y} \subseteq Handling(o) /\ IsFiniteSet(Handling(o))
  BY HandlingFinite
<1>2. IsFiniteSet({y}) /\ Cardinality({y}) = 1
  BY FS_Singleton
<1>3. {x, y} = {y} \cup {x} /\ x \notin {y}
  OBVIOUS
<1>4. IsFiniteSet({x, y}) /\ Cardinality({x, y}) = 1 + 1
  BY <1>2, <1>3, FS_AddElement
<1>5. Cardinality({x, y}) <= Cardinality(Handling(o)) /\ Cardinality(Handling(o)) \in Nat
  BY <1>1, FS_Subset, FS_CardinalityType
<1>6. Cardinality(Handling(o)) > 1
  BY <1>4, <1>5
<1> QED BY <1>6 DEF Raced

(* An order that nobody races for has one request at work on it at most,   *)
(* now and after a step.                                                   *)
LEMMA AloneSays == Undisturbed
<1> SUFFICES ASSUME NEW o \in Ids, o \notin Raced PROVE Alone(o)
  BY DEF Undisturbed
<1>1. \A q \in Ids : Works(q, o) => <<"place", q>> \in Handling(o)
  BY DEF Works, Handling
<1>2. o \in Cancelling => <<"cancel", o>> \in Handling(o)
  BY DEF Handling
<1>3. ASSUME NEW q \in Ids, NEW r \in Ids, Works(q, o), Works(r, o), q # r PROVE FALSE
  <2>1. <<"place", q>> # <<"place", r>>
    BY <1>3
  <2> QED BY <1>1, <1>3, <2>1, TwoRace
<1>4. ASSUME NEW q \in Ids, Works(q, o), o \in Cancelling PROVE FALSE
  <2>1. <<"place", q>> # <<"cancel", o>>
    OBVIOUS
  <2> QED BY <1>1, <1>2, <1>4, <2>1, TwoRace
<1> QED BY <1>3, <1>4 DEF Alone

LEMMA AloneSaysNext == Undisturbed'
BY AloneSays, PTL

(* What is noted in a step. *)
Notes ==
  /\ disturbed' = disturbed \cup Raced' \cup Cut' \cup Dropped
  /\ restarted => restarted'

(* An order of which something is claimed still. *)
LEMMA CleanStays ==
  ASSUME TradingInv, Noted, Notes, NEW x \in Clean', x \in Placed, asked'[x] = asked[x]
  PROVE  /\ x \in Clean /\ x \in Ids /\ Lockable(x)
         /\ Alone(x) /\ Alone(x)' /\ x \notin Dropped
         /\ place[x].at \in Serving \cup {"lock", "rest", "done"}
         /\ cancel[x].at # "failed" /\ ~(place[x].at = "submit" /\ x \in Range(seen))
         /\ place'[x].at # "failed" /\ cancel'[x].at # "failed" /\ ~(cancel'[x].attempts > 0)
         /\ ~(place'[x].at \in {"submit", "giveUp"} /\ x \in Range(seen'))
         /\ \A q \in Ids : Lost(q)' => q # x /\ \A t \in Range(place'[q].fills) : t.maker # x
<1>1. x \notin disturbed'
  BY DEF Clean
<1>2. x \notin disturbed /\ x \notin Raced' /\ x \notin Cut' /\ x \notin Dropped
  BY <1>1 DEF Notes
<1>4. x \in Clean
  BY <1>2 DEF Clean
<1>5. /\ x \in Ids /\ Lockable(x) /\ x \notin Raced /\ x \notin Cut
      /\ place[x].at \in Serving \cup {"lock", "rest", "done"}
      /\ cancel[x].at # "failed"
  BY <1>4, CleanSays DEF TradingInv, MoneyInv
<1>6. Alone(x)
  BY <1>5, AloneSays DEF Undisturbed
<1>7. Alone(x)'
  BY <1>2, <1>5, AloneSaysNext DEF Undisturbed
<1>8. ~(place[x].at = "submit" /\ x \in Range(seen))
  BY <1>5, CutSays DEF CutHas, Lost
<1>9. /\ \A q \in Ids : Lost(q)' => q \in Cut' /\ \A t \in Range(place'[q].fills) : t.maker \in Cut'
      /\ cancel'[x].at # "failed" /\ ~(cancel'[x].attempts > 0)
  BY <1>2, <1>5, CutSaysNext DEF CutHas
<1>10. ~Lost(x)'
  BY <1>2, <1>5, <1>9
<1>11. /\ place'[x].at # "failed"
       /\ ~(place'[x].at \in {"submit", "giveUp"} /\ x \in Range(seen'))
  BY <1>10 DEF Lost
<1>12. \A q \in Ids : Lost(q)' => q # x /\ \A t \in Range(place'[q].fills) : t.maker # x
  BY <1>2, <1>9
<1> QED BY <1>2, <1>4, <1>5, <1>6, <1>7, <1>8, <1>9, <1>11, <1>12

-----------------------------------------------------------------------------
(* Orders that a step does not concern *)

LeftAlone(x) ==
  /\ asked'[x] = asked[x] /\ place'[x] = place[x] /\ memory'[x] = memory[x]
  /\ rows'[x] = rows[x] /\ cancel'[x] = cancel[x] /\ left'[x] = left[x]
  /\ x \in Range(seen') => x \in Range(seen)
  /\ FillsReported(x)' = FillsReported(x) /\ Making(x)' = Making(x)
  /\ \A t \in FillsReported(x) \cup Making(x) : t \in settled' <=> t \in settled
  /\ \A t \in Making(x) : t \in AppliedTrades' <=> t \in AppliedTrades
  /\ \A q \in Ids : Updates(q, x) \/ Updates(q, x)' => place'[q] = place[q]

Frame(x) == LeftAlone(x) /\ (x \in Range(list') <=> x \in Range(list))

(* What is said of an order stays when nothing of it changes. *)
LEMMA FrameKeeps ==
  ASSUME NEW x, Frame(x), Served(x), Listed(x)
  PROVE  Served(x)' /\ Listed(x)' /\ Needs(x)' = Needs(x)
<1>1. /\ Sides(x)' = Sides(x) /\ Order(x)' = Order(x) /\ Lockable(x)' = Lockable(x)
      /\ LockedAsset(x)' = LockedAsset(x)
  BY DEF Frame, LeftAlone, Sides, Order, Lockable, LockedAsset
<1>2. /\ EstimateLockAmount(x)' = EstimateLockAmount(x)
      /\ \A n : RemainingLock(x, n)' = RemainingLock(x, n)
      /\ RemainingLock(x, memory[x].filled)' = RemainingLock(x, memory[x].filled)
  BY <1>1 DEF EstimateLockAmount, RemainingLock, Cost, Frame, LeftAlone
<1>3. RestLock(x)' = RestLock(x)
  BY <1>1, <1>2 DEF RestLock, ShouldRest, Frame, LeftAlone
<1>4. Dead(x) => Dead(x)'
  BY DEF Dead, Frame, LeftAlone
<1>5. \A q \in Ids : /\ Updates(q, x)' <=> Updates(q, x)
                     /\ Updates(q, x) => place'[q] = place[q]
  BY DEF Frame, LeftAlone, Updates
<1>b. Booked(x)' = Booked(x) /\ TradesOf(x)' = TradesOf(x) /\ (Reported(x) => Reported(x)')
  <2>1. Booked(x)' = Booked(x) /\ TradesOf(x)' = TradesOf(x)
    BY DEF Booked, TradesOf, Frame, LeftAlone
  <2> QED BY <1>1, <2>1 DEF Reported, Frame, LeftAlone
<1>6. Served(x)'
  BY <1>2, <1>3, <1>b DEF Served, Frame, LeftAlone
<1>7. Listed(x)'
  <2> SUFFICES ASSUME place[x].at = "done"
               PROVE  Known(x)' /\ IF x \in Range(list') THEN InList(x)' ELSE OutOfList(x)'
    BY DEF Frame, LeftAlone, Listed
  <2>1. Known(x)'
    BY <1>1, <1>5 DEF Listed, Known, Frame, LeftAlone
  <2>2. CASE x \in Range(list)
    <3>1. InList(x)
      BY <2>2 DEF Listed
    <3>2. InList(x)'
      BY <1>1, <1>2, <1>4, <1>5, <1>b, <3>1 DEF InList, Frame, LeftAlone
    <3> QED BY <2>1, <2>2, <3>2 DEF Frame, LeftAlone
  <2>3. CASE x \notin Range(list)
    <3>1. OutOfList(x)
      BY <2>3 DEF Listed
    <3>2. OutOfList(x)'
      BY <1>1, <1>4, <1>b, <3>1 DEF OutOfList, Frame, LeftAlone
    <3> QED BY <2>1, <2>3, <3>2 DEF Frame, LeftAlone
  <2> QED BY <2>2, <2>3
<1>8. /\ (FillsReported(x) \cap settled)' = FillsReported(x) \cap settled
      /\ (Making(x) \cap (settled \ AppliedTrades))' = Making(x) \cap (settled \ AppliedTrades)
  BY DEF Frame, LeftAlone
<1>9. Needs(x)' = Needs(x)
  BY <1>1, <1>8 DEF Needs, Frame, LeftAlone
<1> QED BY <1>6, <1>7, <1>9

(* The fill that a placement looks after has to do with other orders. *)
Elsewhere(q, x) == place[q].at \in {"apply"} \cup Releasing => Head(place[q].fills).maker # x

(* A step of one request leaves alone the orders that it does not handle. *)
LEMMA FrameOf ==
  ASSUME NEW o \in Ids, NEW x, x # o, UNCHANGED <<asked, engine, cancel>>,
         \A q \in Ids : q # o => place'[q] = place[q], x \in Ids,
         memory'[x] = memory[x], rows'[x] = rows[x],
         settled \subseteq settled',
         \A t \in settled' : t \in settled \/ (t.maker # x /\ t.taker # x),
         Elsewhere(o, x), Elsewhere(o, x)'
  PROVE  LeftAlone(x)
<1>1. /\ asked'[x] = asked[x] /\ place'[x] = place[x] /\ cancel'[x] = cancel[x]
      /\ left'[x] = left[x] /\ seen' = seen
      /\ FillsReported(x)' = FillsReported(x) /\ Making(x)' = Making(x)
  BY DEF engine, FillsReported, Making
<1>2. \A t \in FillsReported(x) \cup Making(x) : t \in settled' <=> t \in settled
  BY DEF FillsReported, Making
<1>3. ASSUME NEW t \in Making(x)
      PROVE  t \in AppliedTrades' <=> t \in AppliedTrades
  <2>1. t.maker = x
    BY DEF Making
  <2>2. \A q \in Ids : (place[q].at = "apply" => t # Head(place[q].fills))
                       <=> (place'[q].at = "apply" => t # Head(place'[q].fills))
    BY <2>1 DEF Elsewhere
  <2> QED BY <1>2, <2>2 DEF AppliedTrades
<1>4. ASSUME NEW q \in Ids, Updates(q, x) \/ Updates(q, x)'
      PROVE  place'[q] = place[q]
  BY <1>4 DEF Updates, Elsewhere
<1> QED BY <1>1, <1>2, <1>3, <1>4 DEF LeftAlone

(* The wallet of an order keeps a lock for it no smaller than zero. *)
LEMMA RestIsNat ==
  ASSUME TradingInv, NEW o \in Placed, Lockable(o)
  PROVE  /\ memory[o].filled \in Nat /\ memory[o].filled <= Order(o).quantity
         /\ Order(o).quantity \in Nat
         /\ RemainingLock(o, memory[o].filled) \in Nat
         /\ memory[o].filled = Order(o).quantity => RemainingLock(o, memory[o].filled) = 0
<1>1. /\ o \in Ids /\ Order(o).quantity \in Nat /\ Rate(o, TakerFeeBps) \in Nat
      /\ \A n \in Int : RemainingLock(o, n) = Rate(o, TakerFeeBps) * (Order(o).quantity - n)
  BY RateSays DEF TradingInv, MoneyInv, SettledInv
<1>2. memory[o].filled \in Nat /\ memory[o].filled <= Executed(o, AppliedTrades)
  BY <1>1 DEF TradingInv, MoneyInv, SettledInv, Typed, LocalTyped, StoredOrder, FilledOK
<1>3. AppliedTrades \in SUBSET traded /\ {} \in SUBSET traded /\ AppliedTrades \cap {} = {}
  BY DEF AppliedTrades, TradingInv, MoneyInv, SettledInv, Typed, EngineTyped
<1>4. /\ left[o] \in Nat /\ Executed(o, AppliedTrades) \in Nat /\ Executed(o, {}) \in Nat
      /\ left[o] + Executed(o, AppliedTrades) + Executed(o, {}) <= Order(o).quantity
  BY <1>3, PartsFit
<1>5. memory[o].filled <= Order(o).quantity
  BY <1>1, <1>2, <1>4
<1> DEFINE d == Order(o).quantity - memory[o].filled
<1>6. d \in Nat /\ (memory[o].filled = Order(o).quantity => d = 0)
  BY <1>1, <1>2, <1>5
<1>7. RemainingLock(o, memory[o].filled) = Rate(o, TakerFeeBps) * d
  BY <1>1, <1>2
<1> HIDE DEF d
<1>8. RemainingLock(o, memory[o].filled) \in Nat
      /\ (d = 0 => RemainingLock(o, memory[o].filled) = 0)
  BY <1>1, <1>6, <1>7
<1> QED BY <1>1, <1>2, <1>5, <1>6, <1>8

(* Of a dead order, no settled trade is still to apply. *)
LEMMA DeadNeeds ==
  ASSUME TradingInv, NEW o \in Placed, Dead(o), place[o].at = "done"
  PROVE  Needs(o) = IF o \in Range(list) THEN memory[o].locked ELSE 0
<1>1. Making(o) \cap (settled \ AppliedTrades) = {}
  BY DEF Dead
<1>2. {} \in SUBSET Fill /\ IsFiniteSet({}) /\ MakerFeeBps \in Nat
  BY FS_EmptySet DEF MakerFeeBps
<1>3. Worth(Sides(o), MakerFeeBps, {}) = 0
  BY <1>2, WorthType
<1>4. Worth(Sides(o), MakerFeeBps, Making(o) \cap (settled \ AppliedTrades)) = 0
  BY <1>1, <1>3
<1>5. memory[o].locked \in Int
  BY NeedsType
<1> QED BY <1>4, <1>5 DEF Needs, Serving, Working, AtFill

(* Who looks after a fill is at work on its maker. *)
LEMMA FillWorks ==
  ASSUME TradingInv, NEW q \in Ids, place[q].at \in AtFill
  PROVE  /\ Works(q, Head(place[q].fills).maker) /\ Works(q, q)
         /\ Head(place[q].fills) \in Range(place[q].fills)
<1>1. /\ Head(place[q].fills) = place[q].fills[1] /\ 1 \in DOMAIN place[q].fills
  BY FirstFill DEF TradingInv, MoneyInv
<1>2. q \in InFlight
  BY DEF InFlight, AtFill
<1> QED BY <1>1, <1>2 DEF Works, Range

LEMMA CancelAt ==
  ASSUME TradingInv, NEW o \in Ids, o \notin Cancelling, cancel[o].at # "failed"
  PROVE  cancel[o].at \in {"none", "done"}
<1>1. cancel[o].at \in {"none", "ask", "find", "unlock", "close", "done", "failed"}
  BY DEF TradingInv, MoneyInv, CancelsOK, Cancellation
<1> QED BY <1>1 DEF Cancelling

(* The maker of a fill that a placement looks after has been placed, and   *)
(* nobody else changes it.                                                 *)
LEMMA HeadMaker ==
  ASSUME TradingInv, Noted, NEW o \in Ids, place[o].at \in AtFill, NEW m,
         m = Head(place[o].fills).maker, m \in Clean
  PROVE  /\ m \in Ids /\ m \in Placed /\ m # o /\ Alone(m)
         /\ place[m].at = "done" /\ cancel[m].at \in {"none", "done"}
         /\ \A q \in Ids : q # o => ~Works(q, m) /\ ~Updates(q, m)
         /\ \A q \in Ids : q # o /\ place[q].at \in AtFill => Head(place[q].fills).maker # m
<1>1. m \in Ids /\ m \in Placed /\ m # o
  BY FirstFill DEF TradingInv, MoneyInv
<1>2. /\ m \notin Raced /\ place[m].at \in Serving \cup {"lock", "rest", "done"}
      /\ cancel[m].at # "failed"
  BY CleanSays DEF TradingInv, MoneyInv
<1>3. Alone(m)
  BY <1>1, <1>2, AloneSays DEF Undisturbed
<1>4. Works(o, m) /\ o \in Ids
  BY FillWorks
<1>5. place[m].at = "done"
  <2>1. m \in InFlight => Works(m, m)
    BY DEF Works
  <2>2. m \notin InFlight
    BY <1>1, <1>3, <1>4, <2>1 DEF Alone
  <2> QED BY <1>1, <1>2, <2>2 DEF InFlight, Serving, Working, AtFill
<1>6. cancel[m].at \in {"none", "done"}
  BY <1>1, <1>2, <1>3, <1>4, CancelAt DEF Alone
<1>7. \A q \in Ids : q # o => ~Works(q, m)
  BY <1>3, <1>4 DEF Alone
<1>8. \A q \in Ids : q # o /\ place[q].at \in AtFill => Head(place[q].fills).maker # m
  BY <1>7, FillWorks
<1>9. \A q \in Ids : q # o => ~Updates(q, m)
  BY <1>8 DEF Updates, Releasing, AtFill
<1> QED BY <1>1, <1>3, <1>5, <1>6, <1>7, <1>8, <1>9

(* An order that a splice takes out of the list instead of another. *)
LEMMA DropKeeps ==
  ASSUME TradingInv, NEW x \in Placed, x \in Ids, Alone(x), Served(x), Listed(x), LeftAlone(x),
         place[x].at = "done", x \in Range(list), x \notin Range(list'), x \notin Dropped
  PROVE  Served(x)' /\ Listed(x)' /\ Needs(x)' = Needs(x)
<1>1. rows[x].status \notin Open /\ memory[x].locked = 0
  BY DEF Dropped, LeftAlone
<1>2. InList(x) /\ Known(x)
  BY DEF Listed
<1>3. PICK q \in Ids : Updates(q, x) /\ place[q].at = "unlockMaker"
  BY <1>1, <1>2 DEF InList
<1>4. memory[x].filled >= Order(x).quantity
  BY <1>2, <1>3 DEF Known
<1>5. Dead(x)
  BY <1>4, FullIsDead
<1>6. \A r \in Ids : Updates(r, x) => Works(r, x)
  BY FillWorks DEF Updates, Releasing, AtFill
<1>7. \A r \in Ids : Updates(r, x) => r = q
  BY <1>3, <1>6 DEF Alone
<1>8. x \notin Cancelling
  BY <1>3, <1>6 DEF Alone
<1>9. cancel[x].at # "unlock" /\ cancel[x].at # "close"
  BY <1>8 DEF Cancelling
<1>10. \A r \in Ids : Updates(r, x)' => r = q /\ place'[r] = place[r]
  BY <1>7 DEF LeftAlone, Updates
<1>11. /\ Order(x)' = Order(x) /\ memory'[x] = memory[x] /\ rows'[x] = rows[x]
       /\ cancel'[x] = cancel[x] /\ place'[x] = place[x]
  BY DEF LeftAlone, Order
<1>12. Known(x)'
  BY <1>1, <1>2, <1>3, <1>4, <1>9, <1>10, <1>11 DEF Known
<1>13. Dead(x)'
  BY <1>5 DEF Dead, LeftAlone
<1>b. rows[x].filled = Executed(x, Booked(x))
  <2>1. \A r \in Ids : ~(Updates(r, x) /\ place[r].at = "writeMaker")
    BY <1>3, <1>7
  <2> QED BY <1>2, <2>1 DEF InList
<1>c. Booked(x)' = Booked(x)
  BY DEF Booked, LeftAlone
<1>14. OutOfList(x)'
  BY <1>1, <1>9, <1>11, <1>13, <1>b, <1>c DEF OutOfList
<1>15. Listed(x)'
  BY <1>12, <1>14 DEF Listed
<1>16. Served(x)'
  BY <1>11 DEF Served, LeftAlone, Serving, Working, AtFill
<1>17. Needs(x)' = 0
  BY <1>11 DEF Needs
<1>18. Needs(x) = 0
  BY <1>1, <1>5, DeadNeeds
<1> QED BY <1>15, <1>16, <1>17, <1>18

(* What is said of those orders stays, whether or not they are in the      *)
(* list.                                                                   *)
LEMMA OthersStay ==
  ASSUME TradingInv, CoverInv, Notes, NEW o \in Ids, NEW x \in Clean', x \in Placed, x # o,
         UNCHANGED <<asked, engine, cancel>>,
         \A q \in Ids : q # o => place'[q] = place[q],
         memory'[x] = memory[x], rows'[x] = rows[x],
         x \in Range(list') => x \in Range(list), settled \subseteq settled',
         \A t \in settled' : t \in settled \/ (t.maker # x /\ t.taker # x),
         Elsewhere(o, x), Elsewhere(o, x)'
  PROVE  Served(x)' /\ Listed(x)' /\ Needs(x)' = Needs(x)
<1>1. /\ x \in Clean /\ x \in Ids /\ Alone(x) /\ x \notin Dropped
      /\ place[x].at \in Serving \cup {"lock", "rest", "done"}
  BY CleanStays DEF CoverInv
<1>2. Served(x) /\ Listed(x)
  BY <1>1 DEF CoverInv
<1>3. LeftAlone(x)
  BY <1>1, FrameOf
<1>4. CASE x \in Range(list') <=> x \in Range(list)
  BY <1>2, <1>3, <1>4, FrameKeeps DEF Frame
<1>5. CASE x \in Range(list) /\ x \notin Range(list')
  <2>1. place[x].at = "done"
    <3>1. place[x].at \in {"done", "failed"}
      BY <1>5 DEF TradingInv, MoneyInv, SettledInv, ListOK
    <3> QED BY <1>1, <3>1 DEF Serving, Working, AtFill
  <2> QED BY <1>1, <1>2, <1>3, <1>5, <2>1, DropKeeps
<1> QED BY <1>4, <1>5

-----------------------------------------------------------------------------
(* The wallets, and what is needed of them *)

WalletOf(o) == <<Order(o).user, LockedAsset(o)>>

(* Nothing is locked or released but d, for the user of an order. *)
OnlyMoves(o, d) ==
  \A w \in Wallets :
    accounts'[w].locked = accounts[w].locked + IF w = WalletOf(o) THEN d ELSE 0

(* The same, for the two sides of a trade. *)
BothMove(o, d, m, e) ==
  \A w \in Wallets :
    accounts'[w].locked = accounts[w].locked + IF w = WalletOf(o) THEN d
                                               ELSE IF w = WalletOf(m) THEN e ELSE 0

(* The wallet that an order locks from. *)
LEMMA WalletFound ==
  ASSUME OrdersTyped, NEW o \in Placed
  PROVE  /\ Order(o).user \in Users /\ LockedAsset(o) \in Assets /\ WalletOf(o) \in Wallets
         /\ \A u, a : o \in OrdersOf(u, a) <=> WalletOf(o) = <<u, a>>
<1>1. Order(o).user \in Users /\ LockedAsset(o) \in Assets
  BY OrderFound, PairFound DEF LockedAsset
<1> QED BY <1>1 DEF WalletOf, Wallets, OrdersOf

(* An operation of one leg moves the locked part of that wallet alone. *)
LEMMA OneLegMoves ==
  ASSUME accounts \in [Wallets -> Account], OrdersTyped, NEW o \in Placed,
         NEW x \in Int, NEW y \in Int, NEW z \in Int,
         accounts' = Applied(accounts, <<Leg(Order(o).user, LockedAsset(o), x, y, z)>>)
  PROVE  OnlyMoves(o, y)
<1> DEFINE leg == Leg(Order(o).user, LockedAsset(o), x, y, z)
<1>1. leg \in Legs /\ leg.wallet = WalletOf(o) /\ leg.locked = y
  BY WalletFound, LegType DEF Leg, WalletOf
<1> HIDE DEF leg
<1>2. \A w \in Wallets : Locks(<<leg>>, w, LegLocks(leg, w))
  BY <1>1, OneLegLocks
<1>3. accounts' = Applied(accounts, <<leg>>)
  BY DEF leg
<1> QED BY <1>1, <1>2, <1>3 DEF Locks, LegLocks, OnlyMoves

(* A lock and an unlock do. *)
LEMMA LockMoves ==
  ASSUME accounts \in [Wallets -> Account], OrdersTyped, NEW o \in Placed, NEW n \in Int
  PROVE  /\ accounts' = AfterAll(Lock(Order(o).user, LockedAsset(o), n)) => OnlyMoves(o, n)
         /\ accounts' = AfterAll(Unlock(Order(o).user, LockedAsset(o), n)) => OnlyMoves(o, -n)
<1> DEFINE u == Order(o).user
           a == LockedAsset(o)
<1>1. /\ Lock(u, a, n).legs = <<Leg(u, a, -n, n, n)>>
      /\ Unlock(u, a, n).legs = <<Leg(u, a, n, -n, n)>>
  BY DEF Lock, Unlock, Operation
<1>2. /\ AfterAll(Lock(u, a, n)) = Applied(accounts, <<Leg(u, a, -n, n, n)>>)
      /\ AfterAll(Unlock(u, a, n)) = Applied(accounts, <<Leg(u, a, n, -n, n)>>)
  BY <1>1, AppliedAll
<1>3. -n \in Int
  OBVIOUS
<1> QED BY <1>2, <1>3, OneLegMoves

(* unlockBalance gives back what it is asked for, when that is positive. *)
LEMMA UnlockPosted ==
  ASSUME accounts \in [Wallets -> Account], OrdersTyped, NEW o \in Placed, NEW n \in Int,
         WalletPost(UnlockBalance(o, n))
  PROVE  OnlyMoves(o, IF n > 0 THEN -n ELSE 0)
<1>1. CASE n <= 0
  <2>1. accounts' = accounts
    BY <1>1 DEF WalletPost, UnlockBalance
  <2>2. \A w \in Wallets : accounts[w].locked \in Int
    BY DEF Account
  <2> QED BY <1>1, <2>1, <2>2 DEF OnlyMoves
<1>2. CASE n > 0
  <2>1. UnlockBalance(o, n) = {Unlock(Order(o).user, LockedAsset(o), n)}
    BY <1>2 DEF UnlockBalance
  <2>2. accounts' = AfterAll(Unlock(Order(o).user, LockedAsset(o), n))
    BY <2>1 DEF WalletPost
  <2> QED BY <1>2, <2>2, LockMoves
<1> QED BY <1>1, <1>2

(* A settlement takes from each side what the trade costs it. *)
LEMMA SettlePosted ==
  ASSUME TradingInv, TradesOK, NEW o \in Ids, place[o].at = "settle", WalletPost(Wanted(o)),
         NEW t, t = Head(place[o].fills)
  PROVE  /\ WalletOf(o) # WalletOf(t.maker)
         /\ BothMove(o, -FillWorth(Sides(o), TakerFeeBps, t),
                     t.maker, -FillWorth(Sides(t.maker), MakerFeeBps, t))
         /\ FillWorth(Sides(o), TakerFeeBps, t) \in Nat
         /\ FillWorth(Sides(t.maker), MakerFeeBps, t) \in Nat
         /\ o \in Placed /\ t.maker \in Placed
<1>0. SettledInv /\ OrdersTyped /\ accounts \in [Wallets -> Account]
  BY DEF TradingInv, MoneyInv, FeesPaid, SettledInv, Typed
<1>1. /\ t \in Fill /\ t.taker = o /\ t.maker # o /\ t.price \in Nat /\ t.quantity \in Nat
      /\ t.maker \in Placed /\ t.taker \in Placed /\ t \in traded
  <2>1. /\ t \in Fill /\ t \in traded /\ t.price \in Nat /\ t.quantity \in Nat /\ t.taker = o
        /\ t.maker # o /\ t.maker \in Placed
    BY <1>0, FirstFill DEF AtFill
  <2> QED BY <1>0, <2>1 DEF SettledInv, EngineOK
<1>2. /\ Sides(t.maker) \in {"Buy", "Sell"} /\ Sides(o) \in {"Buy", "Sell"}
      /\ Sides(t.maker) # Sides(o)
  BY <1>0, <1>1, OrderFound DEF TradesOK
<1>3. /\ FillWorth(Sides(o), TakerFeeBps, t) \in Nat
      /\ FillWorth(Sides(t.maker), MakerFeeBps, t) \in Nat
  BY <1>1, FillWorthType DEF TakerFeeBps, MakerFeeBps
<1> DEFINE seller == IF Sides(t.maker) = "Sell" THEN t.maker ELSE t.taker
           buyer  == IF seller = t.maker THEN t.taker ELSE t.maker
           fees == <<FeeOf(t, seller), FeeOf(t, buyer)>>
           price == t.price * Scale
           op == SettleTrade(Order(seller).user, Order(buyer).user, Order(t.maker).user,
                             Order(t.taker).user, Pair, price, t.quantity, fees)
<1>4. Settlement(t) = op
  BY DEF Settlement
<1>5. \/ seller = t.maker /\ buyer = o /\ Sides(o) = "Buy" /\ Sides(t.maker) = "Sell"
      \/ seller = o /\ buyer = t.maker /\ Sides(o) = "Sell" /\ Sides(t.maker) = "Buy"
  BY <1>1, <1>2
<1> HIDE DEF seller, buyer
<1>6. Order(seller).user \in Users /\ Order(buyer).user \in Users
  BY <1>0, <1>1, <1>5, OrderFound
<1>7. \A x : FeeOf(t, x) \in Int
  BY <1>1, FeesType
<1>8. fees[1] \in Int /\ fees[2] \in Int /\ fees[2] = FeeOf(t, buyer)
  BY <1>7
<1>9. price \in Int /\ t.quantity \in Int
  BY <1>1 DEF Scale
<1>10. price * t.quantity + FeeOf(t, buyer)
         = IF buyer = o THEN FillWorth("Buy", TakerFeeBps, t)
           ELSE FillWorth("Buy", MakerFeeBps, t)
  <2> DEFINE p == t.price
             n == t.quantity
  <2>1. p \in Nat /\ n \in Nat
    BY <1>1
  <2>2. /\ p * 10000 * n + p * n * 4 = p * n * (10000 + 4)
        /\ p * 10000 * n + p * n * 2 = p * n * (10000 + 2)
    BY <2>1
  <2> QED BY <1>1, <1>5, <2>2 DEF FeeOf, FillWorth, Scale, TakerFeeBps, MakerFeeBps
<1>p. price * t.quantity \in Int
  BY <1>9
<1> HIDE DEF fees, price
<1>11. accounts' = Applied(accounts, op.legs)
  <2>1. Wanted(o) = {Settlement(t)}
    BY DEF Wanted
  <2>2. accounts' = AfterAll(Settlement(t))
    BY <2>1 DEF WalletPost
  <2> QED BY <1>4, <2>2, AppliedAll
<1>12. \A w \in Wallets :
         Locks(op.legs, w, IF w = <<Order(seller).user, Pair[1]>> THEN -t.quantity
                           ELSE IF w = <<Order(buyer).user, Pair[2]>>
                           THEN -(price * t.quantity + fees[2]) ELSE 0)
  <2> TAKE w \in Wallets
  <2> DEFINE s == Order(seller).user
             b == Order(buyer).user
             m == Order(t.maker).user
             k == Order(t.taker).user
             q == t.quantity
  <2>1. s \in Users /\ b \in Users /\ q \in Int
    BY <1>6, <1>9
  <2> HIDE DEF s, b, m, k, q
  <2>2. Locks(SettleTrade(s, b, m, k, Pair, price, q, fees).legs, w,
               IF w = <<s, Pair[1]>> THEN -q
               ELSE IF w = <<b, Pair[2]>> THEN -(price * q + fees[2]) ELSE 0)
    BY <1>8, <1>9, <2>1, PairFound, SettlementLocks
  <2> QED BY <2>2 DEF s, b, m, k, q
<1> HIDE DEF op
<1>13. /\ WalletOf(seller) = <<Order(seller).user, Pair[1]>>
       /\ WalletOf(buyer) = <<Order(buyer).user, Pair[2]>>
       /\ WalletOf(seller) # WalletOf(buyer)
  BY <1>5, PairFound DEF WalletOf, LockedAsset
<1> DEFINE c == price * t.quantity + fees[2]
<1>14. \A w \in Wallets :
         accounts'[w].locked = accounts[w].locked
           + IF w = WalletOf(seller) THEN -t.quantity
             ELSE IF w = WalletOf(buyer) THEN -c ELSE 0
  BY <1>0, <1>11, <1>12, <1>13 DEF Locks
<1>15. c = IF buyer = o THEN FillWorth("Buy", TakerFeeBps, t)
           ELSE FillWorth("Buy", MakerFeeBps, t)
  BY <1>8, <1>10
<1>16. \A bps : FillWorth("Sell", bps, t) = t.quantity
  BY DEF FillWorth
<1> HIDE DEF c
<1>17. CASE seller = t.maker /\ buyer = o /\ Sides(o) = "Buy" /\ Sides(t.maker) = "Sell"
  BY <1>1, <1>3, <1>13, <1>14, <1>15, <1>16, <1>17 DEF BothMove
<1>18. CASE seller = o /\ buyer = t.maker /\ Sides(o) = "Sell" /\ Sides(t.maker) = "Buy"
  BY <1>1, <1>3, <1>13, <1>14, <1>15, <1>16, <1>18 DEF BothMove
<1>19. WalletOf(o) # WalletOf(t.maker)
  BY <1>5, <1>13
<1> QED BY <1>1, <1>3, <1>5, <1>17, <1>18, <1>19

(* What orders need are numbers, now and after a step. *)
LEMMA NeedsAreInt == TradingInv => \A o \in Placed : Needs(o) \in Int
BY NeedsType

LEMMA NeedsAreIntNext == (TradingInv => \A o \in Placed : Needs(o) \in Int)'
BY NeedsAreInt, PTL

(* The wallet gets what more is needed of it, for r alone. *)
Gains(u, a, r) ==
  /\ \A x \in OrdersOf(u, a) : x # r => Needs(x)' = Needs(x)
  /\ r \in OrdersOf(u, a) =>
       accounts'[<<u, a>>].locked - accounts[<<u, a>>].locked = Needs(r)' - Needs(r)
  /\ r \notin OrdersOf(u, a) => accounts'[<<u, a>>].locked = accounts[<<u, a>>].locked

(* Orders of a wallet, as numbers to sum up, before and after a step.      *)
LEMMA TermsFound ==
  ASSUME TradingInv, TradingInv', UNCHANGED asked, NEW u \in Users, NEW a \in Assets
  PROVE  /\ OrdersOf(u, a)' = OrdersOf(u, a)
         /\ OrdersOf(u, a) \subseteq Ids /\ IsFiniteSet(OrdersOf(u, a))
         /\ \A x \in OrdersOf(u, a) : /\ Needs(x) \in Int /\ Needs(x)' \in Int
                                      /\ Unbounded(x)' = Unbounded(x)
         /\ accounts[<<u, a>>].locked \in Int /\ accounts'[<<u, a>>].locked \in Int
         /\ Opening[<<u, a>>].locked \in Int
<1> DEFINE S == OrdersOf(u, a)
<1>1. OrdersOf(u, a)' = S /\ Placed' = Placed /\ \A x : Unbounded(x)' = Unbounded(x)
  BY DEF OrdersOf, Placed, Order, LockedAsset, Sides, Unbounded
<1>2. OrdersTyped /\ accounts \in [Wallets -> Account] /\ accounts' \in [Wallets -> Account]
  BY DEF TradingInv, MoneyInv, FeesPaid, SettledInv, Typed
<1>3. S \subseteq Ids /\ S \subseteq Placed /\ IsFiniteSet(S)
  <2>1. S \subseteq Ids /\ S \subseteq Placed
    BY <1>2, OrderFound DEF OrdersOf
  <2>2. IsFiniteSet(Ids)
    BY FS_Interval, BoundsAssumption DEF Ids
  <2> QED BY <2>1, <2>2, FS_Subset
<1>4. \A x \in S : Needs(x) \in Int /\ Needs(x)' \in Int
  BY <1>1, <1>3, NeedsAreInt, NeedsAreIntNext
<1>5. /\ accounts[<<u, a>>].locked \in Int /\ accounts'[<<u, a>>].locked \in Int
      /\ Opening[<<u, a>>].locked \in Int
  BY <1>2, LocksAreInt DEF Wallets, Account
<1> QED BY <1>1, <1>3, <1>4, <1>5

(* The locks provide for the orders after a step if those of each wallet,  *)
(* but for one order, need what they did, and that one's needs are met.    *)
LEMMA ProvidedMoves ==
  ASSUME TradingInv, TradingInv', Provided, UNCHANGED asked, restarted => restarted',
         \A x \in Clean' : x \in Clean,
         \A u \in Users : \A a \in Assets :
           (\A x \in OrdersOf(u, a) : x \in Clean' /\ ~Unbounded(x)) => \E r : Gains(u, a, r)
  PROVE  Provided'
<1> SUFFICES ASSUME NEW u \in Users, NEW a \in Assets, Followed(u, a)'
             PROVE  /\ LockedSince(u, a)' >= SumOf([o \in Ids |-> Needs(o)'], OrdersOf(u, a)')
                    /\ ~restarted' => LockedSince(u, a)'
                                        = SumOf([o \in Ids |-> Needs(o)'], OrdersOf(u, a)')
  BY DEF Provided
<1> DEFINE S == OrdersOf(u, a)
           f == [o \in Ids |-> Needs(o)]
           h == [o \in Ids |-> Needs(o)']
           n == LockedSince(u, a)
           k == LockedSince(u, a)'
           b == accounts[<<u, a>>].locked
           c == accounts'[<<u, a>>].locked
           z == Opening[<<u, a>>].locked
<1>1. /\ OrdersOf(u, a)' = S /\ S \subseteq Ids /\ IsFiniteSet(S)
      /\ \A x \in S : /\ Needs(x) \in Int /\ Needs(x)' \in Int
                      /\ Unbounded(x)' = Unbounded(x)
      /\ b \in Int /\ c \in Int /\ z \in Int
  BY TermsFound
<1>2. n = b - z /\ k = c - z
  BY DEF LockedSince
<1>3. \A x \in S : x \in Clean' /\ x \in Clean /\ ~Unbounded(x)
  BY <1>1 DEF Followed
<1>4. PICK r : Gains(u, a, r)
  BY <1>3
<1>5. n >= SumOf(f, S) /\ (~restarted => n = SumOf(f, S))
  BY <1>3 DEF Provided, Followed
<1>6. \A x \in S : f[x] = Needs(x) /\ h[x] = Needs(x)'
  BY <1>1
<1>7. \A x \in S : f[x] \in Int /\ h[x] \in Int /\ (x # r => h[x] = f[x])
  BY <1>1, <1>4, <1>6 DEF Gains
<1>8. /\ r \in S => c - b = h[r] - f[r]
      /\ r \notin S => c = b
  BY <1>4, <1>6 DEF Gains
<1>h. OrdersOf(u, a)' = S /\ h = [o \in Ids |-> Needs(o)'] /\ k = LockedSince(u, a)'
  BY <1>1
<1> HIDE DEF S, f, h, b, c, n, k, z
<1>9. /\ SumOf(f, S) \in Int /\ SumOf(h, S) \in Int
      /\ r \in S => SumOf(h, S) = SumOf(f, S) + (h[r] - f[r])
      /\ r \notin S => SumOf(h, S) = SumOf(f, S)
  <2>1. IsFiniteSet(S)
    BY <1>1
  <2> QED BY ONLY <2>1, <1>7, SumMoves
<1>10. r \in S => f[r] \in Int /\ h[r] \in Int
  BY <1>7
<1>11. k - n = SumOf(h, S) - SumOf(f, S) /\ k \in Int /\ n \in Int
  BY <1>1, <1>2, <1>8, <1>9, <1>10
<1>12. k >= SumOf(h, S) /\ (~restarted => k = SumOf(h, S))
  BY <1>5, <1>9, <1>11
<1> QED BY <1>h, <1>12

(* A restart may leave the locks more than the list then says.             *)
LEMMA ProvidedEased ==
  ASSUME TradingInv, TradingInv', Provided, UNCHANGED <<asked, accounts>>, restarted',
         \A x \in Clean' : x \in Clean /\ (~Unbounded(x) => Needs(x)' <= Needs(x))
  PROVE  Provided'
<1> SUFFICES ASSUME NEW u \in Users, NEW a \in Assets, Followed(u, a)'
             PROVE  LockedSince(u, a)' >= SumOf([o \in Ids |-> Needs(o)'], OrdersOf(u, a)')
  BY DEF Provided
<1> DEFINE S == OrdersOf(u, a)
           f == [o \in Ids |-> Needs(o)]
           h == [o \in Ids |-> Needs(o)']
           n == LockedSince(u, a)
<1>1. /\ OrdersOf(u, a)' = S /\ S \subseteq Ids /\ IsFiniteSet(S)
      /\ \A x \in S : /\ Needs(x) \in Int /\ Needs(x)' \in Int
                      /\ Unbounded(x)' = Unbounded(x)
      /\ accounts[<<u, a>>].locked \in Int /\ Opening[<<u, a>>].locked \in Int
  BY TermsFound
<1>2. n \in Int /\ LockedSince(u, a)' = n
  BY <1>1 DEF LockedSince
<1>3. \A x \in S : x \in Clean' /\ x \in Clean /\ ~Unbounded(x)
  BY <1>1 DEF Followed
<1>4. n >= SumOf(f, S)
  BY <1>3 DEF Provided, Followed
<1>5. \A x \in S : f[x] \in Int /\ h[x] \in Int /\ h[x] <= f[x]
  BY <1>1, <1>3
<1>h. OrdersOf(u, a)' = S /\ h = [o \in Ids |-> Needs(o)']
  BY <1>1
<1> HIDE DEF S, f, h, n
<1>6. SumOf(h, S) \in Int /\ SumOf(f, S) \in Int /\ SumOf(h, S) <= SumOf(f, S)
  BY <1>1, <1>5, SumGrows
<1>7. n >= SumOf(h, S)
  BY <1>2, <1>4, <1>6
<1> QED BY <1>2, <1>h, <1>7

(* A step that moves nothing. *)
LEMMA ProvidedStill ==
  ASSUME TradingInv, TradingInv', Provided, UNCHANGED <<asked, accounts>>,
         restarted => restarted', \A x \in Clean' : x \in Clean /\ Needs(x)' = Needs(x)
  PROVE  Provided'
<1>1. ASSUME NEW u \in Users, NEW a \in Assets,
             \A x \in OrdersOf(u, a) : x \in Clean' /\ ~Unbounded(x)
      PROVE  \E r : Gains(u, a, r)
  <2>1. \A x \in OrdersOf(u, a) : Needs(x)' = Needs(x)
    BY <1>1
  <2>2. 0 \notin OrdersOf(u, a)
    BY OrderFound DEF OrdersOf, TradingInv, MoneyInv, SettledInv, Typed, Ids
  <2>3. Gains(u, a, 0)
    BY <2>1, <2>2 DEF Gains
  <2> QED BY <2>3
<1> QED BY <1>1, ProvidedMoves

(* A step that locks or releases for the user of one order. *)
LEMMA ProvidedOne ==
  ASSUME TradingInv, TradingInv', Provided, UNCHANGED asked, restarted => restarted',
         NEW r \in Placed, NEW d \in Int, OnlyMoves(r, d),
         \A x \in Clean' : x \in Clean /\ (x # r => Needs(x)' = Needs(x)),
         r \in Clean' /\ ~Unbounded(r) => Needs(r)' - Needs(r) = d
  PROVE  Provided'
<1>0. OrdersTyped
  BY DEF TradingInv, MoneyInv, SettledInv, Typed
<1>1. ASSUME NEW u \in Users, NEW a \in Assets,
             \A x \in OrdersOf(u, a) : x \in Clean' /\ ~Unbounded(x)
      PROVE  \E x : Gains(u, a, x)
  <2>1. accounts[<<u, a>>].locked \in Int /\ <<u, a>> \in Wallets
    BY DEF TradingInv, MoneyInv, FeesPaid, Wallets, Account
  <2>2. r \in OrdersOf(u, a) <=> WalletOf(r) = <<u, a>>
    BY <1>0, WalletFound
  <2>3. r \in OrdersOf(u, a) =>
          accounts'[<<u, a>>].locked - accounts[<<u, a>>].locked = Needs(r)' - Needs(r)
    <3> SUFFICES ASSUME r \in OrdersOf(u, a)
                 PROVE  accounts'[<<u, a>>].locked - accounts[<<u, a>>].locked
                          = Needs(r)' - Needs(r)
      OBVIOUS
    <3>1. accounts'[<<u, a>>].locked = accounts[<<u, a>>].locked + d
      BY <2>1, <2>2 DEF OnlyMoves
    <3>2. Needs(r)' - Needs(r) = d
      BY <1>1
    <3>3. accounts'[<<u, a>>].locked - accounts[<<u, a>>].locked = d
      BY <2>1, <3>1
    <3> QED BY <3>2, <3>3
  <2>4. r \notin OrdersOf(u, a) => accounts'[<<u, a>>].locked = accounts[<<u, a>>].locked
    BY <2>1, <2>2 DEF OnlyMoves
  <2>5. Gains(u, a, r)
    BY <1>1, <2>3, <2>4 DEF Gains
  <2> QED BY <2>5
<1> QED BY <1>1, ProvidedMoves

(* A settlement. *)
LEMMA ProvidedBoth ==
  ASSUME TradingInv, TradingInv', Provided, UNCHANGED asked, restarted => restarted',
         NEW r \in Placed, NEW d \in Int,
         NEW m \in Placed, NEW e \in Int, WalletOf(r) # WalletOf(m), BothMove(r, d, m, e),
         \A x \in Clean' : x \in Clean /\ (x \notin {r, m} => Needs(x)' = Needs(x)),
         r \in Clean' => Needs(r)' - Needs(r) = d,
         m \in Clean' => Needs(m)' - Needs(m) = e
  PROVE  Provided'
<1>0. OrdersTyped
  BY DEF TradingInv, MoneyInv, SettledInv, Typed
<1>1. ASSUME NEW u \in Users, NEW a \in Assets,
             \A x \in OrdersOf(u, a) : x \in Clean' /\ ~Unbounded(x)
      PROVE  \E x : Gains(u, a, x)
  <2>1. accounts[<<u, a>>].locked \in Int /\ <<u, a>> \in Wallets
    BY DEF TradingInv, MoneyInv, FeesPaid, Wallets, Account
  <2>2. /\ r \in OrdersOf(u, a) <=> WalletOf(r) = <<u, a>>
        /\ m \in OrdersOf(u, a) <=> WalletOf(m) = <<u, a>>
    BY <1>0, WalletFound
  <2>3. accounts'[<<u, a>>].locked = accounts[<<u, a>>].locked
          + IF r \in OrdersOf(u, a) THEN d ELSE IF m \in OrdersOf(u, a) THEN e ELSE 0
    BY <2>1, <2>2 DEF BothMove
  <2>4. CASE r \in OrdersOf(u, a)
    <3>1. m \notin OrdersOf(u, a) /\ Needs(r)' - Needs(r) = d
      BY <1>1, <2>2, <2>4
    <3>2. accounts'[<<u, a>>].locked - accounts[<<u, a>>].locked = d
      BY <2>1, <2>3, <2>4
    <3>3. Gains(u, a, r)
      BY <1>1, <2>4, <3>1, <3>2 DEF Gains
    <3> QED BY <3>3
  <2>5. CASE m \in OrdersOf(u, a)
    <3>1. r \notin OrdersOf(u, a) /\ Needs(m)' - Needs(m) = e
      BY <1>1, <2>2, <2>5
    <3>2. accounts'[<<u, a>>].locked - accounts[<<u, a>>].locked = e
      BY <2>1, <2>3, <2>5, <3>1
    <3>3. Gains(u, a, m)
      BY <1>1, <2>5, <3>1, <3>2 DEF Gains
    <3> QED BY <3>3
  <2>6. CASE r \notin OrdersOf(u, a) /\ m \notin OrdersOf(u, a)
    <3>1. accounts'[<<u, a>>].locked = accounts[<<u, a>>].locked
      BY <2>1, <2>3, <2>6
    <3>2. Gains(u, a, r)
      BY <1>1, <2>6, <3>1 DEF Gains
    <3> QED BY <3>2
  <2> QED BY <2>4, <2>5, <2>6
<1> QED BY <1>1, ProvidedMoves

-----------------------------------------------------------------------------
(* The list, the trades and who settles them *)

(* A splice leaves each order of the list there at most once, and takes    *)
(* the one that it is for.                                                 *)
LEMMA SplicedOnce ==
  ASSUME list \in Seq(Ids), ListOnce, NEW o
  PROVE  /\ \A i, j \in DOMAIN Spliced(o) : Spliced(o)[i] = Spliced(o)[j] => i = j
         /\ o \notin Range(Spliced(o))
<1> DEFINE n == Len(list)
<1>1. n \in Nat /\ DOMAIN list = 1..n /\ list \in [1..n -> Ids]
  BY LenProperties
<1>2. CASE o \in Range(list)
  <2> DEFINE k == CHOOSE i \in DOMAIN list : list[i] = o
             s == SubSeq(list, 1, k - 1)
             t == SubSeq(list, k + 1, n)
  <2>1. k \in 1..n /\ list[k] = o
    BY <1>1, <1>2 DEF Range
  <2>2. Spliced(o) = s \o t
    BY <1>2 DEF Spliced, RemoveAt
  <2> HIDE DEF k
  <2>3. /\ \A i \in 1..k - 1 : list[i] \in Ids
        /\ \A i \in k + 1..n : list[i] \in Ids
        /\ k \in Int /\ k - 1 \in Int /\ k + 1 \in Int /\ n \in Int
    BY <1>1, <2>1
  <2>4. ASSUME NEW m \in Int, NEW l \in Int, \A i \in m..l : list[i] \in Ids
        PROVE  /\ SubSeq(list, m, l) \in Seq(Ids)
               /\ Len(SubSeq(list, m, l)) = IF m <= l THEN l - m + 1 ELSE 0
               /\ \A i \in 1..l - m + 1 : SubSeq(list, m, l)[i] = list[m + i - 1]
    BY ONLY <2>4, SubSeqProperties
  <2>5. /\ s \in Seq(Ids) /\ Len(s) = IF 1 <= k - 1 THEN k - 1 - 1 + 1 ELSE 0
        /\ \A i \in 1..k - 1 - 1 + 1 : s[i] = list[1 + i - 1]
    BY ONLY <2>3, <2>4
  <2>6. /\ t \in Seq(Ids) /\ Len(t) = IF k + 1 <= n THEN n - (k + 1) + 1 ELSE 0
        /\ \A i \in 1..n - (k + 1) + 1 : t[i] = list[k + 1 + i - 1]
    BY ONLY <2>3, <2>4
  <2> HIDE DEF s, t
  <2>6a. /\ Len(s) = k - 1 /\ Len(t) = n - k
    <3>1. Len(list) \in Nat /\ k \in 1..Len(list)
      BY ONLY <1>1, <2>1
    <3>2. Len(s) = IF 1 <= k - 1 THEN k - 1 - 1 + 1 ELSE 0
      BY ONLY <2>5
    <3>3. Len(t) = IF k + 1 <= n THEN n - (k + 1) + 1 ELSE 0
      BY ONLY <2>6
    <3>4. Len(s) = k - 1
      BY ONLY <3>1, <3>2
    <3>5. Len(t) = n - k
      BY ONLY <3>1, <3>3
    <3> QED BY ONLY <3>4, <3>5
  <2>6b. \A i \in 1..k - 1 : s[i] = list[i]
    BY ONLY <1>1, <2>1, <2>3, <2>5
  <2>6c. \A i \in 1..n - k : t[i] = list[k + i]
    <3> TAKE i \in 1..n - k
    <3>1. i \in 1..n - (k + 1) + 1 /\ k + 1 + i - 1 = k + i
      BY ONLY <1>1, <2>1, <2>3, i \in 1..n - k
    <3> QED BY ONLY <3>1, <2>6
  <2>7. /\ s \o t \in Seq(Ids) /\ Len(s \o t) = Len(s) + Len(t)
        /\ \A i \in 1..Len(s) + Len(t) :
             (s \o t)[i] = IF i <= Len(s) THEN s[i] ELSE t[i - Len(s)]
    BY ONLY <2>5, <2>6, ConcatProperties
  <2>8. DOMAIN (s \o t) = 1..n - 1
    <3>1. Len(s \o t) = n - 1 /\ n - 1 \in Nat
      BY ONLY <1>1, <2>1, <2>3, <2>6a, <2>7
    <3>2. DOMAIN (s \o t) = 1..Len(s \o t)
      BY ONLY <2>7, LenProperties
    <3> QED BY ONLY <3>1, <3>2
  <2> DEFINE e(i) == IF i <= k - 1 THEN i ELSE i + 1
  <2>9. \A i \in 1..n - 1 : (s \o t)[i] = list[e(i)] /\ e(i) \in 1..n /\ e(i) # k
    <3> TAKE i \in 1..n - 1
    <3>1. CASE i <= k - 1
      BY <1>1, <2>1, <2>6a, <2>6b, <2>7, <3>1
    <3>2. CASE ~(i <= k - 1)
      <4>1. i - (k - 1) \in 1..n - k /\ k + (i - (k - 1)) = i + 1 /\ i \in 1..k - 1 + (n - k)
        BY <1>1, <2>1, <3>2
      <4>2. (s \o t)[i] = t[i - (k - 1)]
        BY <2>6a, <2>7, <3>2, <4>1
      <4> QED BY <1>1, <2>1, <2>6c, <3>2, <4>1, <4>2
    <3> QED BY <3>1, <3>2
  <2>10. \A i, j \in 1..n - 1 : e(i) = e(j) => i = j
    BY <1>1, <2>1
  <2> HIDE DEF e
  <2>11. \A i, j \in 1..n : list[i] = list[j] => i = j
    BY <1>1 DEF ListOnce
  <2>12. \A i, j \in 1..n - 1 : (s \o t)[i] = (s \o t)[j] => i = j
    BY <2>9, <2>10, <2>11
  <2>13. \A i \in 1..n - 1 : (s \o t)[i] # o
    BY <2>1, <2>9, <2>11
  <2> QED BY <2>2, <2>8, <2>12, <2>13 DEF Range
<1>3. CASE o \notin Range(list) /\ list = << >>
  BY <1>1, <1>3 DEF Spliced, Range
<1>4. CASE o \notin Range(list) /\ list # << >>
  <2>1. Spliced(o) = SubSeq(list, 1, n - 1)
    BY <1>4 DEF Spliced, Front
  <2>2. /\ Len(SubSeq(list, 1, n - 1)) = n - 1
        /\ \A i \in 1..n - 1 : SubSeq(list, 1, n - 1)[i] = list[i]
        /\ DOMAIN SubSeq(list, 1, n - 1) = 1..n - 1
    <3>1. n > 0
      BY <1>1, <1>4, EmptySeq
    <3> QED BY <1>1, <3>1
  <2> QED BY <1>1, <1>4, <2>1, <2>2 DEF ListOnce, Range
<1> QED BY <1>2, <1>3, <1>4

(* An order is in the list once after it joined it. *)
LEMMA AppendedOnce ==
  ASSUME list \in Seq(Ids), ListOnce, NEW o \in Ids, o \notin Range(list)
  PROVE  /\ \A i, j \in DOMAIN Append(list, o) : Append(list, o)[i] = Append(list, o)[j] => i = j
         /\ Range(Append(list, o)) = Range(list) \cup {o}
<1> DEFINE n == Len(list)
           a == Append(list, o)
<1>1. n \in Nat /\ DOMAIN list = 1..n
  BY LenProperties
<1>2. /\ Len(a) = n + 1 /\ a[n + 1] = o /\ \A i \in 1..n : a[i] = list[i]
      /\ DOMAIN a = 1..n + 1
  BY <1>1, AppendProperties, LenProperties
<1> HIDE DEF a
<1>3. \A i \in 1..n : list[i] # o
  BY <1>1 DEF Range
<1>4. \A i, j \in 1..n + 1 : a[i] = a[j] => i = j
  BY <1>1, <1>2, <1>3 DEF ListOnce
<1>5. Range(a) = Range(list) \cup {o}
  BY <1>1, <1>2 DEF Range
<1> QED BY <1>2, <1>4, <1>5 DEF a

(* Trades are what they were. *)
LEMMA TradesStay ==
  ASSUME SettledInv, TradesOK, traded' = traded, \A q \in Placed : asked'[q] = asked[q]
  PROVE  TradesOK'
<1>1. \A t \in traded : t.maker \in Placed /\ t.taker \in Placed
  BY DEF SettledInv, EngineOK
<1> QED BY <1>1 DEF TradesOK, Sides, Order

(* The request goes on to settle what it has to, or its failure is noted. *)
GoesOn(o) ==
  \/ place[o].at \notin Working
  \/ place[o].at = "answer" /\ place[o].status = "Refused"
  \/ Lost(o)' /\ place'[o].fills = place[o].fills
  \/ \A t \in Range(place[o].fills) :
       t \in settled' \/ (place'[o].at \in AtFill /\ t \in Range(place'[o].fills))

(* A trade that is not settled stays with the request of its taker while   *)
(* each request stays, or goes on, or fails.                               *)
LEMMA PendingStays ==
  ASSUME TradingInv, PendingHeld, Notes, traded' = traded, settled \subseteq settled',
         \A q \in Ids : place'[q] = place[q] \/ GoesOn(q)
  PROVE  PendingHeld'
<1> SUFFICES ASSUME NEW t \in traded, t \notin settled'
             PROVE  t.maker \in disturbed' \/ Pending(t)'
  BY DEF PendingHeld
<1>1. t.maker \in disturbed \/ Pending(t)
  BY DEF PendingHeld
<1>2. disturbed \subseteq disturbed' /\ Cut' \subseteq disturbed'
  BY DEF Notes
<1>3. t.taker \in Ids
  BY DEF TradingInv, MoneyInv, SettledInv, Typed, EngineTyped, Fill
<1>4. CASE place'[t.taker] = place[t.taker]
  BY <1>1, <1>2, <1>4 DEF Pending
<1>5. CASE Pending(t) /\ GoesOn(t.taker)
  <2>1. CASE Lost(t.taker)' /\ place'[t.taker].fills = place[t.taker].fills
    <3>1. t \in Range(place'[t.taker].fills)
      BY <1>5, <2>1 DEF Pending
    <3>2. t.maker \in Cut'
      BY <1>3, <2>1, <3>1, CutSaysNext DEF CutHas
    <3> QED BY <1>2, <3>2
  <2>2. CASE /\ place'[t.taker].at \in AtFill
             /\ t \in Range(place'[t.taker].fills)
    BY <2>2 DEF Pending, Working, AtFill
  <2> QED BY <1>5, <2>1, <2>2 DEF Pending, GoesOn
<1> QED BY <1>1, <1>2, <1>3, <1>4, <1>5

-----------------------------------------------------------------------------
(* What a step of a placement has to keep *)

Kept ==
  /\ TradesOK' /\ PendingHeld' /\ ListOnce'
  /\ \A x \in Clean' : Served(x)' /\ Listed(x)'
  /\ Provided'

(* What a step of the placement of o leaves of another order. *)
Apart(o, x) ==
  /\ memory'[x] = memory[x] /\ rows'[x] = rows[x]
  /\ x \in Range(list') => x \in Range(list)
  /\ \A t \in settled' : t \in settled \/ (t.maker # x /\ t.taker # x)
  /\ Elsewhere(o, x) /\ Elsewhere(o, x)'

(* A step of one request changes what is said of no orders but those that  *)
(* it touches.                                                             *)
LEMMA TouchedOnly ==
  ASSUME TradingInv, CoverInv, Notes, NEW o \in Ids, NEW T, o \in T,
         UNCHANGED <<asked, engine, cancel>>, \A q \in Ids : q # o => place'[q] = place[q],
         GoesOn(o), settled \subseteq settled', \A x \in Clean' : x \in T \/ Apart(o, x)
  PROVE  /\ TradesOK' /\ PendingHeld'
         /\ \A x \in Clean' : x \in Clean /\ x \in Placed
         /\ \A x \in Clean' : x \in T \/ (Served(x)' /\ Listed(x)' /\ Needs(x)' = Needs(x))
<1>1. SettledInv /\ TradesOK /\ Noted /\ PendingHeld /\ traded' = traded
  BY DEF TradingInv, MoneyInv, CoverInv, engine
<1>2. TradesOK'
  BY <1>1, TradesStay
<1>3. PendingHeld'
  BY <1>1, PendingStays
<1>4. \A x \in Clean' : x \in Placed
  BY DEF Clean, Placed
<1>5. \A x \in Clean' : x \in Clean
  BY <1>1, <1>4, CleanStays
<1>6. ASSUME NEW x \in Clean', x \notin T
      PROVE  Served(x)' /\ Listed(x)' /\ Needs(x)' = Needs(x)
  BY <1>4, <1>6, OthersStay DEF Apart
<1> QED BY <1>2, <1>3, <1>4, <1>5, <1>6

(* It keeps the invariant if it does so for them. *)
LEMMA OneMoves ==
  ASSUME TradingInv, TradingInv', CoverInv, Notes, NEW o \in Ids, NEW T, o \in T,
         UNCHANGED <<asked, engine, cancel>>, \A q \in Ids : q # o => place'[q] = place[q],
         GoesOn(o), settled \subseteq settled', \A x \in Clean' : x \in T \/ Apart(o, x),
         ListOnce', NEW r \in Placed, NEW d \in Int, OnlyMoves(r, d),
         \A x \in Clean' : x \in T => /\ Served(x)' /\ Listed(x)'
                                      /\ x # r => Needs(x)' = Needs(x),
         r \in Clean' /\ ~Unbounded(r) => Needs(r)' - Needs(r) = d
  PROVE  Kept
<1>1. /\ TradesOK' /\ PendingHeld'
      /\ \A x \in Clean' : x \in Clean /\ x \in Placed
      /\ \A x \in Clean' : x \in T \/ (Served(x)' /\ Listed(x)' /\ Needs(x)' = Needs(x))
  BY TouchedOnly
<1>2. \A x \in Placed : Needs(x) \in Int
  BY NeedsAreInt
<1>3. \A x \in Clean' : x \in Clean /\ (x # r => Needs(x)' = Needs(x))
  BY <1>1, <1>2
<1>4. Provided
  BY DEF CoverInv
<1>5. Provided'
  BY <1>3, <1>4, ProvidedOne DEF Notes
<1> QED BY <1>1, <1>5 DEF Kept

(* A step that concerns the order itself. *)
OwnStep(o) ==
  /\ UNCHANGED <<asked, engine, cancel, settled>>
  /\ \A q \in Ids : q # o => /\ place'[q] = place[q] /\ memory'[q] = memory[q]
                             /\ rows'[q] = rows[q] /\ (q \in Range(list') => q \in Range(list))
  /\ place[o].at \notin AtFill \cup {"none"} /\ place'[o].at \notin AtFill \ {"settle"}

(* A step that touches its own order alone keeps it if it does so for that *)
(* order.                                                                  *)
LEMMA OwnMoves ==
  ASSUME TradingInv, TradingInv', CoverInv, Notes, NEW o \in Ids, OwnStep(o), GoesOn(o),
         ListOnce', NEW d \in Int, OnlyMoves(o, d),
         o \in Clean' => /\ Served(o)' /\ Listed(o)'
                         /\ ~Unbounded(o) => Needs(o)' - Needs(o) = d
  PROVE  Kept
<1>1. o \in Placed
  BY DEF OwnStep, TradingInv, MoneyInv, SettledInv, Places, PlaceOK, Held
<1>2. \A x \in Clean' : x \in Ids
  <2>1. \A x \in Placed : x \in Ids
    BY OrderFound DEF TradingInv, MoneyInv, SettledInv, Typed
  <2> QED BY <2>1 DEF OwnStep, Clean, Placed
<1>3. \A x \in Clean' : x \in {o} \/ Apart(o, x)
  BY <1>2 DEF OwnStep, Apart, Elsewhere, Releasing, AtFill
<1>4. /\ UNCHANGED <<asked, engine, cancel>> /\ \A q \in Ids : q # o => place'[q] = place[q]
      /\ settled \subseteq settled' /\ o \in {o}
  BY DEF OwnStep
<1>5. /\ \A x \in Clean' : x \in {o} => /\ Served(x)' /\ Listed(x)'
                                        /\ x # o => Needs(x)' = Needs(x)
      /\ o \in Clean' /\ ~Unbounded(o) => Needs(o)' - Needs(o) = d
  OBVIOUS
<1> QED BY <1>1, <1>3, <1>4, <1>5, OneMoves

(* What does not depend on where a placement is. *)
LEMMA TermsStay ==
  ASSUME UNCHANGED asked, NEW x
  PROVE  /\ Sides(x)' = Sides(x) /\ Order(x)' = Order(x) /\ Lockable(x)' = Lockable(x)
         /\ LockedAsset(x)' = LockedAsset(x)
         /\ EstimateLockAmount(x)' = EstimateLockAmount(x)
         /\ RemainingLock(x, memory[x].filled)' = RemainingLock(x, memory'[x].filled)
<1>1. /\ Sides(x)' = Sides(x) /\ Order(x)' = Order(x) /\ Lockable(x)' = Lockable(x)
      /\ LockedAsset(x)' = LockedAsset(x)
  BY DEF Sides, Order, Lockable, LockedAsset
<1> QED BY <1>1 DEF EstimateLockAmount, RemainingLock, Cost

(* What is executed of an order, and reported of it, stays with the engine. *)
LEMMA ReportStays ==
  ASSUME UNCHANGED <<asked, engine>>, NEW x
  PROVE  /\ left'[x] = left[x] /\ seen' = seen /\ traded' = traded
         /\ Making(x)' = Making(x) /\ FillsReported(x)' = FillsReported(x)
         /\ TradesOf(x)' = TradesOf(x)
         /\ place'[x].status = place[x].status => (Reported(x)' <=> Reported(x))
<1>1. /\ left'[x] = left[x] /\ seen' = seen /\ traded' = traded
      /\ Making(x)' = Making(x) /\ FillsReported(x)' = FillsReported(x)
  BY DEF engine, Making, FillsReported
<1>2. TradesOf(x)' = TradesOf(x) /\ Order(x)' = Order(x)
  BY <1>1 DEF TradesOf, Order
<1> QED BY <1>1, <1>2 DEF Reported

(* Nothing is locked or unlocked when the wallets stay. *)
LEMMA NothingMoves ==
  ASSUME TradingInv, UNCHANGED accounts, NEW o
  PROVE  OnlyMoves(o, 0)
<1>1. \A w \in Wallets : accounts[w].locked \in Int
  BY DEF TradingInv, MoneyInv, FeesPaid, Account
<1> QED BY <1>1 DEF OnlyMoves

(* An order whose placement has begun has been placed. *)
LEMMA AtPlaced ==
  ASSUME TradingInv, NEW o \in Ids, place[o].at # "none"
  PROVE  /\ o \in Placed
         /\ place[o].at # "failed" => Lockable(o)
         /\ LocalTyped /\ memory[o].locked \in Int
  BY DEF TradingInv, MoneyInv, SettledInv, Typed, LocalTyped, StoredOrder, Places, PlaceOK, Held

(* An order that is nobody's maker. *)
LEMMA NoMaker ==
  ASSUME TradingInv, NEW o \in Ids, Making(o) = {}
  PROVE  /\ \A q \in Ids : ~Updates(q, o)
         /\ Worth(Sides(o), MakerFeeBps, Making(o) \cap (settled \ AppliedTrades)) = 0
<1>1. ASSUME NEW q \in Ids, Updates(q, o) PROVE FALSE
  <2>1. place[q].at \in AtFill
    BY <1>1 DEF Updates, Releasing, AtFill
  <2>2. Head(place[q].fills) \in traded /\ Head(place[q].fills).maker = o
    BY <1>1, <2>1, FirstFill DEF Updates, TradingInv, MoneyInv
  <2> QED BY <2>2 DEF Making
<1>2. {} \in SUBSET Fill /\ IsFiniteSet({}) /\ MakerFeeBps \in Nat
  BY FS_EmptySet DEF MakerFeeBps
<1>3. Worth(Sides(o), MakerFeeBps, {}) = 0
  BY <1>2, WorthType
<1> QED BY <1>1, <1>3

(* An order that is being placed has no cancellation, if it is undisturbed. *)
LEMMA PlacingAlone ==
  ASSUME TradingInv, Noted, Notes, NEW o \in Clean', o \in Placed, asked'[o] = asked[o],
         place[o].at \notin {"none", "done", "failed"}
  PROVE  cancel[o].at \in {"none", "done"}
<1>1. o \in Ids /\ Alone(o) /\ cancel[o].at # "failed"
  BY CleanStays
<1>2. Works(o, o)
  BY <1>1 DEF Works, InFlight
<1>3. o \notin Cancelling
  BY <1>1, <1>2 DEF Alone
<1> QED BY <1>1, <1>3, CancelAt

-----------------------------------------------------------------------------
(* Before the fills *)

(* The order's own lock is what it may cost. *)
LEMMA LockBalanceCovers ==
  ASSUME TradingInv, TradingInv', CoverInv, Notes, NEW o \in Ids, LockBalance(o)
  PROVE  Kept
<1> DEFINE d == EstimateLockAmount(o)
<1>1. /\ place[o].at = "lock" /\ UNCHANGED <<asked, rows, list, cancel, engine, settled>>
      /\ memory' = [memory EXCEPT ![o].locked = d] /\ Goto(o, "submit")
      /\ WalletPost(Wanted(o))
  BY DEF LockBalance, database
<1>2. o \in Placed /\ Lockable(o) /\ LocalTyped /\ d \in Int
  <2>1. o \in Placed /\ Lockable(o) /\ LocalTyped /\ OrdersTyped
    BY <1>1, AtPlaced DEF TradingInv, MoneyInv, SettledInv, Typed
  <2>2. 0 \in Int
    OBVIOUS
  <2> QED BY <2>1, <2>2, LockTypes
<1>3. /\ place'[o].at = "submit" /\ place'[o].status = place[o].status
      /\ \A q \in Ids : q # o => place'[q] = place[q]
  BY <1>1, <1>2, GotoSays DEF Stages, Early
<1>4. /\ memory'[o].locked = d /\ \A q \in Ids : q # o => memory'[q] = memory[q]
  BY <1>1, <1>2 DEF LocalTyped, StoredOrder
<1>5. OwnStep(o) /\ GoesOn(o)
  BY <1>1, <1>3, <1>4 DEF OwnStep, GoesOn, Working, AtFill
<1>6. OnlyMoves(o, d)
  <2>1. accounts' = AfterAll(Lock(Order(o).user, LockedAsset(o), d))
    BY <1>1 DEF WalletPost, Wanted
  <2> HIDE DEF d
  <2> QED BY <1>2, <2>1, LockMoves DEF TradingInv, MoneyInv, FeesPaid, SettledInv, Typed
<1>7. ListOnce'
  BY <1>1 DEF CoverInv, ListOnce
<1>8. ASSUME o \in Clean'
      PROVE  Served(o)' /\ Listed(o)' /\ Needs(o)' - Needs(o) = d
  <2>1. o \in Clean /\ Served(o)
    BY <1>1, <1>2, <1>8, CleanStays DEF CoverInv
  <2>2. Making(o)' = {} /\ FillsReported(o)' = FillsReported(o)
    BY <1>1, <2>1 DEF Served, Making, FillsReported, engine
  <2>3. EstimateLockAmount(o)' = d /\ Sides(o)' = Sides(o)
    BY <1>1, TermsStay
  <2>4. Served(o)' /\ Listed(o)'
    BY <1>3, <1>4, <2>2, <2>3 DEF Served, Listed, Working, AtFill
  <2>5. Needs(o) = 0
    BY <1>1 DEF Needs
  <2> DEFINE w == Worth(Sides(o), TakerFeeBps, FillsReported(o) \cap settled)
  <2>6. Needs(o)' = d - w
    BY <1>1, <1>3, <1>4, <2>2, <2>3 DEF Needs, Serving
  <2>7. w = 0
    <3>1. FillsReported(o) \cap settled = {}
      BY <1>1, <2>1 DEF Served, TradingInv, MoneyInv, SettledInv, EngineOK, FillsReported
    <3>2. {} \in SUBSET Fill /\ IsFiniteSet({}) /\ TakerFeeBps \in Nat
      BY FS_EmptySet DEF TakerFeeBps
    <3> QED BY <3>1, <3>2, WorthType
  <2> HIDE DEF d, w
  <2> QED BY <1>2, <2>4, <2>5, <2>6, <2>7
<1> HIDE DEF d
<1> QED BY <1>2, <1>5, <1>6, <1>7, <1>8, OwnMoves

LEMMA RefusedSubmitCovers ==
  ASSUME TradingInv, TradingInv', CoverInv, Notes, NEW o \in Ids, Submit(o),
         place' = [place EXCEPT ![o].at = "answer", ![o].status = "Refused"],
         UNCHANGED engine
  PROVE  Kept
<1>1. /\ place[o].at = "submit"
      /\ UNCHANGED <<asked, rows, memory, list, cancel, engine, settled, accounts>>
  BY DEF Submit, database, local, ledgerVars
<1>2. o \in Placed /\ LocalTyped
  BY <1>1, AtPlaced
<1>3. /\ place'[o].at = "answer" /\ place'[o].status = "Refused"
      /\ \A q \in Ids : q # o => place'[q] = place[q]
  BY <1>2 DEF LocalTyped, Placement
<1>4. OwnStep(o) /\ GoesOn(o)
  BY <1>1, <1>3 DEF OwnStep, GoesOn, Working, AtFill
<1>5. OnlyMoves(o, 0) /\ ListOnce'
  BY <1>1, NothingMoves DEF CoverInv, ListOnce
<1>6. ASSUME o \in Clean'
      PROVE  Served(o)' /\ Listed(o)' /\ Needs(o)' - Needs(o) = 0
  <2>1. o \in Clean /\ Served(o) /\ o \notin Range(seen)
    BY <1>1, <1>2, <1>6, CleanStays DEF CoverInv
  <2>2. left[o] = 0 /\ FillsReported(o) = {}
    BY <2>1 DEF TradingInv, MoneyInv, SettledInv, EngineOK, EngineFits, FillsReported
  <2>3. Making(o)' = Making(o) /\ FillsReported(o)' = FillsReported(o) /\ left' = left
    BY <1>1 DEF Making, FillsReported, engine
  <2>4. EstimateLockAmount(o)' = EstimateLockAmount(o) /\ Sides(o)' = Sides(o)
    BY <1>1, TermsStay
  <2>r. Reported(o)'
    BY <1>3 DEF Reported, Open
  <2>5. Served(o)' /\ Listed(o)'
    BY <1>1, <1>3, <2>1, <2>2, <2>3, <2>4, <2>r DEF Served, Listed, Serving, Working, AtFill
  <2>6. Needs(o)' = Needs(o)
    BY <1>1, <1>3, <2>3, <2>4 DEF Needs, Serving, Working
  <2> QED BY <1>2, <2>5, <2>6, NeedsType
<1> QED BY <1>4, <1>5, <1>6, OwnMoves

LEMMA CallFailsCovers ==
  ASSUME TradingInv, TradingInv', CoverInv, Notes, NEW o \in Ids, CallFails(o)
  PROVE  Kept
<1>1. /\ place[o].at \in {"submit", "answer"}
      /\ UNCHANGED <<asked, rows, memory, list, cancel, engine, settled, accounts>>
  BY DEF CallFails, database, local, ledgerVars
<1>2. o \in Placed /\ LocalTyped
  BY <1>1, AtPlaced
<1>3. /\ place'[o].at \in {"submit", "giveUp"} /\ place'[o].status = place[o].status
      /\ place'[o].fills = place[o].fills
      /\ \A q \in Ids : q # o => place'[q] = place[q]
  BY <1>2 DEF CallFails, LocalTyped, Placement
<1>4. OwnStep(o)
  BY <1>1, <1>3 DEF OwnStep, AtFill
<1>5. GoesOn(o)
  <2>1. CASE o \in Range(seen)
    BY <1>1, <1>3, <2>1 DEF GoesOn, Lost, engine
  <2>2. CASE o \notin Range(seen)
    <3>1. place[o].fills = << >>
      BY <2>2 DEF TradingInv, MoneyInv, SettledInv, Places, PlaceOK, Held
    <3> QED BY <3>1 DEF GoesOn, Range
  <2> QED BY <2>1, <2>2
<1>6. OnlyMoves(o, 0) /\ ListOnce'
  BY <1>1, NothingMoves DEF CoverInv, ListOnce
<1>7. ASSUME o \in Clean'
      PROVE  Served(o)' /\ Listed(o)' /\ Needs(o)' - Needs(o) = 0
  <2>1. o \in Clean /\ Served(o)
    BY <1>1, <1>2, <1>7, CleanStays DEF CoverInv
  <2>2. Making(o)' = Making(o) /\ FillsReported(o)' = FillsReported(o) /\ left' = left
    BY <1>1 DEF Making, FillsReported, engine
  <2>3. EstimateLockAmount(o)' = EstimateLockAmount(o) /\ Sides(o)' = Sides(o)
    BY <1>1, TermsStay
  <2>4. Served(o)' /\ Listed(o)'
    BY <1>1, <1>3, <2>1, <2>2, <2>3 DEF Served, Listed, Serving, Working, AtFill
  <2>5. Needs(o)' = Needs(o)
    BY <1>1, <1>3, <2>2, <2>3 DEF Needs, Serving, Working
  <2> QED BY <1>2, <2>4, <2>5, NeedsType
<1> QED BY <1>4, <1>5, <1>6, <1>7, OwnMoves

LEMMA AnsweredCovers ==
  ASSUME TradingInv, TradingInv', CoverInv, Notes, NEW o \in Ids, Answered(o)
  PROVE  Kept
<1> DEFINE to == IF place[o].status = "Refused" THEN "refused"
                 ELSE IF place[o].fills = << >> THEN "write" ELSE "settle"
<1>1. /\ place[o].at = "answer" /\ Goto(o, to)
      /\ UNCHANGED <<asked, rows, memory, list, cancel, engine, settled, accounts>>
  BY DEF Answered, database, local, ledgerVars
<1>2. o \in Placed /\ LocalTyped
  BY <1>1, AtPlaced
<1>3. /\ to \in Stages /\ to \in {"refused", "write", "settle"}
      /\ to = "refused" <=> place[o].status = "Refused"
      /\ to = "write" => place[o].fills = << >>
  BY DEF Stages, Early, AtFill
<1> HIDE DEF to
<1>4. /\ place'[o].at = to /\ place'[o].status = place[o].status
      /\ place'[o].fills = place[o].fills
      /\ \A q \in Ids : q # o => place'[q] = place[q]
  BY <1>1, <1>2, <1>3, GotoSays
<1>5. OwnStep(o)
  BY <1>1, <1>3, <1>4 DEF OwnStep, AtFill
<1>6. GoesOn(o)
  BY <1>1, <1>3, <1>4 DEF GoesOn, AtFill, Range
<1>7. OnlyMoves(o, 0) /\ ListOnce'
  BY <1>1, NothingMoves DEF CoverInv, ListOnce
<1>8. ASSUME o \in Clean'
      PROVE  Served(o)' /\ Listed(o)' /\ Needs(o)' - Needs(o) = 0
  <2>1. o \in Clean /\ Served(o)
    BY <1>1, <1>2, <1>8, CleanStays DEF CoverInv
  <2>2. Making(o)' = Making(o) /\ FillsReported(o)' = FillsReported(o) /\ left' = left
    BY <1>1 DEF Making, FillsReported, engine
  <2>3. EstimateLockAmount(o)' = EstimateLockAmount(o) /\ Sides(o)' = Sides(o)
    BY <1>1, TermsStay
  <2>r. Reported(o)' <=> Reported(o)
    BY <1>1, <1>4, ReportStays
  <2>4. Served(o)' /\ Listed(o)'
    BY <1>1, <1>3, <1>4, <2>1, <2>2, <2>3, <2>r DEF Served, Listed, Serving, Working, AtFill
  <2>5. Needs(o)' = Needs(o)
    BY <1>1, <1>3, <1>4, <2>2, <2>3 DEF Needs, Serving, Working, AtFill
  <2> QED BY <1>2, <2>4, <2>5, NeedsType
<1> QED BY <1>5, <1>6, <1>7, <1>8, OwnMoves

-----------------------------------------------------------------------------
(* Requests that fail *)

(* An order on which a request fails is no longer spoken of. *)
LEMMA FailedParts ==
  ASSUME TradingInv, CoverInv, Notes, NEW o \in Ids, place[o].at # "none",
         Goto(o, "failed"), UNCHANGED <<asked, rows, memory, list, cancel, engine>>,
         \A t \in settled' : t \in settled \/ t \in Range(place[o].fills)
  PROVE  /\ GoesOn(o) /\ ListOnce' /\ \A q \in Ids : q # o => place'[q] = place[q]
         /\ \A x \in Clean' : x # o /\ \A t \in Range(place[o].fills) : t.maker # x
         /\ \A x \in Clean' : Apart(o, x)
<1>1. o \in Placed /\ LocalTyped
  BY AtPlaced
<1>2. /\ place'[o].at = "failed" /\ place'[o].fills = place[o].fills
      /\ \A q \in Ids : q # o => place'[q] = place[q]
  BY <1>1, GotoSays DEF Stages, Later
<1>3. GoesOn(o) /\ ListOnce'
  BY <1>2 DEF GoesOn, Lost, CoverInv, ListOnce
<1>4. ASSUME NEW x \in Clean'
      PROVE  x # o /\ \A t \in Range(place[o].fills) : t.maker # x
  <2>1. x \in Placed /\ asked'[x] = asked[x] /\ Noted
    BY DEF Clean, Placed, CoverInv
  <2>2. \A q \in Ids : Lost(q)' => q # x /\ \A t \in Range(place'[q].fills) : t.maker # x
    BY <2>1, CleanStays
  <2>3. Lost(o)'
    BY <1>2 DEF Lost
  <2> QED BY <1>2, <2>2, <2>3
<1>5. ASSUME NEW x \in Clean'
      PROVE  Apart(o, x)
  <2>1. x # o /\ \A t \in Range(place[o].fills) : t.maker # x
    BY <1>4
  <2>2. \A t \in Range(place[o].fills) : t.taker = o
    BY DEF TradingInv, MoneyInv, SettledInv, Places, PlaceOK, Held, Range
  <2>3. \A t \in settled' : t \in settled \/ (t.maker # x /\ t.taker # x)
    BY <2>1, <2>2
  <2>4. place[o].at \in AtFill => Head(place[o].fills) \in Range(place[o].fills)
    BY FillWorks
  <2>5. Elsewhere(o, x)
    BY <2>1, <2>4 DEF Elsewhere, Releasing, AtFill
  <2>6. Elsewhere(o, x)'
    BY <1>2 DEF Elsewhere, Releasing
  <2> QED BY <2>3, <2>5, <2>6 DEF Apart
<1> QED BY <1>2, <1>3, <1>4, <1>5

(* The request fails, and the wallet has not done anything. *)
LEMMA FailedCovers ==
  ASSUME TradingInv, TradingInv', CoverInv, Notes, NEW o \in Ids, place[o].at # "none",
         Goto(o, "failed"), UNCHANGED <<asked, rows, memory, list, cancel, engine, settled>>,
         NEW r \in Placed, NEW d \in Int, OnlyMoves(r, d),
         r = o \/ \E t \in Range(place[o].fills) : t.maker = r
  PROVE  Kept
<1>1. /\ GoesOn(o) /\ ListOnce' /\ \A q \in Ids : q # o => place'[q] = place[q]
      /\ \A x \in Clean' : x # o /\ \A t \in Range(place[o].fills) : t.maker # x
      /\ \A x \in Clean' : Apart(o, x)
  BY FailedParts
<1>2. r \notin Clean' /\ \A x \in Clean' : x \notin {o}
  BY <1>1
<1>3. o \in {o} /\ settled \subseteq settled' /\ \A x \in Clean' : x \in {o} \/ Apart(o, x)
  BY <1>1
<1> QED BY <1>1, <1>2, <1>3, OneMoves

(* The wallet has done what the placement wanted of it. *)
LEMMA WantedMoves ==
  ASSUME TradingInv, NEW o \in Ids, place[o].at # "settle", WalletPost(Wanted(o)),
         place[o].at \notin {"none", "failed"}
  PROVE  \E r \in Placed : \E d \in Int :
           OnlyMoves(r, d) /\ (r = o \/ \E t \in Range(place[o].fills) : t.maker = r)
<1>1. /\ o \in Placed /\ Lockable(o) /\ memory[o].locked \in Int /\ LocalTyped
      /\ accounts \in [Wallets -> Account] /\ OrdersTyped /\ SettledInv
  BY AtPlaced DEF TradingInv, MoneyInv, SettledInv, Typed, FeesPaid
<1>2. CASE place[o].at = "lock"
  <2>1. EstimateLockAmount(o) \in Int
    <3>1. 0 \in Int
      OBVIOUS
    <3> QED BY <1>1, <3>1, LockTypes
  <2>2. accounts' = AfterAll(Lock(Order(o).user, LockedAsset(o), EstimateLockAmount(o)))
    BY <1>2 DEF WalletPost, Wanted
  <2> QED BY <1>1, <2>1, <2>2, LockMoves
<1>3. CASE place[o].at \in {"giveUp", "unlockRefused"}
  <2>1. WalletPost(UnlockBalance(o, memory[o].locked))
    BY <1>3 DEF Wanted
  <2>2. OnlyMoves(o, IF memory[o].locked > 0 THEN -memory[o].locked ELSE 0)
    BY <1>1, <2>1, UnlockPosted
  <2>3. (IF memory[o].locked > 0 THEN -memory[o].locked ELSE 0) \in Int
    BY <1>1
  <2> QED BY <1>1, <2>2, <2>3
<1>4. CASE place[o].at = "unused"
  <2>1. WalletPost(UnlockBalance(o, Unused(o))) /\ Unused(o) \in Int
    BY <1>1, <1>4, UnusedType DEF Wanted
  <2>2. OnlyMoves(o, IF Unused(o) > 0 THEN -Unused(o) ELSE 0)
    BY <1>1, <2>1, UnlockPosted
  <2>3. (IF Unused(o) > 0 THEN -Unused(o) ELSE 0) \in Int
    BY <2>1
  <2> QED BY <1>1, <2>2, <2>3
<1>5. CASE place[o].at = "unlockMaker"
  <2> DEFINE m == Head(place[o].fills).maker
             n == place[o].release
  <2>1. m \in Placed /\ n \in Int /\ Head(place[o].fills) \in Range(place[o].fills)
    BY <1>1, <1>5, FirstFill, FillWorks DEF AtFill, LocalTyped, Placement
  <2>2. WalletPost(UnlockBalance(m, n))
    BY <1>5 DEF Wanted
  <2> HIDE DEF n
  <2>3. OnlyMoves(m, IF n > 0 THEN -n ELSE 0)
    BY <1>1, <2>1, <2>2, UnlockPosted
  <2>4. (IF n > 0 THEN -n ELSE 0) \in Int
    BY <2>1
  <2> QED BY <2>1, <2>3, <2>4
<1>6. CASE place[o].at \notin {"lock", "giveUp", "unlockRefused", "unused", "unlockMaker"}
  <2>1. Wanted(o) = {}
    BY <1>6 DEF Wanted
  <2>2. UNCHANGED accounts
    BY <2>1 DEF WalletPost
  <2>3. OnlyMoves(o, 0)
    BY <2>2, NothingMoves
  <2> QED BY <1>1, <2>3
<1> QED BY <1>2, <1>3, <1>4, <1>5, <1>6

LEMMA RefusedCovers ==
  ASSUME TradingInv, TradingInv', CoverInv, Notes, NEW o \in Ids, Refused(o)
  PROVE  Kept
<1>1. /\ Goto(o, "failed") /\ Wanted(o) # {}
      /\ UNCHANGED <<asked, rows, memory, list, cancel, engine, settled, accounts>>
  BY DEF Refused, database, local, ledgerVars
<1>2. place[o].at # "none"
  BY <1>1 DEF Wanted
<1>3. o \in Placed /\ OnlyMoves(o, 0)
  BY <1>1, <1>2, AtPlaced, NothingMoves
<1>4. 0 \in Int
  OBVIOUS
<1> QED BY <1>1, <1>2, <1>3, <1>4, FailedCovers

LEMMA GiveUpCovers ==
  ASSUME TradingInv, TradingInv', CoverInv, Notes, NEW o \in Ids, GiveUp(o)
  PROVE  Kept
<1>1. /\ place[o].at = "giveUp" /\ WalletPost(Wanted(o)) /\ Goto(o, "failed")
      /\ UNCHANGED <<asked, rows, memory, list, cancel, engine, settled>>
  BY DEF GiveUp, database, local
<1>2. PICK r \in Placed : \E d \in Int :
        OnlyMoves(r, d) /\ (r = o \/ \E t \in Range(place[o].fills) : t.maker = r)
  BY <1>1, WantedMoves
<1>3. PICK d \in Int :
        OnlyMoves(r, d) /\ (r = o \/ \E t \in Range(place[o].fills) : t.maker = r)
  BY <1>2
<1> QED BY <1>1, <1>3, FailedCovers

LEMMA FailCovers ==
  ASSUME TradingInv, TradingInv', CoverInv, Notes, NEW o \in Ids, Fail(o)
  PROVE  Kept
<1>1. /\ place[o].at \notin {"none", "done", "failed"} /\ Goto(o, "failed")
      /\ UNCHANGED <<asked, rows, memory, list, cancel, engine>>
      /\ \/ UNCHANGED <<settled, accounts>>
         \/ /\ WalletPost(Wanted(o))
            /\ settled' = IF place[o].at = "settle" THEN settled \cup {Head(place[o].fills)}
                          ELSE settled
  BY DEF Fail, database, local, ledgerVars
<1>2. o \in Placed
  BY <1>1, AtPlaced
<1>3. CASE UNCHANGED <<settled, accounts>>
  <2>1. OnlyMoves(o, 0)
    BY <1>3, NothingMoves
  <2>2. 0 \in Int
    OBVIOUS
  <2> QED BY <1>1, <1>2, <1>3, <2>1, <2>2, FailedCovers
<1>4. CASE WalletPost(Wanted(o)) /\ place[o].at # "settle" /\ settled' = settled
  <2>1. PICK r \in Placed : \E d \in Int :
          OnlyMoves(r, d) /\ (r = o \/ \E t \in Range(place[o].fills) : t.maker = r)
    BY <1>1, <1>4, WantedMoves
  <2>2. PICK d \in Int :
          OnlyMoves(r, d) /\ (r = o \/ \E t \in Range(place[o].fills) : t.maker = r)
    BY <2>1
  <2> QED BY <1>1, <1>4, <2>2, FailedCovers
<1>5. CASE /\ WalletPost(Wanted(o)) /\ place[o].at = "settle"
           /\ settled' = settled \cup {Head(place[o].fills)}
  <2> DEFINE t == Head(place[o].fills)
             d == -FillWorth(Sides(o), TakerFeeBps, t)
             e == -FillWorth(Sides(t.maker), MakerFeeBps, t)
  <2>1. TradesOK /\ Provided
    BY DEF CoverInv
  <2>2. /\ WalletOf(o) # WalletOf(t.maker) /\ BothMove(o, d, t.maker, e)
        /\ FillWorth(Sides(o), TakerFeeBps, t) \in Nat
        /\ FillWorth(Sides(t.maker), MakerFeeBps, t) \in Nat
        /\ t.maker \in Placed
    BY <1>5, <2>1, SettlePosted
  <2>3. d \in Int /\ e \in Int
    BY <2>2
  <2>4. t \in Range(place[o].fills)
    BY <1>5, FillWorks DEF AtFill
  <2> HIDE DEF t, d, e
  <2>5. \A x \in settled' : x \in settled \/ x \in Range(place[o].fills)
    BY <1>5, <2>4 DEF t
  <2>6. /\ GoesOn(o) /\ ListOnce' /\ \A q \in Ids : q # o => place'[q] = place[q]
        /\ \A x \in Clean' : x # o /\ \A s \in Range(place[o].fills) : s.maker # x
        /\ \A x \in Clean' : Apart(o, x)
    BY <1>1, <2>5, FailedParts
  <2>7. o \notin Clean' /\ t.maker \notin Clean'
    BY <2>4, <2>6
  <2>8. /\ o \in {o} /\ settled \subseteq settled'
        /\ \A x \in Clean' : x \in {o} \/ Apart(o, x)
    BY <1>5, <2>6
  <2>9. /\ TradesOK' /\ PendingHeld'
        /\ \A x \in Clean' : x \in Clean /\ x \in Placed
        /\ \A x \in Clean' : x \in {o} \/ (Served(x)' /\ Listed(x)' /\ Needs(x)' = Needs(x))
    BY <1>1, <2>6, <2>8, TouchedOnly
  <2>10. \A x \in Clean' : x \in Clean /\ (x \notin {o, t.maker} => Needs(x)' = Needs(x))
    BY <2>6, <2>9, NeedsAreInt
  <2>11. Provided'
    BY <1>1, <1>2, <2>1, <2>2, <2>3, <2>7, <2>10, ProvidedBoth DEF Notes
  <2> QED BY <2>6, <2>9, <2>11 DEF Kept
<1> QED BY <1>1, <1>3, <1>4, <1>5

-----------------------------------------------------------------------------
(* Refused orders, and the end of a placement *)

(* An order without trades shows none. *)
LEMMA NothingBooked ==
  ASSUME TradingInv, NEW o \in Placed, Making(o) = {}, FillsReported(o) = {}
  PROVE  /\ Executed(o, {}) = 0 /\ rows[o].filled = 0
         /\ Worth(Sides(o), TakerFeeBps, {}) = 0 /\ Worth(Sides(o), MakerFeeBps, {}) = 0
<1>1. /\ traded \in SUBSET Fill /\ IsFiniteSet(traded) /\ settled \in SUBSET traded
      /\ o \in Ids /\ rows \in [Ids -> OrderEntity] /\ FilledOK
  BY OrderFound DEF TradingInv, MoneyInv, SettledInv, Typed, EngineTyped, LocalTyped
<1>2. \A t \in settled : t.maker # o /\ t.taker # o
  BY <1>1 DEF Making, FillsReported
<1>3. settled \in SUBSET Fill /\ IsFiniteSet(settled)
  BY <1>1, FS_Subset
<1>4. Executed(o, settled) = 0
  BY <1>2, <1>3, ExecutedOfOthers
<1>5. {} \in SUBSET Fill /\ IsFiniteSet({}) /\ MakerFeeBps \in Nat /\ TakerFeeBps \in Nat
  BY FS_EmptySet DEF MakerFeeBps, TakerFeeBps
<1>6. Executed(o, {}) = 0
  BY <1>5, ExecutedOfOthers
<1>7. rows[o].filled \in Nat /\ rows[o].filled <= 0
  BY <1>1, <1>4 DEF FilledOK, OrderEntity
<1> QED BY <1>5, <1>6, <1>7, WorthType

LEMMA RejectRowCovers ==
  ASSUME TradingInv, TradingInv', CoverInv, Notes, NEW o \in Ids, RejectRow(o)
  PROVE  Kept
<1>1. /\ place[o].at = "refused" /\ Goto(o, "unlockRefused")
      /\ rows' = [rows EXCEPT ![o].status = "Rejected"]
      /\ memory' = [memory EXCEPT ![o].status = "Rejected"]
      /\ UNCHANGED <<asked, list, cancel, engine, settled, accounts>>
  BY DEF RejectRow, ledgerVars
<1>2. o \in Placed /\ LocalTyped
  BY <1>1, AtPlaced
<1>3. /\ place'[o].at = "unlockRefused" /\ place'[o].status = place[o].status
      /\ \A q \in Ids : q # o => place'[q] = place[q]
  BY <1>1, <1>2, GotoSays DEF Stages, Early
<1>4. /\ \A q \in Ids : q # o => memory'[q] = memory[q] /\ rows'[q] = rows[q]
      /\ memory'[o].locked = memory[o].locked /\ rows'[o].status = "Rejected"
  BY <1>1, <1>2 DEF LocalTyped, StoredOrder, OrderEntity
<1>5. OwnStep(o) /\ GoesOn(o)
  BY <1>1, <1>3, <1>4 DEF OwnStep, GoesOn, Working, AtFill
<1>6. OnlyMoves(o, 0) /\ ListOnce'
  BY <1>1, NothingMoves DEF CoverInv, ListOnce
<1>7. ASSUME o \in Clean'
      PROVE  Served(o)' /\ Listed(o)' /\ Needs(o)' - Needs(o) = 0
  <2>1. o \in Clean /\ Served(o)
    BY <1>1, <1>2, <1>7, CleanStays DEF CoverInv
  <2>2. Making(o)' = Making(o) /\ FillsReported(o)' = FillsReported(o) /\ left' = left
    BY <1>1 DEF Making, FillsReported, engine
  <2>3. EstimateLockAmount(o)' = EstimateLockAmount(o) /\ Sides(o)' = Sides(o)
    BY <1>1, TermsStay
  <2>4. Served(o)' /\ Listed(o)'
    BY <1>1, <1>3, <1>4, <2>1, <2>2, <2>3 DEF Served, Listed, Serving, Working, AtFill
  <2>5. Needs(o)' = Needs(o)
    BY <1>1, <1>3, <1>4, <2>2, <2>3 DEF Needs, Serving
  <2> QED BY <1>2, <2>4, <2>5, NeedsType
<1> QED BY <1>5, <1>6, <1>7, OwnMoves

LEMMA UnlockRefusedCovers ==
  ASSUME TradingInv, TradingInv', CoverInv, Notes, NEW o \in Ids, UnlockRefused(o)
  PROVE  Kept
<1> DEFINE n == memory[o].locked
           d == IF n > 0 THEN -n ELSE 0
<1>1. /\ place[o].at = "unlockRefused" /\ WalletPost(Wanted(o)) /\ Goto(o, "done")
      /\ UNCHANGED <<asked, rows, memory, list, cancel, engine, settled>>
  BY DEF UnlockRefused, database, local
<1>2. /\ o \in Placed /\ Lockable(o) /\ LocalTyped /\ n \in Int
      /\ accounts \in [Wallets -> Account] /\ OrdersTyped /\ Typed
  BY <1>1, AtPlaced DEF TradingInv, MoneyInv, SettledInv, Typed, FeesPaid
<1>3. /\ place'[o].at = "done" /\ \A q \in Ids : q # o => place'[q] = place[q]
  BY <1>1, <1>2, GotoSays DEF Stages, Later
<1>4. OwnStep(o) /\ GoesOn(o)
  BY <1>1, <1>3 DEF OwnStep, GoesOn, Working, AtFill
<1>5. ListOnce'
  BY <1>1 DEF CoverInv, ListOnce
<1>6. WalletPost(UnlockBalance(o, n))
  BY <1>1 DEF Wanted
<1> HIDE DEF n
<1>7. OnlyMoves(o, d) /\ d \in Int
  BY <1>2, <1>6, UnlockPosted
<1>8. ASSUME o \in Clean'
      PROVE  Served(o)' /\ Listed(o)' /\ Needs(o)' - Needs(o) = d
  <2>1. o \in Clean /\ Served(o)
    BY <1>1, <1>2, <1>8, CleanStays DEF CoverInv
  <2>2. /\ n = EstimateLockAmount(o) /\ Making(o) = {} /\ left[o] = 0
        /\ FillsReported(o) = {} /\ rows[o].status = "Rejected"
    BY <1>1, <2>1 DEF Served, Serving, n
  <2>3. n \in Nat
    <3>1. /\ Rate(o, TakerFeeBps) \in Nat /\ Order(o).quantity \in Nat
          /\ EstimateLockAmount(o) = Rate(o, TakerFeeBps) * Order(o).quantity
      BY <1>2, RateSays
    <3> QED BY <2>2, <3>1
  <2>4. o \notin Range(list)
    BY <1>1 DEF TradingInv, MoneyInv, SettledInv, ListOK
  <2>5. cancel[o].at \in {"none", "done"}
    BY <1>1, <1>2, <1>8, PlacingAlone DEF CoverInv
  <2>6. \A q \in Ids : ~Updates(q, o)
    BY <2>2, NoMaker
  <2>7. \A q \in Ids : ~Updates(q, o)'
    BY <1>3, <2>6 DEF Updates, Releasing
  <2>8. Known(o)'
    BY <1>1, <2>5, <2>7 DEF Known
  <2>9. Dead(o)' /\ Making(o)' = {} /\ FillsReported(o)' = {}
    BY <1>1, <2>2 DEF Dead, Making, FillsReported, engine
  <2>10. OutOfList(o)'
    <3>1. Booked(o)' = {}
      BY <2>9 DEF Booked
    <3>2. rows'[o].filled = Executed(o, {})
      BY <1>1, <1>2, <2>2, NothingBooked
    <3> QED BY <1>1, <2>2, <2>5, <2>9, <3>1, <3>2 DEF OutOfList, Open
  <2>11. Listed(o)'
    BY <1>1, <2>4, <2>8, <2>10 DEF Listed
  <2>12. Served(o)'
    BY <1>3, <2>9 DEF Served, Serving, Working, AtFill
  <2>13. Needs(o)' = 0
    BY <1>1, <1>3, <2>4 DEF Needs
  <2>14. Needs(o) = n
    <3>1. {} \in SUBSET Fill /\ IsFiniteSet({}) /\ TakerFeeBps \in Nat
      BY FS_EmptySet DEF TakerFeeBps
    <3>2. Worth(Sides(o), TakerFeeBps, {}) = 0
      BY <3>1, WorthType
    <3>3. FillsReported(o) \cap settled = {}
      BY <2>2
    <3>4. Needs(o) = memory[o].locked - 0
      BY <1>1, <3>2, <3>3 DEF Needs, Serving
    <3> QED BY <1>2, <3>4 DEF n
  <2> QED BY <2>3, <2>11, <2>12, <2>13, <2>14
<1> HIDE DEF d
<1> QED BY <1>2, <1>4, <1>5, <1>7, <1>8, OwnMoves

(* The row and the object take what the report says. *)
LEMMA WriteOrderCovers ==
  ASSUME TradingInv, TradingInv', CoverInv, Notes, NEW o \in Ids, WriteOrder(o)
  PROVE  Kept
<1> DEFINE f == memory[o].filled + Executed(o, FillsReported(o))
<1>1. /\ place[o].at = "write" /\ Goto(o, "unused")
      /\ memory' = [memory EXCEPT ![o].filled = f, ![o].status = place[o].status]
      /\ rows' = [rows EXCEPT ![o] = [filled |-> f, status |-> place[o].status]]
      /\ UNCHANGED <<asked, list, cancel, engine, settled, accounts>>
  BY DEF WriteOrder, ledgerVars
<1>2. o \in Placed /\ LocalTyped
  BY <1>1, AtPlaced
<1>3. /\ place'[o].at = "unused" /\ place'[o].status = place[o].status
      /\ \A q \in Ids : q # o => place'[q] = place[q]
  BY <1>1, <1>2, GotoSays DEF Stages, Later
<1>4. f = Executed(o, FillsReported(o))
  <2>1. memory[o].filled = 0
    BY <1>1 DEF TradingInv, MoneyInv, SettledInv, FilledOK
  <2>2. Executed(o, FillsReported(o)) \in Nat
    <3>1. FillsReported(o) \in SUBSET traded /\ traded \in SUBSET Fill /\ IsFiniteSet(traded)
      BY DEF FillsReported, TradingInv, MoneyInv, SettledInv, Typed, EngineTyped
    <3> QED BY <3>1, ExecutedGrows
  <2> QED BY <2>1, <2>2
<1> HIDE DEF f
<1>5. /\ \A q \in Ids : q # o => memory'[q] = memory[q] /\ rows'[q] = rows[q]
      /\ memory'[o].locked = memory[o].locked
      /\ memory'[o].filled = f /\ memory'[o].status = place[o].status
      /\ rows'[o].filled = f /\ rows'[o].status = place[o].status
  BY <1>1, <1>2 DEF LocalTyped, StoredOrder, OrderEntity
<1>6. OwnStep(o) /\ GoesOn(o)
  BY <1>1, <1>3, <1>5 DEF OwnStep, GoesOn, Working, AtFill
<1>7. OnlyMoves(o, 0) /\ ListOnce'
  BY <1>1, NothingMoves DEF CoverInv, ListOnce
<1>8. ASSUME o \in Clean'
      PROVE  Served(o)' /\ Listed(o)' /\ Needs(o)' - Needs(o) = 0
  <2>1. o \in Clean /\ Served(o)
    BY <1>1, <1>2, <1>8, CleanStays DEF CoverInv
  <2>2. Making(o)' = Making(o) /\ FillsReported(o)' = FillsReported(o) /\ left' = left
    BY <1>1 DEF Making, FillsReported, engine
  <2>3. EstimateLockAmount(o)' = EstimateLockAmount(o) /\ Sides(o)' = Sides(o)
    BY <1>1, TermsStay
  <2>4. FillsReported(o) \subseteq settled
    <3>1. place[o].fills = << >>
      BY <1>1 DEF TradingInv, MoneyInv, SettledInv, Places, PlaceOK, AtFillOK
    <3>2. \A t \in traded : t.taker = o => t \in settled \cup Range(place[o].fills)
      BY <1>1 DEF TradingInv, MoneyInv, SettledInv, Places, PlaceOK, AllReported
    <3> QED BY <3>1, <3>2 DEF FillsReported, Range
  <2>5. Executed(o, FillsReported(o))' = f
    BY <1>4, <2>2
  <2>r. Reported(o)' <=> Reported(o)
    BY <1>1, <1>3, ReportStays
  <2>6. Served(o)' /\ Listed(o)'
    BY <1>1, <1>3, <1>5, <2>1, <2>2, <2>3, <2>4, <2>5, <2>r
    DEF Served, Listed, Serving, Working, AtFill
  <2>7. Needs(o)' = Needs(o)
    BY <1>1, <1>3, <1>5, <2>2, <2>3 DEF Needs, Serving
  <2> QED BY <1>2, <2>6, <2>7, NeedsType
<1> QED BY <1>6, <1>7, <1>8, OwnMoves

-----------------------------------------------------------------------------
(* What is left over, and the list *)

(* The fills of an order cost what WorthSums says, at the taker's fee. *)
LEMMA UnusedSays ==
  ASSUME NEW o
  PROVE  Unused(o) = memory[o].locked - Worth(Sides(o), TakerFeeBps, FillsReported(o)) - RestLock(o)
<1>1. MapThenSumSet(LAMBDA t : Cost(o, t.price, t.quantity, TakerFeeBps), FillsReported(o))
        = Worth(Sides(o), TakerFeeBps, FillsReported(o))
  BY DEF Worth, Cost
<1> QED BY <1>1 DEF Unused

(* What the settled fills and the rest of the order do not need is given   *)
(* back.                                                                   *)
LEMMA UnlockUnusedCovers ==
  ASSUME TradingInv, TradingInv', CoverInv, Notes, NEW o \in Ids, UnlockUnused(o)
  PROVE  Kept
<1> DEFINE n == Unused(o)
           d == IF n > 0 THEN -n ELSE 0
           l == RestLock(o)
           w == Worth(Sides(o), TakerFeeBps, FillsReported(o))
<1>1. /\ place[o].at = "unused" /\ WalletPost(Wanted(o)) /\ Goto(o, "rest")
      /\ memory' = [memory EXCEPT ![o].locked = l]
      /\ UNCHANGED <<asked, rows, list, cancel, engine, settled>>
  BY DEF UnlockUnused, database
<1>2. /\ o \in Placed /\ Lockable(o) /\ LocalTyped /\ memory[o].locked \in Int
      /\ accounts \in [Wallets -> Account] /\ OrdersTyped /\ Typed /\ SettledInv
  BY <1>1, AtPlaced DEF TradingInv, MoneyInv, SettledInv, Typed, FeesPaid
<1>3. /\ place'[o].at = "rest" /\ place'[o].status = place[o].status
      /\ \A q \in Ids : q # o => place'[q] = place[q]
  BY <1>1, <1>2, GotoSays DEF Stages, Later
<1>4. /\ \A q \in Ids : q # o => memory'[q] = memory[q]
      /\ memory'[o].locked = l
      /\ memory'[o].filled = memory[o].filled /\ memory'[o].status = memory[o].status
  BY <1>1, <1>2 DEF LocalTyped, StoredOrder
<1>5. OwnStep(o) /\ GoesOn(o)
  BY <1>1, <1>3, <1>4 DEF OwnStep, GoesOn, Working, AtFill
<1>6. ListOnce'
  BY <1>1 DEF CoverInv, ListOnce
<1>7. WalletPost(UnlockBalance(o, n)) /\ n \in Int
  BY <1>1, <1>2, UnusedType DEF Wanted
<1>8. n = memory[o].locked - w - l
  BY UnusedSays
<1> HIDE DEF n
<1>9. OnlyMoves(o, d) /\ d \in Int
  BY <1>2, <1>7, UnlockPosted
<1>10. ASSUME o \in Clean'
       PROVE  Served(o)' /\ Listed(o)' /\ (~Unbounded(o) => Needs(o)' - Needs(o) = d)
  <2>1. o \in Clean /\ Served(o) /\ TradesOK
    BY <1>1, <1>2, <1>10, CleanStays DEF CoverInv
  <2>2. Making(o)' = Making(o) /\ FillsReported(o)' = FillsReported(o) /\ left' = left
    BY <1>1 DEF Making, FillsReported, engine
  <2>3. Sides(o)' = Sides(o) /\ Order(o)' = Order(o) /\ Lockable(o)' = Lockable(o)
    BY <1>1, TermsStay
  <2>4. RestLock(o)' = RestLock(o)
    BY <1>4, <2>3 DEF RestLock, ShouldRest, RemainingLock, Cost
  <2>5. /\ Making(o) = {} /\ memory[o].locked = EstimateLockAmount(o)
        /\ FillsReported(o) \subseteq settled
        /\ memory[o].filled = Executed(o, FillsReported(o))
    BY <1>1, <2>1 DEF Served, Serving
  <2>r. Reported(o)' <=> Reported(o)
    BY <1>1, <1>3, ReportStays
  <2>6. Served(o)' /\ Listed(o)'
    BY <1>1, <1>3, <1>4, <2>1, <2>2, <2>4, <2>5, <2>r DEF Served, Listed, Serving, Working, AtFill
  <2> SUFFICES ASSUME ~Unbounded(o) PROVE Needs(o)' - Needs(o) = d
    BY <2>6
  <2>7. Needs(o) = memory[o].locked - w
    <3>1. FillsReported(o) \cap settled = FillsReported(o)
      BY <2>5
    <3> QED BY <1>1, <3>1 DEF Needs, Serving
  <2>8. Needs(o)' = l - 0
    <3>1. (Making(o) \cap (settled \ AppliedTrades))' = {}
      BY <2>2, <2>5
    <3>2. Worth(Sides(o), MakerFeeBps, {}) = 0
      <4>1. {} \in SUBSET Fill /\ IsFiniteSet({}) /\ MakerFeeBps \in Nat
        BY FS_EmptySet DEF MakerFeeBps
      <4> QED BY <4>1, WorthType
    <3> HIDE DEF l
    <3> QED BY <1>3, <1>4, <2>3, <3>1, <3>2 DEF Needs, Serving, Working, AtFill
  <2>9. /\ Rate(o, TakerFeeBps) \in Nat /\ Order(o).quantity \in Nat
        /\ memory[o].locked = Rate(o, TakerFeeBps) * Order(o).quantity
        /\ \A k \in Int : RemainingLock(o, k) = Rate(o, TakerFeeBps) * (Order(o).quantity - k)
    BY <1>2, <2>5, RateSays
  <2>10. /\ memory[o].filled \in Nat /\ memory[o].filled <= Order(o).quantity
         /\ RemainingLock(o, memory[o].filled) \in Nat
    BY <1>2, RestIsNat
  <2>11. /\ w \in Nat /\ w <= Rate(o, TakerFeeBps) * memory[o].filled
    <3>1. FillsReported(o) \in SUBSET FillsReported(o)
      OBVIOUS
    <3>2. /\ w \in Nat /\ w <= Rate(o, TakerFeeBps) * Executed(o, FillsReported(o))
      BY <1>2, <2>1, <3>1, OwnTrades
    <3> QED BY <2>5, <3>2
  <2> DEFINE r == Rate(o, TakerFeeBps)
             q == Order(o).quantity
             e == memory[o].filled
  <2>12. l = 0 \/ l = r * (q - e)
    BY <2>9, <2>10 DEF RestLock
  <2> HIDE DEF l, w, r, q, e
  <2>13. r \in Nat /\ q \in Nat /\ e \in Nat /\ e <= q /\ w \in Nat /\ w <= r * e
         /\ memory[o].locked = r * q
    BY <2>9, <2>10, <2>11 DEF r, q, e
  <2>14. r * (q - e) = r * q - r * e /\ r * (q - e) \in Nat /\ r * e \in Nat /\ r * q \in Nat
    <3>1. r * (q - e) = r * q - r * e /\ r * e \in Nat /\ r * q \in Nat
      BY <2>13
    <3>2. q - e \in Nat
      BY <2>13
    <3> QED BY <2>13, <3>1, <3>2
  <2>15. n \in Nat /\ l \in Nat
    BY <1>7, <1>8, <2>12, <2>13, <2>14
  <2>16. Needs(o)' - Needs(o) = -n
    BY <1>8, <2>7, <2>8, <2>13, <2>14, <2>15
  <2>17. d = -n
    BY <2>15
  <2> QED BY <2>16, <2>17
<1> HIDE DEF d
<1> QED BY <1>2, <1>5, <1>6, <1>9, <1>10, OwnMoves

(* The order joins the list when some of it rests. *)
LEMMA RestCovers ==
  ASSUME TradingInv, TradingInv', CoverInv, Notes, NEW o \in Ids, Rest(o)
  PROVE  Kept
<1>1. /\ place[o].at = "rest" /\ Goto(o, "done")
      /\ list' = IF ShouldRest(o) THEN Append(list, o) ELSE list
      /\ UNCHANGED <<asked, rows, memory, cancel, engine, settled, accounts>>
  BY DEF Rest, database, ledgerVars
<1>2. /\ o \in Placed /\ Lockable(o) /\ LocalTyped /\ memory[o].locked \in Int /\ list \in Seq(Ids)
  BY <1>1, AtPlaced DEF LocalTyped
<1>3. /\ place'[o].at = "done" /\ place'[o].status = place[o].status
      /\ \A q \in Ids : q # o => place'[q] = place[q]
  BY <1>1, <1>2, GotoSays DEF Stages, Later
<1>4. o \notin Range(list) /\ ListOnce
  BY <1>1 DEF TradingInv, MoneyInv, SettledInv, ListOK, CoverInv
<1>5. Range(list') = (IF ShouldRest(o) THEN Range(list) \cup {o} ELSE Range(list)) /\ ListOnce'
  <2>1. CASE ShouldRest(o)
    <3>1. list' = Append(list, o)
      BY <1>1, <2>1
    <3>2. /\ \A i, j \in DOMAIN list' : list'[i] = list'[j] => i = j
          /\ Range(list') = Range(list) \cup {o}
      BY <1>2, <1>4, <3>1, AppendedOnce
    <3> QED BY <2>1, <3>2 DEF ListOnce
  <2>2. CASE ~ShouldRest(o)
    BY <1>1, <1>4, <2>2 DEF ListOnce
  <2> QED BY <2>1, <2>2
<1>6. OwnStep(o) /\ GoesOn(o)
  BY <1>1, <1>3, <1>5 DEF OwnStep, GoesOn, Working, AtFill
<1>7. OnlyMoves(o, 0) /\ 0 \in Int
  BY <1>1, NothingMoves
<1>8. ASSUME o \in Clean'
      PROVE  Served(o)' /\ Listed(o)' /\ Needs(o)' - Needs(o) = 0
  <2>1. o \in Clean /\ Served(o)
    BY <1>1, <1>2, <1>8, CleanStays DEF CoverInv
  <2>2. Making(o)' = Making(o) /\ FillsReported(o)' = FillsReported(o) /\ left' = left
    BY <1>1 DEF Making, FillsReported, engine
  <2>3. Sides(o)' = Sides(o) /\ Order(o)' = Order(o) /\ Lockable(o)' = Lockable(o)
    BY <1>1, TermsStay
  <2>4. RemainingLock(o, memory[o].filled)' = RemainingLock(o, memory[o].filled)
    BY <1>1, TermsStay
  <2>5. /\ Making(o) = {} /\ memory[o].locked = RestLock(o)
        /\ FillsReported(o) \subseteq settled
        /\ memory[o].filled = Executed(o, FillsReported(o))
        /\ left[o] = 0 \/ memory[o].status \in Open
        /\ rows[o].filled = memory[o].filled /\ rows[o].status = memory[o].status
        /\ memory[o].status = place[o].status /\ Reported(o)
    BY <1>1, <2>1 DEF Served
  <2>s. Reported(o)' /\ Order(o)' = Order(o)
    BY <1>1, <1>3, <2>3, <2>5, ReportStays
  <2>b. memory'[o].filled = Executed(o, Booked(o)')
    <3>1. Booked(o)' = FillsReported(o)
      BY <2>2, <2>5 DEF Booked
    <3> QED BY <1>1, <2>5, <3>1
  <2>6. cancel[o].at \in {"none", "done"}
    BY <1>1, <1>2, <1>8, PlacingAlone DEF CoverInv
  <2>7. \A q \in Ids : ~Updates(q, o)'
    BY <1>3, <2>5, NoMaker DEF Updates, Releasing
  <2>8. Known(o)'
    BY <1>1, <2>6, <2>7 DEF Known
  <2>9. Served(o)'
    BY <1>1, <1>3, <2>2, <2>5 DEF Served, Serving, Working, AtFill
  <2>10. Needs(o) = memory[o].locked - 0
    BY <1>1, <2>5, NoMaker DEF Needs, Serving, Working, AtFill
  <2>11. (Making(o) \cap (settled \ AppliedTrades))' = {}
    BY <2>2, <2>5
  <2>12. Worth(Sides(o), MakerFeeBps, {}) = 0
    <3>1. {} \in SUBSET Fill /\ IsFiniteSet({}) /\ MakerFeeBps \in Nat
      BY FS_EmptySet DEF MakerFeeBps
    <3> QED BY <3>1, WorthType
  <2>13. CASE ShouldRest(o)
    <3>1. o \in Range(list') /\ memory[o].locked = RemainingLock(o, memory[o].filled)
      BY <1>5, <2>5, <2>13 DEF RestLock
    <3>2. RemainingLock(o, memory[o].filled) \in Nat /\ memory[o].status \in Open
      BY <1>2, <2>13, RestIsNat DEF ShouldRest
    <3>3. InList(o)'
      <4>1. memory[o].filled < Order(o).quantity
        <5>1. memory[o].filled \in Nat /\ Order(o).quantity \in Nat
          BY <1>2, RestIsNat
        <5> QED BY <2>13, <5>1 DEF ShouldRest
      <4> QED BY <1>1, <1>3, <2>s, <2>b, <2>4, <2>5, <2>6, <3>1, <3>2, <4>1
              DEF InList, Open, Reported
    <3>4. Listed(o)'
      BY <2>8, <3>1, <3>3 DEF Listed
    <3>5. Needs(o)' = memory[o].locked - 0
      BY <1>1, <1>3, <2>3, <2>11, <2>12, <3>1 DEF Needs, Serving, Working, AtFill
    <3> QED BY <1>2, <2>9, <2>10, <3>4, <3>5
  <2>14. CASE ~ShouldRest(o)
    <3>1. o \notin Range(list') /\ memory[o].locked = 0
      BY <1>4, <1>5, <2>5, <2>14 DEF RestLock
    <3>2. memory[o].status \notin Open /\ left[o] = 0
      <4>1. memory[o].filled \in Nat /\ Order(o).quantity \in Nat
        BY <1>2, RestIsNat
      <4>2. memory[o].status \in Open => Order(o).quantity > memory[o].filled
        BY <2>5, <4>1 DEF Reported
      <4> QED BY <2>5, <2>14, <4>2 DEF ShouldRest
    <3>3. Dead(o)'
      BY <2>2, <2>5, <3>2 DEF Dead
    <3>4. OutOfList(o)'
      BY <1>1, <2>b, <2>5, <2>6, <3>2, <3>3 DEF OutOfList
    <3>5. Listed(o)'
      BY <2>8, <3>1, <3>4 DEF Listed
    <3>6. Needs(o)' = 0
      BY <1>3, <3>1 DEF Needs
    <3> QED BY <2>9, <2>10, <3>1, <3>5, <3>6
  <2> QED BY <2>13, <2>14
<1> QED BY <1>2, <1>5, <1>6, <1>7, <1>8, OwnMoves

-----------------------------------------------------------------------------
(* The engine executes an order *)

(* A fill is with an order that rests at the engine on the other side.     *)
LEMMA FillsFace ==
  ASSUME TradingInv, NEW o \in Placed, NEW t \in Range(FillsOf(o))
  PROVE  t.maker \in Facing(o) /\ t.taker = o /\ t.price = Order(t.maker).price
<1>1. Typed /\ EngineOK /\ \A m \in Ids : left[m] \in Nat
  BY DEF TradingInv, MoneyInv, SettledInv, EngineFits
<1>2. /\ Met(o) = 1..Cardinality(Met(o)) /\ Cardinality(Met(o)) \in Nat
      /\ Cardinality(Met(o)) <= Cardinality(Facing(o))
  BY <1>1, MetFirst
<1>3. Cardinality(Facing(o)) \in Nat /\ Queue(o) \in [1..Cardinality(Facing(o)) -> Facing(o)]
  BY <1>1, QueueFound
<1>4. FillsOf(o) = [i \in 1..Cardinality(Met(o)) |-> FillAt(o, i)]
  BY FillsMet
<1>5. PICK i \in 1..Cardinality(Met(o)) : t = FillAt(o, i)
  BY <1>4 DEF Range
<1>6. Queue(o)[i] \in Facing(o)
  BY <1>2, <1>3
<1> QED BY <1>5, <1>6 DEF FillAt

(* The engine has executed o, with the fills of R. *)
Executes(o, R) ==
  /\ o \in Placed /\ o \notin Range(seen) /\ place[o].at = "submit"
  /\ UNCHANGED <<asked, rows, memory, list, cancel, settled, accounts>>
  /\ Range(seen') = Range(seen) \cup {o} /\ traded' = traded \cup R
  /\ \A q \in Ids : q # o => place'[q] = place[q] /\ left'[q] = left[q] - Executed(q, R)
  /\ place'[o].at = "answer" /\ Range(place'[o].fills) = R
  /\ place'[o].status = EngineStatus(o, Executed(o, R))
  /\ left'[o] = IF RestsAtEngine(o) THEN Order(o).quantity - Executed(o, R) ELSE 0
  /\ R \in SUBSET Fill /\ IsFiniteSet(R)
  /\ \A t \in R : /\ t.taker = o /\ t.maker # o /\ t.quantity > 0
                  /\ t.maker \in Facing(o) /\ t.price = Order(t.maker).price

LEMMA SubmitExecutes ==
  ASSUME TradingInv, NEW o \in Ids, Submit(o),
         ~(o \in Range(seen) \/ (Order(o).kind # "Market" /\ Order(o).price = NoPrice))
  PROVE  Executes(o, Range(FillsOf(o)))
<1> DEFINE f == FillsOf(o)
           R == Range(f)
           status == EngineStatus(o, Executed(o, R))
<1>1. /\ LocalTyped /\ Typed /\ EngineOK /\ SettledInv /\ place[o].at = "submit"
      /\ \A m \in Ids : left[m] \in Nat
  BY DEF TradingInv, MoneyInv, SettledInv, Typed, EngineFits, Submit
<1>2. o \in Placed /\ o \notin Range(seen)
  BY <1>1, AtPlaced
<1>3. /\ UNCHANGED <<asked, rows, memory, list, cancel, settled, accounts>>
      /\ left' = AfterFills(o, f) /\ seen' = Append(seen, o) /\ traded' = traded \cup R
      /\ place' = [place EXCEPT ![o].at = "answer", ![o].fills = f, ![o].status = status]
  BY DEF Submit, database, local, ledgerVars
<1>4. Range(seen') = Range(seen) \cup {o}
  BY <1>1, <1>2, <1>3, EngineExecutes
<1>5. /\ f \in Seq(Fill) /\ \A i \in DOMAIN f : f[i].taker = o /\ f[i].maker # o
  BY <1>1, <1>2, FillsFound
<1>6. /\ R \in SUBSET Fill /\ IsFiniteSet(R) /\ \A t \in R : t.quantity > 0
  BY <1>1, <1>2, FillsFit
<1>7. \A t \in R : /\ t.taker = o /\ t.maker # o
                   /\ t.maker \in Facing(o) /\ t.price = Order(t.maker).price
  <2>1. \A t \in R : t.maker \in Facing(o) /\ t.price = Order(t.maker).price
    BY <1>2, FillsFace
  <2>2. \A t \in R : t.taker = o /\ t.maker # o
    BY <1>5 DEF Range
  <2> QED BY <2>1, <2>2
<1> HIDE DEF f, status
<1>8. /\ place'[o].at = "answer" /\ place'[o].fills = f /\ place'[o].status = status
      /\ \A q \in Ids : q # o => place'[q] = place[q]
  BY <1>1, <1>3 DEF LocalTyped, Placement
<1>9. /\ \A q \in Ids : q # o => left'[q] = left[q] - Executed(q, R)
      /\ left'[o] = IF RestsAtEngine(o) THEN Order(o).quantity - Executed(o, R) ELSE 0
  BY <1>3 DEF AfterFills
<1> QED BY <1>1, <1>2, <1>3, <1>4, <1>6, <1>7, <1>8, <1>9 DEF Executes, f, status

(* What is executed of an order is so by its own trades.                   *)
LEMMA OwnExecuted == \A x : Executed(x, TradesOf(x)) = Executed(x, traded)
<1> TAKE x
<1>1. TradesOf(x) = Of(x, traded)
  BY DEF TradesOf, FillsReported, Making, Of
<1> QED BY <1>1, ExecutedOfOwn

LEMMA OwnExecutedNext == (\A x : Executed(x, TradesOf(x)) = Executed(x, traded))'
BY OwnExecuted, PTL

(* The engine takes from what rests of a maker what it executes of it.     *)
LEMMA MakerExecuted ==
  ASSUME TradingInv, NEW o \in Ids, NEW R, Executes(o, R), NEW x \in Placed, x \in Ids, x # o
  PROVE  left'[x] + Executed(x, TradesOf(x)') = left[x] + Executed(x, TradesOf(x))
<1>1. traded \in SUBSET Fill /\ IsFiniteSet(traded) /\ R \in SUBSET Fill /\ IsFiniteSet(R)
  BY DEF TradingInv, MoneyInv, SettledInv, Typed, EngineTyped, Executes
<1>2. traded \cap R = {}
  BY DEF TradingInv, MoneyInv, SettledInv, EngineOK, Executes
<1>3. Executed(x, traded \cup R) = Executed(x, traded) + Executed(x, R)
  BY <1>1, <1>2, ExecutedJoins
<1>4. Executed(x, traded) \in Nat /\ Executed(x, R) \in Nat /\ left[x] \in Nat
  BY <1>1, ExecutedGrows DEF TradingInv, EngineFits
<1>5. left'[x] = left[x] - Executed(x, R) /\ traded' = traded \cup R
  BY DEF Executes
<1>6. /\ Executed(x, TradesOf(x)) = Executed(x, traded)
      /\ Executed(x, TradesOf(x)') = Executed(x, traded')
  BY OwnExecuted, OwnExecutedNext
<1>7. Executed(x, TradesOf(x)') = Executed(x, traded) + Executed(x, R)
  BY <1>3, <1>5, <1>6
<1> QED BY <1>4, <1>5, <1>6, <1>7

(* Another order that a clean step of the engine has found. *)
LEMMA MakerStays ==
  ASSUME TradingInv, CoverInv, Notes, NEW o \in Ids, NEW R, Executes(o, R),
         NEW x \in Clean', x # o, NEW t \in R, t.maker = x
  PROVE  Served(x)' /\ Listed(x)' /\ Needs(x)' = Needs(x)
<1>1. /\ x \in Placed /\ asked'[x] = asked[x] /\ UNCHANGED asked
  BY DEF Executes, Clean, Placed
<1>2. /\ x \in Clean /\ x \in Ids /\ Alone(x)' /\ cancel'[x].at # "failed"
      /\ place[x].at \in Serving \cup {"lock", "rest", "done"}
      /\ Served(x) /\ Listed(x)
  BY <1>1, CleanStays DEF CoverInv
<1>3. Works(o, x)'
  BY DEF Executes, Works, InFlight
<1>4. x \notin InFlight'
  <2>1. x \in InFlight' => Works(x, x)'
    BY <1>2 DEF Works
  <2> QED BY <1>2, <1>3, <2>1 DEF Alone
<1>5. place[x].at = "done" /\ place'[x] = place[x]
  <2>1. place'[x] = place[x]
    BY <1>2 DEF Executes
  <2>2. place'[x].at \in {"none", "done", "failed"}
    BY <1>2, <1>4 DEF InFlight
  <2> QED BY <1>2, <2>1, <2>2 DEF Serving, Working, AtFill
<1>6. cancel[x].at \in {"none", "done"} /\ cancel'[x] = cancel[x]
  <2>1. x \notin Cancelling'
    BY <1>2, <1>3 DEF Alone
  <2>2. cancel' = cancel
    BY DEF Executes
  <2>3. x \notin Cancelling
    BY <1>2, <2>1, <2>2 DEF Cancelling
  <2> QED BY <1>2, <2>2, <2>3, CancelAt
<1>7. \A q \in Ids : ~Updates(q, x)
  <2> SUFFICES ASSUME NEW q \in Ids, Updates(q, x) PROVE FALSE
    OBVIOUS
  <2>1. q # o /\ place[q].at \in AtFill
    BY DEF Updates, Executes, Releasing, AtFill
  <2>2. Works(q, x)
    BY <2>1, FillWorks DEF Updates
  <2>3. place'[q] = place[q]
    BY <2>1 DEF Executes
  <2>4. Works(q, x)'
    BY <1>2, <2>1, <2>2, <2>3 DEF Works, InFlight, AtFill
  <2> QED BY <1>2, <1>3, <2>1, <2>4 DEF Alone
<1>8. \A q \in Ids : ~Updates(q, x)'
  BY <1>7 DEF Updates, Executes, Releasing
<1>9. x \in Range(list)
  <2>1. left[x] > 0
    BY DEF Executes, Facing
  <2> QED BY <1>2, <1>5, <2>1 DEF Listed, OutOfList, Dead
<1>10. InList(x)
  BY <1>2, <1>5, <1>9 DEF Listed
<1>11. Known(x)'
  BY <1>6, <1>8 DEF Known
<1>12. /\ memory' = memory /\ rows' = rows /\ list' = list /\ settled' = settled
  BY DEF Executes
<1>13. RemainingLock(x, memory[x].filled)' = RemainingLock(x, memory[x].filled)
       /\ Sides(x)' = Sides(x) /\ Order(x)' = Order(x)
  BY <1>1, <1>12, TermsStay
<1>a. AppliedTrades' = AppliedTrades /\ Making(x)' \cap settled = Making(x) \cap settled
  <2>1. \A s \in settled : s \in traded /\ s.taker # o
    BY DEF TradingInv, MoneyInv, SettledInv, Typed, EngineTyped, Places, PlaceOK, Unsettled,
           Executes, Early
  <2>2. AppliedTrades' = AppliedTrades
    BY DEF AppliedTrades, Executes
  <2>3. \A s \in R : s \notin settled
    BY <2>1 DEF Executes
  <2>4. Making(x)' \cap settled = Making(x) \cap settled
    BY <2>3 DEF Making, Executes
  <2> QED BY <2>2, <2>4
<1>b. FillsReported(x)' = FillsReported(x) /\ Booked(x)' = Booked(x)
  <2>1. FillsReported(x)' = FillsReported(x)
    BY DEF FillsReported, Executes
  <2>2. AppliedTrades \subseteq settled
    BY DEF AppliedTrades
  <2>3. Making(x)' \cap AppliedTrades = Making(x) \cap AppliedTrades
    BY <1>a, <2>2
  <2> QED BY <1>a, <2>1, <2>3 DEF Booked
<1>c. left'[x] + Executed(x, TradesOf(x)') = left[x] + Executed(x, TradesOf(x))
  BY <1>1, <1>2, MakerExecuted
<1>14. InList(x)'
  BY <1>5, <1>6, <1>7, <1>8, <1>10, <1>12, <1>13, <1>b, <1>c DEF InList
<1>15. Listed(x)'
  BY <1>9, <1>11, <1>12, <1>14 DEF Listed
<1>16. FillsReported(x)' = FillsReported(x)
  BY DEF FillsReported, Executes
<1>17. Served(x)'
  BY <1>2, <1>5, <1>12, <1>16 DEF Served, Serving, Working, AtFill
<1>18. (Making(x) \cap (settled \ AppliedTrades))' = Making(x) \cap (settled \ AppliedTrades)
  BY <1>12, <1>a
<1>19. Needs(x)' = Needs(x)
  BY <1>5, <1>12, <1>13, <1>18 DEF Needs, Serving, Working, AtFill
<1> QED BY <1>15, <1>17, <1>19

(* An order that the engine matches with none is as it was. *)
LEMMA BystanderStays ==
  ASSUME TradingInv, CoverInv, Notes, NEW o \in Ids, NEW R, Executes(o, R),
         NEW x \in Clean', x # o, \A t \in R : t.maker # x
  PROVE  Served(x)' /\ Listed(x)' /\ Needs(x)' = Needs(x)
<1>1. /\ x \in Placed /\ asked'[x] = asked[x]
  BY DEF Executes, Clean, Placed
<1>2. x \in Clean /\ x \in Ids /\ Served(x) /\ Listed(x)
  BY <1>1, CleanStays DEF CoverInv
<1>3. left'[x] = left[x]
  <2>1. Executed(x, R) = 0
    BY ExecutedOfOthers DEF Executes
  <2>2. left[x] \in Nat
    BY <1>2 DEF TradingInv, EngineFits
  <2>3. left'[x] = left[x] - Executed(x, R)
    BY <1>2 DEF Executes
  <2> QED BY <2>1, <2>2, <2>3
<1>4. /\ place'[x] = place[x] /\ memory'[x] = memory[x] /\ rows'[x] = rows[x]
      /\ cancel'[x] = cancel[x] /\ (x \in Range(seen') => x \in Range(seen))
      /\ (x \in Range(list') <=> x \in Range(list))
  BY <1>2 DEF Executes
<1>5. FillsReported(x)' = FillsReported(x) /\ Making(x)' = Making(x)
  BY DEF FillsReported, Making, Executes
<1>6. AppliedTrades' = AppliedTrades /\ settled' = settled
  BY DEF AppliedTrades, Executes
<1>7. \A q \in Ids : Updates(q, x) \/ Updates(q, x)' => place'[q] = place[q]
  BY DEF Updates, Releasing, Executes
<1>8. Frame(x)
  BY <1>1, <1>3, <1>4, <1>5, <1>6, <1>7 DEF Frame, LeftAlone
<1> QED BY <1>2, <1>8, FrameKeeps

(* The report says how much has been executed. *)
LEMMA ReportSays ==
  ASSUME TradingInv, TradingInv', NEW o \in Ids, NEW R, Executes(o, R)
  PROVE  /\ place'[o].status = "Refused" => R = {} /\ left'[o] = 0
         /\ left'[o] = 0 \/ place'[o].status \in Open
         /\ Making(o) = {} => Reported(o)'
<1>1. Order(o).quantity \in Nat \ {0}
  BY OrderFound DEF Executes, TradingInv, MoneyInv, SettledInv, Typed
<1> DEFINE e == Executed(o, R)
<1>2. e \in Nat /\ \A S \in SUBSET R : Executed(o, S) \in Nat /\ Executed(o, S) <= e
  BY ExecutedGrows DEF Executes
<1>3. ASSUME NEW t \in R
      PROVE  e > 0
  <2>1. {t} \in SUBSET R /\ {t} \in SUBSET Fill /\ IsFiniteSet({t}) /\ t.taker = o /\ t.quantity > 0
    BY FS_Singleton DEF Executes
  <2>2. t \in {t} /\ \A x \in {t} : x # t => x.maker # o /\ x.taker # o
    OBVIOUS
  <2>3. Executed(o, {t}) = t.quantity
    BY <2>1, <2>2, ExecutedByOne
  <2>4. t.quantity \in Nat /\ Executed(o, {t}) <= e
    BY <1>2, <2>1 DEF Fill
  <2> QED BY <1>2, <2>1, <2>3, <2>4
<1>4. /\ place'[o].status = EngineStatus(o, e)
      /\ left'[o] = IF RestsAtEngine(o) THEN Order(o).quantity - e ELSE 0
  BY DEF Executes
<1> HIDE DEF e
<1>5. EngineStatus(o, e) = "Refused" => e = 0 /\ StoppedByOwn(o)
  BY <1>1 DEF EngineStatus
<1>6. e = Order(o).quantity \/ EngineStatus(o, e) \in Open \/ ~RestsAtEngine(o)
  BY <1>1 DEF EngineStatus, Open, RestsAtEngine
<1>7. place'[o].status = "Refused" => R = {} /\ left'[o] = 0
  BY <1>2, <1>3, <1>4, <1>5 DEF RestsAtEngine
<1>8. ASSUME Making(o) = {}
      PROVE  Reported(o)'
  <2>1. FillsReported(o)' = R /\ TradesOf(o)' = R /\ Order(o)' = Order(o)
    <3>1. FillsReported(o)' = R
      BY DEF FillsReported, Executes, TradingInv, MoneyInv, SettledInv, EngineOK
    <3>2. Making(o)' = {}
      BY <1>8 DEF Making, Executes
    <3> QED BY <3>1, <3>2 DEF TradesOf, Order, Executes
  <2>2. e <= Order(o).quantity
    <3>1. o \in Placed' /\ R \in SUBSET traded'
      BY DEF Executes, Placed
    <3>2. /\ left'[o] \in Nat /\ left'[o] + Executed(o, traded') <= Order(o).quantity
      BY <2>1, <3>1 DEF TradingInv, EngineFits
    <3>3. traded' \in SUBSET Fill /\ IsFiniteSet(traded')
      BY DEF TradingInv, MoneyInv, SettledInv, Typed, EngineTyped
    <3>4. e <= Executed(o, traded') /\ Executed(o, traded') \in Nat
      BY <3>1, <3>3, ExecutedGrows DEF e
    <3> QED BY <1>1, <1>2, <3>2, <3>4
  <2>3. EngineStatus(o, e) \in Open => e # Order(o).quantity
    <3>1. ASSUME e = Order(o).quantity
          PROVE  EngineStatus(o, e) = "Filled"
      BY <1>1, <3>1 DEF EngineStatus
    <3>2. "Filled" \notin Open
      BY DEF Open
    <3> QED BY <3>1, <3>2
  <2>4. EngineStatus(o, e) = "New" => e = 0 /\ RestsAtEngine(o)
    BY DEF EngineStatus
  <2>5. EngineStatus(o, e) \in Open => e < Order(o).quantity
    BY <1>1, <1>2, <2>2, <2>3
  <2>6. EngineStatus(o, e) = "New" =>
          Order(o).kind = "Limit" /\ left'[o] + e = Order(o).quantity
    BY <1>1, <1>4, <2>4 DEF RestsAtEngine
  <2>7. e = Executed(o, R)
    BY DEF e
  <2> QED BY <1>4, <2>1, <2>5, <2>6, <2>7 DEF Reported
<1> QED BY <1>1, <1>2, <1>4, <1>6, <1>7, <1>8

(* What the engine executes is no more than was locked for it. *)
LEMMA ExecutesCovers ==
  ASSUME TradingInv, TradingInv', CoverInv, Notes, NEW o \in Ids, NEW R, Executes(o, R)
  PROVE  Kept
<1>1. UNCHANGED <<asked, rows, memory, list, cancel, settled, accounts>>
  BY DEF Executes
<1>2. o \in Placed /\ Lockable(o) /\ LocalTyped
  BY AtPlaced DEF Executes
<1>3. \A x \in Clean' : x \in Placed /\ x \in Clean
  <2>1. \A x \in Clean' : x \in Placed
    BY <1>1 DEF Clean, Placed
  <2> QED BY <1>1, <2>1, CleanStays DEF CoverInv
<1>4. \A t \in settled : t \in traded /\ t.taker # o
  BY DEF TradingInv, MoneyInv, SettledInv, Typed, EngineTyped, Places, PlaceOK, Unsettled,
         Executes, Early
<1>5. TradesOK'
  <2> SUFFICES ASSUME NEW t \in traded'
               PROVE  /\ Sides(t.maker) # Sides(t.taker)
                      /\ t.price = Order(t.maker).price
                      /\ Sides(t.taker) = "Buy" /\ Order(t.taker).kind # "Market" =>
                           t.price <= Order(t.taker).price
    BY <1>1 DEF TradesOK, Sides, Order
  <2>1. CASE t \in traded
    BY <2>1 DEF CoverInv, TradesOK
  <2>2. CASE t \in R
    BY <2>2 DEF Executes, Facing, Crosses
  <2> QED BY <2>1, <2>2 DEF Executes
<1>6. PendingHeld'
  <2> SUFFICES ASSUME NEW t \in traded', t \notin settled
               PROVE  t.maker \in disturbed' \/ Pending(t)'
    BY <1>1 DEF PendingHeld
  <2>1. CASE t \in traded
    <3>1. t.maker \in disturbed \/ Pending(t)
      BY <2>1 DEF CoverInv, PendingHeld
    <3>2. Pending(t) => t.taker # o
      BY DEF Pending, Executes, Working, AtFill
    <3>3. t.taker \in Ids
      BY <2>1 DEF TradingInv, MoneyInv, SettledInv, Typed, EngineTyped, Fill
    <3>4. Pending(t) => Pending(t)'
      BY <3>2, <3>3 DEF Pending, Executes
    <3> QED BY <3>1, <3>4 DEF Notes
  <2>2. CASE t \in R
    <3>1. place'[o].status # "Refused"
      BY <2>2, ReportSays
    <3> QED BY <2>2, <3>1 DEF Pending, Executes, Working
  <2> QED BY <2>1, <2>2 DEF Executes
<1>7. ListOnce'
  BY <1>1 DEF CoverInv, ListOnce
<1>8. ASSUME NEW x \in Clean', x # o
      PROVE  Served(x)' /\ Listed(x)' /\ Needs(x)' = Needs(x)
  <2>1. CASE \A t \in R : t.maker # x
    BY <1>8, <2>1, BystanderStays
  <2>2. CASE \E t \in R : t.maker = x
    BY <1>8, <2>2, MakerStays
  <2> QED BY <2>1, <2>2
<1>9. ASSUME o \in Clean'
      PROVE  Served(o)' /\ Listed(o)' /\ Needs(o)' = Needs(o)
  <2>1. Served(o) /\ place[o].at = "submit" /\ place'[o].at = "answer"
    BY <1>3, <1>9 DEF CoverInv, Executes
  <2>2. FillsReported(o) = {} /\ FillsReported(o)' = R /\ Making(o)' = Making(o)
    BY DEF FillsReported, Making, Executes, TradingInv, MoneyInv, SettledInv, EngineOK
  <2>3. EstimateLockAmount(o)' = EstimateLockAmount(o) /\ Sides(o)' = Sides(o)
    BY <1>1, TermsStay
  <2>4. /\ place'[o].status = "Refused" => R = {} /\ left'[o] = 0
        /\ left'[o] = 0 \/ place'[o].status \in Open
        /\ Reported(o)'
    <3>1. Making(o) = {}
      BY <2>1 DEF Served, Serving
    <3> QED BY <3>1, ReportSays
  <2>5. Served(o)' /\ Listed(o)'
    BY <1>1, <2>1, <2>2, <2>3, <2>4 DEF Served, Listed, Serving, Working, AtFill
  <2>6. (FillsReported(o) \cap settled)' = {} /\ FillsReported(o) \cap settled = {}
    BY <1>1, <1>4, <2>2 DEF Executes
  <2>7. Needs(o)' = Needs(o)
    BY <1>1, <2>1, <2>3, <2>6 DEF Needs, Serving, Working
  <2> QED BY <2>5, <2>7
<1>10. \A x \in Clean' : x \in Clean /\ Needs(x)' = Needs(x)
  BY <1>3, <1>8, <1>9, NeedsAreInt
<1>11. Provided'
  BY <1>1, <1>10, ProvidedStill DEF CoverInv, Notes
<1> QED BY <1>5, <1>6, <1>7, <1>8, <1>9, <1>11 DEF Kept

LEMMA SubmitCovers ==
  ASSUME TradingInv, TradingInv', CoverInv, Notes, NEW o \in Ids, Submit(o)
  PROVE  Kept
<1>1. CASE o \in Range(seen) \/ (Order(o).kind # "Market" /\ Order(o).price = NoPrice)
  <2>1. /\ place' = [place EXCEPT ![o].at = "answer", ![o].status = "Refused"]
        /\ UNCHANGED engine
    BY <1>1 DEF Submit
  <2> QED BY <2>1, RefusedSubmitCovers
<1>2. CASE ~(o \in Range(seen) \/ (Order(o).kind # "Market" /\ Order(o).price = NoPrice))
  BY <1>2, SubmitExecutes, ExecutesCovers
<1> QED BY <1>1, <1>2

-----------------------------------------------------------------------------
(* Settling the fills *)

(* The maker of the fill that a placement looks after, if it is clean.     *)
LEMMA CleanMaker ==
  ASSUME TradingInv, CoverInv, Notes, NEW o \in Ids, place[o].at \in AtFill, UNCHANGED asked,
         NEW m, m = Head(place[o].fills).maker, m \in Clean'
  PROVE  /\ m \in Clean /\ m \in Ids /\ m \in Placed /\ m # o /\ Lockable(m)
         /\ place[m].at = "done" /\ cancel[m].at \in {"none", "done"}
         /\ \A q \in Ids : q # o => ~Updates(q, m)
         /\ Served(m) /\ Known(m)
         /\ m \in Range(list) => InList(m)
         /\ m \notin Range(list) => OutOfList(m)
         /\ FillsReported(m) \subseteq settled
<1>1. m \in Placed /\ asked'[m] = asked[m] /\ Noted
  BY DEF Clean, Placed, CoverInv
<1>2. m \in Clean /\ Lockable(m)
  BY <1>1, CleanStays
<1>3. /\ m \in Ids /\ m # o /\ place[m].at = "done" /\ cancel[m].at \in {"none", "done"}
      /\ \A q \in Ids : q # o => ~Updates(q, m)
  BY <1>1, <1>2, HeadMaker
<1>4. Served(m) /\ Listed(m)
  BY <1>2 DEF CoverInv
<1> QED BY <1>1, <1>2, <1>3, <1>4 DEF Served, Listed

(* A trade of a placement that has gone past its settlement is applied     *)
(* unless the placement is about to.                                       *)
LEMMA TakersOwn ==
  ASSUME TradingInv, NEW o \in Ids, place[o].at \in AtFill, NEW t, t = Head(place[o].fills)
  PROVE  /\ t \in traded /\ t.taker = o /\ t \in Fill /\ t.maker \in Placed /\ t.maker # o
         /\ t.maker \in Ids
         /\ place[o].at = "settle" => t \notin settled
         /\ place[o].at # "settle" => t \in settled
         /\ place[o].at = "apply" => t \notin AppliedTrades
         /\ \A q \in Ids : q # o /\ place[q].at = "apply" => t # Head(place[q].fills)
<1>1. /\ t \in traded /\ t.taker = o /\ t \in Fill /\ t.maker \in Placed /\ t.maker # o
      /\ t.maker \in Ids /\ t = place[o].fills[1] /\ 1 \in DOMAIN place[o].fills
  BY FirstFill DEF TradingInv, MoneyInv
<1>2. AtFillOK(o)
  BY DEF TradingInv, MoneyInv, SettledInv, Places, PlaceOK
<1>3. \A q \in Ids : q # o /\ place[q].at = "apply" => t # Head(place[q].fills)
  <2>1. \A q \in Ids : place[q].at = "apply" => Head(place[q].fills).taker = q
    BY FirstFill DEF TradingInv, MoneyInv, AtFill
  <2> QED BY <1>1, <2>1
<1> QED BY <1>1, <1>2, <1>3 DEF AtFillOK, AtFill, AppliedTrades

(* The next fill, or the end of the loop: nothing is lost. *)
LEMMA FillsGo ==
  ASSUME TradingInv, NEW o \in Ids, place[o].at \in AtFill, settled \subseteq settled',
         Head(place[o].fills) \in settled', NextFill(o)
  PROVE  /\ GoesOn(o) /\ \A q \in Ids : q # o => place'[q] = place[q]
         /\ place'[o].at \in {"settle", "write"} /\ place'[o].status = place[o].status
<1>1. /\ place[o].fills \in Seq(Fill) /\ place[o].fills # << >>
      /\ Len(place[o].fills) \in Nat \ {0} /\ DOMAIN place[o].fills = 1..Len(place[o].fills)
      /\ Head(place[o].fills) = place[o].fills[1]
  BY FirstFill DEF TradingInv, MoneyInv
<1>2. LocalTyped
  BY DEF TradingInv, MoneyInv, SettledInv, Typed
<1>3. /\ \A q \in Ids : q # o => place'[q] = place[q]
      /\ place'[o].fills = Tail(place[o].fills) /\ place'[o].status = place[o].status
      /\ place'[o].at = IF place'[o].fills = << >> THEN "write" ELSE "settle"
  BY <1>1, <1>2, NextFillSays
<1> DEFINE s == place[o].fills
<1>4. /\ Tail(s) \in Seq(Fill) /\ Len(Tail(s)) = Len(s) - 1
      /\ \A i \in 1..Len(s) - 1 : Tail(s)[i] = s[i + 1]
  <2> HIDE DEF s
  <2> QED BY <1>1, HeadTailProperties DEF s
<1> HIDE DEF s
<1>5. DOMAIN Tail(s) = 1..Len(s) - 1
  BY <1>4, LenProperties
<1>6. ASSUME NEW i \in 1..Len(s), i # 1
      PROVE  s[i] \in Range(Tail(s)) /\ Tail(s) # << >>
  <2>1. i - 1 \in 1..Len(s) - 1 /\ (i - 1) + 1 = i /\ Len(s) - 1 > 0
    BY <1>1, <1>6 DEF s
  <2>2. Tail(s)[i - 1] = s[i]
    BY <1>4, <2>1
  <2>3. Tail(s) # << >>
    BY <1>4, <2>1, EmptySeq
  <2> QED BY <1>5, <2>1, <2>2, <2>3 DEF Range
<1>7. ASSUME NEW t \in Range(s)
      PROVE  t \in settled' \/ (place'[o].at \in AtFill /\ t \in Range(place'[o].fills))
  <2>1. PICK i \in 1..Len(s) : t = s[i]
    BY <1>1 DEF Range, s
  <2>2. CASE i = 1
    BY <1>1, <2>1, <2>2 DEF s
  <2>3. CASE i # 1
    BY <1>3, <1>6, <2>1, <2>3 DEF s, AtFill
  <2> QED BY <2>2, <2>3
<1> QED BY <1>3, <1>7 DEF GoesOn, s

(* What a step leaves of the orders that are not in the fill. *)
LEMMA OutOfFill ==
  ASSUME TradingInv, NEW o \in Ids, UNCHANGED asked,
         NEW m, m = Head(place[o].fills).maker,
         place'[o].at \in {"apply"} \cup Releasing => Head(place'[o].fills).maker = m,
         \A q \in Ids : q # m => memory'[q] = memory[q] /\ rows'[q] = rows[q],
         \A q \in Range(list') : q \in Range(list),
         \A s \in settled' : s \in settled \/ (s.maker = m /\ s.taker = o)
  PROVE  \A x \in Clean' : x \in {o, m} \/ Apart(o, x)
<1> SUFFICES ASSUME NEW x \in Clean', x \notin {o, m} PROVE Apart(o, x)
  OBVIOUS
<1>1. x \in Ids
  BY OrderFound DEF Clean, Placed, TradingInv, MoneyInv, SettledInv, Typed
<1> QED BY <1>1 DEF Apart, Elsewhere

(* The taker, while its fills are looked after. *)
LEMMA TakerStays ==
  ASSUME TradingInv, CoverInv, Notes, NEW o \in Ids, place[o].at \in AtFill, o \in Clean',
         UNCHANGED <<asked, engine>>, memory'[o] = memory[o],
         place'[o].at \in AtFill \cup {"write"}, place'[o].status = place[o].status
  PROVE  /\ Served(o)' /\ Listed(o)'
         /\ Needs(o) = memory[o].locked
                       - Worth(Sides(o), TakerFeeBps, FillsReported(o) \cap settled)
         /\ Needs(o)' = memory[o].locked
                        - Worth(Sides(o), TakerFeeBps, FillsReported(o) \cap settled')
         /\ settled' = settled => Needs(o)' = Needs(o)
<1>1. o \in Placed
  BY AtPlaced DEF AtFill
<1>2. Served(o)
  BY <1>1, CleanStays DEF CoverInv
<1>3. Making(o)' = Making(o) /\ FillsReported(o)' = FillsReported(o) /\ left' = left
  BY DEF Making, FillsReported, engine
<1>4. EstimateLockAmount(o)' = EstimateLockAmount(o) /\ Sides(o)' = Sides(o)
  BY TermsStay
<1>5. Reported(o)' <=> Reported(o)
  BY ReportStays
<1>6. Served(o)' /\ Listed(o)'
  BY <1>2, <1>3, <1>4, <1>5 DEF Served, Listed, Serving, Working, AtFill
<1> QED BY <1>3, <1>4, <1>6 DEF Needs, Serving, Working, AtFill

(* What an order books of its trades, while the applied ones stay. *)
LEMMA BookedStays ==
  ASSUME UNCHANGED <<asked, engine>>, NEW m,
         \A t \in Making(m) : t \in AppliedTrades' <=> t \in AppliedTrades
  PROVE  /\ Booked(m)' = Booked(m)
         /\ Executed(m, Booked(m))' = Executed(m, Booked(m))
         /\ Executed(m, TradesOf(m))' = Executed(m, TradesOf(m))
<1>1. Making(m)' = Making(m) /\ FillsReported(m)' = FillsReported(m) /\ TradesOf(m)' = TradesOf(m)
  BY ReportStays
<1>2. Booked(m)' = Booked(m)
  BY <1>1 DEF Booked
<1> QED BY <1>1, <1>2

(* The settlement takes from both wallets what the trade costs; the        *)
(* taker's and the maker's needs fall by as much.                          *)
LEMMA SettleCovers ==
  ASSUME TradingInv, TradingInv', CoverInv, Notes, NEW o \in Ids, Settle(o)
  PROVE  Kept
<1>0. PICK t, m : t = Head(place[o].fills) /\ m = t.maker
  OBVIOUS
<1> DEFINE a == FillWorth(Sides(o), TakerFeeBps, t)
           b == FillWorth(Sides(m), MakerFeeBps, t)
<1>1. /\ place[o].at = "settle" /\ WalletPost(Wanted(o)) /\ Goto(o, "apply")
      /\ settled' = settled \cup {t}
      /\ UNCHANGED <<asked, rows, memory, list, cancel, engine>>
  BY <1>0 DEF Settle, database, local
<1>2. /\ o \in Placed /\ LocalTyped /\ TradesOK /\ Provided /\ place[o].at \in AtFill
  BY <1>1, AtPlaced DEF CoverInv, AtFill
<1>3. /\ place'[o].at = "apply" /\ place'[o].status = place[o].status
      /\ place'[o].fills = place[o].fills /\ \A q \in Ids : q # o => place'[q] = place[q]
  BY <1>1, <1>2, GotoSays DEF Stages, AtFill
<1>4. /\ t \in traded /\ t.taker = o /\ t \in Fill /\ m \in Placed /\ m # o /\ m \in Ids
      /\ t \notin settled /\ \A q \in Ids : q # o /\ place[q].at = "apply" => t # Head(place[q].fills)
  BY <1>0, <1>1, <1>2, TakersOwn
<1>5. /\ WalletOf(o) # WalletOf(m) /\ BothMove(o, -a, m, -b) /\ a \in Nat /\ b \in Nat
  BY <1>0, <1>1, <1>2, SettlePosted
<1>6. GoesOn(o) /\ settled \subseteq settled' /\ ListOnce'
  BY <1>1, <1>3 DEF GoesOn, AtFill, CoverInv, ListOnce
<1>7. \A x \in Clean' : x \in {o, m} \/ Apart(o, x)
  BY <1>0, <1>1, <1>3, <1>4, OutOfFill
<1>8. /\ TradesOK' /\ PendingHeld'
      /\ \A x \in Clean' : x \in Clean /\ x \in Placed
      /\ \A x \in Clean' : x \in {o, m} \/ (Served(x)' /\ Listed(x)' /\ Needs(x)' = Needs(x))
  <2>1. o \in {o, m}
    OBVIOUS
  <2> QED BY <1>1, <1>3, <1>6, <1>7, <2>1, TouchedOnly
<1>9. /\ settled \in SUBSET traded /\ traded \in SUBSET Fill
      /\ \A S \in SUBSET settled : S \in SUBSET Fill /\ IsFiniteSet(S)
  BY FS_Subset DEF TradingInv, MoneyInv, SettledInv, Typed, EngineTyped
<1>10. ASSUME o \in Clean'
       PROVE  Served(o)' /\ Listed(o)' /\ Needs(o)' - Needs(o) = -a
  <2> DEFINE S == FillsReported(o) \cap settled
             w == Worth(Sides(o), TakerFeeBps, S)
  <2>1. /\ Served(o)' /\ Listed(o)'
        /\ Needs(o) = memory[o].locked - w
        /\ Needs(o)' = memory[o].locked
                       - Worth(Sides(o), TakerFeeBps, FillsReported(o) \cap settled')
    BY <1>1, <1>2, <1>3, <1>10, TakerStays DEF AtFill
  <2>2. FillsReported(o) \cap settled' = S \cup {t}
    BY <1>1, <1>4 DEF FillsReported
  <2>3. S \in SUBSET Fill /\ IsFiniteSet(S) /\ t \notin S /\ TakerFeeBps \in Nat
    BY <1>4, <1>9 DEF TakerFeeBps
  <2> HIDE DEF S
  <2>4. Worth(Sides(o), TakerFeeBps, S \cup {t}) = w + a
    BY <1>4, <2>3, WorthAdds
  <2>5. w \in Nat
    BY <2>3, WorthType
  <2>6. memory[o].locked \in Int
    BY <1>2, NeedsType
  <2>7. Needs(o)' = memory[o].locked - (w + a)
    BY <2>1, <2>2, <2>4
  <2> HIDE DEF w, a
  <2> QED BY <1>5, <2>1, <2>5, <2>6, <2>7
<1>11. ASSUME m \in Clean'
       PROVE  Served(m)' /\ Listed(m)' /\ Needs(m)' - Needs(m) = -b
  <2>1. /\ place[m].at = "done" /\ cancel[m].at \in {"none", "done"}
        /\ \A q \in Ids : q # o => ~Updates(q, m)
        /\ m \in Range(list) => InList(m)
        /\ m \notin Range(list) => OutOfList(m)
        /\ FillsReported(m) \subseteq settled
    BY <1>0, <1>1, <1>2, <1>11, CleanMaker
  <2>2. m \in Range(list) /\ InList(m)
    <3>1. t \in Making(m) /\ t \notin AppliedTrades
      BY <1>0, <1>4 DEF Making, AppliedTrades
    <3> QED BY <2>1, <3>1 DEF OutOfList, Dead
  <2>3. \A q \in Ids : ~Updates(q, m) /\ ~Updates(q, m)'
    BY <1>1, <1>3, <2>1 DEF Updates, Releasing
  <2>4. /\ Sides(m)' = Sides(m) /\ Order(m)' = Order(m)
        /\ RemainingLock(m, memory[m].filled)' = RemainingLock(m, memory[m].filled)
    BY <1>1, TermsStay
  <2>5. Known(m)'
    BY <1>1, <2>1, <2>3 DEF Known
  <2>18. /\ t \notin AppliedTrades /\ t \notin AppliedTrades'
         /\ \A s \in settled : s # t => (s \in AppliedTrades' <=> s \in AppliedTrades)
    BY <1>0, <1>1, <1>3, <1>4 DEF AppliedTrades
  <2>19. \A s \in Making(m) : s \in AppliedTrades' <=> s \in AppliedTrades
    BY <1>1, <2>18 DEF AppliedTrades
  <2>20. /\ Executed(m, Booked(m))' = Executed(m, Booked(m))
         /\ Executed(m, TradesOf(m))' = Executed(m, TradesOf(m)) /\ left' = left
    BY <1>1, <2>19, BookedStays DEF engine
  <2>21. place'[m] = place[m]
    BY <1>3, <1>4
  <2>6. InList(m)'
    BY <1>1, <2>1, <2>2, <2>3, <2>4, <2>20, <2>21 DEF InList
  <2>7. Listed(m)'
    BY <1>1, <2>2, <2>5, <2>6 DEF Listed
  <2>8. place'[m].at = "done" /\ FillsReported(m)' = FillsReported(m) /\ Making(m)' = Making(m)
    BY <1>1, <1>3, <1>4, <2>1 DEF FillsReported, Making, engine
  <2>9. Served(m)'
    BY <1>1, <2>1, <2>8 DEF Served, Serving, Working, AtFill
  <2> DEFINE S == Making(m) \cap (settled \ AppliedTrades)
             w == Worth(Sides(m), MakerFeeBps, S)
  <2>10. (Making(m) \cap (settled \ AppliedTrades))' = S \cup {t}
    <3>1. t \in settled' /\ t \notin AppliedTrades'
      BY <1>0, <1>1, <1>3 DEF AppliedTrades
    <3>3. t \in Making(m)
      BY <1>0, <1>4 DEF Making
    <3> QED BY <1>1, <1>4, <2>8, <2>18, <3>1, <3>3
  <2>11. S \in SUBSET Fill /\ IsFiniteSet(S) /\ t \notin S /\ MakerFeeBps \in Nat
    BY <1>4, <1>9 DEF MakerFeeBps
  <2>12. Needs(m) = memory[m].locked - w
    BY <2>1, <2>2 DEF Needs, Serving, Working, AtFill
  <2>13. Needs(m)' = memory[m].locked - Worth(Sides(m), MakerFeeBps, S \cup {t})
    <3> HIDE DEF S
    <3> QED BY <1>1, <2>2, <2>4, <2>8, <2>10 DEF Needs, Serving, Working, AtFill
  <2> HIDE DEF S
  <2>14. Worth(Sides(m), MakerFeeBps, S \cup {t}) = w + b
    BY <1>4, <2>11, WorthAdds
  <2>15. w \in Nat
    BY <2>11, WorthType
  <2>16. memory[m].locked \in Int
    BY <1>4, NeedsType
  <2>17. Needs(m)' = memory[m].locked - (w + b)
    BY <2>13, <2>14
  <2> HIDE DEF w, b
  <2> QED BY <1>5, <2>7, <2>9, <2>12, <2>15, <2>16, <2>17
<1> HIDE DEF a, b
<1>12. \A x \in Clean' : Served(x)' /\ Listed(x)'
  BY <1>8, <1>10, <1>11
<1>13. \A x \in Clean' : x \in Clean /\ (x \notin {o, m} => Needs(x)' = Needs(x))
  BY <1>8, NeedsAreInt
<1>14. Provided'
  <2>1. -a \in Int /\ -b \in Int
    BY <1>5
  <2> QED BY <1>1, <1>2, <1>4, <1>5, <1>10, <1>11, <1>13, <2>1, ProvidedBoth DEF Notes
<1> QED BY <1>6, <1>8, <1>12, <1>14 DEF Kept

(* The fill of a maker that is in the list, at its own price, takes no     *)
(* more off its lock than was there for it.                                *)
LEMMA FillFitsLock ==
  ASSUME TradingInv, NEW m \in Placed, Lockable(m), NEW f \in Nat, NEW q \in Nat, NEW l \in Int,
         l >= RemainingLock(m, f)
  PROVE  /\ Cost(m, Order(m).price, q, MakerFeeBps) \in Nat
         /\ l - Cost(m, Order(m).price, q, MakerFeeBps) >= RemainingLock(m, f + q)
<1> DEFINE r == Rate(m, TakerFeeBps)
           k == Rate(m, MakerFeeBps)
           n == Order(m).quantity
<1>1. /\ r \in Nat /\ k \in Nat /\ k <= r /\ n \in Nat
      /\ \A i \in Int : Cost(m, Order(m).price, i, MakerFeeBps) = k * i
      /\ \A i \in Int : RemainingLock(m, i) = r * (n - i)
  BY RateSays DEF TradingInv, MoneyInv, SettledInv
<1> HIDE DEF r, k, n
<1>2. /\ Cost(m, Order(m).price, q, MakerFeeBps) = k * q
      /\ RemainingLock(m, f) = r * (n - f) /\ RemainingLock(m, f + q) = r * (n - (f + q))
  BY <1>1
<1>3. k * q \in Nat /\ r * q \in Nat /\ k * q <= r * q
  BY <1>1
<1>4. r * (n - (f + q)) = r * (n - f) - r * q /\ r * (n - f) \in Int
  BY <1>1
<1> QED BY <1>2, <1>3, <1>4

(* The maker's object takes off what the settlement has taken. *)
LEMMA MakerAppliedCovers ==
  ASSUME TradingInv, TradingInv', CoverInv, Notes, NEW o \in Ids, ApplyFill(o),
         Head(place[o].fills).maker \in Range(list)
  PROVE  Kept
<1>0. PICK t, m : t = Head(place[o].fills) /\ m = t.maker
  OBVIOUS
<1> DEFINE f == memory[m].filled + t.quantity
           status == IF f >= Order(m).quantity THEN "Filled" ELSE "PartiallyFilled"
           c == Cost(m, t.price, t.quantity, MakerFeeBps)
<1>1. /\ place[o].at = "apply" /\ place[o].at \in AtFill
      /\ memory' = [memory EXCEPT ![m] =
                      [filled |-> f, status |-> status, locked |-> memory[m].locked - c]]
      /\ place' = [place EXCEPT ![o].at = "writeMaker",
                                ![o].pending = [filled |-> f, status |-> status]]
      /\ UNCHANGED <<asked, rows, list, cancel, engine, settled, accounts>>
  BY <1>0 DEF ApplyFill, database, ledgerVars, AtFill
<1>2. /\ o \in Placed /\ LocalTyped /\ TradesOK
  BY <1>1, AtPlaced DEF CoverInv
<1>3. /\ t \in traded /\ t.taker = o /\ t \in Fill /\ m \in Placed /\ m # o /\ m \in Ids
      /\ t \in settled /\ t \notin AppliedTrades
      /\ \A q \in Ids : q # o /\ place[q].at = "apply" => t # Head(place[q].fills)
  BY <1>0, <1>1, <1>2, TakersOwn
<1> HIDE DEF f, status, c
<1>4. /\ place'[o].at = "writeMaker" /\ place'[o].status = place[o].status
      /\ place'[o].fills = place[o].fills /\ \A q \in Ids : q # o => place'[q] = place[q]
      /\ place'[o].pending = [filled |-> f, status |-> status]
  BY <1>1, <1>2 DEF LocalTyped, Placement
<1>5. /\ \A q \in Ids : q # m => memory'[q] = memory[q]
      /\ memory'[m].filled = f /\ memory'[m].status = status
      /\ memory'[m].locked = memory[m].locked - c
  BY <1>1, <1>2, <1>3 DEF LocalTyped
<1>6. GoesOn(o) /\ settled \subseteq settled' /\ ListOnce'
  BY <1>1, <1>4 DEF GoesOn, AtFill, CoverInv, ListOnce
<1>7. \A x \in Clean' : x \in {o, m} \/ Apart(o, x)
  <2>1. \A q : q # m => memory'[q] = memory[q]
    BY <1>1
  <2> QED BY <1>0, <1>1, <1>3, <1>4, <2>1, OutOfFill
<1>8. OnlyMoves(o, 0) /\ o \in {o, m}
  BY <1>1, NothingMoves
<1>9. ASSUME o \in Clean'
      PROVE  Served(o)' /\ Listed(o)' /\ Needs(o)' = Needs(o)
  BY <1>1, <1>2, <1>3, <1>4, <1>5, <1>9, TakerStays DEF AtFill
<1>10. ASSUME m \in Clean'
       PROVE  Served(m)' /\ Listed(m)' /\ Needs(m)' = Needs(m)
  <2>1. /\ place[m].at = "done" /\ cancel[m].at \in {"none", "done"} /\ Lockable(m)
        /\ \A q \in Ids : q # o => ~Updates(q, m)
        /\ InList(m) /\ m \in Range(list)
        /\ FillsReported(m) \subseteq settled
    BY <1>0, <1>1, <1>2, <1>10, CleanMaker
  <2>2. \A q \in Ids : ~Updates(q, m)
    BY <1>1, <2>1 DEF Updates, Releasing
  <2>3. \A q \in Ids : Updates(q, m)' => q = o
    BY <1>4, <2>1 DEF Updates
  <2>4. Updates(o, m)'
    BY <1>0, <1>4 DEF Updates, Releasing
  <2>5. /\ Sides(m)' = Sides(m) /\ Order(m)' = Order(m)
        /\ RemainingLock(m, memory[m].filled)' = RemainingLock(m, f)
    BY <1>1, <1>5, TermsStay
  <2>6. status \in {"PartiallyFilled", "Filled"} /\ (status = "Filled" => f >= Order(m).quantity)
    BY DEF status
  <2>7. Known(m)'
    <3>1. place'[o].pending = [filled |-> memory'[m].filled, status |-> memory'[m].status]
      BY <1>4, <1>5
    <3>2. /\ m \in Range(list')
          /\ memory'[m].status = IF memory'[m].filled < Order(m)'.quantity
                                 THEN "PartiallyFilled" ELSE "Filled"
      <4>1. f \in Nat /\ Order(m).quantity \in Nat
        <5>1. memory[m].filled \in Nat /\ t.quantity \in Nat
          BY <1>2, <1>3 DEF LocalTyped, StoredOrder, Fill
        <5>2. Order(m).quantity \in Nat
          BY <1>3, OrderFound DEF TradingInv, MoneyInv, SettledInv, Typed
        <5> QED BY <5>1, <5>2 DEF f
      <4>2. status = IF f < Order(m).quantity THEN "PartiallyFilled" ELSE "Filled"
        BY <4>1 DEF status
      <4> QED BY <1>1, <1>5, <2>1, <2>5, <4>2
    <3>3. cancel'[m].at \notin {"unlock", "close"}
      BY <1>1, <2>1
    <3> QED BY <1>4, <2>3, <3>1, <3>2, <3>3 DEF Known
  <2>8. memory[m].locked - c >= RemainingLock(m, f) /\ c \in Nat
    <3>1. memory[m].filled \in Nat /\ t.quantity \in Nat /\ memory[m].locked \in Int
      BY <1>2, <1>3 DEF LocalTyped, StoredOrder, Fill
    <3>2. memory[m].locked >= RemainingLock(m, memory[m].filled)
      BY <2>1 DEF InList
    <3>3. c = Cost(m, Order(m).price, t.quantity, MakerFeeBps)
      BY <1>0, <1>2, <1>3 DEF c, TradesOK
    <3> QED BY <1>3, <2>1, <3>1, <3>2, <3>3, FillFitsLock DEF f
  <2>9. rows[m].status \in Open
    BY <2>1, <2>2 DEF InList
  <2>10. InList(m)'
    <3>1. cancel'[m].at \notin {"find", "unlock", "close"} /\ rows'[m].status \in Open
      BY <1>1, <2>1, <2>9
    <3>2. memory'[m].locked >= RemainingLock(m, memory[m].filled)'
      BY <1>5, <2>5, <2>8
    <3>3. memory'[m].status = "Filled" => memory'[m].filled >= Order(m)'.quantity
      BY <1>5, <2>5, <2>6
    <3>4. memory'[m].filled = Executed(m, Booked(m))'
      <4> DEFINE B == Booked(m)
      <4>1. Making(m)' = Making(m) /\ FillsReported(m)' = FillsReported(m)
        BY <1>1, ReportStays
      <4>2. \A s \in settled : s # t => (s \in AppliedTrades' <=> s \in AppliedTrades)
        BY <1>0, <1>1, <1>4 DEF AppliedTrades
      <4>3. t \in AppliedTrades'
        BY <1>1, <1>3, <1>4 DEF AppliedTrades
      <4>4. t \in Making(m) /\ t \notin FillsReported(m)
        BY <1>0, <1>3 DEF Making, FillsReported
      <4>5. Making(m) \cap AppliedTrades' = (Making(m) \cap AppliedTrades) \cup {t}
        BY <1>1, <1>3, <4>2, <4>3, <4>4 DEF AppliedTrades
      <4>6. Booked(m)' = B \cup {t} /\ t \notin B
        BY <1>3, <4>1, <4>4, <4>5 DEF Booked
      <4>7. B \in SUBSET Fill /\ IsFiniteSet(B)
        <5>1. B \in SUBSET traded
          BY DEF Booked, FillsReported, Making
        <5> QED BY <5>1, FS_Subset DEF TradingInv, MoneyInv, SettledInv, Typed, EngineTyped
      <4>8. memory[m].filled = Executed(m, B)
        BY <2>1 DEF InList
      <4> HIDE DEF B
      <4>9. Executed(m, B \cup {t}) = Executed(m, B) + t.quantity
        BY <1>0, <1>3, <4>6, <4>7, ExecutedAdds
      <4>10. Executed(m, Booked(m))' = Executed(m, B \cup {t})
        BY <4>6
      <4> QED BY <1>5, <4>8, <4>9, <4>10 DEF f
    <3>5. Executed(m, TradesOf(m))' = Executed(m, TradesOf(m)) /\ left' = left
      <4>1. TradesOf(m)' = TradesOf(m)
        BY <1>1, ReportStays
      <4> QED BY <1>1, <4>1 DEF engine
    <3>6. place'[m] = place[m]
      BY <1>3, <1>4
    <3> QED BY <1>4, <2>1, <2>4, <2>5, <3>1, <3>2, <3>3, <3>4, <3>5, <3>6 DEF InList
  <2>11. Listed(m)'
    BY <1>1, <2>1, <2>7, <2>10 DEF Listed
  <2>12. place'[m].at = "done" /\ FillsReported(m)' = FillsReported(m) /\ Making(m)' = Making(m)
    BY <1>1, <1>3, <1>4, <2>1 DEF FillsReported, Making, engine
  <2>13. Served(m)'
    BY <1>1, <2>1, <2>12 DEF Served, Serving, Working, AtFill
  <2> DEFINE S == Making(m) \cap (settled \ AppliedTrades)
             U == (Making(m) \cap (settled \ AppliedTrades))'
             w == Worth(Sides(m), MakerFeeBps, U)
  <2>14. S = U \cup {t} /\ t \notin U
    <3>1. t \in AppliedTrades'
      BY <1>1, <1>3, <1>4 DEF AppliedTrades
    <3>2. ASSUME NEW s \in settled, s # t
          PROVE  s \in AppliedTrades' <=> s \in AppliedTrades
      BY <1>0, <1>1, <1>4, <3>2 DEF AppliedTrades
    <3>3. t \in Making(m)
      BY <1>0, <1>3 DEF Making
    <3> QED BY <1>1, <1>3, <2>12, <3>1, <3>2, <3>3
  <2>15. U \in SUBSET Fill /\ IsFiniteSet(U) /\ MakerFeeBps \in Nat
    <3>1. U \in SUBSET settled
      BY <1>1
    <3>2. settled \in SUBSET Fill /\ IsFiniteSet(settled)
      BY FS_Subset DEF TradingInv, MoneyInv, SettledInv, Typed, EngineTyped
    <3> HIDE DEF U
    <3> QED BY <3>1, <3>2, FS_Subset DEF MakerFeeBps
  <2>16. Needs(m) = memory[m].locked - Worth(Sides(m), MakerFeeBps, S)
    BY <2>1 DEF Needs, Serving, Working, AtFill
  <2>17. Needs(m)' = (memory[m].locked - c) - w
    BY <1>1, <1>5, <2>1, <2>5, <2>12 DEF Needs, Serving, Working, AtFill
  <2> HIDE DEF S, U
  <2>18. Worth(Sides(m), MakerFeeBps, S) = w + FillWorth(Sides(m), MakerFeeBps, t) /\ w \in Nat
    BY <1>3, <2>14, <2>15, WorthAdds, WorthType
  <2>19. FillWorth(Sides(m), MakerFeeBps, t) = c
    BY DEF FillWorth, c, Cost
  <2>20. memory[m].locked \in Int
    BY <1>3, NeedsType
  <2> HIDE DEF w
  <2>21. Needs(m) = memory[m].locked - (w + c)
    BY <2>16, <2>18, <2>19
  <2>22. Needs(m)' = Needs(m)
    BY <2>8, <2>17, <2>18, <2>20, <2>21
  <2> QED BY <2>11, <2>13, <2>22
<1>11. /\ \A x \in Clean' : x \in {o, m} => /\ Served(x)' /\ Listed(x)'
                                            /\ x # o => Needs(x)' = Needs(x)
       /\ o \in Clean' => Needs(o)' - Needs(o) = 0
  BY <1>2, <1>3, <1>9, <1>10, NeedsAreInt
<1>12. UNCHANGED <<asked, engine, cancel>> /\ 0 \in Int
  BY <1>1
<1> QED BY <1>2, <1>4, <1>6, <1>7, <1>8, <1>11, <1>12, OneMoves

(* A maker that is not in the list has no trade that is still to apply.    *)
LEMMA NoMakerToApplyCovers ==
  ASSUME TradingInv, TradingInv', CoverInv, Notes, NEW o \in Ids, ApplyFill(o),
         Head(place[o].fills).maker \notin Range(list)
  PROVE  Kept
<1>0. PICK t, m : t = Head(place[o].fills) /\ m = t.maker
  OBVIOUS
<1>1. /\ place[o].at = "apply" /\ place[o].at \in AtFill /\ NextFill(o)
      /\ UNCHANGED <<asked, rows, memory, list, cancel, engine, settled, accounts>>
  BY <1>0 DEF ApplyFill, database, ledgerVars, AtFill
<1>2. o \in Placed
  BY <1>1, AtPlaced
<1>3. /\ t \in traded /\ t.taker = o /\ t \in Fill /\ m \in Placed /\ m # o /\ m \in Ids
      /\ t \in settled /\ t \notin AppliedTrades
  BY <1>0, <1>1, <1>2, TakersOwn
<1>4. /\ GoesOn(o) /\ \A q \in Ids : q # o => place'[q] = place[q]
      /\ place'[o].at \in {"settle", "write"} /\ place'[o].status = place[o].status
  BY <1>0, <1>1, <1>3, FillsGo
<1>5. settled \subseteq settled' /\ ListOnce'
  BY <1>1 DEF CoverInv, ListOnce
<1>6. \A x \in Clean' : x \in {o, m} \/ Apart(o, x)
  BY <1>0, <1>1, <1>4, OutOfFill DEF Releasing
<1>7. OnlyMoves(o, 0) /\ o \in {o, m}
  BY <1>1, NothingMoves
<1>8. ASSUME o \in Clean'
      PROVE  Served(o)' /\ Listed(o)' /\ Needs(o)' = Needs(o)
  BY <1>1, <1>2, <1>4, <1>8, TakerStays DEF AtFill
<1>9. m \notin Clean'
  <2> SUFFICES ASSUME m \in Clean' PROVE FALSE
    OBVIOUS
  <2>1. OutOfList(m)
    BY <1>0, <1>1, CleanMaker
  <2>2. t \in Making(m)
    BY <1>0, <1>3 DEF Making
  <2> QED BY <1>3, <2>1, <2>2 DEF OutOfList, Dead
<1>10. /\ \A x \in Clean' : x \in {o, m} => /\ Served(x)' /\ Listed(x)'
                                            /\ x # o => Needs(x)' = Needs(x)
       /\ o \in Clean' => Needs(o)' - Needs(o) = 0
  BY <1>2, <1>8, <1>9, NeedsAreInt
<1>11. UNCHANGED <<asked, engine, cancel>> /\ 0 \in Int
  BY <1>1
<1> QED BY <1>2, <1>4, <1>5, <1>6, <1>7, <1>10, <1>11, OneMoves

(* Its row is written; a filled maker's lock is to be released. *)
LEMMA WriteMakerCovers ==
  ASSUME TradingInv, TradingInv', CoverInv, Notes, NEW o \in Ids, WriteMaker(o)
  PROVE  Kept
<1>0. PICK t, m : t = Head(place[o].fills) /\ m = t.maker
  OBVIOUS
<1>1. /\ place[o].at = "writeMaker" /\ place[o].at \in AtFill
      /\ rows' = [rows EXCEPT ![m] = place[o].pending]
      /\ IF memory[m].status = "Filled"
         THEN place' = [place EXCEPT ![o].at = "unlockMaker", ![o].release = memory[m].locked]
         ELSE NextFill(o)
      /\ UNCHANGED <<asked, memory, list, cancel, engine, settled, accounts>>
  BY <1>0 DEF WriteMaker, local, ledgerVars, AtFill
<1>2. /\ o \in Placed /\ LocalTyped
  BY <1>1, AtPlaced
<1>3. /\ t \in traded /\ t.taker = o /\ t \in Fill /\ m \in Placed /\ m # o /\ m \in Ids
      /\ t \in settled
  BY <1>0, <1>1, <1>2, TakersOwn
<1>4. /\ \A q \in Ids : q # m => rows'[q] = rows[q]
      /\ rows'[m] = place[o].pending
  BY <1>1, <1>2, <1>3 DEF LocalTyped
<1>5. /\ GoesOn(o) /\ \A q \in Ids : q # o => place'[q] = place[q]
      /\ place'[o].status = place[o].status
      /\ \/ /\ memory[m].status # "Filled" /\ place'[o].at \in {"settle", "write"}
         \/ /\ memory[m].status = "Filled" /\ place'[o].at = "unlockMaker"
            /\ place'[o].fills = place[o].fills /\ place'[o].release = memory[m].locked
  <2>1. CASE memory[m].status = "Filled"
    <3>1. /\ place'[o].at = "unlockMaker" /\ place'[o].fills = place[o].fills
          /\ place'[o].release = memory[m].locked /\ place'[o].status = place[o].status
          /\ \A q \in Ids : q # o => place'[q] = place[q]
      BY <1>1, <1>2, <2>1 DEF LocalTyped, Placement
    <3> QED BY <2>1, <3>1 DEF GoesOn, AtFill
  <2>2. CASE memory[m].status # "Filled"
    <3>1. NextFill(o) /\ settled \subseteq settled' /\ Head(place[o].fills) \in settled'
      BY <1>0, <1>1, <1>3, <2>2
    <3> QED BY <1>1, <2>2, <3>1, FillsGo
  <2> QED BY <2>1, <2>2
<1>6. settled \subseteq settled' /\ ListOnce'
  BY <1>1 DEF CoverInv, ListOnce
<1>7. \A x \in Clean' : x \in {o, m} \/ Apart(o, x)
  <2>1. \A q : q # m => rows'[q] = rows[q]
    BY <1>1
  <2> QED BY <1>0, <1>1, <1>5, <2>1, OutOfFill DEF Releasing
<1>8. OnlyMoves(o, 0) /\ o \in {o, m}
  BY <1>1, NothingMoves
<1>9. ASSUME o \in Clean'
      PROVE  Served(o)' /\ Listed(o)' /\ Needs(o)' = Needs(o)
  BY <1>1, <1>2, <1>5, <1>9, TakerStays DEF AtFill
<1>10. ASSUME m \in Clean'
       PROVE  Served(m)' /\ Listed(m)' /\ Needs(m)' = Needs(m)
  <2>1. /\ place[m].at = "done" /\ cancel[m].at \in {"none", "done"} /\ Known(m)
        /\ \A q \in Ids : q # o => ~Updates(q, m)
        /\ FillsReported(m) \subseteq settled
        /\ m \in Range(list) => InList(m)
    BY <1>0, <1>1, <1>2, <1>10, CleanMaker
  <2>2. Updates(o, m)
    BY <1>0, <1>1 DEF Updates, Releasing
  <2>3. /\ place[o].pending = [filled |-> memory[m].filled, status |-> memory[m].status]
        /\ m \in Range(list)
        /\ memory[m].status = IF memory[m].filled < Order(m).quantity
                              THEN "PartiallyFilled" ELSE "Filled"
    BY <1>1, <2>1, <2>2 DEF Known
  <2>4. \A q \in Ids : Updates(q, m)' => q = o /\ memory[m].status = "Filled"
    BY <1>0, <1>5, <2>1 DEF Updates, Releasing
  <2>5. InList(m)
    BY <2>1, <2>3
  <2>6. /\ Sides(m)' = Sides(m) /\ Order(m)' = Order(m)
        /\ RemainingLock(m, memory[m].filled)' = RemainingLock(m, memory[m].filled)
    BY <1>1, TermsStay
  <2>7. memory[m].status = "Filled" => memory[m].filled >= Order(m).quantity
    BY <2>5 DEF InList
  <2>8. Known(m)'
    <3>1. cancel'[m].at \notin {"unlock", "close"}
      BY <1>1, <2>1
    <3>2. ASSUME NEW q \in Ids, Updates(q, m)'
          PROVE  /\ place'[q].at = "unlockMaker" /\ place'[q].release = memory'[m].locked
                 /\ memory'[m].filled >= Order(m)'.quantity /\ m \in Range(list')
                 /\ rows'[m].status = "Filled"
      BY <1>1, <1>4, <1>5, <2>3, <2>4, <2>6, <2>7, <3>2
    <3> QED BY <3>1, <3>2 DEF Known
  <2>9. InList(m)'
    <3>1. cancel'[m].at \notin {"find", "unlock", "close"}
      BY <1>1, <2>1
    <3>2. memory'[m].locked >= RemainingLock(m, memory[m].filled)'
      BY <1>1, <2>1, <2>5, <2>6 DEF InList
    <3>3. rows'[m].filled = memory'[m].filled /\ rows'[m].status = memory[m].status
      BY <1>1, <1>4, <2>3
    <3>4. (\A q \in Ids : ~(Updates(q, m)' /\ place'[q].at = "unlockMaker")) => rows'[m].status \in Open
      <4>1. CASE memory[m].status = "Filled"
        <5>1. Updates(o, m)' /\ place'[o].at = "unlockMaker"
          BY <1>0, <1>5, <4>1 DEF Updates, Releasing
        <5> QED BY <5>1
      <4>2. CASE memory[m].status = "PartiallyFilled"
        BY <3>3, <4>2 DEF Open
      <4> QED BY <2>3, <4>1, <4>2
    <3>5. (\A q \in Ids : ~Updates(q, m)') => memory'[m].filled < Order(m)'.quantity
      <4>1. CASE memory[m].status = "Filled"
        <5>1. Updates(o, m)'
          BY <1>0, <1>5, <4>1 DEF Updates, Releasing
        <5> QED BY <5>1
      <4>2. CASE memory[m].status # "Filled"
        BY <1>1, <2>3, <2>6, <4>2
      <4> QED BY <4>1, <4>2
    <3>6. /\ Executed(m, Booked(m))' = Executed(m, Booked(m))
          /\ Executed(m, TradesOf(m))' = Executed(m, TradesOf(m)) /\ left' = left
      <4>1. AppliedTrades' = AppliedTrades
        BY <1>1, <1>5 DEF AppliedTrades
      <4> QED BY <1>1, <4>1, BookedStays DEF engine
    <3>7. place'[m] = place[m]
      BY <1>3, <1>5
    <3> QED BY <1>1, <2>1, <2>5, <2>6, <2>7, <3>1, <3>2, <3>3, <3>4, <3>5, <3>6, <3>7 DEF InList
  <2>10. Listed(m)'
    BY <1>1, <2>3, <2>8, <2>9 DEF Listed
  <2>11. place'[m].at = "done" /\ FillsReported(m)' = FillsReported(m) /\ Making(m)' = Making(m)
    BY <1>1, <1>3, <1>5, <2>1 DEF FillsReported, Making, engine
  <2>12. Served(m)'
    BY <1>1, <2>1, <2>11 DEF Served, Serving, Working, AtFill
  <2>13. AppliedTrades' = AppliedTrades
    BY <1>1, <1>5 DEF AppliedTrades
  <2>14. Needs(m)' = Needs(m)
    BY <1>1, <2>1, <2>3, <2>6, <2>11, <2>13 DEF Needs, Serving, Working, AtFill
  <2> QED BY <2>10, <2>12, <2>14
<1>11. /\ \A x \in Clean' : x \in {o, m} => /\ Served(x)' /\ Listed(x)'
                                            /\ x # o => Needs(x)' = Needs(x)
       /\ o \in Clean' => Needs(o)' - Needs(o) = 0
  BY <1>2, <1>3, <1>9, <1>10, NeedsAreInt
<1>12. UNCHANGED <<asked, engine, cancel>> /\ 0 \in Int
  BY <1>1
<1> QED BY <1>2, <1>5, <1>6, <1>7, <1>8, <1>11, <1>12, OneMoves

(* The release of what is left of it, and the splice. *)
LEMMA UnlockMakerCovers ==
  ASSUME TradingInv, TradingInv', CoverInv, Notes, NEW o \in Ids, UnlockMaker(o)
  PROVE  Kept
<1>0. PICK t, m, n : t = Head(place[o].fills) /\ m = t.maker /\ n = place[o].release
  OBVIOUS
<1> DEFINE d == IF n > 0 THEN -n ELSE 0
<1>1. /\ place[o].at = "unlockMaker" /\ place[o].at \in AtFill /\ NextFill(o)
      /\ memory' = [memory EXCEPT ![m].locked = 0] /\ list' = Spliced(m)
      /\ WalletPost(UnlockBalance(m, n))
      /\ UNCHANGED <<asked, rows, cancel, engine, settled>>
  BY <1>0 DEF UnlockMaker, database, Wanted, AtFill
<1>2. /\ o \in Placed /\ LocalTyped /\ ListOnce /\ list \in Seq(Ids) /\ OrdersTyped
      /\ accounts \in [Wallets -> Account]
  BY <1>1, AtPlaced DEF CoverInv, LocalTyped, TradingInv, MoneyInv, SettledInv, Typed, FeesPaid
<1>3. /\ t \in traded /\ t.taker = o /\ t \in Fill /\ m \in Placed /\ m # o /\ m \in Ids
      /\ t \in settled
  BY <1>0, <1>1, <1>2, TakersOwn
<1>4. n \in Int
  BY <1>0, <1>2 DEF LocalTyped, Placement
<1>5. OnlyMoves(m, d) /\ d \in Int
  BY <1>1, <1>2, <1>3, <1>4, UnlockPosted
<1>6. /\ GoesOn(o) /\ \A q \in Ids : q # o => place'[q] = place[q]
      /\ place'[o].at \in {"settle", "write"} /\ place'[o].status = place[o].status
  BY <1>0, <1>1, <1>3, FillsGo
<1>7. /\ ListOnce' /\ m \notin Range(list') /\ \A q \in Range(list') : q \in Range(list)
  BY <1>1, <1>2, SplicedOnce, SplicedType DEF ListOnce
<1>8. settled \subseteq settled' /\ o \in {o, m}
  BY <1>1
<1>9. \A x \in Clean' : x \in {o, m} \/ Apart(o, x)
  <2>1. \A q : q # m => memory'[q] = memory[q]
    BY <1>1
  <2> QED BY <1>0, <1>1, <1>6, <1>7, <2>1, OutOfFill DEF Releasing
<1>10. ASSUME o \in Clean'
       PROVE  Served(o)' /\ Listed(o)' /\ Needs(o)' = Needs(o)
  <2>1. memory'[o] = memory[o]
    BY <1>1, <1>3
  <2> QED BY <1>1, <1>2, <1>6, <1>10, <2>1, TakerStays DEF AtFill
<1>11. ASSUME m \in Clean'
       PROVE  Served(m)' /\ Listed(m)' /\ Needs(m)' - Needs(m) = d
  <2>1. /\ place[m].at = "done" /\ cancel[m].at \in {"none", "done"} /\ Known(m) /\ Lockable(m)
        /\ \A q \in Ids : q # o => ~Updates(q, m)
        /\ FillsReported(m) \subseteq settled
        /\ m \in Range(list) => InList(m)
        /\ m \notin Range(list) => OutOfList(m)
    BY <1>0, <1>1, <1>2, <1>11, CleanMaker
  <2>2. Updates(o, m)
    BY <1>0, <1>1 DEF Updates, Releasing
  <2>3. /\ n = memory[m].locked /\ memory[m].filled >= Order(m).quantity
        /\ m \in Range(list) \/ memory[m].locked = 0
        /\ rows[m].status = "Filled"
    BY <1>0, <1>1, <2>1, <2>2 DEF Known
  <2>4. Dead(m)
    BY <1>3, <2>3, FullIsDead
  <2>5. \A q \in Ids : ~Updates(q, m)'
    BY <1>6, <2>1 DEF Updates, Releasing
  <2>6. Known(m)'
    BY <1>1, <2>1, <2>5 DEF Known
  <2>7. /\ FillsReported(m)' = FillsReported(m) /\ Making(m)' = Making(m) /\ left' = left
        /\ AppliedTrades' = AppliedTrades /\ Order(m)' = Order(m) /\ place'[m].at = "done"
    BY <1>1, <1>3, <1>6, <2>1 DEF FillsReported, Making, engine, AppliedTrades, Order
  <2>8. rows[m].filled = Executed(m, Booked(m))
    <3>1. CASE m \in Range(list)
      <4>1. \A q \in Ids : ~(Updates(q, m) /\ place[q].at = "writeMaker")
        BY <1>1, <2>1
      <4> QED BY <2>1, <3>1, <4>1 DEF InList
    <3>2. CASE m \notin Range(list)
      BY <2>1, <3>2 DEF OutOfList
    <3> QED BY <3>1, <3>2
  <2>15. Executed(m, Booked(m))' = Executed(m, Booked(m))
    BY <1>1, <2>7, BookedStays
  <2>9. OutOfList(m)'
    BY <1>1, <2>1, <2>3, <2>4, <2>7, <2>8, <2>15 DEF OutOfList, Dead, Open
  <2>10. Listed(m)'
    BY <1>7, <2>6, <2>9 DEF Listed
  <2>11. Served(m)'
    BY <1>1, <2>1, <2>7 DEF Served, Serving, Working, AtFill
  <2>12. Needs(m)' = 0
    BY <1>7, <2>7 DEF Needs
  <2>13. Needs(m) = n
    BY <1>3, <2>1, <2>3, <2>4, DeadNeeds
  <2>14. n >= 0
    <3>1. CASE m \in Range(list)
      <4>1. /\ memory[m].locked >= RemainingLock(m, memory[m].filled)
            /\ RemainingLock(m, memory[m].filled) \in Nat
        BY <1>3, <2>1, <3>1, RestIsNat DEF InList
      <4> QED BY <1>4, <2>3, <4>1
    <3>2. CASE m \notin Range(list)
      BY <2>3, <3>2
    <3> QED BY <3>1, <3>2
  <2> QED BY <1>4, <2>10, <2>11, <2>12, <2>13, <2>14
<1> HIDE DEF d
<1>12. \A x \in Clean' : x \in {o, m} => /\ Served(x)' /\ Listed(x)'
                                         /\ x # m => Needs(x)' = Needs(x)
  BY <1>2, <1>3, <1>10, <1>11, NeedsAreInt
<1>13. UNCHANGED <<asked, engine, cancel>> /\ (m \in Clean' => Needs(m)' - Needs(m) = d)
  BY <1>1, <1>11
<1> QED BY <1>3, <1>5, <1>6, <1>7, <1>8, <1>9, <1>12, <1>13, OneMoves

-----------------------------------------------------------------------------
(* Cancellations *)

(* A step of a cancellation changes what is said of its own order alone. *)
LEMMA CancelOthers ==
  ASSUME TradingInv, CoverInv, Notes, NEW o \in Ids,
         UNCHANGED <<asked, place, seen, traded, settled>>,
         \A q \in Ids : q # o => /\ memory'[q] = memory[q] /\ rows'[q] = rows[q]
                                 /\ cancel'[q] = cancel[q] /\ left'[q] = left[q],
         \A q \in Range(list') : q \in Range(list)
  PROVE  /\ TradesOK' /\ PendingHeld'
         /\ \A x \in Clean' : x \in Clean /\ x \in Placed
         /\ \A x \in Clean' : x # o => Served(x)' /\ Listed(x)' /\ Needs(x)' = Needs(x)
<1>1. SettledInv /\ TradesOK /\ Noted /\ PendingHeld
  BY DEF TradingInv, MoneyInv, CoverInv
<1>2. TradesOK'
  BY <1>1, TradesStay
<1>3. PendingHeld'
  <2>1. \A q \in Ids : place'[q] = place[q] \/ GoesOn(q)
    OBVIOUS
  <2>2. settled \subseteq settled'
    OBVIOUS
  <2> QED BY <1>1, <2>1, <2>2, PendingStays
<1>4. \A x \in Clean' : x \in Placed /\ x \in Clean
  <2>1. \A x \in Clean' : x \in Placed
    BY DEF Clean, Placed
  <2> QED BY <1>1, <2>1, CleanStays
<1>5. ASSUME NEW x \in Clean', x # o
      PROVE  Served(x)' /\ Listed(x)' /\ Needs(x)' = Needs(x)
  <2>1. /\ x \in Clean /\ x \in Placed /\ x \in Ids /\ Alone(x) /\ x \notin Dropped
        /\ place[x].at \in Serving \cup {"lock", "rest", "done"}
    BY <1>1, <1>4, CleanStays
  <2>2. Served(x) /\ Listed(x)
    BY <2>1 DEF CoverInv
  <2>3. LeftAlone(x)
    <3>1. FillsReported(x)' = FillsReported(x) /\ Making(x)' = Making(x)
          /\ AppliedTrades' = AppliedTrades
      BY DEF FillsReported, Making, AppliedTrades
    <3> QED BY <1>5, <2>1, <3>1 DEF LeftAlone
  <2>4. CASE x \in Range(list') <=> x \in Range(list)
    BY <2>2, <2>3, <2>4, FrameKeeps DEF Frame
  <2>5. CASE x \in Range(list) /\ x \notin Range(list')
    <3>1. place[x].at = "done"
      <4>1. place[x].at \in {"done", "failed"}
        BY <2>5 DEF TradingInv, MoneyInv, SettledInv, ListOK
      <4> QED BY <2>1, <4>1 DEF Serving, Working, AtFill
    <3> QED BY <2>1, <2>2, <2>3, <2>5, <3>1, DropKeeps
  <2> QED BY <2>4, <2>5
<1> QED BY <1>2, <1>3, <1>4, <1>5

(* It keeps the invariant if it does so for that order. *)
LEMMA CancelMoves ==
  ASSUME TradingInv, TradingInv', CoverInv, Notes, NEW o \in Ids, o \in Placed,
         UNCHANGED <<asked, place, seen, traded, settled>>,
         \A q \in Ids : q # o => /\ memory'[q] = memory[q] /\ rows'[q] = rows[q]
                                 /\ cancel'[q] = cancel[q] /\ left'[q] = left[q],
         \A q \in Range(list') : q \in Range(list),
         ListOnce', NEW d \in Int, OnlyMoves(o, d),
         o \in Clean' => Served(o)' /\ Listed(o)' /\ Needs(o)' - Needs(o) = d
  PROVE  Kept
<1>1. /\ TradesOK' /\ PendingHeld'
      /\ \A x \in Clean' : x \in Clean /\ x \in Placed
      /\ \A x \in Clean' : x # o => Served(x)' /\ Listed(x)' /\ Needs(x)' = Needs(x)
  BY CancelOthers
<1>2. \A x \in Clean' : x \in Clean /\ (x # o => Needs(x)' = Needs(x))
  BY <1>1, NeedsAreInt
<1>3. Provided'
  BY <1>2, ProvidedOne DEF CoverInv, Notes
<1> QED BY <1>1, <1>3 DEF Kept

(* What is executed and booked of an order does not change with that. *)
LEMMA CancelReports ==
  ASSUME UNCHANGED <<asked, place, traded, settled>>, NEW o
  PROVE  /\ Executed(o, Booked(o))' = Executed(o, Booked(o))
         /\ Executed(o, TradesOf(o))' = Executed(o, TradesOf(o))
         /\ place'[o] = place[o] /\ Order(o)' = Order(o)
<1>1. FillsReported(o)' = FillsReported(o) /\ Making(o)' = Making(o) /\ AppliedTrades' = AppliedTrades
  BY DEF FillsReported, Making, AppliedTrades
<1>2. Booked(o)' = Booked(o) /\ TradesOf(o)' = TradesOf(o)
  BY <1>1 DEF Booked, TradesOf
<1> QED BY <1>1, <1>2 DEF Order

(* An undisturbed order that is being cancelled has been placed, and no    *)
(* placement is at work on it.                                             *)
LEMMA CancelsAlone ==
  ASSUME TradingInv, CoverInv, Notes, NEW o \in Clean', UNCHANGED asked,
         o \in Cancelling \/ (o \in Cancelling' /\ place' = place)
  PROVE  /\ o \in Clean /\ o \in Placed /\ Lockable(o) /\ o \in Ids
         /\ \A q \in Ids : ~Works(q, o) /\ ~Updates(q, o)
         /\ place[o].at = "done" /\ Served(o) /\ Known(o)
         /\ o \in Range(list) => InList(o)
         /\ o \notin Range(list) => OutOfList(o)
         /\ FillsReported(o) \subseteq settled /\ ~(cancel'[o].attempts > 0)
         /\ cancel'[o].at # "failed"
<1>1. o \in Placed /\ asked'[o] = asked[o] /\ Noted
  BY DEF Clean, Placed, CoverInv
<1>2. /\ o \in Clean /\ Lockable(o) /\ o \in Ids /\ Alone(o) /\ Alone(o)'
      /\ place[o].at \in Serving \cup {"lock", "rest", "done"}
      /\ ~(cancel'[o].attempts > 0) /\ cancel'[o].at # "failed"
  BY <1>1, CleanStays
<1>3. \A q \in Ids : ~Works(q, o)
  <2>1. CASE o \in Cancelling
    BY <1>2, <2>1 DEF Alone
  <2>2. CASE o \in Cancelling' /\ place' = place
    <3>1. \A q \in Ids : Works(q, o)' <=> Works(q, o)
      BY <2>2 DEF Works, InFlight
    <3> QED BY <1>2, <2>2, <3>1 DEF Alone
  <2> QED BY <2>1, <2>2
<1>4. \A q \in Ids : ~Updates(q, o)
  BY <1>3, FillWorks DEF Updates, Releasing, AtFill
<1>5. place[o].at = "done"
  <2>1. o \notin InFlight
    BY <1>2, <1>3 DEF Works
  <2> QED BY <1>2, <2>1 DEF InFlight, Serving, Working, AtFill
<1>6. Served(o) /\ Listed(o)
  BY <1>2 DEF CoverInv
<1> QED BY <1>1, <1>2, <1>3, <1>4, <1>5, <1>6 DEF Served, Listed

LEMMA StartCancelCovers ==
  ASSUME TradingInv, TradingInv', CoverInv, Notes, NEW o \in Ids, StartCancel(o)
  PROVE  Kept
<1>1. /\ o \in Placed /\ cancel[o].at = "none" /\ cancel' = [cancel EXCEPT ![o].at = "ask"]
      /\ UNCHANGED <<asked, rows, memory, list, place, left, seen, traded, settled, accounts>>
  BY DEF StartCancel, database, local, engine, ledgerVars
<1>2. /\ \A q \in Ids : q # o => cancel'[q] = cancel[q]
      /\ cancel'[o].at = "ask"
  BY <1>1 DEF TradingInv, MoneyInv, CancelsOK, Cancellation
<1>3. OnlyMoves(o, 0) /\ ListOnce' /\ 0 \in Int /\ \A q \in Range(list') : q \in Range(list)
  BY <1>1, NothingMoves DEF CoverInv, ListOnce
<1>4. ASSUME o \in Clean'
      PROVE  Served(o)' /\ Listed(o)' /\ Needs(o)' = Needs(o)
  <2>1. o \in Cancelling'
    BY <1>2 DEF Cancelling
  <2>2. /\ \A q \in Ids : ~Updates(q, o)
        /\ place[o].at = "done"
        /\ o \in Range(list) => InList(o)
        /\ o \notin Range(list) => OutOfList(o)
        /\ FillsReported(o) \subseteq settled
    BY <1>1, <1>4, <2>1, CancelsAlone
  <2>3. /\ FillsReported(o)' = FillsReported(o) /\ Making(o)' = Making(o)
        /\ AppliedTrades' = AppliedTrades
        /\ \A q \in Ids : ~Updates(q, o)'
    BY <1>1, <2>2 DEF FillsReported, Making, AppliedTrades, Updates
  <2>4. /\ Sides(o)' = Sides(o) /\ Order(o)' = Order(o)
        /\ RemainingLock(o, memory[o].filled)' = RemainingLock(o, memory[o].filled)
    BY <1>1, TermsStay
  <2>5. Served(o)'
    BY <1>1, <2>2, <2>3 DEF Served, Serving, Working, AtFill
  <2>6. Known(o)'
    BY <1>2, <2>3 DEF Known
  <2>7. o \in Range(list) => InList(o)'
    BY <1>1, <1>2, <2>2, <2>3, <2>4, CancelReports DEF InList
  <2>8. o \notin Range(list) => OutOfList(o)'
    BY <1>1, <1>2, <2>2, <2>3, <2>4, CancelReports DEF OutOfList, Dead
  <2>9. Listed(o)'
    BY <1>1, <2>6, <2>7, <2>8 DEF Listed
  <2>10. Needs(o)' = Needs(o)
    BY <1>1, <2>3, <2>4 DEF Needs
  <2> QED BY <2>5, <2>9, <2>10
<1>5. o \in Clean' => Served(o)' /\ Listed(o)' /\ Needs(o)' - Needs(o) = 0
  BY <1>1, <1>4, NeedsAreInt
<1> QED BY <1>1, <1>2, <1>3, <1>5, CancelMoves

(* The engine answers that the order was there: nothing of it is executed  *)
(* any more.                                                               *)
LEMMA CancelAtEngineCovers ==
  ASSUME TradingInv, TradingInv', CoverInv, Notes, NEW o \in Ids, CancelAtEngine(o)
  PROVE  Kept
<1>1. /\ cancel[o].at = "ask" /\ left' = [left EXCEPT ![o] = 0]
      /\ UNCHANGED <<asked, rows, memory, list, place, seen, traded, settled, accounts>>
      /\ cancel \in [Ids -> Cancellation] /\ o \in Placed
  BY DEF CancelAtEngine, database, local, ledgerVars, TradingInv, MoneyInv, CancelsOK
<1>2. /\ \A q \in Ids : q # o => cancel'[q] = cancel[q]
      /\ cancel'[o].attempts > 0 \/ cancel'[o].at = IF left[o] > 0 THEN "find" ELSE "done"
  BY <1>1 DEF CancelAtEngine, Cancellation
<1>3. /\ left'[o] = 0 /\ \A q \in Ids : q # o => left'[q] = left[q]
  BY <1>1 DEF TradingInv, MoneyInv, SettledInv, Typed, EngineTyped
<1>4. OnlyMoves(o, 0) /\ ListOnce' /\ 0 \in Int /\ \A q \in Range(list') : q \in Range(list)
  BY <1>1, NothingMoves DEF CoverInv, ListOnce
<1>5. ASSUME o \in Clean'
      PROVE  Served(o)' /\ Listed(o)' /\ Needs(o)' = Needs(o)
  <2>1. o \in Cancelling
    BY <1>1 DEF Cancelling
  <2>2. /\ o \in Clean /\ \A q \in Ids : ~Works(q, o) /\ ~Updates(q, o)
        /\ place[o].at = "done" /\ ~(cancel'[o].attempts > 0)
        /\ o \in Range(list) => InList(o)
        /\ o \notin Range(list) => OutOfList(o)
        /\ FillsReported(o) \subseteq settled
    BY <1>1, <1>5, <2>1, CancelsAlone
  <2>3. /\ FillsReported(o)' = FillsReported(o) /\ Making(o)' = Making(o)
        /\ AppliedTrades' = AppliedTrades
        /\ \A q \in Ids : ~Updates(q, o)'
    BY <1>1, <2>2 DEF FillsReported, Making, AppliedTrades, Updates
  <2>4. /\ Sides(o)' = Sides(o) /\ Order(o)' = Order(o)
        /\ RemainingLock(o, memory[o].filled)' = RemainingLock(o, memory[o].filled)
    BY <1>1, TermsStay
  <2>5. ASSUME NEW t \in Making(o)
        PROVE  t \in AppliedTrades
    <3>1. t \in traded /\ t.maker = o /\ t.taker \in Ids
      BY <2>5 DEF Making, TradingInv, MoneyInv, SettledInv, Typed, EngineTyped, Fill
    <3>2. ~Pending(t)
      <4>1. Pending(t) => Works(t.taker, o)
        BY <3>1 DEF Pending, Works, InFlight, Working, AtFill
      <4> QED BY <2>2, <3>1, <4>1
    <3>3. t \in settled
      BY <2>2, <3>1, <3>2 DEF CoverInv, PendingHeld, Clean
    <3>4. ASSUME NEW q \in Ids, place[q].at = "apply", t = Head(place[q].fills) PROVE FALSE
      <4>1. Works(q, o)
        BY <3>1, <3>4, FillWorks DEF AtFill
      <4> QED BY <2>2, <4>1
    <3> QED BY <3>3, <3>4 DEF AppliedTrades
  <2>6. Dead(o)'
    BY <1>3, <2>3, <2>5 DEF Dead
  <2>7. Served(o)'
    BY <1>1, <2>2, <2>3 DEF Served, Serving, Working, AtFill
  <2>8. /\ cancel'[o].at \in {"find", "done"}
        /\ cancel'[o].at = "done" => left[o] = 0
    <3>1. left[o] \in Nat
      BY <1>1 DEF TradingInv, EngineFits
    <3> QED BY <1>2, <2>2, <3>1
  <2>9. Known(o)'
    BY <2>3, <2>8 DEF Known
  <2>10. o \in Range(list) => InList(o)'
    BY <1>1, <1>3, <2>2, <2>3, <2>4, <2>6, <2>8, CancelReports DEF InList
  <2>11. o \notin Range(list) => OutOfList(o)'
    BY <1>1, <2>2, <2>4, <2>6, <2>8, CancelReports DEF OutOfList
  <2>12. Listed(o)'
    BY <1>1, <2>9, <2>10, <2>11 DEF Listed
  <2>13. Needs(o)' = Needs(o)
    BY <1>1, <2>3, <2>4 DEF Needs
  <2> QED BY <2>7, <2>12, <2>13
<1>6. o \in Clean' => Served(o)' /\ Listed(o)' /\ Needs(o)' - Needs(o) = 0
  BY <1>1, <1>5, NeedsAreInt
<1> QED BY <1>1, <1>2, <1>3, <1>4, <1>6, CancelMoves

LEMMA FindCancelledCovers ==
  ASSUME TradingInv, TradingInv', CoverInv, Notes, NEW o \in Ids, FindCancelled(o)
  PROVE  Kept
<1>1. /\ cancel[o].at = "find"
      /\ cancel' = [cancel EXCEPT ![o].at = IF o \in Range(list) THEN "unlock" ELSE "done",
                                  ![o].release = memory[o].locked]
      /\ UNCHANGED <<asked, rows, memory, list, place, left, seen, traded, settled, accounts>>
      /\ cancel \in [Ids -> Cancellation] /\ o \in Placed
  BY DEF FindCancelled, database, local, engine, ledgerVars, TradingInv, MoneyInv, CancelsOK
<1>2. /\ \A q \in Ids : q # o => cancel'[q] = cancel[q]
      /\ cancel'[o].at = IF o \in Range(list) THEN "unlock" ELSE "done"
      /\ cancel'[o].release = memory[o].locked
  BY <1>1 DEF Cancellation
<1>3. OnlyMoves(o, 0) /\ ListOnce' /\ 0 \in Int /\ \A q \in Range(list') : q \in Range(list)
  BY <1>1, NothingMoves DEF CoverInv, ListOnce
<1>4. ASSUME o \in Clean'
      PROVE  Served(o)' /\ Listed(o)' /\ Needs(o)' = Needs(o)
  <2>1. o \in Cancelling
    BY <1>1 DEF Cancelling
  <2>2. /\ \A q \in Ids : ~Updates(q, o)
        /\ place[o].at = "done"
        /\ o \in Range(list) => InList(o)
        /\ o \notin Range(list) => OutOfList(o)
        /\ FillsReported(o) \subseteq settled
    BY <1>1, <1>4, <2>1, CancelsAlone
  <2>3. /\ FillsReported(o)' = FillsReported(o) /\ Making(o)' = Making(o)
        /\ AppliedTrades' = AppliedTrades
        /\ \A q \in Ids : ~Updates(q, o)'
    BY <1>1, <2>2 DEF FillsReported, Making, AppliedTrades, Updates
  <2>4. /\ Sides(o)' = Sides(o) /\ Order(o)' = Order(o)
        /\ RemainingLock(o, memory[o].filled)' = RemainingLock(o, memory[o].filled)
    BY <1>1, TermsStay
  <2>5. Served(o)'
    BY <1>1, <2>2, <2>3 DEF Served, Serving, Working, AtFill
  <2>6. Known(o)'
    BY <1>1, <1>2, <2>3 DEF Known
  <2>7. o \in Range(list) => InList(o)'
    BY <1>1, <1>2, <2>2, <2>3, <2>4, CancelReports DEF InList, Dead
  <2>8. o \notin Range(list) => OutOfList(o)'
    BY <1>1, <1>2, <2>2, <2>3, <2>4, CancelReports DEF OutOfList, Dead
  <2>9. Listed(o)'
    BY <1>1, <2>6, <2>7, <2>8 DEF Listed
  <2>10. Needs(o)' = Needs(o)
    BY <1>1, <2>3, <2>4 DEF Needs
  <2> QED BY <2>5, <2>9, <2>10
<1>5. o \in Clean' => Served(o)' /\ Listed(o)' /\ Needs(o)' - Needs(o) = 0
  BY <1>1, <1>4, NeedsAreInt
<1> QED BY <1>1, <1>2, <1>3, <1>5, CancelMoves

(* The cancellation gives back what the order has locked. *)
LEMMA UnlockCancelledCovers ==
  ASSUME TradingInv, TradingInv', CoverInv, Notes, NEW o \in Ids, UnlockCancelled(o)
  PROVE  Kept
<1>0. PICK n : n = cancel[o].release
  OBVIOUS
<1> DEFINE d == IF n > 0 THEN -n ELSE 0
<1>1. /\ cancel[o].at = "unlock" /\ WalletPost(UnlockBalance(o, n))
      /\ memory' = [memory EXCEPT ![o].locked = 0, ![o].status = "Cancelled"]
      /\ cancel' = [cancel EXCEPT ![o].at = "close", ![o].release = 0]
      /\ UNCHANGED <<asked, rows, list, place, left, seen, traded, settled>>
      /\ cancel \in [Ids -> Cancellation] /\ o \in Placed
  BY <1>0 DEF UnlockCancelled, database, engine, TradingInv, MoneyInv, CancelsOK
<1>2. /\ LocalTyped /\ OrdersTyped /\ accounts \in [Wallets -> Account] /\ n \in Int
  BY <1>0, <1>1 DEF TradingInv, MoneyInv, SettledInv, Typed, FeesPaid, Cancellation
<1>3. /\ \A q \in Ids : q # o => cancel'[q] = cancel[q] /\ memory'[q] = memory[q]
      /\ cancel'[o].at = "close" /\ memory'[o].locked = 0 /\ memory'[o].status = "Cancelled"
      /\ memory'[o].filled = memory[o].filled
  BY <1>1, <1>2 DEF Cancellation, LocalTyped, StoredOrder
<1>4. OnlyMoves(o, d) /\ d \in Int
  BY <1>1, <1>2, UnlockPosted
<1>5. ListOnce' /\ \A q \in Range(list') : q \in Range(list)
  BY <1>1 DEF CoverInv, ListOnce
<1>6. ASSUME o \in Clean'
      PROVE  Served(o)' /\ Listed(o)' /\ Needs(o)' - Needs(o) = d
  <2>1. o \in Cancelling
    BY <1>1 DEF Cancelling
  <2>2. /\ \A q \in Ids : ~Updates(q, o)
        /\ place[o].at = "done" /\ Known(o) /\ Lockable(o)
        /\ o \in Range(list) => InList(o)
        /\ o \notin Range(list) => OutOfList(o)
        /\ FillsReported(o) \subseteq settled
    BY <1>1, <1>6, <2>1, CancelsAlone
  <2>3. o \in Range(list) /\ InList(o) /\ n = memory[o].locked
    BY <1>0, <1>1, <2>2 DEF OutOfList, Known
  <2>4. /\ FillsReported(o)' = FillsReported(o) /\ Making(o)' = Making(o)
        /\ AppliedTrades' = AppliedTrades
        /\ \A q \in Ids : ~Updates(q, o)'
    BY <1>1, <2>2 DEF FillsReported, Making, AppliedTrades, Updates
  <2>5. Dead(o)
    BY <1>1, <2>3 DEF InList
  <2>6. Served(o)'
    BY <1>1, <2>2, <2>4 DEF Served, Serving, Working, AtFill
  <2>7. Known(o)'
    BY <1>1, <1>3, <2>4 DEF Known
  <2>8. InList(o)'
    BY <1>1, <1>3, <2>2, <2>3, <2>4, <2>5, CancelReports DEF InList, Dead
  <2>9. Listed(o)'
    BY <1>1, <2>3, <2>7, <2>8 DEF Listed
  <2>10. Needs(o) = n
    BY <1>1, <2>2, <2>3, <2>5, DeadNeeds
  <2>11. Needs(o)' = 0 - 0
    <3>1. (Making(o) \cap (settled \ AppliedTrades))' = {}
      BY <2>4, <2>5 DEF Dead
    <3>2. Worth(Sides(o), MakerFeeBps, {}) = 0
      <4>1. {} \in SUBSET Fill /\ IsFiniteSet({}) /\ MakerFeeBps \in Nat
        BY FS_EmptySet DEF MakerFeeBps
      <4> QED BY <4>1, WorthType
    <3>3. Sides(o)' = Sides(o) /\ place'[o].at = "done" /\ o \in Range(list')
      BY <1>1, <2>2, <2>3, TermsStay
    <3> QED BY <1>3, <3>1, <3>2, <3>3 DEF Needs, Serving, Working, AtFill
  <2>12. n >= 0
    <3>1. /\ memory[o].locked >= RemainingLock(o, memory[o].filled)
          /\ RemainingLock(o, memory[o].filled) \in Nat
      BY <1>1, <2>2, <2>3, RestIsNat DEF InList
    <3> QED BY <1>2, <2>3, <3>1
  <2> QED BY <1>2, <2>6, <2>9, <2>10, <2>11, <2>12
<1> HIDE DEF d
<1> QED BY <1>1, <1>3, <1>4, <1>5, <1>6, CancelMoves

LEMMA CloseCancelledCovers ==
  ASSUME TradingInv, TradingInv', CoverInv, Notes, NEW o \in Ids, CloseCancelled(o)
  PROVE  Kept
<1>1. /\ cancel[o].at = "close" /\ rows' = [rows EXCEPT ![o].status = "Cancelled"]
      /\ list' = Spliced(o) /\ cancel' = [cancel EXCEPT ![o].at = "done"]
      /\ UNCHANGED <<asked, memory, place, left, seen, traded, settled, accounts>>
      /\ cancel \in [Ids -> Cancellation] /\ o \in Placed
  BY DEF CloseCancelled, engine, ledgerVars, TradingInv, MoneyInv, CancelsOK
<1>2. LocalTyped /\ list \in Seq(Ids) /\ ListOnce
  BY DEF TradingInv, MoneyInv, SettledInv, Typed, LocalTyped, CoverInv
<1>3. /\ \A q \in Ids : q # o => cancel'[q] = cancel[q] /\ rows'[q] = rows[q]
      /\ cancel'[o].at = "done" /\ rows'[o].status = "Cancelled"
      /\ rows'[o].filled = rows[o].filled
  BY <1>1, <1>2 DEF Cancellation, LocalTyped, OrderEntity
<1>4. /\ ListOnce' /\ o \notin Range(list') /\ \A q \in Range(list') : q \in Range(list)
  BY <1>1, <1>2, SplicedOnce, SplicedType DEF ListOnce
<1>5. OnlyMoves(o, 0) /\ 0 \in Int
  BY <1>1, NothingMoves
<1>6. ASSUME o \in Clean'
      PROVE  Served(o)' /\ Listed(o)' /\ Needs(o)' - Needs(o) = 0
  <2>1. o \in Cancelling
    BY <1>1 DEF Cancelling
  <2>2. /\ \A q \in Ids : ~Updates(q, o)
        /\ place[o].at = "done" /\ Known(o)
        /\ o \in Range(list) => InList(o)
        /\ o \notin Range(list) => OutOfList(o)
        /\ FillsReported(o) \subseteq settled
    BY <1>1, <1>6, <2>1, CancelsAlone
  <2>3. Dead(o) /\ memory[o].locked = 0 /\ rows[o].filled = Executed(o, Booked(o))
    BY <1>1, <2>2 DEF InList, OutOfList, Known
  <2>4. /\ FillsReported(o)' = FillsReported(o) /\ Making(o)' = Making(o)
        /\ AppliedTrades' = AppliedTrades
        /\ \A q \in Ids : ~Updates(q, o)'
    BY <1>1, <2>2 DEF FillsReported, Making, AppliedTrades, Updates
  <2>5. Served(o)'
    BY <1>1, <2>2, <2>4 DEF Served, Serving, Working, AtFill
  <2>6. Known(o)'
    BY <1>3, <2>4 DEF Known
  <2>7. OutOfList(o)'
    BY <1>1, <1>3, <2>3, <2>4, CancelReports DEF OutOfList, Dead, Open
  <2>8. Listed(o)'
    BY <1>4, <2>6, <2>7 DEF Listed
  <2>9. Needs(o)' = 0
    BY <1>1, <1>4, <2>2 DEF Needs
  <2>10. Needs(o) = 0
    BY <1>1, <2>2, <2>3, DeadNeeds
  <2> QED BY <2>5, <2>8, <2>9, <2>10
<1> QED BY <1>1, <1>3, <1>4, <1>5, <1>6, CancelMoves

LEMMA CancelFailsCovers ==
  ASSUME TradingInv, TradingInv', CoverInv, Notes, NEW o \in Ids, CancelFails(o)
  PROVE  Kept
<1>0. PICK n : n = cancel[o].release
  OBVIOUS
<1> DEFINE d == IF n > 0 THEN -n ELSE 0
<1>1. /\ cancel[o].at \in {"unlock", "close"}
      /\ UNCHANGED accounts \/ WalletPost(UnlockBalance(o, n))
      /\ cancel' = [cancel EXCEPT ![o].at = "failed"]
      /\ UNCHANGED <<asked, rows, memory, list, place, left, seen, traded, settled>>
      /\ cancel \in [Ids -> Cancellation] /\ o \in Placed
  BY <1>0 DEF CancelFails, database, local, engine, ledgerVars, TradingInv, MoneyInv, CancelsOK
<1>2. /\ OrdersTyped /\ accounts \in [Wallets -> Account] /\ n \in Int
  BY <1>0, <1>1 DEF TradingInv, MoneyInv, SettledInv, Typed, FeesPaid, Cancellation
<1>3. /\ \A q \in Ids : q # o => cancel'[q] = cancel[q]
      /\ cancel'[o].at = "failed"
  BY <1>1 DEF Cancellation
<1>4. ListOnce' /\ \A q \in Range(list') : q \in Range(list)
  BY <1>1 DEF CoverInv, ListOnce
<1>5. o \notin Clean'
  <2>1. o \in Cancelling
    BY <1>1 DEF Cancelling
  <2> QED BY <1>1, <1>3, <2>1, CancelsAlone
<1>6. CASE UNCHANGED accounts
  <2>1. OnlyMoves(o, 0) /\ 0 \in Int
    BY <1>6, NothingMoves
  <2> QED BY <1>1, <1>3, <1>4, <1>5, <2>1, CancelMoves
<1>7. CASE WalletPost(UnlockBalance(o, n))
  <2>1. OnlyMoves(o, d) /\ d \in Int
    BY <1>1, <1>2, <1>7, UnlockPosted
  <2> HIDE DEF d
  <2> QED BY <1>1, <1>3, <1>4, <1>5, <2>1, CancelMoves
<1> QED BY <1>1, <1>6, <1>7

-----------------------------------------------------------------------------
(* A restart *)

(* After it no request is at work; those that were are failed.             *)
LEMMA RestartSays ==
  ASSUME TradingInv, Restart
  PROVE  /\ UNCHANGED <<asked, rows, left, seen, traded, settled, accounts>>
         /\ \A q \in Ids : /\ q \in InFlight => /\ place'[q].at = "failed"
                                                /\ place'[q].fills = place[q].fills
                           /\ q \notin InFlight => place'[q] = place[q]
                           /\ q \in Cancelling => cancel'[q].at = "failed"
                           /\ q \notin Cancelling => cancel'[q] = cancel[q]
         /\ \A q \in Ids : place'[q].at \in {"none", "done", "failed"}
         /\ AppliedTrades' = settled
<1>1. /\ UNCHANGED <<asked, rows, left, seen, traded, settled, accounts>>
      /\ place' = [o \in Ids |-> IF o \in InFlight THEN [place[o] EXCEPT !.at = "failed"]
                                 ELSE place[o]]
      /\ cancel' = [o \in Ids |-> IF o \in Cancelling THEN [cancel[o] EXCEPT !.at = "failed"]
                                  ELSE cancel[o]]
  BY DEF Restart, database, engine, ledgerVars
<1>2. place \in [Ids -> Placement] /\ cancel \in [Ids -> Cancellation]
  BY DEF TradingInv, MoneyInv, SettledInv, Typed, LocalTyped, CancelsOK
<1>3. \A q \in Ids : /\ q \in InFlight => /\ place'[q].at = "failed"
                                          /\ place'[q].fills = place[q].fills
                     /\ q \notin InFlight => place'[q] = place[q]
                     /\ q \in Cancelling => cancel'[q].at = "failed"
                     /\ q \notin Cancelling => cancel'[q] = cancel[q]
  <2> SUFFICES ASSUME NEW q \in Ids
               PROVE  /\ q \in InFlight => /\ place'[q].at = "failed"
                                           /\ place'[q].fills = place[q].fills
                      /\ q \notin InFlight => place'[q] = place[q]
                      /\ q \in Cancelling => cancel'[q].at = "failed"
                      /\ q \notin Cancelling => cancel'[q] = cancel[q]
    OBVIOUS
  <2>1. place[q] \in Placement /\ cancel[q] \in Cancellation
    BY <1>2
  <2>2. /\ place'[q] = IF q \in InFlight THEN [place[q] EXCEPT !.at = "failed"] ELSE place[q]
        /\ cancel'[q] = IF q \in Cancelling THEN [cancel[q] EXCEPT !.at = "failed"]
                        ELSE cancel[q]
    BY <1>1
  <2> QED BY <2>1, <2>2 DEF Placement, Cancellation
<1>4. \A q \in Ids : place'[q].at \in {"none", "done", "failed"}
  BY <1>3 DEF InFlight
<1>5. AppliedTrades' = settled
  BY <1>1, <1>4 DEF AppliedTrades
<1> QED BY <1>1, <1>3, <1>4, <1>5

(* An order that the restart leaves undisturbed was at rest.               *)
LEMMA RestartFinds ==
  ASSUME TradingInv, CoverInv, Notes, Restart, NEW x \in Clean'
  PROVE  /\ x \in Clean /\ x \in Placed /\ x \in Ids /\ Lockable(x)
         /\ place[x].at = "done" /\ place'[x] = place[x]
         /\ cancel'[x].at \in {"none", "done"} /\ cancel[x].at \in {"none", "done"}
         /\ \A q \in Ids : ~Updates(q, x) /\ ~Updates(q, x)'
         /\ Making(x) \cap settled \subseteq AppliedTrades
         /\ FillsReported(x) \subseteq settled
         /\ x \in Range(list) => InList(x)
         /\ x \notin Range(list) => OutOfList(x)
<1>1. /\ UNCHANGED <<asked, rows, left, seen, traded, settled, accounts>>
      /\ \A q \in Ids : /\ q \in InFlight => /\ place'[q].at = "failed"
                                             /\ place'[q].fills = place[q].fills
                        /\ q \notin InFlight => place'[q] = place[q]
                        /\ q \in Cancelling => cancel'[q].at = "failed"
                        /\ q \notin Cancelling => cancel'[q] = cancel[q]
      /\ \A q \in Ids : place'[q].at \in {"none", "done", "failed"}
  BY RestartSays
<1>2. x \in Placed /\ asked'[x] = asked[x] /\ Noted
  BY <1>1 DEF Clean, Placed, CoverInv
<1>3. /\ x \in Clean /\ x \in Ids /\ Lockable(x)
      /\ place[x].at \in Serving \cup {"lock", "rest", "done"}
      /\ place'[x].at # "failed" /\ cancel'[x].at # "failed"
      /\ cancel[x].at # "failed"
      /\ \A q \in Ids : Lost(q)' => q # x /\ \A t \in Range(place'[q].fills) : t.maker # x
  BY <1>2, CleanStays
<1>4. x \notin InFlight /\ x \notin Cancelling
  BY <1>1, <1>3
<1>5. place[x].at = "done" /\ place'[x] = place[x]
  BY <1>1, <1>3, <1>4 DEF InFlight, Serving, Working, AtFill
<1>6. cancel'[x].at \in {"none", "done"} /\ cancel[x].at \in {"none", "done"}
  BY <1>1, <1>3, <1>4, CancelAt
<1>7. ASSUME NEW q \in Ids, Works(q, x)
      PROVE  FALSE
  <2>1. q \in InFlight /\ q # x
    BY <1>4, <1>7 DEF Works
  <2>2. Lost(q)'
    BY <1>1, <2>1 DEF Lost
  <2>3. \A t \in Range(place[q].fills) : t.maker # x
    BY <1>1, <1>3, <2>1, <2>2
  <2> QED BY <1>7, <2>1, <2>3 DEF Works
<1>8. \A q \in Ids : ~Updates(q, x)
  BY <1>7, FillWorks DEF Updates, Releasing, AtFill
<1>9. \A q \in Ids : ~Updates(q, x)'
  BY <1>1 DEF Updates, Releasing
<1>10. Making(x) \cap settled \subseteq AppliedTrades
  <2> SUFFICES ASSUME NEW t \in Making(x), t \in settled,
                      NEW q \in Ids, place[q].at = "apply", t = Head(place[q].fills)
               PROVE  FALSE
    BY DEF AppliedTrades
  <2>1. t.maker = x
    BY DEF Making
  <2> QED BY <1>7, <2>1, FillWorks DEF AtFill
<1>11. Served(x) /\ Listed(x)
  BY <1>3 DEF CoverInv
<1> QED BY <1>2, <1>3, <1>5, <1>6, <1>8, <1>9, <1>10, <1>11 DEF Served, Listed

LEMMA NoWorth ==
  ASSUME NEW o
  PROVE  Worth(Sides(o), MakerFeeBps, {}) = 0
<1>1. {} \in SUBSET Fill /\ IsFiniteSet({}) /\ MakerFeeBps \in Nat
  BY FS_EmptySet DEF MakerFeeBps
<1> QED BY <1>1, WorthType

(* It locks no more for an order than was locked.                          *)
LEMMA RestartServes ==
  ASSUME TradingInv, CoverInv, Notes, Restart, NEW x \in Clean'
  PROVE  Served(x)' /\ Listed(x)' /\ Needs(x)' <= Needs(x)
<1>1. /\ UNCHANGED <<asked, rows, left, seen, traded, settled, accounts>>
      /\ AppliedTrades' = settled
  BY RestartSays
<1>2. /\ x \in Clean /\ x \in Placed /\ x \in Ids /\ Lockable(x)
      /\ place[x].at = "done" /\ place'[x] = place[x]
      /\ cancel'[x].at \in {"none", "done"} /\ cancel[x].at \in {"none", "done"}
      /\ \A q \in Ids : ~Updates(q, x) /\ ~Updates(q, x)'
      /\ Making(x) \cap settled \subseteq AppliedTrades
      /\ FillsReported(x) \subseteq settled
      /\ x \in Range(list) => InList(x)
      /\ x \notin Range(list) => OutOfList(x)
  BY RestartFinds
<1>3. Range(list') = {o \in Placed : /\ rows[o].status \in Open
                                     /\ rows[o].filled < Order(o).quantity}
  BY ListRebuilt DEF TradingInv, MoneyInv, SettledInv, Typed
<1>4. memory'[x] = IF x \in Range(list')
                   THEN [filled |-> rows[x].filled, status |-> rows[x].status,
                         locked |-> RemainingLock(x, rows[x].filled)]
                   ELSE memory[x]
  BY <1>2 DEF Restart
<1>5. /\ FillsReported(x)' = FillsReported(x) /\ Making(x)' = Making(x)
  BY <1>1 DEF FillsReported, Making
<1>6. /\ Sides(x)' = Sides(x) /\ Order(x)' = Order(x)
      /\ RemainingLock(x, memory[x].filled)' = RemainingLock(x, memory'[x].filled)
  BY <1>1, TermsStay
<1>7. Served(x)'
  BY <1>1, <1>2, <1>5 DEF Served, Serving, Working, AtFill
<1>8. Known(x)'
  BY <1>2 DEF Known
<1>9. Dead(x) => Dead(x)'
  <2>1. AppliedTrades \subseteq settled
    BY DEF AppliedTrades
  <2> QED BY <1>1, <1>5, <2>1 DEF Dead
<1>10. Needs(x)' = IF x \in Range(list') THEN memory'[x].locked ELSE 0
  <2>1. (Making(x) \cap (settled \ AppliedTrades))' = {}
    BY <1>1
  <2>0. Worth(Sides(x), MakerFeeBps, {}) = 0
    BY NoWorth
  <2>2. memory'[x].locked \in Int
    <3>1. LocalTyped
      BY DEF TradingInv, MoneyInv, SettledInv, Typed
    <3>2. rows[x] \in OrderEntity /\ memory[x] \in StoredOrder /\ OrdersTyped
      BY <1>2, <3>1 DEF LocalTyped, TradingInv, MoneyInv, SettledInv, Typed
    <3>3. RemainingLock(x, rows[x].filled) \in Int
      BY <1>2, <3>2, LockTypes DEF OrderEntity
    <3> QED BY <1>4, <3>2, <3>3 DEF StoredOrder
  <2>3. CASE x \in Range(list')
    <3>1. Needs(x)' = memory'[x].locked - 0
      BY <1>2, <1>6, <2>0, <2>1, <2>3 DEF Needs, Serving, Working, AtFill
    <3> QED BY <2>2, <2>3, <3>1
  <2>4. CASE x \notin Range(list')
    BY <1>2, <2>4 DEF Needs
  <2> QED BY <2>3, <2>4
<1>11. Needs(x) = IF x \in Range(list) THEN memory[x].locked ELSE 0
  <2>1. Making(x) \cap (settled \ AppliedTrades) = {}
    BY <1>2
  <2>0. Worth(Sides(x), MakerFeeBps, {}) = 0
    BY NoWorth
  <2>2. memory[x].locked \in Int
    BY <1>2, NeedsType
  <2>3. CASE x \in Range(list)
    <3>1. Needs(x) = memory[x].locked - 0
      BY <1>2, <2>0, <2>1, <2>3 DEF Needs, Serving, Working, AtFill
    <3> QED BY <2>2, <2>3, <3>1
  <2>4. CASE x \notin Range(list)
    BY <1>2, <2>4 DEF Needs
  <2> QED BY <2>3, <2>4
<1>12. x \in Range(list) =>
         /\ memory[x].locked >= RemainingLock(x, memory[x].filled)
         /\ rows[x].filled = memory[x].filled /\ rows[x].status \in Open
  BY <1>2 DEF InList
<1>13. /\ RemainingLock(x, memory[x].filled) \in Nat /\ memory[x].locked \in Int
       /\ memory[x].filled \in Nat /\ Order(x).quantity \in Nat
  BY <1>2, RestIsNat, NeedsType
<1>14. /\ Executed(x, Booked(x))' = Executed(x, Booked(x))
       /\ Executed(x, TradesOf(x))' = Executed(x, TradesOf(x))
  <2>1. Making(x) \cap settled = Making(x) \cap AppliedTrades
    BY <1>2 DEF AppliedTrades
  <2>2. Booked(x)' = Booked(x) /\ TradesOf(x)' = TradesOf(x)
    BY <1>1, <1>5, <2>1 DEF Booked, TradesOf
  <2> QED BY <2>2
<1>15. CASE x \in Range(list')
  <2>1. rows[x].status \in Open /\ rows[x].filled < Order(x).quantity
    BY <1>3, <1>15
  <2>2. x \in Range(list) /\ InList(x)
    BY <1>2, <2>1 DEF OutOfList
  <2>3. /\ memory'[x].filled = rows[x].filled /\ memory'[x].status = rows[x].status
        /\ memory'[x].locked = RemainingLock(x, rows[x].filled)
    BY <1>4, <1>15
  <2>4. InList(x)'
    <3>1. (memory[x].locked >= RemainingLock(x, memory[x].filled))'
      BY <1>6, <1>12, <1>13, <2>2, <2>3
    <3>2. memory'[x].filled = memory[x].filled
      BY <1>12, <2>2, <2>3
    <3>3. /\ memory'[x].filled < Order(x)'.quantity /\ rows'[x] = rows[x]
          /\ memory'[x].status # "Filled"
      BY <1>1, <1>6, <2>1, <2>3 DEF Open
    <3> QED BY <1>1, <1>2, <1>6, <1>14, <2>1, <2>2, <2>3, <3>1, <3>2, <3>3 DEF InList
  <2>5. Listed(x)'
    BY <1>8, <1>15, <2>4 DEF Listed
  <2>6. Needs(x)' <= Needs(x)
    BY <1>10, <1>11, <1>12, <1>13, <1>15, <2>2, <2>3
  <2> QED BY <1>7, <2>5, <2>6
<1>16. CASE x \notin Range(list')
  <2>1. ~(rows[x].status \in Open /\ rows[x].filled < Order(x).quantity)
    BY <1>2, <1>3, <1>16
  <2>2. x \notin Range(list)
    <3>1. x \in Range(list) => memory[x].filled < Order(x).quantity
      BY <1>2 DEF InList
    <3> QED BY <1>12, <2>1, <3>1
  <2>3. OutOfList(x)'
    BY <1>1, <1>2, <1>9, <1>14, <2>2 DEF OutOfList
  <2>4. Listed(x)'
    BY <1>8, <1>16, <2>3 DEF Listed
  <2>5. Needs(x)' <= Needs(x)
    BY <1>10, <1>11, <1>16, <2>2
  <2> QED BY <1>7, <2>4, <2>5
<1> QED BY <1>15, <1>16

(* A restart keeps the invariant. *)
LEMMA RestartCovers ==
  ASSUME TradingInv, TradingInv', CoverInv, Notes, Restart
  PROVE  Kept
<1>1. /\ UNCHANGED <<asked, rows, left, seen, traded, settled, accounts>>
      /\ \A q \in Ids : /\ q \in InFlight => /\ place'[q].at = "failed"
                                             /\ place'[q].fills = place[q].fills
                        /\ q \notin InFlight => place'[q] = place[q]
  BY RestartSays
<1>2. SettledInv /\ TradesOK /\ PendingHeld /\ OrdersTyped
  BY DEF TradingInv, MoneyInv, SettledInv, Typed, CoverInv
<1>3. TradesOK'
  BY <1>1, <1>2, TradesStay
<1>4. PendingHeld'
  <2>1. \A q \in Ids : place'[q] = place[q] \/ GoesOn(q)
    BY <1>1 DEF GoesOn, Lost
  <2> QED BY <1>1, <1>2, <2>1, PendingStays
<1>5. ListOnce'
  BY <1>2, ListRebuilt DEF ListOnce
<1>6. \A x \in Clean' : Served(x)' /\ Listed(x)' /\ Needs(x)' <= Needs(x) /\ x \in Clean
  BY RestartServes, RestartFinds
<1>7. Provided'
  <2>1. restarted'
    BY DEF Restart
  <2> QED BY <1>1, <1>6, <2>1, ProvidedEased DEF CoverInv
<1> QED BY <1>3, <1>4, <1>5, <1>6, <1>7 DEF Kept

-----------------------------------------------------------------------------
(* A new order *)

(* It is the next of the rows, and nothing is known of it yet.             *)
LEMMA PlaceSays ==
  ASSUME TradingInv, Place
  PROVE  \E n \in Ids :
           /\ n \notin Placed /\ Placed' = Placed \cup {n}
           /\ \A q \in Placed : asked'[q] = asked[q]
           /\ \A q \in Ids : q # n => place'[q] = place[q]
           /\ place[n].at = "none" /\ place'[n].at \in {"lock", "failed"}
           /\ n \notin Range(seen) /\ \A t \in traded : t.maker # n /\ t.taker # n
           /\ UNCHANGED <<rows, memory, list, cancel, left, seen, traded, settled, accounts>>
<1>0. SettledInv /\ LocalTyped /\ EngineOK /\ Places /\ asked \in Seq(AskedOrders)
  BY DEF TradingInv, MoneyInv, SettledInv, Typed, OrdersTyped
<1>1. PICK t \in AskedOrders :
        /\ Len(asked) < MaxOrders /\ asked' = Append(asked, t)
        /\ Goto(Len(asked'), IF t.side = "Buy" /\ t.price = NoPrice THEN "failed" ELSE "lock")
        /\ UNCHANGED <<rows, local, cancel, engine, settled, counters, ledgerVars>>
  BY DEF Place
<1>2. Len(asked) \in Nat /\ Placed = 1..Len(asked)
  BY <1>0, LenProperties DEF Placed
<1>3. PICK n \in Ids : n = Len(asked) + 1
  BY <1>1, <1>2, BoundsAssumption DEF Ids
<1>4. /\ asked' \in Seq(AskedOrders) /\ Len(asked') = n
      /\ \A q \in 1..Len(asked) : asked'[q] = asked[q]
  BY <1>0, <1>1, <1>3, AppendProperties
<1>5. Placed' = 1..n
  BY <1>4, LenProperties DEF Placed
<1>6. n \notin Placed /\ Placed' = Placed \cup {n}
  BY <1>2, <1>3, <1>5
<1>7. PICK at : at = IF t.side = "Buy" /\ t.price = NoPrice THEN "failed" ELSE "lock"
  OBVIOUS
<1>8. at \in Stages /\ at \in {"lock", "failed"} /\ Goto(n, at)
  BY <1>1, <1>4, <1>7 DEF Stages, Early, Later
<1>9. (\A q \in Ids : q # n => place'[q] = place[q]) /\ place'[n].at \in {"lock", "failed"}
  BY <1>0, <1>8, GotoSays
<1>10. place[n].at = "none"
  BY <1>0, <1>6 DEF Places, PlaceOK, Held
<1>11. n \notin Range(seen) /\ \A x \in traded : x.maker # n /\ x.taker # n
  BY <1>0, <1>6 DEF EngineOK
<1>12. UNCHANGED <<rows, memory, list, cancel, left, seen, traded, settled, accounts>>
  BY <1>1 DEF local, engine, ledgerVars
<1> QED BY <1>2, <1>4, <1>6, <1>9, <1>10, <1>11, <1>12

(* The locks still provide for the orders when one joins that needs none.  *)
LEMMA ProvidedJoined ==
  ASSUME TradingInv, TradingInv', Provided, UNCHANGED accounts, restarted => restarted',
         NEW n, n \notin Placed, Placed' = Placed \cup {n},
         \A q \in Placed : asked'[q] = asked[q],
         \A x \in Clean' : x # n => x \in Clean /\ Needs(x)' = Needs(x),
         n \in Clean' => Needs(n)' = 0
  PROVE  Provided'
<1> SUFFICES ASSUME NEW u \in Users, NEW a \in Assets, Followed(u, a)'
             PROVE  /\ LockedSince(u, a)' >= SumOf([o \in Ids |-> Needs(o)'], OrdersOf(u, a)')
                    /\ ~restarted' => LockedSince(u, a)'
                                        = SumOf([o \in Ids |-> Needs(o)'], OrdersOf(u, a)')
  BY DEF Provided
<1> DEFINE S == OrdersOf(u, a)
           f == [o \in Ids |-> Needs(o)]
           h == [o \in Ids |-> Needs(o)']
           T == OrdersOf(u, a)'
<1>1. T = S \/ T = S \cup {n}
  BY DEF OrdersOf, Order, LockedAsset, Sides
<1>2. OrdersTyped /\ OrdersTyped'
  BY DEF TradingInv, MoneyInv, SettledInv, Typed
<1>3. S \subseteq Ids /\ S \subseteq Placed /\ IsFiniteSet(S) /\ n \notin S
  <2>1. S \subseteq Ids /\ S \subseteq Placed
    BY <1>2, OrderFound DEF OrdersOf
  <2>2. IsFiniteSet(Ids)
    BY FS_Interval, BoundsAssumption DEF Ids
  <2> QED BY <2>1, <2>2, FS_Subset
<1>4. \A x \in T : x \in Clean' /\ x \in Ids /\ ~Unbounded(x)'
  <2>1. \A x \in Clean' : x \in Placed'
    BY DEF Clean
  <2>2. \A x \in Placed' : x \in Ids
    <3>1. DOMAIN asked' = 1..Len(asked') /\ Len(asked') \in Nat /\ Len(asked') <= MaxOrders
      BY <1>2, LenProperties DEF OrdersTyped
    <3> QED BY <3>1, BoundsAssumption DEF Placed, Ids
  <2>3. \A x \in T : x \in Clean' /\ ~Unbounded(x)'
    BY DEF Followed
  <2> QED BY <2>1, <2>2, <2>3
<1>5. \A x \in S : /\ x \in Clean /\ f[x] = h[x] /\ f[x] \in Int /\ f[x] = Needs(x)
                   /\ ~Unbounded(x)
  <2>1. \A x \in S : x \in T /\ x # n /\ x \in Placed /\ x \in Ids
    BY <1>1, <1>3
  <2>2. \A x \in S : Unbounded(x)' = Unbounded(x)
    BY <2>1 DEF Unbounded, Order, Sides
  <2> QED BY <1>4, <2>1, <2>2, NeedsAreInt
<1>6. n \in T => n \in Ids /\ h[n] = 0
  BY <1>4
<1>7. LockedSince(u, a) >= SumOf(f, S) /\ (~restarted => LockedSince(u, a) = SumOf(f, S))
  BY <1>5 DEF Provided, Followed
<1>h. h = [o \in Ids |-> Needs(o)'] /\ T = OrdersOf(u, a)'
  OBVIOUS
<1>8. LockedSince(u, a)' = LockedSince(u, a)
  BY DEF LockedSince
<1> HIDE DEF S, f, h, T
<1>9. SumOf(h, S) = SumOf(f, S)
  <2>1. \A x \in S : h[x] \in Int /\ f[x] \in Int /\ h[x] = f[x]
    BY <1>5
  <2> QED BY <1>3, <2>1, SumMoves
<1>10. SumOf(h, T) = SumOf(h, S)
  <2>1. CASE T = S
    BY <2>1
  <2>2. CASE T = S \cup {n}
    <3>1. n \in T /\ h[n] = 0
      BY <1>6, <2>2
    <3>2. \A x \in S : h[x] \in Int
      BY <1>5
    <3> QED BY <1>3, <2>2, <3>1, <3>2, SumWithNone
  <2> QED BY <1>1, <2>1, <2>2
<1> QED BY <1>7, <1>8, <1>9, <1>10, <1>h

(* A new order keeps the invariant. *)
LEMMA PlaceCovers ==
  ASSUME TradingInv, TradingInv', CoverInv, Notes, Place
  PROVE  Kept
<1>1. PICK n \in Ids :
        /\ n \notin Placed /\ Placed' = Placed \cup {n}
        /\ \A q \in Placed : asked'[q] = asked[q]
        /\ \A q \in Ids : q # n => place'[q] = place[q]
        /\ place[n].at = "none" /\ place'[n].at \in {"lock", "failed"}
        /\ n \notin Range(seen) /\ \A t \in traded : t.maker # n /\ t.taker # n
        /\ UNCHANGED <<rows, memory, list, cancel, left, seen, traded, settled, accounts>>
  BY PlaceSays
<1>2. SettledInv /\ TradesOK /\ PendingHeld /\ Noted
  BY DEF TradingInv, MoneyInv, CoverInv
<1>3. TradesOK'
  BY <1>1, <1>2, TradesStay
<1>4. PendingHeld'
  <2>1. \A q \in Ids : place'[q] = place[q] \/ GoesOn(q)
    BY <1>1 DEF GoesOn, Working, AtFill
  <2> QED BY <1>1, <1>2, <2>1, PendingStays
<1>5. ListOnce'
  BY <1>1 DEF CoverInv, ListOnce
<1>6. ASSUME NEW x \in Clean', x # n
      PROVE  x \in Clean /\ Served(x)' /\ Listed(x)' /\ Needs(x)' = Needs(x)
  <2>1. x \in Placed /\ asked'[x] = asked[x]
    BY <1>1, <1>6 DEF Clean
  <2>2. x \in Clean /\ x \in Ids
    BY <1>2, <2>1, CleanStays
  <2>3. Served(x) /\ Listed(x)
    BY <2>2 DEF CoverInv
  <2>4. AppliedTrades' = AppliedTrades
    <3>1. \A q \in Ids : place'[q].at = "apply" <=> place[q].at = "apply"
      BY <1>1
    <3>2. \A q \in Ids : place[q].at = "apply" => place'[q] = place[q]
      BY <1>1
    <3> QED BY <1>1, <3>1, <3>2 DEF AppliedTrades
  <2>5. \A q \in Ids : Updates(q, x) \/ Updates(q, x)' => place'[q] = place[q]
    BY <1>1 DEF Updates, Releasing
  <2>6. FillsReported(x)' = FillsReported(x) /\ Making(x)' = Making(x)
    BY <1>1 DEF FillsReported, Making
  <2>7. Frame(x)
    BY <1>1, <1>6, <2>1, <2>2, <2>4, <2>5, <2>6 DEF Frame, LeftAlone
  <2> QED BY <2>2, <2>3, <2>7, FrameKeeps
<1>7. ASSUME n \in Clean'
      PROVE  Served(n)' /\ Listed(n)' /\ Needs(n)' = 0
  <2>1. place'[n].at # "failed"
    <3>1. place'[n].at = "failed" => n \in Cut'
      BY CutSaysNext DEF CutHas, Lost
    <3> QED BY <1>7, <3>1 DEF Clean, Notes
  <2>2. place'[n].at = "lock"
    BY <1>1, <2>1
  <2>3. Making(n)' = {}
    BY <1>1 DEF Making
  <2>4. Served(n)'
    BY <1>1, <2>2, <2>3 DEF Served, Serving, Working, AtFill
  <2>5. Listed(n)'
    BY <2>2 DEF Listed
  <2>6. Needs(n)' = 0
    BY <2>2 DEF Needs
  <2> QED BY <2>4, <2>5, <2>6
<1>8. Provided'
  <2>1. Provided /\ UNCHANGED accounts
    BY <1>1 DEF CoverInv
  <2> QED BY <1>1, <1>6, <1>7, <2>1, ProvidedJoined DEF Notes
<1> QED BY <1>3, <1>4, <1>5, <1>6, <1>7, <1>8 DEF Kept

-----------------------------------------------------------------------------
(* The invariant is kept *)

LEMMA StatusCovers ==
  ASSUME TradingInv, TradingInv', CoverInv, Notes,
         UNCHANGED <<asked, rows, memory, list, place, cancel, left, seen, traded, settled,
                     accounts>>
  PROVE  Kept
<1>1. SettledInv /\ TradesOK /\ PendingHeld /\ Noted
  BY DEF TradingInv, MoneyInv, CoverInv
<1>2. TradesOK'
  BY <1>1, TradesStay
<1>3. PendingHeld'
  <2>1. \A q \in Ids : place'[q] = place[q] \/ GoesOn(q)
    OBVIOUS
  <2> QED BY <1>1, <2>1, PendingStays
<1>4. ListOnce'
  BY DEF CoverInv, ListOnce
<1>5. ASSUME NEW x \in Clean'
      PROVE  x \in Clean /\ Served(x)' /\ Listed(x)' /\ Needs(x)' = Needs(x)
  <2>1. x \in Placed
    BY DEF Clean, Placed
  <2>2. x \in Clean
    BY <1>1, <2>1, CleanStays
  <2>3. Served(x) /\ Listed(x)
    BY <2>2 DEF CoverInv
  <2>4. Frame(x)
    <3>1. FillsReported(x)' = FillsReported(x) /\ Making(x)' = Making(x)
          /\ AppliedTrades' = AppliedTrades
      BY DEF FillsReported, Making, AppliedTrades
    <3> QED BY <3>1 DEF Frame, LeftAlone
  <2> QED BY <2>2, <2>3, <2>4, FrameKeeps
<1>7. Provided'
  BY <1>5, ProvidedStill DEF CoverInv, Notes
<1> QED BY <1>2, <1>3, <1>4, <1>5, <1>7 DEF Kept

LEMMA StutterCovers ==
  ASSUME CoverInv, UNCHANGED vars
  PROVE  CoverInv'
<1>1. UNCHANGED <<asked, rows, memory, list, place, cancel, left, seen, traded, settled,
                  accounts, disturbed, restarted>>
  BY DEF vars, database, local, engine, counters
<1>2. UNCHANGED <<Placed, Clean, Raced, Cut, AppliedTrades>>
  BY <1>1 DEF Placed, Clean, Unbounded, Order, Sides, Raced, Handling, InFlight, Cancelling,
              Cut, AppliedTrades
<1>3. Noted'
  BY <1>1, <1>2 DEF CoverInv, Noted
<1>4. TradesOK'
  BY <1>1 DEF CoverInv, TradesOK, Sides, Order
<1>5. PendingHeld' /\ ListOnce'
  BY <1>1 DEF CoverInv, PendingHeld, Pending, ListOnce
<1>6. ASSUME NEW x
      PROVE  LeftAlone(x)
  BY <1>1, <1>2 DEF LeftAlone, FillsReported, Making
<1>7. \A x \in Clean' : Served(x)' /\ Listed(x)'
  BY <1>1, <1>2, <1>6, FrameKeeps DEF CoverInv, Frame
<1>8. ASSUME NEW x
      PROVE  Needs(x)' = Needs(x)
  <2>1. /\ FillsReported(x)' = FillsReported(x) /\ Making(x)' = Making(x)
        /\ Sides(x)' = Sides(x)
    BY <1>1 DEF FillsReported, Making, Sides, Order
  <2> QED BY <1>1, <1>2, <2>1 DEF Needs
<1>9. Provided'
  <2>1. ASSUME NEW u, NEW a
        PROVE  /\ OrdersOf(u, a)' = OrdersOf(u, a) /\ LockedSince(u, a)' = LockedSince(u, a)
               /\ Followed(u, a)' <=> Followed(u, a)
    BY <1>1, <1>2 DEF OrdersOf, Order, LockedAsset, Sides, LockedSince, Followed, Unbounded
  <2>2. [o \in Ids |-> Needs(o)'] = [o \in Ids |-> Needs(o)]
    BY <1>8
  <2> SUFFICES ASSUME NEW u \in Users, NEW a \in Assets, Followed(u, a)'
               PROVE  /\ LockedSince(u, a)' >= SumOf([o \in Ids |-> Needs(o)'], OrdersOf(u, a)')
                      /\ ~restarted' => LockedSince(u, a)'
                                          = SumOf([o \in Ids |-> Needs(o)'], OrdersOf(u, a)')
    BY DEF Provided
  <2>3. /\ LockedSince(u, a) >= SumOf([o \in Ids |-> Needs(o)], OrdersOf(u, a))
        /\ ~restarted => LockedSince(u, a) = SumOf([o \in Ids |-> Needs(o)], OrdersOf(u, a))
    BY <2>1 DEF CoverInv, Provided
  <2> QED BY <1>1, <2>1, <2>2, <2>3
<1> QED BY <1>3, <1>4, <1>5, <1>7, <1>9 DEF CoverInv

(* At first nothing has been placed. *)
LEMMA InitCover ==
  ASSUME Init
  PROVE  CoverInv
<1>1. /\ Placed = {} /\ traded = {} /\ list = << >> /\ accounts = Opening
      /\ \A q \in Ids : /\ place[q].at = "none" /\ place[q].fills = << >>
                        /\ cancel[q].at = "none" /\ cancel[q].attempts = 0
  BY DEF Init, LedgerInit, Placed, NoPlacement, NoCancel
<1>2. Noted
  <2>1. InFlight = {} /\ Cancelling = {}
    BY <1>1 DEF InFlight, Cancelling
  <2>2. \A o \in Ids : Handling(o) = {}
    BY <2>1 DEF Handling
  <2>3. \A o \in Ids : Cardinality(Handling(o)) = 0
    BY <2>2, FS_EmptySet
  <2>4. Raced = {}
    BY <2>3 DEF Raced
  <2>5. Cut = {}
    BY <1>1 DEF Cut
  <2> QED BY <2>4, <2>5 DEF Noted
<1>3. TradesOK /\ PendingHeld /\ ListOnce
  BY <1>1 DEF TradesOK, PendingHeld, ListOnce
<1>4. Clean = {}
  BY <1>1 DEF Clean
<1>5. Provided
  <2> SUFFICES ASSUME NEW u \in Users, NEW a \in Assets
               PROVE  LockedSince(u, a) = 0 /\ SumOf([o \in Ids |-> Needs(o)], OrdersOf(u, a)) = 0
    <3>1. \A n, k \in Int : n = 0 /\ k = 0 => n >= k /\ n = k
      OBVIOUS
    <3> QED BY <3>1 DEF Provided
  <2>1. OrdersOf(u, a) = {}
    BY <1>1 DEF OrdersOf
  <2>2. \A f : SumOf(f, {}) = 0
    <3> SUFFICES ASSUME NEW f PROVE SumOf(f, {}) = 0
      OBVIOUS
    <3>1. IsFiniteSet({}) /\ \A x \in {} : f[x] \in Int
      BY FS_EmptySet
    <3>2. PICK g \in [SUBSET {} -> Int] : Totals(g, f, {})
      BY <3>1, TotalsOf
    <3>3. SumOf(f, {}) = g[{}]
      BY <3>1, <3>2, SumFound
    <3> QED BY <3>2, <3>3 DEF Totals
  <2>3. LockedSince(u, a) = 0
    <3>1. <<u, a>> \in Wallets
      BY DEF Wallets
    <3>2. Opening[<<u, a>>].locked \in Int
      BY <3>1, OpeningAssumption DEF Account
    <3> QED BY <1>1, <3>2 DEF LockedSince
  <2> QED BY <2>1, <2>2, <2>3
<1> QED BY <1>2, <1>3, <1>4, <1>5 DEF CoverInv

(* Every step keeps the invariant. *)
LEMMA StepCovers ==
  ASSUME TradingInv, TradingInv', CoverInv, Notes, Step
  PROVE  Kept
<1>1. CASE Place
  BY <1>1, PlaceCovers
<1>2. ASSUME NEW o \in Ids, PlaceStep(o)
      PROVE  Kept
  <2>1. CASE ApplyFill(o)
    BY <2>1, MakerAppliedCovers, NoMakerToApplyCovers
  <2>2. CASE LockBalance(o) \/ Submit(o) \/ Answered(o) \/ GiveUp(o)
    BY <2>2, LockBalanceCovers, SubmitCovers, AnsweredCovers, GiveUpCovers
  <2>3. CASE RejectRow(o) \/ UnlockRefused(o) \/ Settle(o) \/ Refused(o)
    BY <2>3, RejectRowCovers, UnlockRefusedCovers, SettleCovers, RefusedCovers
  <2>4. CASE WriteMaker(o) \/ UnlockMaker(o)
    BY <2>4, WriteMakerCovers, UnlockMakerCovers
  <2>5. CASE WriteOrder(o) \/ UnlockUnused(o) \/ Rest(o)
    BY <2>5, WriteOrderCovers, UnlockUnusedCovers, RestCovers
  <2> QED BY <1>2, <2>1, <2>2, <2>3, <2>4, <2>5 DEF PlaceStep
<1>3. ASSUME NEW o \in Ids, CallFails(o) \/ Fail(o)
      PROVE  Kept
  BY <1>3, CallFailsCovers, FailCovers
<1>4. ASSUME NEW o \in Ids, StartCancel(o) \/ CancelStep(o) \/ CancelFails(o)
      PROVE  Kept
  BY <1>4, StartCancelCovers, CancelAtEngineCovers, FindCancelledCovers,
     UnlockCancelledCovers, CloseCancelledCovers, CancelFailsCovers DEF CancelStep
<1>5. CASE Restart
  BY <1>5, RestartCovers
<1>6. CASE ChangeStatus
  <2>1. UNCHANGED <<asked, rows, memory, list, place, cancel, left, seen, traded, settled,
                    accounts>>
    BY <1>6 DEF ChangeStatus, SetStatus, database, local, engine
  <2> QED BY <2>1, StatusCovers
<1> QED BY <1>1, <1>2, <1>3, <1>4, <1>5, <1>6 DEF Step

(* That the service has been restarted is not forgotten. *)
LEMMA RestartedStays ==
  ASSUME Step, restarted
  PROVE  restarted'
<1>1. CASE Place \/ Restart \/ ChangeStatus
  BY <1>1 DEF Place, Restart, ChangeStatus, counters
<1>2. ASSUME NEW o \in Ids, PlaceStep(o)
      PROVE  restarted'
  <2>1. CASE LockBalance(o) \/ Submit(o) \/ Answered(o) \/ GiveUp(o) \/ RejectRow(o)
    BY <2>1 DEF LockBalance, Submit, Answered, GiveUp, RejectRow, counters
  <2>2. CASE UnlockRefused(o) \/ Settle(o) \/ ApplyFill(o) \/ WriteMaker(o)
    BY <2>2 DEF UnlockRefused, Settle, ApplyFill, WriteMaker, counters
  <2>3. CASE UnlockMaker(o) \/ WriteOrder(o) \/ UnlockUnused(o) \/ Rest(o) \/ Refused(o)
    BY <2>3 DEF UnlockMaker, WriteOrder, UnlockUnused, Rest, Refused, counters
  <2> QED BY <1>2, <2>1, <2>2, <2>3 DEF PlaceStep
<1>3. ASSUME NEW o \in Ids, CallFails(o) \/ Fail(o) \/ StartCancel(o) \/ CancelFails(o)
      PROVE  restarted'
  BY <1>3 DEF CallFails, Fail, StartCancel, CancelFails
<1>4. ASSUME NEW o \in Ids, CancelStep(o)
      PROVE  restarted'
  BY <1>4 DEF CancelStep, CancelAtEngine, FindCancelled, UnlockCancelled, CloseCancelled, counters
<1> QED BY <1>1, <1>2, <1>3, <1>4 DEF Step

LEMMA NextCover ==
  ASSUME TradingInv, CoverInv, [Next]_vars
  PROVE  CoverInv'
<1>1. TradingInv'
  BY NextTrading
<1>2. CASE Next
  <2>1. Step /\ Notes
    BY <1>2, RestartedStays DEF Next, Notes
  <2>2. Kept
    BY <1>1, <2>1, StepCovers
  <2>3. Noted'
    BY <2>1 DEF Noted, Notes
  <2> QED BY <2>2, <2>3 DEF Kept, CoverInv
<1> QED BY <1>2, StutterCovers

(* The invariant holds of every state. *)
LEMMA CoverHolds == Spec => [](TradingInv /\ CoverInv)
<1>1. Init => TradingInv /\ CoverInv
  BY InitTrading, InitCover
<1>2. TradingInv /\ CoverInv /\ [Next]_vars => (TradingInv /\ CoverInv)'
  BY NextTrading, NextCover
<1> QED BY <1>1, <1>2, PTL DEF Spec

(* The locks of a user cover what the user's orders may still cost, so     *)
(* that no settlement is refused for want of funds (lockBalance,           *)
(* unlockUnusedIncomingLock, consumedLockForFill and                       *)
(* buildRemainingLockAmount of the trading service, settleTrade of the     *)
(* wallet): through partial fills, better prices, rejections,              *)
(* cancellations and restarts, whatever other orders and users do.         *)
THEOREM LocksCover == Spec => []Covered
<1>1. TradingInv /\ CoverInv => Covered
  BY CoverSays
<1> QED BY <1>1, CoverHolds, PTL

(* When no request is at work and none has been disturbed, the orders      *)
(* table, the local list, the engine and the wallet agree (placeOrder,     *)
(* applyFillToLocalOrders, unlockUnusedIncomingLock, cancelOrder and       *)
(* onModuleInit of the trading service): the rows show what was executed,  *)
(* the list holds the open rows, what rests in the engine is in the list,  *)
(* and what a user's wallet has locked since the start is the sum of what  *)
(* the list says of the user's orders.                                     *)
THEOREM IdleAgreement == Spec => []IdleAgrees
<1>1. TradingInv /\ CoverInv => IdleAgrees
  BY AgreeSays
<1> QED BY <1>1, CoverHolds, PTL
=============================================================================
