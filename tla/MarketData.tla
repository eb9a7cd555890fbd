----------------------------- MODULE MarketData -----------------------------
(***************************************************************************)
(* The market data service (services/market-data-service): it consumes the *)
(* trades of one symbol, and shows the last ones, a ticker and a candle.   *)
(*                                                                         *)
(* All of it is in memory.  The handler of an event is one step; its       *)
(* offset is committed in a later one, and if that fails, or the service   *)
(* restarts first, the event comes again.                                  *)
(***************************************************************************)
EXTENDS Integers, Sequences, SequencesExt, FiniteSetsExt

CONSTANTS
  TradePrices, TradeQuantities,
  KeptTrades,                            \* trades that are kept: 1000
  MaxTrades, MaxRestarts, MaxCopies      \* bounds

ASSUME MarketAssumption ==
  /\ TradePrices \subseteq Nat /\ TradeQuantities \subseteq Nat
  /\ KeptTrades \in Nat \ {0}

VARIABLES
  published,       \* the events of the topic nexus.trades
  committed,       \* how many of them the group has committed
  recorded,        \* whether the next one is recorded, and not committed
  trades,          \* the last trades
  ticker,          \* << >>, or the ticker of the symbol
  since,           \* history: `committed` when the service started
  copies,          \* history: what was recorded once more
  restarts         \* counter for the bound

feed == <<published, committed, recorded>>
marketVars == <<feed, trades, ticker, since, copies, restarts>>

MarketInit ==
  /\ published = << >> /\ committed = 0 /\ recorded = FALSE
  /\ trades = << >> /\ ticker = << >>
  /\ since = 0 /\ copies = << >> /\ restarts = 0

Total(list) == FoldLeft(LAMBDA sum, trade : sum + trade.quantity, 0, list)

PricesOf(list) == {trade.price : trade \in Range(list)}

(* getKlines *)
Kline(list) ==
  [open |-> Head(list).price, close |-> Last(list).price, volume |-> Total(list),
   high |-> Max(PricesOf(list)), low |-> Min(PricesOf(list))]

-----------------------------------------------------------------------------
(* Mutant of Kept: the first trades are kept. *)
KeptFirst(list) == SubSeq(list, 1, Min({KeptTrades, Len(list)}))

Kept(list) == SubSeq(list, Max({1, Len(list) - KeptTrades + 1}), Len(list))

(* Mutant of Volume: the volume of the trades that are kept. *)
VolumeOfKept(trade) == Total(Kept(Append(trades, trade)))

Volume(trade) == IF ticker = << >> THEN trade.quantity
                 ELSE ticker[1].volume + trade.quantity

(* recordTrade *)
RecordTrade(trade) ==
  /\ trades' = Kept(Append(trades, trade))
  /\ ticker' = <<[lastPrice |-> trade.price, volume |-> Volume(trade),
       high |-> IF ticker = << >> \/ trade.price > ticker[1].high THEN trade.price
                ELSE ticker[1].high,
       low |-> IF ticker = << >> \/ trade.price < ticker[1].low THEN trade.price
               ELSE ticker[1].low]>>

(* The trading service publishes a trade. *)
Publish ==
  /\ Len(published) < MaxTrades
  /\ \E price \in TradePrices, quantity \in TradeQuantities :
       published' = Append(published, [price |-> price, quantity |-> quantity])
  /\ UNCHANGED <<committed, recorded, trades, ticker, since, copies, restarts>>

Consume ==
  /\ ~recorded /\ committed < Len(published)
  /\ RecordTrade(published[committed + 1])
  /\ recorded' = TRUE
  /\ UNCHANGED <<published, committed, since, copies, restarts>>

CommitTrade ==
  /\ recorded
  /\ committed' = committed + 1
  /\ recorded' = FALSE
  /\ UNCHANGED <<published, trades, ticker, since, copies, restarts>>

(* The commit fails: the event is handled again. *)
DeliverAgain ==
  /\ recorded /\ Len(copies) < MaxCopies
  /\ recorded' = FALSE
  /\ copies' = Append(copies, published[committed + 1])
  /\ UNCHANGED <<published, committed, trades, ticker, since, restarts>>

(* The service restarts: what it knew is gone. *)
RestartMarket ==
  /\ restarts < MaxRestarts
  /\ restarts' = restarts + 1
  /\ recorded' = FALSE
  /\ trades' = << >> /\ ticker' = << >>
  /\ since' = committed /\ copies' = << >>
  /\ UNCHANGED <<published, committed>>

MarketNext == Publish \/ Consume \/ CommitTrade \/ DeliverAgain \/ RestartMarket

-----------------------------------------------------------------------------
(* Properties *)

(* Trades that were recorded since the start, each as often as it was. *)
Recorded ==
  SubSeq(published, since + 1, IF recorded THEN committed + 1 ELSE committed) \o copies

(* The ticker counts every trade that was recorded since the service       *)
(* started, once, and once more for each time it was delivered again; it   *)
(* does not forget the trades that are cut from the list.                  *)
TickerCounts ==
  IF ticker = << >> THEN Recorded = << >>
  ELSE /\ ticker[1].volume = Total(Recorded)
       /\ ticker[1].high = Max(PricesOf(Recorded))
       /\ ticker[1].low = Min(PricesOf(Recorded))

(* The candle and the ticker, which are kept apart, tell the same: the     *)
(* candle closes at the last price and lies between low and high, and as   *)
(* long as no trade has been cut its volume is that of the ticker.         *)
CandleMatchesTicker ==
  /\ trades = << >> <=> ticker = << >>
  /\ trades # << >> =>
       LET kline == Kline(trades)
       IN /\ kline.close = ticker[1].lastPrice
          /\ ticker[1].low <= kline.low /\ kline.high <= ticker[1].high
          /\ kline.volume <= ticker[1].volume
          /\ Len(Recorded) <= KeptTrades =>
               kline = [open |-> kline.open, close |-> ticker[1].lastPrice,
                        volume |-> ticker[1].volume, high |-> ticker[1].high,
                        low |-> ticker[1].low]
=============================================================================
