SPECIFICATION FairSpec
CONSTANTS
  Calls = {c1, c2}
  Upstreams = {market}
  u1 = u1
  Accounts = {u1, u2}
  Nobody = Nobody
  TriedCallers <- MCTriedCallers
  TriedRoutes = {"health", "ticker", "withdrawals", "orders", "list deposits", "review kyc", "risk/evaluate"}
  RateLimit = 1
  RateTicks = 2
  CircuitFailures = 3
  CircuitTicks = 2
  TradePrices = {1, 2}
  TradeQuantities = {1, 2}
  KeptTrades = 2
  MaxTrades = 4
  MaxRestarts = 1
  MaxCopies = 2
INVARIANTS   FailuresBounded  CandleMatchesTicker
PROPERTIES Recovers
CHECK_DEADLOCK FALSE
