SPECIFICATION Spec
CONSTANTS
  alice = alice
  bob = bob
  btc = btc
  usdt = usdt
  NoPrice = NoPrice
  Users = {alice, bob}
  Assets = {btc, usdt}
  Pairs <- MCPairs
  Amounts = {}
  Fees = {}
  Opening <- MCOpening
  AskedOrders <- MCOrders
  MaxDisturbed = 1
  MaxRetries = 1
  MaxOrders = 3
  MaxInFlight = 2
  MaxCancels = 1
  MaxFaults = 1
INVARIANTS WithinQuantity Covered FillsAreSettled SettledOnce IdleAgrees
CHECK_DEADLOCK FALSE
CONSTRAINTS FewDisturbed BothTrade
