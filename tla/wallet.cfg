SPECIFICATION FairSpec
CONSTANTS
  u1 = u1
  u2 = u2
  btc = btc
  usdt = usdt
  Users = {u1, u2}
  Assets = {btc, usdt}
  Pairs <- MCPairs
  Amounts <- MCAmounts
  Fees = {1}
  Opening <- MCOpening
  Txs = {t1, t2}
  NoTx = NoTx
  MaxOperations = 2
  MaxStatusChanges = 1
  MaxFailures = 1
INVARIANTS NeverOverdrawn Conservation
PROPERTIES FrozenStaysPut ImplementsLedger EveryOperationEnds
CHECK_DEADLOCK FALSE
