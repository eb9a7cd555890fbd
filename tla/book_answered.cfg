SPECIFICATION FairSpec
CONSTANTS
  OrderIds = {o1, o2, o3}
  Users = {u1, u2}
  Prices = {1}
  Quantities = {1}
  SubmittedKinds = {"Limit", "Ioc", "StopMarket"}
  NoPrice = NoPrice
  NoOrder = NoOrder
  NoReport = NoReport
  MAX_AUDIT_LOG_FILLS = 1
  MAX_ORDER_STATUS_ENTRIES = 1
  MaxSequence = 4
INVARIANTS LiveKnown
PROPERTIES EveryOrderAnswered
