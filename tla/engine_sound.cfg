SPECIFICATION EngineSpec
CONSTANTS
  OrderIds = {o1, o2}
  Users = {u1, u2}
  Prices = {1}
  Quantities = {1}
  SubmittedKinds = {"Limit", "Fok", "StopMarket"}
  NoPrice = NoPrice
  NoOrder = NoOrder
  NoReport = NoReport
  MAX_AUDIT_LOG_FILLS = 10
  MAX_ORDER_STATUS_ENTRIES = 10
  MaxSequence = 10
  Clients = {t1, t2}
  Main = main
  snapshot_interval_trades = 1
  NoRequest = NoRequest
  NoFile = NoFile
  NewLine = NewLine
  EarlyCancels = TRUE
  MaxRequests = 2
  MaxSignals = 1
  MaxCrashes = 1
  MaxFailures = 1
SYMMETRY Symmetry
INVARIANTS RestoredSound
CHECK_DEADLOCK FALSE
