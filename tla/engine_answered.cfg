SPECIFICATION EngineFairSpec
CONSTANTS
  OrderIds = {o1, o2}
  Users = {u1, u2}
  Prices = {1}
  Quantities = {1}
  SubmittedKinds = {"Limit"}
  NoPrice = NoPrice
  NoOrder = NoOrder
  NoReport = NoReport
  MAX_AUDIT_LOG_FILLS = 10
  MAX_ORDER_STATUS_ENTRIES = 10
  MaxSequence = 10
  Clients = {t1, t2}
  Main = main
  snapshot_interval_trades = 1
  NoRequest = NoRequest
  NoFile = NoFile
  NewLine = NewLine
  EarlyCancels = FALSE
  MaxRequests = 2
  MaxSignals = 0
  MaxCrashes = 1
  MaxFailures = 0
PROPERTIES EveryRequestAnswered 
CHECK_DEADLOCK FALSE
