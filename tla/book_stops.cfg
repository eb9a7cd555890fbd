SPECIFICATION Spec
CONSTANTS
  OrderIds = {o1, o2, o3, o4}
  Users = {u1, u2}
  Prices = {1, 2}
  Quantities = {1, 2}
  SubmittedKinds = {"Limit", "StopMarket"}
  NoPrice = NoPrice
  NoOrder = NoOrder
  NoReport = NoReport
  MAX_AUDIT_LOG_FILLS = 10
  MAX_ORDER_STATUS_ENTRIES = 10
  MaxSequence = 4
SYMMETRY Symmetry
CONSTRAINT FewStops
INVARIANTS NoStopMissed FilledMatchesTrades
