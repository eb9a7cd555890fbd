SPECIFICATION Spec
CONSTANTS
  OrderIds = {o1, o2, o3}
  Users = {u1, u2}
  Prices = {1, 2}
  Quantities = {0, 1, 2}
  SubmittedKinds = {"Market", "Limit", "Ioc", "Fok", "PostOnly"}
  NoPrice = NoPrice
  NoOrder = NoOrder
  NoReport = NoReport
  MAX_AUDIT_LOG_FILLS = 10
  MAX_ORDER_STATUS_ENTRIES = 10
  MaxSequence = 6
SYMMETRY Symmetry
INVARIANTS TypeOK NotCrossed LevelsSound IndexAgrees FilledMatchesTrades
PROPERTIES ClosedStaysClosed ImplementsPriceTimePriority
