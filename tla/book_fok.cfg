SPECIFICATION Spec
CONSTANTS
  OrderIds = {o1, o2, o3, o4}
  Users = {u1, u2}
  Prices = {1}
  Quantities = {1, 2}
  SubmittedKinds = {"Limit", "Fok"}
  NoPrice = NoPrice
  NoOrder = NoOrder
  NoReport = NoReport
  MAX_AUDIT_LOG_FILLS = 10
  MAX_ORDER_STATUS_ENTRIES = 10
  MaxSequence = 6
SYMMETRY Symmetry
PROPERTIES FokAllOrNothing
