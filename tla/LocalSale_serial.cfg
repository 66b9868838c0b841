SPECIFICATION Spec
CONSTANTS
  Products = {p1, p2}
  Carts = {c1, c2, c3}
  Orders = {o1, o2}
  Requests = {r1}
  InitialStock <- MCStock
  MaxQuantity = 2
  MaxLines = 2
  MaxRequests = 4
  StatusSteps <- AnyStep
  RepeatProducts = {p2}
  SharedOrders = {}
  CanFail = TRUE
  NoProduct = NoProduct
  NoOrder = NoOrder
  NoCart = NoCart
  Unread = Unread
INVARIANT TypeOK
PROPERTIES CancelledIsClosed KeepsLedger
SYMMETRY Nids
CHECK_DEADLOCK FALSE
