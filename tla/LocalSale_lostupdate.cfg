SPECIFICATION Spec
CONSTANTS
  Products = {p1}
  Carts = {c1, c2}
  Orders = {o1, o2}
  Requests = {r1, r2}
  InitialStock <- MCStock
  MaxQuantity = 2
  MaxLines = 2
  MaxRequests = 2
  StatusSteps <- LiveSteps
  RepeatProducts = {}
  SharedOrders = {}
  CanFail = FALSE
  NoProduct = NoProduct
  NoOrder = NoOrder
  NoCart = NoCart
  Unread = Unread
INVARIANT LedgerAgrees
SYMMETRY Nids
CHECK_DEADLOCK FALSE
