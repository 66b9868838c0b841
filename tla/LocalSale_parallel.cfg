SPECIFICATION Spec
CONSTANTS
  Products = {p1, p2}
  Carts = {c1, c2, c3}
  Orders = {o1, o2}
  Requests = {r1, r2}
  InitialStock <- MCStock
  MaxQuantity = 2
  MaxLines = 2
  MaxRequests = 4
  StatusSteps <- LiveSteps
  RepeatProducts = {p2}
  SharedOrders = {o1}
  CanFail = FALSE
  NoProduct = NoProduct
  NoOrder = NoOrder
  NoCart = NoCart
  Unread = Unread
INVARIANTS SalesSettled LinesExist StatusesAgree CartsNotShared
SYMMETRY Nids
CHECK_DEADLOCK FALSE
