SPECIFICATION Spec
CONSTANTS
  Products = {p1}
  Carts = {c1, c2}
  Orders = {o1, o2}
  Requests = {r1, r2}
  InitialPrice <- MCPrice
  SalePrices = {0, 1}
  EditPrices = {0, 3}
  MaxQuantity = 2
  MaxLines = 2
  MaxRequests = 3
  SharedOrders = {o1}
  CanFail = TRUE
  NoProduct = NoProduct
  NoOrder = NoOrder
  NoCart = NoCart
  NoPrice = NoPrice
INVARIANTS TotalsAgree LinePriced
PROPERTY OtherLinesKept
SYMMETRY Nids
CHECK_DEADLOCK FALSE
