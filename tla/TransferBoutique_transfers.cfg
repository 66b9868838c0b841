SPECIFICATION Spec
CONSTANTS
  Products = {p1, p2, p3}
  Commandes = {m1, m2}
  m1 = m1
  m2 = m2
  s1 = s1
  s2 = s2
  Skus = {s1, s2}
  Trimmed <- MCTrimmed
  Carts = {c1, c2}
  Orders = {o1, o2}
  Requests = {r1, r2}
  InitialNodes <- MCNodes
  MaxQuantity = 2
  MaxLines = 2
  MaxRequests = 4
  SharedOrders = {}
  CanFail = TRUE
  NoSku = NoSku
  NoItem = NoItem
  NoOrder = NoOrder
  NoCart = NoCart
  Unread = Unread
INVARIANTS PiecesConserved FewProductsPerSku OpenLinesListed
SYMMETRY Nids
CHECK_DEADLOCK FALSE
