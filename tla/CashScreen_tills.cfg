SPECIFICATION Spec
CONSTANTS
  t1 = t1
  t2 = t2
  p1 = p1
  p2 = p2
  Tills = {t1, t2}
  Products = {p1, p2}
  InitialStock <- MC_Stock
  Found <- MC_Found
  MaxSales = 2
  MaxLoads = 3
  MaxTaps = 3
INVARIANTS PiecesAccounted SalesRecorded ListReadsOwnSales
PROPERTIES RefusedOnlyIfMoved
SYMMETRY MC_Symmetry
CHECK_DEADLOCK FALSE
