SPECIFICATION StoreFairSpec
CONSTANTS
  ca = ca
  cb = cb
  Calls = {k1, k2}
  Nids <- MC_Nids
  Existing = {1, 2, 3}
  Category <- MC_Category
  All = all
  ItemsPerPage = 2
  MaxCalls = 3
  CanFail = TRUE
INVARIANT PagesInOrder
PROPERTY LoadingEnds
CHECK_DEADLOCK FALSE
