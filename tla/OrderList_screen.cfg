SPECIFICATION ListFairSpec
CONSTANTS
  Orders <- MC_Orders
  Made <- MC_Made
  InitialStatus <- MC_Status
  Tabs <- MC_Tabs
  Texts <- MC_Texts
  Found <- MC_Found
  Viewed = {2, 3}
  Unwanted = {2}
  PageSize = 1
  MaxRequests = 3
  MaxTyped = 1
INVARIANTS ShowsTheFilters ListInOrder CancelShown
PROPERTY SpinnersEnd
CHECK_DEADLOCK FALSE
