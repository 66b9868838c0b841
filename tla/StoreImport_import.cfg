SPECIFICATION FairSpec
CONSTANTS
  c1 = c1
  sa = sa
  sb = sb
  sc = sc
  none = none
  Commands = {c1}
  Nids <- MC_Nids
  SkuOf <- MC_SkuOf
  NoSku = none
  Listed <- MC_Listed
  PageLimit = 2
  Retries = 1
  Options <- MC_Options
  Formats <- MC_Formats
  Payload <- MC_Payload
  Pictured = {1}
  Pushed = {1}
  MaxStarts = 2
  MaxChanges = 1
  MaxPosts = 1
  Overlapping = FALSE
INVARIANTS OneNodePerSku CompleteImport
PROPERTIES NeverGoesBack PicturesKept ImportEnds
CHECK_DEADLOCK FALSE
