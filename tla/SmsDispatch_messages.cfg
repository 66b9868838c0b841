SPECIFICATION Spec
CONSTANTS
  Nodes = {n1, n2}
  Workers = {w1, w2}
  TokenLife = 2
  MinLife = 3
  Margin = 2
  Timeout = 1
  MaxTime = 3
  MaxSends = 3
INVARIANTS SentWasAccepted TwiceOnlyWhenAsked ResultKept PairedTokenGood
SYMMETRY MC_Symmetry
CHECK_DEADLOCK FALSE
