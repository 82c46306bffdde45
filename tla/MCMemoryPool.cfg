SPECIFICATION Spec
CONSTANTS
  b1 = b1
  b2 = b2
  b3 = b3
  Blocks <- MCBlocks
  Sizes <- MCSizes
  Slack = 50
  Limit = 130
  CollectionAge = 1
  Times <- MCTimes
SYMMETRY MCSymmetry
INVARIANTS
  BlocksAccounted
  FitsRequest
  FreeSizeCovers
CHECK_DEADLOCK FALSE
