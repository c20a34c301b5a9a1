SPECIFICATION Spec
CONSTANTS
  NumSets = 2
  NumBlocks = 3
  BlockSize = 8
  Addresses <- TwoSets
  Ops = {"l", "s"}
  MaxAccesses = 5
CHECK_DEADLOCK FALSE
INVARIANTS LruReplacesLeastRecentlyUsed
