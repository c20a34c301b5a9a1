SPECIFICATION Spec
CONSTANTS
  Libs = {"c"}
  Texts <- MCLongTexts
  MAX_WORDLEN = 63
  NumBuckets = 2
  HashModulus = 4096
CHECK_DEADLOCK FALSE
INVARIANT NothingLost
