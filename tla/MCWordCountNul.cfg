SPECIFICATION Spec
CONSTANTS
  Libs = {"c"}
  Texts <- MCNulTexts
  MAX_WORDLEN = 2
  NumBuckets = 2
  HashModulus = 4096
CHECK_DEADLOCK FALSE
INVARIANT WritesInBuffer
