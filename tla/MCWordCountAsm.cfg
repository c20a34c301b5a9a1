SPECIFICATION Spec
CONSTANTS
  Libs = {"asm"}
  Texts <- MCPlainTexts
  MAX_WORDLEN = 2
  NumBuckets = 2
  HashModulus = 4096
CHECK_DEADLOCK FALSE
INVARIANT WritesInBuffer
