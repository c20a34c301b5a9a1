SPECIFICATION Spec
CONSTANTS
  Libs = {"c", "asm"}
  Texts <- MCTexts
  MAX_WORDLEN = 2
  NumBuckets = 2
  HashModulus = 4096
CHECK_DEADLOCK FALSE
INVARIANTS WritesBounded TableIsDictionary ReportIsTrue CountedWordsNormal
