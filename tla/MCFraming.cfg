SPECIFICATION FairSpec
CONSTANTS
  Chars <- MCChars
  Scripts <- MCScripts
  MAX_LEN = 5
  ErrTag <- MCErrTag
CHECK_DEADLOCK FALSE
INVARIANT MessagesArriveWhole
PROPERTY WrittenMessageArrives
