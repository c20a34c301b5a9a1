SPECIFICATION Spec
CONSTANTS
  Chars <- MCChars
  Scripts <- MCLongScripts
  MAX_LEN = 5
  ErrTag <- MCErrTag
CHECK_DEADLOCK FALSE
INVARIANT MessagesArriveWhole
