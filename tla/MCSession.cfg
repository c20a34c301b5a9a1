SPECIFICATION FairSpec
CONSTANTS
  Sender = sender
  Receiver = receiver
  r1 = r1
  RoomNames <- MCRoomNames
  RoomName = r1
  Texts <- MCTexts
  TextLen <- MCTextLen
  Reads <- MCReads
  Tags <- MCTags
  NamesLen = 6
  MAX_LEN = 255
  MaxCmds = 3
  MaxSignals = 1
  MaxPublished = 9
INVARIANTS
  ScreenShowsDeliveries
  RepliesInStep
  ServerSurvives
PROPERTIES
  InterruptObeyed
  DeliveredIsPrinted
CHECK_DEADLOCK FALSE
