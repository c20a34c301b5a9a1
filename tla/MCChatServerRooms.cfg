SPECIFICATION FairSpec
CONSTANTS
  s1 = s1
  s2 = s2
  u1 = u1
  u2 = u2
  r1 = r1
  r2 = r2
  Nobody = Nobody
  NullRoom = NullRoom
  WildRoom = WildRoom
  Senders = {s1}
  Receivers = {u1}
  RoomNames = {r1, r2}
  UserName <- MCUserName
  MaxReqs = 4
CHECK_DEADLOCK FALSE
INVARIANTS UniqueRoom NoWildRoom OneRoomAtATime
PROPERTIES RequestsAnswered QueuedIsSent
