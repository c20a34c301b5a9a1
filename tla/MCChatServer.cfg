SPECIFICATION Spec
CONSTANTS
  s1 = s1
  s2 = s2
  u1 = u1
  u2 = u2
  r1 = r1
  r2 = r2
  Nobody = Nobody
  NullRoom = NullRoom
  WildRoom = WildRoom
  Senders = {s1, s2}
  Receivers = {u1, u2}
  RoomNames = {r1}
  UserName <- MCOwnName
  MaxReqs = 2
SYMMETRY Symm
CHECK_DEADLOCK FALSE
INVARIANTS TypeOK LocksOnlyInside BroadcastReachesMembers SameOrder
PROPERTY ImplementsAtomicChat
