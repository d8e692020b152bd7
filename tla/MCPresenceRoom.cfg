CONSTANTS
  UserId  = {u1, u2}
  BoardId = {b1}
  ConnId  = {c1, c2}
  RoomId  = {r1, r2}
  None    = None
  MAX_PARTICIPANTS = 2
  RATE_BURST = 1
  MaxUpdates = 1
SPECIFICATION FairSpec
INVARIANTS TypeOK LiveRoomsAreRegistered StaleMeansScheduled
PROPERTIES ImplementsRegistry RostersSettle GhostsAreSwept
