CONSTANTS
  Tab  = {a, b}
  None = None
  MaxSockets  = 3
  MaxPushes   = 2
  MaxInFlight = 1
  MaxTroubles = 1
  Periodic    = TRUE
SPECIFICATION Spec
INVARIANTS TypeOK NothingStranded PresenceMirrored PresenceBelongs SpeakersAreHeard
SYMMETRY Symmetry
CHECK_DEADLOCK FALSE
