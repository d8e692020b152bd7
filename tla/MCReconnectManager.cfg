CONSTANTS
  Socket = {s1, s2}
  None   = None
  Never  = Never
  ACTIVE_MIN_DELAY = 1
  ACTIVE_MAX_DELAY = 4
  INACTIVE_MIN_DELAY = 2
  INACTIVE_MAX_DELAY = 5
  ATTEMPT_TIMEOUT = 2
  MaxTroubles = 3
SPECIFICATION FairSpec
INVARIANTS TypeOK OneLiveSocket NeverStuck
PROPERTIES AttemptsSpaced EventuallyInRoom
