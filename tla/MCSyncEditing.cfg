CONSTANTS
  RecordId  = {r}
  Prop      = {p, q}
  Val       = {x, y}
  Value     <- Records
  Client    = {c1, c2}
  Absent    = Absent
  Unchanged = Unchanged
  MAX_TOMBSTONES = 0
  TOMBSTONE_PRUNE_BUFFER_SIZE = 0
  MaxClock  = 9
  Setups    <- EditingSetups
SPECIFICATION Spec
SYMMETRY Symmetry
INVARIANTS syncTypeOK SpeculativeUndone OptimisticMeansQueued IdleMeansSynced PushesAnswered
CHECK_DEADLOCK FALSE
