CONSTANTS
  RecordId  = {r1, r2, r3}
  Value     = {x, y}
  Absent    = Absent
  Unchanged = Unchanged
  MAX_TOMBSTONES = 1
  TOMBSTONE_PRUNE_BUFFER_SIZE = 0
  MaxClock  = 3
SYMMETRY Symmetry
SPECIFICATION storageSpec
INVARIANTS storageTypeOK ChangeFeedComplete
