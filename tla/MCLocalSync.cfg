CONSTANTS
  Tab    = {t1, t2}
  Record = {r1}
  None   = None
  MaxEdits    = 2
  MaxOpens    = 2
  MaxTroubles = 1
SPECIFICATION FairSpec
INVARIANTS TypeOK EditsAccountedFor TabsAgree
PROPERTIES DiskCatchesUp
CHECK_DEADLOCK FALSE
