CONSTANTS
  Board = {b1, b2}
  None  = None
  MaxRequests = 3
  MaxChanges  = 1
SPECIFICATION Spec
PROPERTIES DeletesOnlyWhatIsGone
CHECK_DEADLOCK FALSE
