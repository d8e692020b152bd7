CONSTANTS
  Record = {a, b}
  Own = {a}
  a = a
  b = b
  MaxValue = 2
  MaxChanges = 3
  MaxMarks = 2
  MaxBatches = 1
SPECIFICATION Spec
INVARIANTS TypeOK MarksRemember RedosReachTip
