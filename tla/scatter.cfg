SPECIFICATION Spec
CONSTANTS
  MaxInt = 15
  MaxWorkers = 4
CHECK_DEADLOCK FALSE
INVARIANTS TypeOK Partition EndsAtEnd
