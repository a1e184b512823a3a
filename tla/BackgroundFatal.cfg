SPECIFICATION Spec
CONSTANTS
  Tests = {t1, t2}
  MaxDone = 1
PROPERTY DoneReturns
CHECK_DEADLOCK FALSE
