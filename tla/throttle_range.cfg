SPECIFICATION Spec
CONSTANTS
  Deviation = 60
  MaxPasses = 200
INVARIANT ThrottleInRange
CHECK_DEADLOCK FALSE
