\* One executor and a finish message.
CONSTANTS
  MaxTicks = 2
  MaxFinish = 1
  MaxNext = 0
SPECIFICATION Spec
CHECK_DEADLOCK FALSE
INVARIANT ReportedRiakIsDead
