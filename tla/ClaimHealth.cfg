\* One executor and the log of an earlier run.
CONSTANTS
  MaxTicks = 2
  MaxFinish = 0
  MaxNext = 0
SPECIFICATION Spec
CHECK_DEADLOCK FALSE
PROPERTY RunningRiakHasStarted
