\* One executor and a kill.
CONSTANTS
  MaxTicks = 2
  MaxFinish = 0
  MaxNext = 0
SPECIFICATION FairSpec
CHECK_DEADLOCK FALSE
PROPERTY KilledRiakIsShutDown
