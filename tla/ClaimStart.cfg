\* One executor that never gets as far as messages.
CONSTANTS
  MaxTicks = 2
  MaxFinish = 0
  MaxNext = 0
SPECIFICATION FairSpec
CHECK_DEADLOCK FALSE
PROPERTY StartEnds
