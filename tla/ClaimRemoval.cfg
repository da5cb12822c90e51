\* A node whose first launch is slow to reach the master.
CONSTANTS
  Slaves = {s1}
  NoSlave = NoSlave
  Names = {c1}
  MaxUuid = 1
  MaxGeneration = 2
  MaxRestarts = 0
  MaxNodes = 1
  CompatibilityMode = TRUE
  MaxCrashes = 0
  MaxAccepts = 1
  MayFail = {}
  MaxAnswers = 1
SPECIFICATION FairSpec
PROPERTY EveryRemovalEnds
