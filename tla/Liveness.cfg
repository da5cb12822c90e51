\* One node, two launches, a rolling restart and a crash, under fairness.
CONSTANTS
  Slaves = {s1}
  NoSlave = NoSlave
  Names = {c1}
  MaxUuid = 1
  MaxGeneration = 2
  MaxRestarts = 1
  MaxNodes = 1
  CompatibilityMode = TRUE
  MaxCrashes = 1
  MaxAccepts = 2
  MayFail = {}
  MaxAnswers = 1
SPECIFICATION FairSpec
INVARIANT TypeOK
PROPERTIES EventuallyReconciled AddressableRemovalEnds
