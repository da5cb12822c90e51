\* One node slot, used by two successive clusters of the same name; two launches; two crashes.
CONSTANTS
  Slaves = {s1}
  NoSlave = NoSlave
  Names = {c1}
  MaxUuid = 2
  MaxGeneration = 2
  MaxRestarts = 0
  MaxNodes = 1
  CompatibilityMode = TRUE
  MaxCrashes = 2
  MaxAccepts = 2
  MayFail = {"createCluster", "restartCluster", "removeCluster", "createNode", "removeNode", "setConfig"}
  MaxAnswers = 1
SPECIFICATION Spec
INVARIANT ExecutorStartedOnce
PROPERTY CrashLosesNothing
