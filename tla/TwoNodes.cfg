\* Two nodes that join and leave one ring; some writes of requests fail; a crash.
CONSTANTS
  Slaves = {s1}
  NoSlave = NoSlave
  Names = {c1}
  MaxUuid = 2
  MaxGeneration = 1
  MaxRestarts = 0
  MaxNodes = 2
  CompatibilityMode = TRUE
  MaxCrashes = 1
  MaxAccepts = 1
  MayFail = {"createCluster", "createNode"}
  MaxAnswers = 0
SPECIFICATION Spec
PROPERTY ImplementsRegistry
