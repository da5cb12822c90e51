\* One node with a volume on one of two agents; two launches; writes of requests fail; a crash.
CONSTANTS
  Slaves = {s1, s2}
  NoSlave = NoSlave
  Names = {c1}
  MaxUuid = 1
  MaxGeneration = 2
  MaxRestarts = 0
  MaxNodes = 1
  CompatibilityMode = FALSE
  MaxCrashes = 1
  MaxAccepts = 1
  MayFail = {"createCluster", "restartCluster", "removeCluster", "createNode", "removeNode", "setConfig"}
  MaxAnswers = 1
SPECIFICATION Spec
SYMMETRY AgentSymmetry
PROPERTIES KeepsVolumesInNeed ImplementsRegistry
