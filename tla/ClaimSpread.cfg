\* Two nodes, two agents.
CONSTANTS
  Slaves = {s1, s2}
  NoSlave = NoSlave
  Names = {c1}
  MaxUuid = 2
  MaxGeneration = 1
  MaxRestarts = 0
  MaxNodes = 2
  CompatibilityMode = TRUE
  MaxCrashes = 0
  MaxAccepts = 1
  MayFail = {}
  MaxAnswers = 1
SPECIFICATION Spec
INVARIANT NodesAreSpread
