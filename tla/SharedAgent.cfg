\* Two nodes with volumes on the same agent.
CONSTANTS
  Slaves = {s1}
  NoSlave = NoSlave
  Names = {c1}
  MaxUuid = 2
  MaxGeneration = 1
  MaxRestarts = 0
  MaxNodes = 2
  CompatibilityMode = FALSE
  MaxCrashes = 0
  MaxAccepts = 1
  MayFail = {}
  MaxAnswers = 0
SPECIFICATION Spec
INVARIANT RunningTaskKeepsVolume
