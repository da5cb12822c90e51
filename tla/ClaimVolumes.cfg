\* A node with a volume that fails.
CONSTANTS
  Slaves = {s1}
  NoSlave = NoSlave
  Names = {c1}
  MaxUuid = 1
  MaxGeneration = 2
  MaxRestarts = 0
  MaxNodes = 1
  CompatibilityMode = FALSE
  MaxCrashes = 0
  MaxAccepts = 1
  MayFail = {}
  MaxAnswers = 1
SPECIFICATION Spec
PROPERTY UnusedVolumesDestroyed
