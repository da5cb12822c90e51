\* A node that is removed while it starts.
CONSTANTS
  Slaves = {s1}
  NoSlave = NoSlave
  Names = {c1}
  MaxUuid = 1
  MaxGeneration = 1
  MaxRestarts = 0
  MaxNodes = 1
  CompatibilityMode = TRUE
  MaxCrashes = 0
  MaxAccepts = 1
  MayFail = {}
  MaxAnswers = 1
SPECIFICATION Spec
INVARIANT BuriedNodeIsKilled
