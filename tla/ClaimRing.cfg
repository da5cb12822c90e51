\* Two nodes in one ring, one of which fails and is removed.
CONSTANTS
  Slaves = {s1}
  NoSlave = NoSlave
  Names = {c1}
  MaxUuid = 2
  MaxGeneration = 1
  MaxRestarts = 0
  MaxNodes = 2
  CompatibilityMode = TRUE
  MaxCrashes = 0
  MaxAccepts = 1
  MayFail = {}
  MaxAnswers = 0
SPECIFICATION Spec
INVARIANT BuriedNodeLeftRing
