\* A node that is restarted.
CONSTANTS
  Slaves = {s1}
  NoSlave = NoSlave
  Names = {c1}
  MaxUuid = 1
  MaxGeneration = 2
  MaxRestarts = 1
  MaxNodes = 1
  CompatibilityMode = TRUE
  MaxCrashes = 0
  MaxAccepts = 1
  MayFail = {}
  MaxAnswers = 1
SPECIFICATION OfferFairSpec
PROPERTY StoppedNodeIsRelaunched
