\* All threads of one executor, two finish messages, two SIGUSR2s.
CONSTANTS
  MaxTicks = 2
  MaxFinish = 2
  MaxNext = 2
SPECIFICATION FairSpec
CHECK_DEADLOCK FALSE
INVARIANTS TypeOK NoChildLeftOver ReaperSurvives
PROPERTIES ImplementsTaskLife SupervisedTaskEnds SupervisedStartEnds
