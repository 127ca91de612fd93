CONSTANTS
  MaxProc = 3
  ByHand = {}
  MaxUp = 2
SPECIFICATION FairSpec
INVARIANTS BindFindsNoFile UpAnswersFromNewConfig
PROPERTIES ShutdownCompletes
CHECK_DEADLOCK FALSE
