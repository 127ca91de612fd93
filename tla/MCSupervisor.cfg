CONSTANTS
  Watcher = {w1}
  Cap = 1
  ProbeFailures = 2
  MaxChild = 2
SPECIFICATION FairSpec
INVARIANTS OneChild ChangeIsHeard
PROPERTIES IsAService HungChildIsEnded StopReturnsEventually
CHECK_DEADLOCK FALSE
