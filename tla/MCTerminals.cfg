CONSTANTS
  Id = {i1, i2}
  Term = {t1, t2}
  NoTerm = NoTerm
  NoId = NoId
  MaxTerminals = 1
  MaxOutput = 1
SPECIFICATION FairSpec
INVARIANTS OwnSlot ShellCap ExitIsLast
PROPERTIES ClosedShellsEnd OpenShellsEndWithTunnel
CHECK_DEADLOCK FALSE
