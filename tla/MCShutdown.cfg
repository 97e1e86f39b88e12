SPECIFICATION FairSpec
CONSTANTS
  N = 1
  MaxIds = 2
  MaxSignals = 2
INVARIANTS TypeOK StopNotMissed NoOrphans
PROPERTY StopTerminates
\* the process ends
CHECK_DEADLOCK FALSE
