SPECIFICATION FairSpec
CONSTANTS
  Producers = {gps, stopper}
  Consumers = {b1, b2, b3}
  Values = {u1, u2}
  NoValue = NoValue
  NoThread = NoThread
  MaxPuts = 4
INVARIANTS TypeOK MutexInv PopSafe NoLostWakeup
PROPERTIES ImplementsFifo Drained
CHECK_DEADLOCK TRUE
