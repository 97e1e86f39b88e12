SPECIFICATION FairSpec
CONSTANTS
  Room = 1
  RcvBuf = 2
  Strays = {"mine", "other"}
  MaxRebinds = 1
  MaxAcks = 1
INVARIANTS TypeOK AckTruthful NeverRefused SendAddrSeen
PROPERTY InitCompletes
\* once the channel is set up nothing more need happen
CHECK_DEADLOCK FALSE
