SPECIFICATION FairSpec
CONSTANTS
  Users = {u1, u2}
  BThreads = {b1}
  NoUser = NoUser
  MaxPos = 1
  MaxInits = 0
  MaxCmds = 1
PROPERTY BroadcastEnds
CHECK_DEADLOCK FALSE
