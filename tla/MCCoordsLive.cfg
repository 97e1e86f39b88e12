SPECIFICATION FairSpec
CONSTANTS
  Users = {u1, u2}
  BThreads = {b1, b2}
  NoUser = NoUser
  MaxPos = 3
  MaxInits = 0
  MaxCmds = 1
PROPERTY ReadyIsBroadcast
CHECK_DEADLOCK FALSE
