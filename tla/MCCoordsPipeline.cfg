SPECIFICATION Spec
CONSTANTS
  Users = {u1, u2}
  BThreads = {b1, b2}
  NoUser = NoUser
  MaxPos = 2
  MaxInits = 1
  MaxCmds = 2
SYMMETRY Symmetry
INVARIANTS TypeOK OnceOnQueue OneBroadcaster NoTornPosition NeverWedged
PROPERTY RelayMonotone
\* the threads rest once the bounded inputs are used up, or after a fault
CHECK_DEADLOCK FALSE
