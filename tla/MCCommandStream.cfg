SPECIFICATION FairSpec
CONSTANTS
  CmdPkgMax = 5
  Base = 4
  Lens = {3, 4}
  Types = {1}
  Window = 10
  Split = FALSE
  MaxPkgs = 7
INVARIANTS TypeOK NothingLost HandledInOrder
PROPERTY AloneHandled
\* the client may stop sending or close
CHECK_DEADLOCK FALSE
