SPECIFICATION Spec
CONSTANTS
  CmdPkgMax = 5
  Base = 4
  Lens = {3, 4}
  Types = {1}
  Window = 10
  Split = TRUE
  MaxPkgs = 2
INVARIANT HandledWhole
\* the client may stop sending or close
CHECK_DEADLOCK FALSE
