SPECIFICATION RegistryFairSpec
CONSTANTS
  Ids = 4
  LongMax = 15
  Sessions = {s1, s2}
  Nicks = {ann, bob, eve}
  NoNick = NoNick
  Reregister = FALSE
  Repeats = FALSE
  MaxList = 2
  MaxRegs = 4
  MaxCmds = 2
INVARIANTS FreshId RegistryTypeOK MapsAgree UsersHaveSessions IdsStayTrue
PROPERTY FindsFreeId
