SPECIFICATION RegistrySpec
CONSTANTS
  Ids = 4
  LongMax = 15
  Sessions = {s1, s2}
  Nicks = {ann, bob}
  NoNick = NoNick
  Reregister = FALSE
  Repeats = FALSE
  MaxList = 1
  MaxRegs = 2
  MaxCmds = 2
INVARIANT BuddiesKnowIds
