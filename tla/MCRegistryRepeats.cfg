SPECIFICATION RegistryFairSpec
CONSTANTS
  Ids = 4
  LongMax = 15
  Sessions = {s1, s2}
  Nicks = {ann, bob}
  NoNick = NoNick
  Reregister = FALSE
  Repeats = TRUE
  MaxList = 2
  MaxRegs = 2
  MaxCmds = 2
PROPERTY BuddiesIdsSent
