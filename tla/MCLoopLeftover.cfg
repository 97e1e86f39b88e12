SPECIFICATION FairSpec
CONSTANTS
  Clients = {c1}
  Listen = Listen
  NoClient = NoClient
  EDelta = 1
  Room = 1
  Replies = 2
  Held = 2
  MaxReqs = 2
PROPERTY WholePackageProcessed
\* the clients may be done; the process may have ended
CHECK_DEADLOCK FALSE
