SPECIFICATION Spec
CONSTANTS
  Clients = {c1, c2}
  Listen = Listen
  NoClient = NoClient
  EDelta = 1
  Room = 1
  Replies = 2
  Held = 2
  MaxReqs = 0
INVARIANT LoopSurvives
\* the clients may be done; the process may have ended
CHECK_DEADLOCK FALSE
