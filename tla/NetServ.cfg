SPECIFICATION LiveSpec
CONSTANTS
  c1 = c1
  c2 = c2
  Clients <- MCClients
  Ops <- MCOps
  QUEUE_SIZE = 3
  NUM_SOCKETS = 2
  MAXYIELD = 1
  NULL = NULL
CONSTRAINT Explored
INVARIANTS
  BuffersExact
  OneCompletionPerCall
PROPERTIES
  Answered
CHECK_DEADLOCK FALSE
