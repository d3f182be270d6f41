SPECIFICATION AbortSpec
CONSTANTS
  c1 = c1
  c2 = c2
  Clients <- MCClients
  Ops <- MCConnectOps
  QUEUE_SIZE = 3
  NUM_SOCKETS = 1
  MAXYIELD = 1
  NULL = NULL
PROPERTIES
  ConnectReturns
CHECK_DEADLOCK FALSE
