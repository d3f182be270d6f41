SPECIFICATION ChannelSpec
CONSTANTS
  NProcs = 2
  NCPU = 1
  MAXFD = 3
  DupTargets = {2}
  PIPEBUFSIZ = 2
  Count = 2
  Reader = 2
  Writer = 1
  MaxBytes = 4
  Threads = {t1, t2, t3}
  Main = t1
  NSEM = 2
  NMBOX = 1
  MBOXSLOTS = 2
  Msgs = {m1, m2}
  NULL = NULL
INVARIANTS
  EofMeansClosed
  BytesInOrder
  NoMboxPanic
  WakeupsAreFlagged
PROPERTIES
  MailboxSpec
CHECK_DEADLOCK FALSE
