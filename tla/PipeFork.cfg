SPECIFICATION Spec
CONSTANTS
  NProcs = 3
  NCPU = 1
  MAXFD = 2
  DupTargets = {}
  PIPEBUFSIZ = 2
  Count = 2
  Reader = 2
  Writer = 1
  MaxBytes = 4
INVARIANT EofMeansClosed
CHECK_DEADLOCK FALSE
