SPECIFICATION AllSpec
CONSTANTS
  CPUs = {c1, c2, c3}
  BootCPU = c1
  NULL = NULL
  ScanNENV = 4
  EnvCPUs = {c1, c2}
  NENV = 3
  MaxGen = 1
  InitEnvs = 2
  MaxExits = 1
  NProcs = 2
  NCPU = 1
  MAXFD = 2
  DupTargets = {}
  PIPEBUFSIZ = 1
  Count = 2
  Reader = 2
  Writer = 1
  MaxBytes = 2
  MaxTicks = 1
INVARIANTS
  MutualExclusion
  NoLockPanic
  OwnStack
  FirstInOrder
PROPERTIES
  LockProgress
  ZombiesAreFreed
  RunnablesRun
  ReadersLearnEof
  WritersLearnEof
CHECK_DEADLOCK FALSE
