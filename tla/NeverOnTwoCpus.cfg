SPECIFICATION RawSpec
CONSTANTS
  CPUs = {c1, c2}
  BootCPU = c1
  NENV = 3
  MaxGen = 2
  InitEnvs = 1
  NULL = NULL
INVARIANT NeverOnTwoCpus
CHECK_DEADLOCK FALSE
