SPECIFICATION LibSpec
CONSTANTS
  CPUs = {c1, c2}
  BootCPU = c1
  NENV = 3
  MaxGen = 2
  InitEnvs = 1
  NULL = NULL
  MaxForks = 4
CONSTRAINT FewForks
INVARIANTS FreeListExact OneCpuPerEnv SleepersAreAwaited MonitorOnlyWhenIdle
PROPERTIES TrapframeStable FreshChildKept
CHECK_DEADLOCK FALSE
