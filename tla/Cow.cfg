SPECIFICATION MCSpec
CONSTANTS
  Envs = {1, 2}
  Pages = {1, 2, 3, 4, 5}
  NVas = 2
  Stack = {3}
  Values = {0, 1}
  Zero = 0
  NULL = NULL
VIEW View
CHECK_DEADLOCK FALSE
INVARIANTS
  Isolation
  CowHandled
PROPERTIES
  MemorySpec
