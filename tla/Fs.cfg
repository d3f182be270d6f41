SPECIFICATION Spec
CONSTANTS
  Files = {f1, f2}
  NBLOCKS = 6
  NDIRECT = 2
  BLKSIZE = 2
  MaxSize = 3
  MaxCount = 2
  Words = {1}
INVARIANTS BlocksOwned NoLeaks FlushedIsDurable
CONSTRAINT Cleared
CHECK_DEADLOCK FALSE
SYMMETRY Symmetry
