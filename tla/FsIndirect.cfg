SPECIFICATION Spec
CONSTANTS
  Files = {f1, f2}
  NBLOCKS = 7
  NDIRECT = 1
  BLKSIZE = 2
  MaxSize = 3
  MaxCount = 2
  Words = {0, 5}
INVARIANT OneOwner
CHECK_DEADLOCK FALSE
SYMMETRY Symmetry
