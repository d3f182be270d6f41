SPECIFICATION Spec
CONSTANTS
  Clients = {c1, c2}
  MAXFD = 2
  MAXOPEN = 2
  IdLaps = 3
  MaxOffset = 1
  Files = {f1, f2}
  Nobody = Nobody
  NoFile = NoFile
INVARIANTS OwnFile RequestsKnown OffsetExact AnswerIsComing
SYMMETRY Symmetry
CHECK_DEADLOCK FALSE
