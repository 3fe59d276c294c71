\* Two requests that drew the same keys.
SPECIFICATION Spec
CONSTANTS
  Request = {r1, r2}
  Method = {SVD}
  Key = {k1}
  Rows <- Square
  Cols <- Square
  MaxSegments = 2
  None = None
SYMMETRY Symmetry
INVARIANTS TypeOK LogExclusive SecondProcessStays
\* Every P2 polls for ever and every mainThread waits for it.
CHECK_DEADLOCK FALSE
CONSTRAINT OneLeaves
