\* Two requests at once whose keys differ, room for all their segments.
SPECIFICATION FairUniqueSpec
CONSTANTS
  Request = {r1, r2}
  Method = {SVD, QR}
  Key = {k1, k2}
  Rows <- Square
  Cols <- Square
  MaxSegments = 4
  None = None
CONSTRAINT TwoNames
INVARIANTS PrivateSegments OwnAnswer WholeSolution LogAgrees
PROPERTIES MatrixHeld ImplementsService Served KeysFreed
\* Every P2 polls for ever and every mainThread waits for it.
CHECK_DEADLOCK FALSE
