\* A client that gets two matrices and one that gets one.
SPECIFICATION FairSpec
CONSTANTS
  c1 = c1
  c2 = c2
  Client = {c1, c2}
  Rounds <- RoundsIn
  MaxLate = 2
  None = None
INVARIANTS ShownRight Clean
PROPERTIES Ends
\* showResult waits for ever, and so does a late child.
CHECK_DEADLOCK FALSE
