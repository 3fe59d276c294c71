\* Two clients at once.
SPECIFICATION FairSpec
CONSTANTS
  Client = {c1, c2}
  MaxRounds = 1
  Garbage = Garbage
  None = None
PROPERTIES Served
\* Clients may be left waiting.
CHECK_DEADLOCK FALSE
