\* Two clients that go round twice, one of them at a time.
SPECIFICATION FairSerialSpec
CONSTANTS
  Client = {c1, c2}
  MaxRounds = 2
  Garbage = Garbage
  None = None
INVARIANTS NoneKilled
PROPERTIES Served
\* Once all are done the server waits for ever.
CHECK_DEADLOCK FALSE
