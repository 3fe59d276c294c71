\* Two clients that go round twice, whenever they like.
SPECIFICATION Spec
CONSTANTS
  Client = {c1, c2}
  MaxRounds = 2
  Garbage = Garbage
  None = None
SYMMETRY Symmetry
INVARIANTS TypeOK ForkPerSignal NumbersBounded
\* Clients may be left waiting, and once all are done the server waits for ever.
CHECK_DEADLOCK FALSE
