\* Two clients, a pool of one thread, SIGINT at any moment and one restart.
SPECIFICATION FairSpec
CONSTANTS
  Client = {c1, c2}
  PoolSize = 1
  MaxRuns = 2
  None = None
INVARIANTS TypeOK OneHolder CountExact OwnJob
PROPERTIES Admitted
\* Once every client was served main waits for the next for ever.
CHECK_DEADLOCK FALSE
