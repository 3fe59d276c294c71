\* Three directories below each other, three files in two of them.
SPECIFICATION FairSpec
CONSTANTS
  d0 = d0
  d1 = d1
  d2 = d2
  f1 = f1
  f2 = f2
  f3 = f3
  Dir = {d0, d1, d2}
  File = {f1, f2, f3}
  Root = d0
  Subdirs <- SubdirsOf
  Files <- FilesOf
  Hits <- HitsIn
  None = None
INVARIANTS TotalsExact LogExact CrashStops Quiet
PROPERTIES Ends
\* The main process ends; one that crashed leaves others waiting for its semaphore.
CHECK_DEADLOCK FALSE
