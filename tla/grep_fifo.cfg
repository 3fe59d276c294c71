\* Four directories, three files, whatever cannot be opened.
SPECIFICATION FairSpec
CONSTANTS
  d0 = d0
  d1 = d1
  d2 = d2
  d3 = d3
  f1 = f1
  f2 = f2
  f3 = f3
  Dir = {d0, d1, d2, d3}
  File = {f1, f2, f3}
  Root = d0
  Entries <- Tree
  Subdirs <- TreeDirs
  Files <- TreeFiles
  Hits = 1
  MaxFaults = 1
  Cap = 1
INVARIANTS OutputFixed TotalOfAll FailureStops
PROPERTIES Ends
\* A directory may wait for ever for one that failed.
CHECK_DEADLOCK FALSE
