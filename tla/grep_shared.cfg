\* A subdirectory with two subdirectories, which have a file each.
SPECIFICATION FairSpec
CONSTANTS
  d0 = d0
  d1 = d1
  d2 = d2
  d3 = d3
  f1 = f1
  f2 = f2
  Dir = {d0, d1, d2, d3}
  File = {f1, f2}
  Root = d0
  Entries <- Tree
  Hits = 1
  Stray = {0, 1}
  None = None
  Reaper = Reaper
INVARIANTS FoundRight Clean
PROPERTIES Ends
\* The main process ends; one that comes late polls for ever.
CHECK_DEADLOCK FALSE
