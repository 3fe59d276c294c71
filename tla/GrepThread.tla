---------------------------- MODULE GrepThread -----------------------------
(***************************************************************************)
(* grepTh of HW4: a word is searched in a tree of directories by one       *)
(* process per directory and one thread per file.                          *)
(*                                                                         *)
(* A semaphore of all processes lets one thread search at a time. Threads  *)
(* append the matches to log.txt and a mark to maxthread.txt, + when they  *)
(* are created and - when they end. A process joins its threads, waits for *)
(* its children and appends its counts to history.txt, from which the main *)
(* process makes the totals. SIGINT at the main process kills those whose  *)
(* pids are in allpid.txt.                                                 *)
(*                                                                         *)
(* fork copies what threads of the process have printed and not flushed    *)
(* yet; the child writes it when it ends. The lines of a file count as     *)
(* one. Of maxthread.txt only what is computed from it is kept. A killed   *)
(* process stops at once; SIGINT goes to the main process only.            *)
(***************************************************************************)
EXTENDS Integers, Sequences, SequencesExt, FiniteSets

CONSTANTS
  Dir, File,  \* one process for each directory, one thread for each file
  Root,       \* the main process
  Subdirs,    \* the subdirectories of each directory
  Files,      \* the files of each directory
  Hits,       \* the matches in each file
  None        \* no totals

\* A tree: every entry is in one directory, once, and nothing is out of reach of the root.
ASSUME ThreadTreeAssumption ==
  /\ IsFiniteSet(Dir) /\ IsFiniteSet(File) /\ Root \in Dir /\ Dir \cap File = {}
  /\ Subdirs \in [Dir -> Seq(Dir \ {Root})] /\ Files \in [Dir -> Seq(File)]
  /\ \A d \in Dir : IsInjective(Subdirs[d]) /\ IsInjective(Files[d])
  /\ \A d, e \in Dir : d # e => /\ ToSet(Subdirs[d]) \cap ToSet(Subdirs[e]) = {}
                               /\ ToSet(Files[d]) \cap ToSet(Files[e]) = {}
  /\ UNION {ToSet(Files[d]) : d \in Dir} = File
  /\ \A S \in SUBSET (Dir \ {Root}) : S # {} => \E d \in Dir \ S : ToSet(Subdirs[d]) \cap S # {}
  /\ Hits \in [File -> Nat]

\* The n[e] of all e in S together.
Together(n, S) == Cardinality(UNION {{e} \X (1 .. n[e]) : e \in S})

Mixed == {d \in Dir : Subdirs[d] # <<>> /\ Files[d] # <<>>}
Home(f) == CHOOSE d \in Dir : f \in ToSet(Files[d])

VARIABLES
  closed,     \* the files and directories that cannot be opened
  dirsFirst,  \* the directories that readdir lists subdirectories first of
  pc, next,   \* where the main thread of each process stands, and in which entry
  th,         \* where each thread stands
  left,       \* the matches it has still to find
  sem,        \* the semaphore
  lines,      \* nOfLinesSearched of each process
  marks,      \* maxthread.txt: [created, streak, max]
  dashes,     \* how many - each process has printed to it and not flushed
  copied,     \* the lines for the log that a process got from its parent at fork
  log,        \* the number of lines in log.txt
  pids,       \* allpid.txt
  history,    \* history.txt, summed up
  totals,     \* what the main process prints
  missed,     \* the processes that were not in allpid.txt at SIGINT
  peak        \* how many threads there were at once

input == <<closed, dirsFirst>>
thread == <<th, left, sem, lines>>
files == <<marks, dashes, copied, log, pids, history>>
outcome == <<totals, missed, peak>>
vars == <<input, pc, next, thread, files, outcome>>

NoHistory == [lines |-> 0, dirs |-> 0, files |-> 0]

Init ==
  /\ closed \in {{}} \cup {{e} : e \in Dir \cup File}
  /\ dirsFirst \in SUBSET Mixed
  /\ pc = [d \in Dir |-> IF d = Root THEN "find" ELSE "unborn"]
  /\ next = [d \in Dir |-> 1]
  /\ th = [f \in File |-> "none"] /\ left = Hits /\ sem = 1
  /\ lines = [d \in Dir |-> 0]
  /\ marks = [created |-> 0, streak |-> 0, max |-> 0]
  /\ dashes = [d \in Dir |-> 0] /\ copied = [d \in Dir |-> 0]
  /\ log = 0 /\ pids = {Root} /\ history = NoHistory
  /\ totals = None /\ missed = {} /\ peak = 0

Entries(d) == IF d \in dirsFirst THEN Subdirs[d] \o Files[d] ELSE Files[d] \o Subdirs[d]
Entry(d) == Entries(d)[next[d]]
Listing(d) == pc[d] = "loop" /\ next[d] <= Len(Entries(d))

Goto(d, from, to) ==
  /\ pc[d] = from
  /\ pc' = [pc EXCEPT ![d] = to]

Running == {f \in File : th[f] \in {"ready", "scan", "printed", "dash"}}
Printed(d) == {f \in ToSet(Files[d]) : th[f] = "printed"}
Larger(a, b) == IF a < b THEN b ELSE a

\* What findNumberOfTotalThread computes: a - ends a streak of +.
Dash(m, n) == IF n = 0 THEN m ELSE [m EXCEPT !.streak = 0, !.max = Larger(@, m.streak)]
Plus(m) == [m EXCEPT !.created = @ + 1, !.streak = @ + 1]
---------------------------------------------------------------------------
(* The threads *)

\* Mutant: sem_wait does not wait.
FreeAlways == TRUE
Free == sem > 0
\* Mutant: the semaphore is not posted.
PostedNone(n) == n
Posted(n) == n + 1

\* sem_wait
Acquire(f) ==
  /\ th[f] = "ready" /\ Free /\ f \notin closed
  /\ sem' = sem - 1
  /\ th' = [th EXCEPT ![f] = "scan"]
  /\ UNCHANGED <<input, pc, next, left, lines, files, outcome>>

\* The file cannot be opened: fgetc of NULL, and the process is gone, with the
\* semaphore, its threads and what it has not flushed.
Crash(f) ==
  /\ th[f] = "ready" /\ Free /\ f \in closed
  /\ sem' = sem - 1
  /\ pc' = [pc EXCEPT ![Home(f)] = "crashed"]
  /\ th' = [g \in File |-> IF Home(g) = Home(f) THEN "dead" ELSE th[g]]
  /\ UNCHANGED <<input, next, left, lines, files, outcome>>

\* findLocationOfSeekingWord finds a match: fprintf, then fflush.
FindMatch(f) ==
  /\ th[f] = "scan" /\ left[f] > 0
  /\ th' = [th EXCEPT ![f] = "printed"]
  /\ left' = [left EXCEPT ![f] = @ - 1]
  /\ UNCHANGED <<input, pc, next, sem, lines, files, outcome>>

FlushMatch(f) ==
  /\ th[f] = "printed"
  /\ th' = [th EXCEPT ![f] = "scan"]
  /\ log' = log + 1
  /\ UNCHANGED <<input, pc, next, left, sem, lines, marks, dashes, copied, pids, history, outcome>>

\* It returns, the lines are added, and threadDeleted prints its mark.
Searched(f) ==
  /\ th[f] = "scan" /\ left[f] = 0
  /\ th' = [th EXCEPT ![f] = "dash"]
  /\ lines' = [lines EXCEPT ![Home(f)] = @ + 1]
  /\ dashes' = [dashes EXCEPT ![Home(f)] = @ + 1]
  /\ UNCHANGED <<input, pc, next, left, sem, marks, copied, log, pids, history, outcome>>

\* fflush, sem_post, pthread_exit
Release(f) ==
  /\ th[f] = "dash"
  /\ th' = [th EXCEPT ![f] = "end"]
  /\ marks' = Dash(marks, dashes[Home(f)])
  /\ dashes' = [dashes EXCEPT ![Home(f)] = 0]
  /\ sem' = Posted(sem)
  /\ UNCHANGED <<input, pc, next, left, lines, copied, log, pids, history, outcome>>
---------------------------------------------------------------------------
(* The processes *)

\* After fork: savePid, and threadArr freed.
SavePid(d) ==
  /\ Goto(d, "born", "find")
  /\ pids' = pids \cup {d}
  /\ UNCHANGED <<input, next, thread, marks, dashes, copied, log, history, outcome>>

\* What exit(0) flushes, for a set of processes: the marks in maxthread.txt and
\* the lines for the log.
FlushAll(ps) ==
  /\ marks' = Dash(marks, IF \E d \in ps : dashes[d] > 0 THEN 1 ELSE 0)
  /\ log' = log + Together([d \in Dir |-> copied[d] + Cardinality(Printed(d))], ps)
  /\ dashes' = [d \in Dir |-> IF d \in ps THEN 0 ELSE dashes[d]]
  /\ copied' = [d \in Dir |-> IF d \in ps THEN 0 ELSE copied[d]]

\* opendir fails: exit(1).
CannotOpen(d) ==
  /\ d \in closed
  /\ Goto(d, "find", "gone")
  /\ FlushAll({d})
  /\ UNCHANGED <<input, next, thread, pids, history, outcome>>

\* findNumberOfDirectoryAndFile, initHistory
Find(d) ==
  /\ d \notin closed
  /\ Goto(d, "find", "loop")
  /\ lines' = [lines EXCEPT ![d] = 0]
  /\ UNCHANGED <<input, next, th, left, sem, files, outcome>>

\* A file: threadCreated, which flushes before and after its mark, and
\* pthread_create.
Create(d) ==
  /\ Listing(d) /\ Entry(d) \in File
  /\ next' = [next EXCEPT ![d] = @ + 1]
  /\ th' = [th EXCEPT ![Entry(d)] = "ready"]
  /\ marks' = Plus(Dash(marks, dashes[d]))
  /\ dashes' = [dashes EXCEPT ![d] = 0]
  /\ peak' = Larger(peak, Cardinality(Running) + 1)
  /\ UNCHANGED <<input, pc, left, sem, lines, copied, log, pids, history, totals, missed>>

\* A subdirectory: fork. The child has its parent's counts and its unwritten
\* buffers, but not its threads.
Fork(d) ==
  /\ Listing(d) /\ Entry(d) \in Dir
  /\ pc' = [pc EXCEPT ![Entry(d)] = "born"]
  /\ next' = [next EXCEPT ![d] = @ + 1]
  /\ lines' = [lines EXCEPT ![Entry(d)] = lines[d]]
  /\ dashes' = [dashes EXCEPT ![Entry(d)] = dashes[d]]
  /\ copied' = [copied EXCEPT ![Entry(d)] = copied[d] + Cardinality(Printed(d))]
  /\ UNCHANGED <<input, th, left, sem, marks, log, pids, history, outcome>>

Listed(d) ==
  /\ next[d] > Len(Entries(d))
  /\ Goto(d, "loop", "join")
  /\ UNCHANGED <<input, next, thread, files, outcome>>

\* Mutant: the threads are not joined.
JoinedNone(d) == TRUE
Joined(d) == \A f \in ToSet(Files[d]) : th[f] = "end"

Join(d) ==
  /\ Joined(d)
  /\ Goto(d, "join", "wait")
  /\ UNCHANGED <<input, next, thread, files, outcome>>

Ended(d) == pc[d] \in {"gone", "killed", "crashed"}
\* Mutant: the children are not waited for.
WaitedNone(d) == TRUE
Waited(d) == \A c \in ToSet(Subdirs[d]) : Ended(c)

Wait(d) ==
  /\ Waited(d)
  /\ Goto(d, "wait", IF d = Root THEN "read" ELSE "record")
  /\ UNCHANGED <<input, next, thread, files, outcome>>

Added(h, d) ==
  [lines |-> h.lines + lines[d], dirs |-> h.dirs + Len(Subdirs[d]), files |-> h.files + Len(Files[d])]

\* A child appends its counts to history.txt, and exit(0).
Record(d) ==
  /\ Goto(d, "record", "gone")
  /\ history' = Added(history, d)
  /\ FlushAll({d})
  /\ UNCHANGED <<input, next, thread, pids, outcome>>
---------------------------------------------------------------------------
(* The main process *)

\* Its own counts and those of history.txt.
ReadHistory ==
  /\ Goto(Root, "read", "count")
  /\ totals' = Added(history, Root)
  /\ UNCHANGED <<input, next, thread, files, missed, peak>>

\* detectNumberOfTargetWord, findNumberOfTotalThread, printHistory
Shown == [lines |-> totals.lines, dirs |-> totals.dirs + 1, files |-> totals.files,
           strings |-> log, created |-> marks.created, max |-> marks.max]
ShowTotals ==
  /\ Goto(Root, "count", "remove")
  /\ totals' = Shown
  /\ UNCHANGED <<input, next, thread, files, missed, peak>>

\* removeAndUnlinkAll, and the end.
RemoveFiles ==
  /\ Goto(Root, "remove", "gone")
  /\ pids' = {} /\ history' = NoHistory
  /\ UNCHANGED <<input, next, thread, marks, dashes, copied, log, outcome>>

\* Mutant: the main process kills nobody.
KilledNone == {Root}
Killed == pids \cup {Root}

\* SIGINT or SIGTSTP at the main process: killAllProcess, whose SIGUSR2 makes the
\* others exit(0), printHistory and removeAndUnlinkAll, exit(0).
Interrupt ==
  LET alive == {d \in Dir : pc[d] # "unborn" /\ ~Ended(d)} IN
  /\ Root \in alive
  /\ pc' = [d \in Dir |-> IF d \in alive \cap Killed THEN "killed" ELSE pc[d]]
  /\ th' = [f \in File |-> IF Home(f) \in Killed /\ th[f] # "end" THEN "dead" ELSE th[f]]
  /\ FlushAll(alive \cap Killed)
  /\ pids' = {} /\ history' = NoHistory
  /\ missed' = alive \ pids
  /\ UNCHANGED <<input, next, left, sem, lines, totals, peak>>
---------------------------------------------------------------------------
Thread(f) == Acquire(f) \/ Crash(f) \/ FindMatch(f) \/ FlushMatch(f) \/ Searched(f) \/ Release(f)
Process(d) ==
  \/ SavePid(d) \/ CannotOpen(d) \/ Find(d) \/ Create(d) \/ Fork(d) \/ Listed(d)
  \/ Join(d) \/ Wait(d) \/ Record(d)
Main == ReadHistory \/ ShowTotals \/ RemoveFiles

Next == (\E f \in File : Thread(f)) \/ (\E d \in Dir : Process(d)) \/ Main \/ Interrupt

\* Threads and processes are scheduled; nobody need interrupt them.
Fairness ==
  /\ \A f \in File : WF_vars(Thread(f))
  /\ \A d \in Dir : WF_vars(Process(d))
  /\ WF_vars(Main)

Spec == Init /\ [][Next]_vars
FairSpec == Spec /\ Fairness
---------------------------------------------------------------------------
(* Properties *)

Printing == pc[Root] \in {"remove", "gone"} /\ totals # None
Whole == closed = {}
Crashed == \E d \in Dir : pc[d] = "crashed"
AllHits == Together(Hits, File)

TypeOK ==
  /\ pc \in [Dir -> {"unborn", "born", "find", "loop", "join", "wait", "record", "read", "count",
                     "remove", "gone", "killed", "crashed"}]
  /\ next \in [Dir -> Nat \ {0}]
  /\ th \in [File -> {"none", "ready", "scan", "printed", "dash", "end", "dead"}]
  /\ left \in [File -> Nat]
  /\ sem \in 0 .. 1
  /\ lines \in [Dir -> Nat] /\ dashes \in [Dir -> 0 .. 1] /\ copied \in [Dir -> Nat]
  /\ marks \in [created : Nat, streak : Nat, max : Nat]
  /\ log \in Nat /\ peak \in Nat
  /\ pids \subseteq Dir /\ missed \subseteq Dir
  /\ history \in [lines : Nat, dirs : Nat, files : Nat]

\* If everything could be opened the totals are those of the tree: the counts of
\* every process are in history.txt before the main process reads it, once each,
\* and every thread is counted once although fork copies unwritten marks. The "max #
\* of threads running concurrently" is the longest streak of + in maxthread.txt:
\* never more than there were, unless a crash ended threads without a -.
TotalsExact ==
  Printing =>
    /\ ~Crashed => totals.max <= peak
    /\ Whole => /\ totals.lines = Cardinality(File) /\ totals.files = Cardinality(File)
                /\ totals.dirs = Cardinality(Dir) /\ totals.created = Cardinality(File)

\* No match is missing in the number of strings found. It is exact if no process
\* forks after it created a thread; if one does the child may write a match again.
LogExact ==
  Printing /\ Whole =>
    /\ totals.strings >= AllHits
    /\ (Mixed \subseteq dirsFirst => totals.strings = AllHits)

\* A file that cannot be opened stops every search: the process that crashed has
\* the semaphore.
CrashStops == Crashed => \A f \in File : th[f] \notin {"scan", "printed", "dash"}

\* When the main process has ended, so have all others, and history.txt is gone,
\* unless one crashed or had not saved its pid yet when SIGINT came: that one, and
\* what it forks, goes on and leaves counts for the next run.
Quiet ==
  pc[Root] \in {"gone", "killed"} /\ missed = {} /\ ~Crashed =>
    /\ \A d \in Dir : pc[d] = "unborn" \/ Ended(d)
    /\ history = NoHistory

\* If everything can be opened the main process comes to its end.
Ends == Whole ~> pc[Root] \in {"gone", "killed"}
============================================================================
