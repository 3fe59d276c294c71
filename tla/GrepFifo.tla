----------------------------- MODULE GrepFifo ------------------------------
(***************************************************************************)
(* GrepDirectory of HW3: a word is searched in a tree of directories by    *)
(* one process per directory and one per file.                             *)
(*                                                                         *)
(* A directory creates a FIFO for each of its subdirectories and a pipe    *)
(* for each of its files, and forks a process for every entry. Then it     *)
(* opens the FIFOs one by one and reads each once, waits for all its       *)
(* children, reads each pipe once, and writes what it has got to the FIFO  *)
(* its parent created for it. The main process writes the log and counts   *)
(* its lines.                                                              *)
(*                                                                         *)
(* A line of output is the file it is about. An open of a FIFO blocks      *)
(* until the other end is opened. What may fail is opening a file or a     *)
(* directory, and pipe; fork and mkfifo do not. A read returns at most     *)
(* Cap lines (1000 bytes), and no buffer is overrun.                       *)
(***************************************************************************)
EXTENDS Integers, Sequences, SequencesExt, FiniteSets

CONSTANTS
  Dir, File,  \* the processes: one for each directory and each file
  Root,       \* the main process
  Entries,    \* what readdir returns of each directory, in this order
  Subdirs,    \* the directories among them: what becomes of fifoArray
  Files,      \* and the files: what becomes of pipeArray
  Hits,       \* bound: matches in a file
  MaxFaults,  \* bound: how many calls fail in one run
  Cap         \* how many lines one read returns

\* A tree: every entry is in one directory, once; no directory is below itself, or out of
\* reach of the root.
ASSUME TreeAssumption ==
  /\ Root \in Dir /\ Dir \cap File = {}
  /\ Entries \in [Dir -> Seq(Dir \cup File)]
  /\ Subdirs \in [Dir -> Seq(Dir \ {Root})] /\ Files \in [Dir -> Seq(File)]
  /\ \A d \in Dir : /\ ToSet(Entries[d]) = ToSet(Subdirs[d]) \cup ToSet(Files[d])
                    /\ IsInjective(Entries[d]) /\ IsInjective(Subdirs[d]) /\ IsInjective(Files[d])
  /\ \A d, e \in Dir : d # e => ToSet(Entries[d]) \cap ToSet(Entries[e]) = {}
  /\ UNION {ToSet(Entries[d]) : d \in Dir} = (Dir \cup File) \ {Root}
  /\ \A S \in SUBSET Dir : S # {} => \E d \in S : ToSet(Subdirs[d]) \cap S = {}
  /\ \A S \in SUBSET (Dir \ {Root}) : S # {} => \E d \in Dir \ S : ToSet(Subdirs[d]) \cap S # {}
  /\ Hits \in Nat /\ MaxFaults \in Nat /\ Cap \in Nat \ {0}

Parent(e) == CHOOSE d \in Dir : e \in ToSet(Entries[d])

VARIABLES
  hits,    \* the matches in each file
  closed,  \* the files and directories that cannot be opened
  scarce,  \* the directories whose pipe fails
  junk,    \* the lines a file's uninitialised buffer began with
  pc,      \* where each process stands
  next,    \* its position in the loop it is in
  arr,     \* what a directory has got so far
  fifo,    \* the FIFOs that exist, by their directories
  sent,    \* what was written to them
  pipe,    \* what the files wrote to their pipes
  total    \* the number of lines in the log, -1 as long as there is none

input == <<hits, closed, scarce, junk>>
vars == <<input, pc, next, arr, fifo, sent, pipe, total>>

Init ==
  /\ hits \in [File -> 0 .. Hits] /\ junk \in [File -> 0 .. 1]
  /\ closed \in SUBSET (Dir \cup File) /\ scarce \in SUBSET Dir
  /\ Cardinality(closed) + Cardinality(scarce) <= MaxFaults
  /\ Cardinality({f \in File : junk[f] # 0}) <= MaxFaults
  /\ pc = [e \in Dir \cup File |-> IF e = Root THEN "find" ELSE "unborn"]
  /\ next = [d \in Dir |-> 1]
  /\ arr = [d \in Dir |-> <<>>]
  /\ fifo = {} /\ sent = [d \in Dir |-> <<>>]
  /\ pipe = [f \in File |-> <<>>]
  /\ total = -1

Goto(e, from, to) ==
  /\ pc[e] = from
  /\ pc' = [pc EXCEPT ![e] = to]

\* read(..., 1000)
OneRead(s) == SubSeq(s, 1, IF Len(s) < Cap THEN Len(s) ELSE Cap)
---------------------------------------------------------------------------
(* A file *)

Lines(f) == [i \in 1 .. junk[f] + hits[f] |-> f]

\* Mutant: a file that cannot be opened passes for one without matches.
StatusIgnored(f) == "gone"
\* exit(0), or exit(1) if fopen failed.
FileStatus(f) == IF f \in closed THEN "failed" ELSE "gone"

\* findLocationOfSeekingWord, and the end of the process.
Search(f) ==
  /\ Goto(f, "find", FileStatus(f))
  /\ pipe' = [pipe EXCEPT ![f] = IF f \in closed THEN <<>> ELSE Lines(f)]
  /\ UNCHANGED <<input, next, arr, fifo, sent, total>>
---------------------------------------------------------------------------
(* A directory *)

\* opendir fails: exit(1).
CannotOpen(d) ==
  /\ d \in closed
  /\ Goto(d, "find", "failed")
  /\ UNCHANGED <<input, next, arr, fifo, sent, pipe, total>>

\* findNumberOfDirectoryAndFileAndCreateFifo, and the pipes.
Find(d) ==
  /\ d \notin closed
  /\ Goto(d, "find", IF d \in scarce /\ Files[d] # <<>> THEN "nopipe" ELSE "fork")
  /\ fifo' = fifo \cup ToSet(Subdirs[d])
  /\ UNCHANGED <<input, next, arr, sent, pipe, total>>

\* pipe failed: grepDirector returns, to exit(0) or, at the root, to the log.
NoPipe(d) ==
  /\ Goto(d, "nopipe", IF d = Root THEN "report" ELSE "gone")
  /\ UNCHANGED <<input, next, arr, fifo, sent, pipe, total>>

\* fork, once for each entry. A child has the arr of its parent, which is empty.
Fork(d) ==
  /\ pc[d] = "fork" /\ next[d] <= Len(Entries[d])
  /\ pc' = [pc EXCEPT ![Entries[d][next[d]]] = "find"]
  /\ next' = [next EXCEPT ![d] = @ + 1]
  /\ UNCHANGED <<input, arr, fifo, sent, pipe, total>>

\* Mutant: the children are waited for before their FIFOs are read.
WaitsFirst(d) ==
  /\ next[d] > Len(Entries[d])
  /\ Goto(d, "fork", "wait")
  /\ next' = [next EXCEPT ![d] = 1]
  /\ UNCHANGED <<input, arr, fifo, sent, pipe, total>>

ForkedAll(d) ==
  /\ next[d] > Len(Entries[d])
  /\ Goto(d, "fork", "open")
  /\ next' = [next EXCEPT ![d] = 1]
  /\ UNCHANGED <<input, arr, fifo, sent, pipe, total>>

\* open(fifoName, O_RDONLY), and the child's open(fifoName, O_WRONLY): both wait
\* for each other.
Current(d) == Subdirs[d][next[d]]

Open(d) ==
  /\ pc[d] = "open" /\ next[d] <= Len(Subdirs[d])
  /\ pc[Current(d)] = "put"
  /\ pc' = [pc EXCEPT ![d] = "read", ![Current(d)] = "write"]
  /\ UNCHANGED <<input, next, arr, fifo, sent, pipe, total>>

\* unlink
Unlinked(c) == {c}

\* read, strcat, close, unlink
Read(d) ==
  /\ Goto(d, "read", "open")
  /\ pc[Current(d)] = "gone"
  /\ arr' = [arr EXCEPT ![d] = @ \o OneRead(sent[Current(d)])]
  /\ fifo' = fifo \ Unlinked(Current(d))
  /\ next' = [next EXCEPT ![d] = @ + 1]
  /\ UNCHANGED <<input, sent, pipe, total>>

ReadAll(d) ==
  /\ next[d] > Len(Subdirs[d])
  /\ Goto(d, "open", "wait")
  /\ UNCHANGED <<input, next, arr, fifo, sent, pipe, total>>

Children(d) == ToSet(Entries[d])

\* wait finds a child that did not end with 0: exit(1).
WaitFailed(d) ==
  /\ \E c \in Children(d) : pc[c] = "failed"
  /\ Goto(d, "wait", "failed")
  /\ UNCHANGED <<input, next, arr, fifo, sent, pipe, total>>

\* wait, until there is no child any more.
Ended(d) == \A c \in Children(d) : pc[c] = "gone"

FromPipes(d) == FlattenSeq([i \in DOMAIN Files[d] |-> OneRead(pipe[Files[d][i]])])

\* Mutant: what the pipes hold comes before what the FIFOs held.
CollectBefore(d) ==
  /\ Ended(d)
  /\ Goto(d, "wait", IF d = Root THEN "report" ELSE "put")
  /\ arr' = [arr EXCEPT ![d] = FromPipes(d) \o @]
  /\ UNCHANGED <<input, next, fifo, sent, pipe, total>>

\* Then the pipes, in the order of the files.
Collect(d) ==
  /\ Ended(d)
  /\ Goto(d, "wait", IF d = Root THEN "report" ELSE "put")
  /\ arr' = [arr EXCEPT ![d] = @ \o FromPipes(d)]
  /\ UNCHANGED <<input, next, fifo, sent, pipe, total>>

\* write to the parent's FIFO, and exit(0).
Write(d) ==
  /\ Goto(d, "write", "gone")
  /\ sent' = [sent EXCEPT ![d] = arr[d]]
  /\ UNCHANGED <<input, next, arr, fifo, pipe, total>>

\* detectNumberOfTargetWord: the log gets arr, and its lines are counted.
Report ==
  /\ Goto(Root, "report", "gone")
  /\ total' = Len(arr[Root])
  /\ UNCHANGED <<input, next, arr, fifo, sent, pipe>>
---------------------------------------------------------------------------
Directory(d) ==
  \/ CannotOpen(d) \/ Find(d) \/ NoPipe(d) \/ Fork(d) \/ ForkedAll(d) \/ Open(d) \/ Read(d)
  \/ ReadAll(d) \/ WaitFailed(d) \/ Collect(d) \/ Write(d)

Next == (\E f \in File : Search(f)) \/ (\E d \in Dir : Directory(d)) \/ Report

\* Processes are scheduled.
Fairness ==
  /\ \A f \in File : WF_vars(Search(f))
  /\ \A d \in Dir : WF_vars(Directory(d))
  /\ WF_vars(Report)

Spec == Init /\ [][Next]_vars
FairSpec == Spec /\ Fairness
---------------------------------------------------------------------------
(* Properties *)

TypeOK ==
  /\ hits \in [File -> 0 .. Hits] /\ junk \in [File -> 0 .. 1]
  /\ closed \in SUBSET (Dir \cup File) /\ scarce \in SUBSET Dir
  /\ pc \in [Dir \cup File -> {"unborn", "find", "nopipe", "fork", "open", "read", "wait", "put",
                               "write", "report", "gone", "failed"}]
  /\ next \in [Dir -> Nat \ {0}]
  /\ arr \in [Dir -> Seq(File)] /\ sent \in [Dir -> Seq(File)]
  /\ pipe \in [File -> Seq(File)]
  /\ fifo \subseteq Dir \ {Root}
  /\ total \in Nat \cup {-1}

\* What a directory should hand on: the output of its subdirectories in their
\* order, then that of its files, each as far as one read takes it.
Output[d \in Dir] ==
  FlattenSeq([i \in DOMAIN Subdirs[d] |-> OneRead(Output[Subdirs[d][i]])])
    \o FlattenSeq([i \in DOMAIN Files[d] |-> OneRead(Lines(Files[d][i]))])

\* However the processes are scheduled, what a directory writes to its FIFO, and
\* the root to the log, is the same: nothing twice, nothing of others, in order.
OutputFixed ==
  \A d \in Dir : pc[d] \in {"put", "write"} \/ (d = Root /\ pc[d] = "report" /\ Files[d] # <<>> /\ d \notin scarce)
                   => arr[d] = Output[d]

Sound == closed = {} /\ \A d \in scarce : Files[d] = <<>>

\* There is no total of a part of the tree: the root prints one only if everything
\* could be opened, and has removed all FIFOs then, or, a pipe of its own failing, a
\* total of nothing at all.
TotalOfAll ==
  total # -1 => (Sound /\ fifo = {}) \/ (total = 0 /\ Root \in scarce)

\* A failure is not passed on: the parent of a directory that ended without
\* writing to its FIFO stays in the open of that FIFO, with all that wait for it.
Silent(d) == pc[d] = "failed" \/ (pc[d] = "gone" /\ d \in scarce /\ Files[d] # <<>>)
FailureStops ==
  \A d \in Dir \ {Root} : Silent(d) =>
     /\ pc[Parent(d)] \in {"fork", "open", "read"}
     /\ d \in fifo /\ total = -1

\* If everything can be opened the root prints its total and every process ends.
Ends == Sound ~> \A e \in Dir \cup File : pc[e] = "gone"
===========================================================================
