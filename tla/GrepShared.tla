----------------------------- MODULE GrepShared ----------------------------
(***************************************************************************)
(* grepSh of HW5: the program of HW4 (see GrepThread), whose processes     *)
(* also pass on how many matches they found, through shared memory and a   *)
(* message queue.                                                          *)
(*                                                                         *)
(* The subdirectories of a directory share one segment, under a key made   *)
(* of its pid. Each attaches it or creates it, sets its flag to -1, adds   *)
(* its count, sets the flag to 0, polls until it is 1 and removes the      *)
(* segment. The directory sleeps 50 ms, attaches the segment or ends if    *)
(* there is none, polls until the flag is 0, sets it to 1, sends the sum   *)
(* to the queue and removes the segment. The main process receives as many *)
(* messages as there are directories with subdirectories in history.txt,   *)
(* and itself; if their sum and its own count are 0 it writes that the     *)
(* word was never found. It does so too if there is no queue: then each    *)
(* message is a number from an uninitialised buffer. There is none if it   *)
(* has no subdirectories, or if the system has none to give.               *)
(*                                                                         *)
(* The log, maxthread.txt and the faults of GrepThread are left out: the   *)
(* code is the same. Keys do not collide, there are segments enough, and a *)
(* queue that is there has room.                                           *)
(***************************************************************************)
EXTENDS Integers, Sequences, SequencesExt, FiniteSets

CONSTANTS
  Dir, File,  \* one process for each directory, one thread for each file
  Root,       \* the main process
  Entries,    \* what readdir returns of each directory, in this order
  Hits,       \* bound: matches in a file
  Stray,      \* what atoi may make of an uninitialised buffer
  None,       \* no segment, no key
  Reaper      \* the process whose child an orphan becomes

\* A tree: every entry is in one directory, once, and in reach of the root.
ASSUME SharedTreeAssumption ==
  /\ IsFiniteSet(Dir) /\ Root \in Dir /\ Dir \cap File = {}
  /\ Entries \in [Dir -> Seq(Dir \cup File)]
  /\ \A d \in Dir : IsInjective(Entries[d])
  /\ \A d, e \in Dir : d # e => ToSet(Entries[d]) \cap ToSet(Entries[e]) = {}
  /\ UNION {ToSet(Entries[d]) : d \in Dir} = (Dir \cup File) \ {Root}
  /\ \A S \in SUBSET (Dir \ {Root}) : S # {} => \E d \in Dir \ S : ToSet(Entries[d]) \cap S # {}
  /\ Hits \in Nat /\ Stray \subseteq Int /\ Stray # {}
  /\ None \notin Dir /\ Reaper \notin Dir /\ None # Reaper

Subdirs(d) == {e \in ToSet(Entries[d]) : e \in Dir}
Files(d) == {e \in ToSet(Entries[d]) : e \in File}
Home(e) == CHOOSE d \in Dir : e \in ToSet(Entries[d])

VARIABLES
  hits,     \* the matches in each file
  timely,   \* whether the sleep of a directory is long enough for its subdirectories
  room,     \* whether the system has a message queue to give
  pc, next, \* where each process stands, and in which entry
  th,       \* where each thread stands
  left,     \* the matches it has still to find
  sem,      \* the semaphore
  found,    \* numberOfFoundString of each process
  seg,      \* the segments, by the process that created them
  at,       \* the segment whose number each process has
  sum,      \* what a process read from it, to add its own count
  queue,    \* the message queue
  history,  \* how many directories with subdirectories are in history.txt
  need,     \* how many messages the main process has to receive
  got, num, \* how many it has received, and their sum
  verdict   \* what it writes to the log

input == <<hits, timely, room>>
thread == <<th, left, sem, found>>
memory == <<seg, at, sum>>
totals == <<need, got, num, verdict>>
vars == <<input, pc, next, thread, memory, queue, history, totals>>

NoSegment == [key |-> None, flag |-> 0, count |-> 0]

Init ==
  /\ hits \in [File -> 0 .. Hits] /\ timely \in BOOLEAN /\ room \in BOOLEAN
  /\ pc = [d \in Dir |-> IF d = Root THEN "loop" ELSE "unborn"]
  /\ next = [d \in Dir |-> 1]
  /\ th = [f \in File |-> "none"] /\ left = hits /\ sem = 1
  /\ found = [d \in Dir |-> 0]
  /\ seg = [d \in Dir |-> NoSegment]
  /\ at = [d \in Dir |-> None] /\ sum = [d \in Dir |-> 0]
  /\ queue = <<>> /\ history = 0
  /\ need = 0 /\ got = 0 /\ num = 0 /\ verdict = "none"

Goto(d, from, to) ==
  /\ pc[d] = from
  /\ pc' = [pc EXCEPT ![d] = to]

Ended(d) == pc[d] \in {"gone", "failed", "killed"}
---------------------------------------------------------------------------
(* The threads *)

\* sem_wait
Acquire(f) ==
  /\ th[f] = "ready" /\ sem > 0
  /\ sem' = sem - 1
  /\ th' = [th EXCEPT ![f] = "scan"]
  /\ UNCHANGED <<input, pc, next, left, found, memory, queue, history, totals>>

\* findLocationOfSeekingWord: a match, and numberOfFoundString += 1
FindMatch(f) ==
  /\ th[f] = "scan" /\ left[f] > 0
  /\ left' = [left EXCEPT ![f] = @ - 1]
  /\ found' = [found EXCEPT ![Home(f)] = @ + 1]
  /\ UNCHANGED <<input, pc, next, th, sem, memory, queue, history, totals>>

\* The end of the file: threadDeleted, sem_post, pthread_exit.
Release(f) ==
  /\ th[f] = "scan" /\ left[f] = 0
  /\ th' = [th EXCEPT ![f] = "end"]
  /\ sem' = sem + 1
  /\ UNCHANGED <<input, pc, next, left, found, memory, queue, history, totals>>
---------------------------------------------------------------------------
(* The processes: entries *)

Listing(d) == pc[d] = "loop" /\ next[d] <= Len(Entries[d])
Entry(d) == Entries[d][next[d]]

\* A file: threadCreated and pthread_create.
Create(d) ==
  /\ Listing(d) /\ Entry(d) \in File
  /\ next' = [next EXCEPT ![d] = @ + 1]
  /\ th' = [th EXCEPT ![Entry(d)] = "ready"]
  /\ UNCHANGED <<input, pc, left, sem, found, memory, queue, history, totals>>

\* A subdirectory: fork. The child keeps what its parent has counted so far.
Fork(d) ==
  /\ Listing(d) /\ Entry(d) \in Dir
  /\ pc' = [pc EXCEPT ![Entry(d)] = "born"]
  /\ next' = [next EXCEPT ![d] = @ + 1]
  /\ found' = [found EXCEPT ![Entry(d)] = found[d]]
  /\ UNCHANGED <<input, th, left, sem, memory, queue, history, totals>>

\* savePid, and grepDirector: findNumberOfDirectoryAndFile, initHistory.
SavePid(d) ==
  /\ Goto(d, "born", "loop")
  /\ UNCHANGED <<input, next, thread, memory, queue, history, totals>>

\* readFromSharedMem is only for directories with subdirectories.
Reads(d) == IF Subdirs(d) = {} THEN "wait" ELSE "sleep"

\* Mutant: the threads are not waited for.
JoinedNone(d) == TRUE
Joined(d) == \A f \in Files(d) : th[f] = "end"

\* pthread_join of all threads. The main process has no segment to write to.
Join(d) ==
  /\ next[d] > Len(Entries[d])
  /\ Joined(d)
  /\ Goto(d, "loop", IF d = Root THEN Reads(d) ELSE "get")
  /\ UNCHANGED <<input, next, thread, memory, queue, history, totals>>
---------------------------------------------------------------------------
(* writeToSharedMem *)

\* getppid
ParentOf(d) == IF Ended(Home(d)) THEN Reaper ELSE Home(d)
Keyed(k) == {s \in Dir : seg[s].key = k}
Here(d) == seg[at[d]]

\* shmget with IPC_CREAT. The key was made up to 9 ms before, since when the parent may
\* have ended.
Get(d) ==
  /\ Goto(d, "get", "attach")
  /\ \E k \in {Home(d), ParentOf(d)} : \E s \in IF Keyed(k) = {} THEN {d} ELSE Keyed(k) :
       /\ at' = [at EXCEPT ![d] = s]
       /\ seg' = [seg EXCEPT ![s].key = k]
  /\ UNCHANGED <<input, next, thread, sum, queue, history, totals>>

\* A segment that was removed goes with the last process that has it attached.
Attached == {"lower", "add", "raise", "poll", "see", "check", "send"}
Destroyed(s) == seg[s].key = None /\ \A d \in Dir : pc[d] \in Attached => at[d] # s

\* shmat
Attach(d) ==
  /\ Goto(d, "attach", "lower")
  /\ ~Destroyed(at[d])
  /\ UNCHANGED <<input, next, thread, memory, queue, history, totals>>

\* The segment is gone since shmget: exit(1).
AttachFails(d) ==
  /\ Goto(d, "attach", "failed")
  /\ Destroyed(at[d])
  /\ UNCHANGED <<input, next, thread, memory, queue, history, totals>>

\* flag = -1, and the first half of numberOfFoundString += ...
Load(d) ==
  /\ Goto(d, "lower", "add")
  /\ seg' = [seg EXCEPT ![at[d]].flag = -1]
  /\ sum' = [sum EXCEPT ![d] = Here(d).count]
  /\ UNCHANGED <<input, next, thread, at, queue, history, totals>>

Store(d) ==
  /\ Goto(d, "add", "raise")
  /\ seg' = [seg EXCEPT ![at[d]].count = sum[d] + found[d]]
  /\ UNCHANGED <<input, next, thread, at, sum, queue, history, totals>>

\* flag = 0
Raise(d) ==
  /\ Goto(d, "raise", "poll")
  /\ seg' = [seg EXCEPT ![at[d]].flag = 0]
  /\ UNCHANGED <<input, next, thread, at, sum, queue, history, totals>>

\* Mutant: the segments stay.
StillThere(s) == seg
\* shmctl(smID, IPC_RMID, NULL)
WithoutKey(s) == [seg EXCEPT ![s].key = None]

\* while(flag != 1), shmdt, shmctl
Released(d) ==
  /\ pc[d] = "poll" /\ Here(d).flag = 1
  /\ Goto(d, "poll", Reads(d))
  /\ seg' = WithoutKey(at[d])
  /\ at' = [at EXCEPT ![d] = None]
  /\ UNCHANGED <<input, next, thread, sum, queue, history, totals>>
---------------------------------------------------------------------------
(* readFromSharedMem *)

Adding == {"unborn", "born", "loop", "get", "attach", "lower", "add", "raise"}

\* usleep(50000), which a timely run sleeps as long as it takes the subdirectories
\* to add their counts, shmget and shmat. Nobody removes the segment before its flag
\* is 1, so that shmat does not fail.
Find(d) ==
  /\ timely => \A c \in Subdirs(d) : pc[c] \notin Adding
  /\ \E s \in Keyed(d) : at' = [at EXCEPT ![d] = s]
  /\ Goto(d, "sleep", "see")
  /\ UNCHANGED <<input, next, thread, seg, sum, queue, history, totals>>

\* There is no segment: exit(1).
FindNone(d) ==
  /\ timely => \A c \in Subdirs(d) : pc[c] \notin Adding
  /\ Keyed(d) = {}
  /\ Goto(d, "sleep", "failed")
  /\ UNCHANGED <<input, next, thread, memory, queue, history, totals>>

\* Mutant: the children are told nothing.
AnswerNone == 0
AnswerFlag == 1

\* while(flag != 0), flag = 1
Answer(d) ==
  /\ Goto(d, "see", "check")
  /\ Here(d).flag = 0
  /\ seg' = [seg EXCEPT ![at[d]].flag = AnswerFlag]
  /\ UNCHANGED <<input, next, thread, at, sum, queue, history, totals>>

\* while(flag != 1)
Check(d) ==
  /\ Goto(d, "check", "send")
  /\ Here(d).flag = 1
  /\ UNCHANGED <<input, next, thread, memory, queue, history, totals>>

\* writeToQueue, which creates the queue or fails, shmdt, shmctl
Send(d) ==
  /\ Goto(d, "send", "wait")
  /\ queue' = IF room THEN Append(queue, Here(d).count) ELSE queue
  /\ seg' = WithoutKey(at[d])
  /\ at' = [at EXCEPT ![d] = None]
  /\ UNCHANGED <<input, next, thread, sum, history, totals>>
---------------------------------------------------------------------------
(* The processes: the end *)

\* wait; then a child appends to history.txt and ends.
Record(d) ==
  /\ d # Root /\ \A c \in Subdirs(d) : Ended(c)
  /\ Goto(d, "wait", "gone")
  /\ history' = history + (IF Subdirs(d) = {} THEN 0 ELSE 1)
  /\ UNCHANGED <<input, next, thread, memory, queue, totals>>

\* The number of messages to receive: nOfSearchedUniqueDir + 1
Needed(n) == n + 1

ReadHistory ==
  /\ \A c \in Subdirs(Root) : Ended(c)
  /\ Goto(Root, "wait", "receive")
  /\ need' = Needed(history)
  /\ UNCHANGED <<input, next, thread, memory, queue, history, got, num, verdict>>

\* msgget without IPC_CREAT finds a queue only if a message was sent. The main process
\* itself has sent one if it has subdirectories; else there is nobody to send any.
QueueThere == room /\ Subdirs(Root) # {}

\* readFromQueue: msgrcv blocks.
Receive ==
  /\ pc[Root] = "receive" /\ got < need /\ QueueThere /\ queue # <<>>
  /\ num' = num + Head(queue) /\ queue' = Tail(queue)
  /\ got' = got + 1
  /\ UNCHANGED <<input, pc, next, thread, memory, history, need, verdict>>

\* Without a queue msgrcv fails, and the buffer is not initialised.
ReceiveNone ==
  /\ pc[Root] = "receive" /\ got < need /\ ~QueueThere
  /\ \E n \in Stray : num' = num + n
  /\ got' = got + 1
  /\ UNCHANGED <<input, pc, next, thread, memory, queue, history, need, verdict>>

\* What detectNumberOfTargetWord writes below the log.
Verdict(n) == IF n > 0 THEN "found" ELSE "never"

\* num += numberOfFoundString, detectNumberOfTargetWord, and printHistory, which removes
\* history.txt
Finish ==
  /\ got = need
  /\ Goto(Root, "receive", "gone")
  /\ num' = num + found[Root]
  /\ verdict' = Verdict(num') /\ history' = 0
  /\ UNCHANGED <<input, next, thread, memory, queue, need, got>>

\* SIGINT or SIGTSTP at the main process: SIGUSR2 to all that have saved their pids,
\* printHistory, the verdict on what was received so far, and the end. A thread that
\* has the semaphore keeps it.
Interrupt ==
  /\ ~Ended(Root)
  /\ pc' = [d \in Dir |-> IF Ended(d) \/ pc[d] \in {"unborn", "born"} THEN pc[d] ELSE "killed"]
  /\ th' = [f \in File |-> IF pc'[Home(f)] = "killed" /\ th[f] # "end" THEN "dead" ELSE th[f]]
  /\ at' = [d \in Dir |-> IF pc'[d] = "killed" THEN None ELSE at[d]]
  /\ verdict' = Verdict(num) /\ history' = 0
  /\ UNCHANGED <<input, next, left, sem, found, seg, sum, queue, need, got, num>>
---------------------------------------------------------------------------
Thread(f) == Acquire(f) \/ FindMatch(f) \/ Release(f)
Process(d) ==
  \/ Create(d) \/ Fork(d) \/ SavePid(d) \/ Join(d)
  \/ Get(d) \/ Attach(d) \/ AttachFails(d) \/ Load(d) \/ Store(d) \/ Raise(d) \/ Released(d)
  \/ Find(d) \/ FindNone(d) \/ Answer(d) \/ Check(d) \/ Send(d) \/ Record(d)
Main == ReadHistory \/ Receive \/ ReceiveNone \/ Finish

Next == (\E f \in File : Thread(f)) \/ (\E d \in Dir : Process(d)) \/ Main \/ Interrupt

\* Threads and processes are scheduled; nobody need interrupt them.
Fairness ==
  /\ \A f \in File : WF_vars(Thread(f))
  /\ \A d \in Dir : WF_vars(Process(d))
  /\ WF_vars(Main)

Spec == Init /\ [][Next]_vars
FairSpec == Spec /\ Fairness
---------------------------------------------------------------------------
(* Properties *)

\* If there is a queue the program says "found" only of a tree with matches, in every
\* run. It says "Never found" only of a tree without, if the sleeps are long enough, it
\* is not interrupted, and no match lies beside a directory without matches of its own:
\* siblings add to one segment without a lock, and the last to write may have read it
\* before the others wrote.
Matches(d) == \E f \in Files(d) : hits[f] > 0
FoundRight ==
  QueueThere =>
    /\ verdict = "found" => \E d \in Dir : Matches(d)
    /\ verdict = "never" /\ pc[Root] = "gone" /\ timely =>
         /\ ~Matches(Root)
         /\ \A d \in Dir : Matches(d) => \E c \in Subdirs(Home(d)) : ~Matches(c)

\* The main process never waits for a message that does not come: if there is a queue,
\* whoever is in history.txt with subdirectories has sent one, and so has the main
\* process. After a timely run nothing is left in any tree, queue or no queue: no
\* process, no message, no segment, no entry in history.txt.
Clean ==
  /\ pc[Root] = "receive" /\ QueueThere => Len(queue) + got >= need
  /\ pc[Root] = "gone" /\ timely =>
       /\ \A d \in Dir : pc[d] = "gone"
       /\ queue = <<>> /\ history = 0 /\ \A d \in Dir : seg[d].key = None

\* If every directory sleeps long enough for its subdirectories the program ends.
Ends == timely ~> pc[Root] \in {"gone", "killed"}
============================================================================
