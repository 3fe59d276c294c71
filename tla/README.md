# A TLA+ model of the CSE244 system programs

The repository holds the homework, the midterm and the final project of a
system-programming course: seven C programs (or groups of programs) that talk
through sockets, System V shared memory and message queues, FIFOs, pipes,
signals and semaphores. This directory models them in TLA+, checks the models
with TLC on small instances and proves what matters most with TLAPS for all
instances. Line numbers refer to the files at this commit; `src/` is the root of
the repository.

1. [Inventory](#1-inventory)
2. [Plan](#2-plan)
3. [MatrixPipeline](#3-matrixpipeline)
4. [AcceptLoop](#4-acceptloop)
5. [TimerServer](#5-timerserver)
6. [ResultRelay](#6-resultrelay)
7. [WordSearch](#7-wordsearch)
8. [GrepFifo](#8-grepfifo)
9. [GrepThread](#9-grepthread)
10. [GrepShared](#10-grepshared)
11. [Runs, bounds and fairness](#11-runs-bounds-and-fairness)
12. [Proofs](#12-proofs)
13. [Findings](#13-findings)
14. [Not modelled](#14-not-modelled)

## 1. Inventory

### Matrix server (`FINAL PROJECT/Server.c`, 717 lines)

*State.* The request table `inf[500]` with the thread table `threadArr[500]`, the
counters `numberOfTotalThread` and `numberOfAvailableThread`, the named semaphores
`mutex` (the log) and `mutex2` (the counter), per request two System V segments
with a `status` each, the file `logs/ServerAllLogs.txt`.

*Operations.* `main` accepts a connection, reads a request into the next element
of `inf` and starts a `mainThread` for it, as long as the pool has room.
`mainThread` counts itself in, copies its request, draws two keys with `ftok`,
forks three processes, counts itself out and waits. Process 1 generates a
matrix in segment 1. Process 2 solves it in three threads and publishes the result in
segment 2. Process 3 verifies, sends, logs. SIGINT ends the server.

*Interactions.* Client and server: one connection per request. The three
processes share nothing but the two segments, which they find by key, and signal each
other through the integer `status` that they poll. The `mainThread`s share the
counter and the table with `main`. Runs of the server share the name of `mutex2`.

*Hard.* Up to eight processes and threads per request, any number of requests;
handshakes by polling; keys of 8 bits; segments that outlive their creators;
a counter that is tested and changed in different threads; a semaphore that
survives a SIGINT; clients that leave in the middle.

*Correct if* every client gets the matrix generated for it with the solutions
of that matrix, and the log says the same; requests do not see each other's segments; every
request is answered and everything it used is given back; the pool counter is
exact and the pool is bounded; a restart finds a usable system.

### Matrix clients (`FINAL PROJECT/Clients.c`, 282 lines)

*State.* One thread per request, two semaphores, one log per process.
*Operations.* Each thread connects, sends `m`, `p` and its pid, receives seven
fields and logs them; SIGINT ends the program.
*Hard.* Reads that return less than a matrix; every thread removes the log at its start.
*Correct if* what is logged is what the server sent, once per thread.

### Matrix solvers (`FINAL PROJECT/myMath.c`, 601 lines)

Floating-point SVD, QR and inverse; sequential, no state.

### Timer server (`MIDTERM PROJECT/`, 1297 lines in three programs)

*State.* Server: the flag `got` set by SIGUSR1, the signal mask, the main FIFO.
Files: the pid of the server, the client number. One FIFO per client, one for
the results, a file with the names of all FIFOs to remove at the end.
*Operations.* `timerServer` polls `got`, reads a client's pid from the main
FIFO and forks a child that writes a matrix with a non-zero determinant to that client's FIFO.
`seeWhat` takes a client number, signals, creates its FIFO, writes its pid,
reads the matrix, forks two children that compute a shifted inverse and a
convolution, and hands the result over to `showResult`, which prints and logs one result.
*Hard.* Signals that coalesce; calls that a signal interrupts; a number read and
written back without a lock; FIFOs closed by one side while the other is about to
write, or opened before the other has created them.
*Correct if* every client that signals is served, and the client numbers, shared without a lock, stay within the rounds that were numbered;
shutdown reaches everybody and leaves no FIFO behind.

### Grep programs (`HW1` to `HW5`, 2400 lines)

All five search a word in files and log where it stands; they share the
function `findLocationOfSeekingWord`, a scanner that seeks back after a match.

| program | how directories are searched | hard |
|---|---|---|
| HW1 `List.c` | one file | overlapping occurrences, blanks inside words |
| HW2 `Listdir.c` | a process per entry, waited for at once | (sequential) |
| HW3 `GrepDirectory.c` | a process per entry, a pipe per file, a FIFO per directory | blocking opens in a fixed order, reads of at most 1000 bytes, a failed child |
| HW4 `grepTh.c` | a thread per file, a process per directory | the history file, buffers duplicated by fork, a crash that keeps the semaphore, SIGINT |
| HW5 `grepThwShandMQ.c` | the same, results through shared memory and a message queue | a count read and written back without a lock, one flag for several children, sleeps that stand for waits |

*Correct if* every occurrence is counted exactly once, the search of a finite tree ends,
and a failed part is reported.

### Examples (`SAMPLES`, 2090 lines)

Course examples on single system calls, and a copy of a published library. Nothing uses them.

## 2. Plan

In this order, most important behaviour first:

| | module | models | composes / refines | state |
|---|---|---|---|---|
| 1 | `MatrixService`, `MatrixPipeline` | one or more requests from the keys to the log | `MatrixPipeline` implements `MatrixService` | done |
| 2 | `AcceptLoop` | `main`, the pool, SIGINT and restart | its `Fork` step stands for a `MatrixPipeline` | done |
| 3 | `TimerServer` | the midterm: the server, its children and the clients up to the matrix | | done |
| 4 | `ResultRelay` | the midterm: the two children of a client, `showResult` | its client is a `TimerServer` client at `"work"` | done |
| 5 | `WordSearch` | the scanner of all grep programs | against a definition of what an occurrence is | done |
| 6 | `GrepFifo` | HW3: the tree of processes, FIFOs and pipes | what a directory hands on is a function of the tree (`Output`) | done |
| 7 | `GrepThread` | HW4: threads per directory, history, buffers, SIGINT | | done |
| 8 | `GrepShared` | HW5: shared segments and the message queue | the processes are those of `GrepThread` | done |
| 9 | proofs | an inductive invariant of every module, and from it every safety property its runs check | | done |

Runs: one passing run per module with the smallest instance in which two actors
of each kind meet, with its liveness in the same run where the module states fairness, and a
violating run for a statement of the code that it does not keep. Modules to be proved about have no
RECURSIVE operators.

## 3. MatrixPipeline

One request `r` is an index of `inf[]`. Its threads and processes have a program
counter each, `pc[r][p]`:

| `p` | code |
|---|---|
| `"T"` | `mainThread` from the keys on (329-336), its forks (338, 369, 431) and its wait (472) |
| `"P1"` | process 1 (339-367) |
| `"P2"` | process 2 (370-429) |
| a member of `Method` | a solver thread of process 2 (`problemSolver`, 242-301) |
| `"P3"` | process 3 (432-467) |

| variable | code |
|---|---|
| `key[r][n]` | `key1` and `key2`; `DrawKeys` lets each `ftok` return any value of `Key` |
| `table[n][k]` | what the kernel finds under a key. `ftok(".", ...)` and `ftok("..", ...)` never agree, so each has a table of its own |
| `made`, `at` | segments created; which segment each of the pointers `sol`, `sol2` is attached to |
| `status`, `content`, `check` | the fields of `struct solutions` in a segment (47-57); `check` is `verify` |
| `lock`, `found`, `mine` | in process 2: the copies of the mutex, `returnVal`, `myAllSolitions` |
| `client`, `answer` | the other end of `new_sock` |
| `logsem`, `logged` | the semaphore `mutex` and `ServerAllLogs.txt` |

Actions are the steps between two accesses to something shared: `P1Open` is the
`shmget` with its `shmat`, `P1Fill` the generation, `Post` the store of the status,
`P2Start` the poll that sees it and the three `pthread_create`, and so on; the map in
`PROJECT.json` names the lines of each. A process that polls is an action whose guard is the
polled condition. `exit` detaches (`Detach`); a segment
that was removed lives until nobody is attached to it, which `Room` counts
against the system's limit `MaxSegments`.

Data is named by its origin. The matrix that P1 generates for `r` is `r`, a solution is the
request whose matrix it solves, the error terms of P3 are the content they were computed
from. So "the client gets its own matrix with the right solutions" is
`answer[r].data.mat = r` and so on, whatever the numbers are. What the
numbers do (a solution that is not a number is replaced by a random one, 497-627)
stays outside. Only the number of filled rows is kept, since `m` and `p` are
mixed up in one place.

What the solver lock does is modelled as the code has it: each thread gets a
copy of the whole request, mutex included (386, 244), so that it excludes nobody. `OwnAnswer`
shows that nothing depends on it.

`MatrixService` is the promise: a request is received, generated, solved, replied
or dropped; the reply is its own matrix and the solutions of that one. The refinement
mapping is `stageBar`, `replyBar`.

Properties:

- `PrivateSegments`: two requests never have the same segment attached. Holds under
  unique keys, fails with `ftok`'s.
- `OwnAnswer`: every client gets its own matrix, with the solutions and error terms
  of that matrix. It rests on both handshakes, on all joins and on the keys.
- `LogAgrees`, `LogExclusive`: the log records what was sent, one P3 at a time.
- `MatrixHeld` (a step property): while a solver uses a segment, no step of anybody
  changes the matrix in it.
- `WholeSolution`: the client gets all `p` rows of each solution if the matrix has at least as many rows; it fails to for wide ones.
- `SecondProcessStays`: process 2 never ends, though the comment says that it may.
- `Served`, `KeysFreed` (liveness): every request is answered unless its client left; after that
  no key finds its segments.

## 4. AcceptLoop

`main` is the program counter of the loop (203-231), `cur` the client at `new_sock`,
`total` is `numberOfTotalThread`, `inf` the table, `counter` is
`numberOfAvailableThread`, `sem` the value of `mutex2`; `pc[c]`, `slot[c]`,
`job[c]`, `reg[c]` are the `mainThread` of the connection of `c`: where it stands,
the element of `inf` it was given, what it copied out of it, and the value its `++` or `--` has loaded. `dup` are the connections that forked processes have inherited.
`++` and `--` are two steps each, so that their atomicity is a property
(`CountExact`) and not an assumption. `Wait` is `sem_wait`; `CountIn` and `CountOut` store and
post. `Interrupt` is the SIGINT handler: main and the threads end
where they stand, the forked processes stay (so what is already forked still gets its answer),
`mutex2` keeps its value, since its `sem_unlink` is commented out. `Start` opens it again under the same name
(`getpid()%getpid()` is 0), with the value it has.

No socket is closed at a fork, and `main` closes none at all. The processes of a request therefore have the connections of all that were accepted before (`Fork`, `dup`)
and the socket that `main` listens at (180-198). Process 2 never ends (section 3), so once anything was forked the port stays
open after a SIGINT (`PortHeld`). Clients still connect there (`Connect`), though nobody accepts; connections that wait in the backlog or that a process has inherited are not cut (`Kept`),
and the server that is started again fails at `bind` (`BindFails`, 192-196), after it has opened `mutex2`. It also fails while a connection of the last run is in TIME_WAIT, since `SO_REUSEADDR` is not set.
SIGINT goes to the process of `main` alone, as from `kill`; at a terminal it also ends the forked processes, and then the port is free and every connection is cut, which `Admitted` excepts anyhow.

`Receive` takes 0 bytes of a closed connection for a request, as the code does (`val < 0` is the
only test); `ReceiveFails` is the reset connection, whose element of `inf` is used again.

Properties:

- `OneHolder`: at most one thread is between `sem_wait` and `sem_post`, in every run,
  whatever the last run left. `CountExact`: no increment or decrement is lost.
- `OwnJob`: a thread copies the request of its own client out of `inf`, although
  `main` writes there without waiting for it.
- `Admitted` (liveness): whoever sends a request gets its processes, however small the pool, unless SIGINT has come and cut it off,
  left the port to processes that do not accept (`PortHeld`), or left `mutex2` at 0 with nobody to post it (`Orphaned`). In a run without SIGINT none of the three arises.

*Assumed:* every run is given the same port; no more connections wait than the backlog of 5 holds (198), so that `connect` does not wait or fail for lack of room; SIGINT
does not come between the three forks of one request, which are one step here (with process 1 alone forked the port would become free again).

What the code says of the size of the pool and of the value of the semaphore at a restart
does not hold; see section 13.

The two modules are separate because they share only the step `Fork`: until then
a request exists only in `inf`, after it only in its processes, which survive
`main`. `MatrixPipeline` therefore assumes nothing about the order in which requests start.

## 5. TimerServer

Server (`timerServer.c`), its children and any number of clients (`seeWhat.c`), up to the
matrix in the client's hands.

| variable | code |
|---|---|
| `srv` | the place of the server: `"loop"` (171-193), `"open"` and `"wait"` (before and in the open, 195), `"read"` (197), `"shut"` (198-199) |
| `got`, `pending` | the flag of the handler (86-89); a signal the kernel has not delivered yet |
| `mask`, `blocked` | whether `intmask`, never initialised (118, 177), has SIGUSR1 in it; whether it is blocked now |
| `who` | `clientPid`, which keeps its value when `read` returns nothing or is interrupted |
| `kid[k]` | the `k`-th child (200-215): where it stands, for whom, and which FIFO of that client it has open |
| `main` | the pids in the main FIFO |
| `pc[c]`, `round[c]` | where a client stands in its loop (212-366), and for which time |
| `full[c]` | its own FIFO holds a matrix |
| `file`, `num[c]` | `clientnum.txt` (`None` while it is truncated) and `numberOfClient`, which keeps its value if the file was empty: what was on the stack (`Garbage`) the first time |

FIFOs are modelled by what the code relies on: an open waits for the other end
(`OpenMain`, `OpenServer`, `OpenOwn`, `OpenKid` each let the one that waits go on); a write
without a reader kills the writer (`Killed`, and the `"gone"` of `WriteKid`); what nobody has open is
lost (`Kept`). A client's FIFO has a new life in every round, hence the round a child remembers. A signal
sets `pending`, once however often it is sent (`Signal`); its delivery interrupts an open that waits, and a read that waits or
comes next (`Deliver`).

Properties:

- `ForkPerSignal`: each child of the server goes back to a signal of its own. This bounds the
  children whatever is interrupted, coalesced or masked, since a read that returned nothing is followed by a fork as well.
- `NumbersBounded`: the client number is read (217), truncated (226) and written back (227-228) by every client, without a lock. In whatever order they do it
  numbers may repeat, but none runs ahead: what is in the file is at most one more than the rounds numbered so far. The exception are mixed digits (`Over`): `fclose` writes at the beginning of the
  file, and if another client has written a longer number since the `fopen` its last digits stay behind the new one. The model calls that number `Garbage` and claims nothing of it.
- `NoneKilled`, `Served`: no client dies of SIGPIPE at the main FIFO, each client that signals gets a matrix. These are what the program is
  for, and they hold only while at most one client is between reading the number and reading
  the matrix (`Separate`). The code aims at that with
  `usleep(num*50000)` before each turn (215, "I prevented conflict") but nothing ensures it. Without it the
  model repeats numbers, kills clients, and leaves clients waiting; with two clients
  it may be that none of them is served.

`Separate` restricts only the clients. The server, its children and the delivery of
signals interleave freely with the one busy client, which is where the FIFOs and the late `mkfifo` (230, after the signal) could go wrong.

## 6. ResultRelay

What a client of the timer server does with its matrix (`seeWhat.c` 251-366), its children, and `showResult.c`.

| variable | code |
|---|---|
| `pc[c]`, `round[c]` | where a client stands in its loop, from `"ask"`, and which matrix it is at; `"broken"` is the end by SIGPIPE, `"failed"` an exit |
| `own` | the clients whose own FIFO, named after the pid (230, 363), is there |
| `inverse[c]`, `convolution[c]` | `shiftedInverseMatrix`, `convolutionMatrix`: named after the child that computed them |
| `worker[w]` | the child of a client, a round and a computation: `"unborn"`, `"born"` (forked, pid not saved), `"compute"`, `"wait"` (in the open of its FIFO), `"gone"` |
| `path[c]` | the FIFO `child<pid>`, by the child that created it: both children of a client use one name |
| `show`, `box`, `leaked` | the loop of showResult, the packages in its FIFO, and whether a read that returned nothing has left a descriptor open (128-138: the `close` is inside the `if`) |
| `named`, `missed` | the names in `fifonames.txt`; who was not in `allpid.txt` at SIGINT |
| `late` | the children for whom the sleep of 30 ms may be too short |

`Ask` creates the client's own FIFO and stands for all that TimerServer has of a round, up to the matrix; `CloseShow` removes the FIFO again, at the end of the round.
The sleeps (276, 322) are what the client has instead of a wait. `Slept` makes them long enough for every child but those
in `late`, any `MaxLate` of them, chosen at the start: for those anything may happen. A child that has created its FIFO waits in
`open` until the client comes; both opens, the write and the read of the one
matrix are one step (`Fetch`), since nothing else looks at that FIFO meanwhile.
`Skip1` is the first open that fails (the code goes on), `Fail2` the second (it exits). A write to the FIFO of
showResult needs a reader (`Reading`), or it is SIGPIPE (`Killed`, 358), which ends the client before it removes its own FIFO; what nobody has open is lost (`Kept`). `Shutdown` is
SIGINT at any of the programs.

- `ShownRight`: no package is shown twice, those of a client come in order, and each has the results of
  its own matrix, unless a child of that client was late: lateness of one client does not reach another.
- `Clean`: a client without late children never fails, and leaves no child and no child's FIFO behind, but at SIGINT the child
  whose pid, or the FIFO whose name, was not saved yet. The FIFO named after the client itself stays behind exactly if the client was killed by SIGPIPE (358) or exited for want of
  a child's FIFO (327), late children or not, and stays until somebody's SIGINT, whose handler finds its name in `fifonames.txt`.
- `Ends`: whoever is late, no client waits for ever.

## 7. WordSearch

`findLocationOfSeekingWord` of `HW1/List.c`. Every turn of its loop is a step: `Extend` (the character goes on with the word),
`Report` (it ends it: the match is printed and the file pulled back behind its first letter, 112-119), `Skip` (a blank inside a match),
`Mismatch` (81-106: the partial match is dropped; the character is read once more if the word starts with it). `pos` is
`ftell`, `row`, `column`, `wordIndex` and `valid` (`numberOfOtherValidChars`) are the variables of those names, `pulled` is
`tempPtrPosition`. Text and word are chosen at the start, any of the given lengths.

What an occurrence is (`Occurs`) is said by counting: `LettersIn(i, j)` is the number of characters from `i` to `j` that are no blanks, and the
character at `j` belongs to the match that starts at `i` if it is `word[LettersIn(i, j)]`. The text is never cut into words or stripped of its blanks, so
nothing about it has to be shown by induction over its length.

- `FoundOnce`: each match printed is an occurrence of the word (blanks and line ends left aside), none is printed twice.
- `PlainComplete`: all occurrences are printed if the first letter of the word comes again at most as its last. Without that
  condition (`Complete`) they are not.
- `PlacesExact`: the row printed is the row of the match, except behind a match that runs over the end of that
  row (`RowsExact`); the column is its column if no attempt at a match runs over a line end (`ColumnsExact`); the
  number of lines that HW4 and HW5 return is right (`LinesExact`). The exceptions are what the code does, found by weakening
  each statement until it held.
- `Ends`: the pulling back never goes in circles.

## 8. GrepFifo

`HW3/GrepDirectory.c`: one process per directory and one per file, forked by the directory. `pc[e]` is where each stands, `next[d]` its position in
its list of entries, then of FIFOs (`Open`, `Read`), `arr[d]` what it has read, `fifo` the FIFOs that exist, `sent` and `pipe` what was written.
The lists of a directory (`Subdirs`, `Files`: the order in which `fifoArray` and `pipeArray` are filled) are constants; every entry is in one
directory, once, and none below itself (`TreeAssumption`). An `open` blocks: `Open` and `Write` meet. `wait` is over when all children are gone (`Ended`); one that exited with 1 makes its
parent exit (`WaitFailed`). One `read` takes at most `Cap` lines, which stands for the 1000 bytes (226). A line is the file it is about.

What may fail, `MaxFaults` of it in a run: any file or directory cannot be opened (`closed`), the pipe of any directory fails (`scarce`, 149-155:
the function returns), and the buffer of a file begins with lines that were never written to it (`junk`: the array of 340 is not initialised).

- `OutputFixed`: what a directory hands on is a function of the tree (`Output`), however the processes are scheduled: nothing twice, nothing of others, in order.
- `TotalOfAll`: there is no total of a part of the tree, and the FIFOs are removed by then.
- `FailureStops`: a failure is not passed on. The parent of a directory that ended without writing stays in the
  open of its FIFO, with everybody above.
- `Ends`: if nothing fails every process ends.

## 9. GrepThread

`HW4/grepTh.c`: a thread per file (`th[f]`), a process per directory (`pc[d]`). `sem` is the named semaphore of all processes; `lines[d]`, `history`, `totals` are
the counts on their way to the main process; `marks` is what `findNumberOfTotalThread` (289-316) computes from `maxthread.txt`: how many `+`, and the longest streak of them.

Buffers are part of the state. A thread prints a match (`"printed"`) and flushes later; a fork in between copies the unwritten
line, which the child writes when it exits (`copied`, `FlushAll`). The same goes for a `-` that is printed and not flushed (`dashes`). `dirsFirst`
chooses, for each directory with both, the order in which `readdir` returns them.
`Crash` is the `fgetc` on the `NULL` of an `fopen` that failed (626); the process dies inside the semaphore. `Interrupt` is SIGINT at the main process: the
processes in `allpid.txt` exit and flush, the files are removed.

- `TotalsExact`: if everything could be opened lines, files, directories and threads are those of the tree; the "max # of threads running concurrently" is
  never more than there were unless a process crashed (the proof showed why: its threads never write their `-`).
- `LogExact`: no match is missing in the number of strings found; it is exact if no process forks after it has created a thread.
- `CrashStops`: after a crash nobody searches any more.
- `Quiet`: when the main process has ended so have all others, and no count is left, unless one crashed or had not saved its pid yet at SIGINT.
- `Ends`: if everything can be opened the program ends.

## 10. GrepShared

`HW5/grepThwShandMQ.c`: the processes of HW4, which also hand over how many matches they found. The segments are named by who created them (`seg[d]`, with `key`, `flag`, `count`); the key is
the pid of the parent, or of whoever adopts an orphan (`ParentOf`, `Reaper`). A child sets the flag to -1, adds its count (`Load`, `Store`: two steps, as `+=` is),
sets it to 0, polls for 1 and removes the segment (`Released`). The parent sleeps, looks for the segment (`Find`, or `FindNone`: it exits), polls for 0, sets 1,
sends the count to the queue and removes the segment. The main process receives as many messages as `history.txt` names directories with subdirectories, and one (`need`). A key is made
up to 9 ms before `shmget` uses it, and the parent may end in between: `Get` takes either pid. `shmget` and `shmat` are two steps: a segment that was removed in between and that nobody has attached any more is gone, and the
child exits (`AttachFails`). The parent's `shmat` cannot fail: nobody removes its segment before the flag is 1.

`Reads` is line 677: a directory without subdirectories does not read a segment, the main one included. In that case nobody ever creates a queue, yet the main process asks for one message: `msgget` and `msgrcv` fail,
and what it adds to the sum is `atoi` of a buffer that nobody has initialised (377-395), any number of `Stray` (`ReceiveNone`). The same happens in every tree if the system has no queue to give (`room`). `QueueThere` is the other case.

`timely`, chosen at the start, is whether the 50 ms (323) are long enough for the subdirectories to have added their counts.
If they are not, a directory finds no segment and exits, or reads a sum that is not complete yet, and subdirectories that come later poll for ever.

- `FoundRight`: if there is a queue, "found" is said only of a tree with matches, in every run, timely or late, interrupted or not. "Never found" is said wrongly in many ways; what the property says is that there are no more than these:
  the run was interrupted, it was not timely, or a directory with matches has a sibling without. In that last case both add to one segment without a lock, and the sibling that writes last may have
  read 0. If all siblings have matches whichever addition is lost, what stays is more than 0. Matches of the main directory never get lost.
- `Clean`: if there is a queue the main process never waits for a message that does not come, in late runs too. A timely run, of any tree, with or without a queue, leaves no process, message, segment or entry behind.
- `Ends`: a timely run ends.

## 11. Runs, bounds and fairness

| run | instance | shows |
|---|---|---|
| `pipeline_unique` | 2 requests, 2 solvers, 2 keys | under unique keys: the safety properties, the refinement, and under fairness `Served` and `KeysFreed` |
| `pipeline_anykey` | 2 requests, 1 key, 2 segments | what survives a collision of keys and a lack of segments |
| `pool_restart` | 2 clients, pool of 1, 2 starts of the server | all properties of the loop, with SIGINT anywhere and a restart that may fail at `bind` |
| `timer_any` | 2 clients, 2 rounds, in any order | `ForkPerSignal`, `NumbersBounded` |
| `timer_serial` | 2 clients, 2 rounds, one at a time | `NoneKilled`, `Served` |
| `timer_served` | 2 clients, 1 round, in any order | `Served` is violated |
| `relay` | 2 clients, one with 2 matrices, 2 late children | `ShownRight`, `Clean`, `Ends` |
| `word` | texts of up to 6 characters, words of up to 3 letters, 2 letters | all properties of the search |
| `word_complete` | the same | `Complete` is violated |
| `grep_fifo` | 4 directories, 3 files, 1 fault | all properties of HW3 |
| `grep_thread` | 3 directories below each other, 3 files, 1 that cannot be opened | all properties of HW4 |
| `grep_shared` | 4 directories, 2 of them siblings with a file each, with and without a queue, `Stray` = {0, 1} | all properties of HW5 |

*Bounds.* Requests interact in pairs only, through one table per key, one log semaphore and the
limit on segments, so two requests show every interaction; with `MaxSegments = 4` there is room for all,
with 2 there is not. Two solvers are the
least in which one can be joined and another not. `OneLeaves` and `TwoNames` are constraints on single runs:
the first lets one client leave, and only while its P3 is at the sends (no other step looks at the client), the
second has different names for the two keys of one request (the two directories
have tables of their own, so this is a renaming). `MaxRuns = 2` is one restart: the server keeps nothing but the
value of `mutex2` from run to run, and that is 0 or 1. Two clients with a pool of one make the pool full.
In `TimerServer` two clients are the least that can disturb each other, and two rounds the least in which
a FIFO is created again under the same name. In `ResultRelay` one client needs two rounds, so that a result of the first can be taken for one of the second, and there must be
another for showResult to choose from; two late children are the least that can stand in each other's way.
Six characters hold two overlapping occurrences of a word of three letters with blanks or line ends in them. The trees of the grep runs have
a directory with several subdirectories (HW3, HW5) or with files and a subdirectory (HW4), and a directory two levels down, whose failure or lateness has two above it to pass on to.
The proofs of section 12 cover any number.

*Fairness.* Weak fairness of every thread and process: they run on a preemptive
scheduler, and what a poll waits for stays true once it is, as far as the liveness properties depend on it.
`sem_wait` is weakly fair per thread: two threads that compete for `mutex2` hold it once or twice each,
so a waiting one cannot be overtaken for ever; each search thread of HW4 and HW5 takes its semaphore once. Clients need not connect and need not stay;
one that has connected sends or ends (`SendOrClose`). Without that assumption one silent
client stops the server, because `main` reads the request itself (213).
There is no fairness on SIGINT nor on a start of the server, and the number of runs is bounded.
In `TimerServer` the processes run, signals arrive (`Deliver`) and the processor time that `clock()` measures goes on
while the server polls (`Unblock`); clients need not be started. Under `FairSerialSpec` a client that waits for its turn gets it, as the others' sessions end.
In `ResultRelay` fairness is stated for the children of a client together, which is weaker than for each and enough.
`Served` and `KeysFreed` of the pipeline say "in the end always" (`<>[]`), which for requests that are finitely many and answers that stay is the same as `~>` for each.

*Deadlock* is not checked: every run of the server modules ends with each P2 polling for ever (see section 13), with
`main` waiting for a client that does not come, or with the timer server polling its flag; the grep programs end, or wait for ever after a failure, which is what
`FailureStops` and `CrashStops` are about, and `Ends` says when they do not.

## 12. Proofs

All by TLAPS, from the assumptions stated in the modules, and for any values that meet them:

- `PipelineAssumption`, `PoolAssumption`, `TimerAssumption`, `RelayAssumption`, `SearchAssumption`, `NoneAssumption`: constants are sets and numbers of the right kind, `None` is none of the
  values, sets that are counted are finite. Number of requests, clients, solvers, keys, segments, runs, rounds, letters, the size of the pool and the longest text and word are arbitrary.
- `ThreadTreeAssumption`, `TreeAssumption`, `SharedTreeAssumption`: the directories are finitely many and form a tree. Every entry is in one directory
  and there once, none is below itself or out of reach of the root. A root without subdirectories, or without any entry, is a tree as well. The file system guarantees this of
  directories without links, which is what the programs search. Shape and depth of the tree, the number of matches, and what cannot be opened are arbitrary.

Each module of proofs has one inductive invariant, `Init => IInv` and `IInv /\ [Next]_vars => IInv'`, and derives its properties from it. TLC checked each on the
instance of the module's run before it was proved.

`MatrixPipeline_proofs`: of `Spec`, that is with keys as `ftok` gives them. The inductive invariant
is `TypeOK` and six facts: which processes of a request have been forked at which place of
`mainThread` (`Started`); which pointers are attached at which place of a process (`Pointers`);
the log semaphore is 0 exactly while one P3 writes (`LogHeld`); the first
key finds first segments and the second second ones (`Kinds`); a P2 that is past its
post is attached to a segment whose status is -1 (`Raised`), which nobody ever sets back:
P2 of another request takes down only first segments. Hence `TypeCorrect`, `LogIsExclusive` and
`SecondProcessNeverDies`.

The second part of the module is about `UniqueSpec`, in which no two requests draw
equal keys. The invariant is a chain of handovers: a key of `r` finds only segments of `r`
(`Keyed`), so its pointers hold only those (`OwnPointers`); the status of segment 1 is -1 only after P1
has filled it (`MatrixReady`); solvers work only on such a segment (`Held`) and leave solutions of
that matrix (`Solved`); the status of segment 2 is -1 only after P2 has copied all of them
(`Published`), and what P3 sends and logs is that (`Answered`). Solvers write to disjoint rows, so what is copied has every row (`WholeSolution`). Each link says what
the next may rely on, and each is disturbed by few actions, which is what keeps the proof
to one step per action. Hence `SegmentsArePrivate`, `AnswersAreOwn`, `LogIsAnswer`,
`MatrixIsHeld`, `SolutionsAreWhole` and `PipelineImplementsService`, the refinement, in which every action is
shown to be one step of `MatrixService` or none.

The last part assumes in addition that shmget does not run out of segments (`Ample`: two for each request are at most `MaxSegments`; `NoStepBack` needs
neither). `WaitInv` says where the two segments of each request can be found: a key finds the first from the moment P1 has made it until P2 removes it, the second from P2's
creation to P3's removal (`FirstIn`, `SecondIn`), a solver's own mutex is free while it waits for it, and the log's is 0 only while a P3 writes. So P2, the solvers and P3
poll or retry only for what a process before them has still to do: `NeverStuck`, per request, which is why one whose client has left cannot hold up another.

`AcceptLoop_proofs`: the invariant is `TypeOK`, the semaphore is 0 if a thread holds it and only one does
(`OneHolder`), the holder has loaded the current counter and the counter is the number of threads
counted in (`Exact`), the elements of `inf` in use belong to the threads that were given them and lie
below `total` (`Slots`), and `OwnJob`. The counting uses the library's facts on the cardinality of
finite sets. Hence `TypeCorrect`, `OneHolderAlways`, `CountIsExact`, `JobIsOwn`. `NeverStuck` rests on `WaitInv`, which relates connections to
threads: if no thread can go on, none is counted in, so the counter is 0 (`Exact`) and `main` is not at its full pool, unless mutex2 is `Orphaned`. `WaitInv` also says who keeps what: without a server there is a connection only if forked processes have the port (`Inherits`, `PortHeld`), and a
connection whose thread is gone is cut or ended unless they do. So a request that waits for ever is one that `Admitted` excepts, and no other.

`TimerServer_proofs`: of `Spec`, clients in any order. `ForkPerSignal` is inductive with `TypeOK`: a
signal sent adds one to both sides, and a token (`pending`, `got`, a server past its flag)
only moves on or merges with another. That the server never runs out of numbers for its children (`Kid`) follows. Hence `TypeCorrect`, `ForksCounted`.
The client numbers are bounded in the same way, still of `Spec`, with every interleaving of reading, truncating and writing: `NumInv` adds to what `NumbersBounded` says of the file the same of what each client has read.
A client that stores a number adds its round to those that are numbered, just as it adds 1 (`StepStore`); nobody else makes a number. Hence `NoNumberRunsAhead`.

The second part is about `SerialSpec`. The invariant (`SInv`) says that the session of the one busy client is in one of the phases
`Asked` (signalled, the server has not opened or has nobody to read from), `Heard` (the server reads for it),
`Known` (it has the pid) and `Awaited` (a child is there for it), in each of which exactly one token is left and everything else is at rest, and that
all is at rest (`Settled`) otherwise. Each action moves to the next phase or stays. Hence `NoneAreKilled`. The phases also say who moves next; what they lack is that a client that has opened its own
FIFO has its matrix or a child that writes it (`WaitInv`, true of `Spec` too), and with it no two opens or reads wait for each other (`NeverStuck`).

`ResultRelay_proofs`: for each client whose children were in time so far, `Steady` says that before SIGINT no child is under way
(`Resting`), or only the one its parent sleeps for is, with its FIFO there exactly while it waits for the reader (`Busy`). After SIGINT every client is over, and a child or a FIFO left behind is one the signal missed (`Stopped`). `Ordered` says that
what was shown precedes what is in the FIFO, round by round, each package that of its own matrix. A late child breaks this for its client, and nothing is claimed of that client's later packages, as in the properties.
`Owned` says of every client, late or not, where in its loop its own FIFO is there: from `mkfifo` to `unlink`, and for ever if it ended between them, until SIGINT.
Hence `TypeCorrect`, `RightPackages` (`ShownRight`), `NothingLeft` (`Clean`).
For `NeverStuck` none of that helps, since late children are not excepted there: `WaitInv` says, of all children, that until SIGINT a FIFO that is there has its writer waiting in `open` (`Written`), that
what a client has not forked yet is unborn (`Forks`), so that every FIFO it will find is one that is still to come, and that a client waits in its `open` only while `showResult` is about to open too.

`GrepThread_proofs`: `SafeInv` says who may hold the semaphore (`LockInv`), that entries are handed out in order, so that what is not yet handed out has no thread and no
process (`Progress`), which `-` are still unwritten (`Dashed`), and that nobody ends before what it waits for (`Reaped`). `CrashEndsSearch` and `QuietAtTheEnd` follow.
`IInv` adds the marks, the line counts, the log and the totals: the history is the count of the directories that are gone (`CountsInv`), and what is in the log, in the buffers
and still to be found is together never less than all matches, and just as many as long as nothing is copied (`LogInv`). Hence `TotalsAreExact`, `LogIsExact`. For the proof the sum `Together` is the
cardinality of a set of pairs instead of a fold, about which nothing can be proved without induction.
The proof failed once for a good reason: "max # of threads" was claimed to be bounded after a crash too, and is not. Threads of a crashed process never write `-`;
in a tree of 4 directories and 6 files TLC finds a run that prints 4 where 3 ran at most. `TotalsExact` now excepts crashes there.
As long as no process has crashed and no SIGINT came, the semaphore is free or some thread holds it that will post it (`Owned`, theorem `SemaphoreIsOwned`). `NeverStuck` then needs the shape of the tree: were every process in its wait,
each would wait for a child of its own, and a map from the directories into the directories without the root cannot be one-to-one.

`GrepFifo_proofs`: the invariant follows a directory through its four phases (`Forked`, `Taken`, `Collected`, `Done`): a child is born when it is forked (`Born`),
what has been read of a FIFO is what its directory hands on (`Handed`), a parent that is past `wait` has no failed child (`Waited`), a FIFO is there until it is read (`Fifos`), and so on to the report.
`Output` is a recursive function on the directories. That some function satisfies its equation, and only one, would be an induction over the tree, which the provers cannot do; it is proved
by contradiction instead, at a lowest directory where it fails, which `TreeAssumption` provides. `FlattenSeq` is dealt with in the same way. Hence `TypeCorrect`, `FailuresStop`, `TotalIsOfAll`, `OutputIsFixed`.
`WaitInv` adds that whoever was forked is there (`Alive`), that a subdirectory writes only to a parent that reads from it (`Asked`) and that failures begin with something that cannot be opened (`Clear`).
If nobody could go on, all would have been forked, and a lowest directory that waits would have what it waits for (`NeverStuck`).

`GrepShared_proofs`, of any tree, also one that is only a root: as long as there was no SIGINT, messages sent are the directories that are past `Send` (`Counted`), whatever the sleeps. In a timely run (`Calm`) each family, a directory with its
subdirectories, has at most one segment, nobody else has it (`Family`), a child finds its parent ahead of its sleep and so never an orphan's key, all children have added when the parent looks, and the key is gone before the parent waits.
A step of a directory touches two families, the one it is a child of and the one it is parent of; `Frame` and `OtherFamily` settle all others. `Through` follows what the subdirectories of a directory have found if all of them have found something (`AllMatch`): whichever addition is lost, the segment holds more than 0 from the first one that is through with adding, then the one their parent sees,
then the queue or the sum. `Told` is the other half of the verdict: without matches no count is ever more than 0, and "found" is never said, interrupted or not. What a missing queue makes of the sum is nowhere assumed. Hence `TypeCorrect`, `VerdictIsRight` (`FoundRight`), `NothingIsLeft` (`Clean`).
`NeverStuck` needs `WaitInv` besides: the flag of a segment is 0 for a parent that looks at it and 1 once the parent has answered, for whoever polls (`Turn`), an entry that was handed out has its thread or process (`Handed`),
the semaphore is free or a thread has it, and the main process has not received more messages than it waits for. Stating the invariant
showed that `history` and the number of messages to receive were one variable in the model and two in the code, and that the key is older than its use; both were changed.

`WordSearch_proofs`: of a match under way (`Attempt`) the letters read so far, counted from its first, are the first of the word, and `valid`
is how far it reaches back, so that the file is pulled back to just behind its first letter. A match ends where its letters number as many as the word has;
two that start one behind the other end one behind the other (`EndsLater`), because the count of the first is always ahead. From these: nothing is printed that is not there or twice (`Printed`);
of a word whose first letter comes again at most as its last nothing is left behind, because no occurrence starts inside an attempt (`NoneInside`, `Complied`);
the file was pulled back last from the end of the last match (`LastEnd`), and the line ends are counted once up to there or to `pos`, whatever is farther (`Counted`, `Rows`);
while no attempt runs over a line end, `column` is the distance to the last one (`Columns`). Hence `TypeCorrect`, `FoundIsOnce`, `PlainIsComplete`, `PlacesAreExact`.
`NeverBack` is the part of `Ends` that is no liveness: each step moves on the place a match may start at or, while that stays, the place that is read, and both are bounded by the text.

*Waiting and progress.* Liveness itself is out of the prover's reach, and so is `ENABLED`. What is proved of `Served`, `KeysFreed`, `Admitted` and `Ends` is their safety
half, in two theorems with the same names in every proof module but that of the word search, a single process, for which `NeverBack` is enough. `NeverStuck`: until the promised end some process that the promise depends on can go on. Its `...Ready` predicates restate the guards
of the actions; TLC confirmed on the instances of the runs that they are exactly when the actions are enabled. `NoStepBack`: every step takes something on and
none takes anything back, in a measure whose parts are bounded by the constants (`Place`, `Stage` and so on); where the code polls, the turn that finds nothing is named as the exception.
From the two and weak fairness the promise follows by an induction on the measure, which is the step that is left to TLC. The two hold for every instance, so a deadlock that needs a third client,
a deeper tree or a smaller pool than the runs have is excluded.

*Only model-checked:* the liveness properties (`Served`, `KeysFreed`, `Admitted`, `Ends`) as such. Every other property of a passing run is a theorem.

## 13. Findings

Those with a run are violations that TLC exhibits; the others are what a property that holds had to except, or what a property
stated for a moment showed, and each is easy to see again by dropping the exception.

1. `ftok` keeps 8 bits of its second argument: the "unique keys" (Server.c:332) of two
   requests may be equal, and then they share segments. `PrivateSegments` holds of `UniqueSpec` only.
2. P3 tells P2 that it may die (Server.c:463) by storing -1, the value P2 waits to see
   replaced (424): P2 never ends, and neither does its `mainThread` (theorem `SecondProcessNeverDies`).
3. For m < p the last p - m rows of each solution are not copied (Server.c:417), yet
   sent and logged (the condition of `WholeSolution`).
4. The pool counter is tested in `main` and incremented later in the thread: the pool
   exceeds its size.
5. The processes that a `mainThread` forks inherit the socket the server listens at and the connections accepted before, and process 2 never ends (finding 2). After a SIGINT the port stays open: clients connect and
   wait for ever, and the server that is started again ends with "Bind failed." (Server.c:192-196; `PortHeld` in `Admitted`).
6. `mutex2` has the same name in every run and is never unlinked: a SIGINT while it is held
   leaves a later server with a semaphore nobody will post (`Orphaned` in `Admitted`).
7. Timer server: signals coalesce, one pid is read per flag (timerServer.c:192-199) and the main FIFO is closed on
   whoever else has it open: a client may wait for ever (`timer_served`).
8. The search misses an occurrence that begins inside a failed attempt, `aab` in `aaab`; the comment on `araba` (List.c:93-95) holds only for
   words whose first letter comes again at most as the last one (`word_complete`).
9. HW3: a file or directory that cannot be opened leaves every process above it in the open of a FIFO (`FailureStops`); a pipe that fails in the main process gives a total of 0.
10. HW4: a fork while a thread has printed and not flushed writes the match twice, and the number of strings found is the number of lines of the log (`LogExact`).
11. HW4: a file that cannot be opened crashes its process inside the semaphore; all other searches stop (`CrashStops`).
12. HW4, HW5: a child that has not saved its pid survives SIGINT and writes its counts for the next run (`missed` in `Quiet`).
13. HW5: without a queue, that is in every directory without subdirectories, the main process adds `atoi` of an uninitialised buffer to what it has counted (grepThwShandMQ.c:377-395), and what it writes about the whole search is
   as arbitrary (`QueueThere` in `FoundRight`).
14. HW5: siblings add to one count without a lock, and the flag does not order them: what a directory found may get lost if a sibling found nothing itself, and then the log may say "Never found" (`FoundRight`). In an untimely run
   it may say so whatever was found.
15. seeWhat: a client that is killed by SIGPIPE when it writes to showResult (seeWhat.c:358), or that exits for want of its child's FIFO (327), does not remove its own FIFO (363); it stays until somebody's SIGINT (`Clean`).
16. seeWhat: if the first child is later than 30 ms its result is taken for the convolution, and the inverse shown is that of the matrix before (`late` in `ShownRight`).
17. seeWhat: "so I prevented conflict" (seeWhat.c:211) does not hold of `clientnum.txt`: clients that read it before others have written it back get the same number and write to the same log, one that finds it empty counts on from its last number
   or from what was on the stack, and a shorter number written over a longer one keeps its last digits (216-228; `Garbage` and the exception in `NumbersBounded`). None of this leaves a number out.

## 14. Not modelled

- Failures of `fork`, `shmat`, `pthread_create` and of opening a log. A `fork` that fails
  returns -1, which the server takes for the parent's side.
- The dimensions of the matrices (40 x 40, unchecked) and the 500 elements of `inf`: `Slot` has one element per client.
- `printThread`, which prints a number, the signals sent by the SIGINT handler of the server, the limit of 5 connections that wait in its backlog, and a SIGINT between the three forks of one request.
- The numerics of `myMath.c` and of `seeWhat.c`. A child of seeWhat writes 1600 ints where the matrix has 1600 doubles, so that the
  rows from the 20th on do not arrive; results are named here, not computed.
- The clients' logs and partial reads (`Clients.c`): what a `recv` returns is the network's choice, and the code checks none of it.
- `HW2/Listdir.c`: one process at a time, and its copy of the search is that of HW1.
- The order of memory accesses: the Makefiles compile without optimisation, so polled
  variables are read each time and stores are seen in program order (on x86).
- The `wait` of `mainThread` is modelled as waiting for all children of the server, which is what the loop does; which thread reaps which child makes no difference to it.
- In the midterm: startup (the pid is published before the handler is installed), the
  shutdown of the server, and a child's search for a matrix (for n = 1 it never ends). A signal
  that interrupts `clock` or `sigprocmask` makes no difference to them.
- In the grep programs: buffers that are overrun (paths, 250 threads, 100 FIFO names), directory streams that one read does not return whole, and what
  SIGINT does to the children when it reaches the whole terminal group: they ignore it, as only the main process acts on it.
- The course examples, the Makefiles and the reports.
