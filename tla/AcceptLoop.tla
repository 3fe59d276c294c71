---------------------------- MODULE AcceptLoop ----------------------------
(***************************************************************************)
(* How the matrix server of "FINAL PROJECT" admits requests: the loop of   *)
(* main, the thread pool that it is meant to limit, the counter that its   *)
(* mainThreads keep under the named semaphore mutex2, and what is left of  *)
(* that semaphore when SIGINT ends the server and it is started again.     *)
(* The sockets are inherited by what is forked, the listening one too.     *)
(* What a mainThread forks is MatrixPipeline; here it is one step.         *)
(***************************************************************************)
EXTENDS Integers, FiniteSets

CONSTANTS
  Client,    \* the threads of clients programs: one connection each
  PoolSize,  \* argv[2], 0 if it is missing: no limit
  MaxRuns,   \* bound: how often the server is started
  None       \* no client, no semaphore yet

ASSUME PoolAssumption ==
  /\ IsFiniteSet(Client)
  /\ PoolSize \in Nat
  /\ MaxRuns \in Nat
  /\ None \notin Client \cup {0, 1}

\* inf[] and threadArr[] have 500 elements; the model has one per client and
\* one more, since main clears the next one before it knows it needs it.
Slot == 0 .. Cardinality(Client)

VARIABLES
  run,     \* how often the server was started
  main,    \* where the loop of main stands, "down" if there is no server
  cur,     \* the client at new_sock of main
  total,   \* numberOfTotalThread
  inf,     \* inf[i]: the client whose request the element holds
  counter, \* numberOfAvailableThread
  sem,     \* mutex2: its value, None before it was first created
  pc,      \* where the mainThread of each client stands
  slot,    \* its inform2: which element of inf it was given
  job,     \* its inform: what it copied from there
  reg,     \* the value that its ++ or -- has loaded
  cl,      \* what each client did with its connection
  dup      \* the clients whose connection a forked process has inherited

server == <<run, main, cur, total, inf>>
vars == <<server, counter, sem, pc, slot, job, reg, cl, dup>>

Init ==
  /\ run = 0 /\ main = "down" /\ cur = None
  /\ total = 0 /\ inf = [i \in Slot |-> None]
  /\ counter = 0 /\ sem = None
  /\ pc = [c \in Client |-> "none"]
  /\ slot = [c \in Client |-> 0]
  /\ job = [c \in Client |-> None]
  /\ reg = [c \in Client |-> 0]
  /\ cl = [c \in Client |-> "idle"] /\ dup = {}
---------------------------------------------------------------------------
(* Clients *)

\* The forked processes inherit the socket that main listens at, and process 2 never
\* ends: after SIGINT the port stays theirs.
PortHeld == \E c \in Client : pc[c] = "left"

\* connect, which needs somebody who has the port open, not somebody who accepts.
Connect(c) ==
  /\ main # "down" \/ PortHeld
  /\ cl[c] = "idle"
  /\ cl' = [cl EXCEPT ![c] = "connected"]
  /\ UNCHANGED <<server, counter, sem, pc, slot, job, reg, dup>>

\* send of the request, or the end of the process before it.
SendOrClose(c) ==
  /\ cl[c] = "connected"
  /\ \E s \in {"sent", "closed"} : cl' = [cl EXCEPT ![c] = s]
  /\ UNCHANGED <<server, counter, sem, pc, slot, job, reg, dup>>

\* The last of the seven fields arrives, from the P3 that its mainThread forked.
Forked(c) == pc[c] \in {"depart", "load-", "store-", "wait", "left"}
GetAnswer(c) ==
  /\ Forked(c)
  /\ cl[c] = "sent"
  /\ cl' = [cl EXCEPT ![c] = "answered"]
  /\ UNCHANGED <<server, counter, sem, pc, slot, job, reg, dup>>
---------------------------------------------------------------------------
(* main *)

\* sem_open with O_CREAT: an existing semaphore keeps its value, and mutex2
\* is called "0" in every run.
Opened == IF sem = None THEN 1 ELSE sem

Start ==
  /\ main = "down" /\ run < MaxRuns /\ ~PortHeld
  /\ run' = run + 1 /\ main' = "check" /\ sem' = Opened
  /\ UNCHANGED <<cur, total, inf, counter, pc, slot, job, reg, cl, dup>>

\* bind fails, and the server ends with mutex2 opened: the port is held, or a connection
\* that the end of an earlier run has cut is in TIME_WAIT.
BindFails ==
  /\ main = "down" /\ run < MaxRuns
  /\ PortHeld \/ \E c \in Client : pc[c] = "gone" /\ cl[c] = "lost"
  /\ run' = run + 1 /\ sem' = Opened
  /\ UNCHANGED <<main, cur, total, inf, counter, pc, slot, job, reg, cl, dup>>

\* The condition of the loop, tested once before each accept.
Check ==
  /\ main = "check"
  /\ PoolSize = 0 \/ counter < PoolSize
  /\ main' = "accept"
  /\ UNCHANGED <<run, cur, total, inf, counter, sem, pc, slot, job, reg, cl, dup>>

\* accept, and the memset of the next element of inf.
Accept(c) ==
  /\ main = "accept"
  /\ cl[c] \in {"connected", "sent", "closed"} /\ pc[c] = "none"
  /\ main' = "recv" /\ cur' = c
  /\ inf' = [inf EXCEPT ![total] = None]
  /\ UNCHANGED <<run, total, counter, sem, pc, slot, job, reg, cl, dup>>

\* Mutant: numberOfTotalThread is not incremented.
NextSlotSame == total

\* ++numberOfTotalThread
NextSlot == total + 1

\* recv: the request, or 0 bytes of a closed connection, which pass for one.
Receive ==
  /\ main = "recv"
  /\ cl[cur] \in {"sent", "closed"}
  /\ inf' = [inf EXCEPT ![total] = cur]
  /\ slot' = [slot EXCEPT ![cur] = total]
  /\ pc' = [pc EXCEPT ![cur] = "arrive"]
  /\ total' = NextSlot
  /\ main' = "check" /\ cur' = None
  /\ UNCHANGED <<run, counter, sem, job, reg, cl, dup>>

\* recv or accept fails on a connection that was reset.
ReceiveFails ==
  /\ main = "recv"
  /\ cl[cur] = "closed"
  /\ pc' = [pc EXCEPT ![cur] = "gone"]
  /\ main' = "check" /\ cur' = None
  /\ UNCHANGED <<run, total, inf, counter, sem, slot, job, reg, cl, dup>>

\* A connection outlives main if a process has it, its own or one forked after it was
\* accepted, or if it is not accepted yet and a process has the listening socket.
Waiting(c) == pc[c] = "none" /\ c # cur
Kept(c) == c \in dup \/ (Waiting(c) /\ \E d \in Client : Forked(d))

\* SIGINT: exit(0) ends main and every mainThread wherever they stand. The
\* processes that were forked live on, with the sockets they have. The
\* semaphore is not unlinked.
Interrupt ==
  /\ main # "down" /\ run < MaxRuns
  /\ main' = "down" /\ cur' = None /\ total' = 0 /\ counter' = 0
  /\ inf' = [i \in Slot |-> None]
  /\ cl' = [c \in Client |-> IF cl[c] = "idle" \/ Kept(c) THEN cl[c] ELSE "lost"]
  /\ pc' = [c \in Client |-> IF Forked(c) THEN "left" ELSE IF Waiting(c) THEN "none" ELSE "gone"]
  /\ UNCHANGED <<run, sem, slot, job, reg, dup>>
---------------------------------------------------------------------------
(* mainThread *)

Goto(c, from, to) ==
  /\ pc[c] = from
  /\ pc' = [pc EXCEPT ![c] = to]

\* Mutants: sem_wait does not wait, sem_post is called twice, the thread does
\* not count itself out.
FreeAlways == TRUE
PostedTwice == sem + 2
UncountedNever(n) == n

\* sem_wait(mutex2)
Free == sem > 0

Wait(c) ==
  /\ Goto(c, "arrive", "load+") \/ Goto(c, "depart", "load-")
  /\ Free
  /\ sem' = sem - 1
  /\ UNCHANGED <<server, counter, slot, job, reg, cl, dup>>

\* ++ and -- load the counter and store it,
Load(c) ==
  /\ Goto(c, "load+", "store+") \/ Goto(c, "load-", "store-")
  /\ reg' = [reg EXCEPT ![c] = counter]
  /\ UNCHANGED <<server, counter, sem, slot, job, cl, dup>>

Counted(n) == n + 1
Uncounted(n) == n - 1

\* and sem_post(mutex2) follows.
Posted == sem + 1

CountIn(c) ==
  /\ Goto(c, "store+", "copy")
  /\ counter' = Counted(reg[c])
  /\ sem' = Posted
  /\ UNCHANGED <<server, slot, job, reg, cl, dup>>

CountOut(c) ==
  /\ Goto(c, "store-", "wait")
  /\ counter' = Uncounted(reg[c])
  /\ sem' = Posted
  /\ UNCHANGED <<server, slot, job, reg, cl, dup>>

\* inform = *inform2, field by field.
Copy(c) ==
  /\ Goto(c, "copy", "fork")
  /\ job' = [job EXCEPT ![c] = inf[slot[c]]]
  /\ UNCHANGED <<server, counter, sem, slot, reg, cl, dup>>

\* The keys and the three forks: from here on MatrixPipeline has the request. main never
\* closes a connection, so the processes get all that were accepted so far.
Fork(c) ==
  /\ Goto(c, "fork", "depart")
  /\ dup' = dup \cup {d \in Client : d = cur \/ pc[d] # "none"}
  /\ UNCHANGED <<server, counter, sem, slot, job, reg, cl>>
---------------------------------------------------------------------------
Main == Check \/ (\E c \in Client : Accept(c)) \/ Receive \/ ReceiveFails
MainThread(c) == Wait(c) \/ Load(c) \/ CountIn(c) \/ Copy(c) \/ Fork(c) \/ CountOut(c)

Next == \/ Start \/ BindFails \/ Main \/ Interrupt
        \/ \E c \in Client : MainThread(c) \/ Connect(c) \/ SendOrClose(c) \/ GetAnswer(c)

\* The system schedules the server and its threads, and a client that has
\* connected sends or ends. Nobody need connect, send SIGINT or start the server.
Fairness == /\ WF_vars(Main)
            /\ \A c \in Client : WF_vars(MainThread(c)) /\ WF_vars(SendOrClose(c))

Spec == Init /\ [][Next]_vars
FairSpec == Spec /\ Fairness
---------------------------------------------------------------------------
(* Properties *)

TypeOK ==
  /\ run \in 0 .. MaxRuns
  /\ main \in {"down", "check", "accept", "recv"}
  /\ cur \in Client \cup {None}
  /\ total \in Nat
  /\ inf \in [Slot -> Client \cup {None}]
  /\ counter \in Int
  /\ sem \in {None, 0, 1}
  /\ pc \in [Client -> {"none", "arrive", "load+", "store+", "copy", "fork", "depart",
                        "load-", "store-", "wait", "left", "gone"}]
  /\ slot \in [Client -> Slot]
  /\ job \in [Client -> Client \cup {None}]
  /\ reg \in [Client -> Int]
  /\ cl \in [Client -> {"idle", "connected", "sent", "closed", "answered", "lost"}]
  /\ dup \subseteq Client

Holds(c) == pc[c] \in {"load+", "store+", "load-", "store-"}
CountedIn == {c \in Client : pc[c] \in {"copy", "fork", "depart", "load-", "store-"}}

\* At most one mainThread is between sem_wait and sem_post of mutex2, in the
\* first run and in every later one.
OneHolder ==
  /\ \A c, d \in Client : Holds(c) /\ Holds(d) => c = d
  /\ \A c \in Client : Holds(c) => sem = 0

\* No ++ and no -- of numberOfAvailableThread is lost: it is the number of the
\* threads that have counted themselves in and not yet out.
CountExact == counter = Cardinality(CountedIn)

\* A mainThread copies the request of the client that it was created for,
\* though main goes on writing to inf without waiting for it.
OwnJob == \A c \in Client : pc[c] = "fork" \/ Forked(c) => job[c] = c

\* Whoever sends a request to the server gets its processes, however small the
\* pool and however many wait, unless SIGINT has come: then the connection is cut,
\* or it stays open at a port that nobody will serve any more, because processes
\* forked before have inherited it, or mutex2 is left at 0 with nobody to post it.
Orphaned == sem = 0 /\ \A c \in Client : ~Holds(c)
Admitted ==
  \A c \in Client : cl[c] = "sent" ~> Forked(c) \/ cl[c] = "lost" \/ PortHeld \/ Orphaned
===========================================================================
