---------------------------- MODULE TimerServer ----------------------------
(***************************************************************************)
(* How the timer server of "MIDTERM PROJECT" hands out matrices.           *)
(*                                                                         *)
(* A client (seeWhat) signals the server with SIGUSR1, creates a FIFO      *)
(* named after its pid, writes its pid to the main FIFO and reads a matrix *)
(* from its own one. The server (timerServer) polls a flag that its signal *)
(* handler sets, opens the main FIFO, reads one pid, closes it again and   *)
(* forks a child that writes the matrix to the client's FIFO. Then the     *)
(* client removes its FIFO and starts over.                                *)
(*                                                                         *)
(* FIFOs are the kernel's: an open blocks until the other end is opened, a *)
(* write without a reader kills the writer with SIGPIPE, and what is in a  *)
(* FIFO is lost when nobody has it open. Signals do not queue up.          *)
(* Matrices are left out; a child has one to write (n > 1).                *)
(***************************************************************************)
EXTENDS Integers, Sequences, FiniteSets

CONSTANTS
  Client,     \* the seeWhat processes
  MaxRounds,  \* bound: how often a client goes through its loop
  Garbage,    \* a number of no client: what was on the stack, or digits of two numbers
  None        \* no client, no number in the file

ASSUME TimerAssumption ==
  /\ IsFiniteSet(Client)
  /\ MaxRounds \in Nat \ {0}
  /\ Garbage \notin Nat /\ None \notin Nat \cup Client /\ Garbage # None

Round == 1 .. MaxRounds
\* The children of the server, numbered as it forks them: at most one for each
\* time it finds its flag set, hence one per signal.
Kid == 1 .. Cardinality(Client \X Round)

VARIABLES
  srv,      \* where the server stands
  got,      \* its flag: a signal was caught
  pending,  \* a SIGUSR1 was sent and not delivered yet
  mask,     \* whether intmask, which is never initialised, contains SIGUSR1
  blocked,  \* whether the server blocks SIGUSR1 now
  who,      \* clientPid, the pid it read last
  forks,    \* how many children it forked
  kid,      \* each child: where it stands, for whom, which round's FIFO it opened
  main,     \* the pids in the main FIFO
  pc,       \* where each client stands
  round,    \* how often it has started its loop
  full,     \* whether there is a matrix in its own FIFO
  file,     \* the number in clientnum.txt, None while it is empty
  num       \* numberOfClient of each client

signal == <<got, pending, blocked>>
server == <<srv, mask, signal, who, forks>>
number == <<file, num>>
vars == <<server, kid, main, pc, round, full, number>>

Init ==
  /\ srv = "loop" /\ got = FALSE /\ pending = FALSE
  /\ mask \in BOOLEAN /\ blocked = FALSE
  /\ who = None /\ forks = 0
  /\ kid = [k \in Kid |-> [pc |-> "unborn", for |-> None, round |-> 0]]
  /\ main = <<>>
  /\ pc = [c \in Client |-> "idle"]
  /\ round = [c \in Client |-> 1]
  /\ full = [c \in Client |-> FALSE]
  /\ file = 1 /\ num = [c \in Client |-> Garbage]

\* Who has the main FIFO open, at least as far as waiting for the other end.
Reading == srv \in {"wait", "read", "shut"}
Writing == {c \in Client : pc[c] \in {"wait", "write", "close"}}

\* A FIFO that nobody has open is empty.
Kept(readers, writers, data) == IF readers \/ writers # {} THEN data ELSE <<>>

Goto(c, from, to) ==
  /\ pc[c] = from
  /\ pc' = [pc EXCEPT ![c] = to]
---------------------------------------------------------------------------
(* The clients: number and signal *)

Launch(c) ==
  /\ Goto(c, "idle", "sleep")
  /\ UNCHANGED <<server, kid, main, round, full, number>>

\* After the usleep. fscanf of an empty file leaves the variable as it was.
ReadNumber(c) ==
  /\ Goto(c, "sleep", "signal")
  /\ num' = IF file = None THEN num ELSE [num EXCEPT ![c] = file]
  /\ UNCHANGED <<server, kid, main, round, full, file>>

\* kill(serverPid, SIGUSR1)
Signal(c) ==
  /\ Goto(c, "signal", "truncate")
  /\ pending' = TRUE
  /\ UNCHANGED <<srv, mask, got, blocked, who, forks, kid, main, round, full, number>>

\* fopen(CLIENTNUMBER_FILE, "w"), and at fclose the new number.
Truncate(c) ==
  /\ Goto(c, "truncate", "store")
  /\ file' = None
  /\ UNCHANGED <<server, kid, main, round, full, num>>

\* Mutant: the number goes up twice.
SuccessorTwice(n) == IF n = Garbage THEN Garbage ELSE n + 2

\* ++numberOfClient
Successor(n) == IF n = Garbage THEN Garbage ELSE n + 1

\* What fclose writes over what another client has written since the fopen: if that was
\* longer its last digits stay.
Over(old, new) == {new} \cup (IF old = None \/ (old \in Nat /\ new \in Nat /\ old <= new) THEN {} ELSE {Garbage})

Store(c) ==
  /\ Goto(c, "store", "mkfifo")
  /\ num' = [num EXCEPT ![c] = Successor(@)]
  /\ file' \in Over(file, num'[c])
  /\ UNCHANGED <<server, kid, main, round, full>>
---------------------------------------------------------------------------
(* The clients: FIFOs *)

\* A client's FIFO is there from its mkfifo to its unlink, and for ever if the
\* client dies in between.
Exists(c) == pc[c] \notin {"idle", "sleep", "signal", "truncate", "store", "mkfifo", "done"}

MakeFifo(c) ==
  /\ Goto(c, "mkfifo", "open")
  /\ UNCHANGED <<server, kid, main, round, full, number>>

\* open of the main FIFO blocks until the server opens it too; a server that
\* waits there goes on.
OpenMain(c) ==
  /\ Goto(c, "open", IF Reading THEN "write" ELSE "wait")
  /\ srv' = IF srv = "wait" THEN "read" ELSE srv
  /\ UNCHANGED <<signal, mask, who, forks, kid, main, round, full, number>>

WriteMain(c) ==
  /\ Goto(c, "write", "close")
  /\ Reading
  /\ main' = Append(main, c)
  /\ UNCHANGED <<server, kid, round, full, number>>

\* The server has closed the main FIFO: SIGPIPE.
Killed(c) ==
  /\ Goto(c, "write", "dead")
  /\ ~Reading
  /\ main' = Kept(FALSE, Writing \ {c}, main)
  /\ UNCHANGED <<server, kid, round, full, number>>

CloseMain(c) ==
  /\ Goto(c, "close", "own")
  /\ main' = Kept(Reading, Writing \ {c}, main)
  /\ UNCHANGED <<server, kid, round, full, number>>

\* The children of the server that have this client's FIFO open for writing.
Writers(c) == {k \in Kid : kid[k].pc \in {"wait", "write"} /\ kid[k].for = c /\ kid[k].round = round[c]}

OpenOwn(c) ==
  /\ Goto(c, "own", IF Writers(c) = {} THEN "ownwait" ELSE "read")
  /\ kid' = [k \in Kid |-> IF k \in Writers(c) THEN [kid[k] EXCEPT !.pc = "write"] ELSE kid[k]]
  /\ UNCHANGED <<server, main, round, full, number>>

\* read and close: a second matrix in the FIFO is lost.
ReadOwn(c) ==
  /\ full[c]
  /\ Goto(c, "read", "work")
  /\ full' = [full EXCEPT ![c] = FALSE]
  /\ UNCHANGED <<server, kid, main, round, number>>

\* unlink, once the matrix is dealt with. A client that ends before (its two
\* children, the package for showResult) stays here, and its FIFO stays.
Work(c) ==
  /\ Goto(c, "work", IF round[c] = MaxRounds THEN "done" ELSE "sleep")
  /\ round' = [round EXCEPT ![c] = IF @ = MaxRounds THEN @ ELSE @ + 1]
  /\ UNCHANGED <<server, kid, main, full, number>>
---------------------------------------------------------------------------
(* The server *)

\* SIGUSR1 arrives. It interrupts an open that waits; a read it interrupts or
\* comes just before.
Deliver ==
  /\ pending /\ ~blocked
  /\ pending' = FALSE /\ got' = TRUE
  /\ srv' \in CASE srv = "wait" -> {"loop"}
                [] srv = "read" /\ main = <<>> -> {"read", "shut"}
                [] OTHER -> {srv}
  /\ UNCHANGED <<mask, blocked, who, forks, kid, main, pc, round, full, number>>

\* Mutant: a signal that comes while it is blocked is lost.
Ignored == got

\* sigprocmask: SIG_BLOCK at the top of each turn of the loop, SIG_UNBLOCK once
\* the ticks are over, which delivers a pending signal.
Block ==
  /\ srv = "loop" /\ mask /\ ~blocked
  /\ blocked' = TRUE
  /\ UNCHANGED <<srv, mask, got, pending, who, forks, kid, main, pc, round, full, number>>

Caught == got \/ pending

Unblock ==
  /\ srv = "loop" /\ blocked
  /\ blocked' = FALSE
  /\ got' = Caught /\ pending' = FALSE
  /\ UNCHANGED <<srv, mask, who, forks, kid, main, pc, round, full, number>>

\* Mutant: the flag is not reset.
Untouched == TRUE

\* if(got == 1) got = 0
Taken == FALSE

Take ==
  /\ srv = "loop" /\ got
  /\ got' = Taken
  /\ srv' = "open"
  /\ UNCHANGED <<mask, pending, blocked, who, forks, kid, main, pc, round, full, number>>

\* open(mainPipeName, O_RDONLY): clients that wait there go on.
OpenServer ==
  /\ srv = "open"
  /\ srv' = IF Writing = {} THEN "wait" ELSE "read"
  /\ pc' = [c \in Client |-> IF pc[c] = "wait" THEN "write" ELSE pc[c]]
  /\ UNCHANGED <<mask, signal, who, forks, kid, main, round, full, number>>

Read ==
  /\ srv = "read" /\ main # <<>>
  /\ who' = Head(main) /\ main' = Tail(main)
  /\ srv' = "shut"
  /\ UNCHANGED <<mask, signal, forks, kid, pc, round, full, number>>

\* All clients that had it open have closed it: read returns 0, and clientPid
\* is still the one before.
ReadNothing ==
  /\ srv = "read" /\ main = <<>> /\ Writing = {}
  /\ srv' = "shut"
  /\ UNCHANGED <<mask, signal, who, forks, kid, main, pc, round, full, number>>

\* close, and the fork of a child for clientPid, whether it was just read or
\* left from before.
Fork ==
  /\ srv = "shut"
  /\ srv' = "loop" /\ forks' = forks + 1
  /\ main' = Kept(FALSE, Writing, main)
  /\ kid' = [kid EXCEPT ![forks + 1] = [pc |-> "open", for |-> who, round |-> 0]]
  /\ UNCHANGED <<mask, signal, who, pc, round, full, number>>
---------------------------------------------------------------------------
(* Its children *)

\* open(clientPid, O_WRONLY): exit(1) if there is no such FIFO, blocks until the
\* client opens it too.
OpenKid(k) ==
  LET c == kid[k].for IN
  /\ kid[k].pc = "open"
  /\ IF c = None \/ ~Exists(c)
     THEN /\ kid' = [kid EXCEPT ![k].pc = "gone"]
          /\ UNCHANGED pc
     ELSE /\ kid' = [kid EXCEPT ![k].round = round[c],
                       ![k].pc = IF pc[c] \in {"ownwait", "read"} THEN "write" ELSE "wait"]
          /\ pc' = [pc EXCEPT ![c] = IF @ = "ownwait" THEN "read" ELSE @]
  /\ UNCHANGED <<server, main, round, full, number>>

\* The matrix, or SIGPIPE if the client does not read that FIFO any more.
WriteKid(k) ==
  LET c == kid[k].for IN
  /\ kid[k].pc = "write"
  /\ kid' = [kid EXCEPT ![k].pc = "gone"]
  /\ full' = [full EXCEPT ![c] = @ \/ (pc[c] = "read" /\ round[c] = kid[k].round)]
  /\ UNCHANGED <<server, main, pc, round, number>>
---------------------------------------------------------------------------
SeeWhat(c) ==
  \/ ReadNumber(c) \/ Signal(c) \/ Truncate(c) \/ Store(c) \/ MakeFifo(c)
  \/ OpenMain(c) \/ WriteMain(c) \/ Killed(c) \/ CloseMain(c)
  \/ OpenOwn(c) \/ ReadOwn(c) \/ Work(c)
Server == Take \/ OpenServer \/ Read \/ ReadNothing \/ Fork
TimerKid(k) == OpenKid(k) \/ WriteKid(k)

Next == \/ Server \/ Deliver \/ Block \/ Unblock
        \/ \E c \in Client : Launch(c) \/ SeeWhat(c)
        \/ \E k \in Kid : TimerKid(k)

\* Processes are scheduled, signals arrive, the clock that ends the blocking
\* advances. Nobody need start a client.
Fairness == /\ WF_vars(Server) /\ WF_vars(Deliver) /\ WF_vars(Unblock)
            /\ \A c \in Client : WF_vars(SeeWhat(c))
            /\ \A k \in Kid : WF_vars(TimerKid(k))

Spec == Init /\ [][Next]_vars
FairSpec == Spec /\ Fairness

\* What the usleep of the clients is for: from reading the number to reading the
\* matrix a client is undisturbed by others. Nothing in the code ensures it.
Busy(c) == pc[c] \notin {"idle", "sleep", "work", "done"}
Separate == \A c, d \in Client : Busy(c) /\ Busy(d) => c = d

SerialSpec == Init /\ [][Next /\ Separate']_vars
FairSerialSpec ==
  /\ SerialSpec
  /\ WF_vars(Server) /\ WF_vars(Deliver) /\ WF_vars(Unblock)
  /\ \A c \in Client : WF_vars(SeeWhat(c) /\ Separate')
  /\ \A k \in Kid : WF_vars(TimerKid(k))
---------------------------------------------------------------------------
(* Properties *)

TypeOK ==
  /\ srv \in {"loop", "open", "wait", "read", "shut"}
  /\ got \in BOOLEAN /\ pending \in BOOLEAN /\ mask \in BOOLEAN /\ blocked \in BOOLEAN
  /\ who \in Client \cup {None}
  /\ forks \in 0 .. Cardinality(Client \X Round)
  /\ kid \in [Kid -> [pc : {"unborn", "open", "wait", "write", "gone"},
                      for : Client \cup {None}, round : {0} \cup Round]]
  /\ main \in Seq(Client)
  /\ pc \in [Client -> {"idle", "sleep", "signal", "truncate", "store", "mkfifo", "open", "wait",
                        "write", "close", "own", "ownwait", "read", "work", "done", "dead"}]
  /\ round \in [Client -> Round]
  /\ full \in [Client -> BOOLEAN]
  /\ file \in Nat \cup {Garbage, None}
  /\ num \in [Client -> Nat \cup {Garbage}]

\* The rounds whose signal was sent, and those whose number was stored.
Reached(c, r, early) == r < round[c] \/ (r = round[c] /\ pc[c] \notin early)
Signalled == {x \in Client \X Round : Reached(x[1], x[2], {"idle", "sleep", "signal"})}
Numbered ==
  {x \in Client \X Round :
     Reached(x[1], x[2], {"idle", "sleep", "signal", "truncate", "store"})}

\* Each child of the server goes back to a signal of its own, whatever the mask,
\* the interrupted calls and the coalesced signals do; so do the signal that is
\* pending, the flag, and the server's being past the flag.
One(b) == IF b THEN 1 ELSE 0
ForkPerSignal ==
  forks + One(pending) + One(got) + One(srv # "loop") <= Cardinality(Signalled)

\* Undisturbed clients are not killed by SIGPIPE: the server has the main FIFO
\* open when they write to it.
NoneKilled == \A c \in Client : pc[c] # "dead"

\* Clients that read the number before others have written it back repeat a number, and one
\* that finds the file empty counts on from its last one; but in whatever order they read,
\* truncate and write, no number is left out: the file never holds more than 1 above the
\* rounds numbered so far, unless the digits of two numbers are in it.
NumbersBounded ==
  file \in Nat => file <= 1 + Cardinality(Numbered)

\* Each client that signals gets a matrix.
Served == \A c \in Client : pc[c] = "truncate" ~> pc[c] = "work"
===========================================================================
