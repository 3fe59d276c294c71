---------------------------- MODULE ResultRelay ----------------------------
(***************************************************************************)
(* What the clients of the timer server (see TimerServer) do with a        *)
(* matrix: seeWhat.c and showResult.c of "MIDTERM PROJECT".                *)
(*                                                                         *)
(* A client forks a child that computes the shifted inverse and one that   *)
(* computes the convolution, one after the other. The child creates a FIFO *)
(* named after the client and writes its result there. The client sleeps   *)
(* 30 ms, opens the FIFO, reads and removes it. It does not wait for the   *)
(* children themselves. Without a FIFO the first time it goes on with the  *)
(* inverse it has, the second time it ends. Then it writes both results to *)
(* the FIFO of showResult, which opens it for one package at a time.       *)
(*                                                                         *)
(* A matrix is the number of the round it came in, a result is the child   *)
(* that computed it. At SIGINT any of the programs kills all processes     *)
(* with saved pids and removes all FIFOs with saved names.                 *)
(***************************************************************************)
EXTENDS Integers, Sequences, FiniteSets

CONSTANTS
  Client,     \* the seeWhat processes
  Rounds,     \* bound: how many matrices each client gets
  MaxLate,    \* bound: how many children create their FIFO too late
  None        \* no FIFO, no result

ASSUME RelayAssumption ==
  /\ IsFiniteSet(Client) /\ Rounds \in [Client -> Nat \ {0}] /\ MaxLate \in Nat

\* The children of the clients: whose, in which round, and what they compute.
By(c) == [client : {c}, round : 1 .. Rounds[c], kind : {"inverse", "convolution"}]
Worker == UNION {By(c) : c \in Client}

ASSUME NoneAssumption == None \notin Worker

VARIABLES
  late,     \* the children for whose FIFO the sleep may be too short
  pc,       \* where each client stands
  round,    \* the matrix it has
  own,      \* the clients whose own FIFO, named after the pid, is there
  inverse, convolution, \* the results it has
  worker,   \* where each child stands
  path,     \* the FIFO child<pid> of each client, by the child that created it
  show,     \* where showResult stands
  box,      \* the packages in its FIFO
  leaked,   \* whether it has left the FIFO open after an empty read
  shown,    \* those it has shown
  named,    \* the clients that have saved the name child<pid> in fifonames.txt
  missed    \* children that had not saved their pids at SIGINT

client == <<pc, round, own, inverse, convolution>>
child == <<worker, path>>
result == <<show, box, leaked, shown>>
vars == <<late, client, child, result, named, missed>>

Init ==
  /\ late \in {L \in SUBSET Worker : Cardinality(L) <= MaxLate}
  /\ pc = [c \in Client |-> "ask"] /\ own = {} /\ round = [c \in Client |-> 1]
  /\ inverse = [c \in Client |-> None] /\ convolution = [c \in Client |-> None]
  /\ worker = [w \in Worker |-> "unborn"]
  /\ path = [c \in Client |-> None]
  /\ show = "open" /\ box = <<>> /\ leaked = FALSE /\ shown = <<>>
  /\ named = {} /\ missed = {}

Goto(c, from, to) ==
  /\ pc[c] = from
  /\ pc' = [pc EXCEPT ![c] = to]

Move(w, from, to) ==
  /\ worker[w] = from
  /\ worker' = [worker EXCEPT ![w] = to]

Own(c, kind) == [client |-> c, round |-> round[c], kind |-> kind]
---------------------------------------------------------------------------
(* The children *)

SavePid(w) ==
  /\ Move(w, "born", "compute")
  /\ UNCHANGED <<late, client, path, result, named, missed>>

\* shiftedInverser or convertConvMatris, then mkfifo, which fails if there is a FIFO
\* of that name: exit, without a result. Otherwise the child opens it and waits for its reader.
MakeFifo(w) ==
  /\ Move(w, "compute", IF path[w.client] = None THEN "wait" ELSE "gone")
  /\ path' = [path EXCEPT ![w.client] = IF @ = None THEN w ELSE @]
  /\ UNCHANGED <<late, client, result, named, missed>>
---------------------------------------------------------------------------
(* The clients *)

\* mkfifo(pidString), which fails if it is there: exit(1). The matrix comes through
\* this FIFO (see TimerServer).
Ask(c) ==
  /\ Goto(c, "ask", IF c \in own THEN "failed" ELSE "fork")
  /\ own' = own \cup {c}
  /\ UNCHANGED <<late, round, inverse, convolution, child, result, named, missed>>

\* The first fork and the second.
Fork(c, from, to, kind) ==
  /\ Goto(c, from, to)
  /\ worker' = [worker EXCEPT ![Own(c, kind)] = "born"]
  /\ UNCHANGED <<late, round, own, inverse, convolution, path, result, named, missed>>

Fork1(c) == Fork(c, "fork", "nap1", "inverse")
Fork2(c) == Fork(c, "fork2", "nap2", "convolution")

\* usleep(30000)
Slept(c, kind) == Own(c, kind) \notin late => worker[Own(c, kind)] \notin {"born", "compute"}

\* shiftedInverser or convertConvMatris: a result is named after the child that
\* computed it.
Result(w) == w

\* Mutant: the FIFO stays.
NotUnlinked(c) == path
\* unlink(childFifoName)
Unlinked(c) == [path EXCEPT ![c] = None]

\* open(childFifoName, O_RDONLY), which lets the child that waits there write its
\* matrix and exit; read, close and unlink.
Fetch(c, from, to) ==
  /\ path[c] # None /\ worker[path[c]] = "wait"
  /\ Goto(c, from, to)
  /\ worker' = [worker EXCEPT ![path[c]] = "gone"]
  /\ path' = Unlinked(c)
  /\ UNCHANGED <<late, round, own, result, missed>>

\* saveFifoName, and the inverse.
Read1(c) ==
  /\ Slept(c, "inverse")
  /\ Fetch(c, "nap1", "fork2")
  /\ inverse' = [inverse EXCEPT ![c] = Result(path[c])] /\ named' = named \cup {c}
  /\ UNCHANGED convolution

\* There is no FIFO: the inverse stays as it was.
Skip1(c) ==
  /\ Slept(c, "inverse") /\ path[c] = None
  /\ Goto(c, "nap1", "fork2")
  /\ named' = named \cup {c}
  /\ UNCHANGED <<late, round, own, inverse, convolution, child, result, missed>>

Read2(c) ==
  /\ Slept(c, "convolution")
  /\ Fetch(c, "nap2", "send")
  /\ convolution' = [convolution EXCEPT ![c] = Result(path[c])]
  /\ UNCHANGED <<inverse, named>>

\* There is no FIFO: exit(1).
Fail2(c) ==
  /\ Slept(c, "convolution") /\ path[c] = None
  /\ Goto(c, "nap2", "failed")
  /\ UNCHANGED <<late, round, own, inverse, convolution, child, result, named, missed>>

\* The differences of determinants, and open(SHOWRESULT_FIFONAME, O_WRONLY).
Reading == leaked \/ show \in {"wait", "read", "close"}
Writing == {c \in Client : pc[c] \in {"sendwait", "package", "sent"}}
Kept(readers, writers) == IF readers \/ writers # {} THEN box ELSE <<>>

OpenShow(c) ==
  /\ Goto(c, "send", IF Reading THEN "package" ELSE "sendwait")
  /\ show' = IF show = "wait" THEN "read" ELSE show
  /\ UNCHANGED <<late, round, own, inverse, convolution, child, box, leaked, shown, named, missed>>

Package(c) ==
  [client |-> c, round |-> round[c], inverse |-> inverse[c], convolution |-> convolution[c]]

WritePackage(c) ==
  /\ Reading
  /\ Goto(c, "package", "sent")
  /\ box' = Append(box, Package(c))
  /\ UNCHANGED <<late, round, own, inverse, convolution, child, show, leaked, shown, named, missed>>

\* showResult has closed its FIFO: SIGPIPE, which ends the client before it removes its own.
Killed(c) ==
  /\ ~Reading
  /\ Goto(c, "package", "broken")
  /\ box' = Kept(FALSE, Writing \ {c})
  /\ UNCHANGED <<late, round, own, inverse, convolution, child, show, leaked, shown, named, missed>>

\* close, the log, unlink(pidString), and the next matrix.
CloseShow(c) ==
  /\ Goto(c, "sent", IF round[c] = Rounds[c] THEN "done" ELSE "ask")
  /\ round' = [round EXCEPT ![c] = IF @ = Rounds[c] THEN @ ELSE @ + 1]
  /\ box' = Kept(Reading, Writing \ {c}) /\ own' = own \ {c}
  /\ UNCHANGED <<late, inverse, convolution, child, show, leaked, shown, named, missed>>
---------------------------------------------------------------------------
(* showResult *)

OpenResults ==
  /\ show = "open"
  /\ show' = IF Writing = {} THEN "wait" ELSE "read"
  /\ pc' = [c \in Client |-> IF pc[c] = "sendwait" THEN "package" ELSE pc[c]]
  /\ UNCHANGED <<late, round, own, inverse, convolution, child, box, leaked, shown, named, missed>>

\* Mutant: the package stays in the FIFO.
NotTaken == box
Taken == Tail(box)

Show ==
  /\ show = "read" /\ box # <<>>
  /\ shown' = Append(shown, Head(box)) /\ box' = Taken
  /\ show' = "close"
  /\ UNCHANGED <<late, client, child, leaked, named, missed>>

\* The read of a FIFO that the last writer has closed: the loop goes on without a close.
EmptyRead ==
  /\ show = "read" /\ box = <<>> /\ Writing = {}
  /\ show' = "open" /\ leaked' = TRUE
  /\ UNCHANGED <<late, client, child, box, shown, named, missed>>

CloseResults ==
  /\ show = "close"
  /\ show' = "open"
  /\ box' = Kept(leaked, Writing)
  /\ UNCHANGED <<late, client, child, leaked, shown, named, missed>>
---------------------------------------------------------------------------
Over == {"done", "failed", "broken", "killed"}

\* Mutant: only the FIFOs are removed.
Spared == {"unborn", "born", "compute", "wait", "gone"}
\* A child that is not in allpid.txt yet.
Unsaved == {"unborn", "born", "gone"}

\* SIGINT at showResult or a client: killAllProcess, unlinkAllFifos, removeAllTxt.
Shutdown ==
  /\ show # "gone"
  /\ show' = "gone" /\ box' = <<>> /\ leaked' = FALSE
  /\ pc' = [c \in Client |-> IF pc[c] \in Over THEN pc[c] ELSE "killed"]
  /\ worker' = [w \in Worker |-> IF worker[w] \in Unsaved THEN worker[w] ELSE "gone"]
  /\ own' = {} /\ path' = [c \in Client |-> IF c \in named THEN None ELSE path[c]]
  /\ missed' = {w \in Worker : worker[w] = "born"}
  /\ UNCHANGED <<late, round, inverse, convolution, shown, named>>
---------------------------------------------------------------------------
Child(w) == SavePid(w) \/ MakeFifo(w)
SeeWhat(c) ==
  \/ Ask(c) \/ Fork1(c) \/ Read1(c) \/ Skip1(c) \/ Fork2(c) \/ Read2(c) \/ Fail2(c)
  \/ OpenShow(c) \/ WritePackage(c) \/ Killed(c) \/ CloseShow(c)
ShowResult == OpenResults \/ Show \/ EmptyRead \/ CloseResults

Next == (\E w \in Worker : Child(w)) \/ (\E c \in Client : SeeWhat(c)) \/ ShowResult \/ Shutdown

\* Processes are scheduled; nobody need interrupt them.
Fairness ==
  /\ \A c \in Client : WF_vars(\E w \in By(c) : Child(w)) /\ WF_vars(SeeWhat(c))
  /\ WF_vars(ShowResult)

Spec == Init /\ [][Next]_vars
FairSpec == Spec /\ Fairness
---------------------------------------------------------------------------
(* Properties *)

\* Whether no child of a client came late, up to a round.
InTime(c, n) == \A w \in By(c) : w.round <= n => w \notin late

\* No package is shown twice, those of a client are shown in order, and each has the
\* results of its own matrix unless a child of its own client has come late.
ShownRight ==
  \A i \in DOMAIN shown :
    LET p == shown[i]
        Of(kind) == [client |-> p.client, round |-> p.round, kind |-> kind]
    IN  /\ \A j \in 1 .. i - 1 : shown[j].client = p.client => shown[j].round < p.round
        /\ InTime(p.client, p.round) =>
             p.inverse = Of("inverse") /\ p.convolution = Of("convolution")

\* A client none of whose children is late does not fail, and when it has ended it
\* leaves no child behind, and no FIFO that a child made: except at SIGINT those that had
\* not saved their pids, and a FIFO whose name was not saved. Its own FIFO stays behind
\* exactly if it ended before the unlink, killed by SIGPIPE at showResult's FIFO or without
\* a child's FIFO the second time, and there it stays until somebody's SIGINT.
Clean ==
  \A c \in Client : pc[c] \in Over =>
    /\ c \in own <=> pc[c] \in {"broken", "failed"} /\ show # "gone"
    /\ InTime(c, Rounds[c]) =>
         /\ pc[c] # "failed"
         /\ \A w \in By(c) : worker[w] \in {"unborn", "gone"} \/ w \in missed
         /\ path[c] # None => c \notin named \/ path[c] \in missed

\* Whatever comes late, no client waits for ever: it gets through its rounds, fails, or
\* is killed when it writes to showResult or at SIGINT.
Ends == <>(\A c \in Client : pc[c] \in Over)
============================================================================
