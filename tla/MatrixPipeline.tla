-------------------------- MODULE MatrixPipeline --------------------------
(***************************************************************************)
(* How the matrix server of "FINAL PROJECT" answers one request.           *)
(*                                                                         *)
(* Every accepted request r has a mainThread (process "T" below, with the  *)
(* index r in inf[]) that draws two System V keys and forks three          *)
(* processes:                                                              *)
(*   P1  creates segment 1, generates the matrices A and b, raises the     *)
(*       status of the segment to -1 and polls until it is taken down;     *)
(*   P2  waits for that status, runs three solver threads on segment 1,    *)
(*       takes the status down, removes segment 1, creates segment 2,      *)
(*       copies A, b and the solutions into it, raises its status to -1    *)
(*       and polls until that one is taken down;                           *)
(*   P3  waits for the status of segment 2, verifies, sends the seven      *)
(*       fields to the client, writes the log, removes segment 2.          *)
(* The processes share nothing but the segments, found by key.             *)
(*                                                                         *)
(* Data is abstracted to its origin: a matrix is the request that it was   *)
(* generated for, a solution is the request whose matrix it solves.        *)
(***************************************************************************)
EXTENDS Integers, FiniteSets

CONSTANTS
  Request,      \* the indices of inf[] in use: one accepted request each
  Method,       \* the solver threads of P2: SVD, QR and pseudo-inverse
  Key,          \* the values one call of ftok can return
  Rows,         \* Rows[r], Cols[r]: the m and p that the client of r sent
  Cols,
  MaxSegments,  \* how many segments the system lets exist (SHMMNI)
  None          \* no segment, no key, no data

Child  == {"P1", "P2", "P3"}
Thread == {"T"} \cup Child \cup Method

\* A segment is named by the request whose process created it and by which
\* of the two it is, since a P1 creates at most one and a P2 at most one.
Seg == Request \X {1, 2}

\* The pointers to attached segments: sol of P1, sol and sol2 of P2, sol of
\* each solver thread (in the address space of P2), sol2 of P3.
End == {"P1", "P2in", "P2out", "P3"} \cup Method
Ends(p) == {e \in End : e = p \/ (p = "P2" /\ e \notin {"P1", "P3"})}

\* What struct solutions holds: whose matrix, whose solution per method, and
\* how many rows of the solutions are filled.
Content == [mat  : Request \cup {None},
            sol  : [Method -> Request \cup {None}],
            rows : Nat]
\* What P3 sends and logs: a content and the error terms computed from one.
Report == [data : Content, verify : Content]
Blank == [mat |-> None, sol |-> [i \in Method |-> None], rows |-> 0]

ASSUME PipelineAssumption ==
  /\ Rows \in [Request -> Nat]
  /\ Cols \in [Request -> Nat]
  /\ MaxSegments \in Nat
  /\ Method # {}
  /\ Method \cap {"T", "P1", "P2", "P2in", "P2out", "P3"} = {}
  /\ None \notin Request \cup Key \cup Seg \cup Report

VARIABLES
  pc,       \* where each thread and process of each request stands
  key,      \* key[r][1], key[r][2]: key1 and key2 of mainThread
  table,    \* table[n][k]: the segment that shmget finds under key k
  made,     \* the segments created so far
  status,   \* sol->status of each segment
  content,  \* the matrices and solutions in each segment
  check,    \* sol2->verify: what the error terms were computed from
  at,       \* the attached segment of each pointer
  lock,     \* infArr[i].lock, one copy per solver thread
  found,    \* returnVal of each solver: whose matrix it solved
  mine,     \* myAllSolitions[threadIndex] in the memory of P2
  client,   \* what the client at the other end of new_sock does
  answer,   \* what the client received
  logsem,   \* the named semaphore mutex
  logged    \* the entry of each request in ServerAllLogs.txt

dir   == <<table, made, at>>
cells == <<status, content, check>>
work  == <<lock, found, mine>>
ends  == <<client, answer, logsem, logged>>
vars  == <<pc, key, dir, cells, work, ends>>
---------------------------------------------------------------------------
Init ==
  /\ pc = [r \in Request |->
             [p \in Thread |-> IF p = "T" THEN "start" ELSE "unborn"]]
  /\ key = [r \in Request |-> [n \in {1, 2} |-> None]]
  /\ table = [n \in {1, 2} |-> [k \in Key |-> None]]
  /\ made = {}
  /\ status = [s \in Seg |-> 0]
  /\ content = [s \in Seg |-> Blank]
  /\ check = [s \in Seg |-> Blank]
  /\ at = [r \in Request |-> [e \in End |-> None]]
  /\ lock = [r \in Request |-> [i \in Method |-> 0]]
  /\ found = [r \in Request |-> [i \in Method |-> None]]
  /\ mine = [r \in Request |-> Blank]
  /\ client = [r \in Request |-> "waiting"]
  /\ answer = [r \in Request |-> None]
  /\ logsem = 1
  /\ logged = [r \in Request |-> None]

Goto(r, p, from, to) ==
  /\ pc[r][p] = from
  /\ pc' = [pc EXCEPT ![r][p] = to]

\* Mutant: both keys from ftok(".", ...).
OneDirectory(n) == 1

\* ftok(".", ...) and ftok("..", ...): keys made from different directories
\* differ.
Directory(n) == n

\* The segment a shmget of request r under its n-th key finds, or None.
Lookup(r, n) == table[Directory(n)][key[r][n]]

\* A removed segment lasts until nobody is attached to it.
Attached(s) == \E r \in Request, e \in End : at[r][e] = s
Live == {s \in made : Attached(s) \/ \E n \in {1, 2}, k \in Key : table[n][k] = s}
Room == Cardinality(Live) < MaxSegments

\* shmget without IPC_CREAT (or of an existing key), then shmat.
Attach(r, n, e) ==
  /\ Lookup(r, n) # None
  /\ at' = [at EXCEPT ![r][e] = Lookup(r, n)]
  /\ UNCHANGED <<table, made, cells>>

\* shmget with IPC_CREAT of a free key, then shmat: a zeroed segment.
Create(r, n, e) ==
  /\ Lookup(r, n) = None
  /\ Room
  /\ made' = made \cup {<<r, n>>}
  /\ table' = [table EXCEPT ![Directory(n)][key[r][n]] = <<r, n>>]
  /\ at' = [at EXCEPT ![r][e] = <<r, n>>]
  /\ UNCHANGED <<cells>>

\* shmctl(id, IPC_RMID): the key no longer finds the segment.
Remove(s) ==
  table' = [n \in {1, 2} |->
              [k \in Key |-> IF table[n][k] = s THEN None ELSE table[n][k]]]

\* What exit does to the attachments of a process.
Detach(r, p) ==
  at' = [at EXCEPT ![r] = [e \in End |-> IF e \in Ends(p) THEN None ELSE @[e]]]
---------------------------------------------------------------------------
(* mainThread *)

\* The two ftok calls; each may return any value, whatever the others drew.
DrawKeys(r) ==
  /\ Goto(r, "T", "start", "fork1")
  /\ \E k \in [{1, 2} -> Key] : key' = [key EXCEPT ![r] = k]
  /\ UNCHANGED <<dir, cells, work, ends>>

\* fork of the n-th child, in the order P1, P2, P3.
Fork(r, p, from, to, first) ==
  /\ pc[r]["T"] = from
  /\ pc' = [pc EXCEPT ![r]["T"] = to, ![r][p] = first]
  /\ UNCHANGED <<key, dir, cells, work, ends>>

ForkP1(r) == Fork(r, "P1", "fork1", "fork2", "create")
ForkP2(r) == Fork(r, "P2", "fork2", "fork3", "open")
ForkP3(r) == Fork(r, "P3", "fork3", "linger", "open")
---------------------------------------------------------------------------
(* The last thing that mainThread, P1 and P2 do is to wait: mainThread until
   wait() finds no child of the server left, whichever request it worked for,
   P1 and P2 until the status of their segment is no longer -1.            *)

MayLeave(r, p) ==
  /\ p = "T"  => \A q \in Request, c \in Child : pc[q][c] \in {"unborn", "gone"}
  /\ p = "P1" => status[at[r]["P1"]] # -1
  /\ p = "P2" => status[at[r]["P2out"]] # -1

Leave(r, p) ==
  /\ Goto(r, p, "linger", "gone")
  /\ MayLeave(r, p)
  /\ Detach(r, p)
  /\ UNCHANGED <<key, table, made, cells, work, ends>>
---------------------------------------------------------------------------
(* Process 1 *)

P1Open(r) ==
  /\ Goto(r, "P1", "create", "fill")
  /\ Attach(r, 1, "P1") \/ Create(r, 1, "P1")
  /\ UNCHANGED <<key, work, ends>>

\* shmget fails: exit(1).
P1NoRoom(r) ==
  /\ Goto(r, "P1", "create", "gone")
  /\ Lookup(r, 1) = None /\ ~Room
  /\ UNCHANGED <<key, dir, cells, work, ends>>

\* matrisGenerate: a random m x p matrix A and b, named after the request.
Generated(c, r) == [c EXCEPT !.mat = r]

\* m, p and the matrices.
P1Fill(r) ==
  /\ Goto(r, "P1", "fill", "post")
  /\ content' = [content EXCEPT ![at[r]["P1"]] = Generated(@, r)]
  /\ UNCHANGED <<key, status, check, dir, work, ends>>

\* Mutant: the status set in the lines that are commented out.
PostedZero == 0

\* sol->status = -1 in P1, sol2->status = -1 in P2.
Posted == -1

Post(r, p, e) ==
  /\ Goto(r, p, "post", "linger")
  /\ status' = [status EXCEPT ![at[r][e]] = Posted]
  /\ UNCHANGED <<key, content, check, dir, work, ends>>
---------------------------------------------------------------------------
(* Process 2 and its three solver threads *)

\* Mutant: P2 and P3 do not wait for the status.
ReadyAlways(s) == TRUE

\* while(status != -1), in P2 and in P3.
Ready(s) == status[s] = -1

\* Mutant: no pthread_join.
JoinedAlways(r) == TRUE

\* pthread_join, three times.
Joined(r) == \A i \in Method : pc[r][i] = "done"

P2Open(r) ==
  /\ Goto(r, "P2", "open", "await")
  /\ Attach(r, 1, "P2in")
  /\ UNCHANGED <<key, work, ends>>

\* Once the matrix is ready, pthread_create three times. Each thread gets
\* its own copy of inform, so its own copy of the mutex.
P2Start(r) ==
  /\ pc[r]["P2"] = "await"
  /\ Ready(at[r]["P2in"])
  /\ pc' = [pc EXCEPT ![r] = [p \in Thread |->
              IF p \in Method THEN "lock" ELSE IF p = "P2" THEN "join" ELSE @[p]]]
  /\ UNCHANGED <<key, dir, cells, work, ends>>

\* pthread_mutex_lock(&inform->lock)
SolverLock(r, i) ==
  /\ lock[r][i] = 0
  /\ Goto(r, i, "lock", "attach")
  /\ lock' = [lock EXCEPT ![r][i] = 1]
  /\ UNCHANGED <<key, found, mine, dir, cells, ends>>

SolverAttach(r, i) ==
  /\ Goto(r, i, "attach", "unlock")
  /\ Attach(r, 1, i)
  /\ UNCHANGED <<key, work, ends>>

SolverUnlock(r, i) ==
  /\ Goto(r, i, "unlock", "solve")
  /\ lock' = [lock EXCEPT ![r][i] = 0]
  /\ UNCHANGED <<key, found, mine, dir, cells, ends>>

\* solveQRfactoring, solvePseudoInverse and solveSVD: a solution is named after
\* the matrix that it solves, its numbers are left out.
Solution(c) == c.mat

\* returnVal = solve...(sol->arrA, sol->arrB, sol->m, sol->p)
SolverSolve(r, i) ==
  /\ Goto(r, i, "solve", "copy")
  /\ found' = [found EXCEPT ![r][i] = Solution(content[at[r][i]])]
  /\ UNCHANGED <<key, lock, mine, dir, cells, ends>>

\* arrCpy of A and b, read once more from the segment, and of returnVal.
SolverCopy(r, i) ==
  LET now == content[at[r][i]].mat IN
  /\ Goto(r, i, "copy", "done")
  /\ mine' = [mine EXCEPT ![r] =
                [mat  |-> now,
                 sol  |-> [@.sol EXCEPT ![i] = found[r][i]],
                 rows |-> IF now = None THEN 0 ELSE Cols[now]]]
  /\ UNCHANGED <<key, lock, found, dir, cells, ends>>

\* After the joins sol->status = 0: P1 may die.
P2Release(r) ==
  /\ Joined(r)
  /\ Goto(r, "P2", "join", "remove")
  /\ status' = [status EXCEPT ![at[r]["P2in"]] = 0]
  /\ UNCHANGED <<key, content, check, dir, work, ends>>

P2Remove(r) ==
  /\ Goto(r, "P2", "remove", "create")
  /\ Remove(at[r]["P2in"])
  /\ UNCHANGED <<key, made, at, cells, work, ends>>

\* Retried for ever while the system has no room.
P2Create(r) ==
  /\ Goto(r, "P2", "create", "publish")
  /\ Attach(r, 2, "P2out") \/ Create(r, 2, "P2out")
  /\ UNCHANGED <<key, work, ends>>

\* Mutant: the copy stops one row early.
CopiedShort(c) == [c EXCEPT !.rows = IF c.rows = 0 THEN 0 ELSE c.rows - 1]

\* m, p, A and b are copied whole; of each solution, which has p rows, arrCpy
\* copies the first m.
Copied(c) ==
  LET m == IF c.mat = None THEN 0 ELSE Rows[c.mat] IN
  [c EXCEPT !.rows = IF m < c.rows THEN m ELSE c.rows]

P2Publish(r) ==
  /\ Goto(r, "P2", "publish", "post")
  /\ content' = [content EXCEPT ![at[r]["P2out"]] = Copied(mine[r])]
  /\ UNCHANGED <<key, status, check, dir, work, ends>>
---------------------------------------------------------------------------
(* Process 3 and the client *)

P3Open(r) ==
  /\ Goto(r, "P3", "open", "await")
  /\ Attach(r, 2, "P3")
  /\ UNCHANGED <<key, work, ends>>

\* verifyTheMatris: error terms are named after what they were computed from.
ErrorTerms(c) == c

\* Once segment 2 is ready, the error terms of the three solutions.
P3Verify(r) ==
  /\ Goto(r, "P3", "await", "send")
  /\ Ready(at[r]["P3"])
  /\ check' = [check EXCEPT ![at[r]["P3"]] = ErrorTerms(content[at[r]["P3"]])]
  /\ UNCHANGED <<key, status, content, dir, work, ends>>

\* The seven sends and close(new_sock).
P3Send(r) ==
  LET s == at[r]["P3"] IN
  /\ client[r] = "waiting"
  /\ Goto(r, "P3", "send", "log")
  /\ answer' = [answer EXCEPT ![r] = [data |-> content[s], verify |-> check[s]]]
  /\ client' = [client EXCEPT ![r] = "served"]
  /\ UNCHANGED <<key, logsem, logged, dir, cells, work>>

\* The client has closed its socket: the sends go nowhere, and once the reset
\* has come back the next one raises SIGPIPE, which kills P3.
P3SendToNobody(r) ==
  /\ client[r] = "left"
  /\ \/ Goto(r, "P3", "send", "log") /\ UNCHANGED at
     \/ Goto(r, "P3", "send", "gone") /\ Detach(r, "P3")
  /\ UNCHANGED <<key, table, made, cells, work, ends>>

\* Mutants: sem_wait does not wait, sem_post is missing.
LogFreeAlways == TRUE
LogKept == logsem

\* sem_wait(mutex) and sem_post(mutex)
LogFree == logsem > 0
LogPosted == logsem + 1

P3LockLog(r) ==
  /\ LogFree
  /\ Goto(r, "P3", "log", "write")
  /\ logsem' = logsem - 1
  /\ UNCHANGED <<key, client, answer, logged, dir, cells, work>>

\* writeToLogFile, between the two semaphore calls.
P3WriteLog(r) ==
  LET s == at[r]["P3"] IN
  /\ Goto(r, "P3", "write", "retire")
  /\ logged' = [logged EXCEPT ![r] = [data |-> content[s], verify |-> check[s]]]
  /\ logsem' = LogPosted
  /\ UNCHANGED <<key, client, answer, dir, cells, work>>

\* Mutant: the value that would let P2 die.
RetiredZero == 0

\* sol2->status = -1 ("2.process olebilir"), shmctl(IPC_RMID), exit(0)
Retired == -1

P3Retire(r) ==
  /\ Goto(r, "P3", "retire", "gone")
  /\ status' = [status EXCEPT ![at[r]["P3"]] = Retired]
  /\ Remove(at[r]["P3"])
  /\ Detach(r, "P3")
  /\ UNCHANGED <<key, made, content, check, work, ends>>

\* SIGINT at the client terminal, or its end, while r is being worked on.
ClientLeaves(r) ==
  /\ client[r] = "waiting"
  /\ client' = [client EXCEPT ![r] = "left"]
  /\ UNCHANGED <<pc, key, answer, logsem, logged, dir, cells, work>>
---------------------------------------------------------------------------
MainThread(r) == DrawKeys(r) \/ ForkP1(r) \/ ForkP2(r) \/ ForkP3(r)
P1(r) == P1Open(r) \/ P1NoRoom(r) \/ P1Fill(r) \/ Post(r, "P1", "P1")
P2(r) == \/ P2Open(r) \/ P2Start(r) \/ P2Release(r) \/ P2Remove(r)
         \/ P2Create(r) \/ P2Publish(r) \/ Post(r, "P2", "P2out")
Solver(r, i) == \/ SolverLock(r, i) \/ SolverAttach(r, i) \/ SolverUnlock(r, i)
                \/ SolverSolve(r, i) \/ SolverCopy(r, i)
P3(r) == \/ P3Open(r) \/ P3Verify(r) \/ P3Send(r) \/ P3SendToNobody(r)
         \/ P3LockLog(r) \/ P3WriteLog(r) \/ P3Retire(r)

Next == \E r \in Request :
          \/ MainThread(r) \/ P1(r) \/ P2(r) \/ P3(r) \/ ClientLeaves(r)
          \/ \E i \in Method : Solver(r, i)
          \/ \E p \in {"T", "P1", "P2"} : Leave(r, p)

\* The operating system schedules every thread and every process. A client
\* need not leave.
Fairness == \A r \in Request :
              /\ WF_vars(MainThread(r)) /\ WF_vars(P1(r))
              /\ WF_vars(P2(r)) /\ WF_vars(P3(r))
              /\ \A i \in Method : WF_vars(Solver(r, i))
              /\ \A p \in {"T", "P1", "P2"} : WF_vars(Leave(r, p))

Spec == Init /\ [][Next]_vars
FairSpec == Spec /\ Fairness

\* No two requests drew the same key: what the code relies on. ftok keeps 8
\* bits of its second argument, so nothing in the code ensures it.
UniqueKeys ==
  \A r, q \in Request, n \in {1, 2} :
    r # q /\ key[r][n] # None => key[r][n] # key[q][n]

UniqueSpec == Init /\ [][Next /\ UniqueKeys']_vars
FairUniqueSpec == UniqueSpec /\ Fairness
---------------------------------------------------------------------------
(* Properties *)

Label == {"start", "fork1", "fork2", "fork3", "unborn",
          "create", "fill", "post", "linger", "gone", "open", "await", "join",
          "remove", "publish", "lock", "attach", "unlock", "solve", "copy",
          "done", "send", "log", "write", "retire"}

ControlOK ==
  /\ pc \in [Request -> [Thread -> Label]]
  /\ key \in [Request -> [{1, 2} -> Key \cup {None}]]
DirOK ==
  /\ table \in [{1, 2} -> [Key -> Seg \cup {None}]]
  /\ made \subseteq Seg
  /\ at \in [Request -> [End -> Seg \cup {None}]]
CellsOK ==
  /\ status \in [Seg -> {0, -1}]
  /\ content \in [Seg -> Content]
  /\ check \in [Seg -> Content]
WorkOK ==
  /\ lock \in [Request -> [Method -> {0, 1}]]
  /\ found \in [Request -> [Method -> Request \cup {None}]]
  /\ mine \in [Request -> Content]
EndsOK ==
  /\ client \in [Request -> {"waiting", "served", "left"}]
  /\ answer \in [Request -> Report \cup {None}]
  /\ logsem \in {0, 1}
  /\ logged \in [Request -> Report \cup {None}]

\* Every variable keeps the shape the code gives it. The semaphore of the log
\* stays within 0 and 1: every sem_post follows its own sem_wait.
TypeOK == ControlOK /\ DirOK /\ CellsOK /\ WorkOK /\ EndsOK

\* Two requests never have the same segment attached: what the keys of
\* mainThread, "unique" in its comment, are for.
PrivateSegments ==
  \A r, q \in Request, d, e \in End :
    r # q /\ at[r][d] # None => at[r][d] # at[q][e]

\* What a client receives is the matrix generated for its own request, with
\* three solutions of that very matrix and the error terms of those solutions.
\* It depends on both status handshakes and on every key of the request.
OwnAnswer ==
  \A r \in Request :
    answer[r] # None =>
      /\ answer[r].data.mat = r
      /\ answer[r].data.sol = [i \in Method |-> r]
      /\ answer[r].verify = answer[r].data

\* If the matrix has no more columns than rows the client gets every row of its
\* solutions: xD is p x 1, as the header that both logs print above it says. The copy
\* into segment 2 runs over m rows.
WholeSolution ==
  \A r \in Request :
    answer[r] # None /\ Cols[r] <= Rows[r] => answer[r].data.rows = Cols[r]

\* ServerAllLogs.txt records for a request exactly what its client received:
\* the segment does not change between the sends and the write of the log.
LogAgrees ==
  \A r \in Request :
    answer[r] # None /\ logged[r] # None => logged[r] = answer[r]

\* One P3 at a time writes ServerAllLogs.txt.
LogExclusive ==
  \A r, q \in Request : pc[r]["P3"] = "write" /\ pc[q]["P3"] = "write" => r = q

\* P2 never gets past its last poll, whatever happens to P3, to the client and
\* to the keys: the only values ever stored in the status of segment 2 are the
\* -1 of P2 and the -1 of P3.
SecondProcessStays == \A r \in Request : pc[r]["P2"] # "gone"

\* While a solver thread works on a matrix, and until it has copied it, no
\* step of any process puts another matrix in that segment.
MatrixHeld ==
  [][\A r \in Request, i \in Method :
       pc[r][i] \in {"unlock", "solve", "copy"} =>
         content'[at[r][i]].mat = content[at[r][i]].mat]_vars

\* An accepted request is answered, unless its client has left: in the end there is
\* none that waits.
Served ==
  <>[](\A r \in Request :
         pc[r]["T"] # "start" => answer[r] # None \/ client[r] = "left")

\* When a client has been served, its P3 still removes segment 2 and its P2 has removed
\* segment 1: in the end no key finds them.
KeysFreed ==
  <>[](\A r \in Request : client[r] = "served" =>
         \A n \in {1, 2}, k \in Key : table[n][k] \notin {<<r, 1>>, <<r, 2>>})

---------------------------------------------------------------------------
(* Refinement: under unique keys the processes implement MatrixService.    *)

stageBar ==
  [r \in Request |->
     IF answer[r] # None THEN "replied"
     ELSE IF pc[r]["P3"] \in {"log", "write", "retire", "gone"} THEN "dropped"
     ELSE IF \A i \in Method : pc[r][i] = "done" THEN "solved"
     ELSE IF pc[r]["P1"] = "linger" THEN "generated"
     ELSE "received"]

replyBar ==
  [r \in Request |->
     IF answer[r] = None THEN None
     ELSE [mat |-> answer[r].data.mat, sol |-> answer[r].data.sol]]

Service == INSTANCE MatrixService WITH stage <- stageBar, reply <- replyBar

\* Each request goes through the stages of MatrixService in order and its
\* reply is what MatrixService says.
ImplementsService == Service!Spec
===========================================================================
