------------------------- MODULE AcceptLoop_proofs -------------------------
(***************************************************************************)
(* Proofs about AcceptLoop, for any finite number of clients, any size of  *)
(* the pool and any number of restarts: its invariants, that a request     *)
(* waits for ever only after a SIGINT, at a mutex2 that it left at 0 or at *)
(* a port that it left to forked processes, and that nothing goes back.    *)
(***************************************************************************)
EXTENDS AcceptLoop, FiniteSetTheorems, TLAPS

\* The threads of the present run of the server.
Running == {c \in Client : pc[c] \notin {"none", "left", "gone"}}

\* mutex2 exists while the server runs, and nobody holds it when it does not.
Held ==
  /\ OneHolder
  /\ main # "down" => sem # None
  /\ main = "down" => Running = {}

\* What a holder is about to store was computed from the present counter.
Exact ==
  /\ CountExact
  /\ \A c \in Client : pc[c] \in {"store+", "store-"} => reg[c] = counter

\* Each thread of the run has an element of inf of its own, below total.
Slots ==
  /\ total = Cardinality(Running)
  /\ \A c \in Running : slot[c] \in 0 .. (total - 1) /\ inf[slot[c]] = c
  /\ main = "recv" => cur \in Client /\ pc[cur] = "none"
  /\ main # "recv" => cur = None

IInv == TypeOK /\ Held /\ Exact /\ Slots /\ OwnJob

LEMMA InitIInv == Init => IInv
<1> SUFFICES ASSUME Init PROVE IInv
  OBVIOUS
<1> USE PoolAssumption DEF Init
<1>1. Running = {} /\ CountedIn = {}
  BY DEF Running, CountedIn
<1>2. IsFiniteSet(Client) /\ Cardinality(Client) \in Nat /\ Cardinality({}) = 0
  BY FS_CardinalityType, FS_EmptySet
<1>3. TypeOK
  BY <1>2 DEF TypeOK, Slot
<1>4. Held
  BY <1>1 DEF Held, OneHolder, Holds
<1>5. Exact /\ Slots
  BY <1>1, <1>2 DEF Exact, CountExact, Slots
<1>6. OwnJob
  BY DEF OwnJob, Forked
<1> QED
  BY <1>3, <1>4, <1>5, <1>6 DEF IInv

LEMMA Finite ==
  ASSUME TypeOK
  PROVE  /\ IsFiniteSet(Client) /\ Cardinality(Client) \in Nat
         /\ IsFiniteSet(Running) /\ Cardinality(Running) <= Cardinality(Client)
         /\ IsFiniteSet(CountedIn) /\ Cardinality(CountedIn) \in Nat
<1>1. Running \in SUBSET Client /\ CountedIn \in SUBSET Client
  BY DEF Running, CountedIn
<1> QED
  BY <1>1, PoolAssumption, FS_Subset, FS_CardinalityType

\* There is an element of inf for every client that has no thread yet.
LEMMA RoomInInf ==
  ASSUME IInv, NEW c \in Client, pc[c] = "none"
  PROVE  total + 1 <= Cardinality(Client) /\ total \in Slot /\ total + 1 \in Slot
<1>1. /\ TypeOK /\ total = Cardinality(Running) /\ total \in Nat
      /\ c \notin Running /\ Running \cup {c} \in SUBSET Client
  BY DEF IInv, Slots, Running, TypeOK
<1>2. Cardinality(Running \cup {c}) = total + 1
  BY <1>1, Finite, FS_AddElement
<1>3. Cardinality(Running \cup {c}) <= Cardinality(Client)
  BY <1>1, Finite, FS_Subset
<1> QED
  BY <1>1, <1>2, <1>3, Finite DEF Slot

(* What a step of one thread does to its program counter.                  *)
LEMMA GotoPc ==
  ASSUME TypeOK, NEW c \in Client, NEW from, NEW to, Goto(c, from, to)
  PROVE  /\ pc[c] = from
         /\ \A d \in Client : pc'[d] = IF d = c THEN to ELSE pc[d]
  BY DEF TypeOK, Goto

\* Steps that move no thread in or out of the counted ones, of the running
\* ones or of the holders, and leave the counter and inf alone.
LEMMA StepWait ==
  ASSUME IInv, NEW c \in Client, Wait(c)
  PROVE  IInv'
<1> USE DEF IInv
<1>1. PICK from \in {"arrive", "depart"}, to \in {"load+", "load-"} :
        /\ from = "arrive" <=> to = "load+"
        /\ pc[c] = from
        /\ \A d \in Client : pc'[d] = IF d = c THEN to ELSE pc[d]
  BY GotoPc DEF Wait
<1>2. UNCHANGED <<server, counter, slot, job, reg, cl, dup>> /\ sem' = sem - 1 /\ sem > 0
  BY DEF Wait, Free
<1>3. sem = 1
  BY <1>2, PoolAssumption DEF TypeOK, Held, Running, Wait, Goto
<1>4. TypeOK'
  BY <1>2, <1>3, PoolAssumption DEF TypeOK, server, Slot, Wait, Goto
<1>5. Running' = Running /\ CountedIn' = CountedIn
  BY <1>1 DEF Running, CountedIn
<1>6. Held'
  BY <1>1, <1>2, <1>3, <1>5, PoolAssumption DEF Held, OneHolder, Holds, server
<1>7. Exact' /\ Slots'
  BY <1>1, <1>2, <1>5 DEF Exact, CountExact, Slots, server, Running
<1>8. OwnJob'
  BY <1>1, <1>2 DEF OwnJob, Forked
<1> QED
  BY <1>4, <1>6, <1>7, <1>8

LEMMA StepLoad ==
  ASSUME IInv, NEW c \in Client, Load(c)
  PROVE  IInv'
<1> USE DEF IInv
<1>1. PICK from \in {"load+", "load-"}, to \in {"store+", "store-"} :
        /\ from = "load+" <=> to = "store+"
        /\ pc[c] = from
        /\ \A d \in Client : pc'[d] = IF d = c THEN to ELSE pc[d]
  BY GotoPc DEF Load
<1>2. /\ UNCHANGED <<server, counter, sem, slot, job, cl, dup>>
      /\ reg' = [reg EXCEPT ![c] = counter]
  BY DEF Load
<1>3. TypeOK'
  <2>1. pc' = [pc EXCEPT ![c] = "store+"] \/ pc' = [pc EXCEPT ![c] = "store-"]
    BY DEF Load, Goto
  <2> QED
    BY <1>2, <2>1 DEF TypeOK, server, Slot
<1>4. Running' = Running /\ CountedIn' = CountedIn
  BY <1>1 DEF Running, CountedIn
<1>5. Held'
  BY <1>1, <1>2, <1>4 DEF Held, OneHolder, Holds, server
<1>6. Exact'
  BY <1>1, <1>2, <1>4 DEF Exact, CountExact, TypeOK
<1>7. Slots' /\ OwnJob'
  BY <1>1, <1>2, <1>4 DEF Slots, server, Running, OwnJob, Forked
<1> QED
  BY <1>3, <1>5, <1>6, <1>7

LEMMA StepCountIn ==
  ASSUME IInv, NEW c \in Client, CountIn(c)
  PROVE  IInv'
<1> USE DEF IInv
<1>1. /\ pc[c] = "store+"
      /\ \A d \in Client : pc'[d] = IF d = c THEN "copy" ELSE pc[d]
  BY GotoPc DEF CountIn
<1>2. UNCHANGED <<server, slot, job, reg, cl, dup>>
  BY DEF CountIn
<1>3. sem = 0 /\ sem' = 1 /\ \A d \in Client : d # c => ~Holds(d)
  BY <1>1 DEF Held, OneHolder, Holds, CountIn, Posted
<1>4. counter' = counter + 1
  BY <1>1 DEF CountIn, Counted, Exact
<1>5. TypeOK'
  BY <1>2, <1>3, <1>4 DEF TypeOK, server, Slot, CountIn, Goto
<1>6. Running' = Running /\ CountedIn' = CountedIn \cup {c} /\ c \notin CountedIn
  BY <1>1 DEF Running, CountedIn
<1>7. Held'
  BY <1>1, <1>2, <1>3, <1>6, PoolAssumption DEF Held, OneHolder, Holds, server
<1>8. CountExact'
  BY <1>4, <1>6, Finite, FS_AddElement DEF Exact, CountExact
<1>9. Exact'
  BY <1>1, <1>3, <1>8 DEF Exact, Holds
<1>10. Slots' /\ OwnJob'
  BY <1>1, <1>2, <1>6 DEF Slots, server, Running, OwnJob, Forked
<1> QED
  BY <1>5, <1>7, <1>9, <1>10

LEMMA StepCountOut ==
  ASSUME IInv, NEW c \in Client, CountOut(c)
  PROVE  IInv'
<1> USE DEF IInv
<1>1. /\ pc[c] = "store-"
      /\ \A d \in Client : pc'[d] = IF d = c THEN "wait" ELSE pc[d]
  BY GotoPc DEF CountOut
<1>2. UNCHANGED <<server, slot, job, reg, cl, dup>>
  BY DEF CountOut
<1>3. sem = 0 /\ sem' = 1 /\ \A d \in Client : d # c => ~Holds(d)
  BY <1>1 DEF Held, OneHolder, Holds, CountOut, Posted
<1>4. counter' = counter - 1
  BY <1>1 DEF CountOut, Uncounted, Exact
<1>5. TypeOK'
  BY <1>2, <1>3, <1>4 DEF TypeOK, server, Slot, CountOut, Goto
<1>6. Running' = Running /\ CountedIn' = CountedIn \ {c} /\ c \in CountedIn
  BY <1>1 DEF Running, CountedIn
<1>7. Held'
  BY <1>1, <1>2, <1>3, <1>6, PoolAssumption DEF Held, OneHolder, Holds, server
<1>8. CountExact'
  BY <1>4, <1>6, Finite, FS_RemoveElement DEF Exact, CountExact
<1>9. Exact'
  BY <1>1, <1>3, <1>8 DEF Exact, Holds
<1>10. Slots' /\ OwnJob'
  BY <1>1, <1>2, <1>6 DEF Slots, server, Running, OwnJob, Forked
<1> QED
  BY <1>5, <1>7, <1>9, <1>10

LEMMA StepCopy ==
  ASSUME IInv, NEW c \in Client, Copy(c)
  PROVE  IInv'
<1> USE DEF IInv
<1>1. /\ pc[c] = "copy"
      /\ \A d \in Client : pc'[d] = IF d = c THEN "fork" ELSE pc[d]
  BY GotoPc DEF Copy
<1>2. UNCHANGED <<server, counter, sem, slot, reg, cl, dup>>
  BY DEF Copy
<1>3. job' = [job EXCEPT ![c] = c]
  BY <1>1 DEF Copy, Slots, Running
<1>4. TypeOK'
  BY <1>2, <1>3 DEF TypeOK, server, Slot, Copy, Goto
<1>5. Running' = Running /\ CountedIn' = CountedIn
  BY <1>1 DEF Running, CountedIn
<1>6. Held' /\ Exact'
  BY <1>1, <1>2, <1>5 DEF Held, OneHolder, Holds, server, Exact, CountExact
<1>7. Slots'
  BY <1>1, <1>2, <1>5 DEF Slots, server, Running
<1>8. OwnJob'
  BY <1>1, <1>3 DEF OwnJob, Forked, TypeOK
<1> QED
  BY <1>4, <1>6, <1>7, <1>8

LEMMA StepFork ==
  ASSUME IInv, NEW c \in Client, Fork(c)
  PROVE  IInv'
<1> USE DEF IInv
<1>1. /\ pc[c] = "fork"
      /\ \A d \in Client : pc'[d] = IF d = c THEN "depart" ELSE pc[d]
  BY GotoPc DEF Fork
<1>2. /\ UNCHANGED <<server, counter, sem, slot, job, reg, cl>>
      /\ dup' = dup \cup {d \in Client : d = cur \/ pc[d] # "none"}
  BY DEF Fork
<1>3. TypeOK'
  BY <1>2 DEF TypeOK, server, Slot, Fork, Goto
<1>4. Running' = Running /\ CountedIn' = CountedIn
  BY <1>1 DEF Running, CountedIn
<1>5. Held' /\ Exact'
  BY <1>1, <1>2, <1>4 DEF Held, OneHolder, Holds, server, Exact, CountExact
<1>6. Slots'
  BY <1>1, <1>2, <1>4 DEF Slots, server, Running
<1>7. OwnJob'
  BY <1>1, <1>2 DEF OwnJob, Forked
<1> QED
  BY <1>3, <1>5, <1>6, <1>7

\* Clients change nothing but their own state.
LEMMA StepClient ==
  ASSUME IInv, NEW c \in Client, Connect(c) \/ SendOrClose(c) \/ GetAnswer(c)
  PROVE  IInv'
<1> USE DEF IInv
<1>1. UNCHANGED <<server, counter, sem, pc, slot, job, reg, dup>>
  BY DEF Connect, SendOrClose, GetAnswer
<1>2. TypeOK'
  BY <1>1 DEF TypeOK, server, Slot, Connect, SendOrClose, GetAnswer
<1>3. Running' = Running /\ CountedIn' = CountedIn
  BY <1>1 DEF Running, CountedIn
<1>4. Held' /\ Exact' /\ Slots' /\ OwnJob'
  BY <1>1, <1>3 DEF Held, OneHolder, Holds, server, Exact, CountExact, Slots, Running,
     OwnJob, Forked
<1> QED
  BY <1>2, <1>4

\* main starts, or passes the condition of its loop.
LEMMA StepStartCheck ==
  ASSUME IInv, Start \/ BindFails \/ Check
  PROVE  IInv'
<1> USE DEF IInv
<1>1. UNCHANGED <<cur, total, inf, counter, pc, slot, job, reg, cl, dup>>
  BY DEF Start, BindFails, Check
<1>2. \/ main = "down" /\ main' \in {"down", "check"} /\ sem' = Opened
      \/ main = "check" /\ main' = "accept" /\ sem' = sem
  BY DEF Start, BindFails, Check
<1>3. TypeOK'
  BY <1>1, <1>2, PoolAssumption DEF TypeOK, Slot, Start, BindFails, Check, Opened
<1>4. Running' = Running /\ CountedIn' = CountedIn
  BY <1>1 DEF Running, CountedIn
<1>5. main = "down" => \A c \in Client : ~Holds(c)
  BY DEF Held, Running, Holds
<1>6. Held'
  BY <1>1, <1>2, <1>4, <1>5, PoolAssumption DEF Held, OneHolder, Holds, Opened
<1>7. Exact' /\ Slots' /\ OwnJob'
  BY <1>1, <1>2, <1>4 DEF Exact, CountExact, Slots, Running, OwnJob, Forked
<1> QED
  BY <1>3, <1>6, <1>7

LEMMA StepAccept ==
  ASSUME IInv, NEW c \in Client, Accept(c)
  PROVE  IInv'
<1> USE DEF IInv
<1>1. /\ UNCHANGED <<run, total, counter, sem, pc, slot, job, reg, cl, dup>>
      /\ main = "accept" /\ main' = "recv" /\ cur' = c /\ pc[c] = "none"
      /\ inf' = [inf EXCEPT ![total] = None]
  BY DEF Accept
<1>2. TypeOK'
  BY <1>1 DEF TypeOK, Slot
<1>3. Running' = Running /\ CountedIn' = CountedIn
  BY <1>1 DEF Running, CountedIn
<1>4. Held' /\ Exact' /\ OwnJob'
  BY <1>1, <1>3 DEF Held, OneHolder, Holds, Exact, CountExact, OwnJob, Forked
<1>5. \A d \in Running : inf'[slot[d]] = d
  BY <1>1 DEF Slots, TypeOK, Running
<1>6. Slots'
  BY <1>1, <1>3, <1>5 DEF Slots
<1> QED
  BY <1>2, <1>4, <1>6

LEMMA StepReceive ==
  ASSUME IInv, Receive
  PROVE  IInv'
<1> USE DEF IInv
<1>1. cur \in Client /\ pc[cur] = "none" /\ main = "recv" /\ main' = "check"
  BY DEF Receive, Slots
<1>2. /\ UNCHANGED <<run, counter, sem, job, reg, cl, dup>>
      /\ inf' = [inf EXCEPT ![total] = cur] /\ slot' = [slot EXCEPT ![cur] = total]
      /\ pc' = [pc EXCEPT ![cur] = "arrive"] /\ total' = total + 1 /\ cur' = None
  BY DEF Receive, NextSlot
<1>3. total \in Slot /\ total + 1 \in Slot /\ total \in Nat
  BY <1>1, RoomInInf DEF TypeOK
<1>4. TypeOK'
  BY <1>1, <1>2, <1>3 DEF TypeOK, Slot
<1>5. \A d \in Client : pc'[d] = IF d = cur THEN "arrive" ELSE pc[d]
  BY <1>2 DEF TypeOK
<1>6. Running' = Running \cup {cur} /\ cur \notin Running /\ CountedIn' = CountedIn
  BY <1>1, <1>5 DEF Running, CountedIn
<1>7. Held' /\ Exact' /\ OwnJob'
  BY <1>1, <1>2, <1>5, <1>6 DEF Held, OneHolder, Holds, Exact, CountExact, OwnJob, Forked
<1>8. total' = Cardinality(Running')
  BY <1>2, <1>6, Finite, FS_AddElement DEF Slots
<1>9. \A d \in Running' : slot'[d] \in 0 .. (total' - 1) /\ inf'[slot'[d]] = d
  <2>1. slot'[cur] = total /\ inf'[total] = cur
    BY <1>1, <1>2, <1>3 DEF TypeOK
  <2>2. ASSUME NEW d \in Running, d # cur
        PROVE  /\ slot'[d] = slot[d] /\ slot[d] \in 0 .. (total - 1)
               /\ inf'[slot[d]] = d
    BY <1>2, <1>3, <2>2 DEF TypeOK, Slots, Running
  <2> QED
    BY <1>2, <1>3, <1>6, <2>1, <2>2
<1>10. Slots'
  BY <1>1, <1>2, <1>8, <1>9 DEF Slots
<1> QED
  BY <1>4, <1>7, <1>10

LEMMA StepReceiveFails ==
  ASSUME IInv, ReceiveFails
  PROVE  IInv'
<1> USE DEF IInv
<1>1. /\ cur \in Client /\ pc[cur] = "none" /\ main = "recv" /\ main' = "check"
      /\ UNCHANGED <<run, total, inf, counter, sem, slot, job, reg, cl, dup>>
      /\ pc' = [pc EXCEPT ![cur] = "gone"] /\ cur' = None
  BY DEF ReceiveFails, Slots
<1>2. TypeOK'
  BY <1>1 DEF TypeOK, Slot
<1>3. \A d \in Client : pc'[d] = IF d = cur THEN "gone" ELSE pc[d]
  BY <1>1 DEF TypeOK
<1>4. Running' = Running /\ CountedIn' = CountedIn
  BY <1>1, <1>3 DEF Running, CountedIn
<1>5. Held' /\ Exact' /\ OwnJob'
  BY <1>1, <1>3, <1>4 DEF Held, OneHolder, Holds, Exact, CountExact, OwnJob, Forked
<1>6. Slots'
  BY <1>1, <1>4 DEF Slots
<1> QED
  BY <1>2, <1>5, <1>6

LEMMA StepInterrupt ==
  ASSUME IInv, Interrupt
  PROVE  IInv'
<1> USE DEF IInv
<1>1. /\ main' = "down" /\ cur' = None /\ total' = 0 /\ counter' = 0
      /\ UNCHANGED <<run, sem, slot, job, reg, dup>>
  BY DEF Interrupt
<1>2. \A c \in Client : /\ pc'[c] \in {"left", "none", "gone"}
                        /\ pc'[c] = "left" => Forked(c)
  BY DEF Interrupt
<1>3. TypeOK'
  BY <1>1 DEF TypeOK, Slot, Interrupt
<1>4. Running' = {} /\ CountedIn' = {} /\ Cardinality({}) = 0
  BY <1>2, FS_EmptySet DEF Running, CountedIn
<1>5. Held' /\ Exact'
  BY <1>1, <1>2, <1>4 DEF Held, OneHolder, Holds, Exact, CountExact
<1>6. Slots' /\ OwnJob'
  BY <1>1, <1>2, <1>4 DEF Slots, OwnJob, Forked
<1> QED
  BY <1>3, <1>5, <1>6
-----------------------------------------------------------------------------
LEMMA StepIInv == IInv /\ [Next]_vars => IInv'
<1> SUFFICES ASSUME IInv, [Next]_vars PROVE IInv'
  OBVIOUS
<1>1. CASE UNCHANGED vars
  BY <1>1 DEF vars, server, IInv, TypeOK, Slot, Held, OneHolder, Holds, Exact, CountExact,
     CountedIn, Slots, Running, OwnJob, Forked
<1>2. ASSUME NEW c \in Client, MainThread(c)
      PROVE  IInv'
  BY <1>2, StepWait, StepLoad, StepCountIn, StepCopy, StepFork, StepCountOut DEF MainThread
<1>3. CASE Main
  BY <1>3, StepStartCheck, StepAccept, StepReceive, StepReceiveFails DEF Main
<1> QED
  BY <1>1, <1>2, <1>3, StepStartCheck, StepInterrupt, StepClient DEF Next

\* The invariant that the theorems below follow from.
THEOREM Invariance == Spec => []IInv
  BY InitIInv, StepIInv, PTL DEF Spec

\* The loop of main and the mainThreads keep every variable in its range; in
\* particular main never runs past the end of inf, given an element per client.
THEOREM TypeCorrect == Spec => []TypeOK
<1>1. IInv => TypeOK
  BY DEF IInv
<1> QED
  BY <1>1, Invariance, PTL

\* mutex2 excludes, across restarts that leave it in any state.
THEOREM OneHolderAlways == Spec => []OneHolder
<1>1. IInv => OneHolder
  BY DEF IInv, Held
<1> QED
  BY <1>1, Invariance, PTL

\* The ++ and -- of any number of mainThreads are never lost.
THEOREM CountIsExact == Spec => []CountExact
<1>1. IInv => CountExact
  BY DEF IInv, Exact
<1> QED
  BY <1>1, Invariance, PTL

\* Every mainThread works for the client whose connection was accepted for it.
THEOREM JobIsOwn == Spec => []OwnJob
<1>1. IInv => OwnJob
  BY DEF IInv
<1> QED
  BY <1>1, Invariance, PTL
---------------------------------------------------------------------------
(* Nobody who has sent a request waits for ever *)

Connected == {"connected", "sent", "closed"}

\* The processes of a request have its connection, no connection is inherited before one was
\* forked, and there is no server while processes of an earlier one hold the port.
Inherits ==
  /\ \A c \in Client : Forked(c) => c \in dup
  /\ dup # {} => \E c \in Client : Forked(c)
  /\ PortHeld => main = "down"

\* Without a server nobody is connected unless the port is held. A thread that is gone had
\* its connection closed or lost, unless the port is held, an answer comes from processes
\* that were forked, and main receives of an open connection.
WaitInv ==
  /\ Inherits
  /\ main = "down" => \A c \in Client : cl[c] \in Connected => PortHeld
  /\ \A c \in Client : /\ pc[c] = "gone" => cl[c] \in {"closed", "lost"} \/ PortHeld
                       /\ cl[c] = "idle" => pc[c] = "none"
                       /\ cl[c] = "connected" => pc[c] = "none" \/ PortHeld
                       /\ cl[c] = "answered" => Forked(c)
  /\ main = "recv" => cl[cur] \in Connected

\* What a mainThread and the loop of main wait for is there.
ThreadReady(c) == (pc[c] \in {"arrive", "depart"} /\ Free) \/ Holds(c) \/ pc[c] \in {"copy", "fork"}
MainReady ==
  \/ main = "check" /\ (PoolSize = 0 \/ counter < PoolSize)
  \/ main = "accept" /\ \E c \in Client : cl[c] \in Connected /\ pc[c] = "none"
  \/ main = "recv" /\ cl[cur] \in {"sent", "closed"}

\* Until a request that was sent has its processes main can go on, or a mainThread, or a
\* client that main waits for has yet to send: or SIGINT has orphaned mutex2, or has left the
\* port to processes that were forked.
MovesOn ==
  \A c \in Client : cl[c] = "sent" =>
    \/ Forked(c) \/ Orphaned \/ PortHeld
    \/ MainReady \/ \E d \in Client : ThreadReady(d) \/ cl[d] = "connected"

LEMMA ForkedMeans ==
  /\ \A c \in Client : pc[c] = "left" => Forked(c)
  /\ PortHeld => \E c \in Client : Forked(c)
BY DEF Forked, PortHeld

LEMMA ThreadWaits ==
  ASSUME IInv, WaitInv, NEW c \in Client, MainThread(c)
  PROVE  WaitInv'
<1>1. /\ UNCHANGED <<main, cur, cl>> /\ \A d \in Client : d # c => pc'[d] = pc[d]
      /\ pc[c] \notin {"none", "gone", "left"} /\ pc'[c] \notin {"gone", "left"}
      /\ (Forked(c) => Forked(c)')
  BY DEF MainThread, Wait, Load, CountIn, CountOut, Copy, Fork, Goto, Forked, server, IInv, TypeOK
<1>2. \A d \in Client : d # c => Forked(d)' = Forked(d)
  BY <1>1 DEF Forked
<1>3. PortHeld' = PortHeld
  BY <1>1 DEF PortHeld
<1>4. Inherits'
  <2>1. CASE Fork(c)
    <3>1. pc[c] = "fork" /\ pc'[c] = "depart"
      BY <2>1, GotoPc DEF IInv, Fork
    <3>2. Forked(c)'
      BY <3>1 DEF Forked
    <3>3. dup \subseteq dup' /\ c \in dup'
      BY <2>1, <3>1 DEF Fork
    <3>4. \A d \in Client : Forked(d)' => d \in dup'
      BY <1>2, <3>3 DEF WaitInv, Inherits
    <3> QED
      BY <1>1, <1>3, <3>2, <3>4 DEF WaitInv, Inherits
  <2>2. CASE ~Fork(c)
    <3>1. dup' = dup
      BY <2>2 DEF MainThread, Wait, Load, CountIn, CountOut, Copy
    <3>2. Forked(c)' => Forked(c)
      BY <2>2 DEF MainThread, Wait, Load, CountIn, CountOut, Copy, Goto, Forked, IInv, TypeOK
    <3> QED
      BY <1>1, <1>2, <1>3, <3>1, <3>2 DEF WaitInv, Inherits
  <2> QED
    BY <2>1, <2>2
<1>5. cl[c] # "idle" /\ (cl[c] = "connected" => PortHeld)
  BY <1>1 DEF WaitInv
<1> QED
  BY <1>1, <1>2, <1>3, <1>4, <1>5 DEF WaitInv

LEMMA ClientWaits ==
  ASSUME IInv, WaitInv, NEW c \in Client, Connect(c) \/ SendOrClose(c) \/ GetAnswer(c)
  PROVE  WaitInv'
<1>1. TypeOK
  BY DEF IInv
<1>2. UNCHANGED <<main, cur, pc, dup>> /\ \A d \in Client : d # c => cl'[d] = cl[d]
  BY <1>1 DEF Connect, SendOrClose, GetAnswer, server, TypeOK
<1>3. /\ \A d \in Client : Forked(d)' = Forked(d)
      /\ PortHeld' = PortHeld /\ Inherits'
  BY <1>2 DEF Forked, PortHeld, WaitInv, Inherits
<1>4. CASE Connect(c)
  <2>1. main # "down" \/ PortHeld
    BY <1>4 DEF Connect
  <2>2. cl[c] = "idle" /\ cl'[c] = "connected"
    BY <1>1, <1>4 DEF Connect, TypeOK
  <2>3. pc[c] = "none"
    BY <2>2 DEF WaitInv
  <2> QED
    BY <1>2, <1>3, <2>1, <2>2, <2>3 DEF WaitInv, Connected, IInv, Slots
<1>5. CASE SendOrClose(c)
  <2>1. cl[c] = "connected" /\ cl'[c] \in {"sent", "closed"}
    BY <1>1, <1>5 DEF SendOrClose, TypeOK
  <2> QED
    BY <1>2, <1>3, <2>1 DEF WaitInv, Connected, IInv, Slots
<1>6. CASE GetAnswer(c)
  <2>1. Forked(c) /\ cl[c] = "sent" /\ cl'[c] = "answered"
    BY <1>1, <1>6 DEF GetAnswer, TypeOK
  <2> QED
    BY <1>2, <1>3, <2>1 DEF WaitInv, Connected, Forked, IInv, Slots
<1> QED
  BY <1>4, <1>5, <1>6

LEMMA MainWaits ==
  ASSUME IInv, WaitInv, Start \/ BindFails \/ Main
  PROVE  WaitInv'
<1>1. TypeOK
  BY DEF IInv
<1>2. ASSUME UNCHANGED <<cur, pc, cl, dup>>, main' # "recv",
             main' = "down" => main = "down", PortHeld => main' = "down"
      PROVE  WaitInv'
  BY <1>2 DEF WaitInv, Inherits, Forked, PortHeld
<1>3. CASE Start \/ BindFails \/ Check
  BY <1>2, <1>3 DEF Start, BindFails, Check, WaitInv, Inherits
<1>4. ASSUME NEW c \in Client, Accept(c) PROVE WaitInv'
  BY <1>4 DEF Accept, WaitInv, Inherits, PortHeld, Connected, Forked
<1>5. ASSUME Receive \/ ReceiveFails PROVE WaitInv'
  <2>1. /\ cur \in Client /\ cl[cur] \in {"sent", "closed"} /\ main' = "check" /\ cl' = cl
        /\ main = "recv" /\ pc[cur] = "none" /\ pc'[cur] \in {"arrive", "gone"} /\ dup' = dup
        /\ pc'[cur] = "gone" => cl[cur] = "closed"
        /\ \A d \in Client : d # cur => pc'[d] = pc[d]
    BY <1>1, <1>5 DEF Receive, ReceiveFails, IInv, Slots, TypeOK
  <2>2. \A d \in Client : Forked(d)' = Forked(d)
    BY <2>1 DEF Forked
  <2>3. ~PortHeld /\ ~PortHeld'
    BY <2>1 DEF WaitInv, Inherits, PortHeld
  <2>4. Inherits'
    BY <2>1, <2>2, <2>3 DEF WaitInv, Inherits
  <2> QED
    BY <2>1, <2>2, <2>3, <2>4 DEF WaitInv
<1> QED
  BY <1>3, <1>4, <1>5 DEF Main

\* SIGINT leaves a connection open only if there is a process that has it, and then there is
\* one that has the port.
LEMMA InterruptWaits ==
  ASSUME IInv, WaitInv, Interrupt
  PROVE  WaitInv'
<1>1. main' = "down" /\ main # "down" /\ dup' = dup
  BY DEF Interrupt
<1>2. ASSUME NEW c \in Client
      PROVE  /\ cl'[c] = IF cl[c] = "idle" \/ Kept(c) THEN cl[c] ELSE "lost"
             /\ pc'[c] = IF Forked(c) THEN "left" ELSE IF Waiting(c) THEN "none" ELSE "gone"
  BY DEF Interrupt
<1>3. \A c \in Client : Forked(c) <=> Forked(c)'
  BY <1>2 DEF Forked
<1>4. \A c \in Client : Forked(c) => Kept(c) /\ ~Waiting(c) /\ PortHeld'
  BY <1>2 DEF WaitInv, Inherits, Kept, Waiting, Forked, PortHeld
<1>5. \A c \in Client : Kept(c) => PortHeld'
  BY <1>4 DEF WaitInv, Inherits, Kept
<1>6. Inherits'
  BY <1>1, <1>3 DEF WaitInv, Inherits
<1>7. ASSUME NEW c \in Client
      PROVE  /\ cl'[c] \in Connected => PortHeld'
             /\ pc'[c] = "gone" => cl'[c] \in {"closed", "lost"} \/ PortHeld'
             /\ cl'[c] = "idle" => pc'[c] = "none"
             /\ cl'[c] = "connected" => pc'[c] = "none" \/ PortHeld'
             /\ cl'[c] = "answered" => Forked(c)'
  <2>1. cl'[c] \in Connected => PortHeld'
    BY <1>2, <1>5 DEF Connected
  <2>2. cl[c] = "idle" => Waiting(c) /\ ~Forked(c)
    <3>1. cl[c] = "idle" => pc[c] = "none"
      BY DEF WaitInv
    <3>2. ASSUME cl[c] = "idle" PROVE c # cur
      <4>1. CASE main = "recv"
        BY <3>2, <4>1 DEF WaitInv, Connected
      <4>2. CASE main # "recv"
        BY <4>2, PoolAssumption DEF IInv, Slots
      <4> QED
        BY <4>1, <4>2
    <3> QED
      BY <3>1, <3>2 DEF Waiting, Forked
  <2>3. cl'[c] \in {cl[c], "lost"}
    BY <1>2
  <2>4. cl'[c] = "idle" => pc'[c] = "none"
    BY <1>2, <2>2, <2>3
  <2>5. pc'[c] = "gone" => cl'[c] \in {"closed", "lost"} \/ PortHeld'
    BY <1>2, <1>5, <2>2
  <2>6. cl'[c] = "answered" => Forked(c)'
    BY <1>3, <2>3 DEF WaitInv
  <2> QED
    BY <2>1, <2>4, <2>5, <2>6 DEF Connected
<1> QED
  BY <1>1, <1>6, <1>7 DEF WaitInv

\* The clients that main and the threads know of are connected.
THEOREM WaitInvariance == Spec => []WaitInv
<1>1. Init => WaitInv
  BY DEF Init, WaitInv, Inherits, PortHeld, Forked, Connected
<1>2. ASSUME WaitInv, UNCHANGED vars PROVE WaitInv'
  BY <1>2 DEF vars, server, WaitInv, Inherits, PortHeld, Forked
<1>3. IInv /\ WaitInv /\ [Next]_vars => WaitInv'
  BY <1>2, ThreadWaits, ClientWaits, MainWaits, InterruptWaits DEF Next
<1> QED
  BY <1>1, <1>3, Invariance, PTL DEF Spec

\* If no thread can go on none is counted in, so that the pool has room.
LEMMA InvMovesOn == IInv /\ WaitInv => MovesOn
<1> SUFFICES ASSUME IInv, WaitInv, NEW c \in Client, cl[c] = "sent", ~Forked(c), ~Orphaned, ~PortHeld,
                    ~MainReady, \A d \in Client : ~ThreadReady(d) /\ cl[d] # "connected"
             PROVE  FALSE
  BY DEF MovesOn
<1>1. TypeOK
  BY DEF IInv
<1>2. main # "down"
  BY DEF WaitInv, Connected
<1>3. sem = 1
  <2>1. sem # None /\ sem # 0
    BY <1>2 DEF IInv, Held, Orphaned, ThreadReady
  <2> QED
    BY <1>1, <2>1 DEF TypeOK
<1>4. \A d \in Client : pc[d] \in {"none", "wait", "left", "gone"}
  BY <1>1, <1>3 DEF TypeOK, ThreadReady, Holds, Free
<1>5. pc[c] = "none"
  BY <1>4 DEF WaitInv, Forked
<1>6. CountedIn = {}
  BY <1>4 DEF CountedIn
<1>7. counter = 0
  BY <1>6, FS_EmptySet DEF IInv, Exact, CountExact
<1>8. main # "check"
  BY <1>7, PoolAssumption DEF MainReady
<1>9. main # "accept"
  BY <1>5 DEF MainReady, Connected
<1>10. main # "recv"
  BY DEF MainReady, WaitInv, Connected, IInv, Slots
<1> QED
  BY <1>1, <1>2, <1>8, <1>9, <1>10 DEF TypeOK

\* However small the pool is and however often the server was started, a request that was
\* sent gets its processes or somebody it waits for can go on: a full pool always empties. What
\* stops it is a SIGINT only, that left mutex2 at 0 or the port to processes that were forked.
THEOREM NeverStuck == Spec => []MovesOn
BY Invariance, WaitInvariance, InvMovesOn, PTL

\* How far the mainThread of a client is and what became of its connection, and how much of
\* its turn main has before it.
Place(p) ==
  CASE p = "none" -> 0 [] p = "arrive" -> 1 [] p = "load+" -> 2 [] p = "store+" -> 3
    [] p = "copy" -> 4 [] p = "fork" -> 5 [] p = "depart" -> 6 [] p = "load-" -> 7
    [] p = "store-" -> 8 [] p = "wait" -> 9 [] p \in {"left", "gone"} -> 10
Stage(s) ==
  CASE s = "idle" -> 0 [] s = "connected" -> 1 [] s \in {"sent", "closed"} -> 2
    [] s \in {"answered", "lost"} -> 3
Before(m) == CASE m = "check" -> 3 [] m = "accept" -> 2 [] m = "recv" -> 1 [] m = "down" -> 0

ThreadLater(c) == Place(pc[c]) < Place(pc'[c])
ConnLater(c) == Stage(cl[c]) < Stage(cl'[c])
Onwards ==
  /\ \A c \in Client : (ThreadLater(c) \/ pc'[c] = pc[c]) /\ (ConnLater(c) \/ cl'[c] = cl[c])
  /\ run' >= run
  /\ \/ \E c \in Client : ThreadLater(c) \/ ConnLater(c)
     \/ run' > run \/ Before(main') < Before(main)

LEMMA GotoLater ==
  ASSUME TypeOK, NEW c \in Client, NEW from, NEW to, Goto(c, from, to), Place(from) < Place(to)
  PROVE  ThreadLater(c) /\ \A d \in Client : ThreadLater(d) \/ pc'[d] = pc[d]
<1>1. pc[c] = from /\ pc'[c] = to /\ \A d \in Client : d # c => pc'[d] = pc[d]
  BY DEF TypeOK, Goto
<1>2. ThreadLater(c)
  BY <1>1 DEF ThreadLater
<1> QED
  BY <1>1, <1>2

LEMMA ThreadOnwards ==
  ASSUME TypeOK, NEW c \in Client, MainThread(c)
  PROVE  Onwards
<1>1. PICK from, to : Goto(c, from, to) /\ Place(from) < Place(to)
  BY DEF MainThread, Wait, Load, CountIn, CountOut, Copy, Fork, Place
<1>2. UNCHANGED <<run, cl>> /\ run \in Nat
  BY DEF MainThread, Wait, Load, CountIn, CountOut, Copy, Fork, server, TypeOK
<1> QED
  BY <1>1, <1>2, GotoLater DEF Onwards

LEMMA ClientOnwards ==
  ASSUME TypeOK, NEW c \in Client, Connect(c) \/ SendOrClose(c) \/ GetAnswer(c)
  PROVE  Onwards
<1>1. UNCHANGED <<run, pc>> /\ run \in Nat /\ \A d \in Client : d # c => cl'[d] = cl[d]
  BY DEF Connect, SendOrClose, GetAnswer, server, TypeOK
<1>2. ConnLater(c)
  <2>1. \/ cl[c] = "idle" /\ cl'[c] = "connected"
        \/ cl[c] = "connected" /\ cl'[c] \in {"sent", "closed"}
        \/ cl[c] = "sent" /\ cl'[c] = "answered"
    BY DEF Connect, SendOrClose, GetAnswer, TypeOK
  <2> QED
    BY <2>1 DEF ConnLater, Stage
<1> QED
  BY <1>1, <1>2 DEF Onwards

LEMMA MainOnwards ==
  ASSUME IInv, WaitInv, Start \/ BindFails \/ Main
  PROVE  Onwards
<1>0. TypeOK /\ run \in Nat
  BY DEF IInv, TypeOK
<1>1. CASE Start \/ BindFails
  BY <1>0, <1>1 DEF Start, BindFails, Onwards
<1>2. CASE Check
  BY <1>0, <1>2 DEF Check, Onwards, Before
<1>3. ASSUME NEW c \in Client, Accept(c) PROVE Onwards
  BY <1>0, <1>3 DEF Accept, Onwards, Before
<1>4. CASE Receive \/ ReceiveFails
  <2>1. cur \in Client /\ pc[cur] = "none"
    BY <1>4 DEF Receive, ReceiveFails, IInv, Slots
  <2>2. /\ UNCHANGED <<run, cl>> /\ pc'[cur] \in {"arrive", "gone"}
        /\ \A d \in Client : d # cur => pc'[d] = pc[d]
    BY <1>0, <1>4, <2>1 DEF Receive, ReceiveFails, TypeOK
  <2>3. ThreadLater(cur)
    BY <2>1, <2>2 DEF ThreadLater, Place
  <2> QED
    BY <1>0, <2>1, <2>2, <2>3 DEF Onwards
<1> QED
  BY <1>1, <1>2, <1>3, <1>4 DEF Main

LEMMA InterruptOnwards ==
  ASSUME IInv, WaitInv, Interrupt
  PROVE  Onwards
<1>0. TypeOK /\ run \in Nat
  BY DEF IInv, TypeOK
<1>1. run' = run /\ Before(main') < Before(main)
  <2>1. main' = "down" /\ main \in {"check", "accept", "recv"} /\ run' = run
    BY <1>0 DEF Interrupt, TypeOK
  <2> QED
    BY <2>1 DEF Before
<1>2. ASSUME NEW c \in Client PROVE ThreadLater(c) \/ pc'[c] = pc[c]
  <2>1. pc'[c] = IF Forked(c) THEN "left" ELSE IF Waiting(c) THEN "none" ELSE "gone"
    BY DEF Interrupt
  <2>2. CASE Forked(c)
    BY <2>1, <2>2 DEF Forked, ThreadLater, Place
  <2>3. CASE ~Forked(c) /\ Waiting(c)
    BY <2>1, <2>3 DEF Waiting
  <2>4. CASE ~Forked(c) /\ ~Waiting(c)
    <3>1. pc'[c] = "gone"
      BY <2>1, <2>4
    <3>2. pc[c] \in {"none", "arrive", "load+", "store+", "copy", "fork", "gone"}
      BY <1>0, <2>4 DEF TypeOK, Forked
    <3> QED
      BY <3>1, <3>2 DEF ThreadLater, Place
  <2> QED
    BY <2>2, <2>3, <2>4
<1>3. ASSUME NEW c \in Client PROVE ConnLater(c) \/ cl'[c] = cl[c]
  <2>1. CASE cl[c] = "idle" \/ Kept(c)
    BY <2>1 DEF Interrupt
  <2>2. CASE ~(cl[c] = "idle" \/ Kept(c))
    <3>1. cl'[c] = "lost" /\ cl[c] \in {"connected", "sent", "closed", "answered", "lost"}
      BY <1>0, <2>2 DEF Interrupt, TypeOK
    <3>2. cl[c] # "answered"
      BY <2>2 DEF WaitInv, Inherits, Kept
    <3> QED
      BY <3>1, <3>2 DEF ConnLater, Stage
  <2> QED
    BY <2>1, <2>2
<1> QED
  BY <1>0, <1>1, <1>2, <1>3 DEF Onwards

\* Every step takes a mainThread or a connection on, or main nearer to the end of its turn, or
\* is a restart, and none goes back, interrupted or not: a turn of main takes a new client.
THEOREM NoStepBack == Spec => [][Onwards]_vars
<1>1. IInv /\ WaitInv /\ [Next]_vars => [Onwards]_vars
  <2>1. IInv => TypeOK
    BY DEF IInv
  <2> QED
    BY <2>1, ThreadOnwards, ClientOnwards, MainOnwards, InterruptOnwards DEF Next
<1> QED
  BY <1>1, Invariance, WaitInvariance, PTL DEF Spec
=============================================================================
