------------------------ MODULE TimerServer_proofs ------------------------
(***************************************************************************)
(* Proofs about TimerServer, for any finite number of clients and rounds:  *)
(* first for clients in any order, then for clients that do not disturb    *)
(* each other. The session of the one busy client goes through phases      *)
(* then, and the server and its children are at rest between sessions; in  *)
(* each phase something can go on, and nothing ever goes back.             *)
(***************************************************************************)
EXTENDS TimerServer, FiniteSetTheorems, TLAPS

IInv == TypeOK /\ ForkPerSignal

LEMMA Finite ==
  /\ IsFiniteSet(Client \X Round)
  /\ Cardinality(Client \X Round) \in Nat
  /\ IsFiniteSet(Signalled) /\ Cardinality(Signalled) \in Nat
  /\ Cardinality(Signalled) <= Cardinality(Client \X Round)
  /\ IsFiniteSet(Numbered) /\ Cardinality(Numbered) \in Nat
<1>1. IsFiniteSet(Round)
  BY TimerAssumption, FS_Interval DEF Round
<1>2. IsFiniteSet(Client \X Round)
  BY <1>1, TimerAssumption, FS_Product
<1>3. Signalled \in SUBSET (Client \X Round) /\ Numbered \in SUBSET (Client \X Round)
  BY DEF Signalled, Reached, Numbered
<1> QED
  BY <1>2, <1>3, FS_Subset, FS_CardinalityType

LEMMA InitIInv == Init => IInv
<1> SUFFICES ASSUME Init PROVE IInv
  OBVIOUS
<1> USE TimerAssumption DEF Init
<1>1. TypeOK
  <2>1. 0 \in 0 .. Cardinality(Client \X Round) /\ 1 \in Round
    BY Finite DEF Round
  <2>2. main \in Seq(Client)
    OBVIOUS
  <2> QED
    BY <2>1, <2>2 DEF TypeOK
<1>2. ForkPerSignal
  BY Finite DEF ForkPerSignal, One
<1> QED
  BY <1>1, <1>2 DEF IInv

\* A step that sends no signal and forks nothing: the tokens it leaves are no
\* more than before.
LEMMA Quiet ==
  ASSUME IInv, TypeOK', round' = round, forks' = forks,
         \A c \in Client : pc[c] \in {"idle", "sleep", "signal"} <=>
                           pc'[c] \in {"idle", "sleep", "signal"},
         One(pending') + One(got') + One(srv' # "loop")
           <= One(pending) + One(got) + One(srv # "loop")
  PROVE  ForkPerSignal'
<1>1. Signalled' = Signalled
  BY DEF IInv, TypeOK, Signalled, Reached
<1> QED
  BY <1>1, Finite DEF IInv, ForkPerSignal, TypeOK, One

LEMMA QuietClient ==
  ASSUME IInv, TypeOK', UNCHANGED server, round' = round,
         \A c \in Client : pc[c] \in {"idle", "sleep", "signal"} <=>
                           pc'[c] \in {"idle", "sleep", "signal"}
  PROVE  IInv'
<1>1. UNCHANGED <<srv, pending, got, forks>>
  BY DEF server, signal
<1>2. One(pending') + One(got') + One(srv' # "loop")
        <= One(pending) + One(got) + One(srv # "loop")
  BY <1>1 DEF One
<1>3. ForkPerSignal'
  BY <1>1, <1>2, Quiet
<1> QED
  BY <1>3 DEF IInv

(* What a step of one client does to its program counter.                  *)
LEMMA GotoPc ==
  ASSUME TypeOK, NEW c \in Client, NEW from, NEW to, Goto(c, from, to)
  PROVE  /\ pc[c] = from
         /\ \A d \in Client : pc'[d] = IF d = c THEN to ELSE pc[d]
  BY DEF TypeOK, Goto

LEMMA StepSignal ==
  ASSUME IInv, NEW c \in Client, Signal(c)
  PROVE  IInv'
<1>1. pc[c] = "signal" /\ \A d \in Client : pc'[d] = IF d = c THEN "truncate" ELSE pc[d]
  BY GotoPc DEF IInv, Signal
<1>2. TypeOK'
  BY DEF IInv, TypeOK, Signal, Goto, number
<1>3. Signalled' = Signalled \cup {<<c, round[c]>>}
  BY <1>1 DEF Signal, Signalled, Reached, IInv, TypeOK
<1>4. <<c, round[c]>> \notin Signalled
  BY <1>1 DEF Signalled, Reached, IInv, TypeOK, Round
<1>5. Cardinality(Signalled') = Cardinality(Signalled) + 1
  BY <1>3, <1>4, Finite, FS_AddElement
<1> QED
  BY <1>2, <1>5, Finite DEF IInv, ForkPerSignal, TypeOK, One, Signal

\* The steps of a client before it uses the main FIFO.
LEMMA StepNumber ==
  ASSUME IInv, NEW c \in Client,
         Launch(c) \/ ReadNumber(c) \/ Truncate(c) \/ Store(c) \/ MakeFifo(c)
  PROVE  IInv'
<1> USE DEF IInv
<1>1. Successor(num[c]) \in Nat \cup {Garbage}
  BY DEF TypeOK, Successor
<1>2. TypeOK'
  <2>1. CASE Launch(c)
    BY <2>1 DEF TypeOK, Launch, Goto, server, signal, number
  <2>2. CASE ReadNumber(c)
    BY <2>2 DEF TypeOK, ReadNumber, Goto, server, signal
  <2>3. CASE Truncate(c)
    BY <2>3 DEF TypeOK, Truncate, Goto, server, signal
  <2>4. CASE Store(c)
    <3>1. num' \in [Client -> Nat \cup {Garbage}]
      BY <1>1, <2>4 DEF TypeOK, Store
    <3>2. file' \in Nat \cup {Garbage, None}
      BY <2>4, <3>1 DEF Store, Over
    <3> QED
      BY <2>4, <3>1, <3>2 DEF TypeOK, Store, Goto, server, signal
  <2>5. CASE MakeFifo(c)
    BY <2>5 DEF TypeOK, MakeFifo, Goto, server, signal, number
  <2> QED
    BY <2>1, <2>2, <2>3, <2>4, <2>5
<1>3. UNCHANGED <<server, round>>
  BY DEF Launch, ReadNumber, Truncate, Store, MakeFifo
<1>4. \A d \in Client : pc[d] \in {"idle", "sleep", "signal"} <=>
                        pc'[d] \in {"idle", "sleep", "signal"}
  BY DEF Launch, ReadNumber, Truncate, Store, MakeFifo, Goto, TypeOK
<1> QED
  BY <1>2, <1>3, <1>4, QuietClient

LEMMA StepOpenMain ==
  ASSUME IInv, NEW c \in Client, OpenMain(c)
  PROVE  IInv'
<1> USE DEF IInv
<1>1. TypeOK'
  BY DEF TypeOK, OpenMain, Goto, signal, number
<1>2. \A d \in Client : pc[d] \in {"idle", "sleep", "signal"} <=>
                        pc'[d] \in {"idle", "sleep", "signal"}
  BY GotoPc DEF OpenMain
<1>3. /\ forks' = forks /\ round' = round /\ pending' = pending /\ got' = got
      /\ srv' # "loop" <=> srv # "loop"
  BY DEF OpenMain, signal
<1>4. One(pending') + One(got') + One(srv' # "loop")
        <= One(pending) + One(got) + One(srv # "loop")
  BY <1>3 DEF One
<1> QED
  BY <1>1, <1>2, <1>3, <1>4, Quiet

\* What Kept leaves of the main FIFO is a sequence of pids.
LEMMA KeptSeq ==
  ASSUME TypeOK, NEW r, NEW W
  PROVE  Kept(r, W, main) \in Seq(Client)
  BY DEF Kept, TypeOK

LEMMA StepMain ==
  ASSUME IInv, NEW c \in Client, WriteMain(c) \/ Killed(c) \/ CloseMain(c)
  PROVE  IInv'
<1> USE DEF IInv
<1>1. main' \in Seq(Client)
  <2>1. CASE WriteMain(c)
    BY <2>1 DEF TypeOK, WriteMain
  <2>2. CASE Killed(c) \/ CloseMain(c)
    BY <2>2, KeptSeq DEF Killed, CloseMain
  <2> QED
    BY <2>1, <2>2
<1>2. TypeOK'
  <2>1. /\ \E to \in {"close", "dead", "own"} : pc' = [pc EXCEPT ![c] = to]
        /\ UNCHANGED <<server, kid, round, full, number>>
    BY DEF WriteMain, Killed, CloseMain, Goto
  <2> QED
    BY <1>1, <2>1 DEF TypeOK, server, signal, number
<1>3. \A d \in Client : pc[d] \in {"idle", "sleep", "signal"} <=>
                        pc'[d] \in {"idle", "sleep", "signal"}
  BY DEF WriteMain, Killed, CloseMain, Goto, TypeOK
<1>4. UNCHANGED <<server, round>>
  BY DEF WriteMain, Killed, CloseMain
<1> QED
  BY <1>2, <1>3, <1>4, QuietClient

LEMMA StepOwn ==
  ASSUME IInv, NEW c \in Client, OpenOwn(c) \/ ReadOwn(c)
  PROVE  IInv'
<1> USE DEF IInv
<1>1. kid' \in [Kid -> [pc : {"unborn", "open", "wait", "write", "gone"},
                        for : Client \cup {None}, round : {0} \cup Round]]
  BY DEF TypeOK, OpenOwn, ReadOwn
<1>2. TypeOK'
  BY <1>1 DEF TypeOK, OpenOwn, ReadOwn, Goto, server, signal, number
<1>3. \A d \in Client : pc[d] \in {"idle", "sleep", "signal"} <=>
                        pc'[d] \in {"idle", "sleep", "signal"}
  BY DEF OpenOwn, ReadOwn, Goto, TypeOK
<1>4. UNCHANGED <<server, round>>
  BY DEF OpenOwn, ReadOwn
<1> QED
  BY <1>2, <1>3, <1>4, QuietClient

LEMMA StepWork ==
  ASSUME IInv, NEW c \in Client, Work(c)
  PROVE  IInv'
<1> USE DEF IInv
<1>1. /\ pc[c] = "work"
      /\ \A d \in Client : pc'[d] = IF d # c THEN pc[d]
                                    ELSE IF round[c] = MaxRounds THEN "done" ELSE "sleep"
      /\ \A d \in Client : round'[d] = IF d # c \/ round[c] = MaxRounds THEN round[d]
                                       ELSE round[d] + 1
  BY GotoPc DEF Work, TypeOK
<1>2. TypeOK'
  BY TimerAssumption DEF TypeOK, Work, Goto, server, signal, number, Round
<1>3. Signalled' = Signalled
  BY <1>1, TimerAssumption DEF Signalled, Reached, TypeOK, Round
<1> QED
  BY <1>2, <1>3 DEF ForkPerSignal, Work, server, signal

LEMMA StepFlag ==
  ASSUME IInv, Deliver \/ Block \/ Unblock \/ Take
  PROVE  IInv'
<1> USE DEF IInv
<1>1. TypeOK'
  BY DEF TypeOK, Deliver, Block, Unblock, Take, Caught, Taken, number
<1>2. UNCHANGED <<pc, round, forks>>
  BY DEF Deliver, Block, Unblock, Take
<1>3. One(pending') + One(got') + One(srv' # "loop")
        <= One(pending) + One(got) + One(srv # "loop")
  BY DEF TypeOK, Deliver, Block, Unblock, Take, Caught, Taken, One
<1> QED
  BY <1>1, <1>2, <1>3, Quiet

LEMMA StepServer ==
  ASSUME IInv, OpenServer \/ Read \/ ReadNothing
  PROVE  IInv'
<1> USE DEF IInv
<1>1. TypeOK'
  <2>1. CASE OpenServer
    BY <2>1 DEF TypeOK, OpenServer, signal, number
  <2>2. CASE Read
    <3>1. Head(main) \in Client /\ Tail(main) \in Seq(Client)
      BY <2>2 DEF Read, TypeOK
    <3> QED
      BY <2>2, <3>1 DEF TypeOK, Read, signal, number
  <2>3. CASE ReadNothing
    BY <2>3 DEF TypeOK, ReadNothing, signal, number
  <2> QED
    BY <2>1, <2>2, <2>3
<1>2. UNCHANGED <<round, forks, pending, got>> /\ srv # "loop" /\ srv' # "loop"
  BY DEF OpenServer, Read, ReadNothing, signal
<1>3. \A d \in Client : pc[d] \in {"idle", "sleep", "signal"} <=>
                        pc'[d] \in {"idle", "sleep", "signal"}
  BY DEF OpenServer, Read, ReadNothing
<1>4. One(pending') + One(got') + One(srv' # "loop")
        <= One(pending) + One(got) + One(srv # "loop")
  BY <1>2 DEF One, TypeOK
<1> QED
  BY <1>1, <1>2, <1>3, <1>4, Quiet

\* The server is past its flag, so there is a signal for one more child.
LEMMA StepFork ==
  ASSUME IInv, Fork
  PROVE  IInv'
<1> USE DEF IInv
<1>1. Signalled' = Signalled
  BY DEF Fork, Signalled, Reached
<1>2. forks + 1 <= Cardinality(Signalled) /\ ForkPerSignal'
  BY <1>1, Finite DEF Fork, ForkPerSignal, One, TypeOK, signal
<1>3. forks + 1 \in Kid
  BY <1>2, Finite DEF Kid, TypeOK
<1>4. main' \in Seq(Client) /\ forks' \in 0 .. Cardinality(Client \X Round)
  <2>1. main' = Kept(FALSE, Writing, main) /\ forks' = forks + 1
    BY DEF Fork
  <2>2. main' \in Seq(Client)
    BY <2>1, KeptSeq
  <2>3. forks' \in 0 .. Cardinality(Client \X Round)
    BY <1>3, <2>1, Finite DEF Kid
  <2> QED
    BY <2>2, <2>3
<1>5. kid' \in [Kid -> [pc : {"unborn", "open", "wait", "write", "gone"},
                        for : Client \cup {None}, round : {0} \cup Round]]
  BY <1>3 DEF TypeOK, Fork
<1>6. TypeOK'
  BY <1>4, <1>5 DEF TypeOK, Fork, signal, number
<1> QED
  BY <1>2, <1>6

LEMMA StepKid ==
  ASSUME IInv, NEW k \in Kid, TimerKid(k)
  PROVE  IInv'
<1> USE DEF IInv
<1>1. CASE OpenKid(k)
  <2>1. CASE kid[k].for = None \/ ~Exists(kid[k].for)
    <3>1. kid' = [kid EXCEPT ![k].pc = "gone"] /\ pc' = pc
      BY <1>1, <2>1 DEF OpenKid
    <3>2. TypeOK'
      BY <1>1, <3>1 DEF TypeOK, OpenKid, server, signal, number
    <3> QED
      BY <1>1, <3>1, <3>2, QuietClient DEF OpenKid
  <2>2. CASE ~(kid[k].for = None \/ ~Exists(kid[k].for))
    <3> DEFINE c == kid[k].for
    <3>1. c \in Client
      BY <2>2 DEF TypeOK
    <3>2. /\ pc' = [pc EXCEPT ![c] = IF @ = "ownwait" THEN "read" ELSE @]
          /\ kid' = [kid EXCEPT ![k].round = round[c],
                       ![k].pc = IF pc[c] \in {"ownwait", "read"} THEN "write" ELSE "wait"]
      BY <1>1, <2>2 DEF OpenKid
    <3>3. TypeOK'
      BY <1>1, <3>1, <3>2 DEF TypeOK, OpenKid, server, signal, number
    <3>4. \A d \in Client : pc[d] \in {"idle", "sleep", "signal"} <=>
                            pc'[d] \in {"idle", "sleep", "signal"}
      BY <3>1, <3>2 DEF TypeOK
    <3> QED
      BY <1>1, <3>3, <3>4, QuietClient DEF OpenKid
  <2> QED
    BY <2>1, <2>2
<1>2. CASE WriteKid(k)
  <2>1. TypeOK'
    <3>1. kid' \in [Kid -> [pc : {"unborn", "open", "wait", "write", "gone"},
                            for : Client \cup {None}, round : {0} \cup Round]]
      BY <1>2 DEF WriteKid, TypeOK
    <3>2. full' \in [Client -> BOOLEAN]
      BY <1>2 DEF WriteKid, TypeOK
    <3> QED
      BY <1>2, <3>1, <3>2 DEF TypeOK, WriteKid, server, signal, number
  <2> QED
    BY <1>2, <2>1, QuietClient DEF WriteKid
<1> QED
  BY <1>1, <1>2 DEF TimerKid

LEMMA Idle ==
  ASSUME IInv, UNCHANGED vars
  PROVE  IInv'
<1>1. Signalled' = Signalled
  BY DEF vars, Signalled, Reached
<1> QED
  BY <1>1 DEF IInv, TypeOK, ForkPerSignal, vars, server, signal, number

LEMMA NextIInv == IInv /\ [Next]_vars => IInv'
<1> SUFFICES ASSUME IInv, [Next]_vars PROVE IInv'
  OBVIOUS
<1>1. CASE Server
  BY <1>1, StepFlag, StepServer, StepFork DEF Server
<1>2. CASE Deliver \/ Block \/ Unblock
  BY <1>2, StepFlag
<1>3. ASSUME NEW c \in Client, Launch(c) \/ SeeWhat(c) PROVE IInv'
  BY <1>3, StepSignal, StepNumber, StepOpenMain, StepMain, StepOwn, StepWork DEF SeeWhat
<1>4. ASSUME NEW k \in Kid, TimerKid(k) PROVE IInv'
  BY <1>4, StepKid
<1>5. CASE UNCHANGED vars
  BY <1>5, Idle
<1> QED
  BY <1>1, <1>2, <1>3, <1>4, <1>5 DEF Next

THEOREM Invariance == Spec => []IInv
  BY InitIInv, NextIInv, PTL DEF Spec

\* Every variable of the timer server keeps its shape, and its children are never
\* more than the rounds of the clients (timerServer.c:171-226, seeWhat.c:212-366).
THEOREM TypeCorrect == Spec => []TypeOK
<1>1. IInv => TypeOK
  BY DEF IInv
<1> QED
  BY <1>1, Invariance, PTL

\* Each child of the server goes back to a signal of its own (timerServer.c:192-199).
THEOREM ForksCounted == Spec => []ForkPerSignal
<1>1. IInv => ForkPerSignal
  BY DEF IInv
<1> QED
  BY <1>1, Invariance, PTL
---------------------------------------------------------------------------
(* Numbers, in any order of the clients: nobody has one that runs ahead.   *)

NumInv ==
  /\ IInv /\ NumbersBounded
  /\ \A c \in Client : num[c] \in Nat => num[c] <= 1 + Cardinality(Numbered)

\* The points of a client's loop at which its round is not numbered yet.
Early == {"idle", "sleep", "signal", "truncate", "store"}

\* Numbers that are there already stay below the count of rounds.
LEMMA KeepNumber ==
  ASSUME NumInv, IInv', Numbered \subseteq Numbered', file' \in Nat => file' = file,
         \A c \in Client : num'[c] = num[c] \/ (num'[c] = file /\ file # None)
  PROVE  NumInv'
<1>1. Cardinality(Numbered) <= Cardinality(Numbered') /\ Cardinality(Numbered) \in Nat
        /\ Cardinality(Numbered') \in Nat
  <2>1. IsFiniteSet(Numbered')
    <3>1. Numbered' \subseteq Client \X Round
      BY DEF Numbered
    <3> QED
      BY <3>1, Finite, FS_Subset
  <2> QED
    BY <2>1, Finite, FS_Subset, FS_CardinalityType
<1>2. NumbersBounded'
  BY <1>1 DEF NumInv, NumbersBounded
<1>3. ASSUME NEW c \in Client, num'[c] \in Nat PROVE num'[c] <= 1 + Cardinality(Numbered')
  BY <1>1, <1>3 DEF NumInv, NumbersBounded
<1> QED
  BY <1>2, <1>3 DEF NumInv

\* A round that is numbered stays so while clients go on in their loops.
LEMMA SameNumbered ==
  ASSUME IInv, round' = round, \A c \in Client : pc'[c] \in Early => pc[c] \in Early
  PROVE  Numbered \subseteq Numbered'
<1>1. \A x \in Client \X Round : x[1] \in Client
  OBVIOUS
<1> QED
  BY <1>1 DEF Numbered, Reached, Early

LEMMA StepElsewhere ==
  ASSUME NumInv, IInv', NEW c \in Client,
         \/ Launch(c) \/ ReadNumber(c) \/ Signal(c) \/ Truncate(c)
         \/ MakeFifo(c) \/ OpenMain(c) \/ WriteMain(c) \/ Killed(c)
         \/ CloseMain(c) \/ OpenOwn(c) \/ ReadOwn(c)
  PROVE  NumInv'
<1>1. /\ pc[c] \in Early \/ pc'[c] \notin Early
      /\ \A d \in Client \ {c} : pc'[d] = pc[d]
  <2> USE DEF NumInv, IInv, Early
  <2>1. CASE Launch(c)
    BY <2>1, GotoPc DEF Launch
  <2>2. CASE MakeFifo(c)
    BY <2>2, GotoPc DEF MakeFifo
  <2>3. CASE OpenMain(c)
    BY <2>3, GotoPc DEF OpenMain
  <2>4. CASE WriteMain(c)
    BY <2>4, GotoPc DEF WriteMain
  <2>5. CASE Killed(c)
    BY <2>5, GotoPc DEF Killed
  <2>6. CASE CloseMain(c)
    BY <2>6, GotoPc DEF CloseMain
  <2>7. CASE OpenOwn(c)
    BY <2>7, GotoPc DEF OpenOwn
  <2>8. CASE ReadOwn(c)
    BY <2>8, GotoPc DEF ReadOwn
  <2>9. CASE ReadNumber(c)
    BY <2>9, GotoPc DEF ReadNumber
  <2>10. CASE Signal(c)
    BY <2>10, GotoPc DEF Signal
  <2>11. CASE Truncate(c)
    BY <2>11, GotoPc DEF Truncate
  <2> QED
    BY <2>1, <2>2, <2>3, <2>4, <2>5, <2>6, <2>7, <2>8, <2>9, <2>10, <2>11
<1>2. round' = round
  BY DEF Launch, ReadNumber, Signal, Truncate, MakeFifo, OpenMain, WriteMain, Killed, CloseMain, OpenOwn, ReadOwn
<1>3. Numbered \subseteq Numbered'
  BY <1>1, <1>2, SameNumbered DEF NumInv
<1>4. CASE ReadNumber(c)
  <2>1. file' = file /\ num' = IF file = None THEN num ELSE [num EXCEPT ![c] = file]
    BY <1>4 DEF ReadNumber
  <2>2. \A d \in Client : num'[d] = num[d] \/ (num'[d] = file /\ file # None)
    BY <2>1 DEF NumInv, IInv, TypeOK
  <2> QED
    BY <1>3, <2>1, <2>2, KeepNumber
<1>5. CASE Truncate(c)
  <2>1. file' = None /\ num' = num /\ None \notin Nat
    BY <1>5, TimerAssumption DEF Truncate
  <2> QED
    BY <1>3, <2>1, KeepNumber
<1>6. CASE ~ReadNumber(c) /\ ~Truncate(c)
  <2>1. file' = file /\ num' = num
    BY <1>6 DEF Launch, Signal, MakeFifo, OpenMain, WriteMain, Killed, CloseMain, OpenOwn, ReadOwn, number
  <2> QED
    BY <1>3, <2>1, KeepNumber
<1> QED
  BY <1>4, <1>5, <1>6

\* A round that is numbered stays so when the next one starts.
LEMMA StepWorkNumber ==
  ASSUME NumInv, IInv', NEW c \in Client, Work(c)
  PROVE  NumInv'
<1>1. /\ pc[c] = "work"
      /\ pc'[c] = IF round[c] = MaxRounds THEN "done" ELSE "sleep"
      /\ \A d \in Client \ {c} : pc'[d] = pc[d] /\ round'[d] = round[d]
      /\ round'[c] = IF round[c] = MaxRounds THEN round[c] ELSE round[c] + 1
      /\ file' = file /\ num' = num
  BY DEF Work, Goto, number, NumInv, IInv, TypeOK
<1>2. \A d \in Client : round[d] \in 1 .. MaxRounds
  BY DEF NumInv, IInv, TypeOK, Round
<1>3. Numbered' = Numbered
  BY <1>1, <1>2, TimerAssumption DEF Numbered, Reached, Round
<1> QED
  BY <1>1, <1>3, KeepNumber

LEMMA StepServerNumber ==
  ASSUME NumInv, IInv', Server \/ Deliver \/ Block \/ Unblock
  PROVE  NumInv'
<1>1. round' = round /\ file' = file /\ num' = num
  BY DEF Server, Take, OpenServer, Read, ReadNothing, Fork, Deliver, Block, Unblock, number
<1>2. \A d \in Client : pc'[d] = pc[d] \/ (pc[d] \notin Early /\ pc'[d] \notin Early)
  <2>1. CASE OpenServer
    <3>1. \A d \in Client : pc'[d] = IF pc[d] = "wait" THEN "write" ELSE pc[d]
      BY <2>1 DEF OpenServer
    <3> QED
      BY <3>1 DEF Early
  <2>2. CASE ~OpenServer
    BY <2>2 DEF Server, Take, Read, ReadNothing, Fork, Deliver, Block, Unblock
  <2> QED
    BY <2>1, <2>2
<1>3. Numbered \subseteq Numbered'
  BY <1>1, <1>2, SameNumbered DEF NumInv
<1> QED
  BY <1>1, <1>3, KeepNumber

LEMMA StepKidNumber ==
  ASSUME NumInv, IInv', NEW k \in Kid, TimerKid(k)
  PROVE  NumInv'
<1>1. round' = round /\ file' = file /\ num' = num
  BY DEF TimerKid, OpenKid, WriteKid, number
<1>2. \A d \in Client : pc'[d] = pc[d] \/ (pc[d] \notin Early /\ pc'[d] \notin Early)
  <2>1. pc' = pc \/ pc' = [pc EXCEPT ![kid[k].for] = IF @ = "ownwait" THEN "read" ELSE @]
    BY DEF TimerKid, OpenKid, WriteKid
  <2>2. \A d \in Client : pc'[d] = pc[d] \/ (pc[d] = "ownwait" /\ pc'[d] = "read")
    BY <2>1 DEF NumInv, IInv, TypeOK
  <2> QED
    BY <2>2 DEF Early
<1>3. Numbered \subseteq Numbered'
  BY <1>1, <1>2, SameNumbered DEF NumInv
<1> QED
  BY <1>1, <1>3, KeepNumber

\* A number that is written back is 1 more, and so are the rounds numbered, whoever else has
\* read or written the file since.
LEMMA StepStore ==
  ASSUME NumInv, IInv', NEW c \in Client, Store(c)
  PROVE  NumInv'
<1> USE DEF NumInv, IInv
<1>1. /\ pc[c] = "store" /\ pc'[c] = "mkfifo" /\ round' = round
      /\ num'[c] = Successor(num[c]) /\ file' \in Over(file, num'[c])
      /\ \A d \in Client \ {c} : pc'[d] = pc[d] /\ num'[d] = num[d]
  BY DEF Store, Goto, TypeOK
<1>2. Numbered' = Numbered \cup {<<c, round[c]>>}
  BY <1>1 DEF Numbered, Reached, TypeOK
<1>3. <<c, round[c]>> \notin Numbered
  BY <1>1 DEF Numbered, Reached, TypeOK, Round
<1>4. Cardinality(Numbered') = Cardinality(Numbered) + 1 /\ Cardinality(Numbered) \in Nat
  BY <1>2, <1>3, Finite, FS_AddElement
<1>5. num'[c] \in Nat => num[c] \in Nat /\ num'[c] = num[c] + 1
  BY <1>1, TimerAssumption DEF TypeOK, Successor
<1>6. num'[c] \in Nat => num'[c] <= 1 + Cardinality(Numbered')
  BY <1>4, <1>5
<1>7. file' \in Nat => file' = num'[c]
  BY <1>1, TimerAssumption DEF Over
<1>8. NumbersBounded'
  BY <1>6, <1>7 DEF NumbersBounded
<1>9. ASSUME NEW d \in Client, num'[d] \in Nat PROVE num'[d] <= 1 + Cardinality(Numbered')
  <2>1. CASE d = c
    BY <1>6, <1>9, <2>1
  <2>2. CASE d # c
    BY <1>1, <1>4, <1>9, <2>2
  <2> QED
    BY <2>1, <2>2
<1> QED
  BY <1>8, <1>9

LEMMA InitNumInv == Init => NumInv
<1> SUFFICES ASSUME Init PROVE NumInv
  OBVIOUS
<1>1. Cardinality(Numbered) \in Nat
  BY Finite
<1>2. file = 1 /\ \A c \in Client : num[c] = Garbage
  BY DEF Init
<1> QED
  BY <1>1, <1>2, InitIInv, TimerAssumption DEF NumInv, NumbersBounded

LEMMA NextNumInv == NumInv /\ IInv' /\ [Next]_vars => NumInv'
<1> SUFFICES ASSUME NumInv, IInv', [Next]_vars PROVE NumInv'
  OBVIOUS
<1>1. CASE UNCHANGED vars
  <2>1. Numbered \subseteq Numbered'
    BY <1>1, SameNumbered DEF vars, NumInv
  <2> QED
    BY <1>1, <2>1, KeepNumber DEF vars, number
<1>2. CASE Next
  <2>1. CASE Server \/ Deliver \/ Block \/ Unblock
    BY <2>1, StepServerNumber
  <2>2. ASSUME NEW c \in Client, Launch(c) \/ SeeWhat(c) PROVE NumInv'
    BY <2>2, StepElsewhere, StepWorkNumber, StepStore DEF SeeWhat
  <2>3. ASSUME NEW k \in Kid, TimerKid(k) PROVE NumInv'
    BY <2>3, StepKidNumber
  <2> QED
    BY <1>2, <2>1, <2>2, <2>3 DEF Next
<1> QED
  BY <1>1, <1>2

\* In whatever order clients read, truncate and write clientnum.txt, nobody's number and no
\* number in the file is more than 1 above the rounds numbered (seeWhat.c:216-228): lost
\* updates repeat numbers, and none runs ahead.
THEOREM NoNumberRunsAhead == Spec => []NumbersBounded
<1>1. NumInv => NumbersBounded
  BY DEF NumInv
<1>2. NumInv /\ IInv' /\ [Next]_vars => NumInv'
  BY NextNumInv
<1> QED
  BY <1>1, <1>2, InitNumInv, Invariance, PTL DEF Spec
---------------------------------------------------------------------------
(* One client at a time *)

KidsDone == \A k \in Kid : kid[k].pc \in {"unborn", "gone"}
NoToken == ~pending /\ ~got /\ srv = "loop"
Settled == NoToken /\ main = <<>> /\ KidsDone

\* b has signalled and the server does not read the main FIFO yet.
Asked(b) ==
  /\ KidsDone /\ main = <<>>
  /\ \/ pending /\ ~got /\ srv = "loop"
     \/ ~pending /\ got /\ srv = "loop"
     \/ ~pending /\ ~got /\ srv \in {"open", "wait"}
  /\ \/ pc[b] \in {"truncate", "store", "mkfifo", "open"}
     \/ pc[b] = "wait" /\ srv # "wait"

\* The server waits for the pid of b, or it is in the FIFO.
Heard(b) ==
  /\ KidsDone /\ ~pending /\ ~got /\ srv = "read"
  /\ \/ pc[b] = "write" /\ main = <<>>
     \/ pc[b] \in {"close", "own", "ownwait"} /\ main = <<b>>

\* The server has read it,
Known(b) ==
  /\ KidsDone /\ ~pending /\ ~got /\ srv = "shut"
  /\ main = <<>> /\ who = b
  /\ pc[b] \in {"close", "own", "ownwait"}

\* and forked the child k for b.
AwaitedFrom(b, k) ==
  /\ \A j \in Kid \ {k} : kid[j].pc \in {"unborn", "gone"}
  /\ kid[k].for = b
  /\ ~full[b]
  /\ \/ kid[k].pc = "open" /\ pc[b] \in {"close", "own", "ownwait"}
     \/ kid[k].pc = "wait" /\ pc[b] \in {"close", "own"} /\ kid[k].round = round[b]
     \/ kid[k].pc = "write" /\ pc[b] = "read" /\ kid[k].round = round[b]
Awaited(b) == NoToken /\ main = <<>> /\ \E k \in Kid : AwaitedFrom(b, k)

Session(b) ==
  \/ pc[b] \in {"signal", "read"} /\ Settled
  \/ Asked(b) \/ Heard(b) \/ Known(b) \/ Awaited(b)

FullOK == \A c \in Client : full[c] => pc[c] = "read" /\ Settled

SInv ==
  /\ IInv
  /\ Separate
  /\ (\A c \in Client : ~Busy(c)) => Settled
  /\ \A c \in Client : Busy(c) => Session(c)
  /\ FullOK

\* What there is to show after a step, c being the client that is or was busy.
LEMMA Conclude ==
  ASSUME IInv', Separate', FullOK', NEW c \in Client,
         \A d \in Client \ {c} : ~Busy(d)',
         Busy(c)' => Session(c)', ~Busy(c)' => Settled'
  PROVE  SInv'
  BY DEF SInv

\* A client that is not between two sessions is the only one.
LEMMA Only ==
  ASSUME SInv, NEW c \in Client, Busy(c)
  PROVE  Session(c) /\ \A d \in Client \ {c} : ~Busy(d)
  BY DEF SInv, Separate

LEMMA InitSInv == Init => SInv
<1> SUFFICES ASSUME Init PROVE SInv
  OBVIOUS
<1>1. IInv
  BY InitIInv
<1>2. \A c \in Client : ~Busy(c)
  BY DEF Init, Busy
<1>3. Settled /\ FullOK
  BY DEF Init, Settled, NoToken, KidsDone, FullOK
<1> QED
  BY <1>1, <1>2, <1>3 DEF SInv, Separate

\* Steps between two sessions.
LEMMA StepLaunchWork ==
  ASSUME SInv, IInv', NEW c \in Client, Launch(c) \/ Work(c)
  PROVE  SInv'
<1>1. ~Busy(c) /\ ~Busy(c)' /\ pc[c] # "read"
  BY DEF Launch, Work, Goto, Busy, SInv, IInv, TypeOK
<1>2. \A d \in Client \ {c} : pc'[d] = pc[d] /\ round'[d] = round[d] /\ full'[d] = full[d]
  BY DEF Launch, Work, Goto, SInv, IInv, TypeOK
<1>3. UNCHANGED <<server, kid, main, full>>
  BY DEF Launch, Work
<1>4. \A d \in Client : Busy(d)' <=> Busy(d)
  BY <1>1, <1>2 DEF Busy
<1>5. Separate'
  BY <1>4 DEF SInv, Separate
<1>6. Settled => Settled'
  BY <1>3 DEF Settled, NoToken, KidsDone, server, signal
<1>7. \A d \in Client \ {c} : Session(d) => Session(d)'
  BY <1>2, <1>3, <1>6 DEF Session, Asked, Heard, Known, Awaited, AwaitedFrom, NoToken,
     KidsDone, server, signal
<1>8. FullOK'
  BY <1>1, <1>2, <1>3, <1>6 DEF FullOK, SInv
<1> QED
  BY <1>1, <1>4, <1>5, <1>6, <1>7, <1>8 DEF SInv

LEMMA StepReadNumber ==
  ASSUME SInv, IInv', Separate', NEW c \in Client, ReadNumber(c)
  PROVE  SInv'
<1>1. /\ pc[c] = "sleep" /\ pc'[c] = "signal"
      /\ \A d \in Client \ {c} : pc'[d] = pc[d]
      /\ UNCHANGED <<server, kid, main, round, full>>
  BY DEF ReadNumber, Goto, SInv, IInv, TypeOK
<1>2. \A d \in Client \ {c} : ~Busy(d)'
  BY <1>1 DEF Separate, Busy
<1>3. Settled
  BY <1>1, <1>2 DEF SInv, Busy
<1>4. Settled'
  BY <1>1, <1>3 DEF Settled, NoToken, KidsDone, server, signal
<1>5. FullOK'
  BY <1>1, <1>4 DEF FullOK, SInv
<1> QED
  BY <1>1, <1>2, <1>4, <1>5, Conclude DEF Session

\* The signal, and the steps up to the open of the main FIFO.
LEMMA StepAsk ==
  ASSUME SInv, IInv', Separate', NEW c \in Client,
         Signal(c) \/ Truncate(c) \/ Store(c) \/ MakeFifo(c)
  PROVE  SInv'
<1>1. /\ pc[c] \in {"signal", "truncate", "store", "mkfifo"}
      /\ pc'[c] \in {"truncate", "store", "mkfifo", "open"}
      /\ \A d \in Client \ {c} : pc'[d] = pc[d]
      /\ UNCHANGED <<srv, mask, got, blocked, who, forks, kid, main, round, full>>
      /\ pc[c] = "signal" <=> pending' # pending \/ Signal(c)
  BY DEF Signal, Truncate, Store, MakeFifo, Goto, SInv, IInv, TypeOK, server, signal
<1>2. Busy(c) /\ Busy(c)'
  BY <1>1 DEF Busy
<1>3. \A d \in Client \ {c} : ~Busy(d)'
  BY <1>1, <1>2, Only DEF Busy
<1>4. Session(c)
  BY <1>2, Only
<1>5. KidsDone /\ main = <<>>
  BY <1>1, <1>4 DEF Session, Settled, Asked, Heard, Known, Awaited, AwaitedFrom
<1>6. Asked(c)'
  <2>1. CASE Signal(c)
    <3>1. NoToken /\ pc[c] = "signal" /\ pending'
      BY <2>1, <1>4 DEF Signal, Goto, Session, Settled, Asked, Heard, Known, Awaited, AwaitedFrom
    <3> QED
      BY <3>1, <1>1, <1>5 DEF Asked, KidsDone, NoToken
  <2>2. CASE ~Signal(c)
    <3>1. Asked(c) /\ pending' = pending
      BY <2>2, <1>1, <1>4 DEF Session, Asked, Heard, Known, Awaited, AwaitedFrom,
         Signal, Truncate, Store, MakeFifo, server, signal, Goto
    <3> QED
      BY <3>1, <1>1 DEF Asked, KidsDone
  <2> QED
    BY <2>1, <2>2
<1>7. FullOK'
  BY <1>1, <1>2, Only DEF FullOK, SInv, Busy
<1> QED
  BY <1>2, <1>3, <1>6, <1>7, Conclude DEF Session

\* What a busy client's step leaves alone.
LEMMA ClientStep ==
  ASSUME SInv, NEW c \in Client, Busy(c),
         \A d \in Client \ {c} : pc'[d] = pc[d]
  PROVE  /\ Session(c)
         /\ \A d \in Client \ {c} : ~Busy(d) /\ ~Busy(d)' /\ pc[d] # "read" /\ ~full[d]
<1>1. \A d \in Client \ {c} : ~Busy(d)
  BY Only
<1> QED
  BY <1>1, Only DEF Busy, SInv, FullOK

LEMMA StepOpenMainSerial ==
  ASSUME SInv, IInv', Separate', NEW c \in Client, OpenMain(c)
  PROVE  SInv'
<1>1. /\ pc[c] = "open" /\ pc'[c] = IF Reading THEN "write" ELSE "wait"
      /\ \A d \in Client \ {c} : pc'[d] = pc[d]
      /\ srv' = IF srv = "wait" THEN "read" ELSE srv
      /\ UNCHANGED <<pending, got, kid, main, full>>
  BY DEF OpenMain, Goto, SInv, IInv, TypeOK, signal
<1>2. Busy(c) /\ Busy(c)'
  BY <1>1 DEF Busy
<1>3. Asked(c)
  BY <1>1, <1>2, ClientStep DEF Session, Heard, Known, Awaited, AwaitedFrom
<1>4. Asked(c)' \/ Heard(c)'
  BY <1>1, <1>3 DEF Asked, Heard, Reading, KidsDone
<1>5. FullOK'
  BY <1>1, <1>2, ClientStep DEF FullOK, SInv
<1> QED
  BY <1>1, <1>2, <1>4, <1>5, ClientStep, Conclude DEF Session

\* The server has the main FIFO open when the client writes.
LEMMA StepWriteSerial ==
  ASSUME SInv, NEW c \in Client, WriteMain(c) \/ Killed(c)
  PROVE  Heard(c) /\ main = <<>> /\ WriteMain(c)
<1>1. pc[c] = "write" /\ Busy(c) /\ (Killed(c) => srv # "read")
  BY DEF WriteMain, Killed, Goto, Busy, Reading
<1>2. Heard(c)
  BY <1>1, Only DEF Session, Asked, Known, Awaited, AwaitedFrom
<1> QED
  BY <1>1, <1>2 DEF Heard

LEMMA StepMainSerial ==
  ASSUME SInv, IInv', Separate', NEW c \in Client,
         WriteMain(c) \/ Killed(c) \/ CloseMain(c)
  PROVE  SInv'
<1>1. CASE WriteMain(c) \/ Killed(c)
  <2>1. /\ Heard(c) /\ pc[c] = "write" /\ pc'[c] = "close" /\ main' = <<c>>
        /\ \A d \in Client \ {c} : pc'[d] = pc[d]
        /\ UNCHANGED <<server, kid, round, full>>
    <3>1. WriteMain(c) /\ Heard(c) /\ main = <<>>
      BY <1>1, StepWriteSerial
    <3>2. main' = <<c>>
      BY <3>1 DEF WriteMain
    <3> QED
      BY <3>1, <3>2 DEF WriteMain, Goto, SInv, IInv, TypeOK
  <2>2. Busy(c) /\ Busy(c)' /\ Heard(c)'
    BY <2>1 DEF Busy, Heard, KidsDone, server, signal
  <2>3. FullOK'
    BY <2>1, <2>2, ClientStep DEF FullOK, SInv
  <2> QED
    BY <2>1, <2>2, <2>3, ClientStep, Conclude DEF Session
<1>2. CASE CloseMain(c)
  <2>1. /\ pc[c] = "close" /\ pc'[c] = "own"
        /\ main' = Kept(Reading, Writing \ {c}, main)
        /\ \A d \in Client \ {c} : pc'[d] = pc[d]
        /\ UNCHANGED <<server, kid, round, full>>
    BY <1>2 DEF CloseMain, Goto, SInv, IInv, TypeOK
  <2>2. Busy(c) /\ Busy(c)' /\ Session(c)
    BY <2>1, Only DEF Busy
  <2>3. Session(c)'
    <3>1. CASE Heard(c)
      <4>1. main' = main
        BY <2>1, <3>1 DEF Heard, Kept, Reading
      <4>2. Heard(c)'
        BY <4>1, <2>1, <3>1 DEF Heard, KidsDone, server, signal
      <4> QED
        BY <4>2 DEF Session
    <3>2. CASE Known(c)
      <4>1. main' = <<>>
        BY <2>1, <3>2 DEF Known, Kept
      <4>2. Known(c)'
        BY <4>1, <2>1, <3>2 DEF Known, KidsDone, server, signal
      <4> QED
        BY <4>2 DEF Session
    <3>3. CASE Awaited(c)
      <4>1. main' = <<>>
        BY <2>1, <3>3 DEF Awaited, Kept
      <4>2. Awaited(c)'
        BY <4>1, <2>1, <3>3 DEF Awaited, AwaitedFrom, NoToken, server, signal
      <4> QED
        BY <4>2 DEF Session
    <3> QED
      BY <2>1, <2>2, <3>1, <3>2, <3>3 DEF Session, Asked
  <2>4. FullOK'
    BY <2>1, <2>2, ClientStep DEF FullOK, SInv
  <2> QED
    BY <2>1, <2>2, <2>3, <2>4, ClientStep, Conclude
<1> QED
  BY <1>1, <1>2

LEMMA StepOpenOwnSerial ==
  ASSUME SInv, IInv', Separate', NEW c \in Client, OpenOwn(c)
  PROVE  SInv'
<1>1. /\ pc[c] = "own" /\ pc'[c] = IF Writers(c) = {} THEN "ownwait" ELSE "read"
      /\ \A d \in Client \ {c} : pc'[d] = pc[d]
      /\ kid' = [k \in Kid |-> IF k \in Writers(c) THEN [kid[k] EXCEPT !.pc = "write"] ELSE kid[k]]
      /\ UNCHANGED <<server, main, round, full>>
  BY DEF OpenOwn, Goto, SInv, IInv, TypeOK
<1>2. Busy(c) /\ Busy(c)' /\ Session(c)
  BY <1>1, Only DEF Busy
<1>3. FullOK'
  BY <1>1, <1>2, ClientStep DEF FullOK, SInv
<1>4. CASE Heard(c) \/ Known(c)
  <2>1. Writers(c) = {}
    BY <1>4 DEF Writers, Heard, Known, KidsDone
  <2>2. \A k \in Kid : kid'[k] = kid[k]
    BY <1>1, <2>1
  <2>3. Heard(c)' \/ Known(c)'
    BY <1>1, <1>4, <2>1, <2>2 DEF Heard, Known, KidsDone, server, signal
  <2> QED
    BY <1>1, <1>2, <1>3, <2>3, ClientStep, Conclude DEF Session
<1>5. CASE Awaited(c)
  <2>1. PICK k \in Kid : AwaitedFrom(c, k)
    BY <1>5 DEF Awaited
  <2>2. \A j \in Kid \ {k} : j \notin Writers(c) /\ kid'[j] = kid[j]
    BY <1>1, <2>1 DEF Writers, AwaitedFrom
  <2>3. CASE kid[k].pc = "open"
    <3>1. Writers(c) = {} /\ kid'[k] = kid[k]
      BY <1>1, <2>2, <2>3 DEF Writers
    <3>2. AwaitedFrom(c, k)'
      BY <1>1, <2>1, <2>2, <2>3, <3>1 DEF AwaitedFrom
    <3> QED
      BY <1>1, <1>2, <1>3, <1>5, <3>2, ClientStep, Conclude
      DEF Session, Awaited, NoToken, server, signal
  <2>4. CASE kid[k].pc = "wait"
    <3>1. k \in Writers(c)
      BY <1>1, <2>1, <2>4 DEF Writers, AwaitedFrom
    <3>2. /\ kid'[k].pc = "write" /\ kid'[k].for = kid[k].for
          /\ kid'[k].round = kid[k].round
      BY <1>1, <3>1 DEF SInv, IInv, TypeOK
    <3>3. AwaitedFrom(c, k)'
      BY <1>1, <2>1, <2>2, <2>4, <3>1, <3>2 DEF AwaitedFrom
    <3> QED
      BY <1>1, <1>2, <1>3, <1>5, <3>3, ClientStep, Conclude
      DEF Session, Awaited, NoToken, server, signal
  <2> QED
    BY <1>1, <2>1, <2>3, <2>4 DEF AwaitedFrom
<1> QED
  BY <1>1, <1>2, <1>4, <1>5 DEF Session, Asked

LEMMA StepReadOwnSerial ==
  ASSUME SInv, IInv', Separate', NEW c \in Client, ReadOwn(c)
  PROVE  SInv'
<1>1. /\ pc[c] = "read" /\ pc'[c] = "work" /\ full[c]
      /\ \A d \in Client \ {c} : pc'[d] = pc[d] /\ full'[d] = full[d]
      /\ ~full'[c]
      /\ UNCHANGED <<server, kid, main, round>>
  BY DEF ReadOwn, Goto, SInv, IInv, TypeOK
<1>2. Busy(c) /\ ~Busy(c)'
  BY <1>1 DEF Busy
<1>3. Settled /\ Settled'
  BY <1>1 DEF SInv, FullOK, Settled, NoToken, KidsDone, server, signal
<1>4. FullOK'
  BY <1>1, <1>2, ClientStep DEF FullOK
<1> QED
  BY <1>1, <1>2, <1>3, <1>4, ClientStep, Conclude

\* A step of the server or of its children changes no client, or wakes the one
\* that waits.
LEMMA ServerStep ==
  ASSUME SInv, NEW b \in Client, Busy(b)
  PROVE  /\ Session(b)
         /\ \A d \in Client \ {b} : pc[d] \in {"idle", "sleep", "work", "done"} /\ ~full[d]
  BY Only DEF Busy, SInv, FullOK

LEMMA SomebodyBusy ==
  ASSUME SInv, ~Settled
  PROVE  \E b \in Client : Busy(b)
  BY DEF SInv

LEMMA StepFlagSerial ==
  ASSUME SInv, IInv', Separate', Deliver \/ Unblock \/ Take
  PROVE  SInv'
<1>1. UNCHANGED <<who, kid, main, pc, round, full>>
  BY DEF Deliver, Unblock, Take
<1>2. got \in BOOLEAN /\ pending \in BOOLEAN
  BY DEF SInv, IInv, TypeOK
<1>3. CASE NoToken
  <2>1. UNCHANGED <<srv, pending, got>>
    BY <1>2, <1>3 DEF NoToken, Deliver, Unblock, Take, Caught
  <2>2. Settled' <=> Settled
    BY <1>1, <2>1 DEF Settled, NoToken, KidsDone
  <2>3. \A b \in Client : (Busy(b)' <=> Busy(b)) /\ (Session(b) => Session(b)')
    BY <1>1, <2>1, <2>2 DEF Busy, Session, Asked, Heard, Known, Awaited, AwaitedFrom,
       NoToken, KidsDone
  <2> QED
    BY <1>1, <2>2, <2>3 DEF SInv, FullOK
<1>4. CASE ~NoToken
  <2>1. PICK b \in Client : Busy(b)
    BY <1>4, SomebodyBusy DEF Settled
  <2>2. Session(b) /\ \A d \in Client \ {b} : ~Busy(d)' /\ ~full[d]
    BY <1>1, <2>1, ServerStep DEF Busy
  <2>3. srv = "loop" \/ pending
    BY DEF Deliver, Unblock, Take
  <2>4. Asked(b)
    BY <1>4, <2>2, <2>3 DEF Session, Settled, Heard, Known, Awaited, NoToken
  <2>5. CASE Deliver
    <3>1. pending /\ srv = "loop" /\ ~pending' /\ got' /\ srv' = srv
      BY <2>4, <2>5 DEF Asked, Deliver
    <3> QED
      BY <1>1, <2>1, <2>2, <2>4, <3>1, <1>4, Conclude
      DEF Session, Busy, Asked, KidsDone, SInv, FullOK, Settled
  <2>6. CASE Unblock
    <3>1. srv = "loop" /\ ~pending' /\ got' /\ srv' = srv
      BY <1>2, <1>4, <2>6 DEF NoToken, Unblock, Caught
    <3> QED
      BY <1>1, <2>1, <2>2, <2>4, <3>1, <1>4, Conclude
      DEF Session, Busy, Asked, KidsDone, SInv, FullOK, Settled
  <2>7. CASE Take
    <3>1. ~pending' /\ ~got' /\ srv' = "open"
      BY <2>4, <2>7 DEF Asked, Take, Taken
    <3> QED
      BY <1>1, <2>1, <2>2, <2>4, <3>1, <1>4, Conclude
      DEF Session, Busy, Asked, KidsDone, SInv, FullOK, Settled
  <2> QED
    BY <2>5, <2>6, <2>7
<1> QED
  BY <1>3, <1>4

LEMMA StepBlockSerial ==
  ASSUME SInv, IInv', Block
  PROVE  SInv'
<1>1. UNCHANGED <<srv, got, pending, who, forks, kid, main, pc, round, full>>
  BY DEF Block
<1> QED
  BY <1>1 DEF SInv, Separate, FullOK, Busy, Session, Settled, Asked, Heard, Known, Awaited,
     AwaitedFrom, NoToken, KidsDone

LEMMA StepOpenServerSerial ==
  ASSUME SInv, IInv', Separate', OpenServer
  PROVE  SInv'
<1>1. /\ srv = "open" /\ srv' = IF Writing = {} THEN "wait" ELSE "read"
      /\ pc' = [c \in Client |-> IF pc[c] = "wait" THEN "write" ELSE pc[c]]
      /\ UNCHANGED <<pending, got, who, kid, main, round, full>>
  BY DEF OpenServer, signal
<1>2. ~Settled
  BY <1>1 DEF Settled, NoToken
<1>3. PICK b \in Client : Busy(b)
  BY <1>2, SomebodyBusy
<1>4. \A d \in Client \ {b} : ~Busy(d)' /\ d \notin Writing /\ ~full[d]
  BY <1>1, <1>3, ServerStep DEF Busy, Writing
<1>5. Asked(b)
  BY <1>1, <1>3, ServerStep DEF Session, Settled, Heard, Known, Awaited, NoToken
<1>6. Writing = {} <=> pc[b] # "wait"
  BY <1>4, <1>5 DEF Asked, Writing
<1>7. Asked(b)' \/ Heard(b)'
  BY <1>1, <1>5, <1>6 DEF Asked, Heard, KidsDone
<1>8. FullOK'
  BY <1>1, <1>2 DEF SInv, FullOK
<1>9. Busy(b)'
  BY <1>1, <1>3 DEF Busy
<1> QED
  BY <1>4, <1>7, <1>8, <1>9, Conclude DEF Session

LEMMA StepReadSerial ==
  ASSUME SInv, IInv', Separate', Read \/ ReadNothing
  PROVE  SInv'
<1>1. /\ srv = "read" /\ srv' = "shut"
      /\ UNCHANGED <<pending, got, kid, pc, round, full>>
  BY DEF Read, ReadNothing, signal
<1>2. ~Settled
  BY <1>1 DEF Settled, NoToken
<1>3. PICK b \in Client : Busy(b)
  BY <1>2, SomebodyBusy
<1>4. \A d \in Client \ {b} : ~Busy(d)' /\ ~full[d]
  BY <1>1, <1>3, ServerStep DEF Busy
<1>5. Heard(b)
  BY <1>1, <1>3, ServerStep DEF Session, Settled, Asked, Known, Awaited, NoToken
<1>6. main = <<b>> /\ Read
  <2>1. CASE Read
    BY <1>5, <2>1 DEF Read, Heard
  <2>2. CASE ReadNothing
    <3>1. pc[b] \notin {"write"} /\ main = <<>>
      BY <2>2 DEF ReadNothing, Writing
    <3> QED
      BY <3>1, <1>5 DEF Heard
  <2> QED
    BY <2>1, <2>2
<1>7. who' = b /\ main' = <<>>
  BY <1>6 DEF Read
<1>8. Known(b)'
  BY <1>1, <1>5, <1>6, <1>7 DEF Heard, Known, KidsDone
<1>9. FullOK'
  BY <1>1, <1>2 DEF SInv, FullOK
<1> QED
  BY <1>1, <1>3, <1>4, <1>8, <1>9, Conclude DEF Session, Busy

LEMMA StepForkSerial ==
  ASSUME SInv, IInv', Separate', Fork
  PROVE  SInv'
<1>1. /\ srv = "shut" /\ srv' = "loop" /\ forks' = forks + 1
      /\ main' = Kept(FALSE, Writing, main)
      /\ kid' = [kid EXCEPT ![forks + 1] = [pc |-> "open", for |-> who, round |-> 0]]
      /\ UNCHANGED <<pending, got, pc, round, full>>
  BY DEF Fork, signal
<1>2. ~Settled
  BY <1>1 DEF Settled, NoToken
<1>3. PICK b \in Client : Busy(b)
  BY <1>2, SomebodyBusy
<1>4. \A d \in Client \ {b} : ~Busy(d)' /\ ~full[d]
  BY <1>1, <1>3, ServerStep DEF Busy
<1>5. Known(b) /\ ~full[b]
  BY <1>1, <1>2, <1>3, ServerStep DEF Session, Settled, Asked, Heard, Awaited, NoToken, SInv, FullOK
<1>6. PICK k \in Kid : k = forks + 1
  BY <1>1, Finite DEF SInv, IInv, TypeOK, Kid
<1>7. main' = <<>>
  BY <1>1, <1>5 DEF Known, Kept
<1>8. AwaitedFrom(b, k)'
  <2>1. \A j \in Kid \ {k} : kid'[j] = kid[j]
    BY <1>1, <1>6 DEF SInv, IInv, TypeOK
  <2>2. kid'[k] = [pc |-> "open", for |-> b, round |-> 0]
    BY <1>1, <1>5, <1>6 DEF Known, SInv, IInv, TypeOK
  <2>3. kid'[k].pc = "open" /\ kid'[k].for = b
    BY <2>2
  <2>4. \A j \in Kid \ {k} : kid'[j].pc \in {"unborn", "gone"}
    BY <1>5, <2>1 DEF Known, KidsDone
  <2>5. ~full'[b] /\ pc'[b] \in {"close", "own", "ownwait"}
    BY <1>1, <1>5 DEF Known
  <2> QED
    BY <2>3, <2>4, <2>5 DEF AwaitedFrom
<1>9. Awaited(b)'
  <2>1. NoToken' /\ main' = <<>>
    BY <1>1, <1>5, <1>7 DEF Known, NoToken
  <2> QED
    BY <2>1, <1>8 DEF Awaited
<1>10. FullOK'
  BY <1>1, <1>2 DEF SInv, FullOK
<1> QED
  BY <1>1, <1>3, <1>4, <1>9, <1>10, Conclude DEF Session, Busy

LEMMA StepKidSerial ==
  ASSUME SInv, IInv', Separate', NEW k \in Kid, TimerKid(k)
  PROVE  SInv'
<1>1. /\ kid[k].pc \in {"open", "write"}
      /\ UNCHANGED <<server, main, round>>
      /\ \A j \in Kid \ {k} : kid'[j] = kid[j]
  BY DEF TimerKid, OpenKid, WriteKid, SInv, IInv, TypeOK
<1>2. ~Settled
  BY <1>1 DEF Settled, KidsDone
<1>3. PICK b \in Client : Busy(b)
  BY <1>2, SomebodyBusy
<1>4. Awaited(b)
  BY <1>1, <1>2, <1>3, ServerStep DEF Session, Asked, Heard, Known, KidsDone
<1>5. AwaitedFrom(b, k)
  BY <1>1, <1>4 DEF Awaited, AwaitedFrom
<1>6. NoToken' /\ main' = <<>>
  BY <1>1, <1>4 DEF Awaited, NoToken, server, signal
<1>7. \A d \in Client \ {b} : ~full[d] /\ pc[d] # "ownwait" /\ ~Busy(d)
  BY <1>3, ServerStep DEF Busy
<1>8. CASE OpenKid(k)
  <2>1. Exists(b) /\ b # None /\ kid[k].pc = "open" /\ pc[b] \in {"close", "own", "ownwait"}
    BY <1>5, <1>8, TimerAssumption DEF AwaitedFrom, OpenKid, Exists
  <2>2. /\ kid' = [kid EXCEPT ![k].round = round[b],
                     ![k].pc = IF pc[b] \in {"ownwait", "read"} THEN "write" ELSE "wait"]
        /\ pc' = [pc EXCEPT ![b] = IF @ = "ownwait" THEN "read" ELSE @]
        /\ full' = full
    BY <1>5, <1>8, <2>1 DEF AwaitedFrom, OpenKid
  <2>3. /\ kid'[k].for = b /\ kid'[k].round = round[b]
        /\ kid'[k].pc = IF pc[b] = "ownwait" THEN "write" ELSE "wait"
        /\ pc'[b] = IF pc[b] = "ownwait" THEN "read" ELSE pc[b]
        /\ \A d \in Client \ {b} : pc'[d] = pc[d]
    BY <1>5, <2>1, <2>2 DEF AwaitedFrom, SInv, IInv, TypeOK
  <2>4. AwaitedFrom(b, k)'
    BY <1>1, <1>5, <2>1, <2>2, <2>3 DEF AwaitedFrom
  <2>5. Busy(b)' /\ \A d \in Client \ {b} : ~Busy(d)'
    BY <1>7, <2>1, <2>3 DEF Busy
  <2>6. FullOK'
    BY <1>2, <2>2 DEF SInv, FullOK
  <2> QED
    BY <1>6, <2>4, <2>5, <2>6, Conclude DEF Session, Awaited
<1>9. CASE WriteKid(k)
  <2>1. kid[k].pc = "write" /\ pc[b] = "read" /\ kid[k].for = b
    BY <1>5, <1>9 DEF AwaitedFrom, WriteKid
  <2>2. /\ kid'[k].pc = "gone" /\ pc' = pc
        /\ \A d \in Client \ {b} : full'[d] = full[d]
    BY <1>9, <2>1 DEF WriteKid, SInv, IInv, TypeOK
  <2>3. Settled'
    BY <1>1, <1>5, <1>6, <2>2 DEF Settled, KidsDone, AwaitedFrom
  <2>4. Busy(b)' /\ \A d \in Client \ {b} : ~Busy(d)'
    BY <1>3, <1>7, <2>2 DEF Busy
  <2>5. FullOK'
    BY <1>7, <2>1, <2>2, <2>3 DEF FullOK
  <2> QED
    BY <2>1, <2>2, <2>3, <2>4, <2>5, Conclude DEF Session
<1> QED
  BY <1>8, <1>9 DEF TimerKid

LEMMA NextSInv == SInv /\ [Next /\ Separate']_vars => SInv'
<1> SUFFICES ASSUME SInv, [Next /\ Separate']_vars PROVE SInv'
  OBVIOUS
<1>1. IInv'
  BY NextIInv DEF SInv
<1>2. CASE UNCHANGED vars
  BY <1>1, <1>2 DEF vars, server, signal, number, SInv, Separate, FullOK, Busy, Session, Settled,
     Asked, Heard, Known, Awaited, AwaitedFrom, NoToken, KidsDone
<1>3. CASE Next /\ Separate'
  <2>1. CASE Server \/ Deliver \/ Block \/ Unblock
    BY <1>1, <1>3, <2>1, StepFlagSerial, StepBlockSerial, StepOpenServerSerial, StepReadSerial,
       StepForkSerial DEF Server
  <2>2. ASSUME NEW c \in Client, Launch(c) \/ SeeWhat(c) PROVE SInv'
    BY <1>1, <1>3, <2>2, StepLaunchWork, StepReadNumber, StepAsk, StepOpenMainSerial,
       StepMainSerial, StepOpenOwnSerial, StepReadOwnSerial DEF SeeWhat
  <2>3. ASSUME NEW k \in Kid, TimerKid(k) PROVE SInv'
    BY <1>1, <1>3, <2>3, StepKidSerial
  <2> QED
    BY <1>3, <2>1, <2>2, <2>3 DEF Next
<1> QED
  BY <1>2, <1>3

THEOREM SerialInvariance == SerialSpec => []SInv
  BY InitSInv, NextSInv, PTL DEF SerialSpec

\* A client that nobody disturbs is never killed by SIGPIPE when it writes its
\* pid to the main FIFO (seeWhat.c:237, timerServer.c:195-198).
THEOREM NoneAreKilled == SerialSpec => []NoneKilled
<1>1. SInv => NoneKilled
  BY DEF SInv, NoneKilled, Busy, Session, Asked, Heard, Known, Awaited, AwaitedFrom
<1> QED
  BY <1>1, SerialInvariance, PTL
---------------------------------------------------------------------------
(* Nobody waits for ever: a client that nobody disturbs is waited for by   *)
(* the server or by a child of it, or goes on by itself.                   *)

Born == \A k \in Kid : k > forks => kid[k].pc = "unborn"

\* The matrix that a client has opened its own FIFO for, before it is there.
Sent(c) == \E k \in Kid : kid[k].pc = "write" /\ kid[k].for = c /\ kid[k].round = round[c]
WaitInv == Born /\ \A c \in Client : pc[c] = "read" => full[c] \/ Sent(c)

\* What the actions wait for is there.
ClientReady(c) ==
  \/ pc[c] \in {"signal", "truncate", "store", "mkfifo", "open", "write", "close", "own"}
  \/ pc[c] = "read" /\ full[c]
SignalReady == pending /\ (~blocked \/ srv = "loop")
ServerReady ==
  \/ srv = "loop" /\ got
  \/ srv \in {"open", "shut"}
  \/ srv = "read" /\ (main # <<>> \/ Writing = {})
KidReady(k) == kid[k].pc \in {"open", "write"}

\* In a session the client, the server, the signal or a child for this client can go on.
MovesOn ==
  \A b \in Client : Busy(b) =>
    ClientReady(b) \/ SignalReady \/ ServerReady \/ \E k \in Kid : kid[k].for = b /\ KidReady(k)

\* A step of a client or of the server that touches no child.
LEMMA KidsKept ==
  ASSUME IInv, WaitInv, UNCHANGED <<kid, forks>>,
         \A c \in Client : pc'[c] = "read" =>
           pc[c] = "read" /\ full'[c] = full[c] /\ round'[c] = round[c]
  PROVE  WaitInv'
<1>1. Born'
  BY DEF WaitInv, Born
<1>2. \A c \in Client : pc'[c] = "read" /\ Sent(c) => Sent(c)'
  BY DEF Sent
<1> QED
  BY <1>1, <1>2 DEF WaitInv

LEMMA ClientWaitInv ==
  ASSUME IInv, WaitInv, NEW c \in Client, Launch(c) \/ SeeWhat(c), ~OpenOwn(c)
  PROVE  WaitInv'
<1>0. TypeOK
  BY DEF IInv
<1>1. UNCHANGED <<kid, forks>>
  BY DEF Launch, SeeWhat, ReadNumber, Signal, Truncate, Store, MakeFifo, OpenMain, WriteMain,
     Killed, CloseMain, ReadOwn, Work, server
<1>2. PICK from, to : Goto(c, from, to) /\ to # "read"
  <2>1. CASE OpenMain(c)
    BY <2>1 DEF OpenMain
  <2>2. CASE Work(c)
    BY <2>2 DEF Work
  <2>3. CASE Launch(c) \/ ReadNumber(c) \/ Signal(c) \/ Truncate(c) \/ Store(c) \/ MakeFifo(c)
    BY <2>3 DEF Launch, ReadNumber, Signal, Truncate, Store, MakeFifo
  <2>4. CASE WriteMain(c) \/ Killed(c) \/ CloseMain(c) \/ ReadOwn(c)
    <3>1. \E from, to : Goto(c, from, to) /\ to \in {"close", "dead", "own", "work"}
      <4>1. CASE WriteMain(c)
        BY <4>1 DEF WriteMain
      <4>2. CASE Killed(c)
        BY <4>2 DEF Killed
      <4>3. CASE CloseMain(c)
        BY <4>3 DEF CloseMain
      <4>4. CASE ReadOwn(c)
        BY <4>4 DEF ReadOwn
      <4> QED
        BY <2>4, <4>1, <4>2, <4>3, <4>4
    <3> QED
      BY <3>1
  <2> QED
    BY <2>1, <2>2, <2>3, <2>4 DEF SeeWhat
<1>3. \A d \in Client : d # c => full'[d] = full[d] /\ round'[d] = round[d]
  BY <1>0 DEF Launch, SeeWhat, ReadNumber, Signal, Truncate, Store, MakeFifo, OpenMain, WriteMain,
     Killed, CloseMain, ReadOwn, Work, TypeOK
<1>4. pc'[c] # "read" /\ \A d \in Client : d # c => pc'[d] = pc[d]
  BY <1>0, <1>2, GotoPc
<1> QED
  BY <1>1, <1>3, <1>4, KidsKept

LEMMA OpenOwnWaitInv ==
  ASSUME IInv, WaitInv, NEW c \in Client, OpenOwn(c)
  PROVE  WaitInv'
<1>0. TypeOK
  BY DEF IInv
<1>1. /\ \A k \in Kid : /\ kid'[k].for = kid[k].for /\ kid'[k].round = kid[k].round
                        /\ kid'[k].pc = IF k \in Writers(c) THEN "write" ELSE kid[k].pc
      /\ UNCHANGED <<forks, full, round>>
  BY <1>0 DEF OpenOwn, TypeOK, server
<1>2. /\ pc'[c] = IF Writers(c) = {} THEN "ownwait" ELSE "read"
      /\ \A d \in Client : d # c => pc'[d] = pc[d]
  BY <1>0 DEF OpenOwn, Goto, TypeOK
<1>3. \A d \in Client : Sent(d) => Sent(d)'
  BY <1>1 DEF Sent
<1>4. pc'[c] = "read" => Sent(c)'
  BY <1>1, <1>2 DEF Sent, Writers
<1>5. Born'
  BY <1>1 DEF WaitInv, Born, Writers
<1> QED
  BY <1>1, <1>2, <1>3, <1>4, <1>5 DEF WaitInv

LEMMA ServerWaitInv ==
  ASSUME IInv, WaitInv, Server \/ Deliver \/ Block \/ Unblock
  PROVE  WaitInv'
<1>0. TypeOK
  BY DEF IInv
<1>1. UNCHANGED <<round, full>> /\ \A c \in Client : pc'[c] = "read" => pc[c] = "read"
  BY DEF Server, Take, OpenServer, Read, ReadNothing, Fork, Deliver, Block, Unblock
<1>2. CASE Fork
  <2>1. /\ forks' = forks + 1 /\ forks \in Nat
        /\ \A k \in Kid : k # forks + 1 => kid'[k] = kid[k]
    BY <1>0, <1>2, Finite DEF Fork, TypeOK
  <2>2. Born' /\ \A k \in Kid : kid[k].pc = "write" => kid'[k] = kid[k]
    BY <2>1 DEF WaitInv, Born, Kid
  <2>3. \A c \in Client : Sent(c) => Sent(c)'
    BY <1>1, <2>2 DEF Sent
  <2> QED
    BY <1>1, <2>2, <2>3 DEF WaitInv
<1>3. CASE ~Fork
  <2>1. UNCHANGED <<kid, forks>>
    BY <1>3 DEF Server, Take, OpenServer, Read, ReadNothing, Deliver, Block, Unblock
  <2> QED
    BY <1>1, <2>1, KidsKept
<1> QED
  BY <1>2, <1>3

LEMMA KidWaitInv ==
  ASSUME IInv, WaitInv, NEW k \in Kid, TimerKid(k)
  PROVE  WaitInv'
<1>0. TypeOK
  BY DEF IInv
<1>1. /\ UNCHANGED <<round, forks>> /\ kid[k].pc \in {"open", "write"}
      /\ kid'[k].for = kid[k].for /\ \A j \in Kid : j # k => kid'[j] = kid[j]
  BY <1>0 DEF TimerKid, OpenKid, WriteKid, TypeOK, server
<1>2. Born'
  BY <1>1 DEF WaitInv, Born
<1>3. \A c \in Client : Sent(c) => Sent(c)' \/ (kid[k].pc = "write" /\ kid[k].for = c /\ kid[k].round = round[c])
  BY <1>1 DEF Sent
<1>4. CASE OpenKid(k)
  <2>1. kid[k].pc = "open" /\ full' = full
    BY <1>4 DEF OpenKid
  <2>2. ASSUME NEW c \in Client, pc'[c] = "read", pc[c] # "read" PROVE Sent(c)'
    <3>1. /\ kid[k].for = c /\ pc[c] = "ownwait"
          /\ kid' = [kid EXCEPT ![k].round = round[kid[k].for],
                      ![k].pc = IF pc[kid[k].for] \in {"ownwait", "read"} THEN "write" ELSE "wait"]
      BY <1>0, <1>4, <2>2 DEF OpenKid, TypeOK
    <3>2. kid'[k].pc = "write" /\ kid'[k].for = c /\ kid'[k].round = round'[c]
      BY <1>0, <1>1, <3>1 DEF TypeOK
    <3> QED
      BY <3>2 DEF Sent
  <2> QED
    BY <1>2, <1>3, <2>1, <2>2 DEF WaitInv
<1>5. CASE WriteKid(k)
  <2>1. /\ pc' = pc
        /\ \A c \in Client : full[c] => full'[c]
        /\ \A c \in Client : pc[c] = "read" /\ kid[k].for = c /\ kid[k].round = round[c] => full'[c]
    BY <1>0, <1>5 DEF WriteKid, TypeOK
  <2> QED
    BY <1>2, <1>3, <2>1 DEF WaitInv
<1> QED
  BY <1>4, <1>5 DEF TimerKid

\* A client that has opened its FIFO has a child that writes to it, whatever the other clients
\* and the signals do.
THEOREM WaitInvariance == Spec => []WaitInv
<1>1. Init => WaitInv
  BY DEF Init, WaitInv, Born
<1>2. IInv /\ WaitInv /\ [Next]_vars => WaitInv'
  <2> SUFFICES ASSUME IInv, WaitInv, [Next]_vars PROVE WaitInv'
    OBVIOUS
  <2>1. CASE UNCHANGED vars
    BY <2>1, KidsKept DEF vars, server
  <2>2. CASE Next
    BY <2>2, ClientWaitInv, OpenOwnWaitInv, ServerWaitInv, KidWaitInv DEF Next, SeeWhat
  <2> QED
    BY <2>1, <2>2
<1> QED
  BY <1>1, <1>2, Invariance, PTL DEF Spec

\* Neither the server nor a client that nobody disturbs waits for ever in an open or a read of
\* the main FIFO or of the client's, whatever the mask holds: the safety half of Served
\* (timerServer.c:171-226, seeWhat.c:212-249).
THEOREM NeverStuck == SerialSpec => []MovesOn
<1>1. SInv /\ WaitInv => MovesOn
  <2> SUFFICES ASSUME SInv, WaitInv, NEW b \in Client, Busy(b),
                      ~ClientReady(b), ~SignalReady, ~ServerReady,
                      \A k \in Kid : kid[k].for = b => ~KidReady(k)
               PROVE  FALSE
    BY DEF MovesOn
  <2>1. Session(b)
    BY DEF SInv
  <2>2. ~(pc[b] \in {"signal", "read"} /\ Settled)
    BY DEF ClientReady, Settled, KidsDone, WaitInv, Sent
  <2>3. ~Asked(b)
    BY DEF ClientReady, SignalReady, ServerReady, Asked
  <2>4. ~Heard(b)
    BY DEF ClientReady, ServerReady, Heard
  <2>5. ~Known(b)
    BY DEF ServerReady, Known
  <2>6. ~Awaited(b)
    BY DEF ClientReady, KidReady, Awaited, AwaitedFrom
  <2> QED
    BY <2>1, <2>2, <2>3, <2>4, <2>5, <2>6 DEF Session
<1>2. [Next /\ Separate']_vars => [Next]_vars
  OBVIOUS
<1>3. SerialSpec => Spec
  BY <1>2, PTL DEF SerialSpec, Spec
<1> QED
  BY <1>1, <1>3, SerialInvariance, WaitInvariance, PTL

\* How far a client is with its round, a child with its matrix, and what the signals and the
\* flag still have the server do.
Place(p) ==
  CASE p = "idle" -> 0 [] p = "sleep" -> 1 [] p = "signal" -> 2 [] p = "truncate" -> 3
    [] p = "store" -> 4 [] p = "mkfifo" -> 5 [] p = "open" -> 6 [] p = "wait" -> 7
    [] p = "write" -> 8 [] p = "close" -> 9 [] p = "own" -> 10 [] p = "ownwait" -> 11
    [] p = "read" -> 12 [] p = "work" -> 13 [] p \in {"done", "dead"} -> 14
Stage(s) ==
  CASE s = "unborn" -> 0 [] s = "open" -> 1 [] s = "wait" -> 2 [] s = "write" -> 3 [] s = "gone" -> 4
Left(s) ==
  CASE s = "open" -> 4 [] s = "wait" -> 3 [] s = "read" -> 2 [] s = "shut" -> 1 [] s = "loop" -> 0
Burden == 6 * One(pending) + 5 * One(got) + Left(srv)

ClientLater(c) == round[c] < round'[c] \/ (round'[c] = round[c] /\ Place(pc[c]) < Place(pc'[c]))
ClientSame(c) == round'[c] = round[c] /\ pc'[c] = pc[c]
KidLater(k) == Stage(kid[k].pc) < Stage(kid'[k].pc)
KidSame(k) == kid'[k] = kid[k]
Polls == blocked' # blocked /\ UNCHANGED <<srv, got, pending, kid, pc, round>>

Onwards ==
  /\ \A c \in Client : ClientLater(c) \/ ClientSame(c)
  /\ \A k \in Kid : KidLater(k) \/ KidSame(k)
  /\ \/ \E c \in Client : ClientLater(c)
     \/ Burden' < Burden
     \/ Burden' = Burden /\ \E k \in Kid : KidLater(k)
     \/ Polls

LEMMA ClientOnwards ==
  ASSUME IInv, NEW c \in Client, Launch(c) \/ SeeWhat(c)
  PROVE  Onwards
<1>0. TypeOK
  BY DEF IInv
<1>1. /\ \A d \in Client : d # c => ClientSame(d)
      /\ ClientLater(c)
  <2>1. CASE Work(c)
    BY <1>0, <2>1 DEF Work, Goto, TypeOK, ClientSame, ClientLater, Place, Round
  <2>2. ASSUME NEW from, NEW to, Goto(c, from, to), Place(from) < Place(to), round' = round
        PROVE  (\A d \in Client : d # c => ClientSame(d)) /\ ClientLater(c)
    BY <1>0, <2>2, GotoPc DEF ClientSame, ClientLater
  <2>3. CASE Launch(c) \/ ReadNumber(c) \/ Signal(c) \/ Truncate(c) \/ Store(c) \/ MakeFifo(c)
    <3>1. PICK from, to : Goto(c, from, to) /\ Place(from) < Place(to)
      BY <2>3 DEF Launch, ReadNumber, Signal, Truncate, Store, MakeFifo, Place
    <3>2. round' = round
      BY <2>3 DEF Launch, ReadNumber, Signal, Truncate, Store, MakeFifo
    <3> QED
      BY <2>2, <3>1, <3>2
  <2>4. CASE OpenMain(c) \/ WriteMain(c) \/ Killed(c) \/ CloseMain(c) \/ OpenOwn(c) \/ ReadOwn(c)
    <3>1. PICK from, to : Goto(c, from, to) /\ Place(from) < Place(to)
      <4>1. CASE OpenMain(c)
        BY <4>1 DEF OpenMain, Place
      <4>2. CASE OpenOwn(c)
        BY <4>2 DEF OpenOwn, Place
      <4>3. CASE WriteMain(c)
        BY <4>3 DEF WriteMain, Place
      <4>4. CASE Killed(c)
        BY <4>4 DEF Killed, Place
      <4>5. CASE CloseMain(c)
        BY <4>5 DEF CloseMain, Place
      <4>6. CASE ReadOwn(c)
        BY <4>6 DEF ReadOwn, Place
      <4> QED
        BY <2>4, <4>1, <4>2, <4>3, <4>4, <4>5, <4>6
    <3>2. round' = round
      BY <2>4 DEF OpenMain, WriteMain, Killed, CloseMain, OpenOwn, ReadOwn
    <3> QED
      BY <2>2, <3>1, <3>2
  <2> QED
    BY <2>1, <2>3, <2>4 DEF SeeWhat
<1>2. ASSUME NEW k \in Kid PROVE KidLater(k) \/ KidSame(k)
  <2>1. CASE OpenOwn(c)
    BY <1>0, <2>1 DEF OpenOwn, Writers, TypeOK, KidLater, KidSame, Stage
  <2>2. CASE ~OpenOwn(c)
    BY <2>2 DEF Launch, SeeWhat, ReadNumber, Signal, Truncate, Store, MakeFifo, OpenMain, WriteMain,
       Killed, CloseMain, ReadOwn, Work, KidSame
  <2> QED
    BY <2>1, <2>2
<1> QED
  BY <1>1, <1>2 DEF Onwards

LEMMA ServerOnwards ==
  ASSUME IInv, WaitInv, Server \/ Deliver \/ Block \/ Unblock
  PROVE  Onwards
<1>0. TypeOK
  BY DEF IInv
<1>1. \A c \in Client : ClientLater(c) \/ ClientSame(c)
  <2>1. CASE OpenServer
    BY <1>0, <2>1 DEF OpenServer, ClientLater, ClientSame, Place
  <2>2. CASE ~OpenServer
    BY <2>2 DEF Server, Take, Read, ReadNothing, Fork, Deliver, Block, Unblock, ClientSame
  <2> QED
    BY <2>1, <2>2
<1>2. ASSUME NEW k \in Kid PROVE KidLater(k) \/ KidSame(k)
  <2>1. CASE Fork
    <3>1. k # forks + 1 => KidSame(k)
      BY <1>0, <2>1 DEF Fork, TypeOK, KidSame
    <3>2. k = forks + 1 => kid[k].pc = "unborn" /\ kid'[k].pc = "open"
      BY <1>0, <2>1, Finite DEF Fork, TypeOK, WaitInv, Born, Kid
    <3> QED
      BY <3>1, <3>2 DEF KidLater, Stage
  <2>2. CASE ~Fork
    BY <2>2 DEF Server, Take, OpenServer, Read, ReadNothing, Deliver, Block, Unblock, KidSame
  <2> QED
    BY <2>1, <2>2
<1>3. Burden' < Burden \/ Polls
  <2>1. CASE Deliver
    BY <1>0, <2>1 DEF Deliver, Burden, One, Left, TypeOK
  <2>2. CASE Unblock
    <3>1. /\ UNCHANGED <<srv, kid, pc, round>> /\ blocked' # blocked /\ Left(srv) \in Nat
          /\ pending' = FALSE /\ got' = (got \/ pending) /\ got \in BOOLEAN /\ got' \in BOOLEAN
      BY <1>0, <2>2 DEF Unblock, Caught, TypeOK, Left
    <3>2. CASE pending
      <4>1. One(pending) = 1 /\ One(pending') = 0 /\ One(got') = 1 /\ One(got) \in {0, 1}
        BY <3>1, <3>2 DEF One
      <4> QED
        BY <3>1, <4>1 DEF Burden
    <3>3. CASE ~pending
      <4>1. pending' = pending /\ got' = got
        <5>1. pending = FALSE
          BY <1>0, <3>3 DEF TypeOK
        <5> QED
          BY <3>1, <5>1
      <4> QED
        BY <3>1, <4>1 DEF Polls
    <3> QED
      BY <3>2, <3>3
  <2>3. CASE Block
    BY <2>3 DEF Block, Polls
  <2>4. CASE Take
    BY <1>0, <2>4 DEF Take, Taken, Burden, One, Left, TypeOK
  <2>5. CASE OpenServer \/ Read \/ ReadNothing \/ Fork
    <3>1. pending' = pending /\ got' = got
      BY <2>5 DEF OpenServer, Read, ReadNothing, Fork, signal
    <3>2. Left(srv') < Left(srv) /\ Left(srv) \in Nat /\ Left(srv') \in Nat
      <4>1. CASE OpenServer
        BY <4>1 DEF OpenServer, Left
      <4>2. CASE Read \/ ReadNothing
        <5>1. srv = "read" /\ srv' = "shut"
          BY <4>2 DEF Read, ReadNothing
        <5> QED
          BY <5>1 DEF Left
      <4>3. CASE Fork
        <5>1. srv = "shut" /\ srv' = "loop"
          BY <4>3 DEF Fork
        <5> QED
          BY <5>1 DEF Left
      <4> QED
        BY <2>5, <4>1, <4>2, <4>3
    <3> QED
      BY <3>1, <3>2 DEF Burden, One
  <2> QED
    BY <2>1, <2>2, <2>3, <2>4, <2>5 DEF Server
<1> QED
  BY <1>1, <1>2, <1>3 DEF Onwards

LEMMA KidOnwards ==
  ASSUME IInv, NEW k \in Kid, TimerKid(k)
  PROVE  Onwards
<1>0. TypeOK
  BY DEF IInv
<1>1. \A j \in Kid : j # k => KidSame(j)
  BY <1>0 DEF TimerKid, OpenKid, WriteKid, TypeOK, KidSame
<1>2. KidLater(k)
  <2>1. CASE OpenKid(k)
    <3>1. kid[k].pc = "open" /\ kid'[k].pc \in {"gone", "write", "wait"}
      BY <1>0, <2>1 DEF OpenKid, TypeOK
    <3> QED
      BY <3>1 DEF KidLater, Stage
  <2>2. CASE WriteKid(k)
    BY <1>0, <2>2 DEF WriteKid, TypeOK, KidLater, Stage
  <2> QED
    BY <2>1, <2>2 DEF TimerKid
<1>3. \A c \in Client : ClientLater(c) \/ ClientSame(c)
  <2>1. round' = round /\ \A c \in Client : pc'[c] = pc[c] \/ (pc[c] = "ownwait" /\ pc'[c] = "read")
    BY <1>0 DEF TimerKid, OpenKid, WriteKid, TypeOK
  <2>2. Place("ownwait") < Place("read")
    BY DEF Place
  <2> QED
    BY <2>1, <2>2 DEF ClientLater, ClientSame
<1>4. Burden' = Burden
  BY DEF TimerKid, OpenKid, WriteKid, server, signal, Burden
<1> QED
  BY <1>1, <1>2, <1>3, <1>4 DEF Onwards

\* Every step takes a client or a child on, or leaves the server less to do, and none goes
\* back, disturbed or not; the one exception is a turn of the loop in which the server blocks
\* SIGUSR1 or unblocks it and finds nothing. The rounds are bounded.
THEOREM NoStepBack == Spec => [][Onwards]_vars
<1>1. IInv /\ WaitInv /\ [Next]_vars => [Onwards]_vars
  BY ClientOnwards, ServerOnwards, KidOnwards DEF Next
<1> QED
  BY <1>1, Invariance, WaitInvariance, PTL DEF Spec
===========================================================================
