------------------------- MODULE ResultRelay_proofs -------------------------
(***************************************************************************)
(* Proofs about ResultRelay, for any finite number of clients, any number  *)
(* of matrices each of them gets, and any set of late children.            *)
(*                                                                         *)
(* Whatever other clients do, a client whose children have been in time so *)
(* far holds at each of its steps the one FIFO that belongs there. A child *)
(* that is late makes nothing sure any more about its own client, but      *)
(* changes nothing for the others: FIFOs are named after clients.          *)
(*                                                                         *)
(* Late or not, a FIFO that is there has its writer, so that no open and   *)
(* no read waits for ever (NeverStuck), and every step leads on.           *)
(***************************************************************************)
EXTENDS ResultRelay, SequenceTheorems, TLAPS

Step == {"ask", "fork", "nap1", "fork2", "nap2", "send", "sendwait", "package", "sent"}
Pack == [client : Client, round : Nat, inverse : Worker \cup {None},
         convolution : Worker \cup {None}]

TypeOK ==
  /\ pc \in [Client -> Step \cup Over]
  /\ round \in [Client -> Nat] /\ \A c \in Client : round[c] \in 1 .. Rounds[c]
  /\ inverse \in [Client -> Worker \cup {None}]
  /\ convolution \in [Client -> Worker \cup {None}]
  /\ worker \in [Worker -> {"unborn", "born", "compute", "wait", "gone"}]
  /\ path \in [Client -> Worker \cup {None}] /\ \A c \in Client : path[c] \in By(c) \cup {None}
  /\ show \in {"open", "wait", "read", "close", "gone"}
  /\ box \in Seq(Pack) /\ shown \in Seq(Pack)
  /\ own \subseteq Client /\ named \subseteq Client /\ missed \subseteq Worker

\* Nothing of a client is under way.
Resting(c) ==
  /\ path[c] = None
  /\ \A w \in By(c) : worker[w] \in {"unborn", "gone"}

\* Only this child is, and the FIFO is there as soon as it waits for its reader.
Busy(c, w) ==
  /\ worker[w] \in {"born", "compute", "wait"}
  /\ path[c] = IF worker[w] = "wait" THEN w ELSE None
  /\ \A v \in By(c) : v # w => worker[v] \in {"unborn", "gone"}

HasInverse == {"fork2", "nap2", "send", "sendwait", "package", "sent"}
HasBoth == {"send", "sendwait", "package", "sent"}

\* Where a client stands that no child has kept waiting.
Phase(c) ==
  /\ pc[c] # "failed"
  /\ pc[c] \notin {"nap1", "nap2"} => Resting(c)
  /\ pc[c] = "nap1" => Busy(c, Own(c, "inverse"))
  /\ pc[c] = "nap2" => Busy(c, Own(c, "convolution"))
  /\ pc[c] \in HasInverse => inverse[c] = Own(c, "inverse")
  /\ pc[c] \in HasBoth => convolution[c] = Own(c, "convolution")

\* After SIGINT nothing is left of any client but what Shutdown cannot know of.
Stopped(c) ==
  /\ pc[c] \in Over
  /\ \A w \in By(c) : worker[w] \in {"unborn", "gone"} \/ w \in missed
  /\ path[c] # None => c \notin named \/ path[c] \in missed

Steady ==
  /\ show # "gone" => missed = {}
  /\ \A c \in Client : InTime(c, round[c]) =>
       IF show = "gone" THEN pc[c] # "failed" ELSE Phase(c)
  /\ show = "gone" => \A c \in Client : Stopped(c)

\* The results of a package are those of its matrix.
OfRound(p) ==
  InTime(p.client, p.round) =>
    /\ p.inverse = [client |-> p.client, round |-> p.round, kind |-> "inverse"]
    /\ p.convolution = [client |-> p.client, round |-> p.round, kind |-> "convolution"]

\* A package is about a matrix its client is done with.
Past(p) ==
  /\ p.round <= round[p.client]
  /\ p.round = round[p.client] => pc[p.client] \in {"sent"} \cup Over

Before(p, q) == p.client = q.client => p.round < q.round

\* What was shown comes before what is in the FIFO, and that in the order of the FIFO.
Ordered ==
  /\ \A i \in DOMAIN shown : OfRound(shown[i]) /\ Past(shown[i])
  /\ \A i \in DOMAIN box : OfRound(box[i]) /\ Past(box[i])
  /\ \A i, j \in DOMAIN shown : i < j => Before(shown[i], shown[j])
  /\ \A i, j \in DOMAIN box : i < j => Before(box[i], box[j])
  /\ \A i \in DOMAIN shown, j \in DOMAIN box : Before(shown[i], box[j])

\* A client has its own FIFO from mkfifo to unlink, and keeps it if it ends in between, but at
\* SIGINT.
Owned == \A c \in Client : c \in own <=> show # "gone" /\ pc[c] \notin {"ask", "done", "killed"}

IInv == TypeOK /\ Owned /\ Steady /\ Ordered
---------------------------------------------------------------------------
(* Types *)

LEMMA Family ==
  /\ \A w \in Worker : w.client \in Client /\ w \in By(w.client)
  /\ \A c \in Client : \A w \in By(c) : w \in Worker /\ w.client = c
BY RelayAssumption DEF Worker, By

LEMMA OwnChild ==
  ASSUME TypeOK, NEW c \in Client, NEW kind \in {"inverse", "convolution"}
  PROVE  Own(c, kind) \in By(c) /\ Own(c, kind) \in Worker
<1>1. Own(c, kind) \in By(c)
  BY RelayAssumption DEF TypeOK, Own, By
<1> QED
  BY <1>1, Family

LEMMA InitType == Init => TypeOK
<1> SUFFICES ASSUME Init PROVE TypeOK
  OBVIOUS
<1>1. \A c \in Client : Rounds[c] \in Nat \ {0}
  BY RelayAssumption
<1>2. box \in Seq(Pack) /\ shown \in Seq(Pack)
  BY DEF Init
<1>3. \A c \in Client : round[c] = 1
  BY DEF Init
<1> QED
  BY <1>1, <1>2, <1>3 DEF Init, TypeOK, Step, Over

LEMMA KeptType ==
  ASSUME box \in Seq(Pack), NEW readers, NEW writers
  PROVE  Kept(readers, writers) \in Seq(Pack)
BY EmptySeq DEF Kept

LEMMA GotoPc ==
  ASSUME TypeOK, NEW c \in Client, NEW from, NEW to, Goto(c, from, to)
  PROVE  /\ pc[c] = from /\ pc'[c] = to
         /\ \A d \in Client : d # c => pc'[d] = pc[d]
         /\ to \in Step \cup Over => pc' \in [Client -> Step \cup Over]
BY DEF TypeOK, Goto

LEMMA ChildType ==
  ASSUME TypeOK, NEW w \in Worker, Child(w)
  PROVE  TypeOK'
<1>1. w.client \in Client
  BY Family
<1>2. CASE SavePid(w)
  BY <1>2 DEF SavePid, Move, TypeOK, client, result
<1>3. CASE MakeFifo(w)
  <2>1. path' \in [Client -> Worker \cup {None}]
    BY <1>1, <1>3 DEF MakeFifo, TypeOK
  <2>2. worker' \in [Worker -> {"unborn", "born", "compute", "wait", "gone"}]
    BY <1>3 DEF MakeFifo, Move, TypeOK
  <2>3. \A c \in Client : path'[c] \in By(c) \cup {None}
    BY <1>1, <1>3, Family DEF MakeFifo, TypeOK
  <2> QED
    BY <1>3, <2>1, <2>2, <2>3 DEF MakeFifo, TypeOK, client, result
<1> QED
  BY <1>2, <1>3 DEF Child

LEMMA ClientType ==
  ASSUME TypeOK, NEW c \in Client, SeeWhat(c)
  PROVE  TypeOK'
<1> USE DEF client, child, result, Step, Over
<1>0. CASE Ask(c)
  <2>1. (IF c \in own THEN "failed" ELSE "fork") \in Step \cup Over
    OBVIOUS
  <2>2. pc' \in [Client -> Step \cup Over]
    BY <1>0, <2>1, GotoPc DEF Ask
  <2> QED
    BY <1>0, <2>2 DEF Ask, TypeOK
<1>1. CASE Fork1(c)
  <2>1. Own(c, "inverse") \in Worker
    BY OwnChild
  <2> QED
    BY <1>1, <2>1 DEF Fork1, Fork, Goto, TypeOK
<1>2. CASE Fork2(c)
  <2>1. Own(c, "convolution") \in Worker
    BY OwnChild
  <2> QED
    BY <1>2, <2>1 DEF Fork2, Fork, Goto, TypeOK
<1>3. CASE Read1(c)
  <2>1. path[c] \in Worker
    BY <1>3 DEF Read1, Fetch, TypeOK
  <2> QED
    BY <1>3, <2>1 DEF Read1, Fetch, Goto, Unlinked, Result, TypeOK
<1>4. CASE Skip1(c)
  BY <1>4 DEF Skip1, Goto, TypeOK
<1>5. CASE Read2(c)
  <2>1. path[c] \in Worker
    BY <1>5 DEF Read2, Fetch, TypeOK
  <2> QED
    BY <1>5, <2>1 DEF Read2, Fetch, Goto, Unlinked, Result, TypeOK
<1>6. CASE Fail2(c)
  BY <1>6 DEF Fail2, Goto, TypeOK
<1>7. CASE OpenShow(c)
  BY <1>7 DEF OpenShow, Goto, TypeOK
<1>8. CASE WritePackage(c)
  <2>1. Package(c) \in Pack
    BY DEF Package, Pack, TypeOK
  <2>2. box' \in Seq(Pack)
    BY <1>8, <2>1, AppendProperties DEF WritePackage, TypeOK
  <2> QED
    BY <1>8, <2>2 DEF WritePackage, Goto, TypeOK
<1>9. CASE Killed(c)
  BY <1>9, KeptType DEF Killed, Goto, TypeOK
<1>10. CASE CloseShow(c)
  <2>1. Rounds[c] \in Nat /\ round[c] \in 1 .. Rounds[c]
    BY RelayAssumption DEF TypeOK
  <2>2. round'[c] \in 1 .. Rounds[c] /\ \A d \in Client : d # c => round'[d] = round[d]
    BY <1>10, <2>1 DEF CloseShow, TypeOK
  <2>3. round' \in [Client -> Nat]
    BY <1>10, <2>1 DEF CloseShow, TypeOK
  <2>4. \A d \in Client : round'[d] \in 1 .. Rounds[d]
    BY <2>2 DEF TypeOK
  <2> QED
    BY <1>10, <2>3, <2>4, KeptType DEF CloseShow, Goto, TypeOK
<1> QED
  BY <1>0, <1>1, <1>2, <1>3, <1>4, <1>5, <1>6, <1>7, <1>8, <1>9, <1>10 DEF SeeWhat

LEMMA ShowType ==
  ASSUME TypeOK, ShowResult
  PROVE  TypeOK'
<1> USE DEF client, child, Step, Over
<1>1. CASE OpenResults
  BY <1>1 DEF OpenResults, TypeOK
<1>2. CASE Show
  <2>1. Head(box) \in Pack /\ Tail(box) \in Seq(Pack)
    BY <1>2, HeadTailProperties DEF Show, TypeOK
  <2>2. shown' \in Seq(Pack)
    BY <1>2, <2>1, AppendProperties DEF Show, TypeOK
  <2> QED
    BY <1>2, <2>1, <2>2 DEF Show, Taken, TypeOK
<1>3. CASE EmptyRead
  BY <1>3 DEF EmptyRead, TypeOK
<1>4. CASE CloseResults
  BY <1>4, KeptType DEF CloseResults, TypeOK
<1> QED
  BY <1>1, <1>2, <1>3, <1>4 DEF ShowResult

LEMMA ShutdownType ==
  ASSUME TypeOK, Shutdown
  PROVE  TypeOK'
<1>1. box' \in Seq(Pack)
  BY EmptySeq DEF Shutdown
<1>2. worker' \in [Worker -> {"unborn", "born", "compute", "wait", "gone"}]
  BY DEF Shutdown, TypeOK
<1> QED
  BY <1>1, <1>2 DEF Shutdown, TypeOK, Step, Over

LEMMA StepType == TypeOK /\ [Next]_vars => TypeOK'
<1>1. ASSUME TypeOK, UNCHANGED vars PROVE TypeOK'
  BY <1>1 DEF TypeOK, vars, client, child, result
<1> QED
  BY <1>1, ChildType, ClientType, ShowType, ShutdownType DEF Next
---------------------------------------------------------------------------
(* Steady *)

\* What is said of a client stays so as long as nothing of it changes.
Same(c) ==
  /\ pc'[c] = pc[c] /\ round'[c] = round[c] /\ path'[c] = path[c]
  /\ inverse'[c] = inverse[c] /\ convolution'[c] = convolution[c]
  /\ \A w \in By(c) : worker'[w] = worker[w]

LEMMA SamePhase ==
  ASSUME TypeOK, NEW c \in Client, Same(c), Phase(c)
  PROVE  Phase(c)'
<1>1. ASSUME NEW kind PROVE Own(c, kind)' = Own(c, kind)
  BY DEF Same, Own
<1>2. Resting(c) => Resting(c)'
  BY DEF Same, Resting
<1>3. ASSUME NEW kind \in {"inverse", "convolution"}, Busy(c, Own(c, kind))
      PROVE  Busy(c, Own(c, kind))'
  <2>1. Own(c, kind) \in By(c)
    BY OwnChild
  <2> QED
    BY <1>1, <1>3, <2>1 DEF Same, Busy
<1>4. /\ Own(c, "inverse")' = Own(c, "inverse")
      /\ Own(c, "convolution")' = Own(c, "convolution")
  BY <1>1
<1> QED
  BY <1>2, <1>3, <1>4 DEF Phase, Same

LEMMA InTimeStep ==
  ASSUME TypeOK, late' = late, NEW c \in Client, NEW m \in Nat, NEW n \in Nat, m <= n
  PROVE  /\ InTime(c, n)' <=> InTime(c, n)
         /\ InTime(c, n) => InTime(c, m)
<1>1. \A w \in By(c) : w.round \in Nat
  BY RelayAssumption DEF By
<1> QED
  BY <1>1 DEF InTime

\* A step before SIGINT that concerns one client.
LEMMA SteadyOne ==
  ASSUME TypeOK, Steady, NEW c \in Client, show # "gone", show' # "gone", late' = late,
         missed' = missed, round'[c] \in Nat, round[c] <= round'[c],
         \A d \in Client : d # c => Same(d),
         InTime(c, round[c]) /\ Phase(c) => Phase(c)'
  PROVE  Steady'
<1>1. ASSUME NEW d \in Client, InTime(d, round[d])' PROVE Phase(d)'
  <2>1. CASE d = c
    <3>1. InTime(c, round[c])
      BY <1>1, <2>1, InTimeStep DEF TypeOK, InTime
    <3> QED
      BY <2>1, <3>1 DEF Steady
  <2>2. CASE d # c
    <3>1. round'[d] = round[d]
      BY <2>2 DEF Same
    <3>2. InTime(d, round[d])
      BY <1>1, <3>1 DEF InTime
    <3> QED
      BY <2>2, <3>2, SamePhase DEF Steady
  <2> QED
    BY <2>1, <2>2
<1> QED
  BY <1>1 DEF Steady

LEMMA InitSteady == Init => Steady
<1> SUFFICES ASSUME Init PROVE Steady
  OBVIOUS
<1>1. ASSUME NEW c \in Client PROVE Phase(c)
  <2>1. \A w \in By(c) : w \in Worker
    BY Family
  <2>2. Resting(c)
    BY <2>1 DEF Init, Resting
  <2> QED
    BY <2>2 DEF Init, Phase, HasInverse, HasBoth
<1> QED
  BY <1>1 DEF Init, Steady

\* A child of another client changes nothing of this one.
LEMMA ChildOfOne ==
  ASSUME TypeOK, NEW w \in Worker, Child(w)
  PROVE  /\ UNCHANGED <<late, client, result, named, missed>>
         /\ \A d \in Client : d # w.client => Same(d)
<1>1. UNCHANGED <<late, client, result, named, missed>>
  BY DEF Child, SavePid, MakeFifo
<1>2. \A v \in Worker : v # w => worker'[v] = worker[v]
  BY DEF Child, SavePid, MakeFifo, Move, TypeOK
<1>3. \A d \in Client : d # w.client => path'[d] = path[d]
  BY DEF Child, SavePid, MakeFifo, TypeOK
<1>4. ASSUME NEW d \in Client, d # w.client PROVE Same(d)
  <2>1. \A v \in By(d) : v \in Worker /\ v # w
    BY <1>4, Family
  <2> QED
    BY <1>1, <1>2, <1>3, <1>4, <2>1 DEF Same, client
<1> QED
  BY <1>1, <1>4

\* In time, the child that moves is the one its client waits for.
LEMMA ChildPhase ==
  ASSUME TypeOK, NEW w \in Worker, Child(w), Phase(w.client)
  PROVE  Phase(w.client)'
<1> DEFINE c == w.client
<1>1. c \in Client /\ w \in By(c)
  BY Family
<1>2. worker[w] \in {"born", "compute"}
  BY DEF Child, SavePid, MakeFifo, Move
<1>3. ~Resting(c)
  BY <1>1, <1>2 DEF Resting
<1>4. /\ pc'[c] = pc[c] /\ round'[c] = round[c]
      /\ inverse'[c] = inverse[c] /\ convolution'[c] = convolution[c]
  BY <1>1, ChildOfOne DEF client
<1>5. ASSUME NEW kind \in {"inverse", "convolution"}, Busy(c, Own(c, kind))
      PROVE  Busy(c, Own(c, kind))'
  <2>1. Own(c, kind)' = Own(c, kind) /\ Own(c, kind) \in By(c)
    BY <1>1, <1>4, OwnChild DEF Own
  <2>2. w = Own(c, kind)
    BY <1>1, <1>2, <1>5 DEF Busy
  <2>3. path[c] = None
    BY <1>2, <1>5, <2>2 DEF Busy
  <2>4. \A v \in By(c) : v # w => worker'[v] = worker[v]
    BY Family, <1>1 DEF Child, SavePid, MakeFifo, Move, TypeOK
  <2>5. CASE SavePid(w)
    <3>1. worker'[w] = "compute" /\ path'[c] = None
      BY <2>3, <2>5 DEF SavePid, Move, TypeOK
    <3> QED
      BY <1>5, <2>1, <2>2, <2>4, <3>1 DEF Busy
  <2>6. CASE MakeFifo(w)
    <3>1. worker'[w] = "wait" /\ path'[c] = w
      BY <1>1, <2>3, <2>6 DEF MakeFifo, Move, TypeOK
    <3> QED
      BY <1>5, <2>1, <2>2, <2>4, <3>1 DEF Busy
  <2> QED
    BY <2>5, <2>6 DEF Child
<1>6. /\ Own(c, "inverse")' = Own(c, "inverse")
      /\ Own(c, "convolution")' = Own(c, "convolution")
  BY <1>4 DEF Own
<1>7. pc[c] \in {"nap1", "nap2"}
  BY <1>3 DEF Phase
<1> QED
  BY <1>4, <1>5, <1>6, <1>7 DEF Phase

\* After SIGINT a child that goes on is one of those missed.
LEMMA ChildStopped ==
  ASSUME TypeOK, NEW w \in Worker, Child(w), \A c \in Client : Stopped(c), NEW c \in Client
  PROVE  Stopped(c)'
<1>1. /\ pc'[c] = pc[c] /\ named' = named /\ missed' = missed
  BY ChildOfOne DEF client
<1>2. w \in missed
  BY Family DEF Stopped, Child, SavePid, MakeFifo, Move
<1>3. \A v \in By(c) : v # w => worker'[v] = worker[v]
  BY Family DEF Child, SavePid, MakeFifo, Move, TypeOK
<1>4. path'[c] \in {path[c], w}
  BY Family DEF Child, SavePid, MakeFifo, TypeOK
<1> QED
  BY <1>1, <1>2, <1>3, <1>4 DEF Stopped

LEMMA ChildSteady ==
  ASSUME TypeOK, Steady, NEW w \in Worker, Child(w)
  PROVE  Steady'
<1>1. w.client \in Client
  BY Family
<1>2. UNCHANGED <<late, pc, round, show, missed>>
  BY ChildOfOne DEF client, result
<1>3. CASE show # "gone"
  <2>1. round'[w.client] \in Nat /\ round[w.client] <= round'[w.client]
    BY <1>1, <1>2 DEF TypeOK
  <2>2. \A d \in Client : d # w.client => Same(d)
    BY ChildOfOne
  <2>3. Phase(w.client) => Phase(w.client)'
    BY ChildPhase
  <2> QED
    BY <1>1, <1>2, <1>3, <2>1, <2>2, <2>3, SteadyOne
<1>4. CASE show = "gone"
  <2>1. \A c \in Client : Stopped(c)'
    BY <1>4, ChildStopped DEF Steady
  <2> QED
    BY <1>2, <1>4, <2>1 DEF Steady, InTime
<1> QED
  BY <1>3, <1>4


\* What the steps of a client leave alone.
LEMMA ForkOfOne ==
  ASSUME TypeOK, NEW c \in Client, Fork1(c) \/ Fork2(c)
  PROVE  \A d \in Client : d # c => Same(d)
<1>1. /\ Own(c, "inverse") \in By(c) /\ Own(c, "convolution") \in By(c)
  BY OwnChild
<1>2. ASSUME NEW d \in Client, d # c, NEW w \in By(d) PROVE worker'[w] = worker[w]
  <2>1. w \in Worker /\ w # Own(c, "inverse") /\ w # Own(c, "convolution")
    BY <1>1, <1>2, Family
  <2> QED
    BY <2>1 DEF Fork1, Fork2, Fork, TypeOK
<1> QED
  BY <1>2 DEF Fork1, Fork2, Fork, Goto, Same, TypeOK

LEMMA FetchOfOne ==
  ASSUME TypeOK, NEW c \in Client, Read1(c) \/ Read2(c)
  PROVE  \A d \in Client : d # c => Same(d)
<1>1. path[c] \in By(c)
  BY DEF Read1, Read2, Fetch, TypeOK
<1>2. ASSUME NEW d \in Client, d # c, NEW w \in By(d) PROVE worker'[w] = worker[w]
  BY <1>1, <1>2, Family DEF Read1, Read2, Fetch, TypeOK
<1>3. ASSUME NEW d \in Client, d # c
      PROVE  /\ pc'[d] = pc[d] /\ round'[d] = round[d] /\ path'[d] = path[d]
             /\ inverse'[d] = inverse[d] /\ convolution'[d] = convolution[d]
  BY <1>3 DEF Read1, Read2, Fetch, Goto, Unlinked, TypeOK
<1> QED
  BY <1>2, <1>3 DEF Same

LEMMA ClientOfOne ==
  ASSUME TypeOK, NEW c \in Client, SeeWhat(c)
  PROVE  /\ UNCHANGED <<late, missed>> /\ pc[c] \in Step
         /\ show # "gone" => show' # "gone"
         /\ round'[c] \in Nat /\ round[c] <= round'[c]
         /\ \A d \in Client : d # c => Same(d)
<1>1. /\ UNCHANGED <<late, missed>> /\ pc[c] \in Step
      /\ show # "gone" => show' # "gone"
  BY DEF SeeWhat, Ask, Fork1, Read1, Skip1, Fork2, Read2, Fail2, OpenShow, WritePackage, Killed,
         CloseShow, Fork, Fetch, Goto, Step, client, child, result
<1>2. round'[c] \in Nat /\ round[c] <= round'[c]
  <2>1. round[c] \in Nat
    BY DEF TypeOK
  <2>2. round' = round \/ round'[c] \in {round[c], round[c] + 1}
    BY DEF SeeWhat, Ask, Fork1, Read1, Skip1, Fork2, Read2, Fail2, OpenShow, WritePackage, Killed,
           CloseShow, Fork, Fetch, TypeOK
  <2> QED
    BY <2>1, <2>2
<1>3. ASSUME NEW d \in Client, d # c,
             Ask(c) \/ Skip1(c) \/ Fail2(c) \/ OpenShow(c) \/ WritePackage(c) \/ Killed(c) \/ CloseShow(c)
      PROVE  Same(d)
  BY <1>3 DEF Ask, Skip1, Fail2, OpenShow, WritePackage, Killed, CloseShow, Goto, Same, TypeOK,
              child, result
<1> QED
  BY <1>1, <1>2, <1>3, ForkOfOne, FetchOfOne DEF SeeWhat

\* In time, a client goes from one phase to the next.
LEMMA ForkPhase ==
  ASSUME TypeOK, NEW c \in Client, Fork1(c) \/ Fork2(c), Phase(c)
  PROVE  Phase(c)'
<1>1. Resting(c)
  BY DEF Fork1, Fork2, Fork, Goto, Phase
<1>2. /\ path' = path /\ round' = round /\ inverse' = inverse /\ convolution' = convolution
  BY DEF Fork1, Fork2, Fork
<1>3. \A kind : Own(c, kind)' = Own(c, kind)
  BY <1>2 DEF Own
<1>4. ASSUME NEW kind \in {"inverse", "convolution"}, NEW from, NEW to, Fork(c, from, to, kind)
      PROVE  Busy(c, Own(c, kind))'
  <2>1. Own(c, kind) \in By(c) /\ \A w \in By(c) : w \in Worker
    BY OwnChild, Family
  <2>2. /\ worker'[Own(c, kind)] = "born"
        /\ \A w \in By(c) : w # Own(c, kind) => worker'[w] = worker[w]
    BY <1>4, <2>1 DEF Fork, TypeOK
  <2>3. Own(c, kind)' = Own(c, kind)
    BY <1>3
  <2> QED
    BY <1>1, <1>2, <2>2, <2>3 DEF Busy, Resting
<1>5. CASE Fork1(c)
  BY <1>4, <1>5, GotoPc DEF Fork1, Fork, Phase, HasInverse, HasBoth
<1>6. CASE Fork2(c)
  <2>1. inverse[c] = Own(c, "inverse")
    BY <1>6, GotoPc DEF Fork2, Fork, Phase, HasInverse
  <2>2. Own(c, "inverse")' = Own(c, "inverse")
    BY <1>3
  <2> QED
    BY <1>2, <1>4, <1>6, <2>1, <2>2, GotoPc DEF Fork2, Fork, Phase, HasInverse, HasBoth
<1> QED
  BY <1>5, <1>6

\* The FIFO is the one of the child the client waits for.
LEMMA FetchPhase ==
  ASSUME TypeOK, NEW c \in Client, NEW kind \in {"inverse", "convolution"}, NEW from, NEW to,
         Fetch(c, from, to), Busy(c, Own(c, kind))
  PROVE  path[c] = Own(c, kind) /\ Resting(c)'
<1>1. path[c] = Own(c, kind) /\ path[c] \in By(c)
  BY DEF Fetch, Busy, TypeOK
<1>2. \A w \in By(c) : w \in Worker
  BY Family
<1>3. path'[c] = None /\ \A w \in By(c) : worker'[w] = IF w = path[c] THEN "gone" ELSE worker[w]
  BY <1>1, <1>2 DEF Fetch, Unlinked, TypeOK
<1> QED
  BY <1>1, <1>3 DEF Busy, Resting

LEMMA ReadPhase ==
  ASSUME TypeOK, NEW c \in Client, Read1(c) \/ Read2(c), Phase(c)
  PROVE  Phase(c)'
<1>1. round' = round /\ \A kind : Own(c, kind)' = Own(c, kind)
  BY DEF Read1, Read2, Fetch, Own
<1>2. /\ Own(c, "inverse")' = Own(c, "inverse")
      /\ Own(c, "convolution")' = Own(c, "convolution")
  BY <1>1
<1>3. CASE Read1(c)
  <2>1. pc[c] = "nap1" /\ pc'[c] = "fork2"
    BY <1>3, GotoPc DEF Read1, Fetch
  <2>2. path[c] = Own(c, "inverse") /\ Resting(c)'
    BY <1>3, <2>1, FetchPhase DEF Read1, Phase
  <2>3. inverse'[c] = path[c]
    BY <1>3 DEF Read1, Result, TypeOK
  <2> QED
    BY <1>2, <2>1, <2>2, <2>3 DEF Phase, HasBoth
<1>4. CASE Read2(c)
  <2>1. pc[c] = "nap2" /\ pc'[c] = "send"
    BY <1>4, GotoPc DEF Read2, Fetch
  <2>2. path[c] = Own(c, "convolution") /\ Resting(c)'
    BY <1>4, <2>1, FetchPhase DEF Read2, Phase
  <2>3. convolution'[c] = path[c] /\ inverse' = inverse
    BY <1>4 DEF Read2, Result, TypeOK
  <2> QED
    BY <1>2, <2>1, <2>2, <2>3 DEF Phase, HasInverse
<1> QED
  BY <1>3, <1>4

\* A child in time has created its FIFO when the client wakes up.
LEMMA FifoInTime ==
  ASSUME TypeOK, NEW c \in Client, NEW kind \in {"inverse", "convolution"},
         InTime(c, round[c]), Slept(c, kind), Busy(c, Own(c, kind))
  PROVE  path[c] # None
<1>1. Own(c, kind) \in By(c) /\ Own(c, kind) \in Worker /\ Own(c, kind).round = round[c]
  BY OwnChild DEF Own
<1>2. round[c] \in Nat
  BY DEF TypeOK
<1>3. Own(c, kind) \notin late
  BY <1>1, <1>2 DEF InTime
<1> QED
  BY <1>1, <1>3, NoneAssumption DEF Slept, Busy

LEMMA ClientPhase ==
  ASSUME TypeOK, Owned, NEW c \in Client, SeeWhat(c), InTime(c, round[c]), Phase(c)
  PROVE  Phase(c)'
<1>0. CASE Ask(c)
  <2>1. pc[c] = "ask" /\ pc'[c] = "fork"
    BY <1>0, GotoPc DEF Ask, Owned
  <2>2. UNCHANGED child
    BY <1>0 DEF Ask
  <2>3. Resting(c)'
    BY <2>1, <2>2 DEF Phase, Resting, child
  <2> QED
    BY <2>1, <2>3 DEF Phase, HasInverse, HasBoth
<1>1. CASE Skip1(c)
  BY <1>1, FifoInTime, GotoPc DEF Skip1, Phase
<1>2. CASE Fail2(c)
  BY <1>2, FifoInTime, GotoPc DEF Fail2, Phase
<1>3. CASE OpenShow(c) \/ WritePackage(c) \/ Killed(c) \/ CloseShow(c)
  <2>1. /\ pc[c] \in {"send", "package", "sent"}
        /\ pc'[c] \in {"package", "sendwait", "sent", "broken", "done", "ask"}
        /\ pc'[c] \in HasBoth => round' = round
    <3>1. CASE OpenShow(c)
      BY <3>1, GotoPc DEF OpenShow
    <3>2. CASE WritePackage(c)
      BY <3>2, GotoPc DEF WritePackage
    <3>3. CASE Killed(c)
      BY <3>3, GotoPc DEF Killed
    <3>4. CASE CloseShow(c)
      BY <3>4, GotoPc DEF CloseShow, HasBoth
    <3> QED
      BY <1>3, <3>1, <3>2, <3>3, <3>4
  <2>2. UNCHANGED <<inverse, convolution, child>>
    BY <1>3 DEF OpenShow, WritePackage, Killed, CloseShow
  <2>3. Resting(c)'
    BY <2>1, <2>2 DEF Phase, Resting, child
  <2>4. pc'[c] \in HasBoth => /\ Own(c, "inverse")' = Own(c, "inverse")
                              /\ Own(c, "convolution")' = Own(c, "convolution")
    BY <2>1 DEF Own
  <2> QED
    BY <2>1, <2>2, <2>3, <2>4 DEF Phase, HasInverse, HasBoth
<1> QED
  BY <1>0, <1>1, <1>2, <1>3, ForkPhase, ReadPhase DEF SeeWhat

LEMMA ClientSteady ==
  ASSUME TypeOK, Owned, Steady, NEW c \in Client, SeeWhat(c)
  PROVE  Steady'
<1>1. show # "gone"
  BY ClientOfOne DEF Steady, Stopped, Step, Over
<1>2. InTime(c, round[c]) /\ Phase(c) => Phase(c)'
  BY ClientPhase
<1>3. UNCHANGED <<late, missed>> /\ show' # "gone"
  BY <1>1, ClientOfOne
<1>4. round'[c] \in Nat /\ round[c] <= round'[c]
  BY ClientOfOne
<1>5. \A d \in Client : d # c => Same(d)
  BY ClientOfOne
<1> QED
  BY <1>1, <1>2, <1>3, <1>4, <1>5, SteadyOne

LEMMA ShowSteady ==
  ASSUME TypeOK, Steady, ShowResult
  PROVE  Steady'
<1>1. show # "gone" /\ show' # "gone" /\ UNCHANGED <<late, round, inverse, convolution, child, missed>>
  BY DEF ShowResult, OpenResults, Show, EmptyRead, CloseResults, client
<1>2. ASSUME NEW c \in Client
      PROVE  pc'[c] = pc[c] \/ (pc[c] = "sendwait" /\ pc'[c] = "package")
  <2>1. pc \in [Client -> Step \cup Over]
    BY DEF TypeOK
  <2>2. pc' = pc \/ pc' = [d \in Client |-> IF pc[d] = "sendwait" THEN "package" ELSE pc[d]]
    BY DEF ShowResult, OpenResults, Show, EmptyRead, CloseResults, client
  <2> QED
    BY <2>1, <2>2
<1>3. ASSUME NEW c \in Client, Phase(c) PROVE Phase(c)'
  <2>1. CASE pc'[c] = pc[c]
    BY <1>1, <1>3, <2>1, SamePhase DEF Same, child
  <2>2. CASE pc[c] = "sendwait" /\ pc'[c] = "package"
    <3>1. /\ Own(c, "inverse")' = Own(c, "inverse")
          /\ Own(c, "convolution")' = Own(c, "convolution")
      BY <1>1 DEF Own
    <3>2. Resting(c)'
      BY <1>1, <1>3, <2>2 DEF Phase, Resting, child
    <3> QED
      BY <1>1, <1>3, <2>2, <3>1, <3>2 DEF Phase, HasInverse, HasBoth
  <2> QED
    BY <1>2, <2>1, <2>2
<1>4. \A c \in Client : InTime(c, round[c])' <=> InTime(c, round[c])
  BY <1>1 DEF InTime
<1> QED
  BY <1>1, <1>3, <1>4 DEF Steady

\* SIGINT: what was in order before leaves nothing behind but the children that were just
\* born, and FIFOs whose names were not saved.
LEMMA ShutdownSteady ==
  ASSUME TypeOK, Steady, Shutdown
  PROVE  Steady'
<1>1. show # "gone" /\ show' = "gone" /\ UNCHANGED <<late, round, named>>
  BY DEF Shutdown
<1>2. ASSUME NEW c \in Client PROVE Stopped(c)'
  <2>1. pc'[c] \in Over
    BY DEF Shutdown, Over
  <2>2. ASSUME NEW w \in By(c) PROVE worker'[w] \in {"unborn", "gone"} \/ w \in missed'
    BY Family DEF Shutdown, Unsaved, TypeOK
  <2>3. path'[c] # None => c \notin named'
    BY DEF Shutdown
  <2> QED
    BY <2>1, <2>2, <2>3 DEF Stopped
<1>3. ASSUME NEW c \in Client, InTime(c, round[c])' PROVE pc'[c] # "failed"
  <2>1. InTime(c, round[c])
    BY <1>1, <1>3 DEF InTime
  <2>2. pc[c] # "failed"
    BY <1>1, <2>1 DEF Steady, Phase
  <2> QED
    BY <2>2 DEF Shutdown
<1> QED
  BY <1>1, <1>2, <1>3 DEF Steady

LEMMA StepSteady == TypeOK /\ Owned /\ Steady /\ [Next]_vars => Steady'
<1>1. ASSUME TypeOK, Steady, UNCHANGED vars PROVE Steady'
  <2>1. ASSUME NEW c \in Client, Phase(c) PROVE Phase(c)'
    BY <1>1, <2>1, SamePhase DEF vars, client, child, Same
  <2>2. ASSUME NEW c \in Client, Stopped(c) PROVE Stopped(c)'
    BY <1>1, <2>2 DEF vars, client, child, Stopped
  <2>3. \A c \in Client : InTime(c, round[c])' <=> InTime(c, round[c])
    BY <1>1 DEF InTime, vars, client
  <2>4. UNCHANGED <<show, missed, pc>>
    BY <1>1 DEF vars, result, client
  <2> QED
    BY <1>1, <2>1, <2>2, <2>3, <2>4 DEF Steady
<1> QED
  BY <1>1, ChildSteady, ClientSteady, ShowSteady, ShutdownSteady DEF Next

\* A client takes its own FIFO and gives it back.
LEMMA ClientOwned ==
  ASSUME TypeOK, Owned, NEW c \in Client, SeeWhat(c), show # "gone"
  PROVE  Owned'
<1>1. show' # "gone" /\ \A d \in Client : d # c => pc'[d] = pc[d]
  BY ClientOfOne DEF Same
<1>2. ASSUME own' = own, pc[c] \notin {"ask", "done", "killed"}, pc'[c] \notin {"ask", "done", "killed"}
      PROVE  Owned'
  BY <1>1, <1>2 DEF Owned
<1>3. CASE Ask(c)
  <2>1. pc'[c] \in {"fork", "failed"} /\ own' = own \cup {c}
    BY <1>3, GotoPc DEF Ask
  <2> QED
    BY <1>1, <2>1 DEF Owned
<1>4. CASE CloseShow(c)
  <2>1. pc'[c] \in {"ask", "done"} /\ own' = own \ {c}
    BY <1>4, GotoPc DEF CloseShow
  <2> QED
    BY <1>1, <2>1 DEF Owned
<1>5. CASE Fork1(c)
  BY <1>2, <1>5, GotoPc DEF Fork1, Fork
<1>6. CASE Fork2(c)
  BY <1>2, <1>6, GotoPc DEF Fork2, Fork
<1>7. CASE Read1(c)
  BY <1>2, <1>7, GotoPc DEF Read1, Fetch
<1>8. CASE Read2(c)
  BY <1>2, <1>8, GotoPc DEF Read2, Fetch
<1>9. CASE Skip1(c)
  BY <1>2, <1>9, GotoPc DEF Skip1
<1>10. CASE Fail2(c)
  BY <1>2, <1>10, GotoPc DEF Fail2
<1>11. CASE OpenShow(c)
  <2>1. pc[c] = "send" /\ pc'[c] \in {"package", "sendwait"} /\ own' = own
    BY <1>11, GotoPc DEF OpenShow
  <2> QED
    BY <1>2, <2>1
<1>12. CASE WritePackage(c)
  BY <1>2, <1>12, GotoPc DEF WritePackage
<1>13. CASE Killed(c)
  BY <1>2, <1>13, GotoPc DEF Killed
<1> QED
  BY <1>3, <1>4, <1>5, <1>6, <1>7, <1>8, <1>9, <1>10, <1>11, <1>12, <1>13 DEF SeeWhat

LEMMA StepOwned == TypeOK /\ Owned /\ Steady /\ [Next]_vars => Owned'
<1> SUFFICES ASSUME TypeOK, Owned, Steady, [Next]_vars PROVE Owned'
  OBVIOUS
<1>1. ASSUME NEW w \in Worker, Child(w) PROVE Owned'
  BY <1>1, ChildOfOne DEF Owned, client, result
<1>2. ASSUME NEW c \in Client, SeeWhat(c) PROVE Owned'
  <2>1. show # "gone"
    BY <1>2, ClientOfOne DEF Steady, Stopped, Step, Over
  <2> QED
    BY <1>2, <2>1, ClientOwned
<1>3. ASSUME OpenResults PROVE Owned'
  <2>1. /\ own' = own /\ show # "gone" /\ show' # "gone"
        /\ \A c \in Client : pc'[c] = pc[c] \/ (pc[c] = "sendwait" /\ pc'[c] = "package")
    BY <1>3 DEF OpenResults
  <2> QED
    BY <2>1 DEF Owned
<1>4. ASSUME Show \/ EmptyRead \/ CloseResults PROVE Owned'
  <2>1. own' = own /\ pc' = pc /\ show # "gone" /\ show' # "gone"
    BY <1>4 DEF Show, EmptyRead, CloseResults, client
  <2> QED
    BY <2>1 DEF Owned
<1>5. ASSUME Shutdown PROVE Owned'
  BY <1>5 DEF Shutdown, Owned
<1>6. ASSUME UNCHANGED vars PROVE Owned'
  BY <1>6 DEF vars, client, result, Owned
<1> QED
  BY <1>1, <1>2, <1>3, <1>4, <1>5, <1>6 DEF Next, ShowResult
---------------------------------------------------------------------------
(* Ordered *)

\* Past, of the state after the step.
PastNext(p) ==
  /\ p.round <= round'[p.client]
  /\ p.round = round'[p.client] => pc'[p.client] \in {"sent"} \cup Over

LEMMA LateStays == [Next]_vars => late' = late
BY DEF Next, vars, Child, SavePid, MakeFifo, SeeWhat, Ask, Fork1, Read1, Skip1, Fork2, Read2, Fail2,
       OpenShow, WritePackage, Killed, CloseShow, Fork, Fetch, ShowResult, OpenResults, Show,
       EmptyRead, CloseResults, Shutdown

\* A package that is past stays past.
LEMMA PastStays ==
  ASSUME TypeOK, [Next]_vars, NEW p \in Pack, Past(p)
  PROVE  PastNext(p)
<1> DEFINE c == p.client
<1>1. c \in Client /\ p.round \in Nat /\ round[c] \in Nat
  BY DEF Pack, TypeOK
<1>2. \/ /\ round'[c] = round[c]
         /\ pc[c] \in {"sent"} \cup Over => pc'[c] \in {"sent"} \cup Over
      \/ round'[c] = round[c] + 1
  <2>1. ASSUME NEW w \in Worker, Child(w) PROVE pc' = pc /\ round' = round
    BY <2>1, ChildOfOne DEF client
  <2>2. ASSUME NEW d \in Client, d # c, SeeWhat(d) PROVE pc'[c] = pc[c] /\ round'[c] = round[c]
    BY <1>1, <2>2, ClientOfOne DEF Same
  <2>3. ASSUME SeeWhat(c), ~CloseShow(c)
        PROVE  round' = round /\ pc[c] \notin {"sent"} \cup Over
    BY <2>3 DEF SeeWhat, Ask, Fork1, Read1, Skip1, Fork2, Read2, Fail2, OpenShow, WritePackage,
                Killed, Fork, Fetch, Goto, Over
  <2>4. CASE CloseShow(c)
    BY <1>1, <2>4 DEF CloseShow, Goto, TypeOK, Over
  <2>5. CASE ShowResult
    BY <1>1, <2>5 DEF ShowResult, OpenResults, Show, EmptyRead, CloseResults, client, TypeOK, Over
  <2>6. CASE Shutdown
    BY <1>1, <2>6 DEF Shutdown, Over
  <2>7. CASE UNCHANGED vars
    BY <2>7 DEF vars, client
  <2> QED
    BY <2>1, <2>2, <2>3, <2>4, <2>5, <2>6, <2>7 DEF Next
<1> QED
  BY <1>1, <1>2 DEF Past, PastNext

\* What Ordered asks for of a single package, and of the FIFOs' packages after a step.
Right(p) == OfRound(p) /\ PastNext(p)

LEMMA OrderedNext ==
  ASSUME [Next]_vars,
         \A i \in DOMAIN shown' : Right(shown'[i]),
         \A i \in DOMAIN box' : Right(box'[i]),
         \A i, j \in DOMAIN shown' : i < j => Before(shown'[i], shown'[j]),
         \A i, j \in DOMAIN box' : i < j => Before(box'[i], box'[j]),
         \A i \in DOMAIN shown', j \in DOMAIN box' : Before(shown'[i], box'[j])
  PROVE  Ordered'
BY LateStays DEF Ordered, Right, OfRound, InTime, Past, PastNext, Before

LEMMA RightStays ==
  ASSUME TypeOK, Ordered, [Next]_vars
  PROVE  /\ \A i \in DOMAIN shown : shown[i] \in Pack /\ Past(shown[i]) /\ Right(shown[i])
         /\ \A i \in DOMAIN box : box[i] \in Pack /\ Past(box[i]) /\ Right(box[i])
<1>1. \A p \in Pack : Past(p) => PastNext(p)
  BY PastStays
<1>2. /\ \A i \in DOMAIN shown : shown[i] \in Pack
      /\ \A i \in DOMAIN box : box[i] \in Pack
  BY ElementOfSeq, LenProperties DEF TypeOK
<1> QED
  BY <1>1, <1>2 DEF Ordered, Right

\* A step that shows nothing and writes nothing; the FIFO may be emptied.
LEMMA OrderedQuiet ==
  ASSUME TypeOK, [Next]_vars, Ordered, shown' = shown, box' = box \/ box' = <<>>
  PROVE  Ordered'
<1>1. DOMAIN <<>> = {}
  OBVIOUS
<1>2. \A i \in DOMAIN box' : i \in DOMAIN box /\ box'[i] = box[i]
  BY <1>1
<1> QED
  BY <1>2, RightStays, OrderedNext DEF Ordered

LEMMA WriteOrdered ==
  ASSUME TypeOK, Steady, Ordered, NEW c \in Client, WritePackage(c)
  PROVE  Ordered'
<1> DEFINE p == Package(c)
           n == Len(box)
<1>1. /\ pc[c] = "package" /\ pc'[c] = "sent"
      /\ UNCHANGED <<round, inverse, convolution, shown, late>>
  BY GotoPc DEF WritePackage
<1>2. /\ p \in Pack /\ p.client = c /\ p.round = round[c] /\ p.inverse = inverse[c]
      /\ p.convolution = convolution[c]
  BY DEF Package, Pack, TypeOK
<1>3. [Next]_vars
  BY DEF Next, SeeWhat
<1>4. OfRound(p)
  <2>1. show # "gone"
    BY <1>1 DEF Steady, Stopped, Over
  <2>2. ASSUME InTime(c, round[c])
        PROVE  inverse[c] = Own(c, "inverse") /\ convolution[c] = Own(c, "convolution")
    BY <1>1, <2>1, <2>2 DEF Steady, Phase, HasInverse, HasBoth
  <2> QED
    BY <1>2, <2>2 DEF OfRound, Own
<1>5. Right(p)
  BY <1>1, <1>2, <1>4 DEF Right, PastNext, TypeOK
<1>6. /\ DOMAIN box' = 1 .. n + 1 /\ DOMAIN box = 1 .. n /\ n \in Nat
      /\ box'[n + 1] = p /\ \A i \in 1 .. n : box'[i] = box[i]
  <2>1. box \in Seq(Pack) /\ box' = Append(box, p)
    BY DEF WritePackage, TypeOK
  <2> QED
    BY <1>2, <2>1, AppendProperties, LenProperties
<1>7. ASSUME NEW q \in Pack, Past(q) PROVE Before(q, p)
  <2>1. q.round \in Nat /\ round[c] \in Nat
    BY DEF Pack, TypeOK
  <2>2. q.client = c => q.round < round[c]
    BY <1>1, <1>7, <2>1 DEF Past, Over
  <2> QED
    BY <1>2, <2>2 DEF Before
<1>8. /\ \A i \in DOMAIN shown : Right(shown[i]) /\ Before(shown[i], p)
      /\ \A i \in 1 .. n : Right(box[i]) /\ Before(box[i], p)
  BY <1>3, <1>6, <1>7, RightStays
<1>9. \A i \in DOMAIN box' : (i = n + 1 /\ box'[i] = p) \/ (i \in 1 .. n /\ box'[i] = box[i])
  BY <1>6
<1>10. \A i \in DOMAIN box' : Right(box'[i])
  BY <1>5, <1>8, <1>9
<1>11. \A i, j \in DOMAIN box' : i < j => Before(box'[i], box'[j])
  <2> SUFFICES ASSUME NEW i \in DOMAIN box', NEW j \in DOMAIN box', i < j
               PROVE  Before(box'[i], box'[j])
    OBVIOUS
  <2>1. i \in 1 .. n /\ box'[i] = box[i]
    BY <1>6
  <2> QED
    BY <1>6, <1>8, <1>9, <2>1 DEF Ordered
<1>12. \A i \in DOMAIN shown', j \in DOMAIN box' : Before(shown'[i], box'[j])
  BY <1>1, <1>6, <1>8, <1>9 DEF Ordered
<1>13. /\ \A i \in DOMAIN shown' : Right(shown'[i])
       /\ \A i, j \in DOMAIN shown' : i < j => Before(shown'[i], shown'[j])
  BY <1>1, <1>8 DEF Ordered
<1> QED
  BY <1>3, <1>10, <1>11, <1>12, <1>13, OrderedNext

LEMMA ShowOrdered ==
  ASSUME TypeOK, Ordered, Show
  PROVE  Ordered'
<1> DEFINE p == Head(box)
           n == Len(box)
           k == Len(shown)
<1>1. [Next]_vars
  BY DEF Next, ShowResult
<1>2. /\ n \in Nat /\ n # 0 /\ DOMAIN box = 1 .. n /\ p = box[1] /\ p \in Pack
      /\ DOMAIN box' = 1 .. n - 1 /\ \A i \in 1 .. n - 1 : box'[i] = box[i + 1]
  <2>1. box \in Seq(Pack) /\ box # <<>> /\ box' = Tail(box)
    BY DEF Show, Taken, TypeOK
  <2> QED
    BY <2>1, HeadTailProperties, LenProperties, EmptySeq
<1>3. /\ k \in Nat /\ DOMAIN shown = 1 .. k /\ DOMAIN shown' = 1 .. k + 1
      /\ shown'[k + 1] = p /\ \A i \in 1 .. k : shown'[i] = shown[i]
  <2>1. shown \in Seq(Pack) /\ shown' = Append(shown, p)
    BY DEF Show, TypeOK
  <2> QED
    BY <1>2, <2>1, AppendProperties, LenProperties
<1>4. /\ \A i \in 1 .. k : Right(shown[i]) /\ Before(shown[i], p)
      /\ \A i \in 1 .. n : Right(box[i])
      /\ \A j \in 2 .. n : Before(p, box[j])
  <2>1. 1 \in DOMAIN box /\ \A j \in 2 .. n : j \in DOMAIN box /\ 1 < j
    BY <1>2
  <2>2. \A j \in 2 .. n : Before(box[1], box[j])
    BY <2>1 DEF Ordered
  <2>3. \A i \in DOMAIN shown : Before(shown[i], box[1])
    BY <2>1 DEF Ordered
  <2>4. /\ \A i \in DOMAIN shown : Right(shown[i])
        /\ \A i \in DOMAIN box : Right(box[i])
    BY <1>1, RightStays
  <2> QED
    BY <1>2, <1>3, <2>2, <2>3, <2>4
<1>5. \A i \in DOMAIN shown' : (i = k + 1 /\ shown'[i] = p) \/ (i \in 1 .. k /\ shown'[i] = shown[i])
  BY <1>3
<1>6. \A j \in DOMAIN box' : j + 1 \in 2 .. n /\ box'[j] = box[j + 1]
  BY <1>2
<1>7. Right(p)
  BY <1>2, <1>4
<1>8. /\ \A i \in DOMAIN shown' : Right(shown'[i])
      /\ \A i \in DOMAIN box' : Right(box'[i])
  BY <1>2, <1>4, <1>5, <1>6, <1>7
<1>9. \A i, j \in DOMAIN shown' : i < j => Before(shown'[i], shown'[j])
  <2> SUFFICES ASSUME NEW i \in DOMAIN shown', NEW j \in DOMAIN shown', i < j
               PROVE  Before(shown'[i], shown'[j])
    OBVIOUS
  <2>1. i \in 1 .. k /\ shown'[i] = shown[i]
    BY <1>3
  <2> QED
    BY <1>3, <1>4, <1>5, <2>1 DEF Ordered
<1>10. \A i, j \in DOMAIN box' : i < j => Before(box'[i], box'[j])
  <2> SUFFICES ASSUME NEW i \in DOMAIN box', NEW j \in DOMAIN box', i < j
               PROVE  Before(box'[i], box'[j])
    OBVIOUS
  <2>1. /\ i + 1 \in DOMAIN box /\ j + 1 \in DOMAIN box /\ i + 1 < j + 1
        /\ box'[i] = box[i + 1] /\ box'[j] = box[j + 1]
    BY <1>2
  <2> QED
    BY <2>1 DEF Ordered
<1>11. \A i \in DOMAIN shown', j \in DOMAIN box' : Before(shown'[i], box'[j])
  BY <1>2, <1>3, <1>4, <1>5, <1>6 DEF Ordered
<1> QED
  BY <1>1, <1>8, <1>9, <1>10, <1>11, OrderedNext

LEMMA StepOrdered == TypeOK /\ Steady /\ Ordered /\ [Next]_vars => Ordered'
<1> SUFFICES ASSUME TypeOK, Steady, Ordered, [Next]_vars PROVE Ordered'
  OBVIOUS
<1>1. ASSUME NEW w \in Worker, Child(w) PROVE Ordered'
  BY <1>1, ChildOfOne, OrderedQuiet DEF result
<1>2. ASSUME NEW c \in Client, SeeWhat(c), ~WritePackage(c) PROVE Ordered'
  <2>1. shown' = shown /\ (box' = box \/ box' = <<>>)
    BY <1>2 DEF SeeWhat, Ask, Fork1, Read1, Skip1, Fork2, Read2, Fail2, OpenShow, Killed, CloseShow,
                Fork, Fetch, Kept, result
  <2> QED
    BY <2>1, OrderedQuiet
<1>3. ASSUME OpenResults \/ EmptyRead \/ CloseResults \/ Shutdown \/ UNCHANGED vars PROVE Ordered'
  BY <1>3, OrderedQuiet DEF OpenResults, EmptyRead, CloseResults, Shutdown, Kept, vars, result
<1> QED
  BY <1>1, <1>2, <1>3, WriteOrdered, ShowOrdered DEF Next, ShowResult
---------------------------------------------------------------------------
(* The theorems *)

\* Every variable of the relay keeps its type: no FIFO is ever that of another client's
\* child, and no client counts beyond its last matrix.
THEOREM TypeCorrect == Spec => []TypeOK
<1>1. TypeOK /\ [Next]_vars => TypeOK'
  BY StepType
<1> QED
  BY <1>1, InitType, PTL DEF Spec

\* What the client, its children and showResult may rely on of each other, in every state.
THEOREM Invariance == Spec => []IInv
<1>1. Init => IInv
  BY InitType, InitSteady DEF IInv, Init, Owned, Ordered
<1>2. IInv /\ [Next]_vars => IInv'
  BY StepType, StepOwned, StepSteady, StepOrdered DEF IInv
<1> QED
  BY <1>1, <1>2, PTL DEF Spec

\* showResult shows no package twice, those of a client in order, and with the results
\* of the right matrix unless a child of that client came late: for any number of clients
\* and matrices, whatever the other clients' children do, and with SIGINT at any time.
THEOREM RightPackages == Spec => []ShownRight
<1>1. IInv => ShownRight
  <2> SUFFICES ASSUME IInv, NEW i \in DOMAIN shown
               PROVE  /\ \A j \in 1 .. i - 1 :
                           shown[j].client = shown[i].client => shown[j].round < shown[i].round
                      /\ OfRound(shown[i])
    BY DEF ShownRight, OfRound
  <2>1. DOMAIN shown = 1 .. Len(shown) /\ Len(shown) \in Nat
    BY LenProperties DEF IInv, TypeOK
  <2>2. \A j \in 1 .. i - 1 : j \in DOMAIN shown /\ j < i
    BY <2>1
  <2> QED
    BY <2>2 DEF IInv, Ordered, Before
<1> QED
  BY <1>1, Invariance, PTL

\* A client none of whose children is late does not fail, and leaves neither a child nor a
\* child's FIFO behind, but at SIGINT those that could not be known of. The FIFO of a client
\* itself stays exactly if the client failed or was killed by SIGPIPE, until SIGINT.
THEOREM NothingLeft == Spec => []Clean
<1>0. IInv => \A c \in Client : pc[c] \in Over =>
                (c \in own <=> pc[c] \in {"broken", "failed"} /\ show # "gone")
  BY DEF IInv, Owned, Over
<1>1. IInv => Clean
  <2> SUFFICES ASSUME IInv, NEW c \in Client, InTime(c, Rounds[c]), pc[c] \in Over
               PROVE  /\ pc[c] # "failed"
                      /\ \A w \in By(c) : worker[w] \in {"unborn", "gone"} \/ w \in missed
                      /\ path[c] # None => c \notin named \/ path[c] \in missed
    BY <1>0 DEF Clean
  <2>1. InTime(c, round[c])
    <3>1. round[c] <= Rounds[c] /\ \A w \in By(c) : w.round \in Nat
      BY RelayAssumption DEF IInv, TypeOK, By
    <3>2. round[c] \in Nat /\ Rounds[c] \in Nat
      BY RelayAssumption DEF IInv, TypeOK
    <3> QED
      BY <3>1, <3>2 DEF InTime
  <2>2. CASE show = "gone"
    BY <2>1, <2>2 DEF IInv, Steady, Stopped
  <2>3. CASE show # "gone"
    BY <2>1, <2>3 DEF IInv, Steady, Phase, Resting, Over
  <2> QED
    BY <2>2, <2>3
<1> QED
  BY <1>1, Invariance, PTL

---------------------------------------------------------------------------
(* Nobody waits for ever *)

\* What a client has not forked yet.
Unforked(c, w) ==
  \/ w.round > round[c]
  \/ w.round = round[c] /\ pc[c] \in {"ask", "fork"}
  \/ w.round = round[c] /\ pc[c] \in {"nap1", "fork2"} /\ w.kind = "convolution"

\* A FIFO that is there has its writer, and whoever waits for showResult to open its FIFO
\* finds it about to.
Forks(c) == \A w \in By(c) : Unforked(c, w) => worker[w] = "unborn"
Written(c) == path[c] # None => worker[path[c]] = "wait"
WaitInv ==
  /\ \A c \in Client : Forks(c)
  /\ show # "gone" => \A c \in Client : Written(c)
  /\ \A c \in Client : pc[c] = "sendwait" => show = "open"
  /\ show = "gone" => \A c \in Client : pc[c] \in Over

\* What the actions of a child, of a client and of showResult wait for is there.
ChildReady(w) == worker[w] \in {"born", "compute"}
ClientReady(c) ==
  \/ pc[c] \in {"ask", "fork", "fork2", "send", "package", "sent"}
  \/ pc[c] = "nap1" /\ Slept(c, "inverse") /\ (path[c] = None \/ worker[path[c]] = "wait")
  \/ pc[c] = "nap2" /\ Slept(c, "convolution") /\ (path[c] = None \/ worker[path[c]] = "wait")
ShowReady == show \in {"open", "close"} \/ (show = "read" /\ (box # <<>> \/ Writing = {}))

\* All clients have ended, or a child, a client or showResult can go on.
MovesOn ==
  \/ \A c \in Client : pc[c] \in Over
  \/ (\E w \in Worker : ChildReady(w)) \/ (\E c \in Client : ClientReady(c)) \/ ShowReady

LEMMA SameWaits ==
  ASSUME TypeOK, NEW c \in Client, Same(c)
  PROVE  (Forks(c) => Forks(c)') /\ (Written(c) => Written(c)')
<1>1. ASSUME NEW w \in By(c) PROVE worker'[w] = worker[w] /\ (Unforked(c, w)' => Unforked(c, w))
  BY <1>1 DEF Same, Unforked
<1>2. path[c] # None => path[c] \in By(c)
  BY DEF TypeOK
<1>3. path'[c] = path[c]
  BY DEF Same
<1> QED
  BY <1>1, <1>2, <1>3 DEF Forks, Written

LEMMA InitWaitInv == Init => WaitInv
<1> SUFFICES ASSUME Init
             PROVE  WaitInv
  OBVIOUS
<1>1. \A c \in Client : \A w \in By(c) : w \in Worker
  BY Family
<1>2. \A c \in Client : Forks(c) /\ Written(c)
  BY <1>1 DEF Init, Forks, Written
<1>3. show = "open" /\ \A c \in Client : pc[c] = "ask"
  BY DEF Init
<1> QED
  BY <1>2, <1>3 DEF WaitInv

LEMMA ChildWaits ==
  ASSUME TypeOK, WaitInv, NEW w \in Worker, Child(w)
  PROVE  WaitInv'
<1> DEFINE c == w.client
<1>1. c \in Client /\ w \in By(c) /\ \A d \in Client : \A v \in By(d) : v \in Worker
  BY Family
<1>2. UNCHANGED <<pc, round, show>> /\ \A d \in Client : d # c => Same(d)
  BY ChildOfOne DEF client, result
<1>3. \A v \in Worker : v # w => worker'[v] = worker[v]
  BY DEF Child, SavePid, MakeFifo, Move, TypeOK
<1>4. worker[w] \in {"born", "compute"}
  BY DEF Child, SavePid, MakeFifo, Move
<1>5. Forks(c)'
  <2> SUFFICES ASSUME NEW v \in By(c), Unforked(c, v)'
               PROVE  worker'[v] = "unborn"
    BY DEF Forks
  <2>1. Unforked(c, v)
    BY <1>2 DEF Unforked
  <2>2. worker[v] = "unborn"
    BY <1>1, <2>1 DEF WaitInv, Forks
  <2> QED
    BY <1>1, <1>3, <1>4, <2>2
<1>6. ASSUME show # "gone" PROVE Written(c)'
  <2>1. Written(c)
    BY <1>1, <1>6 DEF WaitInv
  <2>2. path[c] # None => path[c] \in Worker /\ path[c] # w
    BY <1>1, <1>4, <2>1 DEF Written, TypeOK
  <2>3. CASE SavePid(w)
    BY <1>3, <2>1, <2>2, <2>3 DEF SavePid, Written
  <2>4. CASE MakeFifo(w)
    <3>1. worker'[w] = IF path[c] = None THEN "wait" ELSE "gone"
      BY <2>4 DEF MakeFifo, Move, TypeOK
    <3>2. path'[c] = IF path[c] = None THEN w ELSE path[c]
      BY <1>1, <2>4 DEF MakeFifo, TypeOK
    <3> QED
      BY <1>3, <2>1, <2>2, <3>1, <3>2 DEF Written
  <2> QED
    BY <2>3, <2>4 DEF Child
<1> HIDE DEF c
<1>7. \A d \in Client : Forks(d)'
  BY <1>2, <1>5, SameWaits DEF WaitInv
<1>8. show # "gone" => \A d \in Client : Written(d)'
  BY <1>2, <1>6, SameWaits DEF WaitInv
<1> QED
  BY <1>2, <1>7, <1>8 DEF WaitInv

\* The child that a client forks was not forked before.
LEMMA NewChild ==
  ASSUME TypeOK, WaitInv, NEW c \in Client, NEW kind \in {"inverse", "convolution"},
         pc[c] = "fork" \/ (pc[c] = "fork2" /\ kind = "convolution")
  PROVE  Own(c, kind) \in By(c) /\ worker[Own(c, kind)] = "unborn"
<1>1. Own(c, kind) \in By(c)
  BY OwnChild
<1>2. Unforked(c, Own(c, kind))
  BY DEF Unforked, Own
<1> QED
  BY <1>1, <1>2 DEF WaitInv, Forks

\* What a client has forked, and the FIFO it finds.
LEMMA ForkWaits ==
  ASSUME TypeOK, WaitInv, show # "gone", NEW c \in Client, Fork1(c) \/ Fork2(c)
  PROVE  Forks(c)' /\ Written(c)'
<1> DEFINE kind == IF Fork1(c) THEN "inverse" ELSE "convolution"
           w == Own(c, kind)
<1>1. /\ \/ pc[c] = "fork" /\ pc'[c] = "nap1" /\ kind = "inverse"
         \/ pc[c] = "fork2" /\ pc'[c] = "nap2" /\ kind = "convolution"
      /\ worker' = [worker EXCEPT ![w] = "born"] /\ round' = round /\ path' = path
  BY DEF TypeOK, Goto, Fork1, Fork2, Fork
<1>2. kind \in {"inverse", "convolution"}
  OBVIOUS
<1> HIDE DEF kind
<1>3. w \in By(c) /\ worker[w] = "unborn" /\ w.round = round[c] /\ w.kind = kind
  BY <1>1, <1>2, NewChild DEF Own
<1> HIDE DEF w
<1>4. \A v \in By(c) : v \in Worker
  BY Family
<1>5. \A v \in Worker : v # w => worker'[v] = worker[v]
  BY <1>1 DEF TypeOK
<1>6. round[c] \in Nat
  BY DEF TypeOK
<1>7. ASSUME NEW v \in By(c), Unforked(c, v)' PROVE worker'[v] = "unborn"
  <2>1. Unforked(c, v) /\ v # w
    BY <1>1, <1>3, <1>6, <1>7 DEF Unforked
  <2> QED
    BY <1>4, <1>5, <2>1 DEF WaitInv, Forks
<1>8. Forks(c)'
  BY <1>7 DEF Forks
<1>9. Written(c)'
  <2>1. path[c] # None => path[c] \in By(c) /\ worker[path[c]] = "wait"
    BY DEF WaitInv, Written, TypeOK
  <2> QED
    BY <1>1, <1>3, <1>4, <1>5, <2>1 DEF Written
<1> QED
  BY <1>8, <1>9

LEMMA ReadWaits ==
  ASSUME TypeOK, WaitInv, NEW c \in Client, Read1(c) \/ Read2(c)
  PROVE  Forks(c)' /\ Written(c)'
<1>1. /\ \/ pc[c] = "nap1" /\ pc'[c] = "fork2"
         \/ pc[c] = "nap2" /\ pc'[c] = "send"
      /\ worker' = [worker EXCEPT ![path[c]] = "gone"] /\ worker[path[c]] = "wait" /\ round' = round
      /\ path' = [path EXCEPT ![c] = None]
  BY DEF TypeOK, Goto, Read1, Read2, Fetch, Unlinked
<1>2. \A v \in By(c) : v \in Worker
  BY Family
<1>3. ASSUME NEW v \in By(c), Unforked(c, v)' PROVE worker'[v] = "unborn"
  <2>1. Unforked(c, v)
    BY <1>1, <1>3 DEF Unforked
  <2>2. worker[v] = "unborn" /\ v # path[c]
    BY <1>1, <2>1 DEF WaitInv, Forks
  <2> QED
    BY <1>1, <1>2, <2>2 DEF TypeOK
<1>4. path'[c] = None
  BY <1>1 DEF TypeOK
<1> QED
  BY <1>3, <1>4 DEF Forks, Written

LEMMA OtherWaits ==
  ASSUME TypeOK, WaitInv, NEW c \in Client,
         \/ Ask(c) \/ Skip1(c) \/ Fail2(c)
         \/ OpenShow(c) \/ WritePackage(c) \/ Killed(c) \/ CloseShow(c)
  PROVE  Forks(c)' /\ (Written(c) => Written(c)')
<1>1. worker' = worker /\ path' = path
  BY DEF Ask, Skip1, Fail2, OpenShow, WritePackage, Killed, CloseShow, child
<1>2. round[c] \in Nat /\ \A v \in By(c) : v.round \in Nat
  BY RelayAssumption DEF TypeOK, By
<1>3. ASSUME NEW v \in By(c), Unforked(c, v)' PROVE Unforked(c, v)
  <2>1. CASE CloseShow(c)
    <3>1. round'[c] = IF round[c] = Rounds[c] THEN round[c] ELSE round[c] + 1
      BY <2>1 DEF CloseShow, TypeOK
    <3>2. pc'[c] = IF round[c] = Rounds[c] THEN "done" ELSE "ask"
      BY <2>1, GotoPc DEF CloseShow
    <3> QED
      BY <1>2, <1>3, <3>1, <3>2 DEF Unforked
  <2>2. CASE Skip1(c)
    BY <1>3, <2>2, GotoPc DEF Skip1, Unforked
  <2>4. CASE Ask(c)
    <3>1. pc[c] = "ask" /\ pc'[c] \in {"fork", "failed"} /\ round' = round
      BY <2>4, GotoPc DEF Ask
    <3> QED
      BY <1>3, <3>1 DEF Unforked
  <2>3. CASE Fail2(c) \/ OpenShow(c) \/ WritePackage(c) \/ Killed(c)
    <3>1. round' = round /\ pc'[c] \notin {"ask", "fork", "nap1", "fork2"}
      BY <2>3 DEF TypeOK, Goto, Fail2, OpenShow, WritePackage, Killed
    <3> QED
      BY <1>3, <3>1 DEF Unforked
  <2> QED
    BY <2>1, <2>2, <2>3, <2>4
<1> QED
  BY <1>1, <1>3 DEF WaitInv, Forks, Written

LEMMA ClientWaits ==
  ASSUME TypeOK, WaitInv, NEW c \in Client, SeeWhat(c)
  PROVE  WaitInv'
<1>1. /\ pc[c] \in Step /\ \A d \in Client : d # c => Same(d)
      /\ show # "gone" => show' # "gone"
  BY ClientOfOne
<1>2. show # "gone" /\ show' # "gone"
  BY <1>1 DEF WaitInv, Step, Over
<1>3. Written(c)
  BY <1>2 DEF WaitInv
<1>4. Forks(c)' /\ Written(c)'
  BY <1>2, <1>3, ForkWaits, ReadWaits, OtherWaits DEF SeeWhat
<1>5. \A d \in Client : Forks(d)' /\ Written(d)'
  BY <1>1, <1>2, <1>4, SameWaits DEF WaitInv
<1>6. ASSUME NEW d \in Client, pc'[d] = "sendwait" PROVE show' = "open"
  <2>1. CASE OpenShow(c)
    <3>1. pc'[c] = (IF Reading THEN "package" ELSE "sendwait") /\ show' = IF show = "wait" THEN "read" ELSE show
      BY <2>1, GotoPc DEF OpenShow
    <3>2. CASE d = c
      BY <1>2, <1>6, <3>1, <3>2 DEF Reading, TypeOK
    <3>3. CASE d # c
      BY <1>1, <1>6, <3>1, <3>3 DEF WaitInv, Same
    <3> QED
      BY <3>2, <3>3
  <2>2. CASE ~OpenShow(c)
    <3>1. pc'[c] # "sendwait" /\ show' = show
      BY <2>2 DEF TypeOK, Goto, SeeWhat, Ask, Fork1, Fork2, Fork, Read1, Read2, Fetch, Skip1, Fail2,
                  WritePackage, Killed, CloseShow, result
    <3> QED
      BY <1>1, <1>6, <3>1 DEF WaitInv, Same
  <2> QED
    BY <2>1, <2>2
<1> QED
  BY <1>2, <1>5, <1>6 DEF WaitInv

LEMMA ShowWaits ==
  ASSUME TypeOK, WaitInv, ShowResult
  PROVE  WaitInv'
<1>1. show # "gone" /\ show' # "gone" /\ UNCHANGED <<round, worker, path>>
  BY DEF ShowResult, OpenResults, Show, EmptyRead, CloseResults, client, child
<1>2. ASSUME NEW c \in Client
      PROVE  /\ pc'[c] = pc[c] \/ (pc[c] = "sendwait" /\ pc'[c] = "package")
             /\ pc'[c] # "sendwait"
  <2>1. CASE OpenResults
    BY <1>2, <2>1 DEF OpenResults
  <2>2. CASE Show \/ EmptyRead \/ CloseResults
    <3>1. pc' = pc /\ show # "open"
      BY <2>2 DEF Show, EmptyRead, CloseResults, client
    <3> QED
      BY <1>2, <3>1 DEF WaitInv
  <2> QED
    BY <2>1, <2>2 DEF ShowResult
<1>3. ASSUME NEW c \in Client PROVE Forks(c)' /\ Written(c)'
  <2>1. \A w \in By(c) : Unforked(c, w)' => Unforked(c, w)
    BY <1>1, <1>2 DEF Unforked
  <2> QED
    BY <1>1, <2>1 DEF WaitInv, Forks, Written
<1> QED
  BY <1>1, <1>2, <1>3 DEF WaitInv

LEMMA ShutdownWaits ==
  ASSUME TypeOK, WaitInv, Shutdown
  PROVE  WaitInv'
<1>1. show' = "gone" /\ round' = round
  BY DEF Shutdown
<1>2. \A c \in Client : pc'[c] \in Over /\ pc'[c] \notin {"ask", "fork", "nap1", "fork2", "sendwait"}
  BY DEF Shutdown, Over
<1>3. \A w \in Worker : worker[w] = "unborn" => worker'[w] = "unborn"
  BY DEF Shutdown, Unsaved
<1>4. ASSUME NEW c \in Client, NEW w \in By(c), Unforked(c, w)' PROVE worker'[w] = "unborn"
  <2>1. Unforked(c, w) /\ w \in Worker
    BY <1>1, <1>2, <1>4, Family DEF Unforked
  <2> QED
    BY <1>3, <2>1 DEF WaitInv, Forks
<1> QED
  BY <1>1, <1>2, <1>4 DEF WaitInv, Forks

LEMMA WaitsKept == TypeOK /\ WaitInv /\ [Next]_vars => WaitInv'
<1>1. ASSUME TypeOK, WaitInv, UNCHANGED vars PROVE WaitInv'
  <2>1. \A c \in Client : Forks(c)' /\ (Written(c) => Written(c)')
    BY <1>1 DEF vars, client, child, WaitInv, Forks, Written, Unforked
  <2> QED
    BY <1>1, <2>1 DEF vars, client, child, result, WaitInv
<1> QED
  BY <1>1, ChildWaits, ClientWaits, ShowWaits, ShutdownWaits DEF Next

\* A FIFO of a client that is there has its writer, late or not.
THEOREM WaitInvariance == Spec => []WaitInv
<1>1. IInv => TypeOK
  BY DEF IInv
<1>2. []TypeOK /\ Spec => []WaitInv
  BY InitWaitInv, WaitsKept, PTL DEF Spec
<1> QED
  BY <1>1, <1>2, Invariance, PTL

LEMMA InvMovesOn == TypeOK /\ WaitInv => MovesOn
<1> SUFFICES ASSUME TypeOK, WaitInv, NEW c \in Client, pc[c] \notin Over,
                    \A w \in Worker : ~ChildReady(w), ~ClientReady(c), ~ShowReady
             PROVE  FALSE
  BY DEF MovesOn
<1>1. show \notin {"gone", "open"}
  BY DEF WaitInv, ShowReady
<1>2. pc[c] \in {"nap1", "nap2"}
  BY <1>1 DEF WaitInv, ClientReady, TypeOK, Step
<1>3. path[c] = None \/ worker[path[c]] = "wait"
  BY <1>1 DEF WaitInv, Written
<1>4. \A kind \in {"inverse", "convolution"} : Slept(c, kind)
  BY OwnChild DEF Slept, ChildReady
<1> QED
  BY <1>2, <1>3, <1>4 DEF ClientReady

\* No open or read of a FIFO waits for ever, whoever is late and whoever was killed: until all
\* clients have ended a child, a client or showResult can go on.
THEOREM NeverStuck == Spec => []MovesOn
<1>1. IInv => TypeOK
  BY DEF IInv
<1> QED
  BY <1>1, InvMovesOn, Invariance, WaitInvariance, PTL

\* How far a client is with a matrix, and a child with its result.
Place(p) ==
  CASE p = "ask" -> 0 [] p = "fork" -> 1 [] p = "nap1" -> 2 [] p = "fork2" -> 3 [] p = "nap2" -> 4
    [] p = "send" -> 5 [] p = "sendwait" -> 6 [] p = "package" -> 7 [] p = "sent" -> 8 [] p \in Over -> 9
Stage(s) ==
  CASE s = "unborn" -> 0 [] s = "born" -> 1 [] s = "compute" -> 2 [] s = "wait" -> 3 [] s = "gone" -> 4

ClientLater(c) == round[c] < round'[c] \/ (round'[c] = round[c] /\ Place(pc[c]) < Place(pc'[c]))
ChildLater(w) == Stage(worker[w]) < Stage(worker'[w])
ClientSame(c) == round'[c] = round[c] /\ pc'[c] = pc[c]
ChildSame(w) == worker'[w] = worker[w]

\* How far showResult is from where it waits: for a writer, or for a package of one.
Distance ==
  CASE show = "close" -> 2 [] show = "open" -> 1 [] show = "read" -> IF Writing = {} THEN 3 ELSE 0
    [] show = "wait" -> 0 [] show = "gone" -> -1
ShowNearer == Len(box') < Len(box) \/ (Len(box') = Len(box) /\ Distance' < Distance)

\* No client and no child is earlier than before, and one is later, or showResult is
\* nearer to where it waits for them.
Onwards ==
  /\ \A c \in Client : ClientLater(c) \/ ClientSame(c)
  /\ \A w \in Worker : ChildLater(w) \/ ChildSame(w)
  /\ (\E c \in Client : ClientLater(c)) \/ (\E w \in Worker : ChildLater(w)) \/ ShowNearer

LEMMA Places ==
  /\ Place("ask") = 0 /\ Place("fork") = 1 /\ Place("nap1") = 2 /\ Place("fork2") = 3
  /\ Place("nap2") = 4 /\ Place("send") = 5 /\ Place("sendwait") = 6 /\ Place("package") = 7
  /\ Place("sent") = 8 /\ \A p \in Over : Place(p) = 9
BY DEF Place, Over

LEMMA ChildOnwards ==
  ASSUME TypeOK, NEW w \in Worker, Child(w)
  PROVE  Onwards
<1>1. UNCHANGED <<pc, round>>
  BY DEF Child, SavePid, MakeFifo, client
<1>2. \A v \in Worker : v # w => worker'[v] = worker[v]
  BY DEF Child, SavePid, MakeFifo, Move, TypeOK
<1>3. ChildLater(w)
  <2>1. CASE SavePid(w)
    BY <2>1 DEF SavePid, Move, TypeOK, ChildLater, Stage
  <2>2. CASE MakeFifo(w)
    BY <2>2 DEF MakeFifo, Move, TypeOK, ChildLater, Stage
  <2> QED
    BY <2>1, <2>2 DEF Child
<1> QED
  BY <1>1, <1>2, <1>3 DEF Onwards, ClientSame, ChildSame

LEMMA ClientOnwards ==
  ASSUME TypeOK, WaitInv, NEW c \in Client, SeeWhat(c)
  PROVE  Onwards
<1>1. \A d \in Client : d # c => ClientSame(d)
  BY ClientOfOne DEF Same, ClientSame
<1>2. ClientLater(c)
  <2>1. CASE CloseShow(c)
    <3>1. pc[c] = "sent" /\ pc'[c] = IF round[c] = Rounds[c] THEN "done" ELSE "ask"
      BY <2>1, GotoPc DEF CloseShow
    <3>2. round'[c] = (IF round[c] = Rounds[c] THEN round[c] ELSE round[c] + 1) /\ round[c] \in Nat
      BY <2>1 DEF CloseShow, TypeOK
    <3> QED
      BY <3>1, <3>2 DEF ClientLater, Place, Over
  <2>8. CASE Ask(c)
    <3>1. pc[c] = "ask" /\ pc'[c] \in {"fork", "failed"} /\ round' = round
      BY <2>8, GotoPc DEF Ask
    <3> QED
      BY <3>1, Places DEF ClientLater, Over
  <2>2. CASE Fork1(c) \/ Fork2(c)
    BY <2>2, Places DEF TypeOK, Goto, Fork1, Fork2, Fork, ClientLater
  <2>3. CASE Read1(c) \/ Read2(c)
    BY <2>3, Places DEF TypeOK, Goto, Read1, Read2, Fetch, ClientLater
  <2>4. CASE Skip1(c) \/ Fail2(c)
    BY <2>4 DEF TypeOK, Goto, Skip1, Fail2, ClientLater, Place, Over
  <2>5. CASE OpenShow(c)
    <3>1. pc[c] = "send" /\ pc'[c] \in {"package", "sendwait"} /\ round' = round
      BY <2>5 DEF TypeOK, Goto, OpenShow
    <3> QED
      BY <3>1, Places DEF ClientLater
  <2>6. CASE WritePackage(c)
    BY <2>6, Places DEF TypeOK, Goto, WritePackage, ClientLater
  <2>7. CASE Killed(c)
    BY <2>7, Places DEF TypeOK, Goto, Killed, ClientLater, Over
  <2> QED
    BY <2>1, <2>2, <2>3, <2>4, <2>5, <2>6, <2>7, <2>8 DEF SeeWhat
<1>3. ASSUME NEW w \in Worker PROVE ChildLater(w) \/ ChildSame(w)
  <2>1. ASSUME NEW kind \in {"inverse", "convolution"}, worker' = [worker EXCEPT ![Own(c, kind)] = "born"],
               pc[c] = "fork" \/ (pc[c] = "fork2" /\ kind = "convolution")
        PROVE  ChildLater(w) \/ ChildSame(w)
    <3>1. worker[Own(c, kind)] = "unborn"
      BY <2>1, NewChild
    <3> QED
      BY <2>1, <3>1 DEF TypeOK, ChildLater, ChildSame, Stage
  <2>2. CASE Fork1(c) \/ Fork2(c)
    BY <2>1, <2>2 DEF Fork1, Fork2, Fork, Goto
  <2>3. CASE Read1(c) \/ Read2(c)
    BY <2>3 DEF Read1, Read2, Fetch, TypeOK, ChildLater, ChildSame, Stage
  <2>4. CASE ~(Fork1(c) \/ Fork2(c) \/ Read1(c) \/ Read2(c))
    BY <2>4 DEF SeeWhat, Ask, Skip1, Fail2, OpenShow, WritePackage, Killed, CloseShow, child, ChildSame
  <2> QED
    BY <2>2, <2>3, <2>4
<1> QED
  BY <1>1, <1>2, <1>3 DEF Onwards

LEMMA ShowOnwards ==
  ASSUME TypeOK, ShowResult
  PROVE  Onwards
<1>0. Len(box) \in Nat
  BY LenProperties DEF TypeOK
<1>1. /\ UNCHANGED <<round, worker>>
      /\ \A c \in Client : pc'[c] = pc[c] \/ (OpenResults /\ pc[c] = "sendwait" /\ pc'[c] = "package")
  BY DEF ShowResult, OpenResults, Show, EmptyRead, CloseResults, client, child
<1>2. \A c \in Client : ClientLater(c) \/ ClientSame(c)
  BY <1>1, Places DEF ClientLater, ClientSame
<1>3. \A w \in Worker : ChildSame(w)
  BY <1>1 DEF ChildSame
<1>4. ASSUME \A c \in Client : ClientSame(c) PROVE ShowNearer
  <2>1. Writing' = Writing
    BY <1>4 DEF Writing, ClientSame
  <2>2. CASE OpenResults
    BY <1>0, <2>1, <2>2 DEF OpenResults, ShowNearer, Distance
  <2>3. CASE Show
    <3>1. box' = Tail(box) /\ box # <<>>
      BY <2>3 DEF Show, Taken
    <3>2. Len(Tail(box)) = Len(box) - 1
      BY <3>1, HeadTailProperties DEF TypeOK
    <3>3. Len(box') < Len(box)
      <4>1. Len(box') = Len(box) - 1
        BY <3>1, <3>2
      <4> QED
        BY <1>0, <4>1
    <3> QED
      BY <3>3 DEF ShowNearer
  <2>4. CASE EmptyRead
    BY <1>0, <2>1, <2>4 DEF EmptyRead, ShowNearer, Distance
  <2>5. CASE CloseResults
    <3>1. show = "close" /\ show' = "open" /\ (box' = box \/ box' = <<>>)
      BY <2>5 DEF CloseResults, Kept
    <3>2. Len(box') = Len(box) \/ Len(box') < Len(box)
      <4>1. Len(<<>>) = 0
        BY EmptySeq
      <4> QED
        BY <1>0, <3>1, <4>1
    <3> QED
      BY <3>1, <3>2 DEF ShowNearer, Distance
  <2> QED
    BY <2>2, <2>3, <2>4, <2>5 DEF ShowResult
<1> QED
  BY <1>2, <1>3, <1>4 DEF Onwards

LEMMA ShutdownOnwards ==
  ASSUME TypeOK, Shutdown
  PROVE  Onwards
<1>0. Len(box) \in Nat
  BY LenProperties DEF TypeOK
<1>1. /\ show # "gone" /\ show' = "gone" /\ box' = <<>> /\ round' = round
      /\ \A c \in Client : pc'[c] = IF pc[c] \in Over THEN pc[c] ELSE "killed"
      /\ \A w \in Worker : worker'[w] = worker[w] \/ (worker'[w] = "gone" /\ worker[w] \in {"compute", "wait"})
  BY DEF Shutdown, TypeOK, Unsaved
<1>2. ASSUME NEW c \in Client PROVE ClientLater(c) \/ ClientSame(c)
  <2>1. pc[c] \in Step \cup Over
    BY DEF TypeOK
  <2> QED
    BY <1>1, <2>1 DEF ClientLater, ClientSame, Place, Step, Over
<1>3. \A w \in Worker : ChildLater(w) \/ ChildSame(w)
  BY <1>1 DEF ChildLater, ChildSame, Stage
<1>4. ShowNearer
  <2>1. Distance \in Nat
    BY <1>1 DEF Distance, TypeOK
  <2>2. Distance' = -1
    BY <1>1 DEF Distance
  <2>3. Len(box') = 0
    BY <1>1, EmptySeq
  <2> QED
    BY <1>0, <2>1, <2>2, <2>3 DEF ShowNearer
<1> QED
  BY <1>2, <1>3, <1>4 DEF Onwards

\* Every step takes a client or a child on, or showResult nearer to where it waits for them, and
\* none goes back, interrupted or not: the rounds are bounded, so that no client and no
\* showResult is busy for ever, with packages that get lost or read as empty.
THEOREM NoStepBack == Spec => [][Onwards]_vars
<1>1. TypeOK /\ WaitInv /\ [Next]_vars => [Onwards]_vars
  BY ChildOnwards, ClientOnwards, ShowOnwards, ShutdownOnwards DEF Next
<1>2. IInv => TypeOK
  BY DEF IInv
<1> QED
  BY <1>1, <1>2, Invariance, WaitInvariance, PTL DEF Spec
=============================================================================
