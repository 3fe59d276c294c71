------------------------- MODULE GrepShared_proofs -------------------------
(***************************************************************************)
(* Proofs about GrepShared, for every tree, any number of matches, and     *)
(* sleeps that are long enough or not.                                     *)
(*                                                                         *)
(* The counts of messages hold of every run (Counted). What is in the      *)
(* segments is known of a timely run only: there the subdirectories of a   *)
(* directory meet in one segment, which nobody else ever has, all have     *)
(* added before the directory looks, and the segment loses its key before  *)
(* anybody waits for it (Family). After SIGINT nothing of this is claimed. *)
(*                                                                         *)
(* The last part shows that nobody waits for ever in a timely run: the     *)
(* flag of a segment is always somebody's turn, the semaphore is free or   *)
(* held by one thread, and who is waited for can go on (NeverStuck).       *)
(***************************************************************************)
EXTENDS GrepShared, FiniteSetTheorems, SequenceTheorems, TLAPS

Place == {"unborn", "born", "loop", "get", "attach", "lower", "add", "raise", "poll", "sleep", "see",
          "check", "send", "wait", "receive", "gone", "failed", "killed"}
HasSegment == {"attach", "lower", "add", "raise", "poll", "see", "check", "send"}

TypeOK ==
  /\ hits \in [File -> Nat] /\ timely \in BOOLEAN /\ room \in BOOLEAN
  /\ pc \in [Dir -> Place] /\ next \in [Dir -> Nat \ {0}]
  /\ th \in [File -> {"none", "ready", "scan", "end", "dead"}]
  /\ left \in [File -> Nat] /\ \A f \in File : left[f] <= hits[f]
  /\ sem \in Nat /\ found \in [Dir -> Nat]
  /\ seg \in [Dir -> [key : Dir \cup {None, Reaper}, flag : {-1, 0, 1}, count : Nat]]
  /\ at \in [Dir -> Dir \cup {None}] /\ sum \in [Dir -> Nat]
  /\ \A d \in Dir : pc[d] \in HasSegment => at[d] \in Dir
  /\ queue \in Seq(Nat) /\ history \in Nat
  /\ need \in Nat /\ got \in Nat /\ num \in Int /\ (QueueThere => num \in Nat) /\ verdict \in {"none", "found", "never"}

Live == pc[Root] # "killed"
Calm == timely /\ Live

\* Entries are handed out in order, and each process has its way.
Order ==
  /\ \A d \in Dir : \A i \in DOMAIN Entries[d] : i >= next[d] =>
       /\ Entries[d][i] \in Dir => pc[Entries[d][i]] = "unborn"
       /\ Entries[d][i] \in File => th[Entries[d][i]] = "none"
  /\ \A d \in Dir : pc[d] \in {"unborn", "born"} => next[d] = 1
  /\ pc[Root] \notin {"unborn", "born", "get", "attach", "lower", "add", "raise", "poll"}
  /\ \A d \in Dir : pc[d] = "receive" => d = Root
  /\ \A d \in Dir : pc[d] \in {"sleep", "see", "check", "send"} => Subdirs(d) # {}
  /\ \A d \in Dir : pc[d] # "killed"

\* Who has sent a message, and who has an entry with subdirectories in history.txt.
Senders == {d \in Dir : Subdirs(d) # {} /\ pc[d] \in {"wait", "receive", "gone"}}
Recorders == {d \in Dir \ {Root} : Subdirs(d) # {} /\ pc[d] = "gone"}
Counted ==
  /\ QueueThere => Len(queue) + got = Cardinality(Senders)
  /\ ~QueueThere => queue = <<>>
  /\ pc[Root] # "gone" => history = Cardinality(Recorders)
  /\ pc[Root] = "receive" => need <= Cardinality(Recorders) + 1
  /\ pc[Root] = "gone" => got = need /\ verdict = Verdict(num)

\* Without matches nothing is ever counted.
Barren == \A f \in File : hits[f] = 0
Empty ==
  Barren => /\ \A d \in Dir : found[d] = 0 /\ sum[d] = 0 /\ seg[d].count = 0
            /\ \A i \in DOMAIN queue : queue[i] = 0
            /\ QueueThere => num = 0
Told == Barren /\ QueueThere => verdict # "found"

\* A process has counted what its threads have found.
Searched ==
  /\ \A f \in File : left[f] < hits[f] => found[Home(f)] > 0
  /\ \A f \in File : th[f] = "end" => left[f] = 0
  /\ \A f \in File : th[f] \in {"none", "ready"} => left[f] = hits[f]
  /\ \A d \in Dir : pc[d] \notin {"unborn", "born", "loop"} => \A f \in Files(d) : th[f] = "end"

\* The subdirectories of k and their segment.
NotYet == {"unborn", "born", "loop", "get"}
Inside == {"attach", "lower", "add", "raise", "poll"}
Before == NotYet \cup Inside \cup {"sleep"}
Family(k) ==
  /\ \A c \in Subdirs(k) : pc[c] \in NotYet => seg[c] = NoSegment
  /\ \A c \in Subdirs(k) : pc[c] \in Inside => at[c] \in Subdirs(k)
  /\ \A s \in Keyed(k) : s \in Subdirs(k) /\ pc[s] \notin NotYet
  /\ pc[k] \in Before \cup {"see"} =>
       /\ \A c \in Subdirs(k) : pc[c] \in NotYet \cup Inside
       /\ \A c \in Subdirs(k) : pc[c] \in Inside => Keyed(k) = {at[c]}
       /\ \A s \in Keyed(k) : seg[s].flag # 1
  /\ pc[k] = "see" => at[k] \in Keyed(k)
  /\ pc[k] \in {"check", "send"} => at[k] \in Subdirs(k) /\ Keyed(k) \subseteq {at[k]}
  /\ pc[k] \in {"wait", "receive", "gone"} => Keyed(k) = {}
  /\ pc[k] \notin Before => \A c \in Subdirs(k) : pc[c] \notin Adding
  /\ pc[k] \in {"receive", "gone"} => \A c \in Subdirs(k) : pc[c] = "gone"
Families ==
  /\ \A k \in Dir : Family(k)
  /\ \A s \in Dir : seg[s].key # Reaper
  /\ \A d \in Dir : pc[d] # "failed"
  /\ pc[Root] = "receive" => need = Cardinality(Recorders) + 1
  /\ pc[Root] = "gone" => need = Cardinality(Recorders) + 1 /\ history = 0

\* What subdirectories have found gets through, if each of them has found something.
AllMatch(k) == Subdirs(k) # {} /\ \A c \in Subdirs(k) : Matches(c)
Positive == num > 0 \/ \E i \in DOMAIN queue : queue[i] > 0
Through ==
  /\ \A k \in Dir : AllMatch(k) =>
       /\ \A c \in Subdirs(k) :
            pc[c] \in {"raise", "poll"} /\ pc[k] \in Before => seg[at[c]].count > 0
       /\ pc[k] \in {"see", "check", "send"} => seg[at[k]].count > 0
       /\ pc[k] \in {"wait", "receive", "gone"} => Positive
  /\ pc[Root] = "gone" /\ Matches(Root) => num > 0

IInv ==
  /\ TypeOK /\ Empty /\ Told
  /\ Live => Order /\ Counted /\ Searched
  /\ Calm => Families
  /\ Calm /\ QueueThere => Through
---------------------------------------------------------------------------
(* The tree *)

LEMMA Sequence ==
  \A d \in Dir : /\ Entries[d] \in Seq(Dir \cup File) /\ Len(Entries[d]) \in Nat
                 /\ DOMAIN Entries[d] = 1 .. Len(Entries[d])
                 /\ ToSet(Entries[d]) = {Entries[d][i] : i \in DOMAIN Entries[d]}
<1>1. ASSUME NEW d \in Dir PROVE Entries[d] \in Seq(Dir \cup File)
  BY <1>1, SharedTreeAssumption
<1> QED
  BY <1>1, LenProperties DEF ToSet

\* Every entry is in the directory Home says, and only there.
LEMMA HomeIs == \A d \in Dir : \A e \in ToSet(Entries[d]) : Home(e) = d
<1> SUFFICES ASSUME NEW d \in Dir, NEW e \in ToSet(Entries[d])
             PROVE  Home(e) = d
  OBVIOUS
<1>1. \A x \in Dir : e \in ToSet(Entries[x]) => x = d
  BY SharedTreeAssumption
<1> QED
  BY <1>1 DEF Home

LEMMA HomeOf ==
  \A e \in (Dir \cup File) \ {Root} : Home(e) \in Dir /\ e \in ToSet(Entries[Home(e)])
<1> SUFFICES ASSUME NEW e \in (Dir \cup File) \ {Root}
             PROVE  Home(e) \in Dir /\ e \in ToSet(Entries[Home(e)])
  OBVIOUS
<1>1. PICK d \in Dir : e \in ToSet(Entries[d])
  BY SharedTreeAssumption
<1> QED
  BY <1>1, HomeIs

LEMMA Members ==
  /\ Root \in Dir /\ Dir \cap File = {} /\ Root \notin File
  /\ \A d \in Dir : ToSet(Entries[d]) \subseteq (Dir \cup File) \ {Root}
<1>1. \A d \in Dir : ToSet(Entries[d]) \subseteq UNION {ToSet(Entries[x]) : x \in Dir}
  OBVIOUS
<1> QED
  BY <1>1, SharedTreeAssumption

\* The members of a directory, by Home.
LEMMA Children ==
  /\ \A k \in Dir : Subdirs(k) = {c \in Dir \ {Root} : Home(c) = k}
  /\ \A k \in Dir : Files(k) = {f \in File : Home(f) = k}
  /\ \A c \in Dir \ {Root} : Home(c) \in Dir
  /\ \A f \in File : Home(f) \in Dir
<1>1. ASSUME NEW k \in Dir PROVE Subdirs(k) = {c \in Dir \ {Root} : Home(c) = k}
  BY <1>1, HomeIs, HomeOf, Members DEF Subdirs
<1>2. ASSUME NEW k \in Dir PROVE Files(k) = {f \in File : Home(f) = k}
  BY <1>2, HomeIs, HomeOf, Members DEF Files
<1> QED
  BY <1>1, <1>2, HomeOf, Members

\* Of any directories one is highest.
LEMMA Highest ==
  ASSUME NEW S \in SUBSET (Dir \ {Root}), S # {}
  PROVE  \E c \in S : Home(c) \in Dir \ S
<1>1. PICK d \in Dir \ S : ToSet(Entries[d]) \cap S # {}
  BY SharedTreeAssumption
<1>2. PICK c \in S : c \in ToSet(Entries[d])
  BY <1>1
<1> QED
  BY <1>1, <1>2, HomeIs

LEMMA NotIn == \A c \in Dir \ {Root} : Home(c) # c
<1> SUFFICES ASSUME NEW c \in Dir \ {Root}
             PROVE  Home(c) # c
  OBVIOUS
<1>1. {c} \in SUBSET (Dir \ {Root}) /\ {c} # {}
  OBVIOUS
<1>2. \E x \in {c} : Home(x) \in Dir \ {c}
  BY <1>1, Highest
<1>3. PICK x \in {c} : Home(x) \in Dir \ {c}
  BY <1>2
<1>4. x = c
  OBVIOUS
<1> QED
  BY <1>3, <1>4

\* A main process without subdirectories has no other processes.
LEMMA RootAlone == Subdirs(Root) = {} => Dir = {Root}
<1> SUFFICES ASSUME Dir # {Root} PROVE Subdirs(Root) # {}
  OBVIOUS
<1>1. Dir \ {Root} \in SUBSET (Dir \ {Root}) /\ Dir \ {Root} # {}
  BY Members
<1>2. PICK c \in Dir \ {Root} : Home(c) \in Dir \ (Dir \ {Root})
  BY <1>1, Highest
<1>3. Home(c) = Root
  BY <1>2
<1> QED
  BY <1>3, Children, Members

LEMMA Places ==
  /\ \A d \in Dir : \A i \in DOMAIN Entries[d] :
       Entries[d][i] \in (Dir \cup File) \ {Root} /\ Home(Entries[d][i]) = d
  /\ \A d \in Dir : \A i, j \in DOMAIN Entries[d] : Entries[d][i] = Entries[d][j] => i = j
  /\ \A e \in (Dir \cup File) \ {Root} :
       \E i \in DOMAIN Entries[Home(e)] : Entries[Home(e)][i] = e
<1>1. ASSUME NEW d \in Dir, NEW i \in DOMAIN Entries[d]
      PROVE  Entries[d][i] \in (Dir \cup File) \ {Root} /\ Home(Entries[d][i]) = d
  <2>1. Entries[d][i] \in ToSet(Entries[d])
    BY <1>1, Sequence
  <2> QED
    BY <1>1, <2>1, HomeIs, Members
<1>2. ASSUME NEW d \in Dir, NEW i \in DOMAIN Entries[d], NEW j \in DOMAIN Entries[d],
             Entries[d][i] = Entries[d][j]
      PROVE  i = j
  BY <1>2, SharedTreeAssumption DEF IsInjective
<1>3. ASSUME NEW e \in (Dir \cup File) \ {Root}
      PROVE  \E i \in DOMAIN Entries[Home(e)] : Entries[Home(e)][i] = e
  <2> DEFINE d == Home(e)
  <2>1. d \in Dir /\ e \in ToSet(Entries[d])
    BY <1>3, HomeOf
  <2> HIDE DEF d
  <2>2. \E i \in DOMAIN Entries[d] : Entries[d][i] = e
    <3>1. ToSet(Entries[d]) = {Entries[d][i] : i \in DOMAIN Entries[d]}
      BY <2>1, Sequence
    <3> QED
      BY <2>1, <3>1
  <2> QED
    BY <2>2 DEF d
<1> QED
  BY <1>1, <1>2, <1>3
---------------------------------------------------------------------------
(* Types *)

LEMMA InitType == Init => TypeOK
<1> SUFFICES ASSUME Init
             PROVE  TypeOK
  OBVIOUS
<1>1. hits \in [File -> Nat] /\ left = hits
  BY SharedTreeAssumption DEF Init
<1>2. left \in [File -> Nat] /\ \A f \in File : left[f] <= hits[f]
  BY <1>1
<1>3. seg \in [Dir -> [key : Dir \cup {None, Reaper}, flag : {-1, 0, 1}, count : Nat]]
  BY DEF Init, NoSegment
<1>4. /\ \A d \in Dir : pc[d] \in {"loop", "unborn"}
      /\ \A d \in Dir : pc[d] \notin HasSegment
  BY DEF Init, HasSegment
<1>5. pc \in [Dir -> Place]
  BY DEF Init, Place
<1>6. /\ next \in [Dir -> Nat \ {0}] /\ found \in [Dir -> Nat] /\ at \in [Dir -> Dir \cup {None}]
      /\ sum \in [Dir -> Nat] /\ queue \in Seq(Nat) /\ sem \in Nat
      /\ history \in Nat /\ need \in Nat /\ got \in Nat /\ num \in Nat
      /\ verdict \in {"none", "found", "never"} /\ timely \in BOOLEAN /\ room \in BOOLEAN
  BY DEF Init
<1>7. th \in [File -> {"none", "ready", "scan", "end", "dead"}]
  BY DEF Init
<1> QED
  BY <1>1, <1>2, <1>3, <1>4, <1>5, <1>6, <1>7 DEF TypeOK

LEMMA KeyIsThere ==
  /\ None \notin Dir /\ Reaper \notin Dir /\ None # Reaper
BY SharedTreeAssumption

\* A change of one field of one segment.
LEMMA KeyField ==
  ASSUME TypeOK, NEW s \in Dir, NEW k \in Dir \cup {None, Reaper}, seg' = [seg EXCEPT ![s].key = k]
  PROVE  /\ seg' \in [Dir -> [key : Dir \cup {None, Reaper}, flag : {-1, 0, 1}, count : Nat]]
         /\ seg'[s].key = k /\ seg'[s].flag = seg[s].flag /\ seg'[s].count = seg[s].count
         /\ \A x \in Dir \ {s} : seg'[x] = seg[x]
<1>1. seg \in [Dir -> [key : Dir \cup {None, Reaper}, flag : {-1, 0, 1}, count : Nat]]
  BY DEF TypeOK
<1> QED
  BY <1>1

LEMMA FlagField ==
  ASSUME TypeOK, NEW s \in Dir, NEW b \in {-1, 0, 1}, seg' = [seg EXCEPT ![s].flag = b]
  PROVE  /\ seg' \in [Dir -> [key : Dir \cup {None, Reaper}, flag : {-1, 0, 1}, count : Nat]]
         /\ seg'[s].key = seg[s].key /\ seg'[s].flag = b /\ seg'[s].count = seg[s].count
         /\ \A x \in Dir \ {s} : seg'[x] = seg[x]
<1>1. seg \in [Dir -> [key : Dir \cup {None, Reaper}, flag : {-1, 0, 1}, count : Nat]]
  BY DEF TypeOK
<1> QED
  BY <1>1

LEMMA CountField ==
  ASSUME TypeOK, NEW s \in Dir, NEW n \in Nat, seg' = [seg EXCEPT ![s].count = n]
  PROVE  /\ seg' \in [Dir -> [key : Dir \cup {None, Reaper}, flag : {-1, 0, 1}, count : Nat]]
         /\ seg'[s].key = seg[s].key /\ seg'[s].flag = seg[s].flag /\ seg'[s].count = n
         /\ \A x \in Dir \ {s} : seg'[x] = seg[x]
<1>1. seg \in [Dir -> [key : Dir \cup {None, Reaper}, flag : {-1, 0, 1}, count : Nat]]
  BY DEF TypeOK
<1> QED
  BY <1>1

\* The main process never gets to writeToSharedMem.
RootPlace == pc[Root] \notin {"unborn", "born", "get", "attach", "lower", "add", "raise", "poll"}

LEMMA ThreadTypes ==
  ASSUME TypeOK, NEW f \in File, Thread(f)
  PROVE  TypeOK'
<1>1. ASSUME Acquire(f) PROVE TypeOK'
  BY <1>1 DEF TypeOK, Acquire, QueueThere, input, memory, totals
<1>2. ASSUME FindMatch(f) PROVE TypeOK'
  <2>1. found' \in [Dir -> Nat]
    BY <1>2, Children DEF TypeOK, FindMatch
  <2>2. left' \in [File -> Nat] /\ \A g \in File : left'[g] <= hits[g]
    <3>1. left' = [left EXCEPT ![f] = left[f] - 1] /\ left[f] - 1 \in Nat /\ left[f] - 1 <= hits[f]
      <4>1. left[f] \in Nat /\ hits[f] \in Nat /\ left[f] <= hits[f] /\ left[f] > 0
        BY <1>2 DEF TypeOK, FindMatch
      <4> QED
        BY <1>2, <4>1 DEF FindMatch
    <3>2. left' \in [File -> Nat] /\ left'[f] = left[f] - 1 /\ \A g \in File \ {f} : left'[g] = left[g]
      BY <3>1 DEF TypeOK
    <3> QED
      BY <3>1, <3>2 DEF TypeOK
  <2> QED
    BY <1>2, <2>1, <2>2 DEF TypeOK, FindMatch, QueueThere, input, memory, totals
<1>3. ASSUME Release(f) PROVE TypeOK'
  BY <1>3 DEF TypeOK, Release, QueueThere, input, memory, totals
<1> QED
  BY <1>1, <1>2, <1>3 DEF Thread

\* What pc becomes.
LEMMA PcAt ==
  ASSUME TypeOK, NEW d \in Dir, NEW p, NEW q, Goto(d, p, q)
  PROVE  /\ pc[d] = p /\ pc'[d] = q /\ \A x \in Dir \ {d} : pc'[x] = pc[x]
         /\ q \in Place => pc' \in [Dir -> Place]
BY DEF TypeOK, Goto

LEMMA ListTypes ==
  ASSUME TypeOK, NEW d \in Dir, Create(d) \/ Fork(d) \/ SavePid(d) \/ Join(d)
  PROVE  TypeOK'
<1>1. ASSUME Create(d) PROVE TypeOK'
  <2>1. next' \in [Dir -> Nat \ {0}] /\ th' \in [File -> {"none", "ready", "scan", "end", "dead"}]
    BY <1>1 DEF TypeOK, Create
  <2>2. UNCHANGED <<hits, timely, room, pc, left, sem, found, seg, at, sum, queue, history, need, got, num, verdict>>
    BY <1>1 DEF Create, input, memory, totals
  <2> QED
    BY <2>1, <2>2 DEF TypeOK, QueueThere
<1>2. ASSUME Fork(d) PROVE TypeOK'
  <2>1. PICK c \in Dir : c = Entry(d)
    BY <1>2 DEF Fork
  <2>2. pc' = [pc EXCEPT ![c] = "born"] /\ found' = [found EXCEPT ![c] = found[d]]
    BY <1>2, <2>1 DEF Fork
  <2>3. pc' \in [Dir -> Place] /\ found' \in [Dir -> Nat]
    BY <2>2 DEF TypeOK, Place
  <2>4. \A x \in Dir : pc'[x] \in HasSegment => pc[x] \in HasSegment
    BY <2>2 DEF TypeOK, HasSegment
  <2>5. next' \in [Dir -> Nat \ {0}]
    BY <1>2 DEF TypeOK, Fork
  <2> QED
    BY <1>2, <2>3, <2>4, <2>5 DEF TypeOK, Fork, QueueThere, input, memory, totals
<1>3. ASSUME SavePid(d) PROVE TypeOK'
  <2>1. pc' \in [Dir -> Place] /\ \A x \in Dir : pc'[x] \in HasSegment => pc[x] \in HasSegment
    BY <1>3, PcAt DEF SavePid, Place, HasSegment
  <2> QED
    BY <1>3, <2>1 DEF TypeOK, SavePid, QueueThere, input, thread, memory, totals
<1>4. ASSUME Join(d) PROVE TypeOK'
  <2>1. pc' \in [Dir -> Place] /\ \A x \in Dir : pc'[x] \in HasSegment => pc[x] \in HasSegment
    BY <1>4, PcAt DEF Join, Reads, Place, HasSegment
  <2> QED
    BY <1>4, <2>1 DEF TypeOK, Join, QueueThere, input, thread, memory, totals
<1> QED
  BY <1>1, <1>2, <1>3, <1>4

LEMMA AtAt ==
  ASSUME TypeOK, NEW d \in Dir, NEW s \in Dir \cup {None}, at' = [at EXCEPT ![d] = s]
  PROVE  at' \in [Dir -> Dir \cup {None}] /\ at'[d] = s /\ \A x \in Dir \ {d} : at'[x] = at[x]
BY DEF TypeOK

LEMMA KeysOf ==
  ASSUME NEW d \in Dir, d # Root
  PROVE  Home(d) \in Dir /\ ParentOf(d) \in Dir \cup {None, Reaper}
BY Children DEF ParentOf

\* What a process does with its segment while it adds its count.
LEMMA GetMoves ==
  ASSUME TypeOK, NEW d \in Dir, d # Root, Get(d)
  PROVE  \E k \in {Home(d), ParentOf(d)}, s \in Dir :
           /\ IF Keyed(k) = {} THEN s = d ELSE s \in Keyed(k)
           /\ at' = [at EXCEPT ![d] = s] /\ seg' = [seg EXCEPT ![s].key = k]
<1>1. PICK k \in {Home(d), ParentOf(d)} :
        \E s \in IF Keyed(k) = {} THEN {d} ELSE Keyed(k) :
          at' = [at EXCEPT ![d] = s] /\ seg' = [seg EXCEPT ![s].key = k]
  BY DEF Get
<1>2. PICK s \in IF Keyed(k) = {} THEN {d} ELSE Keyed(k) :
          at' = [at EXCEPT ![d] = s] /\ seg' = [seg EXCEPT ![s].key = k]
  BY <1>1
<1>3. s \in Dir /\ IF Keyed(k) = {} THEN s = d ELSE s \in Keyed(k)
  BY <1>2 DEF Keyed
<1> QED
  BY <1>1, <1>2, <1>3

LEMMA MemoryTypes ==
  ASSUME TypeOK, RootPlace, NEW d \in Dir,
         Get(d) \/ Attach(d) \/ AttachFails(d) \/ Load(d) \/ Store(d) \/ Raise(d) \/ Released(d)
  PROVE  TypeOK'
<1>1. ASSUME Get(d) PROVE TypeOK'
  <2>1. pc[d] = "get" /\ pc'[d] = "attach" /\ pc' \in [Dir -> Place]
          /\ \A x \in Dir \ {d} : pc'[x] = pc[x]
    BY <1>1, PcAt DEF Get, Place
  <2>2. d # Root
    BY <2>1 DEF RootPlace
  <2>3. PICK k \in {Home(d), ParentOf(d)}, s \in Dir :
           at' = [at EXCEPT ![d] = s] /\ seg' = [seg EXCEPT ![s].key = k]
    BY <1>1, <2>2, GetMoves
  <2>4. k \in Dir \cup {None, Reaper}
    BY <2>2, KeysOf
  <2>5. seg' \in [Dir -> [key : Dir \cup {None, Reaper}, flag : {-1, 0, 1}, count : Nat]]
    BY <2>3, <2>4, KeyField
  <2>6. at' \in [Dir -> Dir \cup {None}] /\ \A x \in Dir : pc'[x] \in HasSegment => at'[x] \in Dir
    <3>1. at' \in [Dir -> Dir \cup {None}] /\ at'[d] = s /\ \A x \in Dir \ {d} : at'[x] = at[x]
      BY <2>3, AtAt
    <3> QED
      BY <2>1, <3>1 DEF TypeOK
  <2> QED
    BY <1>1, <2>1, <2>5, <2>6 DEF TypeOK, Get, QueueThere, input, thread, totals
<1>2. ASSUME pc[d] \in HasSegment, pc' = [pc EXCEPT ![d] = "add"] \/ pc' = [pc EXCEPT ![d] = "raise"]
                                     \/ pc' = [pc EXCEPT ![d] = "poll"],
             at' = at
      PROVE  pc' \in [Dir -> Place] /\ \A x \in Dir : pc'[x] \in HasSegment => at'[x] \in Dir
  <2>1. pc'[d] \in {"add", "raise", "poll"} /\ \A x \in Dir \ {d} : pc'[x] = pc[x]
    BY <1>2 DEF TypeOK
  <2> QED
    BY <1>2, <2>1 DEF TypeOK, Place
<1>3. ASSUME Load(d) PROVE TypeOK'
  <2>1. pc[d] \in HasSegment /\ at[d] \in Dir /\ at' = at /\ pc' = [pc EXCEPT ![d] = "add"]
    BY <1>3 DEF TypeOK, Load, Goto, HasSegment
  <2>2. seg' \in [Dir -> [key : Dir \cup {None, Reaper}, flag : {-1, 0, 1}, count : Nat]]
    BY <1>3, <2>1, FlagField DEF Load
  <2>3. sum' \in [Dir -> Nat]
    BY <1>3, <2>1 DEF TypeOK, Load, Here
  <2> QED
    BY <1>2, <1>3, <2>1, <2>2, <2>3 DEF TypeOK, Load, QueueThere, input, thread, totals
<1>4. ASSUME Store(d) PROVE TypeOK'
  <2>1. pc[d] \in HasSegment /\ at[d] \in Dir /\ at' = at /\ pc' = [pc EXCEPT ![d] = "raise"]
    BY <1>4 DEF TypeOK, Store, Goto, HasSegment
  <2>2. sum[d] + found[d] \in Nat
    BY DEF TypeOK
  <2>3. seg' \in [Dir -> [key : Dir \cup {None, Reaper}, flag : {-1, 0, 1}, count : Nat]]
    BY <1>4, <2>1, <2>2, CountField DEF Store
  <2> QED
    BY <1>2, <1>4, <2>1, <2>3 DEF TypeOK, Store, QueueThere, input, thread, totals
<1>5. ASSUME Raise(d) PROVE TypeOK'
  <2>1. pc[d] \in HasSegment /\ at[d] \in Dir /\ at' = at /\ pc' = [pc EXCEPT ![d] = "poll"]
    BY <1>5 DEF TypeOK, Raise, Goto, HasSegment
  <2>2. seg' \in [Dir -> [key : Dir \cup {None, Reaper}, flag : {-1, 0, 1}, count : Nat]]
    BY <1>5, <2>1, FlagField DEF Raise
  <2> QED
    BY <1>2, <1>5, <2>1, <2>2 DEF TypeOK, Raise, QueueThere, input, thread, totals
<1>6. ASSUME Released(d) PROVE TypeOK'
  <2>1. pc[d] = "poll" /\ at[d] \in Dir /\ at' = [at EXCEPT ![d] = None]
    BY <1>6 DEF TypeOK, Released, HasSegment
  <2>2. pc'[d] \in {"wait", "sleep"} /\ pc' \in [Dir -> Place] /\ \A x \in Dir \ {d} : pc'[x] = pc[x]
    BY <1>6, PcAt DEF Released, Reads, Place
  <2>3. seg' \in [Dir -> [key : Dir \cup {None, Reaper}, flag : {-1, 0, 1}, count : Nat]]
    BY <1>6, <2>1, KeyField DEF Released, WithoutKey
  <2>4. at' \in [Dir -> Dir \cup {None}] /\ \A x \in Dir : pc'[x] \in HasSegment => at'[x] \in Dir
    <3>1. at' \in [Dir -> Dir \cup {None}] /\ \A x \in Dir \ {d} : at'[x] = at[x]
      BY <2>1, AtAt
    <3> QED
      BY <2>2, <3>1 DEF TypeOK, HasSegment
  <2> QED
    BY <1>6, <2>2, <2>3, <2>4 DEF TypeOK, Released, QueueThere, input, thread, totals
<1>7. ASSUME Attach(d) \/ AttachFails(d) PROVE TypeOK'
  <2>1. pc[d] = "attach" /\ pc'[d] \in {"lower", "failed"} /\ pc' \in [Dir -> Place]
          /\ \A x \in Dir \ {d} : pc'[x] = pc[x]
    BY <1>7, PcAt DEF Attach, AttachFails, Place
  <2>2. \A x \in Dir : pc'[x] \in HasSegment => at[x] \in Dir
    BY <2>1 DEF TypeOK, HasSegment
  <2> QED
    <3>1. UNCHANGED <<hits, timely, room, next, th, left, sem, found, seg, at, sum, queue, history, need, got, num,
                      verdict>>
      BY <1>7 DEF Attach, AttachFails, input, thread, memory, totals
    <3> QED
      BY <2>1, <2>2, <3>1 DEF TypeOK, QueueThere
<1> QED
  BY <1>1, <1>3, <1>4, <1>5, <1>6, <1>7

LEMMA ReadTypes ==
  ASSUME TypeOK, NEW d \in Dir, Find(d) \/ FindNone(d) \/ Answer(d) \/ Check(d) \/ Send(d)
  PROVE  TypeOK'
<1>1. ASSUME Find(d) PROVE TypeOK'
  <2>1. PICK s \in Keyed(d) : at' = [at EXCEPT ![d] = s]
    BY <1>1 DEF Find
  <2>2. s \in Dir /\ at' \in [Dir -> Dir \cup {None}] /\ at'[d] = s /\ \A x \in Dir \ {d} : at'[x] = at[x]
    BY <2>1, AtAt DEF Keyed
  <2>3. pc'[d] = "see" /\ pc' \in [Dir -> Place] /\ \A x \in Dir \ {d} : pc'[x] = pc[x]
    BY <1>1, PcAt DEF Find, Place
  <2>4. \A x \in Dir : pc'[x] \in HasSegment => at'[x] \in Dir
    BY <2>2, <2>3 DEF TypeOK
  <2> QED
    BY <1>1, <2>2, <2>3, <2>4 DEF TypeOK, Find, QueueThere, input, thread, totals
<1>2. ASSUME FindNone(d) PROVE TypeOK'
  <2>1. pc'[d] = "failed" /\ pc' \in [Dir -> Place] /\ \A x \in Dir \ {d} : pc'[x] = pc[x]
    BY <1>2, PcAt DEF FindNone, Place
  <2>2. \A x \in Dir : pc'[x] \in HasSegment => at[x] \in Dir
    BY <2>1 DEF TypeOK, HasSegment
  <2> QED
    BY <1>2, <2>1, <2>2 DEF TypeOK, FindNone, QueueThere, input, thread, memory, totals
<1>3. ASSUME Answer(d) PROVE TypeOK'
  <2>1. pc[d] = "see" /\ pc'[d] = "check" /\ pc' \in [Dir -> Place] /\ \A x \in Dir \ {d} : pc'[x] = pc[x]
    BY <1>3, PcAt DEF Answer, Place
  <2>2. at[d] \in Dir /\ \A x \in Dir : pc'[x] \in HasSegment => at[x] \in Dir
    BY <2>1 DEF TypeOK, HasSegment
  <2>3. seg' \in [Dir -> [key : Dir \cup {None, Reaper}, flag : {-1, 0, 1}, count : Nat]]
    BY <1>3, <2>2, FlagField DEF Answer, AnswerFlag
  <2> QED
    BY <1>3, <2>1, <2>2, <2>3 DEF TypeOK, Answer, QueueThere, input, thread, totals
<1>4. ASSUME Check(d) PROVE TypeOK'
  <2>1. pc[d] = "check" /\ pc'[d] = "send" /\ pc' \in [Dir -> Place] /\ \A x \in Dir \ {d} : pc'[x] = pc[x]
    BY <1>4, PcAt DEF Check, Place
  <2>2. \A x \in Dir : pc'[x] \in HasSegment => at[x] \in Dir
    BY <2>1 DEF TypeOK, HasSegment
  <2> QED
    BY <1>4, <2>1, <2>2 DEF TypeOK, Check, QueueThere, input, thread, memory, totals
<1>5. ASSUME Send(d) PROVE TypeOK'
  <2>1. pc[d] = "send" /\ pc'[d] = "wait" /\ pc' \in [Dir -> Place] /\ \A x \in Dir \ {d} : pc'[x] = pc[x]
    BY <1>5, PcAt DEF Send, Place
  <2>2. at[d] \in Dir
    BY <2>1 DEF TypeOK, HasSegment
  <2>3. at' \in [Dir -> Dir \cup {None}] /\ \A x \in Dir \ {d} : at'[x] = at[x]
    BY <1>5, AtAt DEF Send
  <2>4. \A x \in Dir : pc'[x] \in HasSegment => at'[x] \in Dir
    BY <2>1, <2>3 DEF TypeOK, HasSegment
  <2>5. seg' \in [Dir -> [key : Dir \cup {None, Reaper}, flag : {-1, 0, 1}, count : Nat]]
    BY <1>5, <2>2, KeyField DEF Send, WithoutKey
  <2>6. Here(d).count \in Nat
    BY <2>2 DEF TypeOK, Here
  <2>7. queue' \in Seq(Nat)
    BY <1>5, <2>6 DEF TypeOK, Send
  <2> QED
    BY <1>5, <2>1, <2>3, <2>4, <2>5, <2>7 DEF TypeOK, Send, QueueThere, input, thread, totals
<1> QED
  BY <1>1, <1>2, <1>3, <1>4, <1>5

LEMMA EndTypes ==
  ASSUME TypeOK, (\E d \in Dir : Record(d)) \/ Main \/ Interrupt
  PROVE  TypeOK'
<1>1. ASSUME NEW d \in Dir, Record(d) PROVE TypeOK'
  <2>1. pc'[d] = "gone" /\ pc' \in [Dir -> Place] /\ \A x \in Dir \ {d} : pc'[x] = pc[x]
    BY <1>1, PcAt DEF Record, Place
  <2>2. \A x \in Dir : pc'[x] \in HasSegment => at[x] \in Dir
    BY <2>1 DEF TypeOK, HasSegment
  <2>3. history' \in Nat
    BY <1>1 DEF TypeOK, Record
  <2> QED
    BY <1>1, <2>1, <2>2, <2>3 DEF TypeOK, Record, QueueThere, input, thread, memory, totals
<1>2. ASSUME ReadHistory PROVE TypeOK'
  <2>1. pc'[Root] = "receive" /\ pc' \in [Dir -> Place] /\ \A x \in Dir \ {Root} : pc'[x] = pc[x]
    BY <1>2, Members, PcAt DEF ReadHistory, Place
  <2>2. \A x \in Dir : pc'[x] \in HasSegment => at[x] \in Dir
    BY <2>1 DEF TypeOK, HasSegment
  <2>3. need' \in Nat
    BY <1>2 DEF TypeOK, ReadHistory, Needed
  <2> QED
    BY <1>2, <2>1, <2>2, <2>3 DEF TypeOK, ReadHistory, QueueThere, input, thread, memory
<1>3. ASSUME Receive PROVE TypeOK'
  <2>1. Head(queue) \in Nat /\ Tail(queue) \in Seq(Nat)
    BY <1>3, HeadTailProperties DEF TypeOK, Receive
  <2>2. num' \in Int /\ (QueueThere => num' \in Nat) /\ got' \in Nat
    BY <1>3, <2>1 DEF TypeOK, Receive
  <2> QED
    BY <1>3, <2>1, <2>2 DEF TypeOK, Receive, QueueThere, input, thread, memory
<1>4. ASSUME Finish PROVE TypeOK'
  <2>1. pc'[Root] = "gone" /\ pc' \in [Dir -> Place] /\ \A x \in Dir \ {Root} : pc'[x] = pc[x]
    BY <1>4, Members, PcAt DEF Finish, Place
  <2>2. \A x \in Dir : pc'[x] \in HasSegment => at[x] \in Dir
    BY <2>1 DEF TypeOK, HasSegment
  <2>3. num' \in Int /\ (QueueThere => num' \in Nat) /\ history' \in Nat
    BY <1>4, Members DEF TypeOK, Finish
  <2>4. verdict' \in {"none", "found", "never"}
    BY <1>4 DEF Finish, Verdict
  <2> QED
    BY <1>4, <2>1, <2>2, <2>3, <2>4 DEF TypeOK, Finish, QueueThere, input, thread, memory
<1>5. ASSUME Interrupt PROVE TypeOK'
  <2>1. pc' \in [Dir -> Place] /\ \A x \in Dir : pc'[x] \in HasSegment => FALSE
    <3>1. ASSUME NEW x \in Dir
          PROVE  pc'[x] = "killed" \/ (pc'[x] = pc[x] /\ pc[x] \in {"unborn", "born", "gone", "failed", "killed"})
      BY <1>5, <3>1 DEF Interrupt, Ended
    <3>2. pc' = [x \in Dir |-> pc'[x]]
      BY <1>5 DEF Interrupt
    <3> QED
      BY <3>1, <3>2 DEF Place, HasSegment
  <2>2. th' \in [File -> {"none", "ready", "scan", "end", "dead"}]
    BY <1>5 DEF Interrupt, TypeOK
  <2>3. at' \in [Dir -> Dir \cup {None}]
    BY <1>5 DEF Interrupt, TypeOK
  <2>4. verdict' \in {"none", "found", "never"} /\ history' \in Nat
    BY <1>5 DEF Interrupt, Verdict
  <2> QED
    BY <1>5, <2>1, <2>2, <2>3, <2>4 DEF TypeOK, Interrupt, QueueThere, input
<1>6. ASSUME ReceiveNone PROVE TypeOK'
  <2>1. num' \in Int /\ got' \in Nat /\ ~QueueThere
    <3>1. PICK n \in Stray : num' = num + n
      BY <1>6 DEF ReceiveNone
    <3>2. n \in Int
      BY SharedTreeAssumption
    <3> QED
      BY <1>6, <3>1, <3>2 DEF TypeOK, ReceiveNone
  <2> QED
    BY <1>6, <2>1 DEF TypeOK, ReceiveNone, QueueThere, input, thread, memory
<1> QED
  BY <1>1, <1>2, <1>3, <1>4, <1>5, <1>6 DEF Main

LEMMA StepType ==
  ASSUME TypeOK, RootPlace, [Next]_vars
  PROVE  TypeOK'
<1>1. CASE UNCHANGED vars
  BY <1>1 DEF TypeOK, QueueThere, vars, input, thread, memory, totals
<1>2. ASSUME NEW d \in Dir, Process(d) PROVE TypeOK'
  BY <1>2, ListTypes, MemoryTypes, ReadTypes, EndTypes DEF Process
<1> QED
  BY <1>1, <1>2, ThreadTypes, EndTypes DEF Next
---------------------------------------------------------------------------
(* The order of things *)

LEMMA InputSame ==
  [Next]_vars => hits' = hits /\ timely' = timely /\ room' = room /\ QueueThere' = QueueThere
<1>1. ASSUME NEW f \in File, Thread(f) PROVE UNCHANGED input
  BY <1>1 DEF Thread, Acquire, FindMatch, Release
<1>2. ASSUME NEW d \in Dir, Process(d) PROVE UNCHANGED input
  BY <1>2 DEF Process, Create, Fork, SavePid, Join, Get, Attach, AttachFails, Load, Store, Raise, Released,
              Find, FindNone, Answer, Check, Send, Record
<1>3. ASSUME Main \/ Interrupt PROVE UNCHANGED input
  <2>1. Interrupt => UNCHANGED input
    BY DEF Interrupt
  <2>2. ReadHistory => UNCHANGED input
    BY DEF ReadHistory
  <2>3. Receive => UNCHANGED input
    BY DEF Receive
  <2>4. ReceiveNone => UNCHANGED input
    BY DEF ReceiveNone
  <2>5. Finish => UNCHANGED input
    BY DEF Finish
  <2> QED
    BY <1>3, <2>1, <2>2, <2>3, <2>4, <2>5 DEF Main
<1>4. UNCHANGED vars => UNCHANGED input
  BY DEF vars
<1>5. UNCHANGED input => hits' = hits /\ timely' = timely /\ room' = room
  BY DEF input
<1>6. room' = room => QueueThere' = QueueThere
  BY DEF QueueThere
<1> QED
  BY <1>1, <1>2, <1>3, <1>4, <1>5, <1>6 DEF Next

\* The way of a process.
Way(d, p, q) ==
  \/ p = "born" /\ q = "loop"
  \/ p = "loop" /\ q = IF d = Root THEN Reads(d) ELSE "get"
  \/ p = "get" /\ q = "attach"
  \/ p = "attach" /\ q \in {"lower", "failed"}
  \/ p = "lower" /\ q = "add"
  \/ p = "add" /\ q = "raise"
  \/ p = "raise" /\ q = "poll"
  \/ p = "poll" /\ q = Reads(d)
  \/ p = "sleep" /\ q \in {"see", "failed"}
  \/ p = "see" /\ q = "check"
  \/ p = "check" /\ q = "send"
  \/ p = "send" /\ q = "wait"
  \/ p = "wait" /\ q = "gone" /\ d # Root
  \/ p = "wait" /\ q = "receive" /\ d = Root
  \/ p = "receive" /\ q = "gone" /\ d = Root

Runs(d) ==
  \/ SavePid(d) \/ Join(d)
  \/ Get(d) \/ Attach(d) \/ AttachFails(d) \/ Load(d) \/ Store(d) \/ Raise(d) \/ Released(d)
  \/ Find(d) \/ FindNone(d) \/ Answer(d) \/ Check(d) \/ Send(d) \/ Record(d)
  \/ d = Root /\ ReadHistory
  \/ d = Root /\ Finish

LEMMA RunsWay ==
  ASSUME NEW d \in Dir, Runs(d)
  PROVE  /\ \E p, q : Goto(d, p, q) /\ Way(d, p, q)
         /\ UNCHANGED <<next, th, left, sem, found>>
<1>1. CASE SavePid(d) \/ Get(d) \/ Attach(d) \/ AttachFails(d) \/ Load(d) \/ Store(d) \/ Raise(d)
  BY <1>1 DEF SavePid, Get, Attach, AttachFails, Load, Store, Raise, Way, thread
<1>2. CASE Join(d) \/ Released(d) \/ Record(d)
  BY <1>2 DEF Join, Released, Record, Way, Reads, thread
<1>3. CASE Find(d) \/ FindNone(d) \/ Answer(d) \/ Check(d) \/ Send(d)
  BY <1>3 DEF Find, FindNone, Answer, Check, Send, Way, thread
<1>4. CASE d = Root /\ (ReadHistory \/ Finish)
  BY <1>4 DEF ReadHistory, Finish, Way, Reads, thread
<1> QED
  BY <1>1, <1>2, <1>3, <1>4 DEF Runs

\* What is not a process on its way.
Elsewhere ==
  \/ \E f \in File : Thread(f)
  \/ \E d \in Dir : Create(d)
  \/ Receive \/ ReceiveNone
  \/ UNCHANGED vars

LEMMA Kinds ==
  [Next]_vars <=> \/ Elsewhere \/ Interrupt \/ \E d \in Dir : Fork(d) \/ Runs(d)
BY Members DEF Next, Process, Main, Elsewhere, Runs

LEMMA ElsewhereSame == Elsewhere => UNCHANGED <<pc, seg, at, sum, history, need>>
<1>1. ASSUME NEW f \in File, Thread(f) PROVE UNCHANGED <<pc, seg, at, sum, history, need>>
  BY <1>1 DEF Thread, Acquire, FindMatch, Release, memory, totals
<1>2. ASSUME NEW d \in Dir, Create(d) PROVE UNCHANGED <<pc, seg, at, sum, history, need>>
  BY <1>2 DEF Create, memory, totals
<1>3. CASE Receive \/ ReceiveNone
  BY <1>3 DEF Receive, ReceiveNone, memory
<1>4. CASE UNCHANGED vars
  BY <1>4 DEF vars, memory, totals
<1> QED
  BY <1>1, <1>2, <1>3, <1>4 DEF Elsewhere

LEMMA ForkSame ==
  ASSUME TypeOK, NEW d \in Dir, Fork(d)
  PROVE  /\ next[d] \in DOMAIN Entries[d] /\ Entry(d) \in Dir \ {Root} /\ Home(Entry(d)) = d
         /\ pc[d] = "loop" /\ pc'[Entry(d)] = "born" /\ \A x \in Dir \ {Entry(d)} : pc'[x] = pc[x]
         /\ next'[d] = next[d] + 1 /\ \A x \in Dir \ {d} : next'[x] = next[x]
         /\ UNCHANGED <<seg, at, sum, queue, history, need, got, num, verdict, th, left>>
<1>1. next[d] \in DOMAIN Entries[d]
  <2>1. next[d] \in Nat \ {0} /\ next[d] <= Len(Entries[d])
    BY DEF TypeOK, Fork, Listing
  <2> QED
    BY <2>1, Sequence
<1>2. Entry(d) \in Dir \ {Root} /\ Home(Entry(d)) = d
  BY <1>1, Places DEF Fork, Entry
<1>3. pc[d] = "loop" /\ pc'[Entry(d)] = "born" /\ \A x \in Dir \ {Entry(d)} : pc'[x] = pc[x]
  BY <1>2 DEF TypeOK, Fork, Listing
<1>4. next'[d] = next[d] + 1 /\ \A x \in Dir \ {d} : next'[x] = next[x]
  BY DEF TypeOK, Fork
<1> QED
  BY <1>1, <1>2, <1>3, <1>4 DEF Fork, memory, totals

LEMMA InterruptEnds == ASSUME RootPlace, Interrupt PROVE ~Live'
<1>1. pc[Root] \notin {"gone", "failed", "killed"}
  BY DEF Interrupt, Ended
<1> QED
  BY <1>1, Members DEF Interrupt, Live, Ended, RootPlace

LEMMA DeadStays == ASSUME TypeOK, ~Live, [Next]_vars PROVE ~Live'
<1>1. pc[Root] = "killed"
  BY DEF Live
<1>2. ASSUME NEW d \in Dir, Runs(d) PROVE pc'[Root] = "killed"
  <2>1. PICK p, q : Goto(d, p, q) /\ Way(d, p, q)
    BY <1>2, RunsWay
  <2>2. p # "killed"
    BY <2>1 DEF Way, Reads
  <2> QED
    BY <1>1, <2>1, <2>2, Members, PcAt
<1>3. ASSUME NEW d \in Dir, Fork(d) PROVE pc'[Root] = "killed"
  BY <1>1, <1>3, ForkSame, Members
<1>4. ~Interrupt
  BY <1>1 DEF Interrupt, Ended
<1>5. Elsewhere => pc' = pc
  BY ElsewhereSame
<1> QED
  BY <1>1, <1>2, <1>3, <1>4, <1>5, Kinds DEF Live

\* A thread that is handed out was not begun.
LEMMA CreateSame ==
  ASSUME TypeOK, NEW d \in Dir, Create(d)
  PROVE  /\ next[d] \in DOMAIN Entries[d] /\ Entry(d) \in File /\ Home(Entry(d)) = d
         /\ pc[d] = "loop" /\ th'[Entry(d)] = "ready" /\ \A f \in File \ {Entry(d)} : th'[f] = th[f]
         /\ next'[d] = next[d] + 1 /\ \A x \in Dir \ {d} : next'[x] = next[x]
         /\ UNCHANGED <<pc, left, found, num, queue>>
<1>1. next[d] \in DOMAIN Entries[d]
  <2>1. next[d] \in Nat \ {0} /\ next[d] <= Len(Entries[d])
    BY DEF TypeOK, Create, Listing
  <2> QED
    BY <2>1, Sequence
<1>2. Entry(d) \in File /\ Home(Entry(d)) = d
  BY <1>1, Places DEF Create, Entry
<1>3. th'[Entry(d)] = "ready" /\ \A f \in File \ {Entry(d)} : th'[f] = th[f]
  BY <1>2 DEF TypeOK, Create
<1>4. next'[d] = next[d] + 1 /\ \A x \in Dir \ {d} : next'[x] = next[x]
  BY DEF TypeOK, Create
<1> QED
  BY <1>1, <1>2, <1>3, <1>4 DEF Create, Listing, totals

\* The entry at hand is none of those that are still to come, of any directory.
LEMMA LaterEntries ==
  ASSUME TypeOK, NEW d \in Dir, next[d] \in DOMAIN Entries[d], next'[d] = next[d] + 1,
         \A x \in Dir \ {d} : next'[x] = next[x]
  PROVE  \A x \in Dir : \A i \in DOMAIN Entries[x] : i >= next'[x] =>
           i >= next[x] /\ Entries[x][i] # Entry(d)
<1> SUFFICES ASSUME NEW x \in Dir, NEW i \in DOMAIN Entries[x], i >= next'[x]
             PROVE  i >= next[x] /\ Entries[x][i] # Entry(d)
  OBVIOUS
<1>1. i \in Nat /\ next[d] \in Nat
  BY Sequence DEF TypeOK
<1>2. i >= next[x] /\ (x = d => i # next[d])
  BY <1>1
<1>3. x # d => Entries[x][i] # Entry(d)
  <2>1. Home(Entries[x][i]) = x /\ Home(Entries[d][next[d]]) = d
    BY Places
  <2> QED
    BY <2>1 DEF Entry
<1>4. x = d => Entries[x][i] # Entry(d)
  BY <1>2, Places DEF Entry
<1> QED
  BY <1>2, <1>3, <1>4

\* The process that is at work, and its pc, in a live step of the order.
LEMMA OrderRun ==
  ASSUME TypeOK, Order, NEW d \in Dir, Runs(d)
  PROVE  Order'
<1>1. PICK p, q : Goto(d, p, q) /\ Way(d, p, q)
  BY RunsWay
<1>2. UNCHANGED <<next, th>>
  BY RunsWay
<1>3. pc[d] = p /\ pc'[d] = q /\ \A x \in Dir \ {d} : pc'[x] = pc[x]
  BY <1>1, PcAt
<1>4. p # "unborn" /\ q \notin {"unborn", "born"}
  BY <1>1 DEF Way, Reads
<1>5. \A e \in Dir : pc[e] = "unborn" => pc'[e] = "unborn"
  BY <1>3, <1>4
<1>6. \A e \in Dir : \A i \in DOMAIN Entries[e] : i >= next'[e] =>
        /\ Entries[e][i] \in Dir => pc'[Entries[e][i]] = "unborn"
        /\ Entries[e][i] \in File => th'[Entries[e][i]] = "none"
  BY <1>2, <1>5 DEF Order
<1>7. \A e \in Dir : pc'[e] \in {"unborn", "born"} => next'[e] = 1
  BY <1>2, <1>3, <1>4 DEF Order
<1>8. pc'[Root] \notin {"unborn", "born", "get", "attach", "lower", "add", "raise", "poll"}
  <2>1. CASE d = Root
    BY <1>1, <1>3, <2>1 DEF Order, Way, Reads
  <2> QED
    BY <1>3, <2>1, Members DEF Order
<1>9. \A e \in Dir : pc'[e] = "receive" => e = Root
  BY <1>1, <1>3 DEF Order, Way, Reads
<1>10. \A e \in Dir : pc'[e] \in {"sleep", "see", "check", "send"} => Subdirs(e) # {}
  BY <1>1, <1>3 DEF Order, Way, Reads
<1>11. \A e \in Dir : pc'[e] # "killed"
  BY <1>1, <1>3 DEF Order, Way, Reads
<1> QED
  BY <1>6, <1>7, <1>8, <1>9, <1>10, <1>11 DEF Order

LEMMA OrderFork ==
  ASSUME TypeOK, Order, NEW d \in Dir, Fork(d)
  PROVE  Order'
<1> DEFINE c == Entry(d)
<1>1. /\ next[d] \in DOMAIN Entries[d] /\ c \in Dir \ {Root} /\ Home(c) = d /\ pc[d] = "loop"
      /\ pc'[c] = "born" /\ \A x \in Dir \ {c} : pc'[x] = pc[x]
      /\ next'[d] = next[d] + 1 /\ \A x \in Dir \ {d} : next'[x] = next[x]
      /\ th' = th
  BY ForkSame
<1>2. \A x \in Dir : \A i \in DOMAIN Entries[x] : i >= next'[x] =>
        i >= next[x] /\ Entries[x][i] # c
  BY <1>1, LaterEntries
<1>3. pc[c] = "unborn"
  <2>1. next[d] >= next[d]
    BY DEF TypeOK
  <2> QED
    BY <1>1, <2>1 DEF Order, Entry
<1> HIDE DEF c
<1>4. d # c
  BY <1>1, <1>3
<1>5. next[c] = 1 /\ next'[c] = 1
  BY <1>1, <1>3, <1>4 DEF Order
<1>6. \A e \in Dir : \A i \in DOMAIN Entries[e] : i >= next'[e] =>
        /\ Entries[e][i] \in Dir => pc'[Entries[e][i]] = "unborn"
        /\ Entries[e][i] \in File => th'[Entries[e][i]] = "none"
  BY <1>1, <1>2 DEF Order
<1>7. \A e \in Dir : pc'[e] \in {"unborn", "born"} => next'[e] = 1
  BY <1>1, <1>5 DEF Order
<1>8. /\ pc'[Root] \notin {"unborn", "born", "get", "attach", "lower", "add", "raise", "poll"}
      /\ \A e \in Dir : pc'[e] = "receive" => e = Root
      /\ \A e \in Dir : pc'[e] \in {"sleep", "see", "check", "send"} => Subdirs(e) # {}
      /\ \A e \in Dir : pc'[e] # "killed"
  BY <1>1, Members DEF Order
<1> QED
  BY <1>6, <1>7, <1>8 DEF Order

LEMMA OrderElse ==
  ASSUME TypeOK, Order, Elsewhere
  PROVE  Order'
<1>1. pc' = pc
  BY ElsewhereSame
<1>2. /\ \A d \in Dir : \A i \in DOMAIN Entries[d] : i >= next'[d] =>
           /\ i >= next[d] /\ (Entries[d][i] \in File => th'[Entries[d][i]] = "none")
      /\ \A d \in Dir : next[d] = 1 /\ pc[d] \in {"unborn", "born"} => next'[d] = 1
  <2>1. ASSUME NEW f \in File, Thread(f)
        PROVE  next' = next /\ \A g \in File : th[g] = "none" => th'[g] = "none"
    BY <2>1 DEF Thread, Acquire, FindMatch, Release, TypeOK
  <2>2. Receive \/ ReceiveNone \/ UNCHANGED vars => next' = next /\ th' = th
    BY DEF Receive, ReceiveNone, vars, thread
  <2>3. CASE next' = next /\ \A g \in File : th[g] = "none" => th'[g] = "none"
    BY <2>3 DEF Order
  <2>4. ASSUME NEW d \in Dir, Create(d)
        PROVE  /\ \A x \in Dir : \A i \in DOMAIN Entries[x] : i >= next'[x] =>
                    i >= next[x] /\ (Entries[x][i] \in File => th'[Entries[x][i]] = "none")
               /\ \A x \in Dir : next[x] = 1 /\ pc[x] \in {"unborn", "born"} => next'[x] = 1
    <3>1. /\ next[d] \in DOMAIN Entries[d] /\ pc[d] = "loop"
          /\ \A f \in File \ {Entry(d)} : th'[f] = th[f]
          /\ next'[d] = next[d] + 1 /\ \A x \in Dir \ {d} : next'[x] = next[x]
      BY <2>4, CreateSame
    <3>2. \A x \in Dir : \A i \in DOMAIN Entries[x] : i >= next'[x] =>
            i >= next[x] /\ Entries[x][i] # Entry(d)
      BY <3>1, LaterEntries
    <3>3. \A x \in Dir : \A i \in DOMAIN Entries[x] : i >= next'[x] =>
            i >= next[x] /\ (Entries[x][i] \in File => th'[Entries[x][i]] = "none")
      BY <3>1, <3>2 DEF Order
    <3> QED
      BY <3>1, <3>3
  <2> QED
    BY <2>1, <2>2, <2>3, <2>4 DEF Elsewhere
<1> QED
  BY <1>1, <1>2 DEF Order

LEMMA OrderKept ==
  ASSUME TypeOK, Order, [Next]_vars, Live'
  PROVE  Order'
<1>1. ~Interrupt
  BY InterruptEnds DEF Order, RootPlace
<1> QED
  BY <1>1, Kinds, OrderRun, OrderFork, OrderElse
---------------------------------------------------------------------------
(* Without matches *)

LEMMA EmptyKept ==
  ASSUME TypeOK, RootPlace, Empty, [Next]_vars
  PROVE  Empty'
<1>0. QueueThere' => QueueThere
  BY InputSame
<1> SUFFICES ASSUME Barren'
             PROVE  /\ \A d \in Dir : found'[d] = 0 /\ sum'[d] = 0 /\ seg'[d].count = 0
                    /\ \A i \in DOMAIN queue' : queue'[i] = 0
                    /\ QueueThere => num' = 0
  BY <1>0 DEF Empty
<1>1. Barren
  BY InputSame DEF Barren
<1>2. /\ \A d \in Dir : found[d] = 0 /\ sum[d] = 0 /\ seg[d].count = 0
      /\ \A i \in DOMAIN queue : queue[i] = 0
      /\ QueueThere => num = 0
  BY <1>1 DEF Empty
<1>3. \A f \in File : left[f] = 0
  BY <1>1 DEF TypeOK, Barren
<1> DEFINE Zero == /\ \A d \in Dir : found'[d] = 0 /\ sum'[d] = 0 /\ seg'[d].count = 0
                   /\ \A i \in DOMAIN queue' : queue'[i] = 0
                   /\ QueueThere => num' = 0
<1>4. CASE UNCHANGED <<found, sum, seg, num, queue>>
  BY <1>2, <1>4
<1>5. ASSUME NEW f \in File, Thread(f) PROVE UNCHANGED <<found, sum, seg, num, queue>>
  BY <1>3, <1>5 DEF Thread, Acquire, FindMatch, Release, memory, totals
<1>6. ASSUME NEW d \in Dir, Create(d) \/ SavePid(d) \/ Join(d) \/ Attach(d) \/ AttachFails(d) \/ Find(d) \/ FindNone(d) \/ Check(d)
                              \/ Record(d)
      PROVE  UNCHANGED <<found, sum, seg, num, queue>>
  BY <1>6 DEF Create, SavePid, Join, Attach, AttachFails, Find, FindNone, Check, Record, thread, memory, totals
<1>7. UNCHANGED vars \/ Interrupt \/ ReadHistory => UNCHANGED <<found, sum, seg, num, queue>>
  BY DEF vars, Interrupt, ReadHistory, thread, memory, totals
<1>8. ASSUME NEW d \in Dir, Fork(d) PROVE Zero
  <2>1. \A x \in Dir : found'[x] = 0
    BY <1>2, <1>8 DEF TypeOK, Fork
  <2> QED
    BY <1>2, <1>8, <2>1, ForkSame
<1>9. ASSUME NEW d \in Dir, Get(d) PROVE Zero
  <2>1. d # Root
    BY <1>9, PcAt DEF Get, RootPlace
  <2>2. PICK k \in {Home(d), ParentOf(d)}, s \in Dir : seg' = [seg EXCEPT ![s].key = k]
    BY <1>9, <2>1, GetMoves
  <2>3. k \in Dir \cup {None, Reaper}
    BY <2>1, KeysOf
  <2>4. \A x \in Dir : seg'[x].count = 0
    BY <1>2, <2>2, <2>3, KeyField
  <2> QED
    BY <1>2, <1>9, <2>4 DEF Get, thread, totals
<1>10. ASSUME NEW d \in Dir, pc[d] \in HasSegment PROVE at[d] \in Dir
  BY <1>10 DEF TypeOK
<1>11. ASSUME NEW d \in Dir, Load(d) PROVE Zero
  <2>1. at[d] \in Dir /\ Here(d).count = 0
    BY <1>2, <1>10, <1>11 DEF Load, Goto, HasSegment, Here
  <2>2. \A x \in Dir : seg'[x].count = 0
    BY <1>2, <1>11, <2>1, FlagField DEF Load
  <2>3. \A x \in Dir : sum'[x] = 0
    BY <1>2, <1>11, <2>1 DEF Load, TypeOK
  <2> QED
    BY <1>2, <1>11, <2>2, <2>3 DEF Load, thread, totals
<1>12. ASSUME NEW d \in Dir, Store(d) PROVE Zero
  <2>1. at[d] \in Dir /\ sum[d] + found[d] = 0
    BY <1>2, <1>10, <1>12 DEF Store, Goto, HasSegment
  <2>2. \A x \in Dir : seg'[x].count = 0
    BY <1>2, <1>12, <2>1, CountField DEF Store
  <2> QED
    BY <1>2, <1>12, <2>2 DEF Store, thread, totals
<1>13. ASSUME NEW d \in Dir, Raise(d) PROVE Zero
  <2>1. at[d] \in Dir
    BY <1>10, <1>13 DEF Raise, Goto, HasSegment
  <2>2. \A x \in Dir : seg'[x].count = 0
    BY <1>2, <1>13, <2>1, FlagField DEF Raise
  <2> QED
    BY <1>2, <1>13, <2>2 DEF Raise, thread, totals
<1>14. ASSUME NEW d \in Dir, Answer(d) PROVE Zero
  <2>1. at[d] \in Dir
    BY <1>10, <1>14 DEF Answer, Goto, HasSegment
  <2>2. \A x \in Dir : seg'[x].count = 0
    BY <1>2, <1>14, <2>1, FlagField DEF Answer, AnswerFlag
  <2> QED
    BY <1>2, <1>14, <2>2 DEF Answer, thread, totals
<1>15. ASSUME NEW d \in Dir, Released(d) PROVE Zero
  <2>1. at[d] \in Dir
    BY <1>10, <1>15 DEF Released, HasSegment
  <2>2. \A x \in Dir : seg'[x].count = 0
    BY <1>2, <1>15, <2>1, KeyField DEF Released, WithoutKey
  <2> QED
    BY <1>2, <1>15, <2>2 DEF Released, thread, totals
<1>16. ASSUME NEW d \in Dir, Send(d) PROVE Zero
  <2>1. at[d] \in Dir /\ Here(d).count = 0
    BY <1>2, <1>10, <1>16 DEF Send, Goto, HasSegment, Here
  <2>2. \A x \in Dir : seg'[x].count = 0
    BY <1>2, <1>16, <2>1, KeyField DEF Send, WithoutKey
  <2>3. queue' \in {queue, Append(queue, 0)} /\ queue \in Seq(Nat)
    BY <1>16, <2>1 DEF Send, TypeOK
  <2>4. \A i \in DOMAIN Append(queue, 0) : Append(queue, 0)[i] = 0
    BY <1>2, <2>3
  <2>5. \A i \in DOMAIN queue' : queue'[i] = 0
    BY <1>2, <2>3, <2>4
  <2> QED
    BY <1>2, <1>16, <2>2, <2>5 DEF Send, thread, totals
<1>17. CASE Receive
  <2>1. queue \in Seq(Nat) /\ queue # <<>> /\ Len(queue) \in Nat \ {0} /\ DOMAIN queue = 1 .. Len(queue)
    BY <1>17, LenProperties, EmptySeq DEF Receive, TypeOK
  <2>2. Head(queue) = 0 /\ (QueueThere => num' = 0)
    BY <1>2, <1>17, <2>1 DEF Receive
  <2>3. \A i \in DOMAIN queue' : queue'[i] = 0
    BY <1>2, <1>17, <2>1, HeadTailProperties DEF Receive
  <2> QED
    BY <1>2, <1>17, <2>2, <2>3 DEF Receive, thread, memory
<1>18. CASE Finish
  BY <1>2, <1>18, Members DEF Finish, thread, memory
<1>19. CASE ReceiveNone
  BY <1>2, <1>19 DEF ReceiveNone, thread, memory
<1>20. ASSUME NEW d \in Dir, Process(d) PROVE Zero
  BY <1>4, <1>6, <1>8, <1>9, <1>11, <1>12, <1>13, <1>14, <1>15, <1>16, <1>20 DEF Process
<1> QED
  BY <1>4, <1>5, <1>7, <1>17, <1>18, <1>20, <1>19 DEF Next, Main

LEMMA ToldKept ==
  ASSUME TypeOK, Empty, Told, [Next]_vars
  PROVE  Told'
<1> SUFFICES ASSUME Barren, QueueThere
             PROVE  verdict' # "found"
  BY InputSame DEF Told, Barren
<1>1. num = 0 /\ verdict # "found" /\ \A d \in Dir : found[d] = 0
  BY DEF Empty, Told
<1>2. CASE verdict' = verdict
  BY <1>1, <1>2
<1>3. CASE Finish
  BY <1>1, <1>3, Members DEF Finish, Verdict
<1>4. CASE Interrupt
  BY <1>1, <1>4 DEF Interrupt, Verdict
<1>5. ASSUME NEW f \in File, Thread(f) PROVE verdict' = verdict
  BY <1>5 DEF Thread, Acquire, FindMatch, Release, totals
<1>6. ASSUME NEW d \in Dir, Process(d) PROVE verdict' = verdict
  BY <1>6 DEF Process, Create, Fork, SavePid, Join, Get, Attach, AttachFails, Load, Store, Raise, Released,
              Find, FindNone, Answer, Check, Send, Record, totals
<1>7. ReadHistory \/ Receive \/ ReceiveNone \/ UNCHANGED vars => verdict' = verdict
  BY DEF ReadHistory, Receive, ReceiveNone, vars, totals
<1> QED
  BY <1>2, <1>3, <1>4, <1>5, <1>6, <1>7 DEF Next, Main
---------------------------------------------------------------------------
(* What has been searched *)

LEMMA SearchedKept ==
  ASSUME TypeOK, Order, Searched, [Next]_vars, Live'
  PROVE  Searched'
<1>1. hits' = hits
  BY InputSame
<1>2. ASSUME UNCHANGED <<pc, th, left, found>> PROVE Searched'
  BY <1>1, <1>2 DEF Searched
<1>3. ASSUME NEW f \in File, Thread(f) PROVE Searched'
  <2>1. \A d \in Dir : (\A g \in Files(d) : th[g] = "end") => \A g \in Files(d) : th'[g] = "end"
    <3>1. th[f] # "end" /\ \A g \in File \ {f} : th'[g] = th[g]
      BY <1>3 DEF Thread, Acquire, FindMatch, Release, TypeOK
    <3>2. \A d \in Dir : Files(d) \subseteq File
      BY Children
    <3> QED
      BY <3>1, <3>2
  <2>2. pc' = pc
    BY <1>3 DEF Thread, Acquire, FindMatch, Release
  <2>3. \A d \in Dir : pc'[d] \notin {"unborn", "born", "loop"} => \A g \in Files(d) : th'[g] = "end"
    BY <2>1, <2>2 DEF Searched
  <2>4. /\ \A g \in File : left'[g] < hits'[g] => found'[Home(g)] > 0
        /\ \A g \in File : th'[g] = "end" => left'[g] = 0
        /\ \A g \in File : th'[g] \in {"none", "ready"} => left'[g] = hits'[g]
    <3>1. CASE Acquire(f)
      BY <1>1, <3>1 DEF Acquire, Searched, TypeOK
    <3>2. CASE FindMatch(f)
      <4>1. Home(f) \in Dir
        BY Children
      <4>2. found'[Home(f)] = found[Home(f)] + 1 /\ \A d \in Dir \ {Home(f)} : found'[d] = found[d]
        BY <3>2, <4>1 DEF FindMatch, TypeOK
      <4>4. \A g \in File \ {f} : left'[g] = left[g]
        BY <3>2 DEF FindMatch, TypeOK
      <4>5. \A g \in File \ {f} : left'[g] < hits'[g] => found'[Home(g)] > 0
        <5>1. SUFFICES ASSUME NEW g \in File \ {f}, left'[g] < hits'[g]
                       PROVE  found'[Home(g)] > 0
          OBVIOUS
        <5>2. Home(g) \in Dir /\ found[Home(g)] > 0
          BY <1>1, <4>4, <5>1, Children DEF Searched
        <5>3. found[Home(g)] \in Nat
          BY <5>2 DEF TypeOK
        <5>4. ASSUME NEW a, NEW b \in Nat, a = b \/ a = b + 1, b > 0
              PROVE  a > 0
          BY <5>4
        <5>5. found'[Home(g)] = found[Home(g)] \/ found'[Home(g)] = found[Home(g)] + 1
          BY <4>2, <5>2
        <5> QED
          BY <5>2, <5>3, <5>4, <5>5
      <4>6. found'[Home(f)] > 0
        BY <4>1, <4>2 DEF TypeOK
      <4>7. th[f] = "scan" /\ th' = th
        BY <3>2 DEF FindMatch
      <4> QED
        BY <1>1, <4>4, <4>5, <4>6, <4>7 DEF Searched
    <3>3. CASE Release(f)
      BY <1>1, <3>3 DEF Release, Searched, TypeOK
    <3> QED
      BY <1>3, <3>1, <3>2, <3>3 DEF Thread
  <2> QED
    BY <2>3, <2>4 DEF Searched
<1>4. ASSUME NEW d \in Dir, Create(d) PROVE Searched'
  <2>1. /\ next[d] \in DOMAIN Entries[d] /\ Entry(d) \in File /\ Home(Entry(d)) = d
        /\ pc[d] = "loop" /\ th'[Entry(d)] = "ready" /\ \A f \in File \ {Entry(d)} : th'[f] = th[f]
        /\ UNCHANGED <<pc, left, found>>
    BY <1>4, CreateSame
  <2>2. th[Entry(d)] = "none"
    <3>1. next[d] >= next[d]
      BY DEF TypeOK
    <3> QED
      BY <2>1, <3>1 DEF Order, Entry
  <2>3. left[Entry(d)] = hits[Entry(d)]
    BY <2>1, <2>2 DEF Searched
  <2>4. \A e \in Dir : e # d => Entry(d) \notin Files(e)
    BY <2>1, Children
  <2>5. \A e \in Dir : Files(e) \subseteq File
    BY Children
  <2>6. \A e \in Dir : pc'[e] \notin {"unborn", "born", "loop"} => \A f \in Files(e) : th'[f] = "end"
    BY <2>1, <2>4, <2>5 DEF Searched
  <2>7. /\ \A f \in File : left'[f] < hits'[f] => found'[Home(f)] > 0
        /\ \A f \in File : th'[f] = "end" => left'[f] = 0
        /\ \A f \in File : th'[f] \in {"none", "ready"} => left'[f] = hits'[f]
    BY <1>1, <2>1, <2>3 DEF Searched
  <2> QED
    BY <2>6, <2>7 DEF Searched
<1>5. ASSUME NEW d \in Dir, Fork(d) PROVE Searched'
  <2> DEFINE c == Entry(d)
  <2>1. /\ next[d] \in DOMAIN Entries[d] /\ c \in Dir \ {Root} /\ Home(c) = d /\ pc[d] = "loop"
        /\ pc'[c] = "born" /\ \A x \in Dir \ {c} : pc'[x] = pc[x] /\ UNCHANGED <<th, left>>
    BY <1>5, ForkSame
  <2>2. UNCHANGED <<th, left>>
    BY <1>5, ForkSame
  <2>3. \A x \in Dir \ {c} : found'[x] = found[x]
    BY <1>5, <2>1 DEF Fork, TypeOK
  <2>4. pc[c] = "unborn" /\ next[c] = 1
    <3>1. next[d] >= next[d]
      BY DEF TypeOK
    <3> QED
      BY <2>1, <3>1 DEF Order, Entry
  <2>5. \A f \in File : Home(f) = c => th[f] = "none"
    <3>1. SUFFICES ASSUME NEW f \in File, Home(f) = c
                   PROVE  th[f] = "none"
      OBVIOUS
    <3>2. PICK i \in DOMAIN Entries[c] : Entries[c][i] = f
      BY <3>1, Places, Members
    <3>3. i >= 1
      BY <2>1, Sequence
    <3> QED
      BY <2>1, <2>4, <3>2, <3>3 DEF Order
  <2>6. \A f \in File : Home(f) = c => left[f] = hits[f]
    BY <2>5 DEF Searched
  <2> HIDE DEF c
  <2>7. \A f \in File : left'[f] < hits'[f] => found'[Home(f)] > 0
    <3>1. SUFFICES ASSUME NEW f \in File, left'[f] < hits'[f]
                   PROVE  found'[Home(f)] > 0
      OBVIOUS
    <3>2. left[f] < hits[f] /\ left[f] \in Nat /\ hits[f] \in Nat
      BY <1>1, <2>2, <3>1 DEF TypeOK
    <3>3. Home(f) \in Dir \ {c} /\ found[Home(f)] > 0
      BY <2>6, <3>2, Children DEF Searched
    <3> QED
      BY <2>3, <3>3
  <2>8. /\ \A f \in File : th'[f] = "end" => left'[f] = 0
        /\ \A f \in File : th'[f] \in {"none", "ready"} => left'[f] = hits'[f]
    BY <1>1, <2>2 DEF Searched
  <2>9. \A e \in Dir : pc'[e] \notin {"unborn", "born", "loop"} => \A f \in Files(e) : th'[f] = "end"
    BY <2>1, <2>2 DEF Searched
  <2> QED
    BY <2>7, <2>8, <2>9 DEF Searched
<1>6. ASSUME NEW d \in Dir, Runs(d) PROVE Searched'
  <2>1. PICK p, q : Goto(d, p, q) /\ Way(d, p, q)
    BY <1>6, RunsWay
  <2>2. UNCHANGED <<th, left, found>>
    BY <1>6, RunsWay
  <2>3. pc[d] = p /\ pc'[d] = q /\ \A x \in Dir \ {d} : pc'[x] = pc[x]
    BY <2>1, PcAt
  <2>4. pc'[d] \notin {"unborn", "born", "loop"} =>
          pc[d] \notin {"unborn", "born", "loop"} \/ \A f \in Files(d) : th[f] = "end"
    <3>1. p = "loop" => Join(d)
      BY <1>6, <2>3 DEF Runs, Join, SavePid, Get, Attach, AttachFails, Load, Store, Raise, Released, Find, FindNone,
                        Answer, Check, Send, Record, ReadHistory, Finish, Goto
    <3>2. p \in {"unborn", "born"} => q = "loop"
      BY <2>1 DEF Way, Reads
    <3> QED
      BY <2>3, <3>1, <3>2 DEF Join, Joined
  <2>5. \A e \in Dir : pc'[e] \notin {"unborn", "born", "loop"} => \A f \in Files(e) : th'[f] = "end"
    BY <2>2, <2>3, <2>4 DEF Searched
  <2> QED
    BY <1>1, <2>2, <2>5 DEF Searched
<1>7. Receive \/ ReceiveNone \/ UNCHANGED vars => UNCHANGED <<pc, th, left, found>>
  BY DEF Receive, ReceiveNone, vars, thread
<1>8. ~Interrupt
  BY InterruptEnds DEF Order, RootPlace
<1> QED
  BY <1>2, <1>3, <1>4, <1>5, <1>6, <1>7, <1>8, Kinds DEF Elsewhere
---------------------------------------------------------------------------
(* The number of messages *)

LEMMA CountTypes ==
  /\ IsFiniteSet(Dir) /\ IsFiniteSet(Senders) /\ IsFiniteSet(Recorders)
  /\ Cardinality(Senders) \in Nat /\ Cardinality(Recorders) \in Nat
<1>1. IsFiniteSet(Dir)
  BY SharedTreeAssumption
<1>2. Senders \subseteq Dir /\ Recorders \subseteq Dir
  BY DEF Senders, Recorders
<1>3. IsFiniteSet(Senders) /\ IsFiniteSet(Recorders)
  BY <1>1, <1>2, FS_Subset
<1> QED
  BY <1>1, <1>3, FS_CardinalityType

\* The steps that count.
LEMMA CountSets ==
  ASSUME TypeOK, Order, [Next]_vars, Live'
  PROVE  \/ Senders' = Senders /\ Recorders' = Recorders /\ \A d \in Dir : ~Send(d) /\ ~Record(d)
         \/ \E d \in Dir : Send(d) /\ Senders' = Senders \cup {d} /\ d \notin Senders
                             /\ Recorders' = Recorders
         \/ \E d \in Dir : Record(d) /\ Senders' = Senders
                             /\ Recorders' = Recorders \cup (IF Subdirs(d) = {} THEN {} ELSE {d})
                             /\ d \notin Recorders
<1>1. ASSUME pc' = pc PROVE /\ Senders' = Senders /\ Recorders' = Recorders
                            /\ \A d \in Dir : ~Send(d) /\ ~Record(d)
  <2>1. Senders' = Senders /\ Recorders' = Recorders
    BY <1>1 DEF Senders, Recorders
  <2>2. ASSUME NEW d \in Dir PROVE ~Send(d) /\ ~Record(d)
    BY <1>1, PcAt DEF Send, Record
  <2> QED
    BY <2>1, <2>2
<1>2. ASSUME NEW d \in Dir, Fork(d)
      PROVE  /\ Senders' = Senders /\ Recorders' = Recorders
             /\ \A x \in Dir : ~Send(x) /\ ~Record(x)
  <2> DEFINE c == Entry(d)
  <2>1. /\ next[d] \in DOMAIN Entries[d] /\ c \in Dir \ {Root} /\ pc[d] = "loop"
        /\ pc'[c] = "born" /\ \A x \in Dir \ {c} : pc'[x] = pc[x] /\ queue' = queue /\ history' = history
    BY <1>2, ForkSame
  <2>2. pc[c] = "unborn"
    <3>1. next[d] >= next[d]
      BY DEF TypeOK
    <3> QED
      BY <2>1, <3>1 DEF Order, Entry
  <2> HIDE DEF c
  <2>3. Senders' = Senders /\ Recorders' = Recorders
    BY <2>1, <2>2 DEF Senders, Recorders
  <2>4. ASSUME NEW x \in Dir PROVE ~Send(x) /\ ~Record(x)
    BY <2>1, <2>2, PcAt DEF Send, Record
  <2> QED
    BY <2>3, <2>4
<1>3. ASSUME NEW d \in Dir, Runs(d)
      PROVE  \/ Senders' = Senders /\ Recorders' = Recorders /\ \A x \in Dir : ~Send(x) /\ ~Record(x)
             \/ Send(d) /\ Senders' = Senders \cup {d} /\ d \notin Senders /\ Recorders' = Recorders
             \/ Record(d) /\ Senders' = Senders
                 /\ Recorders' = Recorders \cup (IF Subdirs(d) = {} THEN {} ELSE {d})
                 /\ d \notin Recorders
  <2>1. PICK p, q : Goto(d, p, q) /\ Way(d, p, q)
    BY <1>3, RunsWay
  <2>2. pc[d] = p /\ pc'[d] = q /\ \A x \in Dir \ {d} : pc'[x] = pc[x]
    BY <2>1, PcAt
  <2>3. p # q
    BY <2>1 DEF Way, Reads
  <2>4. \A x \in Dir : Send(x) \/ Record(x) => x = d
    BY <2>2, PcAt DEF Send, Record
  <2>5. p = "send" <=> Send(d)
    BY <1>3, <2>2, PcAt DEF Runs, Join, SavePid, Get, Attach, AttachFails, Load, Store, Raise, Released, Find, FindNone,
                        Answer, Check, Send, Record, ReadHistory, Finish
  <2>6. p = "wait" /\ q = "gone" <=> Record(d)
    BY <1>3, <2>2, PcAt DEF Runs, Join, SavePid, Get, Attach, AttachFails, Load, Store, Raise, Released, Find, FindNone,
                        Answer, Check, Send, Record, ReadHistory, Finish
  <2>7. CASE p = "send"
    <3>1. Subdirs(d) # {}
      BY <2>2, <2>7 DEF Order
    <3>2. q = "wait"
      BY <2>1, <2>7 DEF Way, Reads
    <3>3. Senders' = Senders \cup {d} /\ d \notin Senders /\ Recorders' = Recorders
      BY <2>2, <2>7, <3>1, <3>2 DEF Senders, Recorders
    <3> QED
      BY <2>5, <2>7, <3>3
  <2>8. CASE p = "wait" /\ q = "gone"
    <3>1. d # Root
      BY <2>1, <2>8 DEF Way, Reads
    <3>2. Senders' = Senders /\ d \notin Recorders
      BY <2>2, <2>8 DEF Senders, Recorders
    <3>3. Recorders' = Recorders \cup (IF Subdirs(d) = {} THEN {} ELSE {d})
      BY <2>2, <2>8, <3>1 DEF Recorders
    <3> QED
      BY <2>6, <2>8, <3>2, <3>3
  <2>9. CASE p # "send" /\ ~(p = "wait" /\ q = "gone")
    <3>1. Recorders' = Recorders
      <4>1. d # Root => p # "gone" /\ q # "gone"
        BY <2>1, <2>9 DEF Way, Reads
      <4> QED
        BY <2>2, <4>1 DEF Recorders
    <3>2. Senders' = Senders
      <4>1. Subdirs(d) # {} => (p \in {"wait", "receive", "gone"} <=> q \in {"wait", "receive", "gone"})
        BY <2>1, <2>9 DEF Way, Reads
      <4> QED
        BY <2>2, <4>1 DEF Senders
    <3> QED
      BY <2>4, <2>5, <2>6, <2>9, <3>1, <3>2
  <2> QED
    BY <2>7, <2>8, <2>9
<1>4. ~Interrupt
  BY InterruptEnds DEF Order, RootPlace
<1>5. Elsewhere => pc' = pc
  BY ElsewhereSame
<1> QED
  BY <1>1, <1>2, <1>3, <1>4, <1>5, Kinds

LEMMA CountedKept ==
  ASSUME TypeOK, Order, Counted, [Next]_vars, Live'
  PROVE  Counted'
<1>1. Cardinality(Senders) \in Nat /\ Cardinality(Recorders) \in Nat /\ Len(queue) \in Nat /\ got \in Nat
        /\ queue \in Seq(Nat) /\ IsFiniteSet(Senders) /\ IsFiniteSet(Recorders)
        /\ history \in Nat /\ need \in Nat /\ num \in Int
        /\ room \in BOOLEAN
  BY CountTypes, LenProperties DEF TypeOK
<1>6. room' = room /\ QueueThere' = QueueThere
  BY InputSame
<1>2. ~Interrupt
  BY InterruptEnds DEF Order, RootPlace
<1>3. CASE \E d \in Dir : Send(d)
  <2>1. PICK d \in Dir : Send(d) /\ Senders' = Senders \cup {d} /\ d \notin Senders /\ Recorders' = Recorders
    <3>1. ASSUME NEW e \in Dir, NEW d \in Dir, Send(e), Record(d) PROVE FALSE
      <4>1. pc[e] = "send" /\ pc'[e] = "wait" /\ pc[d] = "wait" /\ \A x \in Dir \ {d} : pc'[x] = pc[x]
        BY <3>1, PcAt DEF Send, Record
      <4> QED
        BY <4>1
    <3> QED
      BY <1>3, <3>1, CountSets
  <2>2. Cardinality(Senders') = Cardinality(Senders) + 1
    BY <1>1, <2>1, FS_AddElement
  <2>3. at[d] \in Dir /\ Here(d).count \in Nat
    BY <2>1 DEF TypeOK, Send, Goto, HasSegment, Here
  <2>4. got' = got /\ (room => Len(queue') = Len(queue) + 1) /\ (~room => queue' = queue)
    BY <1>1, <2>1, <2>3, AppendProperties DEF Send, totals
  <2>10. QueueThere = room
    <3>1. Subdirs(d) # {}
      BY <2>1 DEF Order, Send, Goto
    <3>2. Subdirs(Root) # {}
      BY <3>1, RootAlone
    <3> QED
      BY <1>1, <3>2 DEF QueueThere
  <2>5. pc'[d] = "wait" /\ \A x \in Dir \ {d} : pc'[x] = pc[x]
    BY <2>1, PcAt DEF Send
  <2>6. UNCHANGED <<history, need, got, num, verdict>>
    BY <2>1 DEF Send, totals
  <2>7. (QueueThere => Len(queue') + got' = Cardinality(Senders')) /\ (~QueueThere => queue' = <<>>)
    BY <1>1, <2>2, <2>4, <2>10 DEF Counted
  <2>8. pc'[Root] \in {"receive", "gone"} => pc[Root] = pc'[Root]
    BY <2>5, Members
  <2>9. pc'[Root] # "gone" => pc[Root] # "gone"
    BY <2>1, <2>5, Members, PcAt DEF Send
  <2> QED
    BY <1>6, <2>1, <2>6, <2>7, <2>8, <2>9 DEF Counted
<1>4. CASE \E d \in Dir : Record(d)
  <2>1. PICK d \in Dir : Record(d) /\ Senders' = Senders /\ d \notin Recorders
                 /\ Recorders' = Recorders \cup (IF Subdirs(d) = {} THEN {} ELSE {d})
    <3>1. ASSUME NEW e \in Dir, NEW d \in Dir, Send(e), Record(d) PROVE FALSE
      <4>1. pc[e] = "send" /\ pc'[e] = "wait" /\ pc[d] = "wait" /\ \A x \in Dir \ {d} : pc'[x] = pc[x]
        BY <3>1, PcAt DEF Send, Record
      <4> QED
        BY <4>1
    <3> QED
      BY <1>4, <3>1, CountSets
  <2>2. Cardinality(Recorders') = Cardinality(Recorders) + (IF Subdirs(d) = {} THEN 0 ELSE 1)
    <3>1. CASE Subdirs(d) = {}
      <4>1. Recorders' = Recorders
        BY <2>1, <3>1
      <4> QED
        BY <1>1, <3>1, <4>1
    <3>2. CASE Subdirs(d) # {}
      <4>1. Recorders' = Recorders \cup {d}
        BY <2>1, <3>2
      <4>2. Cardinality(Recorders \cup {d}) = Cardinality(Recorders) + 1
        BY <1>1, <2>1, FS_AddElement
      <4> QED
        BY <3>2, <4>1, <4>2
    <3> QED
      BY <3>1, <3>2
  <2>3. history' = history + (IF Subdirs(d) = {} THEN 0 ELSE 1) /\ UNCHANGED <<queue, need, got, num, verdict>>
    BY <2>1 DEF Record, totals
  <2>4. d # Root /\ pc'[Root] = pc[Root]
    BY <2>1, Members, PcAt DEF Record
  <2>5. (QueueThere => Len(queue') + got' = Cardinality(Senders')) /\ (~QueueThere => queue' = <<>>)
    <3>1. Cardinality(Senders') = Cardinality(Senders)
      BY <2>1
    <3> QED
      BY <2>3, <3>1 DEF Counted
  <2>6. pc'[Root] # "gone" => history' = Cardinality(Recorders')
    BY <2>2, <2>3, <2>4 DEF Counted
  <2>7. pc'[Root] = "receive" => need' <= Cardinality(Recorders') + 1
    BY <1>1, <2>2, <2>3, <2>4 DEF Counted
  <2>8. pc'[Root] = "gone" => got' = need' /\ verdict' = Verdict(num')
    BY <2>3, <2>4 DEF Counted
  <2> QED
    BY <1>6, <2>5, <2>6, <2>7, <2>8 DEF Counted
<1>5. CASE \A d \in Dir : ~Send(d) /\ ~Record(d)
  <2>1. Senders' = Senders /\ Recorders' = Recorders
    BY <1>5, CountSets
  <2>2. ASSUME pc'[Root] = pc[Root], UNCHANGED <<queue, history, need, got, num, verdict>> PROVE Counted'
    BY <1>6, <2>1, <2>2 DEF Counted
  <2>3. ASSUME NEW f \in File, Thread(f) PROVE UNCHANGED <<pc, queue, history, need, got, num, verdict>>
    BY <2>3 DEF Thread, Acquire, FindMatch, Release, totals
  <2>4. ASSUME NEW d \in Dir, Fork(d)
        PROVE  pc'[Root] = pc[Root] /\ UNCHANGED <<queue, history, need, got, num, verdict>>
    BY <2>4, ForkSame, Members
  <2>5. ASSUME NEW d \in Dir, Create(d)
        PROVE  UNCHANGED <<pc, queue, history, need, got, num, verdict>>
    BY <2>5 DEF Create, totals
  <2>6. ASSUME NEW d \in Dir, SavePid(d) \/ Join(d) \/ Get(d) \/ Attach(d) \/ AttachFails(d) \/ Load(d) \/ Store(d) \/ Raise(d)
                                \/ Released(d) \/ Find(d) \/ FindNone(d) \/ Answer(d) \/ Check(d)
        PROVE  Counted'
    <3>1. UNCHANGED <<queue, history, need, got, num, verdict>>
      BY <2>6 DEF SavePid, Join, Get, Attach, AttachFails, Load, Store, Raise, Released, Find, FindNone, Answer, Check, totals
    <3>2. PICK p, q : Goto(d, p, q) /\ Way(d, p, q)
      BY <2>6, RunsWay DEF Runs
    <3>3. p \notin {"receive", "gone"} /\ q \notin {"receive", "gone"}
      <4>1. p \notin {"receive", "wait"}
        BY <2>6, <3>2 DEF SavePid, Join, Get, Attach, AttachFails, Load, Store, Raise, Released, Find, FindNone, Answer, Check,
                          Goto
      <4> QED
        BY <3>2, <4>1 DEF Way, Reads
    <3>4. pc'[Root] \in {"receive", "gone"} \/ pc[Root] \in {"receive", "gone"} => pc'[Root] = pc[Root]
      BY <3>2, <3>3, Members, PcAt
    <3> QED
      BY <1>6, <2>1, <3>1, <3>4 DEF Counted
  <2>7. CASE ReadHistory
    <3>1. pc[Root] = "wait" /\ pc'[Root] = "receive"
      BY <2>7, Members, PcAt DEF ReadHistory
    <3>2. need' = history + 1 /\ UNCHANGED <<queue, history, got>>
      BY <2>7 DEF ReadHistory, Needed
    <3> QED
      BY <1>1, <1>6, <2>1, <3>1, <3>2 DEF Counted
  <2>8. CASE Receive
    <3>1. pc' = pc /\ UNCHANGED <<history, need, verdict>> /\ pc[Root] = "receive" /\ got' = got + 1
      BY <2>8 DEF Receive
    <3>2. Len(queue') = Len(queue) - 1
      BY <1>1, <2>8, HeadTailProperties DEF Receive
    <3>4. QueueThere
      BY <2>8 DEF Receive
    <3>3. Len(queue') + got' = Len(queue) + got
      BY <1>1, <3>1, <3>2
    <3> QED
      BY <1>6, <2>1, <3>1, <3>3, <3>4 DEF Counted
  <2>9. CASE Finish
    <3>1. pc[Root] = "receive" /\ pc'[Root] = "gone"
      BY <2>9, Members, PcAt DEF Finish
    <3> QED
      BY <1>6, <2>1, <2>9, <3>1 DEF Counted, Finish
  <2>10. CASE UNCHANGED vars
    BY <2>2, <2>10 DEF vars, totals
  <2>11. ASSUME NEW d \in Dir, Process(d) PROVE Counted'
    BY <1>5, <2>2, <2>4, <2>5, <2>6, <2>11 DEF Process
  <2>12. CASE ReceiveNone
    <3>1. pc' = pc /\ UNCHANGED <<queue, history, need, verdict>> /\ pc[Root] = "receive" /\ ~QueueThere
      BY <2>12 DEF ReceiveNone
    <3> QED
      BY <1>6, <2>1, <3>1 DEF Counted
  <2> QED
    BY <1>2, <2>2, <2>3, <2>7, <2>8, <2>9, <2>10, <2>11, <2>12 DEF Next, Main
<1> QED
  BY <1>3, <1>4, <1>5
---------------------------------------------------------------------------
(* Families *)

\* What a step of another family, or an equal one, is to a family.
SameParent(k) ==
  \/ pc'[k] = pc[k] /\ at'[k] = at[k]
  \/ pc[k] \in Before /\ pc'[k] \in Before
SameChild(c) ==
  \/ pc'[c] = pc[c] /\ at'[c] = at[c]
  \/ pc[c] \in NotYet /\ pc'[c] \in NotYet
  \/ pc[c] \in Inside \ {"poll"} /\ pc'[c] \in Inside /\ at'[c] = at[c]
  \/ pc[c] \notin NotYet \cup Inside /\ pc'[c] \notin NotYet \cup Inside /\ pc[c] # "gone"

LEMMA Frame ==
  ASSUME NEW k \in Dir, Family(k), SameParent(k), Keyed(k)' = Keyed(k),
         \A c \in Subdirs(k) : SameChild(c) /\ seg'[c] = seg[c]
  PROVE  Family(k)'
<1>1. \A c \in Subdirs(k) : /\ pc'[c] \in NotYet <=> pc[c] \in NotYet
                            /\ pc'[c] \in Inside <=> pc[c] \in Inside
                            /\ pc[c] \in Inside => at'[c] = at[c]
                            /\ pc'[c] \in Adding => pc[c] \in Adding
                            /\ pc[c] = "gone" => pc'[c] = "gone"
  BY DEF SameChild, NotYet, Inside, Adding
<1>2. /\ pc'[k] \in Before <=> pc[k] \in Before
      /\ pc'[k] # pc[k] => pc[k] \in Before /\ pc'[k] \in Before
      /\ pc'[k] \notin Before => at'[k] = at[k]
  BY DEF SameParent
<1>3. /\ \A c \in Subdirs(k) : pc'[c] \in NotYet => seg'[c] = NoSegment
      /\ \A c \in Subdirs(k) : pc'[c] \in Inside => at'[c] \in Subdirs(k)
      /\ \A s \in Keyed(k)' : s \in Subdirs(k) /\ pc'[s] \notin NotYet
  BY <1>1 DEF Family
<1>4. pc'[k] \in Before \cup {"see"} =>
       /\ \A c \in Subdirs(k) : pc'[c] \in NotYet \cup Inside
       /\ \A c \in Subdirs(k) : pc'[c] \in Inside => Keyed(k)' = {at'[c]}
       /\ \A s \in Keyed(k)' : seg'[s].flag # 1
  <2>1. pc'[k] \in Before \cup {"see"} => pc[k] \in Before \cup {"see"}
    BY <1>2
  <2> QED
    BY <1>1, <2>1 DEF Family
<1>5. /\ pc'[k] = "see" => at'[k] \in Keyed(k)'
      /\ pc'[k] \in {"check", "send"} => at'[k] \in Subdirs(k) /\ Keyed(k)' \subseteq {at'[k]}
      /\ pc'[k] \in {"wait", "receive", "gone"} => Keyed(k)' = {}
  <2>1. pc'[k] \in {"see", "check", "send", "wait", "receive", "gone"} => pc'[k] = pc[k] /\ at'[k] = at[k]
    BY <1>2 DEF Before, NotYet, Inside
  <2> QED
    BY <2>1 DEF Family
<1>6. pc'[k] \notin Before => \A c \in Subdirs(k) : pc'[c] \notin Adding
  BY <1>1, <1>2 DEF Family
<1>7. pc'[k] \in {"receive", "gone"} => \A c \in Subdirs(k) : pc'[c] = "gone"
  <2>1. pc'[k] \in {"receive", "gone"} => pc'[k] = pc[k]
    BY <1>2 DEF Before, NotYet, Inside
  <2> QED
    BY <1>1, <2>1 DEF Family
<1> QED
  BY <1>3, <1>4, <1>5, <1>6, <1>7 DEF Family

LEMMA KeyedSame ==
  ASSUME NEW k \in Dir, NEW s \in Dir, \A x \in Dir \ {s} : seg'[x] = seg[x],
         seg'[s].key = seg[s].key \/ (seg'[s].key # k /\ seg[s].key # k)
  PROVE  Keyed(k)' = Keyed(k)
BY DEF Keyed

\* A segment that changes in one family leaves the others as they are.
LEMMA OtherFamily ==
  ASSUME Families, NEW h \in Dir, NEW s \in Subdirs(h), NEW k \in Dir, k # h,
         \A x \in Dir \ {s} : seg'[x] = seg[x], seg'[s].key \in {seg[s].key, h, None}
  PROVE  Keyed(k)' = Keyed(k) /\ \A c \in Subdirs(k) : seg'[c] = seg[c]
<1>1. s \in Dir /\ Home(s) = h
  BY Children
<1>2. s \notin Keyed(k) /\ s \notin Subdirs(k)
  BY <1>1, Children DEF Families, Family
<1>3. seg[s].key # k
  BY <1>1, <1>2 DEF Keyed
<1>4. seg'[s].key # k
  BY <1>3, KeyIsThere
<1>5. Keyed(k)' = Keyed(k)
  BY <1>1, <1>3, <1>4, KeyedSame
<1>6. \A c \in Subdirs(k) : seg'[c] = seg[c]
  <2>1. Subdirs(k) \subseteq Dir
    BY Children
  <2> QED
    BY <1>2, <2>1
<1> QED
  BY <1>5, <1>6

\* A step that touches no segment, and leaves everybody in the same part of their way.
LEMMA StillFamilies ==
  ASSUME seg' = seg, \A k \in Dir : Family(k),
         \A x \in Dir : SameChild(x) /\ SameParent(x)
  PROVE  \A k \in Dir : Family(k)'
<1> SUFFICES ASSUME NEW k \in Dir
             PROVE  Family(k)'
  OBVIOUS
<1>1. Keyed(k)' = Keyed(k) /\ Subdirs(k) \subseteq Dir
  BY Children DEF Keyed
<1>2. \A c \in Subdirs(k) : SameChild(c) /\ seg'[c] = seg[c]
  BY <1>1
<1> QED
  BY <1>1, <1>2, Frame

\* Nor does a step of a directory that has no subdirectories matter to its own.
LEMMA Childless ==
  ASSUME NEW k \in Dir, Family(k), Subdirs(k) = {}, Keyed(k)' = Keyed(k),
         pc'[k] \notin {"see", "check", "send"}
  PROVE  Family(k)'
<1>1. Keyed(k)' = {}
  BY DEF Family
<1> QED
  BY <1>1 DEF Family

LEMMA ListFamilies ==
  ASSUME TypeOK, Order, Families, Elsewhere \/ (\E d \in Dir : Fork(d) \/ SavePid(d) \/ Join(d))
  PROVE  \A k \in Dir : Family(k)'
<1>1. \A k \in Dir : Family(k)
  BY DEF Families
<1>2. CASE Elsewhere
  BY <1>1, <1>2, ElsewhereSame, StillFamilies DEF SameChild, SameParent
<1>3. ASSUME NEW d \in Dir, Fork(d) PROVE \A k \in Dir : Family(k)'
  <2> DEFINE c == Entry(d)
  <2>1. /\ next[d] \in DOMAIN Entries[d] /\ c \in Dir \ {Root}
        /\ pc'[c] = "born" /\ \A x \in Dir \ {c} : pc'[x] = pc[x] /\ at' = at /\ seg' = seg
    BY <1>3, ForkSame
  <2>2. pc[c] = "unborn"
    <3>1. next[d] >= next[d]
      BY DEF TypeOK
    <3> QED
      BY <2>1, <3>1 DEF Order, Entry
  <2>3. at' = at /\ seg' = seg
    BY <1>3, ForkSame
  <2> HIDE DEF c
  <2>4. \A x \in Dir : SameChild(x) /\ SameParent(x)
    BY <2>1, <2>2, <2>3 DEF SameChild, SameParent, NotYet, Before
  <2> QED
    BY <1>1, <2>3, <2>4, StillFamilies
<1>4. ASSUME NEW d \in Dir, SavePid(d) \/ Join(d) PROVE \A k \in Dir : Family(k)'
  <2>1. /\ pc[d] \in {"born", "loop"} /\ pc'[d] \in {"loop", "get", "sleep", "wait"}
        /\ \A x \in Dir \ {d} : pc'[x] = pc[x]
        /\ pc'[d] \in {"sleep", "wait"} => d = Root
        /\ pc'[d] = "wait" => Subdirs(d) = {}
    BY <1>4, PcAt DEF SavePid, Join, Reads
  <2>2. at' = at /\ seg' = seg
    BY <1>4 DEF SavePid, Join, memory
  <2>3. \A x \in Dir : SameParent(x) \/ (Subdirs(x) = {} /\ pc'[x] = "wait")
    BY <2>1, <2>2 DEF SameParent, NotYet, Before
  <2>4. \A x \in Dir \ {Root} : SameChild(x)
    BY <2>1, <2>2 DEF SameChild, NotYet
  <2>5. ASSUME NEW k \in Dir PROVE Family(k)'
    <3>1. Keyed(k)' = Keyed(k) /\ Subdirs(k) \subseteq Dir \ {Root}
      BY <2>2, Children DEF Keyed
    <3>2. \A c \in Subdirs(k) : SameChild(c) /\ seg'[c] = seg[c]
      BY <2>2, <2>4, <3>1
    <3>3. CASE Subdirs(k) = {} /\ pc'[k] = "wait"
      BY <1>1, <3>1, <3>3, Childless
    <3> QED
      BY <1>1, <2>3, <3>1, <3>2, <3>3, Frame
  <2> QED
    BY <2>5
<1> QED
  BY <1>2, <1>3, <1>4

\* A subdirectory that adds its count finds its parent still ahead of readFromSharedMem.
LEMMA AtHome ==
  ASSUME TypeOK, Order, Families, NEW d \in Dir \ {Root}
  PROVE  /\ Home(d) \in Dir /\ d \in Subdirs(Home(d)) /\ Home(d) # d /\ Family(Home(d))
         /\ pc[d] \in Adding => pc[Home(d)] \in Before
<1>1. Home(d) \in Dir /\ d \in Subdirs(Home(d)) /\ Home(d) # d
  BY Children, NotIn
<1>2. Family(Home(d))
  BY <1>1 DEF Families
<1> QED
  BY <1>1, <1>2 DEF Family

\* The segment of the family, as long as the parent is ahead.
LEMMA OneSegment ==
  ASSUME NEW k \in Dir, Family(k), pc[k] \in Before \cup {"see"}
  PROVE  \A s \in Keyed(k) : s \in Subdirs(k) /\ pc[s] \in Inside /\ Keyed(k) = {s}
<1> SUFFICES ASSUME NEW s \in Keyed(k)
             PROVE  s \in Subdirs(k) /\ pc[s] \in Inside /\ Keyed(k) = {s}
  OBVIOUS
<1>1. s \in Subdirs(k) /\ pc[s] \notin NotYet
  BY DEF Family
<1>2. pc[s] \in Inside /\ Keyed(k) = {at[s]}
  BY <1>1 DEF Family
<1> QED
  BY <1>1, <1>2

\* The segment it attaches is not destroyed.
LEMMA StillThereAt ==
  ASSUME TypeOK, Order, Families, NEW d \in Dir, pc[d] = "attach"
  PROVE  ~Destroyed(at[d])
<1> DEFINE h == Home(d)
<1>1. d # Root
  BY DEF Order
<1>2. h \in Dir /\ d \in Subdirs(h) /\ Family(h) /\ pc[h] \in Before
  BY <1>1, AtHome DEF Adding
<1> HIDE DEF h
<1>3. Keyed(h) = {at[d]}
  BY <1>2 DEF Family, Inside
<1>4. seg[at[d]].key = h
  BY <1>3 DEF Keyed
<1> QED
  BY <1>2, <1>4, KeyIsThere DEF Destroyed

LEMMA StepAttach ==
  ASSUME TypeOK, Order, Families, NEW d \in Dir, Attach(d)
  PROVE  (\A k \in Dir : Family(k)') /\ (\A x \in Dir : seg'[x].key # Reaper)
<1>1. pc[d] = "attach" /\ pc'[d] = "lower" /\ \A x \in Dir \ {d} : pc'[x] = pc[x]
  BY PcAt DEF Attach
<1>2. seg' = seg /\ at' = at
  BY DEF Attach, memory
<1>3. \A x \in Dir : SameChild(x) /\ SameParent(x)
  BY <1>1, <1>2 DEF SameChild, SameParent, Before, NotYet, Inside
<1> QED
  BY <1>2, <1>3, StillFamilies DEF Families

LEMMA GetFamily ==
  ASSUME TypeOK, Order, Families, NEW d \in Dir, d # Root, Get(d)
  PROVE  \E s \in Subdirs(Home(d)) :
           /\ at' = [at EXCEPT ![d] = s] /\ seg' = [seg EXCEPT ![s].key = Home(d)]
           /\ Keyed(Home(d)) \subseteq {s} /\ (Keyed(Home(d)) = {} => s = d)
<1> DEFINE h == Home(d)
<1>1. pc[d] = "get"
  BY DEF Get, Goto
<1>2. h \in Dir /\ d \in Subdirs(h) /\ h # d /\ Family(h) /\ pc[h] \in Before
  BY <1>1, AtHome DEF Adding
<1>3. ParentOf(d) = h
  BY <1>2 DEF ParentOf, Ended, Before, NotYet, Inside
<1>4. PICK k \in {Home(d), ParentOf(d)}, s \in Dir :
           /\ IF Keyed(k) = {} THEN s = d ELSE s \in Keyed(k)
           /\ at' = [at EXCEPT ![d] = s] /\ seg' = [seg EXCEPT ![s].key = k]
  BY GetMoves
<1>5. k = h
  BY <1>3, <1>4
<1> HIDE DEF h
<1>6. s \in Subdirs(h) /\ Keyed(h) \subseteq {s}
  BY <1>2, <1>4, <1>5, OneSegment
<1> QED
  BY <1>4, <1>5, <1>6 DEF h

LEMMA StepGet ==
  ASSUME TypeOK, Order, Families, NEW d \in Dir, Get(d)
  PROVE  (\A k \in Dir : Family(k)') /\ (\A x \in Dir : seg'[x].key # Reaper)
<1> DEFINE h == Home(d)
<1>1. pc[d] = "get" /\ pc'[d] = "attach" /\ \A x \in Dir \ {d} : pc'[x] = pc[x]
  BY PcAt DEF Get
<1>2. d # Root
  BY <1>1 DEF Order
<1>3. h \in Dir /\ d \in Subdirs(h) /\ h # d /\ Family(h) /\ pc[h] \in Before
  BY <1>1, <1>2, AtHome DEF Adding
<1>4. PICK s \in Subdirs(h) :
           /\ at' = [at EXCEPT ![d] = s] /\ seg' = [seg EXCEPT ![s].key = h]
           /\ Keyed(h) \subseteq {s} /\ (Keyed(h) = {} => s = d)
  BY <1>2, GetFamily
<1>5. s \in Dir
  BY <1>3, Children
<1>6. at'[d] = s /\ \A x \in Dir \ {d} : at'[x] = at[x]
  BY <1>4, <1>5, AtAt
<1> HIDE DEF h
<1>7. /\ seg'[s].key = h /\ seg'[s].flag = seg[s].flag /\ \A x \in Dir \ {s} : seg'[x] = seg[x]
  BY <1>3, <1>4, <1>5, KeyField
<1>8. \A k \in Dir \ {h} : Family(k)'
  <2> SUFFICES ASSUME NEW k \in Dir \ {h}
               PROVE  Family(k)'
    OBVIOUS
  <2>1. Keyed(k)' = Keyed(k) /\ \A c \in Subdirs(k) : seg'[c] = seg[c]
    BY <1>3, <1>4, <1>7, OtherFamily
  <2>2. \A c \in Subdirs(k) : c # d /\ c \in Dir
    BY <1>3, Children
  <2>3. SameParent(k) /\ \A c \in Subdirs(k) : SameChild(c)
    BY <1>1, <1>6, <2>2 DEF SameParent, SameChild, Before, NotYet, Inside
  <2> QED
    BY <2>1, <2>3, Frame DEF Families
<1>9. Family(h)'
  <2>1. Keyed(h)' = {s}
    BY <1>4, <1>5, <1>7 DEF Keyed
  <2>2. pc'[h] = pc[h] /\ at'[h] = at[h] /\ pc'[h] \in Before
    BY <1>1, <1>3, <1>6
  <2>3. /\ pc'[s] \notin NotYet /\ (s # d => Keyed(h) = {s})
    BY <1>1, <1>3, <1>4, <1>5 DEF Family, NotYet
  <2>4. seg'[s].flag # 1
    <3>1. CASE s = d
      BY <1>1, <1>3, <1>7, <3>1 DEF Family, NotYet, NoSegment
    <3>2. CASE s # d
      BY <1>3, <1>7, <2>3, <3>2 DEF Family
    <3> QED
      BY <3>1, <3>2
  <2>5. ASSUME NEW c \in Subdirs(h)
        PROVE  /\ pc'[c] \in NotYet => seg'[c] = NoSegment
               /\ pc'[c] \in Inside => at'[c] = s
               /\ pc'[c] \in NotYet \cup Inside
    <3>1. CASE c = d
      BY <1>1, <1>6, <3>1 DEF NotYet, Inside
    <3>2. CASE c # d
      <4>1. pc'[c] = pc[c] /\ at'[c] = at[c] /\ c \in Dir
        BY <1>1, <1>3, <1>6, <3>2, Children
      <4>2. pc[c] \in NotYet \cup Inside
        BY <1>3 DEF Family
      <4>3. pc[c] \in Inside => at[c] = s
        BY <1>3, <1>4 DEF Family
      <4>4. pc[c] \in NotYet => seg'[c] = NoSegment
        BY <1>3, <1>7, <2>3, <4>1 DEF Family
      <4> QED
        BY <4>1, <4>2, <4>3, <4>4
    <3> QED
      BY <3>1, <3>2
  <2>6. pc'[h] \notin {"see", "check", "send", "wait", "receive", "gone"}
    BY <2>2 DEF Before, NotYet, Inside
  <2>7. /\ \A c \in Subdirs(h) : pc'[c] \in NotYet => seg'[c] = NoSegment
        /\ \A c \in Subdirs(h) : pc'[c] \in Inside => at'[c] \in Subdirs(h)
        /\ \A x \in Keyed(h)' : x \in Subdirs(h) /\ pc'[x] \notin NotYet
    BY <2>1, <2>3, <2>5
  <2>8. /\ \A c \in Subdirs(h) : pc'[c] \in NotYet \cup Inside
        /\ \A c \in Subdirs(h) : pc'[c] \in Inside => Keyed(h)' = {at'[c]}
        /\ \A x \in Keyed(h)' : seg'[x].flag # 1
    BY <2>1, <2>4, <2>5
  <2> QED
    BY <2>2, <2>6, <2>7, <2>8 DEF Family
<1>10. \A x \in Dir : seg'[x].key # Reaper
  BY <1>3, <1>7, KeyIsThere DEF Families
<1> QED
  BY <1>8, <1>9, <1>10

\* Its flag and its count change while it is in use, its key does not.
LEMMA StepAdd ==
  ASSUME TypeOK, Order, Families, NEW d \in Dir, Load(d) \/ Store(d) \/ Raise(d)
  PROVE  (\A k \in Dir : Family(k)') /\ (\A x \in Dir : seg'[x].key # Reaper)
<1> DEFINE h == Home(d)
           s == at[d]
<1>1. /\ pc[d] \in {"lower", "add", "raise"} /\ pc'[d] \in {"add", "raise", "poll"} /\ at' = at
      /\ \A x \in Dir \ {d} : pc'[x] = pc[x]
  BY PcAt DEF Load, Store, Raise
<1>2. d # Root
  BY <1>1 DEF Order
<1>3. h \in Dir /\ d \in Subdirs(h) /\ h # d /\ Family(h) /\ pc[h] \in Before
  BY <1>1, <1>2, AtHome DEF Adding
<1>4. s \in Subdirs(h) /\ Keyed(h) = {s} /\ s \in Dir
  BY <1>1, <1>3, Children DEF Family, Inside
<1>5. /\ \A x \in Dir \ {s} : seg'[x] = seg[x]
      /\ seg'[s].key = seg[s].key /\ seg'[s].flag # 1
  <2>1. CASE Load(d)
    <3>1. seg' = [seg EXCEPT ![s].flag = -1]
      BY <2>1 DEF Load
    <3>2. seg'[s].flag = -1 /\ seg'[s].key = seg[s].key /\ \A x \in Dir \ {s} : seg'[x] = seg[x]
      BY <1>4, <3>1, FlagField
    <3> QED
      BY <3>2
  <2>2. CASE Store(d)
    <3>1. sum[d] + found[d] \in Nat
      BY DEF TypeOK
    <3>2. seg[s].flag # 1
      BY <1>3, <1>4 DEF Family
    <3> QED
      BY <1>4, <2>2, <3>1, <3>2, CountField DEF Store
  <2>3. CASE Raise(d)
    <3>1. seg' = [seg EXCEPT ![s].flag = 0]
      BY <2>3 DEF Raise
    <3>2. seg'[s].flag = 0 /\ seg'[s].key = seg[s].key /\ \A x \in Dir \ {s} : seg'[x] = seg[x]
      BY <1>4, <3>1, FlagField
    <3> QED
      BY <3>2
  <2> QED
    BY <2>1, <2>2, <2>3
<1> HIDE DEF h, s
<1>6. \A k \in Dir \ {h} : Family(k)'
  <2> SUFFICES ASSUME NEW k \in Dir \ {h}
               PROVE  Family(k)'
    OBVIOUS
  <2>1. Keyed(k)' = Keyed(k) /\ \A c \in Subdirs(k) : seg'[c] = seg[c]
    BY <1>3, <1>4, <1>5, OtherFamily
  <2>2. \A c \in Subdirs(k) : c # d /\ c \in Dir
    BY <1>3, Children
  <2>3. SameParent(k) /\ \A c \in Subdirs(k) : SameChild(c)
    BY <1>1, <2>2 DEF SameParent, SameChild, Before, NotYet, Inside
  <2> QED
    BY <2>1, <2>3, Frame DEF Families
<1>7. Family(h)'
  <2>1. Keyed(h)' = {s}
    BY <1>3, <1>4, <1>5, KeyedSame
  <2>2. pc'[h] = pc[h] /\ pc'[h] \in Before
    BY <1>1, <1>3
  <2>3. pc[s] \notin NotYet /\ pc'[s] \notin NotYet
    <3>1. pc[s] \notin NotYet
      BY <1>3, <1>4 DEF Family
    <3> QED
      BY <1>1, <1>4, <3>1 DEF NotYet
  <2>4. ASSUME NEW c \in Subdirs(h)
        PROVE  /\ pc'[c] \in NotYet => seg'[c] = NoSegment
               /\ pc'[c] \in Inside => at'[c] = s
               /\ pc'[c] \in NotYet \cup Inside
    <3>1. pc[c] \in NotYet \cup Inside /\ (pc[c] \in Inside => at[c] = s) /\ c \in Dir
      BY <1>3, <1>4, Children DEF Family
    <3>2. pc'[c] \in NotYet <=> pc[c] \in NotYet
      BY <1>1, <3>1 DEF NotYet
    <3>3. pc'[c] \in Inside <=> pc[c] \in Inside
      BY <1>1, <3>1 DEF Inside
    <3>4. pc[c] \in NotYet => seg'[c] = NoSegment
      BY <1>3, <1>5, <2>3, <3>1 DEF Family
    <3> QED
      BY <1>1, <3>1, <3>2, <3>3, <3>4
  <2>5. pc'[h] \notin {"see", "check", "send", "wait", "receive", "gone"}
    BY <2>2 DEF Before, NotYet, Inside
  <2>6. /\ \A c \in Subdirs(h) : pc'[c] \in NotYet => seg'[c] = NoSegment
        /\ \A c \in Subdirs(h) : pc'[c] \in Inside => at'[c] \in Subdirs(h)
        /\ \A x \in Keyed(h)' : x \in Subdirs(h) /\ pc'[x] \notin NotYet
    BY <1>4, <2>1, <2>3, <2>4
  <2>7. /\ \A c \in Subdirs(h) : pc'[c] \in NotYet \cup Inside
        /\ \A c \in Subdirs(h) : pc'[c] \in Inside => Keyed(h)' = {at'[c]}
        /\ \A x \in Keyed(h)' : seg'[x].flag # 1
    BY <1>5, <2>1, <2>4
  <2> QED
    BY <2>2, <2>5, <2>6, <2>7 DEF Family
<1>8. \A x \in Dir : seg'[x].key # Reaper
  BY <1>4, <1>5 DEF Families
<1> QED
  BY <1>6, <1>7, <1>8

\* A key is gone.
LEMMA WithoutKeyOf ==
  ASSUME TypeOK, NEW s \in Dir, seg' = WithoutKey(s)
  PROVE  /\ seg'[s].key = None /\ seg'[s].count = seg[s].count /\ \A x \in Dir \ {s} : seg'[x] = seg[x]
         /\ \A k \in Dir : Keyed(k)' = Keyed(k) \ {s}
<1>1. seg'[s].key = None /\ seg'[s].count = seg[s].count /\ \A x \in Dir \ {s} : seg'[x] = seg[x]
  BY KeyField DEF WithoutKey
<1>2. ASSUME NEW k \in Dir PROVE Keyed(k)' = Keyed(k) \ {s}
  BY <1>1, KeyIsThere DEF Keyed
<1> QED
  BY <1>1, <1>2

LEMMA StepReleased ==
  ASSUME TypeOK, Order, Families, NEW d \in Dir, Released(d)
  PROVE  (\A k \in Dir : Family(k)') /\ (\A x \in Dir : seg'[x].key # Reaper)
<1> DEFINE h == Home(d)
           s == at[d]
<1>1. /\ pc[d] = "poll" /\ pc'[d] = IF Subdirs(d) = {} THEN "wait" ELSE "sleep"
      /\ \A x \in Dir \ {d} : pc'[x] = pc[x]
  BY PcAt DEF Released, Reads
<1>2. d # Root
  BY <1>1 DEF Order
<1>3. h \in Dir /\ d \in Subdirs(h) /\ h # d /\ Family(h)
  BY <1>1, <1>2, AtHome
<1>4. s \in Subdirs(h) /\ s \in Dir /\ seg[s].flag = 1
  BY <1>1, <1>3, Children DEF Family, Inside, Released, Here
<1>5. \A x \in Dir \ {d} : at'[x] = at[x]
  BY AtAt DEF Released
<1>6. /\ seg'[s].key = None /\ \A x \in Dir \ {s} : seg'[x] = seg[x]
      /\ \A k \in Dir : Keyed(k)' = Keyed(k) \ {s}
  BY <1>4, WithoutKeyOf DEF Released
<1>7. pc[h] \notin Before \cup {"see"}
  BY <1>1, <1>3, <1>4 DEF Family, Inside
<1> HIDE DEF h, s
<1>8. \A k \in Dir \ {h} : Keyed(k)' = Keyed(k) /\ \A c \in Subdirs(k) : seg'[c] = seg[c] /\ c # d /\ c \in Dir
  <2> SUFFICES ASSUME NEW k \in Dir \ {h}
               PROVE  Keyed(k)' = Keyed(k) /\ \A c \in Subdirs(k) : seg'[c] = seg[c] /\ c # d /\ c \in Dir
    OBVIOUS
  <2>1. Keyed(k)' = Keyed(k) /\ \A c \in Subdirs(k) : seg'[c] = seg[c]
    BY <1>3, <1>4, <1>6, OtherFamily
  <2>2. \A c \in Subdirs(k) : c # d /\ c \in Dir
    BY <1>3, Children
  <2> QED
    BY <2>1, <2>2
<1>9. \A k \in Dir \ {h} : Family(k)'
  <2> SUFFICES ASSUME NEW k \in Dir \ {h}
               PROVE  Family(k)'
    OBVIOUS
  <2>1. \A c \in Subdirs(k) : SameChild(c)
    BY <1>1, <1>5, <1>8 DEF SameChild
  <2>2. CASE k # d \/ Subdirs(d) # {}
    <3>1. SameParent(k)
      BY <1>1, <1>5, <2>2 DEF SameParent, Before, NotYet, Inside
    <3> QED
      BY <1>8, <2>1, <3>1, Frame DEF Families
  <2>3. CASE k = d /\ Subdirs(d) = {}
    <3>1. Keyed(k)' = {} /\ pc'[k] = "wait"
      <4>1. Keyed(k) \subseteq Subdirs(k)
        BY DEF Families, Family
      <4> QED
        BY <1>1, <1>8, <2>3, <4>1
    <3> QED
      BY <2>3, <3>1 DEF Family, Before, NotYet, Inside
  <2> QED
    BY <2>2, <2>3
<1>10. Family(h)'
  <2>1. pc'[h] = pc[h] /\ at'[h] = at[h] /\ Keyed(h)' \subseteq Keyed(h)
    BY <1>1, <1>3, <1>5, <1>6
  <2>2. \A c \in Subdirs(h) : c \in Dir /\ pc[c] \notin Adding
    BY <1>3, <1>7, Children DEF Family
  <2>3. \A c \in Subdirs(h) : pc'[c] \notin Adding
    BY <1>1, <2>2 DEF Adding
  <2>4. \A c \in Subdirs(h) : pc'[c] \notin NotYet
    BY <2>3 DEF Adding, NotYet
  <2>5. \A c \in Subdirs(h) : pc'[c] \in Inside => at'[c] \in Subdirs(h)
    <3>1. SUFFICES ASSUME NEW c \in Subdirs(h), pc'[c] \in Inside
                   PROVE  at'[c] \in Subdirs(h)
      OBVIOUS
    <3>2. c # d
      BY <1>1, <3>1 DEF Inside
    <3> QED
      BY <1>1, <1>3, <1>5, <2>2, <3>1, <3>2 DEF Family
  <2>6. pc[h] \notin {"receive", "gone"}
    BY <1>1, <1>3 DEF Family
  <2>7. /\ \A x \in Keyed(h)' : x \in Subdirs(h)
        /\ pc'[h] \in {"check", "send"} => at'[h] \in Subdirs(h) /\ Keyed(h)' \subseteq {at'[h]}
        /\ pc'[h] \in {"wait", "receive", "gone"} => Keyed(h)' = {}
    BY <1>3, <2>1 DEF Family
  <2>8. pc'[h] \notin Before \cup {"see"}
    BY <1>7, <2>1
  <2>9. pc'[h] \notin {"receive", "gone"}
    BY <2>1, <2>6
  <2> QED
    BY <2>3, <2>4, <2>5, <2>7, <2>8, <2>9 DEF Family
<1>11. \A x \in Dir : seg'[x].key # Reaper
  BY <1>4, <1>6, KeyIsThere DEF Families
<1> QED
  BY <1>9, <1>10, <1>11

\* When a directory looks, its subdirectories have added and are still there.
LEMMA FamilyThere ==
  ASSUME TypeOK, Order, Families, timely, NEW d \in Dir, pc[d] = "sleep",
         timely => \A c \in Subdirs(d) : pc[c] \notin Adding
  PROVE  \A c \in Subdirs(d) : pc[c] = "poll" /\ Keyed(d) = {at[c]}
<1>1. Family(d) /\ pc[d] \in Before
  BY DEF Families, Before
<1>2. \A c \in Subdirs(d) : pc[c] \in NotYet \cup Inside
  BY <1>1 DEF Family
<1>3. \A c \in Subdirs(d) : pc[c] = "poll"
  BY <1>2 DEF NotYet, Inside, Adding
<1> QED
  BY <1>1, <1>3 DEF Family, Inside

LEMMA FindsOne ==
  ASSUME TypeOK, Order, Families, timely, NEW d \in Dir
  PROVE  ~FindNone(d)
<1> SUFFICES ASSUME FindNone(d)
             PROVE  FALSE
  OBVIOUS
<1>1. pc[d] = "sleep" /\ Keyed(d) = {} /\ (timely => \A c \in Subdirs(d) : pc[c] \notin Adding)
  BY DEF FindNone, Goto
<1>2. Subdirs(d) # {}
  BY <1>1 DEF Order
<1> QED
  BY <1>1, <1>2, FamilyThere

\* A step of a parent beyond its sleep is none for the family it is a child of.
LEMMA ParentStep ==
  ASSUME TypeOK, NEW d \in Dir, NEW p, NEW q, pc[d] = p, pc'[d] = q, Way(d, p, q),
         p \in {"sleep", "see", "check", "send", "wait", "receive"},
         \A x \in Dir \ {d} : pc'[x] = pc[x] /\ at'[x] = at[x]
  PROVE  /\ \A x \in Dir : SameChild(x)
         /\ \A x \in Dir \ {d} : SameParent(x)
<1>1. SameChild(d)
  BY DEF Way, Reads, SameChild, NotYet, Inside
<1> QED
  BY <1>1 DEF SameChild, SameParent

\* What is left to show of such a step.
LEMMA ParentFamilies ==
  ASSUME TypeOK, Families, NEW d \in Dir, NEW s \in Subdirs(d), Family(d)',
         \A x \in Dir : SameChild(x), \A x \in Dir \ {d} : SameParent(x),
         \A x \in Dir \ {s} : seg'[x] = seg[x], seg'[s].key \in {seg[s].key, d, None}
  PROVE  \A k \in Dir : Family(k)'
<1> SUFFICES ASSUME NEW k \in Dir \ {d}
             PROVE  Family(k)'
  OBVIOUS
<1>1. Keyed(k)' = Keyed(k) /\ \A c \in Subdirs(k) : seg'[c] = seg[c]
  BY OtherFamily
<1>2. \A c \in Subdirs(k) : SameChild(c)
  BY Children
<1> QED
  BY <1>1, <1>2, Frame DEF Families

LEMMA StepFind ==
  ASSUME TypeOK, Order, Families, timely, NEW d \in Dir, Find(d)
  PROVE  (\A k \in Dir : Family(k)') /\ (\A x \in Dir : seg'[x].key # Reaper)
<1>1. /\ pc[d] = "sleep" /\ pc'[d] = "see" /\ \A x \in Dir \ {d} : pc'[x] = pc[x]
  BY PcAt DEF Find
<1>2. PICK s \in Keyed(d) : at' = [at EXCEPT ![d] = s]
  BY DEF Find
<1>3. s \in Dir /\ at'[d] = s /\ \A x \in Dir \ {d} : at'[x] = at[x]
  BY <1>2, AtAt DEF Keyed
<1>4. seg' = seg
  BY DEF Find
<1>5. s \in Subdirs(d) /\ Family(d)
  BY <1>2 DEF Families, Family
<1>6. \A x \in Dir : SameChild(x)
  BY <1>1, <1>3, ParentStep DEF Way, Reads
<1>7. \A x \in Dir \ {d} : SameParent(x)
  BY <1>1, <1>3, ParentStep DEF Way, Reads
<1>8. Family(d)'
  <2>1. \A c \in Subdirs(d) : pc[c] = "poll" /\ Keyed(d) = {at[c]} /\ c \in Dir /\ c # d
    BY <1>1, FamilyThere, Children DEF Find
  <2>2. \A c \in Subdirs(d) : pc'[c] = "poll" /\ at'[c] = at[c]
    BY <1>1, <1>3, <2>1
  <2>3. Keyed(d)' = Keyed(d)
    BY <1>4 DEF Keyed
  <2>4. pc[d] \in Before
    BY <1>1 DEF Before
  <2>5. /\ \A c \in Subdirs(d) : pc'[c] \notin NotYet /\ pc'[c] \in Inside /\ pc'[c] \notin Adding
    BY <2>2 DEF NotYet, Inside, Adding
  <2>6. \A c \in Subdirs(d) : at'[c] \in Subdirs(d) /\ Keyed(d)' = {at'[c]}
    BY <1>5, <2>1, <2>2, <2>3 DEF Family, Inside
  <2>7. \A x \in Keyed(d)' : x \in Subdirs(d) /\ seg'[x].flag # 1
    BY <1>4, <1>5, <2>3, <2>4 DEF Family
  <2>8. at'[d] \in Keyed(d)'
    BY <1>2, <1>3, <2>3
  <2> QED
    BY <1>1, <2>5, <2>6, <2>7, <2>8 DEF Family
<1>9. \A k \in Dir : Family(k)'
  BY <1>4, <1>5, <1>6, <1>7, <1>8, ParentFamilies
<1> QED
  BY <1>4, <1>9 DEF Families

LEMMA QuietFamilies ==
  ASSUME TypeOK, Families, NEW d \in Dir, Family(d)', seg' = seg,
         \A x \in Dir : SameChild(x), \A x \in Dir \ {d} : SameParent(x)
  PROVE  (\A k \in Dir : Family(k)') /\ (\A x \in Dir : seg'[x].key # Reaper)
<1>1. ASSUME NEW k \in Dir \ {d}
      PROVE  Family(k)'
  <2>1. Keyed(k)' = Keyed(k) /\ \A c \in Subdirs(k) : SameChild(c) /\ seg'[c] = seg[c]
    BY Children DEF Keyed
  <2> QED
    BY <2>1, Frame DEF Families
<1> QED
  BY <1>1 DEF Families

\* The subdirectories of a directory that has seen their segment have all added to it.
LEMMA AfterLook ==
  ASSUME NEW d \in Dir, Family(d), pc[d] \notin Before, NEW q, q \notin Before \cup {"see", "receive", "gone"},
         pc'[d] = q, \A x \in Dir \ {d} : pc'[x] = pc[x] /\ at'[x] = at[x],
         \A s \in Keyed(d)' : s \in Subdirs(d),
         q \in {"check", "send"} => at'[d] \in Subdirs(d) /\ Keyed(d)' \subseteq {at'[d]},
         q = "wait" => Keyed(d)' = {}
  PROVE  Family(d)'
<1>1. \A c \in Subdirs(d) : c \in Dir /\ c # d /\ pc[c] \notin Adding
  BY Children, NotIn DEF Family
<1>2. \A c \in Subdirs(d) : pc'[c] \notin Adding /\ pc'[c] \notin NotYet
  BY <1>1 DEF Adding, NotYet
<1>3. \A c \in Subdirs(d) : pc'[c] \in Inside => at'[c] \in Subdirs(d)
  BY <1>1 DEF Family
<1> QED
  BY <1>2, <1>3 DEF Family

LEMMA StepAnswer ==
  ASSUME TypeOK, Order, Families, NEW d \in Dir, Answer(d)
  PROVE  (\A k \in Dir : Family(k)') /\ (\A x \in Dir : seg'[x].key # Reaper)
<1> DEFINE s == at[d]
<1>1. /\ pc[d] = "see" /\ pc'[d] = "check" /\ \A x \in Dir \ {d} : pc'[x] = pc[x] /\ at'[x] = at[x]
      /\ at' = at
  BY PcAt DEF Answer
<1>2. Family(d) /\ pc[d] \notin Before
  BY <1>1 DEF Families, Before, NotYet, Inside
<1>3. s \in Keyed(d) /\ Keyed(d) = {s} /\ s \in Subdirs(d) /\ s \in Dir
  BY <1>1, <1>2, OneSegment, Children DEF Family
<1>4. seg' = [seg EXCEPT ![s].flag = 1]
  BY DEF Answer, AnswerFlag
<1>5. seg'[s].key = seg[s].key /\ \A x \in Dir \ {s} : seg'[x] = seg[x]
  BY <1>3, <1>4, FlagField
<1> HIDE DEF s
<1>6. Keyed(d)' = Keyed(d)
  BY <1>3, <1>5, KeyedSame
<1>7. Family(d)'
  <2>1. "check" \notin Before \cup {"see", "receive", "gone"}
    BY DEF Before, NotYet, Inside
  <2> QED
    BY <1>1, <1>2, <1>3, <1>6, <2>1, AfterLook DEF s
<1>8. \A x \in Dir : SameChild(x)
  BY <1>1, ParentStep DEF Way, Reads
<1>9. \A x \in Dir \ {d} : SameParent(x)
  BY <1>1, ParentStep DEF Way, Reads
<1>10. \A k \in Dir : Family(k)'
  BY <1>3, <1>5, <1>7, <1>8, <1>9, ParentFamilies
<1> QED
  BY <1>3, <1>5, <1>10 DEF Families

LEMMA StepCheck ==
  ASSUME TypeOK, Order, Families, NEW d \in Dir, Check(d)
  PROVE  (\A k \in Dir : Family(k)') /\ (\A x \in Dir : seg'[x].key # Reaper)
<1>1. /\ pc[d] = "check" /\ pc'[d] = "send" /\ \A x \in Dir \ {d} : pc'[x] = pc[x] /\ at'[x] = at[x]
      /\ at' = at /\ seg' = seg
  BY PcAt DEF Check, memory
<1>2. Family(d) /\ pc[d] \notin Before
  BY <1>1 DEF Families, Before, NotYet, Inside
<1>3. Keyed(d)' = Keyed(d)
  BY <1>1 DEF Keyed
<1>4. Family(d)'
  <2>1. "send" \notin Before \cup {"see", "receive", "gone"}
    BY DEF Before, NotYet, Inside
  <2>2. at[d] \in Subdirs(d) /\ Keyed(d) \subseteq {at[d]}
    BY <1>1, <1>2 DEF Family
  <2>3. \A s \in Keyed(d)' : s \in Subdirs(d)
    BY <1>3, <2>2
  <2> QED
    BY <1>1, <1>2, <1>3, <2>1, <2>2, <2>3, AfterLook
<1>5. \A x \in Dir : SameChild(x)
  BY <1>1, ParentStep DEF Way, Reads
<1>6. \A x \in Dir \ {d} : SameParent(x)
  BY <1>1, ParentStep DEF Way, Reads
<1> QED
  BY <1>1, <1>4, <1>5, <1>6, QuietFamilies

LEMMA StepSend ==
  ASSUME TypeOK, Order, Families, NEW d \in Dir, Send(d)
  PROVE  (\A k \in Dir : Family(k)') /\ (\A x \in Dir : seg'[x].key # Reaper)
<1> DEFINE s == at[d]
<1>1. /\ pc[d] = "send" /\ pc'[d] = "wait" /\ \A x \in Dir \ {d} : pc'[x] = pc[x]
  BY PcAt DEF Send
<1>2. \A x \in Dir \ {d} : pc'[x] = pc[x] /\ at'[x] = at[x]
  BY <1>1, AtAt DEF Send
<1>3. Family(d) /\ pc[d] \notin Before
  BY <1>1 DEF Families, Before, NotYet, Inside
<1>4. s \in Subdirs(d) /\ Keyed(d) \subseteq {s} /\ s \in Dir
  BY <1>1, <1>3, Children DEF Family
<1>5. seg'[s].key = None /\ (\A x \in Dir \ {s} : seg'[x] = seg[x]) /\ Keyed(d)' = Keyed(d) \ {s}
  BY <1>4, WithoutKeyOf DEF Send
<1> HIDE DEF s
<1>6. Keyed(d)' = {}
  BY <1>4, <1>5
<1>7. Family(d)'
  <2>1. "wait" \notin Before \cup {"see", "receive", "gone"}
    BY DEF Before, NotYet, Inside
  <2> QED
    BY <1>1, <1>2, <1>3, <1>6, <2>1, AfterLook
<1>8. \A x \in Dir : SameChild(x)
  BY <1>1, <1>2, ParentStep DEF Way, Reads
<1>9. \A x \in Dir \ {d} : SameParent(x)
  BY <1>1, <1>2, ParentStep DEF Way, Reads
<1>10. \A k \in Dir : Family(k)'
  BY <1>4, <1>5, <1>7, <1>8, <1>9, ParentFamilies
<1> QED
  BY <1>4, <1>5, <1>10, KeyIsThere DEF Families

\* A process that ends, or begins to receive, has waited for its subdirectories.
LEMMA StepEnd ==
  ASSUME TypeOK, Order, Families,
         NEW d \in Dir, Record(d) \/ (d = Root /\ ReadHistory) \/ (d = Root /\ Finish)
  PROVE  (\A k \in Dir : Family(k)') /\ (\A x \in Dir : seg'[x].key # Reaper)
<1>1. PICK p, q : Goto(d, p, q) /\ Way(d, p, q) /\ p \in {"wait", "receive"} /\ q \in {"receive", "gone"}
  BY DEF Record, ReadHistory, Finish, Way, Reads
<1>2. /\ pc[d] = p /\ pc'[d] = q /\ \A x \in Dir \ {d} : pc'[x] = pc[x]
  BY <1>1, PcAt
<1>3. at' = at /\ seg' = seg
  BY DEF Record, ReadHistory, Finish, memory
<1>4. Family(d) /\ pc[d] \notin Before
  BY <1>1, <1>2 DEF Families, Before, NotYet, Inside
<1>5. \A c \in Subdirs(d) : c \in Dir /\ c # d /\ pc[c] = "gone"
  <2>1. \A c \in Subdirs(d) : c \in Dir /\ c # d
    BY Children, NotIn
  <2>2. CASE Record(d) \/ (d = Root /\ ReadHistory)
    <3>1. \A c \in Subdirs(d) : pc[c] \in {"gone", "failed", "killed"}
      BY <2>2 DEF Record, ReadHistory, Ended
    <3> QED
      BY <2>1, <3>1 DEF Order, Families
  <2>3. CASE d = Root /\ Finish
    <3>1. pc[d] = "receive"
      BY <2>3 DEF Finish, Goto
    <3> QED
      BY <1>4, <2>1, <3>1 DEF Family
  <2> QED
    BY <2>2, <2>3
<1>6. Keyed(d)' = {}
  <2>1. Keyed(d)' = Keyed(d)
    BY <1>3 DEF Keyed
  <2> QED
    BY <1>1, <1>2, <1>4, <2>1 DEF Family
<1>7. \A c \in Subdirs(d) : pc'[c] = "gone" /\ pc'[c] \notin NotYet \cup Inside \cup Adding
  BY <1>2, <1>5 DEF NotYet, Inside, Adding
<1>8. Family(d)'
  <2>1. pc'[d] \in {"receive", "gone"} /\ pc'[d] \notin Before
    BY <1>1, <1>2 DEF Before, NotYet, Inside
  <2> QED
    BY <1>6, <1>7, <2>1 DEF Family
<1>9. \A x \in Dir : SameChild(x)
  BY <1>1, <1>2, <1>3, ParentStep
<1>10. \A x \in Dir \ {d} : SameParent(x)
  BY <1>1, <1>2, <1>3, ParentStep
<1> QED
  BY <1>3, <1>8, <1>9, <1>10, QuietFamilies

\* Before the main process receives all others are gone.
LEMMA AllGone ==
  ASSUME Families, pc[Root] \in {"receive", "gone"}
  PROVE  \A d \in Dir \ {Root} : pc[d] = "gone"
<1> DEFINE S == {d \in Dir \ {Root} : pc[d] # "gone"}
<1> SUFFICES ASSUME S # {}
             PROVE  FALSE
  OBVIOUS
<1>1. PICK c \in S : Home(c) \in Dir \ S
  BY Highest
<1>2. c \in Dir \ {Root} /\ pc[c] # "gone"
  OBVIOUS
<1>3. pc[Home(c)] \in {"receive", "gone"}
  BY <1>1
<1>4. c \in Subdirs(Home(c)) /\ Family(Home(c))
  BY <1>1, <1>2, Children DEF Families
<1> QED
  BY <1>2, <1>3, <1>4 DEF Family

LEMMA FamiliesKept ==
  ASSUME TypeOK, Order, Counted, Families, timely, [Next]_vars, Live'
  PROVE  Families'
<1>1. ~Interrupt
  BY InterruptEnds DEF Order, RootPlace
<1>2. ASSUME NEW d \in Dir, Runs(d)
      PROVE  (\A k \in Dir : Family(k)') /\ (\A x \in Dir : seg'[x].key # Reaper)
  <2>1. ~FindNone(d) /\ ~AttachFails(d)
    BY FindsOne, StillThereAt DEF AttachFails, Goto
  <2>2. CASE SavePid(d) \/ Join(d)
    <3>1. seg' = seg
      BY <2>2 DEF SavePid, Join, memory
    <3> QED
      BY <2>2, <3>1, ListFamilies DEF Families
  <2> QED
    BY <1>2, <2>1, <2>2, StepGet, StepAttach, StepAdd, StepReleased, StepFind, StepAnswer, StepCheck, StepSend,
       StepEnd DEF Runs
<1>3. ASSUME Elsewhere \/ \E d \in Dir : Fork(d)
      PROVE  (\A k \in Dir : Family(k)') /\ (\A x \in Dir : seg'[x].key # Reaper)
  <2>1. seg' = seg
    BY <1>3, ElsewhereSame, ForkSame
  <2> QED
    BY <1>3, <2>1, ListFamilies DEF Families
<1>4. (\A k \in Dir : Family(k)') /\ (\A x \in Dir : seg'[x].key # Reaper)
  BY <1>1, <1>2, <1>3, Kinds
<1>5. \A d \in Dir : pc'[d] # "failed"
  <2>1. ASSUME NEW d \in Dir, Runs(d) PROVE \A x \in Dir : pc'[x] # "failed"
    <3>1. PICK p, q : Goto(d, p, q) /\ Way(d, p, q)
      BY <2>1, RunsWay
    <3>2. pc[d] = p /\ pc'[d] = q /\ \A x \in Dir \ {d} : pc'[x] = pc[x]
      BY <3>1, PcAt
    <3>3. q # "failed"
      <4>1. ~FindNone(d) /\ ~AttachFails(d)
        BY FindsOne, StillThereAt DEF AttachFails, Goto
      <4> QED
        BY <2>1, <3>2, <4>1, PcAt DEF Runs, Join, Reads, SavePid, Get, Attach, Load, Store, Raise, Released, Find,
              Answer, Check, Send, Record, ReadHistory, Finish
    <3> QED
      BY <3>2, <3>3 DEF Families
  <2>2. ASSUME NEW d \in Dir, Fork(d) PROVE \A x \in Dir : pc'[x] # "failed"
    BY <2>2, ForkSame DEF Families
  <2>3. Elsewhere => pc' = pc
    BY ElsewhereSame
  <2> QED
    BY <1>1, <2>1, <2>2, <2>3, Kinds DEF Families
<1>6. /\ pc'[Root] = "receive" => need' = Cardinality(Recorders') + 1
      /\ pc'[Root] = "gone" => need' = Cardinality(Recorders') + 1 /\ history' = 0
  <2>1. CASE ReadHistory
    <3>1. pc[Root] = "wait" /\ pc'[Root] = "receive"
      BY <2>1, Members, PcAt DEF ReadHistory
    <3>2. Recorders' = Recorders
      <4>1. \A x \in Dir \ {Root} : pc'[x] = pc[x]
        BY <2>1, Members, PcAt DEF ReadHistory
      <4> QED
        BY <4>1 DEF Recorders
    <3> QED
      BY <2>1, <3>1, <3>2 DEF ReadHistory, Needed, Counted
  <2>2. CASE pc[Root] \in {"receive", "gone"}
    <3>1. \A d \in Dir : ~Record(d)
      BY <2>2, AllGone DEF Record, Goto
    <3>2. Recorders' = Recorders
      BY <3>1, CountSets
    <3>3. ASSUME NEW d \in Dir, Fork(d) PROVE pc'[Root] = pc[Root] /\ need' = need /\ history' = history
      BY <3>3, ForkSame, Members
    <3>4. Elsewhere => pc'[Root] = pc[Root] /\ need' = need /\ history' = history
      BY ElsewhereSame
    <3>5. ASSUME NEW d \in Dir, Runs(d)
          PROVE  d = Root /\ pc[Root] = "receive" /\ pc'[Root] = "gone" /\ need' = need /\ history' = 0
      <4>1. PICK p, q : Goto(d, p, q) /\ Way(d, p, q)
        BY <3>5, RunsWay
      <4>2. p # "gone"
        BY <4>1 DEF Way, Reads
      <4>3. d = Root /\ pc[Root] = "receive"
        BY <2>2, <4>1, <4>2, AllGone DEF Goto
      <4>4. Finish
        BY <3>5, <4>3 DEF Runs, Join, SavePid, Get, Attach, AttachFails, Load, Store, Raise, Released, Find, FindNone, Answer,
                          Check, Send, Record, ReadHistory, Goto
      <4> QED
        BY <4>3, <4>4, Members, PcAt DEF Finish
    <3> QED
      BY <1>1, <2>2, <3>2, <3>3, <3>4, <3>5, Kinds DEF Families
  <2>3. CASE pc[Root] \notin {"receive", "gone"} /\ ~ReadHistory
    <3>1. ASSUME NEW d \in Dir, Fork(d) PROVE pc'[Root] = pc[Root]
      BY <3>1, ForkSame, Members
    <3>2. Elsewhere => pc'[Root] = pc[Root]
      BY ElsewhereSame
    <3>3. ASSUME NEW d \in Dir, Runs(d) PROVE pc'[Root] \notin {"receive", "gone"}
      <4>1. PICK p, q : Goto(d, p, q) /\ Way(d, p, q)
        BY <3>3, RunsWay
      <4>2. pc[d] = p /\ pc'[d] = q /\ \A x \in Dir \ {d} : pc'[x] = pc[x]
        BY <4>1, PcAt
      <4>3. CASE d = Root
        <5>1. p # "wait"
          BY <2>3, <3>3, <4>2, <4>3, PcAt DEF Runs, Join, SavePid, Get, Attach, AttachFails, Load, Store, Raise, Released, Find,
             FindNone, Answer, Check, Send, Record, Finish
        <5>2. p # "receive"
          BY <2>3, <4>2, <4>3
        <5> QED
          BY <4>1, <4>2, <4>3, <5>1, <5>2 DEF Way, Reads
      <4> QED
        BY <2>3, <4>2, <4>3, Members
    <3> QED
      BY <1>1, <2>3, <3>1, <3>2, <3>3, Kinds
  <2> QED
    BY <2>1, <2>2, <2>3
<1> QED
  BY <1>4, <1>5, <1>6 DEF Families
---------------------------------------------------------------------------
(* What gets through *)

\* Only Store changes a count, and only that of the segment of its process.
LEMMA CountMoves ==
  ASSUME TypeOK, Order, NEW d \in Dir, Runs(d)
  PROVE  /\ \A x \in Dir \ {d} : at'[x] = at[x]
         /\ ~Store(d) => \A x \in Dir : seg'[x].count = seg[x].count
         /\ Store(d) => /\ pc[d] = "add" /\ at[d] \in Dir /\ at' = at
                        /\ seg'[at[d]].count = sum[d] + found[d]
                        /\ \A x \in Dir \ {at[d]} : seg'[x] = seg[x]
<1>1. ASSUME NEW e \in Dir, pc[e] \in HasSegment PROVE at[e] \in Dir
  BY <1>1 DEF TypeOK
<1>2. CASE SavePid(d) \/ Join(d) \/ Attach(d) \/ AttachFails(d) \/ FindNone(d) \/ Check(d) \/ Record(d) \/ ReadHistory \/ Finish
  <2>1. at' = at /\ seg' = seg
    BY <1>2 DEF SavePid, Join, Attach, AttachFails, FindNone, Check, Record, ReadHistory, Finish, memory
  <2>2. ~Store(d)
    <3>1. Store(d) => pc[d] = "add" /\ pc'[d] = "raise"
      BY PcAt DEF Store
    <3>2. (ReadHistory \/ Finish) => d = Root \/ pc'[d] = pc[d]
      BY PcAt, Members DEF ReadHistory, Finish
    <3> QED
      BY <1>2, <3>1, <3>2, PcAt DEF SavePid, Join, Attach, AttachFails, FindNone, Check, Record, ReadHistory, Finish, Goto
  <2> QED
    BY <2>1, <2>2
<1>3. CASE Get(d)
  <2>1. pc[d] = "get"
    BY <1>3 DEF Get, Goto
  <2>2. d # Root
    BY <2>1 DEF Order
  <2>3. PICK k \in {Home(d), ParentOf(d)}, s \in Dir :
           at' = [at EXCEPT ![d] = s] /\ seg' = [seg EXCEPT ![s].key = k]
    BY <1>3, <2>2, GetMoves
  <2>4. k \in Dir \cup {None, Reaper}
    BY <2>2, KeysOf
  <2>5. \A x \in Dir : seg'[x].count = seg[x].count
    BY <2>3, <2>4, KeyField
  <2>6. \A x \in Dir \ {d} : at'[x] = at[x]
    BY <2>3, AtAt
  <2>7. ~Store(d)
    BY <2>1 DEF Store, Goto
  <2> QED
    BY <2>5, <2>6, <2>7
<1>4. CASE Load(d) \/ Raise(d) \/ Answer(d)
  <2>1. pc[d] \in {"lower", "raise", "see"} /\ at' = at
    BY <1>4 DEF Load, Raise, Answer, Goto
  <2>2. at[d] \in Dir
    BY <1>1, <2>1 DEF HasSegment
  <2>3. \E b \in {-1, 0, 1} : seg' = [seg EXCEPT ![at[d]].flag = b]
    BY <1>4 DEF Load, Raise, Answer, AnswerFlag
  <2>4. \A x \in Dir : seg'[x].count = seg[x].count
    <3>1. PICK b \in {-1, 0, 1} : seg' = [seg EXCEPT ![at[d]].flag = b]
      BY <2>3
    <3>2. seg'[at[d]].count = seg[at[d]].count /\ \A x \in Dir \ {at[d]} : seg'[x] = seg[x]
      BY <2>2, <3>1, FlagField
    <3> QED
      BY <3>2
  <2>5. ~Store(d)
    BY <2>1 DEF Store, Goto
  <2> QED
    BY <2>1, <2>4, <2>5
<1>5. CASE Store(d)
  <2>1. pc[d] = "add" /\ at' = at
    BY <1>5 DEF Store, Goto
  <2>2. at[d] \in Dir /\ sum[d] + found[d] \in Nat
    BY <1>1, <2>1 DEF HasSegment, TypeOK
  <2>3. seg' = [seg EXCEPT ![at[d]].count = sum[d] + found[d]]
    BY <1>5 DEF Store
  <2>4. seg'[at[d]].count = sum[d] + found[d] /\ \A x \in Dir \ {at[d]} : seg'[x] = seg[x]
    <3>1. PICK s \in Dir, n \in Nat : s = at[d] /\ n = sum[d] + found[d]
      BY <2>2
    <3>2. seg' = [seg EXCEPT ![s].count = n]
      BY <2>3, <3>1
    <3>3. seg'[s].count = n /\ \A x \in Dir \ {s} : seg'[x] = seg[x]
      BY <3>2, CountField
    <3> QED
      BY <3>1, <3>3
  <2> QED
    BY <1>5, <2>1, <2>2, <2>4
<1>6. CASE Released(d) \/ Send(d)
  <2>1. pc[d] \in {"poll", "send"} /\ seg' = WithoutKey(at[d]) /\ at' = [at EXCEPT ![d] = None]
    BY <1>6 DEF Released, Send, Goto
  <2>2. at[d] \in Dir
    BY <1>1, <2>1 DEF HasSegment
  <2>3. \A x \in Dir : seg'[x].count = seg[x].count
    BY <2>1, <2>2, WithoutKeyOf
  <2>4. \A x \in Dir \ {d} : at'[x] = at[x]
    BY <2>1, AtAt
  <2>5. ~Store(d)
    BY <2>1 DEF Store, Goto
  <2> QED
    BY <2>3, <2>4, <2>5
<1>7. CASE Find(d)
  <2>1. pc[d] = "sleep" /\ seg' = seg
    BY <1>7 DEF Find, Goto
  <2>2. PICK s \in Keyed(d) : at' = [at EXCEPT ![d] = s]
    BY <1>7 DEF Find
  <2>3. \A x \in Dir \ {d} : at'[x] = at[x]
    BY <2>2, AtAt DEF Keyed
  <2> QED
    BY <2>1, <2>3 DEF Store, Goto
<1> QED
  BY <1>2, <1>3, <1>4, <1>5, <1>6, <1>7 DEF Runs

LEMMA PositiveKept ==
  ASSUME TypeOK, QueueThere, Positive, [Next]_vars
  PROVE  Positive'
<1>0. queue \in Seq(Nat) /\ num \in Nat /\ Len(queue) \in Nat /\ DOMAIN queue = 1 .. Len(queue)
  BY LenProperties DEF TypeOK
<1>1. CASE UNCHANGED <<num, queue>>
  BY <1>1 DEF Positive
<1>2. ASSUME NEW d \in Dir, Send(d) PROVE Positive'
  <2>1. at[d] \in Dir
    BY <1>2 DEF TypeOK, Send, Goto, HasSegment
  <2>2. Here(d).count \in Nat /\ queue' = Append(queue, Here(d).count) /\ num' = num
    BY <1>2, <2>1 DEF TypeOK, Send, Here, totals, QueueThere
  <2>3. \A i \in 1 .. Len(queue) : i \in DOMAIN queue' /\ queue'[i] = queue[i]
    BY <1>0, <2>2
  <2> QED
    BY <1>0, <2>2, <2>3 DEF Positive
<1>3. CASE Receive
  <2>1. queue # <<>> /\ num' = num + Head(queue) /\ queue' = Tail(queue)
    BY <1>3 DEF Receive
  <2>2. Head(queue) \in Nat /\ Head(queue) = queue[1] /\ Len(queue') = Len(queue) - 1
          /\ DOMAIN queue' = 1 .. Len(queue') /\ \A i \in 1 .. Len(queue') : queue'[i] = queue[i + 1]
    BY <1>0, <2>1, HeadTailProperties, LenProperties
  <2>3. CASE num > 0
    <3>1. num' > 0
      BY <1>0, <2>1, <2>2, <2>3
    <3> QED
      BY <3>1 DEF Positive
  <2>4. ASSUME NEW i \in DOMAIN queue, queue[i] > 0 PROVE Positive'
    <3>1. CASE i = 1
      <4>1. num' > 0
        BY <1>0, <2>1, <2>2, <2>4, <3>1
      <4> QED
        BY <4>1 DEF Positive
    <3>2. CASE i # 1
      <4>1. i - 1 \in DOMAIN queue' /\ queue'[i - 1] = queue[i]
        BY <1>0, <2>2, <2>4, <3>2
      <4> QED
        BY <2>4, <4>1 DEF Positive
    <3> QED
      BY <3>1, <3>2
  <2> QED
    BY <2>3, <2>4 DEF Positive
<1>4. CASE Finish
  <2>1. num' = num + found[Root] /\ queue' = queue /\ found[Root] \in Nat
    BY <1>4, Members DEF Finish, TypeOK
  <2>2. num > 0 => num' > 0
    BY <1>0, <2>1
  <2> QED
    BY <2>1, <2>2 DEF Positive
<1>5. ASSUME NEW f \in File, Thread(f) PROVE UNCHANGED <<num, queue>>
  BY <1>5 DEF Thread, Acquire, FindMatch, Release, totals
<1>6. ASSUME NEW d \in Dir, Process(d), ~Send(d) PROVE UNCHANGED <<num, queue>>
  BY <1>6 DEF Process, Create, Fork, SavePid, Join, Get, Attach, AttachFails, Load, Store, Raise, Released,
              Find, FindNone, Answer, Check, Record, totals
<1>7. ReadHistory \/ Interrupt \/ UNCHANGED vars => UNCHANGED <<num, queue>>
  BY DEF ReadHistory, Interrupt, vars, totals
<1>8. ~ReceiveNone
  BY DEF ReceiveNone
<1> QED
  BY <1>1, <1>2, <1>3, <1>4, <1>5, <1>6, <1>7, <1>8 DEF Next, Main

\* A directory whose files have matches has counted some when its threads are joined.
LEMMA FullCounted ==
  ASSUME TypeOK, Searched, NEW d \in Dir, Matches(d), pc[d] \notin {"unborn", "born", "loop"}
  PROVE  found[d] > 0
<1>1. PICK f \in Files(d) : hits[f] > 0
  BY DEF Matches
<1>2. f \in File /\ Home(f) = d
  BY Children
<1>3. left[f] = 0
  BY <1>1, <1>2 DEF Searched
<1>4. left[f] < hits[f]
  BY <1>1, <1>2, <1>3 DEF TypeOK
<1> QED
  BY <1>2, <1>4 DEF Searched

\* The three stations of what the subdirectories of k have found.
Added(c, k) == pc[c] \in {"raise", "poll"} /\ pc[k] \in Before => seg[at[c]].count > 0
Seen(k) == pc[k] \in {"see", "check", "send"} => seg[at[k]].count > 0
Sent(k) == pc[k] \in {"wait", "receive", "gone"} => Positive
Handing(k) == (\A c \in Subdirs(k) : Added(c, k)) /\ Seen(k) /\ Sent(k)

LEMMA ForkThrough ==
  ASSUME TypeOK, QueueThere, Order, Elsewhere \/ (\E d \in Dir : Fork(d)), [Next]_vars,
         NEW k \in Dir, NEW c \in Subdirs(k), Handing(k)
  PROVE  Added(c, k)' /\ Seen(k)' /\ Sent(k)'
<1>1. Added(c, k) /\ Seen(k) /\ Sent(k) /\ c \in Dir
  BY Children DEF Handing
<1>2. seg' = seg /\ at' = at
  BY ElsewhereSame, ForkSame
<1>3. ASSUME NEW x \in Dir PROVE pc'[x] = pc[x] \/ (pc'[x] = "born" /\ pc[x] = "unborn")
  <2>1. CASE Elsewhere
    BY <2>1, ElsewhereSame
  <2>2. ASSUME NEW d \in Dir, Fork(d) PROVE pc'[x] = pc[x] \/ (pc'[x] = "born" /\ pc[x] = "unborn")
    <3>1. next[d] >= next[d]
      BY DEF TypeOK
    <3> QED
      BY <1>3, <2>2, <3>1, ForkSame DEF Order, Entry
  <2> QED
    BY <2>1, <2>2
<1>4. Added(c, k)'
  BY <1>1, <1>2, <1>3 DEF Added, Before, NotYet
<1>5. Seen(k)'
  BY <1>1, <1>2, <1>3 DEF Seen
<1>6. pc'[k] \in {"wait", "receive", "gone"} => Positive
  BY <1>1, <1>3 DEF Sent
<1>7. Sent(k)'
  BY <1>6, PositiveKept DEF Sent
<1> QED
  BY <1>4, <1>5, <1>7

\* Only the subdirectories of k add to their segment.
LEMMA NoOther ==
  ASSUME TypeOK, Order, Families, NEW k \in Dir, NEW d \in Dir, Store(d), at[d] \in Subdirs(k)
  PROVE  d \in Subdirs(k)
<1>1. pc[d] = "add"
  BY DEF Store, Goto
<1>2. d # Root
  BY <1>1 DEF Order
<1>3. Home(d) \in Dir /\ Family(Home(d)) /\ d \in Subdirs(Home(d))
  BY <1>2, AtHome
<1>4. at[d] \in Subdirs(Home(d))
  BY <1>1, <1>3 DEF Family, Inside
<1>5. Home(d) = k
  BY <1>3, <1>4, Children
<1> QED
  BY <1>3, <1>5

\* What one of them adds is more than nothing.
LEMMA Adds ==
  ASSUME TypeOK, Order, Searched, Families, NEW k \in Dir, AllMatch(k), NEW d \in Dir, Store(d),
         at[d] \in Subdirs(k)
  PROVE  sum[d] + found[d] > 0
<1>1. d \in Subdirs(k)
  BY NoOther
<1>2. Matches(d) /\ pc[d] = "add"
  BY <1>1 DEF AllMatch, Store, Goto
<1>3. found[d] > 0
  BY <1>2, FullCounted
<1> QED
  BY <1>3 DEF TypeOK

LEMMA RunThrough ==
  ASSUME TypeOK, QueueThere, Order, Searched, Families, timely, NEW d \in Dir, Runs(d), [Next]_vars,
         NEW k \in Dir, AllMatch(k), NEW c \in Subdirs(k), Handing(k)
  PROVE  Added(c, k)' /\ Seen(k)' /\ Sent(k)'
<1>1. Added(c, k) /\ Seen(k) /\ Sent(k)
  BY DEF Handing
<1>2. PICK p, q : Goto(d, p, q) /\ Way(d, p, q)
  BY RunsWay
<1>3. pc[d] = p /\ pc'[d] = q /\ \A x \in Dir \ {d} : pc'[x] = pc[x]
  BY <1>2, PcAt
<1>4. c \in Dir /\ c # Root /\ Home(c) = k /\ c # k /\ Family(k)
  BY Children, NotIn DEF Families
<1>5. /\ \A x \in Dir \ {d} : at'[x] = at[x]
      /\ ~Store(d) => \A x \in Dir : seg'[x].count = seg[x].count
      /\ Store(d) => /\ pc[d] = "add" /\ at[d] \in Dir /\ at' = at
                     /\ seg'[at[d]].count = sum[d] + found[d]
                     /\ \A x \in Dir \ {at[d]} : seg'[x] = seg[x]
  BY CountMoves
<1>6. Added(c, k)'
  <2> SUFFICES ASSUME pc'[c] \in {"raise", "poll"}, pc'[k] \in Before
               PROVE  seg'[at'[c]].count > 0
    BY DEF Added
  <2>1. pc[k] \in Before
    <3>1. q \in Before => p \in Before
      BY <1>2 DEF Way, Reads, Before, NotYet, Inside
    <3> QED
      BY <1>3, <3>1
  <2>2. ASSUME Store(d), at[d] \in Subdirs(k) PROVE seg'[at[d]].count > 0
    BY <1>5, <2>2, Adds
  <2>3. CASE Store(d) /\ d = c
    <3>1. at[c] \in Subdirs(k) /\ at' = at
      BY <1>4, <1>5, <2>3 DEF Family, Inside
    <3> QED
      BY <2>2, <2>3, <3>1
  <2>4. CASE ~(Store(d) /\ d = c)
    <3>1. pc[c] \in {"raise", "poll"} /\ at'[c] = at[c]
      <4>1. CASE d # c
        BY <1>3, <1>4, <1>5, <4>1
      <4>2. CASE d = c
        <5>1. p = "raise"
          <6>1. q \in {"raise", "poll"}
            BY <1>3, <4>2
          <6>2. p \in {"add", "raise"}
            BY <1>2, <6>1 DEF Way, Reads
          <6>3. p # "add"
            BY <1>3, <2>4, <4>2, PcAt DEF Runs, Join, SavePid, Get, Attach, AttachFails, Load, Raise, Released, Find,
               FindNone, Answer, Check, Send, Record, ReadHistory, Finish
          <6> QED
            BY <6>2, <6>3
        <5>2. Raise(d)
          BY <1>3, <5>1, PcAt DEF Runs, Join, SavePid, Get, Attach, AttachFails, Load, Store, Released, Find,
             FindNone, Answer, Check, Send, Record, ReadHistory, Finish
        <5> QED
          BY <1>3, <4>2, <5>1, <5>2 DEF Raise
      <4> QED
        BY <4>1, <4>2
    <3>2. seg[at[c]].count > 0
      BY <1>1, <2>1, <3>1 DEF Added
    <3>3. at[c] \in Subdirs(k) /\ at[c] \in Dir
      BY <1>4, <3>1, Children DEF Family, Inside
    <3>4. CASE Store(d) /\ at[d] = at[c]
      BY <2>2, <3>1, <3>3, <3>4
    <3>5. CASE ~(Store(d) /\ at[d] = at[c])
      <4>1. seg'[at[c]].count = seg[at[c]].count
        BY <1>5, <3>3, <3>5
      <4> QED
        BY <3>1, <3>2, <4>1
    <3> QED
      BY <3>4, <3>5
  <2> QED
    BY <2>3, <2>4
<1>7. Seen(k)'
  <2> SUFFICES ASSUME pc'[k] \in {"see", "check", "send"}
               PROVE  seg'[at'[k]].count > 0
    BY DEF Seen
  <2>1. CASE d = k /\ p = "sleep"
    <3>1. q = "see"
      BY <1>2, <1>3, <2>1 DEF Way, Reads
    <3>2. Find(k)
      <4>1. ~FindNone(k)
        BY FindsOne
      <4> QED
        BY <1>3, <2>1, <4>1, PcAt DEF Runs, Join, SavePid, Get, Attach, AttachFails, Load, Store, Raise, Released,
           Answer, Check, Send, Record, ReadHistory, Finish
    <3>3. pc[c] = "poll" /\ Keyed(k) = {at[c]}
      BY <1>3, <1>4, <2>1, <3>2, FamilyThere DEF Find
    <3>4. PICK s \in Keyed(k) : at' = [at EXCEPT ![k] = s]
      BY <3>2 DEF Find
    <3>5. at'[k] = at[c] /\ seg' = seg
      <4>1. s \in Dir /\ s = at[c]
        BY <3>3, <3>4 DEF Keyed
      <4>2. at'[k] = s
        BY <3>4, <4>1, AtAt
      <4> QED
        BY <3>2, <4>1, <4>2 DEF Find
    <3>6. pc[k] \in Before
      BY <1>3, <2>1 DEF Before
    <3> QED
      BY <1>1, <3>3, <3>5, <3>6 DEF Added
  <2>2. CASE ~(d = k /\ p = "sleep")
    <3>1. pc[k] \in {"see", "check", "send"} /\ at'[k] = at[k]
      <4>1. CASE d # k
        BY <1>3, <1>5, <4>1
      <4>2. CASE d = k
        <5>1. p \in {"see", "check"}
          BY <1>2, <1>3, <2>2, <4>2 DEF Way, Reads
        <5>2. Answer(d) \/ Check(d)
          BY <1>3, <5>1, PcAt DEF Runs, Join, SavePid, Get, Attach, AttachFails, Load, Store, Raise, Released, Find,
             FindNone, Send, Record, ReadHistory, Finish
        <5> QED
          BY <1>3, <4>2, <5>1, <5>2 DEF Answer, Check, memory
      <4> QED
        BY <4>1, <4>2
    <3>2. pc[k] \notin Before
      BY <3>1 DEF Before, NotYet, Inside
    <3>3. at[k] \in Subdirs(k) /\ at[k] \in Dir
      BY <1>4, <3>1, Children DEF Family
    <3>4. ~(Store(d) /\ at[d] = at[k])
      <4>1. Store(d) /\ at[d] = at[k] => d \in Subdirs(k)
        BY <3>3, NoOther
      <4>2. d \in Subdirs(k) => pc[d] # "add"
        BY <1>4, <3>2 DEF Family, Adding
      <4> QED
        BY <1>5, <4>1, <4>2
    <3>5. seg'[at[k]].count = seg[at[k]].count
      BY <1>5, <3>3, <3>4
    <3> QED
      BY <1>1, <3>1, <3>5 DEF Seen
  <2> QED
    BY <2>1, <2>2
<1>8. Sent(k)'
  <2> SUFFICES ASSUME pc'[k] \in {"wait", "receive", "gone"}
               PROVE  Positive'
    BY DEF Sent
  <2>1. CASE pc[k] \in {"wait", "receive", "gone"}
    BY <1>1, <2>1, PositiveKept DEF Sent
  <2>2. CASE pc[k] \notin {"wait", "receive", "gone"}
    <3>1. d = k /\ p = "send"
      BY <1>2, <1>3, <2>2 DEF Way, Reads
    <3>2. Send(k)
      BY <1>3, <3>1, PcAt DEF Runs, Join, SavePid, Get, Attach, AttachFails, Load, Store, Raise, Released, Find,
         FindNone, Answer, Check, Record, ReadHistory, Finish
    <3>3. seg[at[k]].count > 0
      BY <1>1, <1>3, <3>1 DEF Seen
    <3>4. at[k] \in Dir
      BY <1>3, <3>1 DEF TypeOK, HasSegment
    <3>5. Here(k).count \in Nat /\ Here(k).count > 0 /\ queue' = Append(queue, Here(k).count) /\ queue \in Seq(Nat)
      BY <3>2, <3>3, <3>4 DEF TypeOK, Send, Here, QueueThere
    <3>6. Len(queue) + 1 \in DOMAIN queue' /\ queue'[Len(queue) + 1] = Here(k).count
      BY <3>5
    <3> QED
      BY <3>5, <3>6 DEF Positive
  <2> QED
    BY <2>1, <2>2
<1> QED
  BY <1>6, <1>7, <1>8

LEMMA ThroughKept ==
  ASSUME TypeOK, QueueThere, Order, Searched, Counted, Families, Through, timely, [Next]_vars, Live'
  PROVE  Through'
<1>1. ~Interrupt
  BY InterruptEnds DEF Order, RootPlace
<1>2. hits' = hits
  BY InputSame
<1>3. ASSUME NEW k \in Dir, AllMatch(k), NEW c \in Subdirs(k)
      PROVE  Added(c, k)' /\ Seen(k)' /\ Sent(k)'
  <2>1. Handing(k)
    BY <1>3 DEF Through, Handing, Added, Seen, Sent
  <2>2. CASE Elsewhere \/ \E d \in Dir : Fork(d)
    BY <1>3, <2>1, <2>2, ForkThrough
  <2>3. CASE \E d \in Dir : Runs(d)
    BY <1>3, <2>1, <2>3, RunThrough
  <2> QED
    BY <1>1, <2>2, <2>3, Kinds
<1>4. \A k \in Dir : AllMatch(k)' => AllMatch(k)
  BY <1>2 DEF AllMatch, Matches
<1>5. pc'[Root] = "gone" /\ Matches(Root)' => num' > 0
  <2> SUFFICES ASSUME pc'[Root] = "gone", Matches(Root)
               PROVE  num' > 0
    BY <1>2 DEF Matches
  <2>1. CASE Finish
    <3>1. found[Root] > 0
      BY <2>1, Members, FullCounted DEF Finish, Goto
    <3>2. found[Root] \in Nat /\ num \in Nat /\ num' = num + found[Root]
      BY <2>1, Members DEF TypeOK, Finish
    <3> QED
      BY <3>1, <3>2
  <2>2. CASE ~Finish
    <3>1. pc[Root] = "gone"
      <4>1. ASSUME NEW d \in Dir, Fork(d) PROVE pc'[Root] = pc[Root]
        BY <4>1, ForkSame, Members
      <4>2. Elsewhere => pc'[Root] = pc[Root]
        BY ElsewhereSame
      <4>3. ASSUME NEW d \in Dir, Runs(d) PROVE pc'[Root] = pc[Root]
        <5>1. PICK p, q : Goto(d, p, q) /\ Way(d, p, q)
          BY <4>3, RunsWay
        <5>2. pc[d] = p /\ pc'[d] = q /\ \A x \in Dir \ {d} : pc'[x] = pc[x]
          BY <5>1, PcAt
        <5>3. d # Root
          <6> SUFFICES ASSUME d = Root
                       PROVE  FALSE
            OBVIOUS
          <6>1. p = "receive"
            BY <5>1, <5>2 DEF Way, Reads
          <6> QED
            BY <2>2, <4>3, <5>2, <6>1, PcAt DEF Runs, Join, SavePid, Get, Attach, AttachFails, Load, Store, Raise, Released, Find,
               FindNone, Answer, Check, Send, Record, ReadHistory
        <5> QED
          BY <5>2, <5>3, Members
      <4> QED
        BY <1>1, <4>1, <4>2, <4>3, Kinds
    <3>2. num > 0
      BY <3>1 DEF Through
    <3>3. num' = num
      <4>1. ASSUME NEW f \in File, Thread(f) PROVE num' = num
        BY <4>1 DEF Thread, Acquire, FindMatch, Release, totals
      <4>2. ASSUME NEW d \in Dir, Process(d) PROVE num' = num
        BY <4>2 DEF Process, Create, Fork, SavePid, Join, Get, Attach, AttachFails, Load, Store, Raise, Released,
                    Find, FindNone, Answer, Check, Send, Record, totals
      <4>3. ~Receive
        BY <3>1 DEF Receive
      <4>4. ReadHistory \/ UNCHANGED vars => num' = num
        BY DEF ReadHistory, vars, totals
      <4>5. ~ReceiveNone
        BY DEF ReceiveNone
      <4> QED
        BY <1>1, <2>2, <4>1, <4>2, <4>3, <4>4, <4>5 DEF Next, Main
    <3> QED
      BY <3>2, <3>3
  <2> QED
    BY <2>1, <2>2
<1>6. ASSUME NEW k \in Dir, AllMatch(k)'
      PROVE  /\ \A c \in Subdirs(k) :
                  pc'[c] \in {"raise", "poll"} /\ pc'[k] \in Before => seg'[at'[c]].count > 0
             /\ pc'[k] \in {"see", "check", "send"} => seg'[at'[k]].count > 0
             /\ pc'[k] \in {"wait", "receive", "gone"} => Positive'
  <2>1. AllMatch(k)
    BY <1>4, <1>6
  <2>2. PICK c \in Subdirs(k) : TRUE
    BY <2>1 DEF AllMatch
  <2>3. Seen(k)' /\ Sent(k)'
    BY <1>3, <2>1, <2>2
  <2>4. \A x \in Subdirs(k) : Added(x, k)'
    BY <1>3, <2>1
  <2> QED
    BY <2>3, <2>4 DEF Added, Seen, Sent
<1> QED
  BY <1>5, <1>6 DEF Through
---------------------------------------------------------------------------
(* The theorems *)

LEMMA NobodyYet ==
  ASSUME Init
  PROVE  /\ \A d \in Dir : pc[d] = IF d = Root THEN "loop" ELSE "unborn"
         /\ \A d \in Dir : next[d] = 1 /\ found[d] = 0 /\ seg[d] = NoSegment /\ at[d] = None /\ sum[d] = 0
         /\ \A f \in File : th[f] = "none" /\ left[f] = hits[f]
BY DEF Init

LEMMA InitCounts == Init => Order /\ Counted /\ Searched /\ Empty /\ Told
<1> SUFFICES ASSUME Init
             PROVE  Order /\ Counted /\ Searched /\ Empty /\ Told
  OBVIOUS
<1>1. Order
  BY NobodyYet, Places, Members DEF Order
<1>2. Senders = {} /\ Recorders = {}
  BY NobodyYet DEF Senders, Recorders
<1>3. Counted
  <2>1. Cardinality(Senders) = 0 /\ Cardinality(Recorders) = 0 /\ pc[Root] = "loop"
    BY <1>2, NobodyYet, Members, FS_EmptySet
  <2>2. queue = <<>> /\ Len(queue) = 0 /\ got = 0 /\ history = 0
    BY DEF Init
  <2> QED
    BY <2>1, <2>2 DEF Counted
<1>4. Searched
  <2>1. \A f \in File : left[f] = hits[f] /\ hits[f] \in Nat
    BY NobodyYet, InitType DEF TypeOK
  <2> QED
    BY <2>1, NobodyYet DEF Searched
<1>5. Empty
  BY NobodyYet DEF Empty, Init, NoSegment
<1>6. Told
  BY DEF Told, Init
<1> QED
  BY <1>1, <1>3, <1>4, <1>5, <1>6

LEMMA InitFamilies == Init => Families /\ Through
<1> SUFFICES ASSUME Init
             PROVE  Families /\ Through
  OBVIOUS
<1>1. \A k \in Dir : Keyed(k) = {}
  BY NobodyYet, KeyIsThere DEF Keyed, NoSegment
<1>2. \A d \in Dir : pc[d] \in NotYet /\ pc[d] \in Before
  BY NobodyYet DEF NotYet, Before
<1>3. \A d \in Dir : pc[d] \notin Inside \cup {"see", "check", "send", "wait", "receive", "gone", "failed"}
  BY NobodyYet DEF Inside
<1>4. ASSUME NEW k \in Dir PROVE Family(k)
  <2>1. \A c \in Subdirs(k) : c \in Dir
    BY Children
  <2> QED
    BY <1>1, <1>2, <1>3, <2>1, NobodyYet DEF Family
<1>5. Families
  <2>1. \A s \in Dir : seg[s].key # Reaper
    BY NobodyYet, KeyIsThere DEF NoSegment
  <2> QED
    BY <1>3, <1>4, <2>1, Members DEF Families
<1>6. Through
  <2>1. \A d \in Dir : pc[d] \notin {"raise", "poll", "see", "check", "send", "wait", "receive", "gone"}
    BY NobodyYet
  <2> QED
    BY <2>1, Members, Children DEF Through
<1> QED
  BY <1>5, <1>6

LEMMA InitInv == Init => IInv
BY InitType, InitCounts, InitFamilies DEF IInv

LEMMA StepInv == IInv /\ [Next]_vars => IInv'
<1> SUFFICES ASSUME IInv, [Next]_vars
             PROVE  IInv'
  OBVIOUS
<1>1. TypeOK /\ Empty /\ Told /\ RootPlace
  BY DEF IInv, RootPlace, Order, Live
<1>2. TypeOK'
  BY <1>1, StepType
<1>3. Empty'
  BY <1>1, EmptyKept
<1>4. Live' => Live
  BY <1>1, DeadStays
<1>5. Live' => Order' /\ Counted' /\ Searched'
  BY <1>1, <1>4, OrderKept, CountedKept, SearchedKept DEF IInv
<1>6. Calm' => Families' /\ (QueueThere' => Through')
  <2> SUFFICES ASSUME Calm'
               PROVE  Families' /\ (QueueThere' => Through')
    OBVIOUS
  <2>1. Live' /\ Live /\ timely
    BY <1>4, InputSame DEF Calm
  <2>2. Families /\ Order /\ Counted /\ Searched /\ (QueueThere => Through)
    BY <2>1 DEF IInv, Calm
  <2>3. QueueThere' => QueueThere
    BY InputSame
  <2>4. Families'
    BY <1>1, <2>1, <2>2, FamiliesKept
  <2>5. QueueThere => Through'
    BY <1>1, <2>1, <2>2, ThroughKept
  <2> QED
    BY <2>3, <2>4, <2>5
<1>7. Told'
  BY <1>1, ToldKept
<1> QED
  BY <1>2, <1>3, <1>5, <1>6, <1>7 DEF IInv

\* In a timely run nothing is left at the end.
LEMMA AtTheEnd ==
  ASSUME IInv, pc[Root] = "gone", timely
  PROVE  (\A d \in Dir : pc[d] = "gone") /\ queue = <<>>
<1>1. TypeOK /\ Order /\ Counted /\ Families
  BY DEF IInv, Calm, Live
<1>2. \A d \in Dir : pc[d] = "gone"
  BY <1>1, AllGone
<1>3. CASE QueueThere
  <2>1. Senders = Recorders \cup {Root} /\ Root \notin Recorders
    BY <1>2, <1>3, Members DEF Senders, Recorders, QueueThere
  <2>2. Cardinality(Senders) = Cardinality(Recorders) + 1
    BY <2>1, CountTypes, FS_AddElement
  <2>3. got = Cardinality(Recorders) + 1 /\ Len(queue) + got = Cardinality(Senders)
    BY <1>1, <1>3 DEF Counted, Families
  <2>4. Len(queue) = 0 /\ queue \in Seq(Nat)
    <3>1. Len(queue) \in Nat /\ Cardinality(Recorders) \in Nat /\ queue \in Seq(Nat)
      BY <1>1, CountTypes, LenProperties DEF TypeOK
    <3> QED
      BY <2>2, <2>3, <3>1
  <2>5. queue = <<>>
    BY <2>4, EmptySeq
  <2> QED
    BY <1>2, <2>5
<1>4. CASE ~QueueThere
  BY <1>1, <1>2, <1>4 DEF Counted
<1> QED
  BY <1>3, <1>4

LEMMA InvFoundRight == IInv => FoundRight
<1> SUFFICES ASSUME IInv, QueueThere
             PROVE  /\ verdict = "found" => \E d \in Dir : Matches(d)
                    /\ verdict = "never" /\ pc[Root] = "gone" /\ timely =>
                         /\ ~Matches(Root)
                         /\ \A d \in Dir : Matches(d) => \E c \in Subdirs(Home(d)) : ~Matches(c)
  BY DEF FoundRight
<1>1. ASSUME verdict = "found" PROVE \E d \in Dir : Matches(d)
  <2>1. ~Barren
    BY <1>1 DEF IInv, Told
  <2>2. PICK f \in File : hits[f] # 0
    BY <2>1 DEF Barren
  <2>3. hits[f] > 0
    BY <2>2 DEF IInv, TypeOK
  <2>4. Home(f) \in Dir /\ f \in Files(Home(f))
    BY Children
  <2> QED
    BY <2>3, <2>4 DEF Matches
<1>2. ASSUME verdict = "never", pc[Root] = "gone", timely
      PROVE  /\ ~Matches(Root)
             /\ \A d \in Dir : Matches(d) => \E c \in Subdirs(Home(d)) : ~Matches(c)
  <2>1. TypeOK /\ Counted /\ Through
    BY <1>2 DEF IInv, Live, Calm
  <2>2. ~(num > 0)
    <3>1. verdict = Verdict(num)
      BY <1>2, <2>1 DEF Counted
    <3> QED
      BY <1>2, <3>1 DEF Verdict
  <2>3. ~Matches(Root)
    BY <1>2, <2>1, <2>2 DEF Through
  <2>4. ASSUME NEW d \in Dir, Matches(d), \A c \in Subdirs(Home(d)) : Matches(c) PROVE FALSE
    <3>1. Home(d) \in Dir /\ d \in Subdirs(Home(d))
      BY <2>3, <2>4, Children
    <3>2. AllMatch(Home(d))
      BY <2>4, <3>1 DEF AllMatch
    <3>3. pc[Home(d)] = "gone" /\ queue = <<>>
      BY <1>2, <3>1, AtTheEnd
    <3>4. Positive
      BY <2>1, <3>1, <3>2, <3>3 DEF Through
    <3>5. DOMAIN queue = {}
      BY <3>3
    <3> QED
      BY <2>2, <3>4, <3>5 DEF Positive
  <2> QED
    BY <2>3, <2>4
<1> QED
  BY <1>1, <1>2

LEMMA InvClean == IInv => Clean
<1> SUFFICES ASSUME IInv
             PROVE  Clean
  OBVIOUS
<1>1. ASSUME pc[Root] = "receive", QueueThere PROVE Len(queue) + got >= need
  <2>1. TypeOK /\ Order /\ Counted
    BY <1>1 DEF IInv, Live
  <2>2. Recorders \cup {Root} \subseteq Senders
    BY <1>1, Members DEF Senders, Recorders, QueueThere
  <2>3. Cardinality(Recorders \cup {Root}) = Cardinality(Recorders) + 1
    <3>1. Root \notin Recorders
      BY DEF Recorders
    <3> QED
      BY <3>1, CountTypes, FS_AddElement
  <2>4. Cardinality(Recorders) + 1 <= Cardinality(Senders)
    BY <2>2, <2>3, CountTypes, FS_Subset
  <2>5. need <= Cardinality(Recorders) + 1 /\ Len(queue) + got = Cardinality(Senders) /\ need \in Nat
    BY <1>1, <2>1 DEF Counted, TypeOK
  <2> QED
    BY <2>4, <2>5, CountTypes
<1>2. ASSUME pc[Root] = "gone", timely
      PROVE  (\A d \in Dir : pc[d] = "gone") /\ queue = <<>> /\ history = 0 /\ \A d \in Dir : seg[d].key = None
  <2>1. TypeOK /\ Families
    BY <1>2 DEF IInv, Calm, Live
  <2>2. (\A d \in Dir : pc[d] = "gone") /\ queue = <<>>
    BY <1>2, AtTheEnd
  <2>3. \A k \in Dir : Keyed(k) = {}
    BY <2>1, <2>2 DEF Families, Family
  <2>4. ASSUME NEW d \in Dir PROVE seg[d].key = None
    <3>1. seg[d].key \in Dir \cup {None, Reaper} /\ seg[d].key # Reaper
      BY <2>1 DEF TypeOK, Families
    <3>2. seg[d].key \notin Dir
      BY <2>3 DEF Keyed
    <3> QED
      BY <3>1, <3>2
  <2> QED
    BY <1>2, <2>1, <2>2, <2>4 DEF Families
<1> QED
  BY <1>1, <1>2 DEF Clean

\* The invariant: types; until SIGINT what the number of messages is, whatever the sleeps;
\* and in a timely run the course of every segment and of what is in it.
THEOREM Invariance == Spec => []IInv
<1>1. Init => IInv
  BY InitInv
<1>2. IInv /\ [Next]_vars => IInv'
  BY StepInv
<1> QED
  BY <1>1, <1>2, PTL DEF Spec

\* Every variable keeps its type, and who uses a segment is attached to one, interrupted or not.
THEOREM TypeCorrect == Spec => []TypeOK
<1>1. IInv => TypeOK
  BY DEF IInv
<1> QED
  BY <1>1, Invariance, PTL

\* detectNumberOfTargetWord, over any tree: with a queue "found" is always true, interrupted or
\* not, and after a timely run that nobody interrupted "Never found" is true of the root and of
\* every directory whose siblings have matches if it has.
THEOREM VerdictIsRight == Spec => []FoundRight
<1> QED
  BY InvFoundRight, Invariance, PTL

\* Over any tree, flat ones included: if there is a queue readFromQueue gets every message it
\* waits for, and after a timely run no process, message, segment or line of history.txt is left.
THEOREM NothingIsLeft == Spec => []Clean
<1> QED
  BY InvClean, Invariance, PTL
---------------------------------------------------------------------------
(* Nobody waits for ever *)

\* Where a parent is still ahead of its children, the segment that all of them have added to
\* says so; from its answer on it is answered, for whoever polls.
Summing == {"attach", "lower", "add", "raise"}
Turn(k) ==
  /\ pc[k] \in Before \cup {"see"} /\ (\A c \in Subdirs(k) : pc[c] \notin Summing) =>
       \A s \in Keyed(k) : seg[s].flag = 0
  /\ pc[k] \in {"check", "send"} => seg[at[k]].flag = 1
  /\ pc[k] \notin Before \cup {"see"} =>
       \A c \in Subdirs(k) : pc[c] = "poll" => seg[at[c]].flag = 1

\* An entry that was handed out has its process or thread, and all are before the joins.
Handed ==
  /\ \A d \in Dir : \A i \in DOMAIN Entries[d] : i < next[d] =>
       /\ Entries[d][i] \in Dir => pc[Entries[d][i]] # "unborn"
       /\ Entries[d][i] \in File => th[Entries[d][i]] # "none"
  /\ \A d \in Dir : pc[d] \notin {"unborn", "born", "loop"} => next[d] > Len(Entries[d])
  /\ \A f \in File : th[f] # "dead"

\* The semaphore is free or a thread has it, and no message is received too many.
WaitInv ==
  /\ Live => /\ Handed
             /\ sem = 0 => \E f \in File : th[f] = "scan"
             /\ pc[Root] \notin {"receive", "gone"} => got = 0
             /\ pc[Root] = "receive" => got <= need
  /\ Calm => \A k \in Dir : Subdirs(k) # {} => Turn(k)

\* What the actions of a thread, or of a process in a timely run, wait for is there.
ThreadReady(f) == th[f] = "scan" \/ (th[f] = "ready" /\ sem > 0)
ProcessReady(d) ==
  \/ pc[d] \in {"born", "get", "attach", "lower", "add", "raise", "send"}
  \/ pc[d] = "loop" /\ (next[d] <= Len(Entries[d]) \/ \A f \in Files(d) : th[f] = "end")
  \/ pc[d] \in {"poll", "check"} /\ Here(d).flag = 1
  \/ pc[d] = "see" /\ Here(d).flag = 0
  \/ pc[d] = "sleep" /\ \A c \in Subdirs(d) : pc[c] \notin Adding
  \/ pc[d] = "wait" /\ \A c \in Subdirs(d) : Ended(c)
  \/ pc[d] = "receive" /\ (got = need \/ (got < need /\ (QueueThere => queue # <<>>)))

\* In a timely run the main process has ended, or some thread or process can go on.
MovesOn ==
  timely =>
    \/ pc[Root] \in {"gone", "killed"}
    \/ (\E f \in File : ThreadReady(f)) \/ (\E d \in Dir : ProcessReady(d))

\* What a step does to the turn of a family whose segment it leaves in use as it is.
LEMMA SameTurn ==
  ASSUME NEW k \in Dir, Family(k), Turn(k), Keyed(k)' \subseteq Keyed(k),
         \A s \in Subdirs(k) : seg'[s].flag = seg[s].flag,
         pc'[k] \in Before \cup {"see"} <=> pc[k] \in Before \cup {"see"},
         pc'[k] \in {"check", "send"} => pc[k] \in {"check", "send"} /\ at'[k] = at[k],
         \A c \in Subdirs(k) : /\ pc'[c] \in Summing <=> pc[c] \in Summing
                               /\ pc'[c] = "poll" => pc[c] = "poll" /\ at'[c] = at[c]
  PROVE  Turn(k)'
<1>1. \A s \in Keyed(k) : s \in Subdirs(k)
  BY DEF Family
<1>2. pc'[k] \in Before \cup {"see"} /\ (\A c \in Subdirs(k) : pc'[c] \notin Summing) =>
        \A s \in Keyed(k)' : seg'[s].flag = 0
  BY <1>1 DEF Turn
<1>3. pc'[k] \in {"check", "send"} => seg'[at'[k]].flag = 1
  <2>1. pc[k] \in {"check", "send"} => at[k] \in Subdirs(k)
    BY DEF Family
  <2> QED
    BY <2>1 DEF Turn
<1>4. ASSUME pc'[k] \notin Before \cup {"see"}, NEW c \in Subdirs(k), pc'[c] = "poll"
      PROVE  seg'[at'[c]].flag = 1
  <2>1. pc[c] = "poll" /\ at'[c] = at[c] /\ at[c] \in Subdirs(k)
    BY <1>4 DEF Family, Inside
  <2> QED
    BY <1>4, <2>1 DEF Turn
<1> QED
  BY <1>2, <1>3, <1>4 DEF Turn

\* A process that leaves the segments alone, and neither adds nor polls.
LEMMA AloofTurn ==
  ASSUME \A k \in Dir : Family(k), \A k \in Dir : Subdirs(k) # {} => Turn(k), seg' = seg,
         NEW d \in Dir, \A x \in Dir \ {d} : pc'[x] = pc[x] /\ at'[x] = at[x],
         Subdirs(d) # {} => (pc'[d] \in Before \cup {"see"} <=> pc[d] \in Before \cup {"see"}),
         pc'[d] \in {"check", "send"} => pc[d] \in {"check", "send"} /\ at'[d] = at[d],
         pc[d] \notin Summing \cup {"poll"}, pc'[d] \notin Summing \cup {"poll"}
  PROVE  \A k \in Dir : Subdirs(k) # {} => Turn(k)'
<1> SUFFICES ASSUME NEW k \in Dir, Subdirs(k) # {}
             PROVE  Turn(k)'
  OBVIOUS
<1>1. Keyed(k)' = Keyed(k) /\ \A s \in Subdirs(k) : seg'[s].flag = seg[s].flag
  BY DEF Keyed
<1>2. \A c \in Subdirs(k) : /\ pc'[c] \in Summing <=> pc[c] \in Summing
                            /\ pc'[c] = "poll" => pc[c] = "poll" /\ at'[c] = at[c]
  BY Children
<1>3. /\ pc'[k] \in Before \cup {"see"} <=> pc[k] \in Before \cup {"see"}
      /\ pc'[k] \in {"check", "send"} => pc[k] \in {"check", "send"} /\ at'[k] = at[k]
  OBVIOUS
<1> QED
  BY <1>1, <1>2, <1>3, SameTurn

\* A segment whose flag or key changes is that of one family: the turn of the others stays,
\* be the process their child or their parent.
LEMMA OtherTurn ==
  ASSUME Families, NEW k \in Dir, Turn(k), NEW h \in Dir \ {k}, NEW s \in Subdirs(h),
         \A x \in Dir \ {s} : seg'[x] = seg[x], seg'[s].key \in {seg[s].key, h, None},
         NEW d \in Dir, \A x \in Dir \ {d} : pc'[x] = pc[x] /\ at'[x] = at[x],
         d \in Subdirs(k) => /\ pc[d] \notin Summing \cup {"poll"}
                             /\ pc'[d] \notin Summing \cup {"poll"},
         d = k => pc[d] \in Before \cup {"see"} /\ pc'[d] \in Before \cup {"see"}
  PROVE  Turn(k)'
<1>1. Keyed(k)' = Keyed(k) /\ \A c \in Subdirs(k) : seg'[c] = seg[c]
  BY OtherFamily
<1>2. \A c \in Subdirs(k) : /\ pc'[c] \in Summing <=> pc[c] \in Summing
                            /\ pc'[c] = "poll" => pc[c] = "poll" /\ at'[c] = at[c]
  BY Children
<1>3. \A p \in Before \cup {"see"} : p \notin {"check", "send"}
  BY DEF Before, NotYet, Inside
<1>4. /\ pc'[k] \in Before \cup {"see"} <=> pc[k] \in Before \cup {"see"}
      /\ pc'[k] \in {"check", "send"} => pc[k] \in {"check", "send"} /\ at'[k] = at[k]
  BY <1>3
<1>5. Family(k)
  BY DEF Families
<1> QED
  BY <1>1, <1>2, <1>4, <1>5, SameTurn

\* A child is in one family, and at work on its segment in one.
LEMMA TurnChild ==
  ASSUME TypeOK, Order, Families, \A k \in Dir : Subdirs(k) # {} => Turn(k), NEW d \in Dir,
         Get(d) \/ Attach(d) \/ Load(d) \/ Store(d) \/ Raise(d)
  PROVE  \A k \in Dir : Subdirs(k) # {} => Turn(k)'
<1> DEFINE h == Home(d)
<1>1. /\ pc[d] \in {"get", "attach", "lower", "add", "raise"}
      /\ pc'[d] \in {"attach", "lower", "add", "raise", "poll"}
      /\ \A x \in Dir \ {d} : pc'[x] = pc[x]
  BY PcAt DEF Get, Attach, Load, Store, Raise
<1>2. d # Root
  BY <1>1 DEF Order
<1>3. h \in Dir /\ d \in Subdirs(h) /\ h # d /\ Family(h) /\ pc[h] \in Before
  BY <1>1, <1>2, AtHome DEF Adding
<1>4. \E s \in Subdirs(h) : /\ \A x \in Dir \ {s} : seg'[x] = seg[x]
                            /\ seg'[s].key \in {seg[s].key, h, None}
                            /\ Raise(d) => Keyed(h) = {s} /\ seg'[s].flag = 0 /\ seg'[s].key = seg[s].key
  <2>1. CASE Get(d)
    <3>1. PICK s \in Subdirs(h) : seg' = [seg EXCEPT ![s].key = h]
      BY <1>2, <2>1, GetFamily
    <3>2. s \in Dir /\ ~Raise(d)
      BY <1>3, <2>1, Children, PcAt DEF Get, Raise, Goto
    <3>3. seg'[s].key = h /\ \A x \in Dir \ {s} : seg'[x] = seg[x]
      BY <1>3, <3>1, <3>2, KeyField
    <3> QED
      BY <3>2, <3>3
  <2>2. CASE Attach(d) \/ Load(d) \/ Store(d) \/ Raise(d)
    <3> DEFINE s == at[d]
    <3>1. pc[d] \in Inside
      BY <2>2 DEF Attach, Load, Store, Raise, Goto, Inside
    <3>2. s \in Subdirs(h) /\ Keyed(h) = {s} /\ s \in Dir
      BY <1>3, <3>1, Children DEF Family
    <3> HIDE DEF s
    <3>3. CASE Load(d)
      <4>1. seg' = [seg EXCEPT ![s].flag = -1] /\ ~Raise(d)
        BY <3>3 DEF Load, Raise, Goto, s
      <4> QED
        BY <3>2, <4>1, FlagField
    <3>4. CASE Store(d)
      <4>1. seg' = [seg EXCEPT ![s].count = sum[d] + found[d]] /\ ~Raise(d) /\ sum[d] + found[d] \in Nat
        BY <3>4 DEF Store, Raise, Goto, TypeOK, s
      <4> QED
        BY <3>2, <4>1, CountField
    <3>5. CASE Raise(d)
      <4>1. seg' = [seg EXCEPT ![s].flag = 0]
        BY <3>5 DEF Raise, s
      <4>2. seg'[s].key = seg[s].key /\ seg'[s].flag = 0 /\ \A x \in Dir \ {s} : seg'[x] = seg[x]
        BY <3>2, <4>1, FlagField
      <4> QED
        BY <3>2, <4>2
    <3>6. CASE Attach(d)
      <4>1. seg' = seg /\ ~Raise(d)
        BY <3>6 DEF Attach, Raise, Goto, memory
      <4> QED
        BY <3>2, <4>1
    <3> QED
      BY <2>2, <3>3, <3>4, <3>5, <3>6
  <2> QED
    BY <2>1, <2>2
<1>5. PICK s \in Subdirs(h) : /\ \A x \in Dir \ {s} : seg'[x] = seg[x]
                              /\ seg'[s].key \in {seg[s].key, h, None}
                              /\ Raise(d) => Keyed(h) = {s} /\ seg'[s].flag = 0 /\ seg'[s].key = seg[s].key
  BY <1>4
<1>6. \A x \in Dir \ {d} : at'[x] = at[x]
  <2>1. CASE Get(d)
    <3>1. PICK t \in Subdirs(h) : at' = [at EXCEPT ![d] = t]
      BY <1>2, <2>1, GetFamily
    <3> QED
      BY <3>1
  <2> QED
    BY <2>1 DEF Attach, Load, Store, Raise, memory
<1> HIDE DEF h
<1>7. ASSUME NEW k \in Dir \ {h}, Subdirs(k) # {} PROVE Turn(k)'
  <2>1. d \notin Subdirs(k)
    BY <1>3, <1>7, Children
  <2>2. pc[d] \in Before \cup {"see"} /\ pc'[d] \in Before \cup {"see"}
    BY <1>1 DEF Before, NotYet, Inside
  <2>3. Turn(k)
    BY <1>7
  <2> QED
    BY <1>1, <1>3, <1>5, <1>6, <2>1, <2>2, <2>3, OtherTurn
<1>8. Turn(h)'
  <2>1. pc'[h] = pc[h] /\ pc'[h] \in Before
    BY <1>1, <1>3
  <2>2. pc'[h] \notin {"check", "send"}
    BY <2>1 DEF Before, NotYet, Inside
  <2>3. CASE Raise(d)
    <3>1. Keyed(h)' = {s} /\ seg'[s].flag = 0
      <4>1. s \in Dir
        BY <1>3, Children
      <4> QED
        BY <1>3, <1>5, <2>3, <4>1, KeyedSame
    <3> QED
      BY <2>1, <2>2, <3>1 DEF Turn
  <2>4. CASE Get(d) \/ Attach(d) \/ Load(d) \/ Store(d)
    <3>1. pc'[d] \in Summing
      BY <2>4, PcAt DEF Get, Attach, Load, Store, Summing
    <3> QED
      BY <1>3, <2>1, <2>2, <3>1 DEF Turn
  <2> QED
    BY <2>3, <2>4
<1> QED
  BY <1>7, <1>8

LEMMA TurnReleased ==
  ASSUME TypeOK, Order, Families, \A k \in Dir : Subdirs(k) # {} => Turn(k), NEW d \in Dir, Released(d)
  PROVE  \A k \in Dir : Subdirs(k) # {} => Turn(k)'
<1> DEFINE h == Home(d)
           s == at[d]
<1>1. /\ pc[d] = "poll" /\ pc'[d] = IF Subdirs(d) = {} THEN "wait" ELSE "sleep"
      /\ \A x \in Dir \ {d} : pc'[x] = pc[x]
  BY PcAt DEF Released, Reads
<1>2. d # Root
  BY <1>1 DEF Order
<1>3. h \in Dir /\ d \in Subdirs(h) /\ h # d /\ Family(h)
  BY <1>1, <1>2, AtHome
<1>4. s \in Subdirs(h) /\ s \in Dir
  BY <1>1, <1>3, Children DEF Family, Inside
<1>5. \A x \in Dir \ {d} : at'[x] = at[x]
  BY AtAt DEF Released
<1>6. seg' = [seg EXCEPT ![s].key = None]
  BY DEF Released, WithoutKey
<1>7. /\ seg'[s].key = None /\ seg'[s].flag = seg[s].flag /\ \A x \in Dir \ {s} : seg'[x] = seg[x]
  BY <1>4, <1>6, KeyField
<1>8. Keyed(h)' \subseteq Keyed(h)
  BY <1>3, <1>7, KeyIsThere DEF Keyed
<1> HIDE DEF h, s
<1>9. ASSUME NEW k \in Dir \ {h}, Subdirs(k) # {} PROVE Turn(k)'
  <2>1. d \notin Subdirs(k)
    BY <1>3, <1>9, Children
  <2>2. d = k => pc[d] \in Before \cup {"see"} /\ pc'[d] \in Before \cup {"see"}
    BY <1>1, <1>9 DEF Before, Inside
  <2>3. Turn(k)
    BY <1>9
  <2> QED
    BY <1>1, <1>3, <1>4, <1>5, <1>7, <2>1, <2>2, <2>3, OtherTurn
<1>10. Turn(h)'
  <2>1. \A x \in Subdirs(h) : seg'[x].flag = seg[x].flag
    BY <1>3, <1>7, Children
  <2>2. pc'[h] = pc[h] /\ at'[h] = at[h]
    BY <1>1, <1>3, <1>5
  <2>3. \A c \in Subdirs(h) : /\ pc'[c] \in Summing <=> pc[c] \in Summing
                              /\ pc'[c] = "poll" => pc[c] = "poll" /\ at'[c] = at[c]
    <3> SUFFICES ASSUME NEW c \in Subdirs(h)
                 PROVE  /\ pc'[c] \in Summing <=> pc[c] \in Summing
                        /\ pc'[c] = "poll" => pc[c] = "poll" /\ at'[c] = at[c]
      OBVIOUS
    <3>1. c \in Dir
      BY <1>3, Children
    <3>2. CASE c = d
      BY <1>1, <3>2 DEF Summing
    <3>3. CASE c # d
      BY <1>1, <1>5, <3>1, <3>3
    <3> QED
      BY <3>2, <3>3
  <2>4. Turn(h)
    BY <1>3
  <2> QED
    BY <1>3, <1>8, <2>1, <2>2, <2>3, <2>4, SameTurn
<1> QED
  BY <1>9, <1>10

\* The parent answers: whoever polls has its segment.
LEMMA TurnAnswer ==
  ASSUME TypeOK, Order, Families, \A k \in Dir : Subdirs(k) # {} => Turn(k), NEW d \in Dir, Answer(d)
  PROVE  \A k \in Dir : Subdirs(k) # {} => Turn(k)'
<1> DEFINE s == at[d]
<1>1. /\ pc[d] = "see" /\ pc'[d] = "check" /\ \A x \in Dir \ {d} : pc'[x] = pc[x] /\ at'[x] = at[x]
      /\ at' = at
  BY PcAt DEF Answer
<1>2. Family(d)
  BY DEF Families
<1>3. s \in Keyed(d) /\ Keyed(d) = {s} /\ s \in Subdirs(d) /\ s \in Dir
  BY <1>1, <1>2, OneSegment, Children DEF Family
<1>4. seg' = [seg EXCEPT ![s].flag = 1]
  BY DEF Answer, AnswerFlag
<1>5. seg'[s].key = seg[s].key /\ seg'[s].flag = 1 /\ \A x \in Dir \ {s} : seg'[x] = seg[x]
  BY <1>3, <1>4, FlagField
<1>6. pc'[d] \notin Before \cup {"see"} /\ seg'[at'[d]].flag = 1
  BY <1>1, <1>5 DEF Before, NotYet, Inside
<1>7. ASSUME NEW c \in Subdirs(d), pc'[c] = "poll" PROVE seg'[at'[c]].flag = 1
  <2>1. c \in Dir /\ c # d
    BY Children, NotIn
  <2>2. pc[c] = "poll"
    BY <1>1, <1>7, <2>1
  <2>3. Keyed(d) = {at[c]}
    BY <1>1, <1>2, <2>2 DEF Family, Inside
  <2> QED
    BY <1>1, <1>3, <1>5, <2>3
<1>8. Turn(d)'
  BY <1>6, <1>7 DEF Turn
<1> HIDE DEF s
<1>9. ASSUME NEW k \in Dir \ {d}, Subdirs(k) # {} PROVE Turn(k)'
  <2>1. pc[d] \notin Summing \cup {"poll"} /\ pc'[d] \notin Summing \cup {"poll"}
    BY <1>1 DEF Summing
  <2>2. Turn(k)
    BY <1>9
  <2> QED
    BY <1>1, <1>3, <1>5, <2>1, <2>2, OtherTurn
<1> QED
  BY <1>8, <1>9

LEMMA TurnSend ==
  ASSUME TypeOK, Order, Families, \A k \in Dir : Subdirs(k) # {} => Turn(k), NEW d \in Dir, Send(d)
  PROVE  \A k \in Dir : Subdirs(k) # {} => Turn(k)'
<1> DEFINE s == at[d]
<1>1. /\ pc[d] = "send" /\ pc'[d] = "wait" /\ \A x \in Dir \ {d} : pc'[x] = pc[x]
  BY PcAt DEF Send
<1>2. \A x \in Dir \ {d} : at'[x] = at[x]
  BY AtAt DEF Send
<1>3. Family(d)
  BY DEF Families
<1>4. s \in Subdirs(d) /\ s \in Dir
  BY <1>1, <1>3, Children DEF Family
<1>5. seg' = [seg EXCEPT ![s].key = None]
  BY DEF Send, WithoutKey
<1>6. /\ seg'[s].key = None /\ seg'[s].flag = seg[s].flag /\ \A x \in Dir \ {s} : seg'[x] = seg[x]
  BY <1>4, <1>5, KeyField
<1>7. Keyed(d)' \subseteq Keyed(d)
  BY <1>6, KeyIsThere DEF Keyed
<1> HIDE DEF s
<1>8. pc[d] \notin Before \cup {"see", "poll"} /\ pc'[d] \notin Before \cup {"see", "check", "send", "poll"}
      /\ pc[d] \notin Summing /\ pc'[d] \notin Summing
  BY <1>1 DEF Before, NotYet, Inside, Summing
<1>9. ASSUME NEW k \in Dir \ {d}, Subdirs(k) # {} PROVE Turn(k)'
  <2>1. Turn(k)
    BY <1>9
  <2> QED
    BY <1>1, <1>2, <1>4, <1>6, <1>8, <2>1, OtherTurn
<1>10. Turn(d)'
  <2>1. \A x \in Subdirs(d) : seg'[x].flag = seg[x].flag
    BY <1>6, Children
  <2>2. \A c \in Subdirs(d) : pc'[c] = pc[c] /\ at'[c] = at[c]
    BY <1>1, <1>2, Children, NotIn
  <2>3. Turn(d)
    BY <1>4
  <2> QED
    BY <1>3, <1>7, <1>8, <2>1, <2>2, <2>3, SameTurn
<1> QED
  BY <1>9, <1>10

LEMMA TurnsKept ==
  ASSUME TypeOK, Order, Families, timely, [Next]_vars, Live', \A k \in Dir : Subdirs(k) # {} => Turn(k)
  PROVE  \A k \in Dir : Subdirs(k) # {} => Turn(k)'
<1>1. ~Interrupt
  BY InterruptEnds DEF Order, RootPlace
<1>2. \A k \in Dir : Family(k)
  BY DEF Families
<1>3. CASE Elsewhere
  <2>1. UNCHANGED <<pc, seg, at>>
    BY <1>3, ElsewhereSame
  <2>2. \A k \in Dir : Keyed(k)' = Keyed(k)
    BY <2>1 DEF Keyed
  <2> QED
    BY <1>2, <2>1, <2>2, SameTurn
<1>4. ASSUME NEW d \in Dir, Fork(d) PROVE \A k \in Dir : Subdirs(k) # {} => Turn(k)'
  <2> DEFINE e == Entry(d)
  <2>1. /\ next[d] \in DOMAIN Entries[d] /\ e \in Dir \ {Root} /\ seg' = seg /\ at' = at
        /\ pc'[e] = "born" /\ \A x \in Dir \ {e} : pc'[x] = pc[x]
    BY <1>4, ForkSame
  <2>2. pc[e] = "unborn"
    <3>1. next[d] >= next[d]
      BY DEF TypeOK
    <3> QED
      BY <2>1, <3>1 DEF Order, Entry
  <2> HIDE DEF e
  <2>3. /\ pc'[e] \in Before \cup {"see"} /\ pc[e] \in Before \cup {"see"}
        /\ pc'[e] \notin {"check", "send"}
        /\ pc[e] \notin Summing \cup {"poll"} /\ pc'[e] \notin Summing \cup {"poll"}
    BY <2>1, <2>2 DEF Before, NotYet, Summing
  <2> QED
    BY <1>2, <2>1, <2>3, AloofTurn
<1>5. ASSUME NEW d \in Dir, SavePid(d) \/ Join(d) \/ Find(d) \/ Check(d) \/ Record(d)
                            \/ (d = Root /\ ReadHistory) \/ (d = Root /\ Finish)
      PROVE  \A k \in Dir : Subdirs(k) # {} => Turn(k)'
  <2>1. PICK p, q : /\ Goto(d, p, q)
                    /\ \/ p \in {"born", "sleep"} /\ q \in {"loop", "see"}
                       \/ p = "loop" /\ q \in {"sleep", "get"}
                       \/ p = "loop" /\ q = "wait" /\ Subdirs(d) = {}
                       \/ p \in {"wait", "receive"} /\ q \in {"gone", "receive"}
                       \/ p = "check" /\ q = "send" /\ at' = at
    BY <1>5 DEF SavePid, Join, Reads, Find, Check, Record, ReadHistory, Finish, memory
  <2>2. pc[d] = p /\ pc'[d] = q /\ \A x \in Dir \ {d} : pc'[x] = pc[x]
    BY <2>1, PcAt
  <2>3. seg' = seg /\ \A x \in Dir \ {d} : at'[x] = at[x]
    <3>1. CASE Find(d)
      <4>1. PICK s \in Keyed(d) : at' = [at EXCEPT ![d] = s]
        BY <3>1 DEF Find
      <4> QED
        BY <3>1, <4>1 DEF Find, TypeOK
    <3> QED
      BY <1>5, <3>1 DEF SavePid, Join, Check, Record, ReadHistory, Finish, memory
  <2>4. /\ Subdirs(d) # {} => (pc'[d] \in Before \cup {"see"} <=> pc[d] \in Before \cup {"see"})
        /\ pc'[d] \in {"check", "send"} => pc[d] \in {"check", "send"} /\ at'[d] = at[d]
        /\ pc[d] \notin Summing \cup {"poll"} /\ pc'[d] \notin Summing \cup {"poll"}
    BY <2>1, <2>2 DEF Before, NotYet, Inside, Summing
  <2> QED
    BY <1>2, <2>2, <2>3, <2>4, AloofTurn
<1>6. ASSUME NEW d \in Dir, Runs(d) PROVE \A k \in Dir : Subdirs(k) # {} => Turn(k)'
  <2>1. ~FindNone(d)
    BY FindsOne
  <2>2. ~AttachFails(d)
    BY StillThereAt DEF AttachFails, Goto
  <2> QED
    BY <1>5, <1>6, <2>1, <2>2, TurnChild, TurnReleased, TurnAnswer, TurnSend DEF Runs
<1> QED
  BY <1>1, <1>3, <1>4, <1>6, Kinds

\* One thread is inside while the semaphore is taken, and none leaves it taken.
LEMMA SemaphoreKept ==
  ASSUME TypeOK, Order, [Next]_vars, Live', sem = 0 => \E f \in File : th[f] = "scan"
  PROVE  sem' = 0 => \E f \in File : th'[f] = "scan"
<1>1. ~Interrupt
  BY InterruptEnds DEF Order, RootPlace
<1>2. ASSUME NEW f \in File, Acquire(f) \/ FindMatch(f) PROVE th'[f] = "scan"
  BY <1>2 DEF Acquire, FindMatch, TypeOK
<1>3. ASSUME NEW f \in File, Release(f) PROVE sem' # 0
  <2>1. sem' = sem + 1 /\ sem \in Nat
    BY <1>3 DEF Release, TypeOK
  <2> QED
    BY <2>1
<1>4. ASSUME NEW d \in Dir, Create(d) PROVE sem' = sem /\ \A f \in File : th[f] = "scan" => th'[f] = "scan"
  <2>1. /\ next[d] \in DOMAIN Entries[d] /\ Entry(d) \in File
        /\ \A f \in File \ {Entry(d)} : th'[f] = th[f]
    BY <1>4, CreateSame
  <2>2. th[Entry(d)] = "none"
    <3>1. next[d] >= next[d]
      BY DEF TypeOK
    <3> QED
      BY <2>1, <3>1 DEF Order, Entry
  <2> QED
    BY <1>4, <2>1, <2>2 DEF Create
<1>5. ASSUME NEW d \in Dir, Fork(d) PROVE th' = th /\ sem' = sem
  BY <1>5 DEF Fork
<1>6. ASSUME NEW d \in Dir, Runs(d) PROVE th' = th /\ sem' = sem
  BY <1>6, RunsWay
<1>7. CASE Receive \/ ReceiveNone \/ UNCHANGED vars
  <2>1. th' = th /\ sem' = sem
    BY <1>7 DEF Receive, ReceiveNone, vars, thread
  <2> QED
    BY <2>1
<1>8. ASSUME NEW f \in File, Thread(f) PROVE sem' = 0 => \E g \in File : th'[g] = "scan"
  BY <1>2, <1>3, <1>8 DEF Thread
<1>9. CASE Elsewhere
  BY <1>4, <1>7, <1>8, <1>9 DEF Elsewhere
<1> QED
  BY <1>1, <1>5, <1>6, <1>9, Kinds

\* Entries are handed out by their directory alone.
LEMMA HandedKept ==
  ASSUME TypeOK, Order, [Next]_vars, Live', Handed
  PROVE  Handed'
<1>0. ~Interrupt /\ next \in [Dir -> Nat] /\ \A d \in Dir : Len(Entries[d]) \in Nat
  BY InterruptEnds, Sequence DEF Order, RootPlace, TypeOK
<1>1. ASSUME UNCHANGED <<pc, next>>, \A f \in File : th'[f] = th[f] \/ th'[f] \notin {"none", "dead"}
      PROVE  Handed'
  <2>1. ASSUME NEW d \in Dir, NEW i \in DOMAIN Entries[d], i < next'[d]
        PROVE  /\ Entries[d][i] \in Dir => pc'[Entries[d][i]] # "unborn"
               /\ Entries[d][i] \in File => th'[Entries[d][i]] # "none"
    BY <1>1, <2>1 DEF Handed
  <2> QED
    BY <1>1, <2>1 DEF Handed
<1>2. ASSUME NEW f \in File, Thread(f) PROVE Handed'
  <2>1. UNCHANGED <<pc, next>> /\ \A g \in File : th'[g] = th[g] \/ th'[g] \notin {"none", "dead"}
    BY <1>2 DEF Thread, Acquire, FindMatch, Release, TypeOK
  <2> QED
    BY <1>1, <2>1
<1>3. CASE Receive \/ ReceiveNone \/ UNCHANGED vars
  <2>1. UNCHANGED <<pc, next, th>>
    BY <1>3 DEF Receive, ReceiveNone, vars, thread
  <2> QED
    BY <1>1, <2>1
<1>4. ASSUME NEW d \in Dir, Create(d) \/ Fork(d) PROVE Handed'
  <2>1. /\ next[d] \in DOMAIN Entries[d] /\ pc[d] = "loop"
        /\ next'[d] = next[d] + 1 /\ \A x \in Dir \ {d} : next'[x] = next[x]
    BY <1>4, CreateSame, ForkSame
  <2>2. /\ \A x \in Dir : pc'[x] = pc[x] \/ pc'[x] = "born"
        /\ \A f \in File : th'[f] = th[f] \/ th'[f] = "ready"
        /\ Entry(d) \in Dir => pc'[Entry(d)] # "unborn"
        /\ Entry(d) \in File => th'[Entry(d)] # "none"
    <3>1. CASE Create(d)
      BY <3>1, CreateSame, Members
    <3>2. CASE Fork(d)
      BY <3>2, ForkSame, Members
    <3> QED
      BY <1>4, <3>1, <3>2
  <2>3. ASSUME NEW x \in Dir, NEW i \in DOMAIN Entries[x], i < next'[x]
        PROVE  /\ Entries[x][i] \in Dir => pc'[Entries[x][i]] # "unborn"
               /\ Entries[x][i] \in File => th'[Entries[x][i]] # "none"
    <3>1. CASE x = d /\ i = next[d]
      BY <2>2, <3>1 DEF Entry
    <3>2. CASE x # d \/ i # next[d]
      <4>1. i \in Nat
        BY Sequence
      <4>2. i < next[x]
        BY <1>0, <2>1, <2>3, <3>2, <4>1
      <4> QED
        BY <2>2, <4>2 DEF Handed
    <3> QED
      BY <3>1, <3>2
  <2>4. ASSUME NEW x \in Dir, pc'[x] \notin {"unborn", "born", "loop"} PROVE next'[x] > Len(Entries[x])
    <3>1. pc[x] = pc'[x]
      BY <2>2, <2>4
    <3>2. x # d
      BY <2>1, <2>4, <3>1
    <3> QED
      BY <2>1, <2>4, <3>1, <3>2 DEF Handed
  <2> QED
    BY <2>2, <2>3, <2>4 DEF Handed
<1>5. ASSUME NEW d \in Dir, Runs(d) PROVE Handed'
  <2>1. PICK p, q : Goto(d, p, q) /\ Way(d, p, q)
    BY <1>5, RunsWay
  <2>2. pc[d] = p /\ pc'[d] = q /\ \A x \in Dir \ {d} : pc'[x] = pc[x]
    BY <2>1, PcAt
  <2>3. next' = next /\ th' = th
    BY <1>5, RunsWay
  <2>4. q # "unborn"
    BY <2>1 DEF Way, Reads
  <2>5. p = "loop" => next[d] > Len(Entries[d])
    BY <1>5, <2>2 DEF Runs, SavePid, Join, Get, Attach, AttachFails, Load, Store, Raise, Released, Find, FindNone, Answer,
                      Check, Send, Record, ReadHistory, Finish, Goto
  <2>6. q \notin {"unborn", "born", "loop"} => p \notin {"unborn", "born"}
    BY <2>1 DEF Way, Reads
  <2>7. \A x \in Dir : pc'[x] \notin {"unborn", "born", "loop"} => next'[x] > Len(Entries[x])
    BY <2>2, <2>3, <2>5, <2>6 DEF Handed
  <2>8. ASSUME NEW x \in Dir, NEW i \in DOMAIN Entries[x], i < next'[x]
        PROVE  /\ Entries[x][i] \in Dir => pc'[Entries[x][i]] # "unborn"
               /\ Entries[x][i] \in File => th'[Entries[x][i]] # "none"
    BY <2>2, <2>3, <2>4, <2>8 DEF Handed
  <2> QED
    BY <2>3, <2>7, <2>8 DEF Handed
<1> QED
  BY <1>0, <1>2, <1>3, <1>4, <1>5, Kinds DEF Elsewhere

\* Messages are received until there are as many as needed.
LEMMA GotKept ==
  ASSUME TypeOK, Order, [Next]_vars, Live',
         pc[Root] \notin {"receive", "gone"} => got = 0, pc[Root] = "receive" => got <= need
  PROVE  /\ pc'[Root] \notin {"receive", "gone"} => got' = 0
         /\ pc'[Root] = "receive" => got' <= need'
<1>0. ~Interrupt /\ got \in Nat /\ need \in Nat /\ history \in Nat
  BY InterruptEnds DEF Order, RootPlace, TypeOK
<1>1. CASE Receive \/ ReceiveNone
  <2>1. pc' = pc /\ pc[Root] = "receive" /\ got < need /\ got' = got + 1 /\ need' = need
    BY <1>1 DEF Receive, ReceiveNone
  <2> QED
    BY <1>0, <2>1
<1>2. ASSUME UNCHANGED <<need, got>>, pc'[Root] = pc[Root]
      PROVE  /\ pc'[Root] \notin {"receive", "gone"} => got' = 0
             /\ pc'[Root] = "receive" => got' <= need'
  BY <1>2
<1>3. CASE Elsewhere /\ ~Receive /\ ~ReceiveNone
  <2>1. got' = got
    <3>1. ASSUME NEW f \in File, Thread(f) PROVE got' = got
      BY <3>1 DEF Thread, Acquire, FindMatch, Release, totals
    <3>2. ASSUME NEW d \in Dir, Create(d) PROVE got' = got
      BY <3>2 DEF Create, totals
    <3>3. CASE UNCHANGED vars
      BY <3>3 DEF vars, totals
    <3> QED
      BY <1>3, <3>1, <3>2, <3>3 DEF Elsewhere
  <2> QED
    BY <1>2, <1>3, <2>1, ElsewhereSame
<1>4. ASSUME NEW d \in Dir, Fork(d)
      PROVE  UNCHANGED <<need, got>> /\ pc'[Root] = pc[Root]
  BY <1>4, ForkSame, Members
<1>5. CASE ReadHistory
  <2>1. pc[Root] = "wait" /\ pc'[Root] = "receive" /\ need' = history + 1 /\ got' = got
    BY <1>5, Members, PcAt DEF ReadHistory, Needed
  <2> QED
    BY <1>0, <2>1
<1>6. CASE Finish
  <2>1. pc'[Root] = "gone"
    BY <1>6, Members, PcAt DEF Finish
  <2> QED
    BY <2>1
<1>7. ASSUME NEW d \in Dir, Runs(d), ~ReadHistory, ~Finish
      PROVE  /\ pc'[Root] \notin {"receive", "gone"} => got' = 0
             /\ pc'[Root] = "receive" => got' <= need'
  <2>1. UNCHANGED <<need, got>>
    BY <1>7 DEF Runs, SavePid, Join, Get, Attach, AttachFails, Load, Store, Raise, Released, Find, FindNone, Answer, Check,
                Send, Record, totals
  <2>2. PICK p, q : Goto(d, p, q) /\ Way(d, p, q)
    BY <1>7, RunsWay
  <2>3. pc[d] = p /\ pc'[d] = q /\ \A x \in Dir \ {d} : pc'[x] = pc[x]
    BY <2>2, PcAt
  <2>4. CASE d = Root
    <3>1. p \notin {"wait", "receive"}
      BY <1>7, <2>3, <2>4 DEF Runs, SavePid, Join, Get, Attach, AttachFails, Load, Store, Raise, Released, Find, FindNone,
                Answer, Check, Send, Record, Goto
    <3>2. p # "gone" /\ q # "receive"
      BY <2>2, <3>1 DEF Way, Reads
    <3> QED
      BY <2>1, <2>3, <2>4, <3>1, <3>2
  <2>5. CASE d # Root
    BY <1>2, <2>1, <2>3, <2>5, Members
  <2> QED
    BY <2>4, <2>5
<1> QED
  BY <1>0, <1>1, <1>2, <1>3, <1>4, <1>5, <1>6, <1>7, Kinds

LEMMA WaitInvKept == IInv /\ WaitInv /\ [Next]_vars => WaitInv'
<1> SUFFICES ASSUME IInv, WaitInv, [Next]_vars
             PROVE  WaitInv'
  OBVIOUS
<1>1. TypeOK /\ (Live' => Live)
  BY DeadStays DEF IInv
<1>2. ASSUME Live'
      PROVE  /\ Handed'
             /\ sem' = 0 => \E f \in File : th'[f] = "scan"
             /\ pc'[Root] \notin {"receive", "gone"} => got' = 0
             /\ pc'[Root] = "receive" => got' <= need'
  <2>1. Order
    BY <1>1, <1>2 DEF IInv
  <2>2. /\ Handed
        /\ sem = 0 => \E f \in File : th[f] = "scan"
        /\ pc[Root] \notin {"receive", "gone"} => got = 0
        /\ pc[Root] = "receive" => got <= need
    BY <1>1, <1>2 DEF WaitInv
  <2>3. sem' = 0 => \E f \in File : th'[f] = "scan"
    BY <1>1, <1>2, <2>1, <2>2, SemaphoreKept
  <2> QED
    BY <1>1, <1>2, <2>1, <2>2, <2>3, HandedKept, GotKept
<1>3. ASSUME Calm' PROVE \A k \in Dir : Subdirs(k) # {} => Turn(k)'
  <2>1. Live' /\ Live /\ timely
    BY <1>1, <1>3, InputSame DEF Calm
  <2>2. Order /\ Families /\ \A k \in Dir : Subdirs(k) # {} => Turn(k)
    BY <2>1 DEF IInv, WaitInv, Calm
  <2> QED
    BY <1>1, <2>1, <2>2, TurnsKept
<1> QED
  BY <1>2, <1>3 DEF WaitInv

LEMMA InitWaitInv == Init => WaitInv
<1> SUFFICES ASSUME Init
             PROVE  WaitInv
  OBVIOUS
<1>1. sem = 1 /\ got = 0 /\ pc[Root] = "loop"
  BY Members DEF Init
<1>2. \A k \in Dir : Keyed(k) = {} /\ pc[k] \in Before
  BY NobodyYet, KeyIsThere DEF Keyed, NoSegment, Before, NotYet
<1>3. \A d \in Dir : pc[d] \notin {"check", "send"}
  BY NobodyYet
<1>4. \A k \in Dir : Turn(k)
  BY <1>2, <1>3 DEF Turn
<1>5. Handed
  <2>1. \A d \in Dir : \A i \in DOMAIN Entries[d] : ~(i < next[d])
    BY NobodyYet, Sequence
  <2> QED
    BY <2>1, NobodyYet DEF Handed
<1> QED
  BY <1>1, <1>4, <1>5 DEF WaitInv

\* Whose turn it is in a segment, who has the semaphore, and how many messages were received.
THEOREM WaitInvariance == Spec => []WaitInv
<1>1. Init => WaitInv
  BY InitWaitInv
<1>2. IInv /\ WaitInv /\ [Next]_vars => WaitInv'
  BY WaitInvKept
<1> QED
  BY <1>1, <1>2, Invariance, PTL DEF Spec

\* If nobody can go on, no thread is at work and no process lists entries,
LEMMA NobodyLists ==
  ASSUME TypeOK, Order, Handed, sem = 0 => \E f \in File : th[f] = "scan",
         \A f \in File : ~ThreadReady(f), \A d \in Dir : ~ProcessReady(d)
  PROVE  \A d \in Dir : pc[d] \notin {"born", "loop"}
<1>1. sem > 0
  BY DEF ThreadReady, TypeOK
<1>2. \A f \in File : th[f] \in {"none", "end"}
  BY <1>1 DEF ThreadReady, TypeOK, Handed
<1> SUFFICES ASSUME NEW d \in Dir, pc[d] = "loop"
             PROVE  FALSE
  BY DEF ProcessReady
<1>3. next[d] > Len(Entries[d])
  <2>1. next[d] \in Nat /\ Len(Entries[d]) \in Nat /\ ~(next[d] <= Len(Entries[d]))
    BY Sequence DEF ProcessReady, TypeOK
  <2> QED
    BY <2>1
<1>4. PICK f \in Files(d) : th[f] # "end"
  BY DEF ProcessReady
<1>5. f \in File /\ Home(f) = d
  BY <1>4, Children
<1>6. PICK i \in DOMAIN Entries[d] : Entries[d][i] = f
  BY <1>5, Places, Members
<1>7. i < next[d]
  <2>1. i \in 1 .. Len(Entries[d]) /\ Len(Entries[d]) \in Nat /\ next[d] \in Nat
    BY Sequence DEF TypeOK
  <2> QED
    BY <1>3, <2>1
<1>8. th[f] # "none"
  BY <1>5, <1>6, <1>7 DEF Handed
<1> QED
  BY <1>2, <1>4, <1>5, <1>8

\* so that nobody sleeps, since all subdirectories have added,
LEMMA NobodySleeps ==
  ASSUME TypeOK, Order, Handed, \A d \in Dir : pc[d] \notin {"born", "loop"},
         \A d \in Dir : ~ProcessReady(d)
  PROVE  \A d \in Dir : pc[d] # "sleep"
<1> SUFFICES ASSUME NEW d \in Dir, pc[d] = "sleep"
             PROVE  FALSE
  OBVIOUS
<1>1. PICK c \in Subdirs(d) : pc[c] \in Adding
  BY DEF ProcessReady
<1>2. c \in Dir \ {Root} /\ Home(c) = d
  BY <1>1, Children
<1>3. PICK i \in DOMAIN Entries[d] : Entries[d][i] = c
  BY <1>2, Places
<1>4. i < next[d]
  <2>1. next[d] > Len(Entries[d])
    BY DEF Handed
  <2>2. i \in 1 .. Len(Entries[d]) /\ Len(Entries[d]) \in Nat /\ next[d] \in Nat
    BY Sequence DEF TypeOK
  <2> QED
    BY <2>1, <2>2
<1>5. pc[c] # "unborn"
  BY <1>2, <1>3, <1>4 DEF Handed
<1> QED
  BY <1>1, <1>2, <1>5 DEF Adding, ProcessReady

\* no directory waits for its segment,
LEMMA NobodyLooks ==
  ASSUME TypeOK, Order, Families, \A k \in Dir : Subdirs(k) # {} => Turn(k),
         \A d \in Dir : ~ProcessReady(d)
  PROVE  \A k \in Dir : pc[k] \notin {"see", "check"}
<1> SUFFICES ASSUME NEW k \in Dir, pc[k] \in {"see", "check"}
             PROVE  FALSE
  OBVIOUS
<1>1. Subdirs(k) # {} /\ Turn(k) /\ Family(k) /\ pc[k] \notin Before
  BY DEF Order, Families, Before, NotYet, Inside
<1>2. CASE pc[k] = "see"
  <2>1. \A c \in Subdirs(k) : pc[c] \notin Summing
    BY <1>1 DEF Family, Adding, Summing
  <2>2. seg[at[k]].flag = 0
    BY <1>1, <1>2, <2>1 DEF Turn, Family
  <2> QED
    BY <1>2, <2>2 DEF ProcessReady, Here
<1>3. CASE pc[k] = "check"
  BY <1>1, <1>3 DEF Turn, ProcessReady, Here
<1> QED
  BY <1>2, <1>3

\* nobody polls, since the highest that did would have its answer,
LEMMA NobodyPolls ==
  ASSUME TypeOK, Order, Families, \A k \in Dir : Subdirs(k) # {} => Turn(k),
         \A d \in Dir : pc[d] \notin {"born", "loop", "sleep", "see"},
         \A d \in Dir : ~ProcessReady(d)
  PROVE  \A d \in Dir : pc[d] # "poll"
<1> DEFINE S == {d \in Dir : pc[d] = "poll"}
<1> SUFFICES ASSUME S # {}
             PROVE  FALSE
  OBVIOUS
<1>1. S \in SUBSET (Dir \ {Root})
  BY DEF Order
<1>2. PICK c \in S : Home(c) \in Dir \ S
  BY <1>1, Highest
<1> DEFINE k == Home(c)
<1>3. c \in Dir \ {Root} /\ pc[c] = "poll" /\ k \in Dir /\ pc[k] # "poll"
  BY <1>1, <1>2
<1>4. c \in Subdirs(k)
  BY <1>3, Children
<1>5. seg[at[c]].flag # 1
  BY <1>3 DEF ProcessReady, Here
<1>6. pc[k] # "unborn"
  <2>1. PICK i \in DOMAIN Entries[k] : Entries[k][i] = c
    BY <1>3, Places
  <2>2. i \in Nat /\ i >= 1
    BY <1>3, <2>1, Sequence
  <2>3. pc[k] = "unborn" => next[k] = 1
    BY <1>3 DEF Order
  <2> QED
    BY <1>3, <2>1, <2>2, <2>3 DEF Order
<1> HIDE DEF k
<1>7. pc[k] \in Before \cup {"see"}
  BY <1>3, <1>4, <1>5 DEF Turn
<1>8. pc[k] \in {"get", "attach", "lower", "add", "raise"}
  BY <1>3, <1>6, <1>7 DEF Before, NotYet, Inside
<1> QED
  BY <1>3, <1>8 DEF ProcessReady

\* and the main process does not wait for a message.
LEMMA NobodyReceives ==
  ASSUME TypeOK, Clean, pc[Root] = "receive" => got <= need, ~ProcessReady(Root)
  PROVE  pc[Root] # "receive"
<1> SUFFICES ASSUME pc[Root] = "receive"
             PROVE  FALSE
  OBVIOUS
<1>1. got < need
  BY DEF ProcessReady, TypeOK
<1>2. QueueThere
  BY <1>1 DEF ProcessReady
<1>3. Len(queue) # 0
  <2>1. Len(queue) + got >= need /\ got \in Nat /\ need \in Nat /\ Len(queue) \in Nat
    BY <1>2, LenProperties DEF Clean, TypeOK
  <2> QED
    BY <1>1, <2>1
<1>4. queue # <<>>
  BY <1>3, EmptySeq
<1> QED
  BY <1>1, <1>4 DEF ProcessReady

LEMMA AllWait ==
  ASSUME IInv, WaitInv, timely, pc[Root] \notin {"gone", "killed"},
         \A f \in File : ~ThreadReady(f), \A d \in Dir : ~ProcessReady(d)
  PROVE  \A d \in Dir : pc[d] \in {"unborn", "gone"} \/ (pc[d] = "wait" /\ \E c \in Subdirs(d) : ~Ended(c))
<1>1. Live /\ Calm
  BY DEF Live, Calm
<1>2. TypeOK /\ Order /\ Families /\ Clean
  BY <1>1, InvClean DEF IInv
<1>3. /\ Handed /\ (sem = 0 => \E f \in File : th[f] = "scan")
      /\ pc[Root] = "receive" => got <= need
      /\ \A k \in Dir : Subdirs(k) # {} => Turn(k)
  BY <1>1 DEF WaitInv
<1>4. \A d \in Dir : pc[d] \notin {"born", "loop"}
  BY <1>2, <1>3, NobodyLists
<1>5. \A d \in Dir : pc[d] # "sleep"
  BY <1>2, <1>3, <1>4, NobodySleeps
<1>6. \A d \in Dir : pc[d] \notin {"see", "check"}
  BY <1>2, <1>3, NobodyLooks
<1>7. \A d \in Dir : pc[d] # "poll"
  BY <1>2, <1>3, <1>4, <1>5, <1>6, NobodyPolls
<1>8. pc[Root] # "receive"
  BY <1>2, <1>3, Members, NobodyReceives
<1>9. \A d \in Dir : pc[d] \notin {"receive", "failed", "killed"}
  BY <1>2, <1>8 DEF Order, Families
<1> TAKE d \in Dir
<1>10. pc[d] \in {"unborn", "wait", "gone"}
  BY <1>2, <1>4, <1>5, <1>6, <1>7, <1>9 DEF TypeOK, Place, ProcessReady
<1> QED
  BY <1>10 DEF ProcessReady

\* All would wait, each for a child of its own that waits: one more than there are.
LEMMA InvMovesOn == IInv /\ WaitInv => MovesOn
<1> SUFFICES ASSUME IInv, WaitInv, timely, pc[Root] \notin {"gone", "killed"},
                    \A f \in File : ~ThreadReady(f), \A d \in Dir : ~ProcessReady(d)
             PROVE  FALSE
  BY DEF MovesOn
<1> DEFINE S == {d \in Dir : pc[d] = "wait"}
           child(d) == CHOOSE c \in S : c \in Subdirs(d)
           f == [d \in S |-> child(d)]
<1>1. Live
  BY DEF Live
<1>2. TypeOK /\ Order /\ Handed /\ Root \in Dir /\ IsFiniteSet(Dir)
  BY <1>1, SharedTreeAssumption DEF IInv, WaitInv
<1>3. \A d \in Dir : pc[d] \in {"unborn", "gone"} \/ (pc[d] = "wait" /\ \E c \in Subdirs(d) : ~Ended(c))
  BY AllWait
<1>4. Root \in S
  BY <1>2, <1>3 DEF Order
<1>5. ASSUME NEW d \in S PROVE \E c \in S : c \in Subdirs(d)
  <2>1. PICK c \in Subdirs(d) : ~Ended(c)
    BY <1>3
  <2>2. c \in Dir \ {Root} /\ Home(c) = d
    BY <2>1, Children
  <2>3. PICK i \in DOMAIN Entries[d] : Entries[d][i] = c
    BY <2>2, Places
  <2>4. i < next[d]
    <3>1. next[d] > Len(Entries[d])
      BY <1>2 DEF Handed
    <3>2. i \in 1 .. Len(Entries[d]) /\ Len(Entries[d]) \in Nat /\ next[d] \in Nat
      BY <1>2, Sequence DEF TypeOK
    <3> QED
      BY <3>1, <3>2
  <2>5. pc[c] # "unborn"
    BY <1>2, <2>2, <2>3, <2>4 DEF Handed
  <2> QED
    BY <1>3, <2>1, <2>2, <2>5 DEF Ended
<1>6. S \subseteq Dir
  OBVIOUS
<1> HIDE DEF S
<1>7. \A d \in S : child(d) \in S /\ child(d) \in Subdirs(d)
  BY <1>5
<1> HIDE DEF child
<1>8. \A d \in S : child(d) \in S \ {Root}
  BY <1>6, <1>7, Children
<1>9. f \in [S -> S \ {Root}]
  BY <1>8
<1>10. IsFiniteSet(S) /\ Cardinality(S) \in Nat /\ IsFiniteSet(S \ {Root})
       /\ Cardinality(S \ {Root}) < Cardinality(S)
  <2>1. IsFiniteSet(S)
    BY <1>2, <1>6, FS_Subset
  <2>2. Cardinality(S) \in Nat
    BY <2>1, FS_CardinalityType
  <2>3. IsFiniteSet(S \ {Root}) /\ Cardinality(S \ {Root}) = Cardinality(S) - 1
    BY <1>4, <2>1, FS_RemoveElement
  <2> QED
    BY <2>1, <2>2, <2>3
<1>11. \E x, y \in S : x # y /\ f[x] = f[y]
  <2> HIDE DEF f
  <2> QED
    BY <1>9, <1>10, FS_PigeonHole
<1>12. PICK x \in S, y \in S : x # y /\ child(x) = child(y)
  BY <1>11
<1>13. Home(child(x)) = x /\ Home(child(y)) = y
  BY <1>6, <1>7, Children
<1> QED
  BY <1>12, <1>13

\* Joins, waits, the semaphore, the polls of the flag and the message queue never block each
\* other: until the main process of a timely run has ended some thread or process can go on.
THEOREM NeverStuck == Spec => []MovesOn
BY InvMovesOn, Invariance, WaitInvariance, PTL

\* What a process that goes on has not handed out has no process or thread, also after SIGINT.
Fresh ==
  \A d \in Dir : pc[d] # "killed" => \A i \in DOMAIN Entries[d] : i >= next[d] =>
    /\ Entries[d][i] \in Dir => pc[Entries[d][i]] = "unborn"
    /\ Entries[d][i] \in File => th[Entries[d][i]] = "none"

LEMMA FreshKept ==
  ASSUME TypeOK, RootPlace, Fresh, [Next]_vars
  PROVE  Fresh'
<1>1. ASSUME UNCHANGED next, \A f \in File : th[f] = "none" => th'[f] = "none",
             \A x \in Dir : pc[x] = "unborn" => pc'[x] = "unborn",
             \A x \in Dir : pc[x] = "killed" => pc'[x] = "killed"
      PROVE  Fresh'
  BY <1>1 DEF Fresh
<1>2. ASSUME NEW f \in File, Thread(f) PROVE Fresh'
  <2>1. UNCHANGED <<pc, next>> /\ \A g \in File : th[g] = "none" => th'[g] = "none"
    BY <1>2 DEF Thread, Acquire, FindMatch, Release, TypeOK
  <2> QED
    BY <1>1, <2>1
<1>3. CASE Receive \/ ReceiveNone \/ UNCHANGED vars
  <2>1. UNCHANGED <<pc, next, th>>
    BY <1>3 DEF Receive, ReceiveNone, vars, thread
  <2> QED
    BY <1>1, <2>1
<1>4. ASSUME NEW d \in Dir, Create(d) \/ Fork(d) PROVE Fresh'
  <2>1. /\ next[d] \in DOMAIN Entries[d]
        /\ next'[d] = next[d] + 1 /\ \A x \in Dir \ {d} : next'[x] = next[x]
        /\ \A x \in Dir : x # Entry(d) => pc'[x] = pc[x]
        /\ \A f \in File : f # Entry(d) => th'[f] = th[f]
    <3>1. CASE Create(d)
      BY <3>1, CreateSame
    <3>2. CASE Fork(d)
      BY <3>2, ForkSame
    <3> QED
      BY <1>4, <3>1, <3>2
  <2>2. \A x \in Dir : \A i \in DOMAIN Entries[x] : i >= next'[x] =>
          i >= next[x] /\ Entries[x][i] # Entry(d)
    BY <2>1, LaterEntries
  <2>3. \A x \in Dir : pc[x] = "killed" => pc'[x] = "killed"
    <3>1. Entry(d) \in Dir => pc[Entry(d)] = "unborn"
      <4>1. next[d] >= next[d] /\ pc[d] = "loop"
        BY <1>4 DEF TypeOK, Create, Fork, Listing
      <4> QED
        BY <2>1, <4>1 DEF Fresh, Entry
    <3> QED
      BY <2>1, <3>1
  <2> QED
    BY <2>1, <2>2, <2>3 DEF Fresh
<1>5. ASSUME NEW d \in Dir, Runs(d) PROVE Fresh'
  <2>1. PICK p, q : Goto(d, p, q) /\ Way(d, p, q)
    BY <1>5, RunsWay
  <2>2. pc[d] = p /\ pc'[d] = q /\ \A x \in Dir \ {d} : pc'[x] = pc[x]
    BY <2>1, PcAt
  <2>3. p \notin {"unborn", "killed"}
    BY <2>1 DEF Way, Reads
  <2>4. next' = next /\ th' = th
    BY <1>5, RunsWay
  <2> QED
    BY <1>1, <2>2, <2>3, <2>4
<1>6. CASE Interrupt
  <2>1. /\ next' = next
        /\ \A d \in Dir : pc'[d] = IF Ended(d) \/ pc[d] \in {"unborn", "born"} THEN pc[d] ELSE "killed"
        /\ \A f \in File : th'[f] = IF pc'[Home(f)] = "killed" /\ th[f] # "end" THEN "dead" ELSE th[f]
    BY <1>6 DEF Interrupt
  <2>2. ASSUME NEW d \in Dir, pc'[d] # "killed", NEW i \in DOMAIN Entries[d], i >= next'[d]
        PROVE  /\ Entries[d][i] \in Dir => pc'[Entries[d][i]] = "unborn"
               /\ Entries[d][i] \in File => th'[Entries[d][i]] = "none"
    <3>1. pc[d] # "killed" /\ Home(Entries[d][i]) = d
      BY <2>1, <2>2, Places DEF Ended
    <3> QED
      BY <2>1, <2>2, <3>1 DEF Fresh
  <2> QED
    BY <2>2 DEF Fresh
<1> QED
  BY <1>2, <1>3, <1>4, <1>5, <1>6, Kinds DEF Elsewhere

\* Before SIGINT and after it an entry is handed out once.
LEMMA AlwaysFresh == Spec => []Fresh
<1>1. Init => Fresh
  BY NobodyYet, Places DEF Fresh
<1>2. IInv /\ Fresh /\ [Next]_vars => Fresh'
  BY FreshKept DEF IInv, RootPlace, Order, Live
<1> QED
  BY <1>1, <1>2, Invariance, PTL DEF Spec

\* How far a thread, and how far a process is on its way.
Stage(t) ==
  CASE t = "none" -> 0 [] t = "ready" -> 1 [] t = "scan" -> 2 [] t = "end" -> 3 [] t = "dead" -> 4
Phase(p) ==
  CASE p = "unborn" -> 0 [] p = "born" -> 1 [] p = "loop" -> 2 [] p = "get" -> 3 [] p = "attach" -> 4
    [] p = "lower" -> 5 [] p = "add" -> 6 [] p = "raise" -> 7 [] p = "poll" -> 8 [] p = "sleep" -> 9
    [] p = "see" -> 10 [] p = "check" -> 11 [] p = "send" -> 12 [] p = "wait" -> 13 [] p = "receive" -> 14
    [] p \in {"gone", "failed", "killed"} -> 15

\* A thread is later if it has fewer matches to find, a process if it has listed more, the
\* main process if it has received more.
ThreadLater(f) ==
  \/ Stage(th[f]) < Stage(th'[f])
  \/ th[f] = "scan" /\ th'[f] = "scan" /\ left'[f] < left[f]
ProcessLater(d) ==
  \/ Phase(pc[d]) < Phase(pc'[d])
  \/ pc[d] = "loop" /\ pc'[d] = "loop" /\ next[d] < next'[d]
  \/ d = Root /\ pc[d] = "receive" /\ pc'[d] = "receive" /\ got < got'
ThreadSame(f) == th'[f] = th[f] /\ left'[f] = left[f]
ProcessSame(d) == pc'[d] = pc[d] /\ next'[d] = next[d] /\ (d = Root => got' = got)

\* Nobody is earlier than before, and one is later.
Onwards ==
  /\ \A f \in File : ThreadLater(f) \/ ThreadSame(f)
  /\ \A d \in Dir : ProcessLater(d) \/ ProcessSame(d)
  /\ (\E f \in File : ThreadLater(f)) \/ (\E d \in Dir : ProcessLater(d))

LEMMA ThreadOnwards ==
  ASSUME TypeOK, NEW f \in File, Thread(f)
  PROVE  Onwards
<1>1. /\ UNCHANGED <<pc, next, got>>
      /\ \A g \in File \ {f} : th'[g] = th[g] /\ left'[g] = left[g]
  BY DEF Thread, Acquire, FindMatch, Release, TypeOK, totals
<1>2. ThreadLater(f)
  <2>1. CASE Acquire(f)
    BY <2>1 DEF Acquire, TypeOK, ThreadLater, Stage
  <2>2. CASE FindMatch(f)
    BY <2>2 DEF FindMatch, TypeOK, ThreadLater
  <2>3. CASE Release(f)
    BY <2>3 DEF Release, TypeOK, ThreadLater, Stage
  <2> QED
    BY <2>1, <2>2, <2>3 DEF Thread
<1> QED
  BY <1>1, <1>2 DEF Onwards, ThreadSame, ProcessSame

LEMMA RunOnwards ==
  ASSUME TypeOK, NEW d \in Dir, Runs(d)
  PROVE  Onwards
<1>1. PICK p, q : Goto(d, p, q) /\ Way(d, p, q)
  BY RunsWay
<1>2. pc[d] = p /\ pc'[d] = q /\ \A x \in Dir \ {d} : pc'[x] = pc[x]
  BY <1>1, PcAt
<1>3. next' = next /\ th' = th /\ left' = left
  BY RunsWay
<1>4. got' = got
  BY DEF Runs, SavePid, Join, Get, Attach, AttachFails, Load, Store, Raise, Released, Find, FindNone, Answer, Check, Send,
         Record, ReadHistory, Finish, totals
<1>5. Phase(p) < Phase(q)
  BY <1>1 DEF Way, Reads, Phase
<1>6. ProcessLater(d)
  BY <1>2, <1>5 DEF ProcessLater
<1> QED
  BY <1>2, <1>3, <1>4, <1>6 DEF Onwards, ThreadSame, ProcessSame

LEMMA ListOnwards ==
  ASSUME TypeOK, Fresh, NEW d \in Dir, Create(d) \/ Fork(d)
  PROVE  Onwards
<1>1. /\ next[d] \in DOMAIN Entries[d] /\ pc[d] = "loop" /\ next[d] \in Nat
      /\ next'[d] = next[d] + 1 /\ \A x \in Dir \ {d} : next'[x] = next[x]
  BY CreateSame, ForkSame DEF TypeOK
<1>2. left' = left /\ got' = got
  BY DEF Create, Fork, totals
<1>3. ASSUME pc'[d] = "loop" PROVE ProcessLater(d)
  BY <1>1, <1>3 DEF ProcessLater
<1>4. /\ Entry(d) \in Dir => pc[Entry(d)] = "unborn"
      /\ Entry(d) \in File => th[Entry(d)] = "none"
  BY <1>1 DEF Fresh, Entry
<1>5. CASE Create(d)
  <2>1. /\ Entry(d) \in File /\ th'[Entry(d)] = "ready" /\ pc' = pc
        /\ \A f \in File \ {Entry(d)} : th'[f] = th[f]
    BY <1>5, CreateSame
  <2>2. ThreadLater(Entry(d))
    BY <1>4, <2>1 DEF ThreadLater, Stage
  <2> QED
    BY <1>1, <1>2, <1>3, <2>1, <2>2 DEF Onwards, ThreadSame, ProcessSame
<1>6. CASE Fork(d)
  <2>1. /\ Entry(d) \in Dir \ {Root} /\ pc'[Entry(d)] = "born" /\ th' = th
        /\ \A x \in Dir \ {Entry(d)} : pc'[x] = pc[x]
    BY <1>6, ForkSame
  <2>2. ProcessLater(Entry(d)) /\ Entry(d) # d
    BY <1>1, <1>4, <2>1 DEF ProcessLater, Phase
  <2> QED
    BY <1>1, <1>2, <1>3, <2>1, <2>2 DEF Onwards, ThreadSame, ProcessSame
<1> QED
  BY <1>5, <1>6

LEMMA ReceiveOnwards ==
  ASSUME TypeOK, Receive \/ ReceiveNone
  PROVE  Onwards
<1>1. /\ pc[Root] = "receive" /\ got \in Nat /\ got' = got + 1
      /\ UNCHANGED <<pc, next, th, left>>
  BY DEF Receive, ReceiveNone, TypeOK, thread
<1>2. ProcessLater(Root)
  BY <1>1 DEF ProcessLater
<1> QED
  BY <1>1, <1>2, Members DEF Onwards, ThreadSame, ProcessSame

LEMMA InterruptOnwards ==
  ASSUME TypeOK, RootPlace, Interrupt
  PROVE  Onwards
<1>1. /\ \A d \in Dir : pc'[d] = IF Ended(d) \/ pc[d] \in {"unborn", "born"} THEN pc[d] ELSE "killed"
      /\ \A f \in File : th'[f] = IF pc'[Home(f)] = "killed" /\ th[f] # "end" THEN "dead" ELSE th[f]
      /\ UNCHANGED <<next, left, got>>
  BY DEF Interrupt
<1>2. ASSUME NEW f \in File PROVE ThreadLater(f) \/ ThreadSame(f)
  <2>1. th[f] \in {"none", "ready", "scan", "end", "dead"} /\ (th'[f] = th[f] \/ (th'[f] = "dead" /\ th[f] # "end"))
    BY <1>1 DEF TypeOK
  <2> QED
    BY <1>1, <2>1 DEF ThreadLater, ThreadSame, Stage
<1>3. ASSUME NEW d \in Dir PROVE ProcessSame(d) \/ ProcessLater(d)
  <2>1. CASE Ended(d) \/ pc[d] \in {"unborn", "born"}
    BY <1>1, <2>1 DEF ProcessSame
  <2>2. CASE ~Ended(d) /\ pc[d] \notin {"unborn", "born"}
    <3>1. pc[d] \in Place \ {"gone", "failed", "killed"} /\ pc'[d] = "killed"
      BY <1>1, <2>2 DEF Ended, TypeOK
    <3>2. Phase(pc[d]) < Phase("killed")
      BY <3>1 DEF Phase, Place
    <3> QED
      BY <3>1, <3>2 DEF ProcessLater
  <2> QED
    BY <2>1, <2>2
<1>4. ProcessLater(Root)
  <2>1. pc'[Root] # pc[Root]
    BY <1>1, Members DEF Interrupt, RootPlace, Ended
  <2> QED
    BY <1>3, <2>1, Members DEF ProcessSame
<1> QED
  BY <1>2, <1>3, <1>4, Members DEF Onwards

\* Every step takes somebody on his way and nobody back, interrupted or not; entries, matches
\* and messages are bounded, so that every run comes to an end, or to the stand NeverStuck
\* excludes.
THEOREM NoStepBack == Spec => [][Onwards]_vars
<1>1. ASSUME IInv, Fresh, Next PROVE Onwards
  <2>1. TypeOK /\ RootPlace
    BY <1>1 DEF IInv, RootPlace, Order, Live
  <2>2. ASSUME NEW d \in Dir, Process(d) PROVE Onwards
    BY <1>1, <2>1, <2>2, ListOnwards, RunOnwards DEF Process, Runs
  <2>3. CASE ReadHistory \/ Finish
    BY <2>1, <2>3, Members, RunOnwards DEF Runs
  <2> QED
    BY <1>1, <2>1, <2>2, <2>3, ThreadOnwards, ReceiveOnwards, InterruptOnwards DEF Next, Main
<1>2. IInv /\ Fresh /\ [Next]_vars => [Onwards]_vars
  BY <1>1
<1> QED
  BY <1>2, Invariance, AlwaysFresh, PTL DEF Spec
==============================================================================
