------------------------- MODULE GrepThread_proofs --------------------------
(***************************************************************************)
(* Proofs about GrepThread, for every finite tree of directories and       *)
(* files, every number of matches in each file, and every set of files and *)
(* directories that cannot be opened.                                      *)
(*                                                                         *)
(* A file and a directory are handed out once, to one process, so what is  *)
(* not yet listed has no thread and no process. That a semaphore and an    *)
(* unwritten mark go together bounds the marks, and that nothing ends      *)
(* before what it waits for makes the counts of those that have ended the  *)
(* counts of whole directories. All this is over at SIGINT, behind which   *)
(* only what is said of the processes it missed remains.                   *)
(*                                                                         *)
(* Joins, waits and the semaphore never block each other: the semaphore    *)
(* is never lost, and processes that all waited for a child would be one   *)
(* more than the children there are to wait for.                           *)
(***************************************************************************)
EXTENDS GrepThread, FiniteSetTheorems, SequenceTheorems, TLAPS

Holds(f) == th[f] \in {"scan", "printed", "dash"}

\* One thread at a time has the semaphore, and a process that crashed keeps it.
LockInv ==
  /\ \A f, g \in File : Holds(f) /\ Holds(g) => f = g
  /\ (\E f \in File : Holds(f)) => sem = 0
  /\ Crashed => sem = 0 /\ \A f \in File : ~Holds(f)

\* Entries are handed out in their order: what comes later is not begun.
Begun == \A d \in Dir : pc[d] \in {"unborn", "born", "find"} => next[d] = 1
DirsInOrder ==
  \A d \in Dir : \A i \in DOMAIN Entries(d) :
    Entries(d)[i] \in Dir => (pc[Entries(d)[i]] = "unborn" <=> i >= next[d])
FilesInOrder ==
  \A d \in Dir : \A i \in DOMAIN Entries(d) :
    Entries(d)[i] \in File /\ ~Ended(d) => (th[Entries(d)[i]] = "none" <=> i >= next[d])
Exhausted ==
  \A d \in Dir : pc[d] \in {"join", "wait", "record", "read", "count", "remove"} =>
    next[d] > Len(Entries(d))

\* The way of the main process, and that of the others.
Ways ==
  /\ pc[Root] \notin {"unborn", "born", "record"}
  /\ \A d \in Dir : pc[d] \in {"read", "count", "remove"} => d = Root
  /\ \A d \in pids : pc[d] \notin {"unborn", "born"}

Progress == Begun /\ DirsInOrder /\ FilesInOrder /\ Exhausted /\ Ways

\* The mark of a process that has live threads is unwritten only as long as a thread of it
\* has the semaphore.
Dashed ==
  \A f \in File : th[f] \in {"ready", "scan", "printed"} /\ dashes[Home(f)] = 1 =>
    \E g \in File : Home(g) = Home(f) /\ th[g] = "dash"

\* Who is killed is killed with the main process, and who crashes had a file that is closed.
Causes ==
  /\ \A d \in Dir : pc[d] = "killed" => pc[Root] = "killed"
  /\ Whole => ~Crashed

\* A process whose directory is closed comes to nothing.
Unopened ==
  /\ \A d \in Dir : pc[d] = "gone" /\ d \in closed => next[d] = 1
  /\ \A d \in Dir : d \in closed => pc[d] \in {"unborn", "born", "find", "gone", "killed"}

\* A process that has ended on its own has ended all it waits for.
Recorded(d) == pc[d] = "gone" /\ d \notin closed
ChildrenEnded ==
  \A d \in Dir : pc[d] \in {"record", "read", "count", "remove"} \/ Recorded(d) => Waited(d)
ThreadsJoined ==
  \A d \in Dir : pc[d] \in {"wait", "record", "read", "count", "remove"} \/ Recorded(d) => Joined(d)

EntriesHandedOut == \A d \in Dir : Recorded(d) => next[d] > Len(Entries(d))

\* With a process end its threads.
ThreadsEnded ==
  /\ \A f \in File : Ended(Home(f)) => th[f] \in {"none", "end", "dead"}
  /\ \A f \in File : th[f] = "dead" => Ended(Home(f)) /\ (pc[Root] = "killed" \/ Crashed)

\* The children that have ended.
Past == {d \in Dir \ {Root} : pc[d] = "gone"}
Unwritten == Past = {} => history = NoHistory

Reaped ==
  /\ Causes /\ Unopened /\ ChildrenEnded /\ ThreadsJoined /\ EntriesHandedOut
  /\ ThreadsEnded /\ Unwritten

SafeInv == TypeOK /\ LockInv /\ Progress /\ Dashed /\ Reaped /\ Quiet

Calm == pc[Root] # "killed" /\ ~Crashed

\* The threads whose end will be marked.
Open == {f \in Running : th[f] = "dash" => dashes[Home(f)] = 1}
Started == {f \in File : th[f] # "none"}
MarksInv ==
  Calm =>
    /\ marks.streak <= Cardinality(Open)
    /\ marks.streak <= peak /\ marks.max <= peak
    /\ marks.created = Cardinality(Started)

\* What is counted of the tree by processes that have ended.
FilesUnder(ds) == {f \in File : Home(f) \in ds}
DirsUnder(ds) == UNION {ToSet(Subdirs[d]) : d \in ds}
Count(ds) == [lines |-> Cardinality(FilesUnder(ds)), dirs |-> Cardinality(DirsUnder(ds)),
              files |-> Cardinality(FilesUnder(ds))]
Searching(d) == {f \in ToSet(Files[d]) : th[f] \in {"dash", "end"}}
LineCounts ==
  \A d \in Dir : pc[d] \notin {"unborn", "born", "find"} => lines[d] = Cardinality(Searching(d))
CountsInv ==
  Whole /\ pc[Root] # "killed" =>
    LineCounts /\ (pc[Root] # "gone" => history = Count(Past))

\* Matches are found, printed, and written, and some are copied.
Buffered == {f \in File : th[f] = "printed"}
Known == log + Cardinality(Buffered) + Together(left, File)
LogFacts ==
  /\ \A f \in File : th[f] \in {"dash", "end"} => left[f] = 0
  /\ Known >= AllHits
  /\ Mixed \subseteq dirsFirst => Known = AllHits /\ \A d \in Dir : copied[d] = 0
LogInv == Whole /\ pc[Root] # "killed" => LogFacts

\* The totals, from the moment they are made.
Summed == pc[Root] = "count" /\ Whole =>
            /\ totals.lines = Cardinality(File) /\ totals.files = Cardinality(File)
            /\ totals.dirs = Cardinality(Dir) - 1
TotalsInv ==
  /\ pc[Root] \in {"find", "loop", "join", "wait", "read"} => totals = None
  /\ Summed /\ TotalsExact /\ LogExact
  /\ Printing => totals.max \in Nat

IInv == SafeInv /\ MarksInv /\ CountsInv /\ LogInv /\ TotalsInv
---------------------------------------------------------------------------
(* The tree *)

LEMMA Tree ==
  /\ \A d \in Dir : Subdirs[d] \in Seq(Dir) /\ Files[d] \in Seq(File)
  /\ \A d \in Dir : ToSet(Subdirs[d]) \subseteq Dir \ {Root} /\ ToSet(Files[d]) \subseteq File
<1>1. ASSUME NEW d \in Dir PROVE Subdirs[d] \in Seq(Dir \ {Root}) /\ Files[d] \in Seq(File)
  BY <1>1, ThreadTreeAssumption
<1>2. ASSUME NEW d \in Dir
      PROVE  ToSet(Subdirs[d]) \subseteq Dir \ {Root} /\ ToSet(Files[d]) \subseteq File
  BY <1>1, <1>2, ElementOfSeq, LenProperties DEF ToSet
<1>3. ASSUME NEW d \in Dir PROVE Subdirs[d] \in Seq(Dir)
  BY <1>1, SeqMonotonic
<1> QED
  BY <1>1, <1>2, <1>3

\* A file is in one directory.
LEMMA HomeOf ==
  /\ \A f \in File : Home(f) \in Dir /\ f \in ToSet(Files[Home(f)])
  /\ \A d \in Dir : \A f \in ToSet(Files[d]) : f \in File /\ Home(f) = d
<1>1. ASSUME NEW f \in File PROVE Home(f) \in Dir /\ f \in ToSet(Files[Home(f)])
  <2>1. \E d \in Dir : f \in ToSet(Files[d])
    BY ThreadTreeAssumption
  <2> QED
    BY <2>1 DEF Home
<1>2. ASSUME NEW d \in Dir, NEW f \in ToSet(Files[d]) PROVE f \in File /\ Home(f) = d
  <2>1. f \in File
    BY Tree
  <2>2. Home(f) \in Dir /\ f \in ToSet(Files[Home(f)])
    BY <1>1, <2>1
  <2>3. Home(f) # d => ToSet(Files[Home(f)]) \cap ToSet(Files[d]) = {}
    BY <2>2, ThreadTreeAssumption
  <2> QED
    BY <2>1, <2>2, <2>3
<1> QED
  BY <1>1, <1>2

\* One list behind another one, without repetitions and without what both have.
Chain(w, u, v, A, B) ==
  /\ w \in Seq(A \cup B)
  /\ DOMAIN w = 1 .. Len(w) /\ Len(w) \in Nat
  /\ \A e : (\E i \in DOMAIN w : w[i] = e) <=> e \in ToSet(u) \/ e \in ToSet(v)
  /\ \A i, j \in DOMAIN w : w[i] = w[j] => i = j
  /\ \A i, j \in DOMAIN w : w[i] \in A /\ w[j] \in B => i < j

LEMMA Behind ==
  ASSUME NEW A, NEW B, A \cap B = {}, NEW u \in Seq(A), NEW v \in Seq(B),
         IsInjective(u), IsInjective(v), NEW w, w = u \o v
  PROVE  Chain(w, u, v, A, B)
<1> DEFINE m == Len(u)
           n == Len(v)
<1>1. /\ m \in Nat /\ DOMAIN u = 1 .. m /\ n \in Nat /\ DOMAIN v = 1 .. n
      /\ \A i \in 1 .. m : u[i] \in A
      /\ \A i \in 1 .. n : v[i] \in B
  BY LenProperties, ElementOfSeq
<1>2. u \in Seq(A \cup B) /\ v \in Seq(A \cup B)
  BY SeqMonotonic
<1>3. w \in Seq(A \cup B) /\ Len(w) = m + n
  BY <1>2, ConcatProperties
<1>4. DOMAIN w = 1 .. m + n
  BY <1>3, LenProperties
<1>5. \A i \in 1 .. m + n : w[i] = IF i <= m THEN u[i] ELSE v[i - m]
  BY <1>2, ConcatProperties
<1>6. ASSUME NEW i \in 1 .. m + n
      PROVE  \/ i \in 1 .. m /\ w[i] = u[i] /\ w[i] \in A
             \/ i - m \in 1 .. n /\ w[i] = v[i - m] /\ w[i] \in B
  BY <1>1, <1>5
<1>7. \A i, j \in 1 .. m + n : w[i] = w[j] => i = j
  <2> SUFFICES ASSUME NEW i \in 1 .. m + n, NEW j \in 1 .. m + n, w[i] = w[j] PROVE i = j
    OBVIOUS
  <2>0. /\ \A k, l \in 1 .. m : u[k] = u[l] => k = l
        /\ \A k, l \in 1 .. n : v[k] = v[l] => k = l
    BY <1>1 DEF IsInjective
  <2>1. CASE i \in 1 .. m /\ j \in 1 .. m
    BY <1>1, <1>5, <2>0, <2>1
  <2>2. CASE i - m \in 1 .. n /\ j - m \in 1 .. n
    <3>1. v[i - m] = v[j - m]
      BY <1>1, <1>5, <2>2
    <3>2. i - m = j - m
      BY <2>0, <2>2, <3>1
    <3> QED
      BY <1>1, <3>2
  <2> QED
    BY <1>6, <2>1, <2>2
<1>8. \A i, j \in 1 .. m + n : w[i] \in A /\ w[j] \in B => i < j
  BY <1>1, <1>6
<1>9. ASSUME NEW e PROVE (\E i \in 1 .. m + n : w[i] = e) <=> e \in ToSet(u) \/ e \in ToSet(v)
  <2>1. \A i \in 1 .. m : i \in 1 .. m + n /\ w[i] = u[i]
    BY <1>1, <1>5
  <2>2. \A i \in 1 .. n : m + i \in 1 .. m + n /\ w[m + i] = v[i]
    BY <1>1, <1>5
  <2>3. /\ e \in ToSet(u) <=> \E i \in 1 .. m : u[i] = e
        /\ e \in ToSet(v) <=> \E i \in 1 .. n : v[i] = e
    BY <1>1 DEF ToSet
  <2>4. ASSUME NEW i \in 1 .. m + n, w[i] = e PROVE e \in ToSet(u) \/ e \in ToSet(v)
    BY <1>6, <2>3, <2>4
  <2>5. e \in ToSet(u) \/ e \in ToSet(v) => \E i \in 1 .. m + n : w[i] = e
    BY <2>1, <2>2, <2>3
  <2> QED
    BY <2>4, <2>5
<1>10. Len(w) \in Nat /\ DOMAIN w = 1 .. Len(w)
  BY <1>1, <1>3, <1>4
<1> QED
  BY <1>3, <1>4, <1>7, <1>8, <1>9, <1>10 DEF Chain

\* What readdir lists of a directory: its subdirectories and its files, each once.
LEMMA Listing1 ==
  ASSUME NEW d \in Dir
  PROVE  /\ Entries(d) \in Seq(Dir \cup File)
         /\ DOMAIN Entries(d) = 1 .. Len(Entries(d)) /\ Len(Entries(d)) \in Nat
         /\ \A e : (\E i \in DOMAIN Entries(d) : Entries(d)[i] = e)
                     <=> e \in ToSet(Subdirs[d]) \/ e \in ToSet(Files[d])
         /\ \A i, j \in DOMAIN Entries(d) : Entries(d)[i] = Entries(d)[j] => i = j
         /\ d \in dirsFirst => \A i, j \in DOMAIN Entries(d) :
              Entries(d)[i] \in Dir /\ Entries(d)[j] \in File => i < j
<1> DEFINE s == Subdirs[d]
           t == Files[d]
<1>1. s \in Seq(Dir) /\ t \in Seq(File) /\ IsInjective(s) /\ IsInjective(t)
  BY Tree, ThreadTreeAssumption
<1>2. Dir \cap File = {} /\ File \cap Dir = {} /\ File \cup Dir = Dir \cup File
  BY ThreadTreeAssumption
<1>3. CASE d \in dirsFirst
  <2>1. Entries(d) = s \o t
    BY <1>3 DEF Entries
  <2> HIDE DEF s, t
  <2> DEFINE w == Entries(d)
  <2>2. w = s \o t
    BY <2>1
  <2> HIDE DEF w
  <2>3. Chain(w, s, t, Dir, File)
    BY <1>1, <1>2, <2>2, Behind
  <2> QED
    BY <2>3 DEF Chain, s, t, w
<1>4. CASE d \notin dirsFirst
  <2>1. Entries(d) = t \o s
    BY <1>4 DEF Entries
  <2> HIDE DEF s, t
  <2> DEFINE w == Entries(d)
  <2>2. w = t \o s
    BY <2>1
  <2> HIDE DEF w
  <2>3. Chain(w, t, s, File, Dir)
    BY <1>1, <1>2, <2>2, Behind
  <2>4. /\ w \in Seq(Dir \cup File) /\ DOMAIN w = 1 .. Len(w) /\ Len(w) \in Nat
        /\ \A e : (\E i \in DOMAIN w : w[i] = e) <=> e \in ToSet(s) \/ e \in ToSet(t)
        /\ \A i, j \in DOMAIN w : w[i] = w[j] => i = j
    BY <1>2, <2>3 DEF Chain
  <2> QED
    BY <1>4, <2>4 DEF s, t, w
<1> QED
  BY <1>3, <1>4

LEMMA OneOfThem ==
  \A d \in Dir : \A i \in DOMAIN Entries(d) :
    Entries(d)[i] \in ToSet(Subdirs[d]) \/ Entries(d)[i] \in ToSet(Files[d])
<1> SUFFICES ASSUME NEW d \in Dir, NEW i \in DOMAIN Entries(d)
             PROVE  Entries(d)[i] \in ToSet(Subdirs[d]) \/ Entries(d)[i] \in ToSet(Files[d])
  OBVIOUS
<1>1. \A e : (\E j \in DOMAIN Entries(d) : Entries(d)[j] = e)
                <=> e \in ToSet(Subdirs[d]) \/ e \in ToSet(Files[d])
  BY Listing1
<1> QED
  BY <1>1

\* No entry is in two directories.
LEMMA Entry1 ==
  ASSUME NEW d \in Dir, NEW e \in Dir, NEW i \in DOMAIN Entries(d), NEW j \in DOMAIN Entries(e),
         Entries(d)[i] = Entries(e)[j]
  PROVE  d = e /\ i = j
<1> DEFINE x == Entries(d)[i]
<1>1. x \in ToSet(Subdirs[d]) \/ x \in ToSet(Files[d])
  BY OneOfThem
<1>2. x \in ToSet(Subdirs[e]) \/ x \in ToSet(Files[e])
  BY OneOfThem
<1>3. /\ ToSet(Subdirs[d]) \cap ToSet(Files[e]) = {}
      /\ ToSet(Subdirs[e]) \cap ToSet(Files[d]) = {}
  BY Tree, ThreadTreeAssumption
<1>4. d = e
  BY <1>1, <1>2, <1>3, ThreadTreeAssumption
<1> QED
  BY <1>4, Listing1

\* Files and subdirectories of a directory are entries of it, at one place each.
LEMMA PlaceOf ==
  ASSUME NEW d \in Dir
  PROVE  /\ \A f \in ToSet(Files[d]) : \E i \in DOMAIN Entries(d) : Entries(d)[i] = f
         /\ \A c \in ToSet(Subdirs[d]) : \E i \in DOMAIN Entries(d) : Entries(d)[i] = c
         /\ \A i \in DOMAIN Entries(d) :
              /\ Entries(d)[i] \in Dir => Entries(d)[i] \in ToSet(Subdirs[d]) /\ Entries(d)[i] # Root
              /\ Entries(d)[i] \in File => Entries(d)[i] \in ToSet(Files[d]) /\ Home(Entries(d)[i]) = d
<1>1. \A i \in DOMAIN Entries(d) : \/ Entries(d)[i] \in ToSet(Subdirs[d])
                                   \/ Entries(d)[i] \in ToSet(Files[d])
  BY Listing1
<1>2. ToSet(Subdirs[d]) \cap File = {} /\ ToSet(Files[d]) \cap Dir = {} /\ Root \notin ToSet(Subdirs[d])
  BY Tree, ThreadTreeAssumption
<1>3. \A f \in ToSet(Files[d]) : Home(f) = d
  BY HomeOf
<1>4. /\ \A f \in ToSet(Files[d]) : \E i \in DOMAIN Entries(d) : Entries(d)[i] = f
      /\ \A c \in ToSet(Subdirs[d]) : \E i \in DOMAIN Entries(d) : Entries(d)[i] = c
  BY Listing1
<1> QED
  BY <1>1, <1>2, <1>3, <1>4

\* How many members a list without repetitions has.
LEMMA LengthOf ==
  ASSUME NEW A, NEW u \in Seq(A), IsInjective(u)
  PROVE  IsFiniteSet(ToSet(u)) /\ Cardinality(ToSet(u)) = Len(u)
<1>1. Len(u) \in Nat /\ DOMAIN u = 1 .. Len(u)
  BY LenProperties
<1>2. IsFiniteSet(1 .. Len(u)) /\ Cardinality(1 .. Len(u)) = Len(u)
  BY <1>1, FS_Interval
<1>3. u \in [1 .. Len(u) -> ToSet(u)]
  BY <1>1 DEF ToSet
<1>4. \A e \in ToSet(u) : \E i \in 1 .. Len(u) : u[i] = e
  BY <1>1 DEF ToSet
<1>5. \A i, j \in 1 .. Len(u) : u[i] = u[j] => i = j
  BY <1>1 DEF IsInjective
<1>6. ExistsBijection(1 .. Len(u), ToSet(u))
  BY <1>1, <1>3, <1>4, <1>5 DEF ExistsBijection, Bijection, Injection, Surjection, IsInjective
<1> QED
  BY <1>2, <1>6, FS_Bijection
---------------------------------------------------------------------------
(* Together *)

Heap(n, S) == UNION {{e} \X (1 .. n[e]) : e \in S}

LEMMA TogetherType ==
  ASSUME NEW S, IsFiniteSet(S), NEW n, \A e \in S : n[e] \in Nat
  PROVE  IsFiniteSet(Heap(n, S)) /\ Together(n, S) \in Nat
<1> DEFINE part(e) == {e} \X (1 .. n[e])
           parts == {part(e) : e \in S}
           f == [e \in S |-> part(e)]
<1>1. f \in Surjection(S, parts)
  BY DEF Surjection
<1>2. IsFiniteSet(parts)
  BY <1>1, FS_Surjection
<1>3. ASSUME NEW e \in S PROVE IsFiniteSet(part(e))
  <2>1. IsFiniteSet(1 .. n[e])
    BY FS_Interval
  <2>2. IsFiniteSet({e})
    BY FS_Singleton
  <2> QED
    BY <2>1, <2>2, FS_Product
<1>4. \A T \in parts : IsFiniteSet(T)
  BY <1>3
<1>5. IsFiniteSet(UNION parts)
  BY <1>2, <1>4, FS_UNION
<1>6. Heap(n, S) = UNION parts
  BY DEF Heap
<1> HIDE DEF parts
<1>7. IsFiniteSet(Heap(n, S))
  BY <1>5, <1>6
<1> QED
  BY <1>7, FS_CardinalityType DEF Together, Heap

LEMMA TogetherOne ==
  ASSUME NEW e, NEW n, n[e] \in Nat
  PROVE  Together(n, {e}) = n[e]
<1>1. Heap(n, {e}) = {e} \X (1 .. n[e])
  BY DEF Heap
<1>2. Cardinality({e}) = 1 /\ IsFiniteSet({e})
  BY FS_Singleton
<1>3. Cardinality(1 .. n[e]) = n[e] /\ IsFiniteSet(1 .. n[e])
  <2>1. 1 \in Int /\ n[e] \in Int
    OBVIOUS
  <2>2. IsFiniteSet(1 .. n[e])
    BY <2>1, FS_Interval
  <2>3. Cardinality(1 .. n[e]) = IF 1 > n[e] THEN 0 ELSE n[e] - 1 + 1
    BY <2>1, FS_Interval
  <2> QED
    BY <2>2, <2>3
<1>4. Cardinality({e} \X (1 .. n[e])) = Cardinality({e}) * Cardinality(1 .. n[e])
  BY <1>2, <1>3, FS_Product
<1>5. Together(n, {e}) = Cardinality({e} \X (1 .. n[e]))
  BY <1>1 DEF Heap, Together
<1> QED
  BY <1>2, <1>3, <1>4, <1>5

LEMMA TogetherLess ==
  ASSUME NEW S, IsFiniteSet(S), NEW n \in [S -> Nat], NEW e \in S, n[e] > 0
  PROVE  Together([n EXCEPT ![e] = @ - 1], S) = Together(n, S) - 1
<1> DEFINE m == [n EXCEPT ![e] = @ - 1]
<1>1. /\ IsFiniteSet(Heap(n, S)) /\ Together(n, S) = Cardinality(Heap(n, S))
      /\ Together(m, S) = Cardinality(Heap(m, S))
  BY TogetherType DEF Together, Heap
<1>2. \A d \in S : n[d] \in Nat /\ m[d] = IF d = e THEN n[d] - 1 ELSE n[d]
  OBVIOUS
<1> HIDE DEF m
<1>3. ASSUME NEW d \in S, NEW i
      PROVE  <<d, i>> \in Heap(m, S) <=> <<d, i>> \in Heap(n, S) /\ <<d, i>> # <<e, n[e]>>
  <2>1. \A k \in [S -> Nat] : <<d, i>> \in Heap(k, S) <=> i \in 1 .. k[d]
    BY DEF Heap
  <2>2. m \in [S -> Nat]
    BY <1>2 DEF m
  <2> QED
    BY <1>2, <2>1, <2>2
<1>4. \A x : x \in Heap(n, S) \/ x \in Heap(m, S) => \E d \in S : \E i : x = <<d, i>>
  BY DEF Heap
<1>5. Heap(m, S) = Heap(n, S) \ {<<e, n[e]>>}
  BY <1>3, <1>4
<1>6. <<e, n[e]>> \in Heap(n, S)
  BY DEF Heap
<1> QED
  BY <1>1, <1>5, <1>6, FS_RemoveElement DEF m

LEMMA TogetherNone ==
  ASSUME NEW S, NEW n, \A e \in S : n[e] = 0
  PROVE  Together(n, S) = 0
<1>1. Heap(n, S) = {}
  BY DEF Heap
<1> QED
  BY <1>1, FS_EmptySet DEF Together, Heap
---------------------------------------------------------------------------
(* Types *)

Mark == [created : Nat, streak : Nat, max : Nat]
Piles == [d \in Dir |-> copied[d] + Cardinality(Printed(d))]

LEMMA MarkTypes ==
  ASSUME NEW m \in Mark, NEW n
  PROVE  /\ Plus(m) \in Mark /\ Dash(m, n) \in Mark
         /\ Plus(m).created = m.created + 1 /\ Plus(m).streak = m.streak + 1
         /\ Plus(m).max = m.max /\ Dash(m, n).created = m.created
         /\ Dash(m, n).streak = IF n = 0 THEN m.streak ELSE 0
         /\ Dash(m, n).max = IF n = 0 THEN m.max ELSE Larger(m.max, m.streak)
<1>1. m.created \in Nat /\ m.streak \in Nat /\ m.max \in Nat
  BY DEF Mark
<1>2. /\ Plus(m).created = m.created + 1 /\ Plus(m).streak = m.streak + 1 /\ Plus(m).max = m.max
      /\ Plus(m) \in Mark
  <2>1. /\ Plus(m).created = m.created + 1 /\ Plus(m).streak = m.streak + 1
        /\ Plus(m).max = m.max
    BY DEF Mark, Plus
  <2>2. Plus(m) \in Mark
    <3> DEFINE a == m.created + 1
               b == m.streak + 1
    <3>1. a \in Nat /\ b \in Nat
      BY <1>1
    <3>2. Plus(m) = [m EXCEPT !.created = a, !.streak = b]
      BY DEF Plus
    <3> HIDE DEF a, b
    <3> QED
      BY <3>1, <3>2 DEF Mark
  <2> QED
    BY <2>1, <2>2
<1>3. n = 0 => Dash(m, n) = m
  BY DEF Dash
<1>4. n # 0 => Dash(m, n) = [created |-> m.created, streak |-> 0, max |-> Larger(m.max, m.streak)]
  BY DEF Dash, Mark
<1>5. Larger(m.max, m.streak) \in Nat
  BY <1>1 DEF Larger
<1> QED
  BY <1>1, <1>2, <1>3, <1>4, <1>5 DEF Mark

LEMMA PrintedType ==
  ASSUME NEW d \in Dir
  PROVE  /\ Printed(d) \subseteq File /\ IsFiniteSet(Printed(d)) /\ Cardinality(Printed(d)) \in Nat
         /\ (Printed(d) = {} => Cardinality(Printed(d)) = 0)
<1>1. Printed(d) \subseteq File
  BY Tree DEF Printed
<1>2. IsFiniteSet(Printed(d))
  BY <1>1, FS_Subset, ThreadTreeAssumption
<1> QED
  BY <1>1, <1>2, FS_CardinalityType, FS_EmptySet

LEMMA PilesType ==
  ASSUME TypeOK, NEW ps \in SUBSET Dir
  PROVE  /\ Piles \in [Dir -> Nat] /\ Together(Piles, ps) \in Nat
         /\ (\A d \in ps : copied[d] = 0 /\ Printed(d) = {}) => Together(Piles, ps) = 0
<1>1. \A d \in Dir : copied[d] \in Nat
  BY DEF TypeOK
<1>2. Piles \in [Dir -> Nat]
  BY <1>1, PrintedType DEF Piles
<1>3. IsFiniteSet(ps)
  BY FS_Subset, ThreadTreeAssumption
<1>4. \A e \in ps : Piles[e] \in Nat
  BY <1>2
<1>5. Together(Piles, ps) \in Nat
  BY <1>3, <1>4, TogetherType
<1>6. ASSUME \A d \in ps : copied[d] = 0 /\ Printed(d) = {} PROVE Together(Piles, ps) = 0
  <2>1. \A e \in ps : Piles[e] = 0
    BY <1>6, PrintedType DEF Piles
  <2> QED
    BY <2>1, TogetherNone
<1> QED
  BY <1>2, <1>5, <1>6

LEMMA FlushTypes ==
  ASSUME TypeOK, NEW ps \in SUBSET Dir, FlushAll(ps)
  PROVE  /\ marks' \in Mark /\ log' \in Nat /\ log' = log + Together(Piles, ps)
         /\ dashes' \in [Dir -> 0 .. 1] /\ copied' \in [Dir -> Nat]
<1>1. marks' \in Mark
  BY MarkTypes DEF FlushAll, TypeOK, Mark
<1>2. log' = log + Together(Piles, ps)
  BY DEF FlushAll, Piles
<1>3. log' \in Nat
  BY <1>2, PilesType DEF TypeOK
<1> QED
  BY <1>1, <1>2, <1>3 DEF FlushAll, TypeOK

\* The entry that comes next.
LEMMA EntryType ==
  ASSUME TypeOK, NEW d \in Dir, Listing(d)
  PROVE  /\ next[d] \in DOMAIN Entries(d) /\ Entry(d) = Entries(d)[next[d]]
         /\ Entry(d) \in Dir \cup File
         /\ Entry(d) \in File => Entry(d) \notin Dir /\ Home(Entry(d)) = d
         /\ Entry(d) \in Dir => Entry(d) \notin File /\ Entry(d) \in ToSet(Subdirs[d]) /\ Entry(d) # Root
<1>1. next[d] \in Nat \ {0} /\ next[d] <= Len(Entries(d))
  BY DEF TypeOK, Listing
<1>2. next[d] \in DOMAIN Entries(d)
  BY <1>1, Listing1
<1>3. Entries(d)[next[d]] \in Dir \cup File
  BY <1>2, Listing1, ElementOfSeq
<1> QED
  BY <1>2, <1>3, PlaceOf, ThreadTreeAssumption DEF Entry

LEMMA EntriesSame ==
  ASSUME dirsFirst' = dirsFirst
  PROVE  \A d \in Dir : Entries(d)' = Entries(d)
BY DEF Entries

LEMMA InitType == Init => TypeOK
<1> SUFFICES ASSUME Init PROVE TypeOK
  OBVIOUS
<1>1. pc \in [Dir -> {"unborn", "find"}] /\ next \in [Dir -> Nat \ {0}]
  BY DEF Init
<1>2. history \in [lines : Nat, dirs : Nat, files : Nat]
  BY DEF Init, NoHistory
<1> QED
  BY <1>1, <1>2, ThreadTreeAssumption DEF Init, TypeOK

LEMMA ThreadTypes ==
  ASSUME TypeOK, LockInv, Dashed, NEW f \in File, Thread(f)
  PROVE  TypeOK'
<1> USE HomeOf
<1>1. CASE Acquire(f)
  <2>1. sem' \in 0 .. 1
    BY <1>1 DEF Acquire, TypeOK, Free
  <2> QED
    BY <1>1, <2>1 DEF Acquire, TypeOK, input, files, outcome
<1>2. CASE Crash(f)
  <2>1. sem' \in 0 .. 1
    BY <1>2 DEF Crash, TypeOK, Free
  <2> QED
    BY <1>2, <2>1 DEF Crash, TypeOK, input, files, outcome
<1>3. CASE FindMatch(f)
  BY <1>3 DEF FindMatch, TypeOK, input, files, outcome
<1>4. CASE FlushMatch(f)
  BY <1>4 DEF FlushMatch, TypeOK, input, outcome
<1>5. CASE Searched(f)
  <2>1. dashes[Home(f)] = 0
    BY <1>5 DEF Searched, TypeOK, LockInv, Holds, Dashed
  <2>2. dashes' \in [Dir -> 0 .. 1] /\ lines' \in [Dir -> Nat]
    BY <1>5, <2>1 DEF Searched, TypeOK
  <2> QED
    BY <1>5, <2>2 DEF Searched, TypeOK, input, outcome
<1>6. CASE Release(f)
  <2>1. sem = 0
    BY <1>6 DEF Release, LockInv, Holds
  <2>2. marks' \in Mark
    BY <1>6, MarkTypes DEF Release, TypeOK, Mark
  <2>3. dashes' \in [Dir -> 0 .. 1]
    BY <1>6 DEF Release, TypeOK
  <2> QED
    BY <1>6, <2>1, <2>2, <2>3 DEF Release, TypeOK, Mark, Posted, input, outcome
<1> QED
  BY <1>1, <1>2, <1>3, <1>4, <1>5, <1>6 DEF Thread

LEMMA ProcessTypes ==
  ASSUME TypeOK, NEW d \in Dir, Process(d)
  PROVE  TypeOK'
<1>1. CASE SavePid(d)
  BY <1>1 DEF SavePid, Goto, TypeOK, input, thread, outcome
<1>2. CASE CannotOpen(d)
  <2>1. /\ marks' \in Mark /\ log' \in Nat
        /\ dashes' \in [Dir -> 0 .. 1] /\ copied' \in [Dir -> Nat]
    BY <1>2, FlushTypes DEF CannotOpen
  <2> QED
    BY <1>2, <2>1 DEF CannotOpen, Goto, TypeOK, Mark, input, thread, outcome
<1>3. CASE Find(d)
  BY <1>3 DEF Find, Goto, TypeOK, input, files, outcome
<1>4. CASE Create(d)
  <2>1. marks' \in Mark
    BY <1>4, MarkTypes DEF Create, TypeOK, Mark
  <2>2. Running \subseteq File
    BY DEF Running
  <2>3. Cardinality(Running) \in Nat
    BY <2>2, FS_Subset, FS_CardinalityType, ThreadTreeAssumption
  <2>4. peak' \in Nat
    BY <1>4, <2>3 DEF Create, Larger, TypeOK
  <2> QED
    BY <1>4, <2>1, <2>4 DEF Create, TypeOK, Mark, input
<1>5. CASE Fork(d)
  <2>1. Cardinality(Printed(d)) \in Nat
    BY PrintedType
  <2> QED
    BY <1>5, <2>1 DEF Fork, TypeOK, input, outcome
<1>6. CASE Listed(d)
  BY <1>6 DEF Listed, Goto, TypeOK, input, thread, files, outcome
<1>7. CASE Join(d)
  BY <1>7 DEF Join, Goto, TypeOK, input, thread, files, outcome
<1>8. CASE Wait(d)
  BY <1>8 DEF Wait, Goto, TypeOK, input, thread, files, outcome
<1>9. CASE Record(d)
  <2>1. /\ marks' \in Mark /\ log' \in Nat
        /\ dashes' \in [Dir -> 0 .. 1] /\ copied' \in [Dir -> Nat]
    BY <1>9, FlushTypes DEF Record
  <2>2. Len(Subdirs[d]) \in Nat /\ Len(Files[d]) \in Nat
    BY Tree, LenProperties
  <2>3. history' \in [lines : Nat, dirs : Nat, files : Nat]
    <3>1. history' = Added(history, d)
      BY <1>9 DEF Record
    <3>2. /\ history.lines \in Nat /\ history.dirs \in Nat /\ history.files \in Nat
          /\ lines[d] \in Nat
      BY DEF TypeOK
    <3> QED
      BY <2>2, <3>1, <3>2 DEF Added
  <2> QED
    BY <1>9, <2>1, <2>3 DEF Record, Goto, TypeOK, Mark, input, thread, outcome
<1> QED
  BY <1>1, <1>2, <1>3, <1>4, <1>5, <1>6, <1>7, <1>8, <1>9 DEF Process

LEMMA MainTypes ==
  ASSUME TypeOK, Main \/ Interrupt \/ UNCHANGED vars
  PROVE  TypeOK'
<1>1. CASE ReadHistory
  BY <1>1 DEF ReadHistory, Goto, TypeOK, input, thread, files
<1>2. CASE ShowTotals
  BY <1>2 DEF ShowTotals, Goto, TypeOK, input, thread, files
<1>3. NoHistory \in [lines : Nat, dirs : Nat, files : Nat]
  BY DEF NoHistory
<1>4. CASE RemoveFiles
  BY <1>3, <1>4 DEF RemoveFiles, Goto, TypeOK, input, thread, outcome
<1>5. CASE Interrupt
  <2> DEFINE alive == {d \in Dir : pc[d] # "unborn" /\ ~Ended(d)}
  <2>1. FlushAll(alive \cap Killed) /\ missed' = alive \ pids
    BY <1>5 DEF Interrupt
  <2>2. alive \cap Killed \in SUBSET Dir /\ alive \ pids \subseteq Dir
    OBVIOUS
  <2> HIDE DEF alive
  <2>3. /\ marks' \in Mark /\ log' \in Nat
        /\ dashes' \in [Dir -> 0 .. 1] /\ copied' \in [Dir -> Nat]
    BY <2>1, <2>2, FlushTypes
  <2>4. pc' = [d \in Dir |-> IF d \in alive \cap Killed THEN "killed" ELSE pc[d]]
    BY <1>5 DEF Interrupt, alive
  <2> QED
    <3>1. th' \in [File -> {"none", "ready", "scan", "printed", "dash", "end", "dead"}]
      BY <1>5 DEF Interrupt, TypeOK
    <3>2. history' \in [lines : Nat, dirs : Nat, files : Nat] /\ pids' \subseteq Dir
      BY <1>3, <1>5 DEF Interrupt
    <3> QED
      BY <1>5, <2>1, <2>2, <2>3, <2>4, <3>1, <3>2 DEF Interrupt, TypeOK, Mark, input
<1>6. CASE UNCHANGED vars
  BY <1>6 DEF TypeOK, vars, input, thread, files, outcome
<1> QED
  BY <1>1, <1>2, <1>4, <1>5, <1>6 DEF Main
---------------------------------------------------------------------------
(* Where processes and threads stand *)

\* A thread that has not ended is one of a process that has not joined its threads.
LEMMA LiveHome ==
  ASSUME TypeOK, Progress, Reaped, NEW f \in File, th[f] \in {"ready", "scan", "printed", "dash"}
  PROVE  /\ Home(f) \in Dir /\ f \in ToSet(Files[Home(f)])
         /\ pc[Home(f)] \in {"loop", "join"} /\ Home(f) \notin closed
<1> DEFINE d == Home(f)
<1>1. d \in Dir /\ f \in ToSet(Files[d])
  BY HomeOf
<1>2. PICK i \in DOMAIN Entries(d) : Entries(d)[i] = f
  BY <1>1, PlaceOf
<1>3. ~Ended(d)
  BY DEF Reaped, ThreadsEnded
<1>4. ~(i >= next[d])
  BY <1>1, <1>2, <1>3 DEF Progress, FilesInOrder
<1>5. i \in Nat /\ i >= 1
  BY <1>1, <1>2, Listing1
<1>6. pc[d] \notin {"unborn", "born", "find"}
  BY <1>1, <1>4, <1>5 DEF Progress, Begun
<1>7. ~Joined(d)
  BY <1>1 DEF Joined
<1>8. pc[d] \notin {"wait", "record", "read", "count", "remove"}
  BY <1>1, <1>7 DEF Reaped, ThreadsJoined
<1>9. pc[d] \in {"loop", "join"}
  BY <1>1, <1>3, <1>6, <1>8 DEF TypeOK, Ended
<1>10. d \notin closed
  BY <1>1, <1>9 DEF Reaped, Unopened
<1> QED
  BY <1>1, <1>9, <1>10

\* What comes next in a listing is new.
LEMMA NewEntry ==
  ASSUME TypeOK, Progress, NEW d \in Dir, Listing(d)
  PROVE  /\ Entry(d) \in File => th[Entry(d)] = "none"
         /\ Entry(d) \in Dir => pc[Entry(d)] = "unborn" /\ next[Entry(d)] = 1
<1>1. next[d] \in DOMAIN Entries(d) /\ Entry(d) = Entries(d)[next[d]]
  BY EntryType
<1>2. next[d] >= next[d]
  BY DEF TypeOK
<1>3. ~Ended(d)
  BY DEF Listing, Ended
<1>4. Entry(d) \in File => th[Entry(d)] = "none"
  BY <1>1, <1>2, <1>3 DEF Progress, FilesInOrder
<1>5. Entry(d) \in Dir => pc[Entry(d)] = "unborn"
  BY <1>1, <1>2 DEF Progress, DirsInOrder
<1> QED
  BY <1>4, <1>5 DEF Progress, Begun

\* A process that has not listed anything has no threads and no children.
LEMMA NothingYet ==
  ASSUME TypeOK, Progress, NEW d \in Dir, next[d] = 1
  PROVE  /\ ~Ended(d) => \A f \in ToSet(Files[d]) : th[f] = "none"
         /\ \A c \in ToSet(Subdirs[d]) : pc[c] = "unborn"
<1>1. \A i \in DOMAIN Entries(d) : i >= next[d]
  BY Listing1
<1>2. ASSUME NEW f \in ToSet(Files[d]), ~Ended(d) PROVE th[f] = "none"
  <2>1. PICK i \in DOMAIN Entries(d) : Entries(d)[i] = f
    BY PlaceOf
  <2>2. f \in File
    BY Tree
  <2> QED
    BY <1>1, <1>2, <2>1, <2>2 DEF Progress, FilesInOrder
<1>3. ASSUME NEW c \in ToSet(Subdirs[d]) PROVE pc[c] = "unborn"
  <2>1. PICK i \in DOMAIN Entries(d) : Entries(d)[i] = c
    BY PlaceOf
  <2>2. c \in Dir
    BY Tree
  <2> QED
    BY <1>1, <2>1, <2>2 DEF Progress, DirsInOrder
<1> QED
  BY <1>2, <1>3

LEMMA InitSafe == Init => LockInv /\ Progress /\ Dashed /\ Reaped /\ Quiet
<1> SUFFICES ASSUME Init PROVE LockInv /\ Progress /\ Dashed /\ Reaped /\ Quiet
  OBVIOUS
<1>1. /\ pc = [d \in Dir |-> IF d = Root THEN "find" ELSE "unborn"] /\ next = [d \in Dir |-> 1]
      /\ th = [f \in File |-> "none"] /\ history = NoHistory /\ pids = {Root} /\ Root \in Dir
  BY ThreadTreeAssumption DEF Init
<1>2. \A f \in File : Home(f) \in Dir
  BY HomeOf
<1>3. LockInv
  BY <1>1 DEF LockInv, Holds, Crashed
<1>4. \A d \in Dir : \A i \in DOMAIN Entries(d) : i >= next[d]
  BY <1>1, Listing1
<1>5. DirsInOrder
  <2>1. \A d \in Dir : \A i \in DOMAIN Entries(d) : Entries(d)[i] \in Dir => Entries(d)[i] # Root
    BY PlaceOf
  <2> QED
    BY <1>1, <1>4, <2>1 DEF DirsInOrder
<1>6. FilesInOrder
  BY <1>1, <1>4 DEF FilesInOrder
<1>7. Progress
  BY <1>1, <1>5, <1>6 DEF Progress, Begun, Exhausted, Ways
<1>8. Dashed
  BY <1>1 DEF Dashed
<1>9. Reaped
  BY <1>1, <1>2 DEF Reaped, Causes, Unopened, ChildrenEnded, ThreadsJoined, EntriesHandedOut,
     ThreadsEnded, Unwritten, Recorded, Ended, Crashed
<1>10. Quiet
  BY <1>1 DEF Quiet
<1> QED
  BY <1>3, <1>7, <1>8, <1>9, <1>10
---------------------------------------------------------------------------
(* The steps by what they do to processes and threads *)

\* A thread goes on.
Works(f, y) ==
  /\ f \in File /\ th' = [th EXCEPT ![f] = y]
  /\ UNCHANGED <<input, pc, next, pids, history, missed>>
  /\ \/ th[f] = "ready" /\ y = "scan" /\ sem > 0 /\ sem' = sem - 1 /\ dashes' = dashes
     \/ th[f] = "scan" /\ y = "printed" /\ sem' = sem /\ dashes' = dashes
     \/ th[f] = "printed" /\ y = "scan" /\ sem' = sem /\ dashes' = dashes
     \/ th[f] = "scan" /\ y = "dash" /\ sem' = sem /\ dashes' = [dashes EXCEPT ![Home(f)] = @ + 1]
     \/ th[f] = "dash" /\ y = "end" /\ sem' = sem + 1 /\ dashes' = [dashes EXCEPT ![Home(f)] = 0]

\* A process goes on.
Moves(d, x) ==
  /\ d \in Dir /\ pc' = [pc EXCEPT ![d] = x]
  /\ UNCHANGED <<input, next, th, sem, missed>>
  /\ \A e \in Dir : dashes'[e] = dashes[e] \/ dashes'[e] = 0
  /\ pids' \subseteq pids \cup {d}
  /\ history' # history => x = "gone" /\ (d # Root \/ history' = NoHistory)
  /\ \/ pc[d] = "born" /\ x = "find"
     \/ pc[d] = "find" /\ x = "gone" /\ d \in closed /\ history' = history
     \/ pc[d] = "find" /\ x = "loop" /\ d \notin closed
     \/ pc[d] = "loop" /\ x = "join" /\ next[d] > Len(Entries(d))
     \/ pc[d] = "join" /\ x = "wait" /\ Joined(d)
     \/ pc[d] = "wait" /\ x = (IF d = Root THEN "read" ELSE "record") /\ Waited(d)
     \/ pc[d] = "record" /\ x = "gone"
     \/ pc[d] = "read" /\ x = "count"
     \/ pc[d] = "count" /\ x = "remove"
     \/ pc[d] = "remove" /\ x = "gone" /\ d = Root /\ history' = NoHistory

StepKinds ==
  \/ \E f \in File : \E y : Works(f, y)
  \/ \E f \in File : Crash(f)
  \/ \E d \in Dir : Create(d)
  \/ \E d \in Dir : Fork(d)
  \/ \E d \in Dir : \E x : Moves(d, x)
  \/ Interrupt
  \/ UNCHANGED vars

LEMMA FlushDashes ==
  ASSUME NEW ps, FlushAll(ps)
  PROVE  \A e \in Dir : dashes'[e] = (IF e \in ps THEN 0 ELSE dashes[e])
BY DEF FlushAll

LEMMA Kinds == ASSUME TypeOK, Progress, [Next]_vars PROVE StepKinds
<1>1. ASSUME NEW f \in File, Thread(f) PROVE StepKinds
  <2>1. CASE Acquire(f)
    <3>1. Works(f, "scan")
      BY <2>1 DEF Acquire, Works, Free, input, files, outcome
    <3> QED
      BY <3>1 DEF StepKinds
  <2>2. CASE Crash(f)
    BY <2>2 DEF StepKinds
  <2>3. CASE FindMatch(f)
    <3>1. Works(f, "printed")
      BY <2>3 DEF FindMatch, Works, input, files, outcome
    <3> QED
      BY <3>1 DEF StepKinds
  <2>4. CASE FlushMatch(f)
    <3>1. Works(f, "scan")
      BY <2>4 DEF FlushMatch, Works, input, outcome
    <3> QED
      BY <3>1 DEF StepKinds
  <2>5. CASE Searched(f)
    <3>1. Works(f, "dash")
      BY <2>5 DEF Searched, Works, input, outcome
    <3> QED
      BY <3>1 DEF StepKinds
  <2>6. CASE Release(f)
    <3>1. Works(f, "end")
      BY <2>6 DEF Release, Works, Posted, input, outcome
    <3> QED
      BY <3>1 DEF StepKinds
  <2> QED
    BY <1>1, <2>1, <2>2, <2>3, <2>4, <2>5, <2>6 DEF Thread
<1>2. ASSUME NEW d \in Dir, Process(d) PROVE StepKinds
  <2>1. CASE SavePid(d)
    <3>1. Moves(d, "find")
      BY <2>1 DEF SavePid, Goto, Moves, input, thread, outcome
    <3> QED
      BY <3>1 DEF StepKinds
  <2>2. CASE CannotOpen(d)
    <3>1. \A e \in Dir : dashes'[e] = dashes[e] \/ dashes'[e] = 0
      BY <2>2, FlushDashes DEF CannotOpen
    <3>2. Moves(d, "gone")
      BY <2>2, <3>1 DEF CannotOpen, Goto, Moves, input, thread, outcome
    <3> QED
      BY <3>2 DEF StepKinds
  <2>3. CASE Find(d)
    <3>1. Moves(d, "loop")
      BY <2>3 DEF Find, Goto, Moves, input, files, outcome
    <3> QED
      BY <3>1 DEF StepKinds
  <2>4. CASE Create(d) \/ Fork(d)
    BY <2>4 DEF StepKinds
  <2>5. CASE Listed(d)
    <3>1. Moves(d, "join")
      BY <2>5 DEF Listed, Goto, Moves, input, thread, files, outcome
    <3> QED
      BY <3>1 DEF StepKinds
  <2>6. CASE Join(d)
    <3>1. Moves(d, "wait")
      BY <2>6 DEF Join, Goto, Moves, input, thread, files, outcome
    <3> QED
      BY <3>1 DEF StepKinds
  <2>7. CASE Wait(d)
    <3>1. Moves(d, IF d = Root THEN "read" ELSE "record")
      BY <2>7 DEF Wait, Goto, Moves, input, thread, files, outcome
    <3> QED
      BY <3>1 DEF StepKinds
  <2>8. CASE Record(d)
    <3>1. \A e \in Dir : dashes'[e] = dashes[e] \/ dashes'[e] = 0
      BY <2>8, FlushDashes DEF Record
    <3>2. d # Root
      BY <2>8 DEF Record, Goto, Progress, Ways
    <3>3. Moves(d, "gone")
      BY <2>8, <3>1, <3>2 DEF Record, Goto, Moves, input, thread, outcome
    <3> QED
      BY <3>3 DEF StepKinds
  <2> QED
    BY <1>2, <2>1, <2>2, <2>3, <2>4, <2>5, <2>6, <2>7, <2>8 DEF Process
<1>3. ASSUME Main PROVE StepKinds
  <2>1. Root \in Dir
    BY ThreadTreeAssumption
  <2>2. CASE ReadHistory
    <3>1. Moves(Root, "count")
      BY <2>1, <2>2 DEF ReadHistory, Goto, Moves, input, thread, files
    <3> QED
      BY <2>1, <3>1 DEF StepKinds
  <2>3. CASE ShowTotals
    <3>1. Moves(Root, "remove")
      BY <2>1, <2>3 DEF ShowTotals, Goto, Moves, input, thread, files
    <3> QED
      BY <2>1, <3>1 DEF StepKinds
  <2>4. CASE RemoveFiles
    <3>1. Moves(Root, "gone")
      BY <2>1, <2>4 DEF RemoveFiles, Goto, Moves, input, thread, outcome
    <3> QED
      BY <2>1, <3>1 DEF StepKinds
  <2> QED
    BY <1>3, <2>2, <2>3, <2>4 DEF Main
<1>4. Interrupt \/ UNCHANGED vars => StepKinds
  BY DEF StepKinds
<1> QED
  BY <1>1, <1>2, <1>3, <1>4 DEF Next
\* What SIGINT does: who is not known goes on, with its threads.
LEMMA Interrupted ==
  ASSUME TypeOK, Progress, Interrupt
  PROVE  /\ UNCHANGED <<input, next, sem>> /\ history' = NoHistory /\ pids' = {}
         /\ pc'[Root] = "killed" /\ ~Ended(Root)
         /\ \A d \in Dir : \/ pc'[d] = pc[d]
                           \/ /\ pc'[d] = "killed" /\ d \in Killed
                              /\ pc[d] # "unborn" /\ ~Ended(d) /\ dashes'[d] = 0
         /\ \A d \in Dir : d \in Killed => Ended(d)' /\ pc[d] # "unborn"
         /\ \A f \in File : \/ th'[f] = th[f] /\ (Home(f) \notin Killed \/ th[f] = "end")
                            \/ th'[f] = "dead" /\ Home(f) \in Killed
         /\ \A d \in Dir : dashes'[d] = dashes[d] \/ dashes'[d] = 0
         /\ missed' = {} => \A d \in Dir : pc'[d] = "unborn" \/ Ended(d)'
<1> DEFINE alive == {d \in Dir : pc[d] # "unborn" /\ ~Ended(d)}
<1>1. /\ Root \in alive /\ FlushAll(alive \cap Killed) /\ missed' = alive \ pids
      /\ pc' = [d \in Dir |-> IF d \in alive \cap Killed THEN "killed" ELSE pc[d]]
  BY DEF Interrupt
<1>2. th' = [f \in File |-> IF Home(f) \in Killed /\ th[f] # "end" THEN "dead" ELSE th[f]]
  BY DEF Interrupt
<1>3. UNCHANGED <<input, next, sem>> /\ history' = NoHistory /\ pids' = {}
  BY DEF Interrupt, input
<1>4. \A d \in Dir : dashes'[d] = (IF d \in alive \cap Killed THEN 0 ELSE dashes[d])
  BY <1>1, FlushDashes
<1>5. Root \in Killed /\ \A d \in Dir : d \in Killed <=> d \in pids \/ d = Root
  BY DEF Killed
<1>6. \A d \in Dir : d \in Killed => pc[d] # "unborn"
  BY <1>5 DEF Progress, Ways
<1>7. ASSUME NEW d \in Dir, d \in Killed PROVE Ended(d)'
  <2>1. CASE Ended(d)
    BY <1>1, <2>1 DEF Ended
  <2>2. CASE ~Ended(d)
    BY <1>1, <1>6, <1>7, <2>2 DEF Ended
  <2> QED
    BY <2>1, <2>2
<1>8. ASSUME missed' = {}, NEW d \in Dir, d \notin Killed PROVE pc'[d] = "unborn" \/ Ended(d)'
  BY <1>1, <1>5, <1>8 DEF Ended
<1>9. pc'[Root] = "killed" /\ ~Ended(Root)
  BY <1>1, <1>5
<1>10. \A d \in Dir : \/ pc'[d] = pc[d]
                      \/ /\ pc'[d] = "killed" /\ d \in Killed
                         /\ pc[d] # "unborn" /\ ~Ended(d) /\ dashes'[d] = 0
  BY <1>1, <1>4
<1> QED
  BY <1>2, <1>3, <1>4, <1>6, <1>7, <1>8, <1>9, <1>10

\* Who has ended stays so, and who was born stays born.
LEMMA Stays ==
  ASSUME TypeOK, Progress, Reaped, StepKinds, NEW d \in Dir
  PROVE  /\ Ended(d) => pc'[d] = pc[d]
         /\ pc[d] # "unborn" => pc'[d] # "unborn"
<1>1. ASSUME NEW f \in File, NEW y, Works(f, y) PROVE pc' = pc
  BY <1>1 DEF Works
<1>2. ASSUME NEW f \in File, Crash(f)
      PROVE  (Ended(d) => pc'[d] = pc[d]) /\ (pc[d] # "unborn" => pc'[d] # "unborn")
  <2>1. pc' = [pc EXCEPT ![Home(f)] = "crashed"] /\ ~Ended(Home(f))
    BY <1>2, LiveHome DEF Crash, Ended
  <2> QED
    BY <2>1 DEF TypeOK
<1>3. ASSUME NEW e \in Dir, Create(e) PROVE pc' = pc
  BY <1>3 DEF Create
<1>4. ASSUME NEW e \in Dir, Fork(e)
      PROVE  (Ended(d) => pc'[d] = pc[d]) /\ (pc[d] # "unborn" => pc'[d] # "unborn")
  <2>1. pc' = [pc EXCEPT ![Entry(e)] = "born"] /\ pc[Entry(e)] = "unborn"
    BY <1>4, NewEntry DEF Fork
  <2> QED
    BY <2>1 DEF TypeOK, Ended
<1>5. ASSUME NEW e \in Dir, NEW x, Moves(e, x)
      PROVE  (Ended(d) => pc'[d] = pc[d]) /\ (pc[d] # "unborn" => pc'[d] # "unborn")
  <2>1. pc' = [pc EXCEPT ![e] = x] /\ x # "unborn" /\ ~Ended(e)
    BY <1>5 DEF Moves, Ended
  <2> QED
    BY <2>1 DEF TypeOK
<1>6. Interrupt => (Ended(d) => pc'[d] = pc[d]) /\ (pc[d] # "unborn" => pc'[d] # "unborn")
  BY Interrupted
<1>7. UNCHANGED vars => pc' = pc
  BY DEF vars
<1> QED
  BY <1>1, <1>2, <1>3, <1>4, <1>5, <1>6, <1>7 DEF StepKinds
---------------------------------------------------------------------------
(* The semaphore *)

LEMMA LockKept ==
  ASSUME TypeOK, LockInv, Progress, Reaped, StepKinds
  PROVE  LockInv'
<1>1. ASSUME NEW f \in File, NEW y, Works(f, y) PROVE LockInv'
  <2>1. /\ th' = [th EXCEPT ![f] = y] /\ Crashed' = Crashed
        /\ th \in [File -> {"none", "ready", "scan", "printed", "dash", "end", "dead"}]
    BY <1>1 DEF Works, TypeOK, Crashed
  <2>2. CASE th[f] = "ready"
    <3>1. sem > 0 /\ sem' = sem - 1 /\ y = "scan" /\ sem \in 0 .. 1
      BY <1>1, <2>2 DEF Works, TypeOK
    <3>2. \A g \in File : ~Holds(g)
      BY <3>1 DEF LockInv
    <3> QED
      BY <2>1, <3>1, <3>2 DEF LockInv, Holds
  <2>3. CASE th[f] # "ready"
    <3>1. Holds(f)
      BY <1>1, <2>3 DEF Works, Holds
    <3>2. ~Crashed /\ sem = 0
      BY <3>1 DEF LockInv
    <3>3. \A g \in File : Holds(g)' => g = f
      BY <2>1, <3>1 DEF LockInv, Holds
    <3>4. Holds(f)' => sem' = sem
      BY <1>1, <2>1, <2>3 DEF Works, Holds
    <3> QED
      BY <2>1, <3>2, <3>3, <3>4 DEF LockInv
  <2> QED
    BY <2>2, <2>3
<1>2. ASSUME NEW f \in File, Crash(f) PROVE LockInv'
  <2>1. sem > 0 /\ sem' = sem - 1 /\ sem \in 0 .. 1
    BY <1>2 DEF Crash, Free, TypeOK
  <2>2. \A g \in File : ~Holds(g)
    BY <2>1 DEF LockInv
  <2>3. \A g \in File : th'[g] = th[g] \/ th'[g] = "dead"
    BY <1>2 DEF Crash
  <2>4. \A g \in File : ~Holds(g)'
    BY <2>2, <2>3 DEF Holds
  <2> QED
    BY <2>1, <2>4 DEF LockInv
<1>3. ASSUME sem' = sem, \A g \in File : Holds(g)' => Holds(g), Crashed' => Crashed
      PROVE  LockInv'
  BY <1>3 DEF LockInv
<1>4. ASSUME NEW d \in Dir, Create(d) PROVE LockInv'
  <2>1. /\ th' = [th EXCEPT ![Entry(d)] = "ready"] /\ pc' = pc /\ sem' = sem
    BY <1>4 DEF Create
  <2> QED
    BY <1>3, <2>1 DEF Holds, Crashed, TypeOK
<1>5. ASSUME NEW d \in Dir, Fork(d) PROVE LockInv'
  <2>1. th' = th /\ pc' = [pc EXCEPT ![Entry(d)] = "born"] /\ sem' = sem
    BY <1>5 DEF Fork
  <2> QED
    BY <1>3, <2>1 DEF Holds, Crashed, TypeOK
<1>6. ASSUME NEW d \in Dir, NEW x, Moves(d, x) PROVE LockInv'
  <2>1. th' = th /\ pc' = [pc EXCEPT ![d] = x] /\ sem' = sem /\ x # "crashed"
    BY <1>6 DEF Moves
  <2> QED
    BY <1>3, <2>1 DEF Holds, Crashed, TypeOK
<1>7. ASSUME Interrupt PROVE LockInv'
  <2>1. sem' = sem
    BY <1>7, Interrupted
  <2>2. \A g \in File : th'[g] = th[g] \/ th'[g] = "dead"
    BY <1>7, Interrupted
  <2>3. \A d \in Dir : pc'[d] = pc[d] \/ pc'[d] = "killed"
    BY <1>7, Interrupted
  <2> QED
    BY <1>3, <2>1, <2>2, <2>3 DEF Holds, Crashed
<1>8. ASSUME UNCHANGED vars PROVE LockInv'
  BY <1>8 DEF LockInv, Holds, Crashed, vars, thread
<1> QED
  BY <1>1, <1>2, <1>4, <1>5, <1>6, <1>7, <1>8 DEF StepKinds
---------------------------------------------------------------------------
(* The order of the entries *)

LEMMA InputSame ==
  ASSUME StepKinds
  PROVE  closed' = closed /\ dirsFirst' = dirsFirst /\ (\A d \in Dir : Entries(d)' = Entries(d))
<1>1. closed' = closed /\ dirsFirst' = dirsFirst
  BY DEF StepKinds, Works, Crash, Create, Fork, Moves, Interrupt, vars, input
<1> QED
  BY <1>1, EntriesSame

\* Nothing is handed out.
LEMMA OrderKept ==
  ASSUME TypeOK, Progress, next' = next, dirsFirst' = dirsFirst,
         \A d \in Dir : pc'[d] = "unborn" <=> pc[d] = "unborn",
         \A d \in Dir : pc'[d] \in {"born", "find"} => pc[d] \in {"born", "find"},
         \A d \in Dir : Ended(d) => Ended(d)',
         \A d \in Dir : pc'[d] \in {"join", "wait", "record", "read", "count", "remove"} =>
           \/ pc[d] \in {"join", "wait", "record", "read", "count", "remove"}
           \/ next[d] > Len(Entries(d)),
         \A f \in File : Ended(Home(f))' \/ (th'[f] = "none" <=> th[f] = "none")
  PROVE  Begun' /\ DirsInOrder' /\ FilesInOrder' /\ Exhausted'
<1>1. \A d \in Dir : Entries(d)' = Entries(d)
  BY EntriesSame
<1>2. Begun'
  BY DEF Progress, Begun
<1>3. DirsInOrder'
  <2> SUFFICES ASSUME NEW d \in Dir, NEW i \in DOMAIN Entries(d), Entries(d)[i] \in Dir
               PROVE  pc'[Entries(d)[i]] = "unborn" <=> i >= next[d]
    BY <1>1 DEF DirsInOrder
  <2> QED
    BY DEF Progress, DirsInOrder
<1>4. FilesInOrder'
  <2> SUFFICES ASSUME NEW d \in Dir, NEW i \in DOMAIN Entries(d), Entries(d)[i] \in File, ~Ended(d)'
               PROVE  th'[Entries(d)[i]] = "none" <=> i >= next[d]
    BY <1>1 DEF FilesInOrder
  <2>1. Home(Entries(d)[i]) = d
    BY PlaceOf
  <2>2. th'[Entries(d)[i]] = "none" <=> th[Entries(d)[i]] = "none"
    BY <2>1
  <2> QED
    BY <2>2 DEF Progress, FilesInOrder
<1>5. Exhausted'
  BY <1>1 DEF Progress, Exhausted
<1> QED
  BY <1>2, <1>3, <1>4, <1>5

LEMMA ProgressKept ==
  ASSUME TypeOK, Progress, Reaped, StepKinds
  PROVE  Progress'
<1>0. dirsFirst' = dirsFirst /\ \A d \in Dir : Entries(d)' = Entries(d)
  BY InputSame
<1>1. ASSUME NEW f \in File, NEW y, Works(f, y) PROVE Progress'
  <2>1. next' = next /\ pc' = pc /\ pids' = pids
    BY <1>1 DEF Works
  <2>2. \A g \in File : th'[g] = "none" <=> th[g] = "none"
    BY <1>1 DEF Works, TypeOK
  <2>3. Begun' /\ DirsInOrder' /\ FilesInOrder' /\ Exhausted'
    BY <1>0, <2>1, <2>2, OrderKept DEF Ended
  <2> QED
    BY <2>1, <2>3 DEF Progress, Ways
<1>2. ASSUME NEW f \in File, Crash(f) PROVE Progress'
  <2>1. next' = next /\ pc' = [pc EXCEPT ![Home(f)] = "crashed"] /\ pids' = pids
    BY <1>2 DEF Crash, files
  <2>2. Home(f) \in Dir /\ pc[Home(f)] \in {"loop", "join"}
    BY <1>2, LiveHome DEF Crash
  <2>3. \A d \in Dir : pc'[d] = IF d = Home(f) THEN "crashed" ELSE pc[d]
    BY <2>1, <2>2 DEF TypeOK
  <2>4. \A g \in File : Home(g) = Home(f) \/ th'[g] = th[g]
    BY <1>2 DEF Crash
  <2>5. \A g \in File : Ended(Home(g))' \/ (th'[g] = "none" <=> th[g] = "none")
    BY <2>2, <2>3, <2>4 DEF Ended
  <2>6. \A d \in Dir : Ended(d) => Ended(d)'
    BY <2>3 DEF Ended
  <2>7. Begun' /\ DirsInOrder' /\ FilesInOrder' /\ Exhausted'
    BY <1>0, <2>1, <2>2, <2>3, <2>5, <2>6, OrderKept
  <2>8. Ways'
    <3>1. Root \in Dir /\ pids \subseteq Dir
      BY ThreadTreeAssumption DEF TypeOK
    <3> QED
      BY <2>1, <2>3, <3>1 DEF Progress, Ways
  <2> QED
    BY <2>7, <2>8 DEF Progress
<1>3. ASSUME NEW d \in Dir, Create(d) PROVE Progress'
  <2> DEFINE k == next[d]
             f == Entry(d)
  <2>1. Listing(d) /\ f \in File /\ pc' = pc /\ pids' = pids /\ pc[d] = "loop"
    BY <1>3 DEF Create, Listing
  <2>2. /\ \A e \in Dir : next'[e] = IF e = d THEN k + 1 ELSE next[e]
        /\ \A g \in File : th'[g] = IF g = f THEN "ready" ELSE th[g]
        /\ k \in Nat
    BY <1>3 DEF Create, TypeOK
  <2>3. k \in DOMAIN Entries(d) /\ f = Entries(d)[k] /\ f \notin Dir
    BY <2>1, EntryType
  <2>4. \A e \in Dir : \A i \in DOMAIN Entries(e) : i \in Nat /\ (Entries(e)[i] = f => e = d /\ i = k)
    BY <2>3, Listing1, Entry1
  <2> HIDE DEF f, k
  <2>5. Begun'
    BY <2>1, <2>2 DEF Progress, Begun
  <2>6. DirsInOrder'
    <3> SUFFICES ASSUME NEW e \in Dir, NEW i \in DOMAIN Entries(e), Entries(e)[i] \in Dir
                 PROVE  pc[Entries(e)[i]] = "unborn" <=> i >= next'[e]
      BY <1>0, <2>1 DEF DirsInOrder
    <3>1. pc[Entries(e)[i]] = "unborn" <=> i >= next[e]
      BY DEF Progress, DirsInOrder
    <3>2. e = d => i # k
      BY <2>3
    <3> QED
      BY <2>2, <2>4, <3>1, <3>2 DEF k
  <2>7. FilesInOrder'
    <3> SUFFICES ASSUME NEW e \in Dir, NEW i \in DOMAIN Entries(e), Entries(e)[i] \in File, ~Ended(e)
                 PROVE  th'[Entries(e)[i]] = "none" <=> i >= next'[e]
      BY <1>0, <2>1 DEF FilesInOrder, Ended
    <3>1. th[Entries(e)[i]] = "none" <=> i >= next[e]
      BY DEF Progress, FilesInOrder
    <3>2. CASE Entries(e)[i] = f
      BY <2>2, <2>4, <3>2
    <3>3. CASE Entries(e)[i] # f
      BY <2>2, <2>3, <2>4, <3>1, <3>3 DEF k
    <3> QED
      BY <3>2, <3>3
  <2>8. Exhausted'
    BY <1>0, <2>1, <2>2 DEF Progress, Exhausted
  <2>9. Ways'
    BY <2>1 DEF Progress, Ways
  <2> QED
    BY <2>5, <2>6, <2>7, <2>8, <2>9 DEF Progress
<1>4. ASSUME NEW d \in Dir, Fork(d) PROVE Progress'
  <2> DEFINE k == next[d]
             c == Entry(d)
  <2>1. Listing(d) /\ c \in Dir /\ th' = th /\ pids' = pids /\ pc[d] = "loop"
    BY <1>4 DEF Fork, Listing
  <2>2. /\ \A e \in Dir : next'[e] = IF e = d THEN k + 1 ELSE next[e]
        /\ \A e \in Dir : pc'[e] = IF e = c THEN "born" ELSE pc[e]
        /\ k \in Nat
    BY <1>4 DEF Fork, TypeOK
  <2>3. k \in DOMAIN Entries(d) /\ c = Entries(d)[k] /\ c \notin File /\ c # Root
    BY <2>1, EntryType
  <2>4. \A e \in Dir : \A i \in DOMAIN Entries(e) : i \in Nat /\ (Entries(e)[i] = c => e = d /\ i = k)
    BY <2>3, Listing1, Entry1
  <2>5. pc[c] = "unborn" /\ next[c] = 1
    BY <2>1, NewEntry
  <2> HIDE DEF c, k
  <2>6. Begun'
    BY <2>1, <2>2, <2>5 DEF Progress, Begun
  <2>7. DirsInOrder'
    <3> SUFFICES ASSUME NEW e \in Dir, NEW i \in DOMAIN Entries(e), Entries(e)[i] \in Dir
                 PROVE  pc'[Entries(e)[i]] = "unborn" <=> i >= next'[e]
      BY <1>0 DEF DirsInOrder
    <3>1. pc[Entries(e)[i]] = "unborn" <=> i >= next[e]
      BY DEF Progress, DirsInOrder
    <3>2. CASE Entries(e)[i] = c
      BY <2>2, <2>4, <3>2
    <3>3. CASE Entries(e)[i] # c
      BY <2>2, <2>3, <2>4, <3>1, <3>3 DEF k
    <3> QED
      BY <3>2, <3>3
  <2>8. FilesInOrder'
    <3> SUFFICES ASSUME NEW e \in Dir, NEW i \in DOMAIN Entries(e), Entries(e)[i] \in File, ~Ended(e)'
                 PROVE  th[Entries(e)[i]] = "none" <=> i >= next'[e]
      BY <1>0, <2>1 DEF FilesInOrder
    <3>1. ~Ended(e)
      BY <2>2, <2>5 DEF Ended
    <3>2. th[Entries(e)[i]] = "none" <=> i >= next[e]
      BY <3>1 DEF Progress, FilesInOrder
    <3>3. e = d => i # k
      BY <2>3
    <3> QED
      BY <2>2, <2>4, <3>2, <3>3 DEF k
  <2>9. Exhausted'
    BY <1>0, <2>1, <2>2 DEF Progress, Exhausted
  <2>10. Ways'
    BY <2>1, <2>2, <2>3, <2>5, ThreadTreeAssumption DEF Progress, Ways, TypeOK
  <2> QED
    BY <2>6, <2>7, <2>8, <2>9, <2>10 DEF Progress
<1>5. ASSUME NEW d \in Dir, NEW x, Moves(d, x) PROVE Progress'
  <2>1. /\ next' = next /\ th' = th /\ pids' \subseteq pids \cup {d}
        /\ \A e \in Dir : pc'[e] = IF e = d THEN x ELSE pc[e]
    BY <1>5 DEF Moves, TypeOK
  <2>2. /\ x \notin {"unborn", "born"} /\ pc[d] # "unborn" /\ ~Ended(d)
        /\ x = "find" => pc[d] = "born"
        /\ x \in {"join", "wait", "record", "read", "count", "remove"} =>
             \/ pc[d] \in {"join", "wait", "record", "read", "count", "remove"}
             \/ next[d] > Len(Entries(d))
    BY <1>5 DEF Moves, Ended
  <2>3. \A e \in Dir : Ended(e) => Ended(e)'
    BY <2>1, <2>2 DEF Ended
  <2>4. Begun' /\ DirsInOrder' /\ FilesInOrder' /\ Exhausted'
    BY <1>0, <2>1, <2>2, <2>3, OrderKept
  <2>5. /\ x \in {"read", "count", "remove"} => d = Root
        /\ d = Root => x # "record"
    BY <1>5 DEF Moves, Progress, Ways
  <2>6. Ways'
    BY <2>1, <2>2, <2>5, ThreadTreeAssumption DEF Progress, Ways, TypeOK
  <2> QED
    BY <2>4, <2>6 DEF Progress
<1>6. ASSUME Interrupt PROVE Progress'
  <2>1. /\ next' = next /\ pids' = {} /\ pc'[Root] = "killed"
        /\ \A d \in Dir : pc'[d] = pc[d] \/ (pc'[d] = "killed" /\ pc[d] # "unborn" /\ ~Ended(d))
        /\ \A d \in Dir : d \in Killed => Ended(d)'
    BY <1>6, Interrupted
  <2>2. \A f \in File : th'[f] = th[f] \/ Home(f) \in Killed
    BY <1>6, Interrupted
  <2>3. \A f \in File : Ended(Home(f))' \/ th'[f] = th[f]
    BY <2>1, <2>2, HomeOf
  <2>4. \A d \in Dir : Ended(d) => Ended(d)'
    BY <2>1 DEF Ended
  <2>5. Begun' /\ DirsInOrder' /\ FilesInOrder' /\ Exhausted'
    BY <1>0, <2>1, <2>3, <2>4, OrderKept
  <2>6. Ways'
    BY <2>1 DEF Progress, Ways
  <2> QED
    BY <2>5, <2>6 DEF Progress
<1>7. ASSUME UNCHANGED vars PROVE Progress'
  <2>1. next' = next /\ pids' = pids /\ pc' = pc /\ th' = th
    BY <1>7 DEF vars, thread, files
  <2>2. Begun' /\ DirsInOrder' /\ FilesInOrder' /\ Exhausted'
    BY <1>0, <2>1, OrderKept DEF Ended
  <2> QED
    BY <2>1, <2>2 DEF Progress, Ways
<1> QED
  BY <1>1, <1>2, <1>3, <1>4, <1>5, <1>6, <1>7 DEF StepKinds
---------------------------------------------------------------------------
(* The unwritten marks, and what ends *)

LEMMA DashedKept ==
  ASSUME TypeOK, Progress, Reaped, Dashed, StepKinds
  PROVE  Dashed'
<1>0. \A f \in File : Home(f) \in Dir
  BY HomeOf
<1> DEFINE live == {"ready", "scan", "printed"}
<1>1. ASSUME NEW f \in File, NEW y, Works(f, y) PROVE Dashed'
  <2>1. \A g \in File : th'[g] = IF g = f THEN y ELSE th[g]
    BY <1>1 DEF Works, TypeOK
  <2>2. CASE y = "dash"
    <3>1. th[f] = "scan" /\ \A e \in Dir : e # Home(f) => dashes'[e] = dashes[e]
      BY <1>1, <2>2 DEF Works, TypeOK
    <3> QED
      BY <1>0, <2>1, <2>2, <3>1 DEF Dashed
  <2>3. CASE y = "end"
    <3>1. /\ th[f] = "dash" /\ dashes'[Home(f)] = 0
          /\ \A e \in Dir : e # Home(f) => dashes'[e] = dashes[e]
      BY <1>0, <1>1, <2>3 DEF Works, TypeOK
    <3> QED
      BY <1>0, <2>1, <2>3, <3>1 DEF Dashed
  <2>4. CASE y \notin {"dash", "end"}
    <3>1. dashes' = dashes /\ th[f] \in live
      BY <1>1, <2>4 DEF Works
    <3> QED
      BY <2>1, <2>4, <3>1 DEF Dashed
  <2> QED
    BY <2>2, <2>3, <2>4
<1>2. ASSUME NEW f \in File, Crash(f) PROVE Dashed'
  <2>1. /\ dashes' = dashes
        /\ \A g \in File : th'[g] = IF Home(g) = Home(f) THEN "dead" ELSE th[g]
    BY <1>2 DEF Crash, files
  <2> QED
    BY <2>1 DEF Dashed
<1>3. ASSUME NEW d \in Dir, Create(d) PROVE Dashed'
  <2>1. Entry(d) \in File /\ Home(Entry(d)) = d
    BY <1>3, EntryType DEF Create
  <2>2. /\ \A g \in File : th'[g] = IF g = Entry(d) THEN "ready" ELSE th[g]
        /\ \A e \in Dir : dashes'[e] = IF e = d THEN 0 ELSE dashes[e]
    BY <1>3 DEF Create, TypeOK
  <2> HIDE DEF live
  <2> QED
    BY <1>0, <2>1, <2>2 DEF Dashed
<1>4. ASSUME NEW d \in Dir, Fork(d) PROVE Dashed'
  <2>1. Entry(d) \in Dir /\ pc[Entry(d)] = "unborn" /\ th' = th
    BY <1>4, NewEntry DEF Fork
  <2>2. \A f \in File : th[f] \in live => Home(f) # Entry(d)
    BY <2>1, LiveHome
  <2>3. \A e \in Dir : e # Entry(d) => dashes'[e] = dashes[e]
    BY <1>4 DEF Fork, TypeOK
  <2> QED
    BY <1>0, <2>1, <2>2, <2>3 DEF Dashed
<1>5. ASSUME NEW d \in Dir, NEW x, Moves(d, x) PROVE Dashed'
  <2>1. th' = th /\ \A e \in Dir : dashes'[e] = dashes[e] \/ dashes'[e] = 0
    BY <1>5 DEF Moves
  <2> QED
    BY <1>0, <2>1 DEF Dashed
<1>6. ASSUME Interrupt PROVE Dashed'
  <2>1. /\ \A e \in Dir : dashes'[e] = dashes[e] \/ dashes'[e] = 0
        /\ \A f \in File : \/ th'[f] = th[f] /\ (Home(f) \notin Killed \/ th[f] = "end")
                           \/ th'[f] = "dead" /\ Home(f) \in Killed
    BY <1>6, Interrupted
  <2> SUFFICES ASSUME NEW f \in File, th'[f] \in live, dashes'[Home(f)] = 1
               PROVE  \E g \in File : Home(g) = Home(f) /\ th'[g] = "dash"
    BY DEF Dashed
  <2>2. th[f] \in live /\ dashes[Home(f)] = 1 /\ Home(f) \notin Killed
    BY <1>0, <2>1
  <2>3. PICK g \in File : Home(g) = Home(f) /\ th[g] = "dash"
    BY <2>2 DEF Dashed
  <2> QED
    BY <2>1, <2>2, <2>3
<1>7. ASSUME UNCHANGED vars PROVE Dashed'
  BY <1>7 DEF Dashed, vars, thread, files
<1> QED
  BY <1>1, <1>2, <1>3, <1>4, <1>5, <1>6, <1>7 DEF StepKinds

\* Nothing but a thread that goes on, a fork and an end changes these.
LEMMA EndedSame ==
  ASSUME NEW d \in Dir, pc'[d] = pc[d]
  PROVE  Ended(d)' <=> Ended(d)
BY DEF Ended

LEMMA CausesKept ==
  ASSUME TypeOK, Progress, Reaped, StepKinds
  PROVE  Causes'
<1>0. closed' = closed
  BY InputSame
<1>1. ASSUME \A d \in Dir : pc'[d] \in {"killed", "crashed"} => pc[d] = pc'[d],
             pc[Root] = "killed" => pc'[Root] = "killed"
      PROVE  Causes'
  BY <1>0, <1>1 DEF Reaped, Causes, Whole, Crashed
<1>2. Root \in Dir /\ (pc[Root] = "killed" => pc'[Root] = "killed")
  BY Stays, ThreadTreeAssumption DEF Ended
<1>3. ASSUME NEW f \in File, NEW y, Works(f, y) PROVE Causes'
  <2>1. pc' = pc
    BY <1>3 DEF Works
  <2> QED
    BY <1>1, <1>2, <2>1
<1>4. ASSUME NEW f \in File, Crash(f) PROVE Causes'
  <2>1. closed # {} /\ \A d \in Dir : pc'[d] = pc[d] \/ pc'[d] = "crashed"
    BY <1>4 DEF Crash, TypeOK
  <2> QED
    BY <1>0, <1>2, <2>1 DEF Reaped, Causes, Whole
<1>5. ASSUME NEW d \in Dir, Create(d) PROVE Causes'
  <2>1. pc' = pc
    BY <1>5 DEF Create
  <2> QED
    BY <1>1, <1>2, <2>1
<1>6. ASSUME NEW d \in Dir, Fork(d) PROVE Causes'
  <2>1. \A e \in Dir : pc'[e] = pc[e] \/ pc'[e] = "born"
    BY <1>6 DEF Fork, TypeOK
  <2> QED
    BY <1>1, <1>2, <2>1
<1>7. ASSUME NEW d \in Dir, NEW x, Moves(d, x) PROVE Causes'
  <2>1. x \notin {"killed", "crashed"} /\ \A e \in Dir : pc'[e] = pc[e] \/ pc'[e] = x
    BY <1>7 DEF Moves, TypeOK
  <2> QED
    BY <1>1, <1>2, <2>1
<1>8. ASSUME Interrupt PROVE Causes'
  <2>1. pc'[Root] = "killed" /\ \A d \in Dir : pc'[d] = pc[d] \/ pc'[d] = "killed"
    BY <1>8, Interrupted
  <2> QED
    BY <1>0, <2>1 DEF Reaped, Causes, Whole, Crashed
<1>9. ASSUME UNCHANGED vars PROVE Causes'
  BY <1>1, <1>2, <1>9 DEF vars
<1> QED
  BY <1>3, <1>4, <1>5, <1>6, <1>7, <1>8, <1>9 DEF StepKinds

\* A process keeps what it has joined and waited for.
LEMMA KeepsEnded ==
  ASSUME TypeOK, Progress, Reaped, StepKinds, NEW d \in Dir
  PROVE  (Waited(d) => Waited(d)') /\ (Joined(d) => Joined(d)')
<1>1. Waited(d) => Waited(d)'
  <2>1. \A c \in ToSet(Subdirs[d]) : c \in Dir
    BY Tree
  <2> QED
    BY <2>1, Stays DEF Waited, Ended
<1>2. ASSUME \A f \in ToSet(Files[d]) : th[f] = "end" => th'[f] = "end"
      PROVE  Joined(d) => Joined(d)'
  BY <1>2 DEF Joined
<1>3. \A f \in ToSet(Files[d]) : f \in File /\ Home(f) = d
  BY HomeOf
<1>4. ASSUME NEW f \in File, NEW y, Works(f, y) PROVE Joined(d) => Joined(d)'
  <2>1. th[f] # "end" /\ \A g \in File : g # f => th'[g] = th[g]
    BY <1>4 DEF Works, TypeOK
  <2> QED
    BY <1>2, <1>3, <2>1
<1>5. ASSUME NEW f \in File, Crash(f) PROVE Joined(d) => Joined(d)'
  <2>1. th[f] = "ready" /\ \A g \in File : Home(g) # Home(f) => th'[g] = th[g]
    BY <1>5 DEF Crash
  <2>2. CASE d = Home(f)
    BY <2>1, <2>2, HomeOf DEF Joined
  <2>3. CASE d # Home(f)
    BY <1>2, <1>3, <2>1, <2>3
  <2> QED
    BY <2>2, <2>3
<1>6. ASSUME NEW e \in Dir, Create(e) PROVE Joined(d) => Joined(d)'
  <2>1. /\ Entry(e) \in File /\ th[Entry(e)] = "none"
        /\ \A g \in File : g # Entry(e) => th'[g] = th[g]
    BY <1>6, NewEntry DEF Create, TypeOK
  <2> QED
    BY <1>2, <1>3, <2>1
<1>7. ASSUME (\E e \in Dir : Fork(e)) \/ (\E e \in Dir : \E x : Moves(e, x)) \/ UNCHANGED vars
      PROVE  Joined(d) => Joined(d)'
  <2>1. th' = th
    BY <1>7 DEF Fork, Moves, vars, thread
  <2> QED
    BY <1>2, <2>1
<1>8. ASSUME Interrupt PROVE Joined(d) => Joined(d)'
  <2>1. \A f \in File : th[f] = "end" => th'[f] = th[f]
    BY <1>8 DEF Interrupt
  <2> QED
    BY <1>2, <1>3, <2>1
<1> QED
  BY <1>1, <1>4, <1>5, <1>6, <1>7, <1>8 DEF StepKinds

\* Who goes on, and who ends.
LEMMA PcSteps ==
  ASSUME TypeOK, Progress, Reaped, StepKinds, NEW d \in Dir
  PROVE  \/ pc'[d] = pc[d]
         \/ pc[d] = "unborn" /\ pc'[d] = "born"
         \/ pc[d] \in {"loop", "join"} /\ pc'[d] = "crashed" /\ d \notin closed
         \/ pc[d] # "unborn" /\ pc'[d] = "killed" /\ ~Ended(d)
         \/ Moves(d, pc'[d])
<1>1. ASSUME NEW f \in File, NEW y, Works(f, y) PROVE pc' = pc
  BY <1>1 DEF Works
<1>2. ASSUME NEW f \in File, Crash(f)
      PROVE  pc'[d] = pc[d] \/ (pc[d] \in {"loop", "join"} /\ pc'[d] = "crashed" /\ d \notin closed)
  <2>1. Home(f) \notin closed /\ pc[Home(f)] \in {"loop", "join"}
    BY <1>2, LiveHome DEF Crash
  <2>2. pc' = [pc EXCEPT ![Home(f)] = "crashed"]
    BY <1>2 DEF Crash
  <2> QED
    BY <2>1, <2>2 DEF TypeOK
<1>3. ASSUME NEW e \in Dir, Create(e) PROVE pc' = pc
  BY <1>3 DEF Create
<1>4. ASSUME NEW e \in Dir, Fork(e) PROVE pc'[d] = pc[d] \/ (pc[d] = "unborn" /\ pc'[d] = "born")
  <2>1. pc' = [pc EXCEPT ![Entry(e)] = "born"] /\ pc[Entry(e)] = "unborn"
    BY <1>4, NewEntry DEF Fork
  <2> QED
    BY <2>1 DEF TypeOK
<1>5. ASSUME NEW e \in Dir, NEW x, Moves(e, x) PROVE pc'[d] = pc[d] \/ Moves(d, pc'[d])
  <2>1. pc' = [pc EXCEPT ![e] = x]
    BY <1>5 DEF Moves
  <2>2. d # e => pc'[d] = pc[d]
    BY <2>1 DEF TypeOK
  <2>3. d = e => pc'[d] = x
    BY <2>1 DEF TypeOK
  <2> QED
    BY <1>5, <2>2, <2>3
<1>6. ASSUME Interrupt
      PROVE  pc'[d] = pc[d] \/ (pc[d] # "unborn" /\ pc'[d] = "killed" /\ ~Ended(d))
  BY <1>6, Interrupted
<1>7. UNCHANGED vars => pc' = pc
  BY DEF vars
<1> QED
  BY <1>1, <1>2, <1>3, <1>4, <1>5, <1>6, <1>7 DEF StepKinds

LEMMA UnopenedKept ==
  ASSUME TypeOK, Progress, Reaped, StepKinds
  PROVE  Unopened'
<1>0. closed' = closed
  BY InputSame
<1>1. ASSUME NEW d \in Dir, d \in closed
      PROVE  pc'[d] \in {"unborn", "born", "find", "gone", "killed"}
  <2>1. pc[d] \in {"unborn", "born", "find", "gone", "killed"}
    BY <1>1 DEF Reaped, Unopened
  <2>2. Moves(d, pc'[d]) => pc'[d] \in {"find", "gone"}
    BY <1>1, <2>1 DEF Moves
  <2> QED
    BY <1>1, <2>1, <2>2, PcSteps
<1>2. ASSUME NEW d \in Dir, d \in closed, pc'[d] = "gone" PROVE next'[d] = 1
  <2>1. pc[d] # "loop"
    BY <1>2 DEF Reaped, Unopened
  <2>2. next'[d] = next[d]
    BY <2>1 DEF StepKinds, Works, Crash, Create, Fork, Moves, Interrupt, Listing, TypeOK, vars
  <2>3. pc[d] = "gone" \/ pc[d] = "find"
    <3>1. Moves(d, pc'[d]) => pc[d] \in {"find", "record", "remove"}
      BY <1>2 DEF Moves
    <3>2. pc[d] \notin {"record", "remove"}
      BY <1>2 DEF Reaped, Unopened
    <3> QED
      BY <1>2, <3>1, <3>2, PcSteps
  <2>4. next[d] = 1
    BY <1>2, <2>3 DEF Reaped, Unopened, Progress, Begun
  <2> QED
    BY <2>2, <2>4
<1> QED
  BY <1>0, <1>1, <1>2 DEF Unopened

LEMMA WaitsKept ==
  ASSUME TypeOK, Progress, Reaped, StepKinds
  PROVE  ChildrenEnded' /\ ThreadsJoined' /\ EntriesHandedOut'
<1>0. closed' = closed /\ \A d \in Dir : Entries(d)' = Entries(d)
  BY InputSame
<1>1. ASSUME NEW d \in Dir, pc'[d] \in {"record", "read", "count", "remove"} \/ Recorded(d)'
      PROVE  Waited(d)'
  <2>1. pc'[d] = pc[d] => Waited(d)
    BY <1>0, <1>1 DEF Reaped, ChildrenEnded, Recorded
  <2>2. Moves(d, pc'[d]) => Waited(d)
    BY <1>0, <1>1 DEF Reaped, ChildrenEnded, Recorded, Moves
  <2>3. Waited(d)
    BY <1>1, <2>1, <2>2, PcSteps DEF Recorded
  <2> QED
    BY <2>3, KeepsEnded
<1>2. ASSUME NEW d \in Dir,
             pc'[d] \in {"wait", "record", "read", "count", "remove"} \/ Recorded(d)'
      PROVE  Joined(d)'
  <2>1. pc'[d] = pc[d] => Joined(d)
    BY <1>0, <1>2 DEF Reaped, ThreadsJoined, Recorded
  <2>2. Moves(d, pc'[d]) => Joined(d)
    BY <1>0, <1>2 DEF Reaped, ThreadsJoined, Recorded, Moves
  <2>3. Joined(d)
    BY <1>2, <2>1, <2>2, PcSteps DEF Recorded
  <2> QED
    BY <2>3, KeepsEnded
<1>3. ASSUME NEW d \in Dir, Recorded(d)' PROVE next'[d] > Len(Entries(d))
  <2>1. pc'[d] = pc[d] => next[d] > Len(Entries(d)) /\ pc[d] = "gone"
    BY <1>0, <1>3 DEF Reaped, EntriesHandedOut, Recorded
  <2>2. Moves(d, pc'[d]) => next[d] > Len(Entries(d)) /\ pc[d] \in {"record", "remove"}
    BY <1>0, <1>3 DEF Progress, Exhausted, Recorded, Moves
  <2>3. next[d] > Len(Entries(d)) /\ pc[d] # "loop"
    BY <1>3, <2>1, <2>2, PcSteps DEF Recorded
  <2>4. next'[d] = next[d]
    BY <2>3 DEF StepKinds, Works, Crash, Create, Fork, Moves, Interrupt, Listing, TypeOK, vars
  <2> QED
    BY <2>3, <2>4
<1> QED
  BY <1>0, <1>1, <1>2, <1>3 DEF ChildrenEnded, ThreadsJoined, EntriesHandedOut

LEMMA ThreadsEndedKept ==
  ASSUME TypeOK, Progress, Reaped, StepKinds
  PROVE  ThreadsEnded'
<1>0. \A f \in File : Home(f) \in Dir /\ f \in ToSet(Files[Home(f)])
  BY HomeOf
<1> DEFINE over(g) == /\ Ended(Home(g))' => th'[g] \in {"none", "end", "dead"}
                      /\ th'[g] = "dead" => Ended(Home(g))' /\ (pc'[Root] = "killed" \/ Crashed')
<1>1. ASSUME NEW g \in File, Ended(Home(g))' <=> Ended(Home(g)), th'[g] = th[g] PROVE over(g)
  <2>1. pc[Root] = "killed" => pc'[Root] = "killed"
    BY Stays, ThreadTreeAssumption DEF Ended
  <2>2. Crashed => Crashed'
    BY Stays DEF Ended, Crashed
  <2> QED
    BY <1>1, <2>1, <2>2 DEF Reaped, ThreadsEnded
<1>2. ASSUME NEW g \in File, ~Ended(Home(g))', th'[g] # "dead" PROVE over(g)
  BY <1>2
<1>3. ASSUME NEW f \in File, NEW y, Works(f, y), NEW g \in File PROVE over(g)
  <2>1. pc' = pc
    BY <1>3 DEF Works
  <2>2. CASE g = f
    <3>1. th[f] \in {"ready", "scan", "printed", "dash"} /\ th'[f] # "dead"
      BY <1>3 DEF Works, TypeOK
    <3>2. ~Ended(Home(f))
      BY <3>1, LiveHome DEF Ended
    <3> QED
      BY <1>2, <2>1, <2>2, <3>1, <3>2 DEF Ended
  <2>3. CASE g # f
    <3>1. th'[g] = th[g]
      BY <1>3, <2>3 DEF Works, TypeOK
    <3> QED
      BY <1>1, <2>1, <3>1 DEF Ended
  <2> QED
    BY <2>2, <2>3
<1>4. ASSUME NEW f \in File, Crash(f), NEW g \in File PROVE over(g)
  <2>1. pc' = [pc EXCEPT ![Home(f)] = "crashed"]
    BY <1>4 DEF Crash
  <2>2. th'[g] = IF Home(g) = Home(f) THEN "dead" ELSE th[g]
    BY <1>4 DEF Crash
  <2>3. CASE Home(g) = Home(f)
    BY <1>0, <2>1, <2>2, <2>3 DEF TypeOK, Ended, Crashed
  <2>4. CASE Home(g) # Home(f)
    <3>1. pc'[Home(g)] = pc[Home(g)]
      BY <1>0, <2>1, <2>4 DEF TypeOK
    <3> QED
      BY <1>0, <1>1, <2>2, <2>4, <3>1, EndedSame
  <2> QED
    BY <2>3, <2>4
<1>5. ASSUME NEW d \in Dir, Create(d), NEW g \in File PROVE over(g)
  <2>1. pc' = pc /\ pc[d] = "loop" /\ Home(Entry(d)) = d
    BY <1>5, EntryType DEF Create, Listing
  <2>2. th'[g] = IF g = Entry(d) THEN "ready" ELSE th[g]
    BY <1>5 DEF Create, TypeOK
  <2>3. CASE g = Entry(d)
    BY <1>2, <2>1, <2>2, <2>3 DEF Ended
  <2>4. CASE g # Entry(d)
    BY <1>1, <2>1, <2>2, <2>4 DEF Ended
  <2> QED
    BY <2>3, <2>4
<1>6. ASSUME NEW d \in Dir, Fork(d), NEW g \in File PROVE over(g)
  <2>1. pc' = [pc EXCEPT ![Entry(d)] = "born"] /\ pc[Entry(d)] = "unborn" /\ th' = th
    BY <1>6, NewEntry DEF Fork
  <2>2. Ended(Home(g))' <=> Ended(Home(g))
    BY <1>0, <2>1 DEF Ended, TypeOK
  <2> QED
    BY <1>1, <2>1, <2>2
<1>7. ASSUME NEW d \in Dir, NEW x, Moves(d, x), NEW g \in File PROVE over(g)
  <2>1. th' = th /\ pc' = [pc EXCEPT ![d] = x] /\ ~Ended(d)
    BY <1>7 DEF Moves, Ended
  <2>2. CASE Home(g) # d
    <3>1. pc'[Home(g)] = pc[Home(g)]
      BY <1>0, <2>1, <2>2 DEF TypeOK
    <3> QED
      BY <1>0, <1>1, <2>1, <3>1, EndedSame
  <2>3. CASE Home(g) = d /\ x # "gone"
    <3>1. x \notin {"gone", "killed", "crashed"} /\ pc'[d] = x
      BY <1>7, <2>3 DEF Moves, TypeOK
    <3>2. ~Ended(Home(g))'
      BY <2>3, <3>1 DEF Ended
    <3> QED
      BY <1>1, <2>1, <2>3, <3>2
  <2>4. CASE Home(g) = d /\ x = "gone"
    <3>1. th[g] # "dead"
      BY <2>1, <2>4 DEF Reaped, ThreadsEnded
    <3>2. CASE pc[d] = "find"
      <4>1. next[d] = 1
        BY <1>7, <3>2 DEF Progress, Begun
      <4>2. th[g] = "none"
        BY <1>0, <2>1, <2>4, <4>1, NothingYet
      <4> QED
        BY <2>1, <4>2
    <3>3. CASE pc[d] # "find"
      <4>1. pc[d] \in {"record", "remove"}
        BY <1>7, <2>4, <3>3 DEF Moves
      <4>2. th[g] = "end"
        BY <1>0, <1>7, <2>4, <4>1 DEF Reaped, ThreadsJoined, Joined
      <4> QED
        BY <2>1, <4>2
    <3> QED
      BY <3>2, <3>3
  <2> QED
    BY <2>2, <2>3, <2>4
<1>8. ASSUME Interrupt, NEW g \in File PROVE over(g)
  <2>1. /\ pc'[Root] = "killed"
        /\ pc'[Home(g)] = pc[Home(g)] \/ Home(g) \in Killed
        /\ Home(g) \in Killed => Ended(Home(g))'
    BY <1>0, <1>8, Interrupted
  <2>2. \/ th'[g] = th[g] /\ (Home(g) \notin Killed \/ th[g] = "end")
        \/ th'[g] = "dead" /\ Home(g) \in Killed
    BY <1>8, Interrupted
  <2>3. CASE Home(g) \in Killed
    BY <2>1, <2>2, <2>3
  <2>4. CASE Home(g) \notin Killed
    BY <1>0, <1>1, <2>1, <2>2, <2>4, EndedSame
  <2> QED
    BY <2>3, <2>4
<1>9. ASSUME UNCHANGED vars, NEW g \in File PROVE over(g)
  BY <1>1, <1>9 DEF vars, thread, Ended
<1>10. \A g \in File : over(g)
  BY <1>3, <1>4, <1>5, <1>6, <1>7, <1>8, <1>9 DEF StepKinds
<1> QED
  BY <1>10 DEF ThreadsEnded

LEMMA UnwrittenKept ==
  ASSUME TypeOK, Progress, Reaped, StepKinds
  PROVE  Unwritten'
<1>1. Past \subseteq Past'
  BY Stays DEF Past, Ended
<1>2. history' = history \/ history' = NoHistory => Unwritten'
  BY <1>1 DEF Reaped, Unwritten
<1>3. ASSUME NEW d \in Dir, NEW x, Moves(d, x), history' # history, history' # NoHistory
      PROVE  d \in Past'
  BY <1>3 DEF Moves, Past, TypeOK
<1>4. Interrupt => history' = NoHistory
  BY DEF Interrupt
<1>5. \/ history' = history \/ history' = NoHistory
      \/ \E d \in Dir : \E x : Moves(d, x) /\ history' # history /\ history' # NoHistory
  BY <1>4 DEF StepKinds, Works, Crash, Create, Fork, Interrupt, vars, files
<1> QED
  BY <1>2, <1>3, <1>5 DEF Unwritten
---------------------------------------------------------------------------
(* From the main process everything is reached. *)

\* If nobody was killed and none crashed, who has ended has ended all below it.
LEMMA Reached ==
  ASSUME TypeOK, Progress, Reaped, Calm,
         \A c \in ToSet(Subdirs[Root]) : pc[c] = "unborn" \/ Ended(c)
  PROVE  \A d \in Dir \ {Root} : pc[d] = "unborn" \/ Ended(d)
<1> DEFINE S == {d \in Dir \ {Root} : ~(pc[d] = "unborn" \/ Ended(d))}
<1> SUFFICES ASSUME S # {} PROVE FALSE
  OBVIOUS
<1>1. PICK d \in Dir \ S : ToSet(Subdirs[d]) \cap S # {}
  <2>1. S \in SUBSET (Dir \ {Root})
    OBVIOUS
  <2> HIDE DEF S
  <2> QED
    BY <2>1, ThreadTreeAssumption
<1>2. PICK c \in ToSet(Subdirs[d]) : c \in S
  BY <1>1
<1>3. d # Root
  BY <1>2
<1>4. pc[d] = "unborn" \/ Ended(d)
  BY <1>3
<1>5. next[d] # 1
  <2>1. pc[c] # "unborn"
    BY <1>2
  <2> QED
    BY <1>2, <2>1, NothingYet
<1>6. pc[d] # "unborn"
  BY <1>5 DEF Progress, Begun
<1>7. pc[d] = "gone"
  BY <1>4, <1>6 DEF Ended, Calm, Crashed, Reaped, Causes
<1>8. Recorded(d)
  BY <1>5, <1>7 DEF Recorded, Reaped, Unopened
<1>9. Waited(d)
  BY <1>8 DEF Reaped, ChildrenEnded
<1> QED
  BY <1>2, <1>9 DEF Waited

\* As long as the main process has not forked there is nobody else.
LEMMA Alone ==
  ASSUME TypeOK, Progress, pc[Root] = "find"
  PROVE  \A d \in Dir \ {Root} : pc[d] = "unborn"
<1> DEFINE S == {d \in Dir \ {Root} : pc[d] # "unborn"}
<1> SUFFICES ASSUME S # {} PROVE FALSE
  OBVIOUS
<1>1. PICK d \in Dir \ S : ToSet(Subdirs[d]) \cap S # {}
  <2>1. S \in SUBSET (Dir \ {Root})
    OBVIOUS
  <2> HIDE DEF S
  <2> QED
    BY <2>1, ThreadTreeAssumption
<1>2. PICK c \in ToSet(Subdirs[d]) : c \in S
  BY <1>1
<1>3. next[d] = 1
  BY DEF Progress, Begun
<1>4. pc[c] = "unborn"
  BY <1>2, <1>3, NothingYet
<1> QED
  BY <1>2, <1>4

Over == \A d \in Dir : pc[d] = "unborn" \/ Ended(d)

LEMMA QuietKept ==
  ASSUME TypeOK, Progress, Reaped, Quiet, StepKinds
  PROVE  Quiet'
<1>0. Root \in Dir /\ closed' = closed
  BY InputSame, ThreadTreeAssumption
<1> SUFFICES ASSUME pc'[Root] \in {"gone", "killed"}, missed' = {}, ~Crashed'
             PROVE  Over' /\ history' = NoHistory
  BY DEF Quiet, Over
<1>1. ~Crashed
  BY Stays DEF Crashed, Ended
<1>2. CASE Interrupt
  BY <1>2, Interrupted DEF Over, Ended
<1>3. CASE ~Interrupt /\ pc[Root] \in {"gone", "killed"}
  <2>1. missed' = missed
    BY <1>3 DEF StepKinds, Works, Crash, Create, Fork, Moves, vars, outcome
  <2>2. Over /\ history = NoHistory
    BY <1>1, <1>3, <2>1 DEF Quiet, Over
  <2>3. \A f \in File : th[f] \notin {"ready", "scan", "printed", "dash"}
    BY <2>2, LiveHome DEF Over, Ended
  <2>4. UNCHANGED vars
    BY <1>3, <2>2, <2>3 DEF StepKinds, Works, Crash, Create, Fork, Listing, Moves, Over, Ended
  <2> QED
    BY <2>2, <2>4 DEF Over, Ended, vars, files
<1>4. CASE ~Interrupt /\ pc[Root] \notin {"gone", "killed"}
  <2>1. PICK d \in Dir : \E x : Moves(d, x)
    BY <1>0, <1>4 DEF StepKinds, Works, Crash, Create, Fork, vars, TypeOK
  <2>2. PICK x : Moves(d, x)
    BY <2>1
  <2>3. d = Root /\ x = "gone" /\ pc[Root] \in {"find", "record", "remove"}
    BY <1>0, <1>4, <2>2 DEF Moves, TypeOK
  <2>4. pc[Root] # "record"
    BY DEF Progress, Ways
  <2>5. pc' = [pc EXCEPT ![Root] = "gone"]
    BY <2>2, <2>3 DEF Moves
  <2>6. CASE pc[Root] = "find"
    <3>1. \A e \in Dir \ {Root} : pc[e] = "unborn"
      BY <2>6, Alone
    <3>2. Past = {}
      BY <3>1 DEF Past
    <3>3. history' = NoHistory
      BY <2>2, <2>3, <2>6, <3>2 DEF Moves, Reaped, Unwritten
    <3> QED
      BY <2>5, <3>1, <3>3 DEF Over, Ended, TypeOK
  <2>7. CASE pc[Root] = "remove"
    <3>1. Waited(Root)
      BY <1>0, <2>7 DEF Reaped, ChildrenEnded
    <3>2. Calm
      BY <1>1, <2>7 DEF Calm
    <3>3. \A e \in Dir \ {Root} : pc[e] = "unborn" \/ Ended(e)
      BY <3>1, <3>2, Reached DEF Waited
    <3>4. history' = NoHistory
      BY <2>2, <2>3, <2>7 DEF Moves
    <3> QED
      BY <2>5, <3>3, <3>4 DEF Over, Ended, TypeOK
  <2> QED
    BY <2>3, <2>4, <2>6, <2>7
<1> QED
  BY <1>2, <1>3, <1>4
---------------------------------------------------------------------------
(* The safety invariant *)

LEMMA TypeKept ==
  ASSUME TypeOK, LockInv, Dashed, [Next]_vars
  PROVE  TypeOK'
<1>1. ASSUME NEW f \in File, Thread(f) PROVE TypeOK'
  BY <1>1, ThreadTypes
<1>2. ASSUME NEW d \in Dir, Process(d) PROVE TypeOK'
  BY <1>2, ProcessTypes
<1> QED
  BY <1>1, <1>2, MainTypes DEF Next

LEMMA SafeKept ==
  ASSUME SafeInv, [Next]_vars
  PROVE  SafeInv'
<1>1. TypeOK /\ LockInv /\ Progress /\ Dashed /\ Reaped /\ Quiet
  BY DEF SafeInv
<1>2. StepKinds
  BY <1>1, Kinds
<1>3. TypeOK'
  BY <1>1, TypeKept
<1>4. LockInv' /\ Progress' /\ Dashed'
  BY <1>1, <1>2, LockKept, ProgressKept, DashedKept
<1>5. Reaped'
  BY <1>1, <1>2, CausesKept, UnopenedKept, WaitsKept, ThreadsEndedKept, UnwrittenKept DEF Reaped
<1>6. Quiet'
  BY <1>1, <1>2, QuietKept
<1> QED
  BY <1>3, <1>4, <1>5, <1>6 DEF SafeInv

\* The variables keep their types, one thread at a time has the semaphore, entries are
\* handed out in their order, and who ends has ended what it waits for.
THEOREM Safety == Spec => []SafeInv
<1>1. Init => SafeInv
  BY InitType, InitSafe DEF SafeInv
<1>2. SafeInv /\ [Next]_vars => SafeInv'
  BY SafeKept
<1> QED
  BY <1>1, <1>2, PTL DEF Spec

\* Every variable has its type: there is never more than one unwritten mark in a
\* process, and sem_post never makes the semaphore more than one.
THEOREM TypeCorrect == Spec => []TypeOK
<1>1. SafeInv => TypeOK
  BY DEF SafeInv
<1> QED
  BY <1>1, Safety, PTL

\* A process that crashes keeps the semaphore: no thread of any process searches again.
THEOREM CrashEndsSearch == Spec => []CrashStops
<1>1. SafeInv => CrashStops
  BY DEF SafeInv, LockInv, Holds, CrashStops
<1> QED
  BY <1>1, Safety, PTL

\* The main process comes to its end after all the others, and leaves no history.txt.
THEOREM QuietAtTheEnd == Spec => []Quiet
<1>1. SafeInv => Quiet
  BY DEF SafeInv
<1> QED
  BY <1>1, Safety, PTL
---------------------------------------------------------------------------
(* Nobody waits for ever unless a process crashed *)

\* Somebody who can give it back has the semaphore.
Owned == pc[Root] # "killed" /\ ~Crashed /\ sem = 0 => \E f \in File : Holds(f)

LEMMA OwnedKept ==
  ASSUME SafeInv, Owned, [Next]_vars
  PROVE  Owned'
<1>0. TypeOK /\ LockInv /\ Progress /\ Reaped /\ StepKinds
  BY Kinds DEF SafeInv
<1>1. ASSUME sem' = sem, \A g \in File : Holds(g) => Holds(g)', Crashed => Crashed',
             pc[Root] = "killed" => pc'[Root] = "killed"
      PROVE  Owned'
  BY <1>1 DEF Owned
<1>2. ASSUME NEW f \in File, NEW y, Works(f, y) PROVE Owned'
  <2>1. /\ pc' = pc /\ \A g \in File : th'[g] = IF g = f THEN y ELSE th[g]
    BY <1>0, <1>2 DEF Works, TypeOK
  <2>2. CASE y \in {"scan", "printed", "dash"}
    <3>1. Holds(f)'
      BY <2>1, <2>2 DEF Holds
    <3> QED
      BY <3>1 DEF Owned
  <2>3. CASE y = "end"
    <3>1. th[f] = "dash" /\ sem' = sem + 1 /\ sem \in 0 .. 1
      BY <1>0, <1>2, <2>3 DEF Works, TypeOK
    <3>2. sem' # 0
      BY <3>1
    <3> QED
      BY <3>2 DEF Owned
  <2> QED
    BY <1>2, <2>2, <2>3 DEF Works
<1>3. ASSUME NEW f \in File, Crash(f) PROVE Owned'
  <2>1. Home(f) \in Dir /\ pc'[Home(f)] = "crashed"
    BY <1>0, <1>3, HomeOf DEF Crash, TypeOK
  <2>2. Crashed'
    BY <2>1 DEF Crashed
  <2> QED
    BY <2>2 DEF Owned
<1>4. ASSUME NEW d \in Dir, Create(d) PROVE Owned'
  <2>1. /\ th' = [th EXCEPT ![Entry(d)] = "ready"] /\ pc' = pc /\ sem' = sem
        /\ Entry(d) \in File /\ Listing(d)
    BY <1>4 DEF Create
  <2>2. th[Entry(d)] = "none"
    BY <1>0, <2>1, NewEntry
  <2> QED
    BY <1>0, <1>1, <2>1, <2>2 DEF Holds, Crashed, TypeOK
<1>5. ASSUME NEW d \in Dir, Fork(d) PROVE Owned'
  <2>1. th' = th /\ pc' = [pc EXCEPT ![Entry(d)] = "born"] /\ sem' = sem /\ pc[Entry(d)] = "unborn"
    BY <1>0, <1>5, NewEntry DEF Fork
  <2> QED
    BY <1>0, <1>1, <2>1 DEF Holds, Crashed, TypeOK
<1>6. ASSUME NEW d \in Dir, NEW x, Moves(d, x) PROVE Owned'
  <2>1. /\ th' = th /\ pc' = [pc EXCEPT ![d] = x] /\ sem' = sem
        /\ pc[d] \notin {"killed", "crashed"}
    BY <1>6 DEF Moves
  <2> QED
    BY <1>0, <1>1, <2>1 DEF Holds, Crashed, TypeOK
<1>7. ASSUME Interrupt PROVE Owned'
  BY <1>0, <1>7, Interrupted DEF Owned
<1>8. ASSUME UNCHANGED vars PROVE Owned'
  BY <1>8 DEF Owned, Holds, Crashed, vars, thread
<1> QED
  BY <1>0, <1>2, <1>3, <1>4, <1>5, <1>6, <1>7, <1>8 DEF StepKinds

\* The semaphore is never lost: only a crash and SIGINT take it away.
THEOREM SemaphoreIsOwned == Spec => []Owned
<1>1. Init => Owned
  BY DEF Init, Owned
<1>2. SafeInv /\ Owned /\ [Next]_vars => Owned'
  BY OwnedKept
<1> QED
  BY <1>1, <1>2, Safety, PTL DEF Spec

\* What the actions of a thread, or of a process, wait for is there.
ThreadReady(f) == Holds(f) \/ (th[f] = "ready" /\ Free)
ProcessReady(d) ==
  \/ pc[d] \in {"born", "find", "loop", "record", "read", "count", "remove"}
  \/ pc[d] = "join" /\ Joined(d)
  \/ pc[d] = "wait" /\ Waited(d)

\* The main process has ended, or some thread or process can go on.
MovesOn ==
  \/ pc[Root] \in {"gone", "killed"} \/ Crashed
  \/ (\E f \in File : ThreadReady(f)) \/ (\E d \in Dir : ProcessReady(d))

\* If nobody can go on, all processes that have not ended wait for others,
LEMMA AllWait ==
  ASSUME SafeInv, Owned, pc[Root] # "killed", ~Crashed,
         \A f \in File : ~ThreadReady(f), \A d \in Dir : ~ProcessReady(d)
  PROVE  \A d \in Dir : pc[d] = "unborn" \/ Ended(d) \/ (pc[d] = "wait" /\ ~Waited(d))
<1>1. TypeOK /\ LockInv /\ Progress /\ Reaped
  BY DEF SafeInv
<1>2. \A f \in File : ~Holds(f)
  BY DEF ThreadReady
<1>3. sem # 0
  BY <1>2 DEF Owned
<1>4. Free
  BY <1>1, <1>3 DEF TypeOK, Free
<1>5. \A f \in File : th[f] \in {"none", "end"}
  <2> TAKE f \in File
  <2>1. th[f] # "ready" /\ ~Holds(f)
    BY <1>2, <1>4 DEF ThreadReady
  <2>2. th[f] # "dead"
    BY <1>1 DEF Reaped, ThreadsEnded
  <2> QED
    BY <1>1, <2>1, <2>2 DEF TypeOK, Holds
<1> TAKE d \in Dir
<1>6. CASE pc[d] = "join"
  <2>1. next[d] > Len(Entries(d)) /\ ~Ended(d)
    BY <1>1, <1>6 DEF Progress, Exhausted, Ended
  <2>2. ASSUME NEW f \in ToSet(Files[d]) PROVE th[f] = "end"
    <3>1. f \in File
      BY Tree
    <3>2. PICK i \in DOMAIN Entries(d) : Entries(d)[i] = f
      BY PlaceOf
    <3>3. i \in 1 .. Len(Entries(d)) /\ Len(Entries(d)) \in Nat /\ next[d] \in Nat
      BY <1>1, Listing1 DEF TypeOK
    <3>4. ~(i >= next[d])
      BY <2>1, <3>3
    <3>5. th[f] # "none"
      BY <1>1, <2>1, <3>1, <3>2, <3>4 DEF Progress, FilesInOrder
    <3> QED
      BY <1>5, <3>1, <3>5
  <2>3. Joined(d)
    BY <2>2 DEF Joined
  <2> QED
    BY <1>6, <2>3 DEF ProcessReady
<1> QED
  BY <1>1, <1>6 DEF TypeOK, ProcessReady, Ended

\* each for a child of its own that waits, the root for one too: one more than there are.
LEMMA InvMovesOn == SafeInv /\ Owned => MovesOn
<1> SUFFICES ASSUME SafeInv, Owned, pc[Root] \notin {"gone", "killed"}, ~Crashed,
                    \A f \in File : ~ThreadReady(f), \A d \in Dir : ~ProcessReady(d)
             PROVE  FALSE
  BY DEF MovesOn
<1> DEFINE S == {d \in Dir : pc[d] = "wait"}
           child(d) == CHOOSE c \in S : c \in ToSet(Subdirs[d])
           f == [d \in S |-> child(d)]
<1>1. TypeOK /\ Progress /\ Root \in Dir /\ IsFiniteSet(Dir)
  BY ThreadTreeAssumption DEF SafeInv
<1>2. \A d \in Dir : pc[d] = "unborn" \/ Ended(d) \/ (pc[d] = "wait" /\ ~Waited(d))
  BY AllWait
<1>3. Root \in S
  BY <1>1, <1>2 DEF Progress, Ways, Ended, Crashed
<1>4. ASSUME NEW d \in S PROVE \E c \in S : c \in ToSet(Subdirs[d])
  <2>1. PICK c \in ToSet(Subdirs[d]) : ~Ended(c)
    BY <1>2 DEF Waited, Ended
  <2>2. c \in Dir
    BY <2>1, Tree
  <2>3. PICK i \in DOMAIN Entries(d) : Entries(d)[i] = c
    BY <2>1, PlaceOf
  <2>4. i \in 1 .. Len(Entries(d)) /\ Len(Entries(d)) \in Nat /\ next[d] \in Nat
    BY <1>1, Listing1 DEF TypeOK
  <2>5. next[d] > Len(Entries(d))
    BY <1>1 DEF Progress, Exhausted
  <2>6. ~(i >= next[d])
    BY <2>4, <2>5
  <2>7. pc[c] # "unborn"
    BY <1>1, <2>2, <2>3, <2>6 DEF Progress, DirsInOrder
  <2> QED
    BY <1>2, <2>1, <2>2, <2>7
<1> HIDE DEF S
<1>5. \A d \in S : child(d) \in S /\ child(d) \in ToSet(Subdirs[d])
  BY <1>4
<1>6. S \subseteq Dir
  BY DEF S
<1> HIDE DEF child
<1>7. \A d \in S : child(d) \in S \ {Root}
  <2>1. \A d \in S : Root \notin ToSet(Subdirs[d])
    BY <1>6, Tree
  <2> QED
    BY <1>5, <2>1
<1>8. f \in [S -> S \ {Root}]
  BY <1>7
<1>9. IsFiniteSet(S) /\ Cardinality(S) \in Nat /\ IsFiniteSet(S \ {Root})
      /\ Cardinality(S \ {Root}) < Cardinality(S)
  <2>1. IsFiniteSet(S)
    BY <1>1, <1>6, FS_Subset
  <2>2. Cardinality(S) \in Nat
    BY <2>1, FS_CardinalityType
  <2>3. IsFiniteSet(S \ {Root}) /\ Cardinality(S \ {Root}) = Cardinality(S) - 1
    BY <1>3, <2>1, FS_RemoveElement
  <2> QED
    BY <2>1, <2>2, <2>3
<1>10. \E x, y \in S : x # y /\ f[x] = f[y]
  <2> HIDE DEF f
  <2> QED
    BY <1>8, <1>9, FS_PigeonHole
<1>11. PICK x \in S, y \in S : x # y /\ child(x) = child(y)
  BY <1>10
<1>12. child(x) \in ToSet(Subdirs[x]) \cap ToSet(Subdirs[y])
  BY <1>5, <1>11
<1> QED
  BY <1>6, <1>11, <1>12, ThreadTreeAssumption

\* Joins, waits and the semaphore never block each other: until the main process has ended
\* some thread or process can go on, unless one has crashed.
THEOREM NeverStuck == Spec => []MovesOn
BY Safety, SemaphoreIsOwned, InvMovesOn, PTL

\* How far a thread, and how far a process is on its way.
Stage(t) ==
  CASE t = "none" -> 0 [] t = "ready" -> 1 [] t \in {"scan", "printed"} -> 2
    [] t = "dash" -> 3 [] t = "end" -> 4 [] t = "dead" -> 5
Phase(p) ==
  CASE p = "unborn" -> 0 [] p = "born" -> 1 [] p = "find" -> 2 [] p = "loop" -> 3 [] p = "join" -> 4
    [] p = "wait" -> 5 [] p \in {"record", "read"} -> 6 [] p = "count" -> 7 [] p = "remove" -> 8
    [] p \in {"gone", "killed", "crashed"} -> 9

\* A thread is later if it has fewer matches to find, a process if it has listed more.
ThreadLater(f) ==
  \/ Stage(th[f]) < Stage(th'[f])
  \/ th[f] = "scan" /\ th'[f] = "printed" /\ left'[f] < left[f]
  \/ th[f] = "printed" /\ th'[f] = "scan" /\ left'[f] = left[f]
ProcessLater(d) ==
  \/ Phase(pc[d]) < Phase(pc'[d])
  \/ pc[d] = "loop" /\ pc'[d] = "loop" /\ next[d] < next'[d]
ThreadSame(f) == th'[f] = th[f] /\ left'[f] = left[f]
ProcessSame(d) == pc'[d] = pc[d] /\ next'[d] = next[d]

\* Nobody is earlier than before, and one is later.
Onwards ==
  /\ \A f \in File : ThreadLater(f) \/ ThreadSame(f)
  /\ \A d \in Dir : ProcessLater(d) \/ ProcessSame(d)
  /\ (\E f \in File : ThreadLater(f)) \/ (\E d \in Dir : ProcessLater(d))

LEMMA ThreadOnwards ==
  ASSUME SafeInv, NEW f \in File, Thread(f)
  PROVE  Onwards
<1>0. TypeOK /\ Progress /\ Reaped
  BY DEF SafeInv
<1>1. ASSUME UNCHANGED <<pc, next>>, \A g \in File \ {f} : th'[g] = th[g] /\ left'[g] = left[g],
             ThreadLater(f)
      PROVE  Onwards
  BY <1>1 DEF Onwards, ThreadSame, ProcessSame
<1>2. th \in [File -> {"none", "ready", "scan", "printed", "dash", "end", "dead"}] /\ left \in [File -> Nat]
  BY <1>0 DEF TypeOK
<1>3. CASE Acquire(f)
  BY <1>1, <1>2, <1>3 DEF Acquire, ThreadLater, Stage
<1>4. CASE FindMatch(f)
  <2>1. /\ th[f] = "scan" /\ th'[f] = "printed" /\ left'[f] = left[f] - 1 /\ left[f] \in Nat
        /\ UNCHANGED <<pc, next>> /\ \A g \in File \ {f} : th'[g] = th[g] /\ left'[g] = left[g]
    BY <1>2, <1>4 DEF FindMatch
  <2>2. left'[f] < left[f]
    BY <2>1
  <2> QED
    BY <1>1, <2>1, <2>2 DEF ThreadLater
<1>5. CASE FlushMatch(f)
  BY <1>1, <1>2, <1>5 DEF FlushMatch, ThreadLater
<1>6. CASE Searched(f)
  BY <1>1, <1>2, <1>6 DEF Searched, ThreadLater, Stage
<1>7. CASE Release(f)
  BY <1>1, <1>2, <1>7 DEF Release, ThreadLater, Stage
<1>8. CASE Crash(f)
  <2> DEFINE d == Home(f)
  <2>1. d \in Dir /\ pc[d] \in {"loop", "join"}
    BY <1>0, <1>8, LiveHome DEF Crash
  <2>2. /\ UNCHANGED <<next, left>> /\ pc \in [Dir -> {"unborn", "born", "find", "loop", "join", "wait",
             "record", "read", "count", "remove", "gone", "killed", "crashed"}]
        /\ pc' = [pc EXCEPT ![d] = "crashed"] /\ \A g \in File : th'[g] = th[g] \/ th'[g] = "dead"
    BY <1>0, <1>8 DEF Crash, TypeOK
  <2>3. \A g \in File : ThreadLater(g) \/ ThreadSame(g)
    BY <1>2, <2>2 DEF ThreadLater, ThreadSame, Stage
  <2> HIDE DEF d
  <2>4. ProcessLater(d)
    BY <2>1, <2>2 DEF ProcessLater, Phase
  <2>5. \A e \in Dir \ {d} : ProcessSame(e)
    BY <2>2 DEF ProcessSame
  <2> QED
    BY <2>1, <2>3, <2>4, <2>5 DEF Onwards
<1> QED
  BY <1>3, <1>4, <1>5, <1>6, <1>7, <1>8 DEF Thread

\* A process that goes from one place to a later one.
LEMMA GotoOnwards ==
  ASSUME TypeOK, NEW d \in Dir, NEW from, NEW to, Goto(d, from, to), Phase(from) < Phase(to),
         UNCHANGED <<next, th, left>>
  PROVE  Onwards
<1>1. \A f \in File : ThreadSame(f)
  BY DEF ThreadSame
<1>2. pc[d] = from /\ pc'[d] = to /\ \A e \in Dir \ {d} : pc'[e] = pc[e]
  BY DEF Goto, TypeOK
<1>3. ProcessLater(d)
  BY <1>2 DEF ProcessLater
<1>4. \A e \in Dir \ {d} : ProcessSame(e)
  BY <1>2 DEF ProcessSame
<1> QED
  BY <1>1, <1>3, <1>4 DEF Onwards

LEMMA ProcessOnwards ==
  ASSUME SafeInv, NEW d \in Dir, Process(d)
  PROVE  Onwards
<1>0. TypeOK /\ Progress
  BY DEF SafeInv
<1>1. CASE SavePid(d)
  BY <1>0, <1>1, GotoOnwards DEF SavePid, thread, Phase
<1>2. CASE CannotOpen(d)
  BY <1>0, <1>2, GotoOnwards DEF CannotOpen, thread, Phase
<1>3. CASE Find(d)
  BY <1>0, <1>3, GotoOnwards DEF Find, Phase
<1>4. CASE Listed(d)
  BY <1>0, <1>4, GotoOnwards DEF Listed, thread, Phase
<1>5. CASE Join(d)
  BY <1>0, <1>5, GotoOnwards DEF Join, thread, Phase
<1>6. CASE Wait(d)
  BY <1>0, <1>6, GotoOnwards DEF Wait, thread, Phase
<1>7. CASE Record(d)
  BY <1>0, <1>7, GotoOnwards DEF Record, thread, Phase
<1>8. next \in [Dir -> Nat \ {0}]
  BY <1>0 DEF TypeOK
<1>9. CASE Create(d)
  <2> DEFINE f == Entry(d)
  <2>1. /\ pc[d] = "loop" /\ pc' = pc /\ left' = left /\ f \in File
        /\ next'[d] = next[d] + 1 /\ \A e \in Dir \ {d} : next'[e] = next[e]
        /\ th'[f] = "ready" /\ \A g \in File \ {f} : th'[g] = th[g]
    BY <1>0, <1>9 DEF Create, Listing, TypeOK
  <2>2. th[f] = "none" /\ next[d] < next[d] + 1
    BY <1>0, <1>8, <1>9, NewEntry DEF Create
  <2> HIDE DEF f
  <2>3. \A g \in File : ThreadLater(g) \/ ThreadSame(g)
    BY <2>1, <2>2 DEF ThreadLater, ThreadSame, Stage
  <2>4. ProcessLater(d) /\ \A e \in Dir \ {d} : ProcessSame(e)
    BY <2>1, <2>2 DEF ProcessLater, ProcessSame
  <2> QED
    BY <2>3, <2>4 DEF Onwards
<1>10. CASE Fork(d)
  <2> DEFINE c == Entry(d)
  <2>1. /\ pc[d] = "loop" /\ th' = th /\ left' = left /\ c \in Dir
        /\ next'[d] = next[d] + 1 /\ \A e \in Dir \ {d} : next'[e] = next[e]
        /\ pc'[c] = "born" /\ \A e \in Dir \ {c} : pc'[e] = pc[e]
    BY <1>0, <1>10 DEF Fork, Listing, TypeOK
  <2>2. pc[c] = "unborn" /\ next[d] < next[d] + 1
    BY <1>0, <1>8, <1>10, NewEntry DEF Fork
  <2> HIDE DEF c
  <2>3. \A g \in File : ThreadSame(g)
    BY <2>1 DEF ThreadSame
  <2>4. ProcessLater(c)
    BY <2>1, <2>2 DEF ProcessLater, Phase
  <2>5. ProcessLater(d)
    BY <2>1, <2>2 DEF ProcessLater
  <2>6. \A e \in Dir \ {c, d} : ProcessSame(e)
    BY <2>1 DEF ProcessSame
  <2> QED
    BY <2>1, <2>3, <2>4, <2>5, <2>6 DEF Onwards
<1> QED
  BY <1>1, <1>2, <1>3, <1>4, <1>5, <1>6, <1>7, <1>9, <1>10 DEF Process

LEMMA InterruptOnwards ==
  ASSUME SafeInv, Interrupt
  PROVE  Onwards
<1>0. TypeOK /\ Progress /\ Root \in Dir
  BY ThreadTreeAssumption DEF SafeInv
<1>1. /\ next' = next /\ left' = left /\ pc'[Root] = "killed" /\ ~Ended(Root)
      /\ \A d \in Dir : pc'[d] = pc[d] \/ (pc'[d] = "killed" /\ ~Ended(d))
      /\ \A f \in File : th'[f] = th[f] \/ th'[f] = "dead"
  BY <1>0, Interrupted DEF Interrupt
<1>2. \A f \in File : ThreadLater(f) \/ ThreadSame(f)
  BY <1>0, <1>1 DEF ThreadLater, ThreadSame, Stage, TypeOK
<1>3. ASSUME NEW d \in Dir, pc'[d] = "killed", ~Ended(d) PROVE ProcessLater(d)
  <2>1. pc[d] \in {"unborn", "born", "find", "loop", "join", "wait", "record", "read", "count", "remove"}
    BY <1>0, <1>3 DEF TypeOK, Ended
  <2> QED
    BY <1>3, <2>1 DEF ProcessLater, Phase
<1> QED
  BY <1>0, <1>1, <1>2, <1>3 DEF Onwards, ProcessSame

\* No step leads back: what steps is later in its program, in its list of entries or in its
\* file, all of which are finite, and nothing else is earlier.
THEOREM NoStepBack == Spec => [][Onwards]_vars
<1>1. ASSUME SafeInv, Main PROVE Onwards
  <2>1. TypeOK /\ Root \in Dir
    BY <1>1, ThreadTreeAssumption DEF SafeInv
  <2>2. CASE ReadHistory
    BY <2>1, <2>2, GotoOnwards DEF ReadHistory, thread, Phase
  <2>3. CASE ShowTotals
    BY <2>1, <2>3, GotoOnwards DEF ShowTotals, thread, Phase
  <2>4. CASE RemoveFiles
    BY <2>1, <2>4, GotoOnwards DEF RemoveFiles, thread, Phase
  <2> QED
    BY <1>1, <2>2, <2>3, <2>4 DEF Main
<1>2. SafeInv /\ [Next]_vars => [Onwards]_vars
  BY <1>1, ThreadOnwards, ProcessOnwards, InterruptOnwards DEF Next
<1> QED
  BY <1>2, Safety, PTL DEF Spec
---------------------------------------------------------------------------
(* What is computed from maxthread.txt *)

LEMMA SomeFiles ==
  ASSUME NEW S \in SUBSET File
  PROVE  IsFiniteSet(S) /\ Cardinality(S) \in Nat
BY FS_Subset, FS_CardinalityType, ThreadTreeAssumption

LEMMA SetTypes ==
  /\ Open \subseteq Running /\ Running \subseteq File /\ Started \subseteq File
  /\ IsFiniteSet(Open) /\ IsFiniteSet(Running) /\ IsFiniteSet(Started)
  /\ Cardinality(Open) \in Nat /\ Cardinality(Running) \in Nat /\ Cardinality(Started) \in Nat
  /\ Cardinality(Open) <= Cardinality(Running)
<1>1. Open \subseteq Running /\ Running \subseteq File /\ Started \subseteq File
  BY DEF Open, Running, Started
<1>2. IsFiniteSet(Running) /\ IsFiniteSet(Started)
  BY <1>1, FS_Subset, ThreadTreeAssumption
<1>3. IsFiniteSet(Open) /\ Cardinality(Open) <= Cardinality(Running)
  BY <1>1, <1>2, FS_Subset
<1> QED
  BY <1>1, <1>2, <1>3, FS_CardinalityType

\* Once it is not calm it stays so.
LEMMA CalmBefore ==
  ASSUME TypeOK, Progress, Reaped, StepKinds, Calm'
  PROVE  Calm
<1>1. Root \in Dir
  BY ThreadTreeAssumption
<1> QED
  BY <1>1, Stays DEF Calm, Crashed, Ended

\* A flush of marks, or none.
LEMMA FlushedMarks ==
  ASSUME TypeOK, Calm, MarksInv, NEW n, marks' = Dash(marks, n), peak' = peak,
         n = 0 => Open' = Open, Started' = Started
  PROVE  MarksInv'
<1>1. /\ marks \in Mark /\ peak \in Nat /\ marks.streak \in Nat /\ marks.max \in Nat
  BY DEF TypeOK, Mark
<1>2. /\ marks'.created = marks.created
      /\ marks'.streak = IF n = 0 THEN marks.streak ELSE 0
      /\ marks'.max = IF n = 0 THEN marks.max ELSE Larger(marks.max, marks.streak)
  BY <1>1, MarkTypes
<1>3. /\ marks.streak <= Cardinality(Open) /\ marks.streak <= peak /\ marks.max <= peak
      /\ marks.created = Cardinality(Started)
  BY DEF MarksInv
<1>4. Cardinality(Open)' \in Nat
  <2>1. Open' \in SUBSET File
    BY DEF Open, Running
  <2> QED
    BY <2>1, SomeFiles
<1>5. marks'.streak <= Cardinality(Open)'
  <2>1. CASE n = 0
    BY <1>2, <1>3, <2>1
  <2>2. CASE n # 0
    BY <1>2, <1>4, <2>2
  <2> QED
    BY <2>1, <2>2
<1>6. marks'.streak <= peak' /\ marks'.max <= peak'
  BY <1>1, <1>2, <1>3 DEF Larger
<1>7. marks'.created = Cardinality(Started)'
  BY <1>2, <1>3
<1> QED
  BY <1>5, <1>6, <1>7 DEF MarksInv

LEMMA SameMarks ==
  ASSUME MarksInv, Calm, marks' = marks, peak' = peak, Open' = Open, Started' = Started
  PROVE  MarksInv'
BY DEF MarksInv

LEMMA ThreadMarks ==
  ASSUME TypeOK, LockInv, Progress, Reaped, Dashed, MarksInv, Calm, NEW f \in File, Thread(f),
         ~Crash(f)
  PROVE  MarksInv'
<1>0. \A g \in File : Home(g) \in Dir
  BY HomeOf
<1>1. CASE Acquire(f)
  <2>1. marks' = marks /\ peak' = peak /\ dashes' = dashes /\ th[f] = "ready"
        /\ \A g \in File : th'[g] = IF g = f THEN "scan" ELSE th[g]
    BY <1>1 DEF Acquire, files, outcome, TypeOK
  <2>2. Open' = Open /\ Started' = Started
    BY <2>1 DEF Open, Running, Started
  <2> QED
    BY <2>1, <2>2, SameMarks
<1>2. CASE FindMatch(f)
  <2>1. marks' = marks /\ peak' = peak /\ dashes' = dashes /\ th[f] = "scan"
        /\ \A g \in File : th'[g] = IF g = f THEN "printed" ELSE th[g]
    BY <1>2 DEF FindMatch, files, outcome, TypeOK
  <2>2. Open' = Open /\ Started' = Started
    BY <2>1 DEF Open, Running, Started
  <2> QED
    BY <2>1, <2>2, SameMarks
<1>3. CASE FlushMatch(f)
  <2>1. marks' = marks /\ peak' = peak /\ dashes' = dashes /\ th[f] = "printed"
        /\ \A g \in File : th'[g] = IF g = f THEN "scan" ELSE th[g]
    BY <1>3 DEF FlushMatch, outcome, TypeOK
  <2>2. Open' = Open /\ Started' = Started
    BY <2>1 DEF Open, Running, Started
  <2> QED
    BY <2>1, <2>2, SameMarks
<1>4. CASE Searched(f)
  <2>1. /\ marks' = marks /\ peak' = peak /\ th[f] = "scan"
        /\ \A g \in File : th'[g] = IF g = f THEN "dash" ELSE th[g]
    BY <1>4 DEF Searched, outcome, TypeOK
  <2>2. dashes[Home(f)] = 0
    <3>1. dashes[Home(f)] # 1
      BY <2>1 DEF LockInv, Holds, Dashed
    <3>2. dashes[Home(f)] \in 0 .. 1
      BY <1>0 DEF TypeOK
    <3> QED
      BY <3>1, <3>2
  <2>3. dashes'[Home(f)] = 1
    BY <1>0, <1>4, <2>2 DEF Searched, TypeOK
  <2>4. \A g \in File : g # f => th[g] # "dash"
    BY <2>1 DEF LockInv, Holds
  <2>5. Open = Running /\ Open' = Running' /\ Running' = Running /\ Started' = Started
    BY <2>1, <2>3, <2>4 DEF Open, Running, Started
  <2> QED
    BY <2>1, <2>5, SameMarks
<1>5. CASE Release(f)
  <2>1. /\ marks' = Dash(marks, dashes[Home(f)]) /\ peak' = peak /\ th[f] = "dash"
        /\ \A g \in File : th'[g] = IF g = f THEN "end" ELSE th[g]
    BY <1>5 DEF Release, outcome, TypeOK
  <2>2. \A g \in File : g # f => th[g] # "dash"
    BY <2>1 DEF LockInv, Holds
  <2>3. Started' = Started
    BY <2>1 DEF Started
  <2>4. dashes[Home(f)] = 0 => Open' = Open
    BY <2>1, <2>2 DEF Open, Running
  <2> QED
    BY <2>1, <2>3, <2>4, FlushedMarks
<1> QED
  BY <1>1, <1>2, <1>3, <1>4, <1>5 DEF Thread

LEMMA CreateMarks ==
  ASSUME TypeOK, Progress, Reaped, MarksInv, Calm, NEW d \in Dir, Create(d)
  PROVE  MarksInv'
<1> DEFINE f == Entry(d)
           m == Dash(marks, dashes[d])
<1>1. f \in File /\ th[f] = "none" /\ Home(f) = d
  BY EntryType, NewEntry DEF Create
<1>2. /\ marks' = Plus(m) /\ peak' = Larger(peak, Cardinality(Running) + 1)
      /\ \A g \in File : th'[g] = IF g = f THEN "ready" ELSE th[g]
      /\ \A e \in Dir : dashes'[e] = IF e = d THEN 0 ELSE dashes[e]
  BY DEF Create, TypeOK
<1> HIDE DEF f
<1>3. f \notin Running /\ Running' = Running \cup {f} /\ f \notin Started
      /\ Started' = Started \cup {f}
  BY <1>1, <1>2 DEF Running, Started
<1>4. Cardinality(Started)' = Cardinality(Started) + 1
  BY <1>3, SetTypes, FS_AddElement
<1>5. f \in Open' /\ f \notin Open
  BY <1>1, <1>2, <1>3 DEF Open, Running
<1>6. /\ marks \in Mark /\ peak \in Nat /\ marks.streak \in Nat /\ marks.max \in Nat
      /\ marks.created \in Nat
  BY DEF TypeOK, Mark
<1>7. /\ m \in Mark /\ m.created = marks.created
      /\ m.streak = IF dashes[d] = 0 THEN marks.streak ELSE 0
      /\ m.max = IF dashes[d] = 0 THEN marks.max ELSE Larger(marks.max, marks.streak)
  BY <1>6, MarkTypes
<1> HIDE DEF m
<1>8. /\ marks'.created = m.created + 1 /\ marks'.streak = m.streak + 1 /\ marks'.max = m.max
  BY <1>2, <1>7, MarkTypes
<1>9. /\ marks.streak <= Cardinality(Open) /\ marks.streak <= peak /\ marks.max <= peak
      /\ marks.created = Cardinality(Started)
  BY DEF MarksInv
<1>10. Cardinality(Open)' \in Nat /\ Cardinality(Open)' >= 1
  <2>1. IsFiniteSet(Open') /\ Cardinality(Open)' \in Nat
    <3>1. Open' \in SUBSET File
      BY DEF Open, Running
    <3> QED
      BY <3>1, SomeFiles
  <2>2. Cardinality(Open') # 0
    BY <1>5, <2>1, FS_EmptySet
  <2> QED
    BY <2>1, <2>2
<1>11. dashes[d] = 0 => Cardinality(Open)' = Cardinality(Open) + 1
  <2> HAVE dashes[d] = 0
  <2>1. \A g \in File : Home(g) \in Dir
    BY HomeOf
  <2>2. \A g \in File : dashes'[Home(g)] = dashes[Home(g)]
    BY <1>2, <2>1
  <2>3. Open' = Open \cup {f}
    BY <1>1, <1>2, <1>3, <2>2 DEF Open, Running
  <2> QED
    BY <1>5, <2>3, SetTypes, FS_AddElement
<1>12. marks'.streak <= Cardinality(Open)'
  BY <1>6, <1>7, <1>8, <1>9, <1>10, <1>11, SetTypes
<1>13. peak' >= peak /\ peak' >= Cardinality(Running) + 1 /\ peak' \in Nat
  BY <1>2, <1>6, SetTypes DEF Larger
<1>14. marks'.streak <= peak' /\ marks'.max <= peak'
  BY <1>6, <1>7, <1>8, <1>9, <1>13, SetTypes DEF Larger
<1>15. marks'.created = Cardinality(Started)'
  BY <1>4, <1>7, <1>8, <1>9
<1> QED
  BY <1>12, <1>14, <1>15 DEF MarksInv

\* exit(0) of one process.
LEMMA FlushOneMarks ==
  ASSUME TypeOK, MarksInv, Calm, NEW d \in Dir, FlushAll({d}), th' = th, peak' = peak
  PROVE  MarksInv'
<1> DEFINE n == IF \E e \in {d} : dashes[e] > 0 THEN 1 ELSE 0
<1>1. marks' = Dash(marks, n)
  BY DEF FlushAll
<1>2. dashes[d] \in 0 .. 1 /\ dashes \in [Dir -> 0 .. 1]
  BY DEF TypeOK
<1>3. n = 0 => dashes[d] = 0
  BY <1>2
<1>4. n = 0 => dashes' = dashes
  <2> HAVE n = 0
  <2>1. dashes' = [e \in Dir |-> IF e \in {d} THEN 0 ELSE dashes[e]]
    BY DEF FlushAll
  <2> QED
    BY <1>2, <1>3, <2>1
<1>5. Started' = Started
  BY DEF Started
<1>6. n = 0 => Open' = Open
  BY <1>4 DEF Open, Running
<1> HIDE DEF n
<1> QED
  BY <1>1, <1>5, <1>6, FlushedMarks

LEMMA MarksKept ==
  ASSUME SafeInv, MarksInv, [Next]_vars
  PROVE  MarksInv'
<1>0. TypeOK /\ LockInv /\ Progress /\ Reaped /\ Dashed /\ StepKinds
  BY Kinds DEF SafeInv
<1> SUFFICES ASSUME Calm' PROVE MarksInv'
  BY DEF MarksInv
<1>1. Calm
  BY <1>0, CalmBefore
<1>2. ASSUME NEW f \in File, Thread(f) PROVE MarksInv'
  <2>1. ~Crash(f)
    <3> SUFFICES ASSUME Crash(f) PROVE FALSE
      OBVIOUS
    <3>1. Home(f) \in Dir /\ pc' = [pc EXCEPT ![Home(f)] = "crashed"]
      BY HomeOf DEF Crash
    <3>2. pc'[Home(f)] = "crashed"
      BY <1>0, <3>1 DEF TypeOK
    <3> QED
      BY <3>1, <3>2 DEF Calm, Crashed
  <2> QED
    BY <1>0, <1>1, <1>2, <2>1, ThreadMarks
<1>3. ASSUME NEW d \in Dir, Process(d) PROVE MarksInv'
  <2>1. CASE SavePid(d) \/ Find(d) \/ Listed(d) \/ Join(d) \/ Wait(d)
    <3>1. th' = th /\ marks' = marks /\ dashes' = dashes /\ peak' = peak
      BY <2>1 DEF SavePid, Find, Listed, Join, Wait, thread, files, outcome
    <3>2. Open' = Open /\ Started' = Started
      BY <3>1 DEF Open, Running, Started
    <3> QED
      BY <1>1, <3>1, <3>2, SameMarks
  <2>2. CASE CannotOpen(d) \/ Record(d)
    <3>1. FlushAll({d}) /\ th' = th /\ peak' = peak
      BY <2>2 DEF CannotOpen, Record, thread, outcome
    <3> QED
      BY <1>0, <1>1, <3>1, FlushOneMarks
  <2>3. CASE Create(d)
    BY <1>0, <1>1, <2>3, CreateMarks
  <2>4. CASE Fork(d)
    <3>1. /\ Entry(d) \in Dir /\ pc[Entry(d)] = "unborn"
          /\ th' = th /\ marks' = marks /\ peak' = peak
      BY <1>0, <2>4, NewEntry DEF Fork, outcome
    <3>2. \A e \in Dir : e # Entry(d) => dashes'[e] = dashes[e]
      BY <1>0, <2>4 DEF Fork, TypeOK
    <3>3. \A f \in Running : Home(f) \in Dir /\ Home(f) # Entry(d)
      BY <1>0, <3>1, LiveHome DEF Running
    <3>4. Running' = Running /\ Started' = Started
      BY <3>1 DEF Running, Started
    <3>5. Open' = Open
      BY <3>1, <3>2, <3>3, <3>4 DEF Open
    <3> QED
      BY <1>1, <3>1, <3>4, <3>5, SameMarks
  <2> QED
    BY <1>3, <2>1, <2>2, <2>3, <2>4 DEF Process
<1>4. ASSUME Main \/ UNCHANGED vars PROVE MarksInv'
  <2>1. th' = th /\ marks' = marks /\ dashes' = dashes /\ peak' = peak
    BY <1>4 DEF Main, ReadHistory, ShowTotals, RemoveFiles, vars, thread, files, outcome
  <2>2. Open' = Open /\ Started' = Started
    BY <2>1 DEF Open, Running, Started
  <2> QED
    BY <1>1, <2>1, <2>2, SameMarks
<1>5. ~Interrupt
  BY <1>0, Interrupted DEF Calm
<1> QED
  BY <1>2, <1>3, <1>4, <1>5 DEF Next
---------------------------------------------------------------------------
(* The counts *)

\* Before a step of a search in which everything can be opened.
LEMMA WholeStep ==
  ASSUME SafeInv, StepKinds, Whole', pc'[Root] # "killed"
  PROVE  /\ Whole /\ Calm /\ pc[Root] # "killed" /\ ~Interrupt
         /\ \A f \in File : ~Crash(f)
         /\ \A d \in Dir : ~CannotOpen(d)
<1>1. Root \in Dir /\ closed' = closed
  BY InputSame, ThreadTreeAssumption DEF SafeInv
<1>2. Whole /\ closed = {}
  BY <1>1 DEF Whole
<1>3. TypeOK /\ Progress /\ Reaped /\ Causes
  BY DEF SafeInv, Reaped
<1>4. ~Interrupt
  BY <1>3, Interrupted
<1>5. pc[Root] # "killed"
  BY <1>1, <1>3, Stays DEF Ended
<1> QED
  BY <1>2, <1>3, <1>4, <1>5 DEF Calm, Causes, Crash, CannotOpen

LEMMA SameLines ==
  ASSUME LineCounts, lines' = lines,
         \A f \in File : th'[f] \in {"dash", "end"} <=> th[f] \in {"dash", "end"},
         \A d \in Dir : pc'[d] \notin {"unborn", "born", "find"} => pc[d] \notin {"unborn", "born", "find"}
  PROVE  LineCounts'
<1>1. \A d \in Dir : ToSet(Files[d]) \subseteq File
  BY Tree
<1>2. ASSUME NEW d \in Dir PROVE Searching(d)' = Searching(d)
  BY <1>1 DEF Searching
<1> QED
  BY <1>2 DEF LineCounts

LEMMA LinesKept ==
  ASSUME SafeInv, [Next]_vars, StepKinds, Whole', pc'[Root] # "killed", LineCounts
  PROVE  LineCounts'
<1>0. TypeOK /\ LockInv /\ Progress /\ Reaped
  BY DEF SafeInv
<1>1. ASSUME NEW f \in File, Thread(f) PROVE LineCounts'
  <2>1. ~Crash(f)
    BY WholeStep
  <2>2. CASE ~Searched(f)
    <3>1. lines' = lines /\ pc' = pc
      BY <1>1, <2>1, <2>2 DEF Thread, Acquire, FindMatch, FlushMatch, Release
    <3>2. \A g \in File : th'[g] \in {"dash", "end"} <=> th[g] \in {"dash", "end"}
      BY <1>0, <1>1, <2>1, <2>2 DEF Thread, Acquire, FindMatch, FlushMatch, Release, TypeOK
    <3> QED
      BY <3>1, <3>2, SameLines
  <2>3. CASE Searched(f)
    <3>1. Home(f) \in Dir /\ f \in ToSet(Files[Home(f)])
      BY HomeOf
    <3>2. /\ pc' = pc /\ th[f] = "scan"
          /\ \A g \in File : th'[g] = IF g = f THEN "dash" ELSE th[g]
          /\ \A d \in Dir : lines'[d] = IF d = Home(f) THEN lines[d] + 1 ELSE lines[d]
      BY <1>0, <2>3 DEF Searched, TypeOK
    <3>3. \A d \in Dir : \A g \in ToSet(Files[d]) : g \in File /\ Home(g) = d
      BY HomeOf
    <3>4. ASSUME NEW d \in Dir, d # Home(f) PROVE Searching(d)' = Searching(d)
      BY <3>2, <3>3, <3>4 DEF Searching
    <3>5. Searching(Home(f))' = Searching(Home(f)) \cup {f} /\ f \notin Searching(Home(f))
      BY <3>1, <3>2, <3>3 DEF Searching
    <3>6. IsFiniteSet(Searching(Home(f)))
      <4>1. Searching(Home(f)) \in SUBSET File
        BY <3>1, <3>3 DEF Searching
      <4> QED
        BY <4>1, SomeFiles
    <3>7. Cardinality(Searching(Home(f)))' = Cardinality(Searching(Home(f))) + 1
      BY <3>5, <3>6, FS_AddElement
    <3> SUFFICES ASSUME NEW d \in Dir, pc[d] \notin {"unborn", "born", "find"}
                 PROVE  lines'[d] = Cardinality(Searching(d))'
      BY <3>2 DEF LineCounts
    <3>8. lines[d] = Cardinality(Searching(d))
      BY DEF LineCounts
    <3>9. CASE d = Home(f)
      BY <3>2, <3>7, <3>8, <3>9
    <3>10. CASE d # Home(f)
      BY <3>2, <3>4, <3>8, <3>10
    <3> QED
      BY <3>9, <3>10
  <2> QED
    BY <2>2, <2>3
<1>2. ASSUME NEW d \in Dir, Process(d) PROVE LineCounts'
  <2>1. CASE SavePid(d) \/ Listed(d) \/ Join(d) \/ Wait(d) \/ Record(d)
    <3>1. lines' = lines /\ th' = th
      BY <2>1 DEF SavePid, Listed, Join, Wait, Record, thread
    <3>2. \A e \in Dir : pc'[e] \notin {"unborn", "born", "find"}
            => pc[e] \notin {"unborn", "born", "find"}
      BY <1>0, <2>1 DEF SavePid, Listed, Join, Wait, Record, Goto, TypeOK
    <3> QED
      BY <3>1, <3>2, SameLines
  <2>2. CASE Find(d)
    <3>1. /\ \A e \in Dir : pc'[e] = IF e = d THEN "loop" ELSE pc[e]
          /\ \A e \in Dir : lines'[e] = IF e = d THEN 0 ELSE lines[e]
          /\ pc[d] = "find" /\ th' = th
      BY <1>0, <2>2 DEF Find, Goto, TypeOK
    <3>2. \A e \in Dir : Searching(e)' = Searching(e)
      BY <3>1 DEF Searching
    <3>3. next[d] = 1 /\ ~Ended(d)
      BY <1>0, <3>1 DEF Progress, Begun, Ended
    <3>4. Searching(d) = {}
      BY <1>0, <3>3, NothingYet DEF Searching
    <3>5. Cardinality(Searching(d)) = 0
      BY <3>4, FS_EmptySet
    <3> QED
      BY <3>1, <3>2, <3>5 DEF LineCounts
  <2>3. CASE Create(d)
    <3>1. /\ lines' = lines /\ pc' = pc /\ th[Entry(d)] = "none"
          /\ \A g \in File : th'[g] = IF g = Entry(d) THEN "ready" ELSE th[g]
      BY <1>0, <2>3, NewEntry DEF Create, TypeOK
    <3> QED
      BY <3>1, SameLines
  <2>4. CASE Fork(d)
    <3>1. /\ th' = th /\ Entry(d) \in Dir
          /\ \A e \in Dir : pc'[e] = IF e = Entry(d) THEN "born" ELSE pc[e]
          /\ \A e \in Dir : e # Entry(d) => lines'[e] = lines[e]
      BY <1>0, <2>4 DEF Fork, TypeOK
    <3>2. \A e \in Dir : Searching(e)' = Searching(e)
      BY <3>1 DEF Searching
    <3> QED
      BY <3>1, <3>2 DEF LineCounts
  <2>5. ~CannotOpen(d)
    BY WholeStep
  <2> QED
    BY <1>2, <2>1, <2>2, <2>3, <2>4, <2>5 DEF Process
<1>3. ASSUME Main \/ UNCHANGED vars PROVE LineCounts'
  <2>1. lines' = lines /\ th' = th
    BY <1>3 DEF Main, ReadHistory, ShowTotals, RemoveFiles, vars, thread
  <2>2. \A e \in Dir : pc'[e] \notin {"unborn", "born", "find"}
          => pc[e] \notin {"unborn", "born", "find"}
    <3>1. CASE UNCHANGED vars
      BY <3>1 DEF vars
    <3>2. CASE Main
      <4>1. pc[Root] \in {"read", "count", "remove"} /\ \E x : pc' = [pc EXCEPT ![Root] = x]
        BY <3>2 DEF Main, ReadHistory, ShowTotals, RemoveFiles, Goto
      <4>2. \A e \in Dir \ {Root} : pc'[e] = pc[e]
        BY <4>1
      <4> QED
        BY <4>1, <4>2
    <3> QED
      BY <1>3, <3>1, <3>2
  <2> QED
    BY <2>1, <2>2, SameLines
<1>4. ~Interrupt
  BY WholeStep
<1> QED
  BY <1>1, <1>2, <1>3, <1>4 DEF Next

\* What a process adds to the counts of others.
LEMMA AddedCounts ==
  ASSUME NEW ds \in SUBSET Dir, NEW d \in Dir \ ds, NEW h, h = Count(ds),
         lines[d] = Cardinality(ToSet(Files[d]))
  PROVE  Added(h, d) = Count(ds \cup {d})
<1> DEFINE F == FilesUnder(ds)
           D == DirsUnder(ds)
           f == ToSet(Files[d])
           s == ToSet(Subdirs[d])
<1>1. /\ Files[d] \in Seq(File) /\ IsInjective(Files[d])
      /\ Subdirs[d] \in Seq(Dir) /\ IsInjective(Subdirs[d])
  BY Tree, ThreadTreeAssumption
<1>2. IsFiniteSet(f) /\ Cardinality(f) = Len(Files[d])
  BY <1>1, LengthOf
<1>3. IsFiniteSet(s) /\ Cardinality(s) = Len(Subdirs[d])
  BY <1>1, LengthOf
<1>4. FilesUnder(ds \cup {d}) = F \cup f /\ F \cap f = {}
  BY HomeOf DEF FilesUnder
<1>5. DirsUnder(ds \cup {d}) = D \cup s
  BY DEF DirsUnder
<1>6. D \cap s = {}
  <2>1. \A e \in ds : ToSet(Subdirs[e]) \cap s = {}
    BY ThreadTreeAssumption
  <2> QED
    BY <2>1 DEF DirsUnder
<1>7. F \subseteq File /\ D \subseteq Dir
  BY Tree DEF FilesUnder, DirsUnder
<1>8. IsFiniteSet(F) /\ IsFiniteSet(D)
  BY <1>7, FS_Subset, ThreadTreeAssumption
<1>9. Cardinality(F) \in Nat /\ Cardinality(D) \in Nat /\ Cardinality(f) \in Nat
      /\ Cardinality(s) \in Nat
  BY <1>2, <1>3, <1>8, FS_CardinalityType
<1> HIDE DEF F, D, f, s
<1>10. Cardinality(F \cup f) = Cardinality(F) + Cardinality(f) - Cardinality(F \cap f)
  BY <1>2, <1>8, FS_Union
<1>11. Cardinality(D \cup s) = Cardinality(D) + Cardinality(s) - Cardinality(D \cap s)
  BY <1>3, <1>8, FS_Union
<1>12. Cardinality(F \cap f) = 0 /\ Cardinality(D \cap s) = 0
  BY <1>4, <1>6, FS_EmptySet
<1>13. Cardinality(F \cup f) = Cardinality(F) + Cardinality(f)
  BY <1>9, <1>10, <1>12
<1>14. Cardinality(D \cup s) = Cardinality(D) + Cardinality(s)
  BY <1>9, <1>11, <1>12
<1>15. /\ h.lines = Cardinality(F) /\ h.dirs = Cardinality(D) /\ h.files = Cardinality(F)
       /\ lines[d] = Cardinality(f)
  BY DEF Count, F, D, f
<1>16. Added(h, d) = [lines |-> Cardinality(F) + Cardinality(f), dirs |-> Cardinality(D) + Cardinality(s),
                      files |-> Cardinality(F) + Cardinality(f)]
  BY <1>2, <1>3, <1>15 DEF Added
<1>17. Count(ds \cup {d}) = [lines |-> Cardinality(F \cup f), dirs |-> Cardinality(D \cup s),
                             files |-> Cardinality(F \cup f)]
  BY <1>4, <1>5 DEF Count
<1> QED
  BY <1>13, <1>14, <1>16, <1>17

\* A process that has joined its threads has searched all its files.
LEMMA AllSearched ==
  ASSUME NEW d \in Dir, Joined(d)
  PROVE  Searching(d) = ToSet(Files[d])
BY DEF Joined, Searching

LEMMA CountsKept ==
  ASSUME SafeInv, [Next]_vars, CountsInv
  PROVE  CountsInv'
<1>0. TypeOK /\ LockInv /\ Progress /\ Reaped /\ StepKinds
  BY Kinds DEF SafeInv
<1> SUFFICES ASSUME Whole', pc'[Root] # "killed"
             PROVE  LineCounts' /\ (pc'[Root] # "gone" => history' = Count(Past)')
  BY DEF CountsInv
<1>1. /\ Whole /\ Calm /\ pc[Root] # "killed" /\ ~Interrupt
      /\ \A f \in File : ~Crash(f)
      /\ \A d \in Dir : ~CannotOpen(d)
  BY <1>0, WholeStep
<1>2. LineCounts /\ (pc[Root] # "gone" => history = Count(Past))
  BY <1>1 DEF CountsInv
<1>3. LineCounts'
  BY <1>0, <1>2, LinesKept
<1> SUFFICES ASSUME pc'[Root] # "gone" PROVE history' = Count(Past)'
  BY <1>3
<1>4. Root \in Dir /\ pc[Root] # "gone" /\ history = Count(Past)
  BY <1>0, <1>2, Stays, ThreadTreeAssumption DEF Ended
<1>5. ASSUME history' = history, Past' = Past PROVE history' = Count(Past)'
  BY <1>4, <1>5 DEF Count, FilesUnder, DirsUnder
<1>6. ASSUME NEW f \in File, Thread(f) PROVE history' = Count(Past)'
  <2>1. history' = history /\ pc' = pc
    BY <1>1, <1>6 DEF Thread, Acquire, FindMatch, FlushMatch, Searched, Release, files
  <2> QED
    BY <1>5, <2>1 DEF Past
<1>7. ASSUME NEW d \in Dir, Process(d) PROVE history' = Count(Past)'
  <2>1. CASE SavePid(d) \/ Find(d) \/ Create(d) \/ Listed(d) \/ Join(d) \/ Wait(d)
    <3>1. history' = history
      BY <2>1 DEF SavePid, Find, Create, Listed, Join, Wait, files
    <3>2. \A e \in Dir : pc'[e] = "gone" <=> pc[e] = "gone"
      BY <1>0, <2>1 DEF SavePid, Find, Create, Listed, Join, Wait, Goto, TypeOK
    <3> QED
      BY <1>5, <3>1, <3>2 DEF Past
  <2>2. CASE Fork(d)
    <3>1. history' = history /\ pc' = [pc EXCEPT ![Entry(d)] = "born"] /\ pc[Entry(d)] = "unborn"
      BY <1>0, <2>2, NewEntry DEF Fork
    <3>2. \A e \in Dir : pc'[e] = "gone" <=> pc[e] = "gone"
      BY <1>0, <3>1 DEF TypeOK
    <3> QED
      BY <1>5, <3>1, <3>2 DEF Past
  <2>3. CASE Record(d)
    <3>1. /\ history' = Added(history, d) /\ pc' = [pc EXCEPT ![d] = "gone"] /\ pc[d] = "record"
      BY <2>3 DEF Record, Goto
    <3>2. d # Root /\ d \notin Past /\ Past' = Past \cup {d}
      BY <1>0, <3>1 DEF Progress, Ways, Past, TypeOK
    <3>3. lines[d] = Cardinality(ToSet(Files[d]))
      <4>1. Joined(d)
        BY <1>0, <3>1 DEF Reaped, ThreadsJoined
      <4> QED
        BY <1>2, <3>1, <4>1, AllSearched DEF LineCounts
    <3>4. Past \in SUBSET Dir
      BY DEF Past
    <3>5. Added(history, d) = Count(Past \cup {d})
      BY <1>4, <3>2, <3>3, <3>4, AddedCounts
    <3> QED
      BY <3>1, <3>2, <3>5 DEF Count, FilesUnder, DirsUnder
  <2> QED
    BY <1>1, <1>7, <2>1, <2>2, <2>3 DEF Process
<1>8. ASSUME ReadHistory \/ ShowTotals \/ UNCHANGED vars PROVE history' = Count(Past)'
  <2>1. history' = history
    BY <1>8 DEF ReadHistory, ShowTotals, vars, files
  <2>2. \A e \in Dir : pc'[e] = "gone" <=> pc[e] = "gone"
    BY <1>0, <1>4, <1>8 DEF ReadHistory, ShowTotals, Goto, vars, TypeOK
  <2> QED
    BY <1>5, <2>1, <2>2 DEF Past
<1>9. ~RemoveFiles
  BY <1>0, <1>4 DEF RemoveFiles, Goto, TypeOK
<1> QED
  BY <1>1, <1>6, <1>7, <1>8, <1>9 DEF Next, Main

\* When the main process adds up, all others are through.
LEMMA AllGone ==
  ASSUME SafeInv, Whole, pc[Root] \in {"read", "count"}
  PROVE  /\ Past = Dir \ {Root} /\ Joined(Root)
         /\ \A f \in File : th[f] = "end"
<1>0. TypeOK /\ Progress /\ Reaped /\ Root \in Dir /\ closed = {}
  BY ThreadTreeAssumption DEF SafeInv, Whole
<1>1. Calm
  BY <1>0 DEF Calm, Reaped, Causes
<1>2. Waited(Root) /\ Joined(Root)
  BY <1>0 DEF Reaped, ChildrenEnded, ThreadsJoined
<1>3. \A d \in Dir \ {Root} : pc[d] = "unborn" \/ pc[d] = "gone"
  <2>1. \A d \in Dir \ {Root} : pc[d] = "unborn" \/ Ended(d)
    BY <1>0, <1>1, <1>2, Reached DEF Waited
  <2> QED
    BY <1>0, <1>1, <2>1 DEF Ended, Calm, Crashed, Reaped, Causes
<1>4. \A d \in Dir \ {Root} : pc[d] # "unborn"
  <2> DEFINE S == {d \in Dir \ {Root} : pc[d] = "unborn"}
  <2> SUFFICES ASSUME S # {} PROVE FALSE
    OBVIOUS
  <2>1. PICK d \in Dir \ S : ToSet(Subdirs[d]) \cap S # {}
    <3>1. S \in SUBSET (Dir \ {Root})
      OBVIOUS
    <3> HIDE DEF S
    <3> QED
      BY <3>1, ThreadTreeAssumption
  <2>2. PICK c \in ToSet(Subdirs[d]) : c \in S
    BY <2>1
  <2>3. next[d] > Len(Entries(d))
    <3>1. CASE d = Root
      BY <1>0, <3>1 DEF Progress, Exhausted
    <3>2. CASE d # Root
      <4>1. Recorded(d)
        BY <1>0, <1>3, <3>2 DEF Recorded
      <4> QED
        BY <1>0, <4>1 DEF Reaped, EntriesHandedOut
    <3> QED
      BY <3>1, <3>2
  <2>4. PICK i \in DOMAIN Entries(d) : Entries(d)[i] = c
    BY <2>2, PlaceOf
  <2>5. i >= next[d]
    <3>1. Entries(d)[i] \in Dir /\ pc[Entries(d)[i]] = "unborn"
      BY <2>2, <2>4
    <3> QED
      BY <1>0, <3>1 DEF Progress, DirsInOrder
  <2>6. i \in Nat /\ i <= Len(Entries(d)) /\ Len(Entries(d)) \in Nat /\ next[d] \in Nat
    <3>1. DOMAIN Entries(d) = 1 .. Len(Entries(d)) /\ Len(Entries(d)) \in Nat
      BY Listing1
    <3>2. next[d] \in Nat
      BY <1>0 DEF TypeOK
    <3> QED
      BY <3>1, <3>2
  <2> QED
    BY <2>3, <2>5, <2>6
<1>5. Past = Dir \ {Root}
  BY <1>3, <1>4 DEF Past
<1>6. ASSUME NEW f \in File PROVE th[f] = "end"
  <2>1. Home(f) \in Dir /\ f \in ToSet(Files[Home(f)])
    BY HomeOf
  <2>2. Joined(Home(f))
    <3>1. CASE Home(f) = Root
      BY <1>2, <3>1
    <3>2. CASE Home(f) # Root
      <4>1. Recorded(Home(f))
        BY <1>0, <1>3, <1>4, <2>1, <3>2 DEF Recorded
      <4> QED
        BY <1>0, <2>1, <4>1 DEF Reaped, ThreadsJoined
    <3> QED
      BY <3>1, <3>2
  <2> QED
    BY <2>1, <2>2 DEF Joined
<1> QED
  BY <1>2, <1>5, <1>6
---------------------------------------------------------------------------
(* The matches *)

LEMMA LeftTypes ==
  ASSUME TypeOK
  PROVE  /\ log \in Nat /\ Together(left, File) \in Nat /\ Cardinality(Buffered) \in Nat
         /\ IsFiniteSet(Buffered) /\ Known \in Nat /\ AllHits \in Nat
<1>1. IsFiniteSet(File) /\ \A f \in File : left[f] \in Nat /\ Hits[f] \in Nat
  BY ThreadTreeAssumption DEF TypeOK
<1>2. Together(left, File) \in Nat /\ Together(Hits, File) \in Nat
  BY <1>1, TogetherType
<1>3. Buffered \in SUBSET File
  BY DEF Buffered
<1>4. IsFiniteSet(Buffered) /\ Cardinality(Buffered) \in Nat
  BY <1>3, SomeFiles
<1>5. log \in Nat
  BY DEF TypeOK
<1> QED
  BY <1>2, <1>4, <1>5 DEF Known, AllHits

LEMMA SameLog ==
  ASSUME LogFacts, log' = log, left' = left, dirsFirst' = dirsFirst,
         \A f \in File : th'[f] = "printed" <=> th[f] = "printed",
         \A f \in File : th'[f] \in {"dash", "end"} => th[f] \in {"dash", "end"} \/ left[f] = 0,
         Mixed \subseteq dirsFirst /\ (\A d \in Dir : copied[d] = 0) => \A d \in Dir : copied'[d] = 0
  PROVE  LogFacts'
<1>1. Buffered' = Buffered
  BY DEF Buffered
<1>2. Known' = Known
  BY <1>1 DEF Known
<1>3. Known >= AllHits => Known' >= AllHits
  BY <1>2
<1>4. \A f \in File : th'[f] \in {"dash", "end"} => left'[f] = 0
  BY DEF LogFacts
<1> QED
  BY <1>2, <1>3, <1>4 DEF LogFacts, AllHits, Mixed

\* A process that lists subdirectories first forks before it has created a thread.
LEMMA ForkedBefore ==
  ASSUME TypeOK, Progress, Mixed \subseteq dirsFirst, NEW d \in Dir, Listing(d), Entry(d) \in Dir
  PROVE  Printed(d) = {}
<1> SUFFICES ASSUME NEW f \in ToSet(Files[d]), th[f] = "printed" PROVE FALSE
  BY DEF Printed
<1>1. /\ next[d] \in DOMAIN Entries(d) /\ Entry(d) = Entries(d)[next[d]]
      /\ Entry(d) \in ToSet(Subdirs[d])
  BY EntryType
<1>2. f \in File
  BY Tree
<1>3. Subdirs[d] # <<>> /\ Files[d] # <<>>
  <2>1. \A s : s = <<>> => ToSet(s) = {}
    BY DEF ToSet
  <2> QED
    BY <1>1, <2>1
<1>4. d \in dirsFirst
  BY <1>3 DEF Mixed
<1>5. PICK j \in DOMAIN Entries(d) : Entries(d)[j] = f
  BY PlaceOf
<1>6. next[d] < j
  BY <1>1, <1>2, <1>4, <1>5, Listing1
<1>7. j \in Nat /\ next[d] \in Nat
  BY <1>1, <1>5, Listing1
<1>8. ~Ended(d)
  BY DEF Listing, Ended
<1>9. th[Entries(d)[j]] = "none" <=> j >= next[d]
  BY <1>2, <1>5, <1>8 DEF Progress, FilesInOrder
<1> QED
  BY <1>5, <1>6, <1>7, <1>9

LEMMA FindLog ==
  ASSUME TypeOK, LogFacts, NEW f \in File, FindMatch(f)
  PROVE  LogFacts'
<1>1. /\ left' = [left EXCEPT ![f] = @ - 1] /\ th[f] = "scan" /\ left[f] > 0
      /\ \A g \in File : th'[g] = IF g = f THEN "printed" ELSE th[g]
      /\ log' = log /\ copied' = copied /\ dirsFirst' = dirsFirst
  BY DEF FindMatch, files, input, TypeOK
<1>2. left \in [File -> Nat] /\ IsFiniteSet(File)
  BY ThreadTreeAssumption DEF TypeOK
<1>3. Together(left', File) = Together(left, File) - 1
  BY <1>1, <1>2, TogetherLess
<1>4. f \notin Buffered /\ Buffered' = Buffered \cup {f}
  BY <1>1 DEF Buffered
<1>5. Cardinality(Buffered') = Cardinality(Buffered) + 1
  BY <1>4, LeftTypes, FS_AddElement
<1>6. Known' = Known
  BY <1>1, <1>3, <1>5, LeftTypes DEF Known
<1>7. \A g \in File : th'[g] \in {"dash", "end"} => left'[g] = 0
  BY <1>1, <1>2 DEF LogFacts
<1>8. Known >= AllHits /\ (Mixed \subseteq dirsFirst => Known = AllHits /\ \A d \in Dir : copied[d] = 0)
  BY DEF LogFacts
<1> QED
  BY <1>1, <1>6, <1>7, <1>8 DEF LogFacts, AllHits, Mixed

LEMMA FlushLog ==
  ASSUME TypeOK, LogFacts, NEW f \in File, FlushMatch(f)
  PROVE  LogFacts'
<1>1. /\ th[f] = "printed" /\ \A g \in File : th'[g] = IF g = f THEN "scan" ELSE th[g]
      /\ log' = log + 1 /\ left' = left /\ copied' = copied /\ dirsFirst' = dirsFirst
  BY DEF FlushMatch, input, TypeOK
<1>2. f \in Buffered /\ Buffered' = Buffered \ {f}
  BY <1>1 DEF Buffered
<1>3. Cardinality(Buffered') = Cardinality(Buffered) - 1
  BY <1>2, LeftTypes, FS_RemoveElement
<1>4. Known' = Known
  BY <1>1, <1>3, LeftTypes DEF Known
<1>5. \A g \in File : th'[g] \in {"dash", "end"} => left'[g] = 0
  BY <1>1 DEF LogFacts
<1>6. Known >= AllHits /\ (Mixed \subseteq dirsFirst => Known = AllHits /\ \A d \in Dir : copied[d] = 0)
  BY DEF LogFacts
<1> QED
  BY <1>1, <1>4, <1>5, <1>6 DEF LogFacts, AllHits, Mixed

LEMMA RecordLog ==
  ASSUME TypeOK, Reaped, LogFacts, NEW d \in Dir, Record(d)
  PROVE  LogFacts'
<1>1. /\ FlushAll({d}) /\ pc[d] = "record" /\ th' = th /\ left' = left /\ dirsFirst' = dirsFirst
  BY DEF Record, Goto, thread, input
<1>2. {d} \in SUBSET Dir
  OBVIOUS
<1>3. /\ log' = log + Together(Piles, {d}) /\ Together(Piles, {d}) \in Nat
      /\ (\A e \in {d} : copied[e] = 0 /\ Printed(e) = {}) => Together(Piles, {d}) = 0
  BY <1>1, <1>2, FlushTypes, PilesType
<1>4. Printed(d) = {}
  BY <1>1 DEF Reaped, ThreadsJoined, Joined, Printed
<1>5. copied[d] = 0 => log' = log
  BY <1>3, <1>4, LeftTypes
<1>6. \A e \in Dir : copied'[e] = IF e = d THEN 0 ELSE copied[e]
  BY <1>1 DEF FlushAll
<1>7. Buffered' = Buffered
  BY <1>1 DEF Buffered
<1>8. Known' = Known + Together(Piles, {d})
  BY <1>1, <1>3, <1>7, LeftTypes DEF Known
<1>9. copied[d] = 0 => Known' = Known
  BY <1>1, <1>5, <1>7 DEF Known
<1>10. Known >= AllHits /\ (Mixed \subseteq dirsFirst => Known = AllHits /\ \A e \in Dir : copied[e] = 0)
  BY DEF LogFacts
<1>11. Known' >= AllHits
  BY <1>3, <1>8, <1>10, LeftTypes
<1>12. \A g \in File : th'[g] \in {"dash", "end"} => left'[g] = 0
  BY <1>1 DEF LogFacts
<1>13. Mixed \subseteq dirsFirst => Known' = AllHits /\ \A e \in Dir : copied'[e] = 0
  BY <1>6, <1>9, <1>10
<1> QED
  BY <1>1, <1>11, <1>12, <1>13 DEF LogFacts, AllHits, Mixed

LEMMA LogKept ==
  ASSUME SafeInv, [Next]_vars, LogInv
  PROVE  LogInv'
<1>0. TypeOK /\ LockInv /\ Progress /\ Reaped /\ StepKinds
  BY Kinds DEF SafeInv
<1> SUFFICES ASSUME Whole', pc'[Root] # "killed" PROVE LogFacts'
  BY DEF LogInv
<1>1. /\ Whole /\ Calm /\ pc[Root] # "killed" /\ ~Interrupt
      /\ \A f \in File : ~Crash(f)
      /\ \A d \in Dir : ~CannotOpen(d)
  BY <1>0, WholeStep
<1>2. LogFacts /\ dirsFirst' = dirsFirst
  BY <1>0, <1>1, InputSame DEF LogInv
<1>3. ASSUME NEW f \in File, Thread(f) PROVE LogFacts'
  <2>1. CASE FindMatch(f)
    BY <1>0, <1>2, <2>1, FindLog
  <2>2. CASE FlushMatch(f)
    BY <1>0, <1>2, <2>2, FlushLog
  <2>3. CASE Acquire(f) \/ Searched(f) \/ Release(f)
    <3>1. log' = log /\ left' = left /\ copied' = copied
      BY <2>3 DEF Acquire, Searched, Release, files
    <3>2. \A g \in File : th'[g] = "printed" <=> th[g] = "printed"
      BY <1>0, <2>3 DEF Acquire, Searched, Release, TypeOK
    <3>3. \A g \in File : th'[g] \in {"dash", "end"} => th[g] \in {"dash", "end"} \/ left[g] = 0
      BY <1>0, <2>3 DEF Acquire, Searched, Release, TypeOK
    <3> QED
      BY <1>2, <3>1, <3>2, <3>3, SameLog
  <2> QED
    BY <1>1, <1>3, <2>1, <2>2, <2>3 DEF Thread
<1>4. ASSUME NEW d \in Dir, Process(d) PROVE LogFacts'
  <2>1. CASE SavePid(d) \/ Find(d) \/ Listed(d) \/ Join(d) \/ Wait(d)
    <3>1. log' = log /\ left' = left /\ copied' = copied /\ th' = th
      BY <2>1 DEF SavePid, Find, Listed, Join, Wait, thread, files
    <3> QED
      BY <1>2, <3>1, SameLog
  <2>2. CASE Create(d)
    <3>1. /\ log' = log /\ left' = left /\ copied' = copied /\ th[Entry(d)] = "none"
          /\ \A g \in File : th'[g] = IF g = Entry(d) THEN "ready" ELSE th[g]
      BY <1>0, <2>2, NewEntry DEF Create, TypeOK
    <3> QED
      BY <1>2, <3>1, SameLog
  <2>3. CASE Fork(d)
    <3>1. /\ log' = log /\ left' = left /\ th' = th
          /\ \A e \in Dir : copied'[e] = IF e = Entry(d) THEN copied[d] + Cardinality(Printed(d))
                                         ELSE copied[e]
      BY <1>0, <2>3 DEF Fork, TypeOK
    <3>2. Mixed \subseteq dirsFirst => Cardinality(Printed(d)) = 0
      BY <1>0, <2>3, ForkedBefore, PrintedType DEF Fork
    <3>3. Mixed \subseteq dirsFirst /\ (\A e \in Dir : copied[e] = 0)
            => \A e \in Dir : copied'[e] = 0
      BY <3>1, <3>2
    <3> QED
      BY <1>2, <3>1, <3>3, SameLog
  <2>4. CASE Record(d)
    BY <1>0, <1>2, <2>4, RecordLog
  <2> QED
    BY <1>1, <1>4, <2>1, <2>2, <2>3, <2>4 DEF Process
<1>5. ASSUME Main \/ UNCHANGED vars PROVE LogFacts'
  <2>1. log' = log /\ left' = left /\ copied' = copied /\ th' = th
    BY <1>5 DEF Main, ReadHistory, ShowTotals, RemoveFiles, thread, files, vars
  <2> QED
    BY <1>2, <2>1, SameLog
<1> QED
  BY <1>1, <1>3, <1>4, <1>5 DEF Next
---------------------------------------------------------------------------
(* The totals *)

LEMMA WholeTree == FilesUnder(Dir) = File /\ Cardinality(DirsUnder(Dir)) = Cardinality(Dir) - 1
<1>1. FilesUnder(Dir) = File
  BY HomeOf DEF FilesUnder
<1>2. Root \in Dir /\ IsFiniteSet(Dir)
  BY ThreadTreeAssumption
<1>3. DirsUnder(Dir) \subseteq Dir \ {Root}
  BY Tree DEF DirsUnder
<1>4. ASSUME NEW d \in Dir \ {Root} PROVE d \in DirsUnder(Dir)
  <2>1. {d} \in SUBSET (Dir \ {Root}) /\ {d} # {}
    OBVIOUS
  <2>2. PICK e \in Dir \ {d} : ToSet(Subdirs[e]) \cap {d} # {}
    BY <2>1, ThreadTreeAssumption
  <2> QED
    BY <2>2 DEF DirsUnder
<1>5. DirsUnder(Dir) = Dir \ {Root}
  BY <1>3, <1>4
<1>6. Cardinality(Dir \ {Root}) = Cardinality(Dir) - 1
  BY <1>2, FS_RemoveElement
<1> QED
  BY <1>1, <1>5, <1>6

\* The main process adds its own counts to those of all others.
LEMMA ReadSums ==
  ASSUME SafeInv, CountsInv, ReadHistory
  PROVE  Summed'
<1>0. TypeOK /\ Root \in Dir /\ closed' = closed
  BY ThreadTreeAssumption DEF SafeInv, ReadHistory, input
<1> SUFFICES ASSUME Whole
             PROVE  /\ totals'.lines = Cardinality(File) /\ totals'.files = Cardinality(File)
                    /\ totals'.dirs = Cardinality(Dir) - 1
  BY <1>0 DEF Summed, Whole
<1>1. pc[Root] = "read" /\ totals' = Added(history, Root)
  BY DEF ReadHistory, Goto
<1>2. Past = Dir \ {Root} /\ Joined(Root)
  BY <1>1, AllGone
<1>3. LineCounts /\ history = Count(Past)
  BY <1>1 DEF CountsInv
<1>4. lines[Root] = Cardinality(ToSet(Files[Root]))
  BY <1>0, <1>1, <1>2, <1>3, AllSearched DEF LineCounts
<1>5. Past \in SUBSET Dir /\ Root \in Dir \ Past /\ Past \cup {Root} = Dir
  BY <1>0, <1>2
<1>6. Added(history, Root) = Count(Past \cup {Root})
  BY <1>3, <1>4, <1>5, AddedCounts
<1>7. totals' = Count(Dir)
  BY <1>1, <1>5, <1>6
<1> QED
  BY <1>7, WholeTree DEF Count

\* What the main process prints.
LEMMA ShownExact ==
  ASSUME SafeInv, MarksInv, CountsInv, LogInv, TotalsInv, ShowTotals
  PROVE  TotalsExact' /\ LogExact' /\ totals'.max \in Nat
<1>0. TypeOK /\ Root \in Dir /\ Reaped
  BY ThreadTreeAssumption DEF SafeInv
<1>1. /\ pc[Root] = "count" /\ totals' = Shown /\ closed' = closed /\ dirsFirst' = dirsFirst
      /\ peak' = peak /\ pc' = [pc EXCEPT ![Root] = "remove"]
  BY DEF ShowTotals, Goto, input
<1>2. /\ totals'.lines = totals.lines /\ totals'.dirs = totals.dirs + 1
      /\ totals'.files = totals.files /\ totals'.strings = log
      /\ totals'.created = marks.created /\ totals'.max = marks.max
  BY <1>1 DEF Shown
<1>3. Crashed' <=> Crashed
  BY <1>0, <1>1 DEF Crashed, TypeOK
<1>4. ASSUME ~Crashed' PROVE totals'.max <= peak'
  <2>1. Calm
    BY <1>1, <1>3, <1>4 DEF Calm
  <2> QED
    BY <1>1, <1>2, <2>1 DEF MarksInv
<1>5. ASSUME Whole
      PROVE  /\ totals'.lines = Cardinality(File) /\ totals'.files = Cardinality(File)
             /\ totals'.dirs = Cardinality(Dir) /\ totals'.created = Cardinality(File)
  <2>1. /\ totals.lines = Cardinality(File) /\ totals.files = Cardinality(File)
        /\ totals.dirs = Cardinality(Dir) - 1
    BY <1>1, <1>5 DEF TotalsInv, Summed
  <2>2. Calm
    BY <1>0, <1>1, <1>5 DEF Calm, Reaped, Causes
  <2>3. marks.created = Cardinality(Started)
    BY <2>2 DEF MarksInv
  <2>4. \A f \in File : th[f] = "end"
    BY <1>1, <1>5, AllGone
  <2>5. Started = File
    BY <2>4 DEF Started
  <2>6. Cardinality(Dir) \in Nat
    BY FS_CardinalityType, ThreadTreeAssumption
  <2> QED
    BY <1>2, <2>1, <2>3, <2>5, <2>6
<1>6. ASSUME Whole
      PROVE  /\ totals'.strings >= AllHits
             /\ Mixed \subseteq dirsFirst => totals'.strings = AllHits
  <2>1. LogFacts
    BY <1>1, <1>6 DEF LogInv
  <2>2. \A f \in File : th[f] = "end"
    BY <1>1, <1>6, AllGone
  <2>3. \A f \in File : left[f] = 0
    BY <2>1, <2>2 DEF LogFacts
  <2>4. Together(left, File) = 0
    BY <2>3, TogetherNone
  <2>5. Buffered = {}
    BY <2>2 DEF Buffered
  <2>6. Cardinality(Buffered) = 0
    BY <2>5, FS_EmptySet
  <2>7. Known = log
    BY <1>0, <2>4, <2>6, LeftTypes DEF Known
  <2> QED
    BY <1>2, <2>1, <2>7 DEF LogFacts
<1>7. TotalsExact'
  BY <1>1, <1>4, <1>5 DEF TotalsExact, Whole
<1>8. LogExact'
  BY <1>1, <1>6 DEF LogExact, Whole, AllHits, Mixed
<1>9. totals'.max \in Nat
  BY <1>0, <1>2 DEF TypeOK
<1> QED
  BY <1>7, <1>8, <1>9

LEMMA TotalsKept ==
  ASSUME IInv, [Next]_vars
  PROVE  TotalsInv'
<1>0. /\ SafeInv /\ MarksInv /\ CountsInv /\ LogInv /\ TotalsInv
      /\ TypeOK /\ Progress /\ Reaped /\ StepKinds /\ Root \in Dir
  BY Kinds, ThreadTreeAssumption DEF IInv, SafeInv
<1>1. closed' = closed /\ dirsFirst' = dirsFirst
  BY <1>0, InputSame
<1>2. CASE ReadHistory
  <2>1. pc' = [pc EXCEPT ![Root] = "count"] /\ pc'[Root] = "count"
    BY <1>0, <1>2 DEF ReadHistory, Goto, TypeOK
  <2>2. Summed'
    BY <1>0, <1>2, ReadSums
  <2> QED
    BY <2>1, <2>2 DEF TotalsInv, TotalsExact, LogExact, Printing
<1>3. CASE ShowTotals
  <2>1. pc'[Root] = "remove"
    BY <1>0, <1>3 DEF ShowTotals, Goto, TypeOK
  <2>2. TotalsExact' /\ LogExact' /\ totals'.max \in Nat
    BY <1>0, <1>3, ShownExact
  <2> QED
    BY <2>1, <2>2 DEF TotalsInv, Summed
<1>4. CASE ~ReadHistory /\ ~ShowTotals
  <2>1. totals' = totals
    BY <1>4 DEF Next, Thread, Process, Main, Acquire, Crash, FindMatch, FlushMatch, Searched, Release,
       SavePid, CannotOpen, Find, Create, Fork, Listed, Join, Wait, Record, RemoveFiles, Interrupt,
       vars, outcome
  <2>2. peak' >= peak /\ peak \in Nat
    <3>1. peak \in Nat
      BY <1>0 DEF TypeOK
    <3>2. ASSUME NEW d \in Dir, Create(d) PROVE peak' >= peak
      BY <3>1, <3>2, SetTypes DEF Create, Larger
    <3>3. peak' = peak \/ \E d \in Dir : Create(d)
      BY <1>4 DEF Next, Thread, Process, Main, Acquire, Crash, FindMatch, FlushMatch, Searched, Release,
         SavePid, CannotOpen, Find, Fork, Listed, Join, Wait, Record, RemoveFiles, Interrupt,
         vars, outcome
    <3> QED
      BY <3>1, <3>2, <3>3
  <2>3. Crashed => Crashed'
    BY <1>0, Stays DEF Crashed, Ended
  <2>4. /\ pc'[Root] = "count" => pc[Root] = "count"
        /\ pc'[Root] = "remove" => pc[Root] = "remove"
        /\ pc'[Root] \in {"find", "loop", "join", "wait", "read"}
             => pc[Root] \in {"find", "loop", "join", "wait", "read"}
        /\ pc'[Root] = "gone" => pc[Root] \in {"find", "remove", "gone"}
    <3>1. pc[Root] \notin {"unborn", "born", "record"}
      BY <1>0 DEF Progress, Ways
    <3>2. \/ pc'[Root] = pc[Root]
          \/ pc'[Root] \in {"crashed", "killed"}
          \/ pc[Root] = "find" /\ pc'[Root] \in {"gone", "loop"}
          \/ pc[Root] = "loop" /\ pc'[Root] = "join"
          \/ pc[Root] = "join" /\ pc'[Root] = "wait"
          \/ pc[Root] = "wait" /\ pc'[Root] = "read"
          \/ pc[Root] = "remove" /\ pc'[Root] = "gone"
      <4>1. Main => RemoveFiles
        BY <1>4 DEF Main
      <4>2. ASSUME NEW f \in File, Thread(f) PROVE pc' = pc \/ pc'[Root] \in {pc[Root], "crashed"}
        BY <1>0, <4>2 DEF Thread, Acquire, Crash, FindMatch, FlushMatch, Searched, Release, TypeOK
      <4>3. ASSUME NEW d \in Dir, Process(d), pc'[Root] # pc[Root]
            PROVE  \/ pc[Root] = "find" /\ pc'[Root] \in {"gone", "loop"}
                   \/ pc[Root] = "loop" /\ pc'[Root] = "join"
                   \/ pc[Root] = "join" /\ pc'[Root] = "wait"
                   \/ pc[Root] = "wait" /\ pc'[Root] = "read"
        <5>1. CASE Fork(d)
          <6>1. Entry(d) # Root /\ pc' = [pc EXCEPT ![Entry(d)] = "born"]
            BY <1>0, <5>1, EntryType DEF Fork
          <6> QED
            BY <1>0, <4>3, <6>1 DEF TypeOK
        <5>2. CASE Create(d)
          BY <4>3, <5>2 DEF Create
        <5>3. CASE ~Fork(d) /\ ~Create(d)
          BY <1>0, <3>1, <4>3, <5>3
             DEF Process, SavePid, CannotOpen, Find, Listed, Join, Wait, Record, Goto, TypeOK
        <5> QED
          BY <5>1, <5>2, <5>3
      <4>4. Interrupt => pc'[Root] = "killed"
        BY <1>0, Interrupted
      <4>5. RemoveFiles => pc[Root] = "remove" /\ pc'[Root] = "gone"
        BY <1>0 DEF RemoveFiles, Goto, TypeOK
      <4>6. UNCHANGED vars => pc' = pc
        BY DEF vars
      <4> QED
        BY <4>1, <4>2, <4>3, <4>4, <4>5, <4>6 DEF Next
    <3> QED
      BY <3>2
  <2>5. pc'[Root] \in {"find", "loop", "join", "wait", "read"} => totals' = None
    BY <1>0, <2>1, <2>4 DEF TotalsInv
  <2>6. Summed'
    BY <1>0, <1>1, <2>1, <2>4 DEF TotalsInv, Summed, Whole
  <2>7. Printing' => Printing
    BY <1>0, <2>1, <2>4 DEF TotalsInv, Printing
  <2>8. LogExact'
    <3>1. LogExact
      BY <1>0 DEF TotalsInv
    <3> QED
      BY <1>1, <2>1, <2>7, <3>1 DEF LogExact, Whole, AllHits, Mixed
  <2>9. TotalsExact'
    <3>1. TotalsExact
      BY <1>0 DEF TotalsInv
    <3> SUFFICES ASSUME Printing'
                 PROVE  /\ ~Crashed' => totals'.max <= peak'
                        /\ Whole' => /\ totals'.lines = Cardinality(File)
                                     /\ totals'.files = Cardinality(File)
                                     /\ totals'.dirs = Cardinality(Dir)
                                     /\ totals'.created = Cardinality(File)
      BY DEF TotalsExact
    <3>2. Printing /\ totals.max \in Nat
      BY <1>0, <2>7 DEF TotalsInv
    <3>3. ~Crashed' => totals.max <= peak
      BY <2>3, <3>1, <3>2 DEF TotalsExact
    <3>4. peak' \in Nat
      BY <1>0, TypeKept DEF SafeInv, TypeOK
    <3>5. ~Crashed' => totals'.max <= peak'
      BY <2>1, <2>2, <3>2, <3>3, <3>4
    <3> QED
      BY <1>1, <2>1, <3>1, <3>2, <3>5 DEF TotalsExact, Whole
  <2>10. Printing' => totals'.max \in Nat
    BY <1>0, <2>1, <2>7 DEF TotalsInv
  <2> QED
    BY <2>5, <2>6, <2>8, <2>9, <2>10 DEF TotalsInv
<1> QED
  BY <1>2, <1>3, <1>4
---------------------------------------------------------------------------
(* The whole invariant *)

LEMMA InitCounts == Init => MarksInv /\ CountsInv /\ LogInv /\ TotalsInv
<1> SUFFICES ASSUME Init PROVE MarksInv /\ CountsInv /\ LogInv /\ TotalsInv
  OBVIOUS
<1>1. /\ pc = [d \in Dir |-> IF d = Root THEN "find" ELSE "unborn"] /\ th = [f \in File |-> "none"]
      /\ history = NoHistory /\ Root \in Dir /\ left = Hits /\ log = 0 /\ totals = None
      /\ marks = [created |-> 0, streak |-> 0, max |-> 0] /\ peak = 0
      /\ copied = [d \in Dir |-> 0]
  BY ThreadTreeAssumption DEF Init
<1>2. Cardinality({}) = 0
  BY FS_EmptySet
<1>3. Open = {} /\ Started = {} /\ Buffered = {}
  BY <1>1 DEF Open, Running, Started, Buffered
<1>4. MarksInv
  BY <1>1, <1>2, <1>3 DEF MarksInv
<1>5. Past = {} /\ FilesUnder({}) = {} /\ DirsUnder({}) = {}
  BY <1>1 DEF Past, FilesUnder, DirsUnder
<1>6. Count(Past) = NoHistory
  BY <1>2, <1>5 DEF Count, NoHistory
<1>7. CountsInv
  BY <1>1, <1>6 DEF CountsInv, LineCounts
<1>8. TypeOK
  BY InitType
<1>9. Known = AllHits /\ AllHits \in Nat
  BY <1>1, <1>2, <1>3, <1>8, LeftTypes DEF Known, AllHits
<1>10. LogInv
  BY <1>1, <1>9 DEF LogInv, LogFacts
<1>11. TotalsInv
  BY <1>1 DEF TotalsInv, Summed, TotalsExact, LogExact, Printing
<1> QED
  BY <1>4, <1>7, <1>10, <1>11

\* The counts of every process and thread are where the next one finds them: in the
\* buffers, in maxthread.txt, in history.txt or in log.txt, once each.
THEOREM Counting == Spec => []IInv
<1>1. Init => IInv
  BY InitType, InitSafe, InitCounts DEF IInv, SafeInv
<1>2. IInv /\ [Next]_vars => IInv'
  BY SafeKept, MarksKept, CountsKept, LogKept, TotalsKept DEF IInv
<1> QED
  BY <1>1, <1>2, PTL DEF Spec

\* The totals that the main process prints are those of the tree if everything can be
\* opened, and the longest streak of created threads was alive at once unless one crashed.
THEOREM TotalsAreExact == Spec => []TotalsExact
<1>1. IInv => TotalsExact
  BY DEF IInv, TotalsInv
<1> QED
  BY <1>1, Counting, PTL

\* No match is missing in the number of strings found, and none is counted twice if no
\* process forks after it created a thread.
THEOREM LogIsExact == Spec => []LogExact
<1>1. IInv => LogExact
  BY DEF IInv, TotalsInv
<1> QED
  BY <1>1, Counting, PTL
=============================================================================
