-------------------------- MODULE GrepFifo_proofs --------------------------
(***************************************************************************)
(* Proofs about GrepFifo, for a tree of any shape and depth, any number of *)
(* failures and any length of a read.                                      *)
(*                                                                         *)
(* The invariant follows the hands through which output goes up: how many  *)
(* of its entries a directory has forked (Forked) and of how many          *)
(* subdirectories it has taken the output (Taken), that these ended as     *)
(* they should (Handed), and that what it has got is then a function of    *)
(* the tree (Gathered). Who failed is never taken from, so whoever waits   *)
(* above it has not been forked past, nor has gone past it.                *)
(*                                                                         *)
(* A second invariant (WaitInv) says the converse, that who was forked is  *)
(* there and who is not read from has not written: of those that wait, a   *)
(* lowest one would then have what it waits for, unless something failed.  *)
(***************************************************************************)
EXTENDS GrepFifo, FiniteSetTheorems, WellFoundedInduction, TLAPS

\* The pipe of d fails.
Poor(d) == d \in scarce /\ Files[d] # <<>>
\* d never comes to its entries.
Cut(d) == d \in closed \/ Poor(d)

\* How many entries d has forked.
Forked(d) ==
  IF Cut(d) \/ pc[d] \in {"unborn", "find", "nopipe"} THEN 0
  ELSE IF pc[d] = "fork" THEN next[d] - 1 ELSE Len(Entries[d])

\* How many FIFOs it has read.
Taken(d) ==
  IF Cut(d) \/ pc[d] \in {"unborn", "find", "nopipe", "fork"} THEN 0
  ELSE IF pc[d] \in {"open", "read"} THEN next[d] - 1 ELSE Len(Subdirs[d])

\* d ended after it had handed on its output.
Done(d) == pc[d] = "gone" /\ ~Poor(d)
\* d has the output of all its entries.
Collected(d) == pc[d] \in {"put", "write", "report", "gone"} /\ ~Poor(d)

\* The output of the first k subdirectories of d, o being the output of all.
Got(o, d, k) == FlattenSeq([i \in 1 .. k |-> OneRead(o[Subdirs[d][i]])])

FileKinds ==
  \A f \in File : /\ pc[f] \in {"unborn", "find", "gone", "failed"}
                  /\ pc[f] = "gone" => f \notin closed /\ pipe[f] = Lines(f)
\* What is known of d when it is at p, and at n in the loop it is in.
DirKind(d, p, n) ==
  /\ p \in {"unborn", "find"} => n = 1
  /\ p \in {"fork", "open", "read", "wait", "put", "write"} => ~Cut(d)
  /\ p = "nopipe" => Poor(d)
  /\ p = "report" => d = Root
  /\ p \in {"nopipe", "report", "gone"} => d \notin closed
  /\ p = "fork" => n <= Len(Entries[d]) + 1
  /\ p = "open" => n <= Len(Subdirs[d]) + 1
  /\ p = "read" => n <= Len(Subdirs[d])
  /\ d = Root => p \notin {"unborn", "put", "write"}
DirKinds == \A d \in Dir : DirKind(d, pc[d], next[d])
Born ==
  \A d \in Dir : \A i \in DOMAIN Entries[d] : pc[Entries[d][i]] # "unborn" => i <= Forked(d)
Handed ==
  \A d \in Dir : \A i \in DOMAIN Subdirs[d] :
    /\ i <= Taken(d) => Done(Subdirs[d][i])
    /\ pc[d] = "read" /\ i = next[d] => pc[Subdirs[d][i]] = "write" \/ Done(Subdirs[d][i])
Waited == \A d \in Dir : Collected(d) => \A f \in ToSet(Files[d]) : pc[f] = "gone"
Fifos ==
  \A d \in Dir : \A i \in DOMAIN Subdirs[d] :
    /\ Subdirs[d][i] \in fifo => i > Taken(d)
    /\ d \notin closed /\ pc[d] \notin {"unborn", "find"} /\ i > Taken(d) => Subdirs[d][i] \in fifo
Gathered == \A d \in Dir : arr[d] = IF Collected(d) THEN Output[d] ELSE Got(Output, d, Taken(d))
Written == \A d \in Dir \ {Root} : Done(d) => sent[d] = Output[d]
Reported == total # -1 => pc[Root] = "gone" /\ total = Len(arr[Root])

IInv ==
  /\ TypeOK /\ FileKinds /\ DirKinds /\ Born /\ Handed /\ Waited /\ Fifos
  /\ Gathered /\ Written /\ Reported
----------------------------------------------------------------------------
(* Natural numbers and sequences *)

\* Every set of natural numbers has a least one: 1 .. n grows with n.
LEMMA Least ==
  ASSUME NEW S \in SUBSET Nat, S # {}
  PROVE  \E n \in S : \A m \in S : n <= m
<1> DEFINE T == {1 .. n : n \in S}
<1>1. T # {} /\ T \subseteq FiniteSubsetsOf(Nat)
  <2>1. ASSUME NEW n \in S PROVE 1 .. n \in FiniteSubsetsOf(Nat)
    <3>1. 1 \in Int /\ n \in Int /\ 1 .. n \in SUBSET Nat
      OBVIOUS
    <3>2. IsFiniteSet(1 .. n)
      BY <3>1, FS_Interval
    <3> QED
      BY <3>1, <3>2 DEF FiniteSubsetsOf
  <2> QED
    BY <2>1
<1>2. IsWellFoundedOn(StrictSubsetOrdering(Nat), FiniteSubsetsOf(Nat))
  BY FS_StrictSubsetOrderingWellFounded
<1>3. PICK x \in T : \A y \in T : <<y, x>> \notin StrictSubsetOrdering(Nat)
  BY <1>1, <1>2, WFMin
<1>4. PICK n \in S : x = 1 .. n
  OBVIOUS
<1>5. ASSUME NEW m \in S, m < n PROVE FALSE
  <2>1. n \in 1 .. n /\ n \notin 1 .. m
    BY <1>5
  <2>2. 1 .. m \in T /\ 1 .. m \subseteq 1 .. n /\ 1 .. m # 1 .. n
    BY <1>5, <2>1
  <2>3. 1 .. m \in SUBSET Nat /\ 1 .. n \in SUBSET Nat
    OBVIOUS
  <2>4. <<1 .. m, 1 .. n>> \notin StrictSubsetOrdering(Nat)
    BY <1>3, <1>4, <2>2
  <2> HIDE DEF T
  <2> QED
    BY <2>2, <2>3, <2>4 DEF StrictSubsetOrdering
<1> QED
  BY <1>5

\* f[i] is what the first i sequences of s make together.
Flat(s, n, f) == \A i \in 1 .. n : f[i] = IF i = 1 THEN s[1] ELSE f[i - 1] \o s[i]

\* There is such an f.
LEMMA FlatExists ==
  ASSUME NEW A, NEW s \in Seq(Seq(A))
  PROVE  \E f \in [1 .. Len(s) -> Seq(A)] : Flat(s, Len(s), f)
<1> DEFINE P(n) == \E f \in [1 .. n -> Seq(A)] : Flat(s, n, f)
           S == {n \in Nat : n <= Len(s) /\ ~P(n)}
<1>1. SUFFICES ASSUME S # {} PROVE FALSE
  OBVIOUS
<1>2. PICK n \in S : \A m \in S : n <= m
  BY <1>1, Least
<1>3. n # 0
  <2>1. [i \in 1 .. 0 |-> <<>>] \in [1 .. 0 -> Seq(A)] /\ Flat(s, 0, [i \in 1 .. 0 |-> <<>>])
    BY DEF Flat
  <2> QED
    BY <2>1
<1>4. PICK f \in [1 .. n - 1 -> Seq(A)] : Flat(s, n - 1, f)
  <2>1. n \in Nat /\ n <= Len(s) /\ Len(s) \in Nat
    BY <1>2
  <2>2. n - 1 \in Nat /\ n - 1 <= Len(s) /\ ~(n <= n - 1)
    BY <2>1, <1>3
  <2>3. n - 1 \notin S
    BY <1>2, <2>2
  <2> QED
    BY <2>2, <2>3
<1> DEFINE last == IF n = 1 THEN s[1] ELSE f[n - 1] \o s[n]
           g == [i \in 1 .. n |-> IF i = n THEN last ELSE f[i]]
<1>5. last \in Seq(A)
  <2>1. n \in 1 .. Len(s) /\ s[n] \in Seq(A) /\ s[1] \in Seq(A)
    BY <1>3
  <2>2. CASE n = 1
    BY <2>1, <2>2
  <2>3. CASE n # 1
    <3>1. f[n - 1] \in Seq(A)
      BY <1>4, <2>3, <2>1
    <3> QED
      BY <3>1, <2>1, <2>3
  <2> QED
    BY <2>2, <2>3
<1>6. g \in [1 .. n -> Seq(A)]
  <2>1. \A i \in 1 .. n : i # n => f[i] \in Seq(A)
    BY <1>3, <1>4
  <2> HIDE DEF last
  <2> QED
    BY <2>1, <1>5
<1>7. Flat(s, n, g)
  <2> SUFFICES ASSUME NEW i \in 1 .. n
               PROVE  g[i] = IF i = 1 THEN s[1] ELSE g[i - 1] \o s[i]
    BY DEF Flat
  <2>1. CASE i = n
    <3>1. i # 1 => g[i - 1] = f[n - 1]
      BY <2>1
    <3> QED
      BY <2>1, <3>1
  <2>2. CASE i # n
    <3>1. i \in 1 .. n - 1 /\ g[i] = f[i] /\ (i # 1 => g[i - 1] = f[i - 1])
      BY <2>2, <1>3
    <3> QED
      BY <3>1, <1>4 DEF Flat
  <2> QED
    BY <2>1, <2>2
<1> QED
  BY <1>2, <1>6, <1>7

\* There is only one, and its last value is what FlattenSeq returns.
LEMMA FlattenValue ==
  ASSUME NEW A, NEW s \in Seq(Seq(A)), Len(s) # 0,
         NEW f \in [1 .. Len(s) -> Seq(A)], Flat(s, Len(s), f)
  PROVE  FlattenSeq(s) = f[Len(s)]
<1> DEFINE N == Len(s)
           Solves(g) == g = [i \in 1 .. N |-> IF i = 1 THEN s[i] ELSE g[i - 1] \o s[i]]
           c == CHOOSE g : Solves(g)
<1>1. Solves(f)
  BY DEF Flat
<1>2. Solves(c)
  <2> HIDE DEF Solves
  <2> QED
    BY <1>1
<1>3. \A i \in 1 .. N : c[i] = IF i = 1 THEN s[i] ELSE c[i - 1] \o s[i]
  <2> HIDE DEF c
  <2> QED
    BY <1>2
<1> DEFINE S == {i \in Nat : i \in 1 .. N /\ c[i] # f[i]}
<1>4. S = {}
  <2> SUFFICES ASSUME S # {} PROVE FALSE
    OBVIOUS
  <2> HIDE DEF c, Solves
  <2>1. PICK i \in S : \A m \in S : i <= m
    BY Least
  <2>2. i = 1 \/ (i - 1 \in 1 .. N /\ i - 1 \notin S)
    BY <2>1
  <2>3. i = 1 \/ c[i - 1] = f[i - 1]
    BY <2>2
  <2> QED
    BY <2>3, <1>3 DEF Flat
<1>5. c[N] = f[N]
  <2> HIDE DEF c, Solves
  <2>1. N \in Nat /\ N \in 1 .. N /\ N \notin S
    BY <1>4
  <2> QED
    BY <2>1
<1>6. FlattenSeq(s) = c[N]
  BY DEF FlattenSeq
<1> QED
  BY <1>5, <1>6

LEMMA FlattenType ==
  ASSUME NEW A, NEW s \in Seq(Seq(A))
  PROVE  FlattenSeq(s) \in Seq(A)
<1>1. CASE Len(s) = 0
  BY <1>1 DEF FlattenSeq
<1>2. CASE Len(s) # 0
  <2>1. PICK f \in [1 .. Len(s) -> Seq(A)] : Flat(s, Len(s), f)
    BY FlatExists
  <2>2. FlattenSeq(s) = f[Len(s)]
    BY <2>1, <1>2, FlattenValue
  <2>3. Len(s) \in 1 .. Len(s)
    BY <1>2
  <2> QED
    BY <2>1, <2>2, <2>3
<1> QED
  BY <1>1, <1>2

LEMMA FlattenAppend ==
  ASSUME NEW A, NEW s \in Seq(Seq(A)), NEW x \in Seq(A)
  PROVE  FlattenSeq(Append(s, x)) = FlattenSeq(s) \o x
<1> DEFINE t == Append(s, x)
           N == Len(s)
<1>1. t \in Seq(Seq(A)) /\ Len(t) = N + 1 /\ t[N + 1] = x /\ \A i \in 1 .. N : t[i] = s[i]
  OBVIOUS
<1> HIDE DEF t
<1>2. PICK f \in [1 .. Len(t) -> Seq(A)] : Flat(t, Len(t), f)
  BY <1>1, FlatExists
<1>3. FlattenSeq(t) = f[N + 1]
  <2>1. Len(t) # 0
    BY <1>1
  <2>2. FlattenSeq(t) = f[Len(t)]
    BY <1>1, <1>2, <2>1, FlattenValue
  <2> QED
    BY <2>2, <1>1
<1>4. CASE N = 0
  <2>1. FlattenSeq(s) = <<>> /\ s = <<>>
    BY <1>4 DEF FlattenSeq
  <2>2. f[1] = x
    BY <1>1, <1>2, <1>4 DEF Flat
  <2> QED
    BY <2>1, <2>2, <1>3, <1>4 DEF t
<1>5. CASE N # 0
  <2> DEFINE g == [i \in 1 .. N |-> f[i]]
  <2>1. \A i \in 1 .. N + 1 : f[i] = IF i = 1 THEN t[1] ELSE f[i - 1] \o t[i]
    BY <1>1, <1>2 DEF Flat
  <2>2. N \in Nat /\ N + 1 \in 1 .. N + 1 /\ N + 1 # 1 /\ N \in 1 .. N /\ (N + 1) - 1 = N
    BY <1>5
  <2>3. g \in [1 .. N -> Seq(A)]
    <3>1. \A i \in 1 .. N : i \in 1 .. Len(t)
      BY <1>1
    <3> QED
      BY <3>1, <1>2
  <2>4. Flat(s, N, g)
    <3> SUFFICES ASSUME NEW i \in 1 .. N
                 PROVE  g[i] = IF i = 1 THEN s[1] ELSE g[i - 1] \o s[i]
      BY DEF Flat
    <3>1. i \in 1 .. N + 1 /\ 1 \in 1 .. N /\ (i # 1 => i - 1 \in 1 .. N)
      BY <1>5
    <3>2. t[1] = s[1] /\ t[i] = s[i]
      BY <3>1, <1>1
    <3>3. f[i] = IF i = 1 THEN t[1] ELSE f[i - 1] \o t[i]
      BY <3>1, <2>1
    <3> QED
      BY <3>1, <3>2, <3>3
  <2>5. FlattenSeq(s) = g[N]
    BY <2>3, <2>4, <1>5, FlattenValue
  <2>6. f[N + 1] = f[N] \o t[N + 1]
    BY <2>1, <2>2
  <2> QED
    BY <2>2, <2>5, <2>6, <1>1, <1>3 DEF t
<1> QED
  BY <1>4, <1>5
----------------------------------------------------------------------------
(* The tree *)

LEMMA Tree ==
  /\ Root \in Dir /\ Dir \cap File = {}
  /\ Entries \in [Dir -> Seq(Dir \cup File)]
  /\ Subdirs \in [Dir -> Seq(Dir \ {Root})] /\ Files \in [Dir -> Seq(File)]
  /\ \A S \in SUBSET Dir : S # {} => \E d \in S : ToSet(Subdirs[d]) \cap S = {}
  /\ \A S \in SUBSET (Dir \ {Root}) : S # {} => \E d \in Dir \ S : ToSet(Subdirs[d]) \cap S # {}
  /\ Cap \in Nat \ {0}
BY TreeAssumption

LEMMA Lists ==
  ASSUME NEW d \in Dir
  PROVE  /\ Len(Entries[d]) \in Nat /\ DOMAIN Entries[d] = 1 .. Len(Entries[d])
         /\ Len(Subdirs[d]) \in Nat /\ DOMAIN Subdirs[d] = 1 .. Len(Subdirs[d])
<1>1. Entries[d] \in Seq(Dir \cup File) /\ Subdirs[d] \in Seq(Dir \ {Root})
  BY Tree
<1> QED
  BY <1>1

LEMMA Entry ==
  ASSUME NEW d \in Dir, NEW i \in DOMAIN Entries[d]
  PROVE  /\ Entries[d][i] \in (Dir \cup File) \ {Root} /\ Entries[d][i] # d
         /\ i \in 1 .. Len(Entries[d])
         /\ Entries[d][i] \in Dir => Entries[d][i] \in ToSet(Subdirs[d])
         /\ Entries[d][i] \in File => Entries[d][i] \in ToSet(Files[d])
<1>1. Entries[d] \in Seq(Dir \cup File) /\ Subdirs[d] \in Seq(Dir \ {Root}) /\ Files[d] \in Seq(File)
  BY Tree
<1>2. i \in 1 .. Len(Entries[d]) /\ Entries[d][i] \in ToSet(Entries[d])
  BY <1>1 DEF ToSet
<1>3. Entries[d][i] \in (Dir \cup File) \ {Root}
  BY <1>2, TreeAssumption
<1>4. Entries[d][i] \in ToSet(Subdirs[d]) \/ Entries[d][i] \in ToSet(Files[d])
  BY <1>2, TreeAssumption
<1>5. ToSet(Subdirs[d]) \subseteq Dir /\ ToSet(Files[d]) \subseteq File
  BY <1>1 DEF ToSet
<1>6. Entries[d][i] # d
  <2> SUFFICES ASSUME d \in ToSet(Subdirs[d]) PROVE FALSE
    BY <1>4, <1>5, Tree
  <2>1. \A S \in SUBSET Dir : S # {} => \E e \in S : ToSet(Subdirs[e]) \cap S = {}
    BY Tree
  <2>2. {d} \in SUBSET Dir /\ {d} # {}
    OBVIOUS
  <2>3. \E e \in {d} : ToSet(Subdirs[e]) \cap {d} = {}
    BY <2>1, <2>2
  <2> QED
    BY <2>3
<1> QED
  BY <1>2, <1>3, <1>4, <1>5, <1>6, Tree

LEMMA EntryOnce ==
  ASSUME NEW d \in Dir, NEW i \in DOMAIN Entries[d], NEW e \in Dir, NEW j \in DOMAIN Entries[e],
         Entries[d][i] = Entries[e][j]
  PROVE  d = e /\ i = j
<1>1. Entries[d][i] \in ToSet(Entries[d]) /\ Entries[e][j] \in ToSet(Entries[e])
  BY DEF ToSet
<1>2. d = e
  BY <1>1, TreeAssumption
<1>3. IsInjective(Entries[d])
  BY TreeAssumption
<1> QED
  BY <1>2, <1>3 DEF IsInjective

LEMMA Subdir ==
  ASSUME NEW d \in Dir, NEW i \in DOMAIN Subdirs[d]
  PROVE  /\ Subdirs[d][i] \in Dir \ {Root} /\ Subdirs[d][i] # d /\ i \in 1 .. Len(Subdirs[d])
         /\ Subdirs[d][i] \in ToSet(Subdirs[d])
         /\ \E j \in DOMAIN Entries[d] : Subdirs[d][i] = Entries[d][j]
<1>1. Subdirs[d] \in Seq(Dir \ {Root})
  BY Tree
<1>2. Subdirs[d][i] \in ToSet(Subdirs[d])
  BY DEF ToSet
<1>3. Subdirs[d][i] \in ToSet(Entries[d])
  BY <1>2, TreeAssumption
<1>4. PICK j \in DOMAIN Entries[d] : Subdirs[d][i] = Entries[d][j]
  BY <1>3 DEF ToSet
<1> QED
  BY <1>1, <1>2, <1>4, Entry

LEMMA SubdirOnce ==
  ASSUME NEW d \in Dir, NEW i \in DOMAIN Subdirs[d], NEW e \in Dir, NEW j \in DOMAIN Subdirs[e],
         Subdirs[d][i] = Subdirs[e][j]
  PROVE  d = e /\ i = j
<1>1. d = e
  BY Subdir, EntryOnce
<1>2. IsInjective(Subdirs[d])
  BY TreeAssumption
<1> QED
  BY <1>1, <1>2 DEF IsInjective

\* Every directory but the root is a subdirectory of its parent.
LEMMA ParentOfDir ==
  ASSUME NEW c \in Dir \ {Root}
  PROVE  /\ Parent(c) \in Dir
         /\ \E i \in DOMAIN Subdirs[Parent(c)] : Subdirs[Parent(c)][i] = c
         /\ \E i \in DOMAIN Entries[Parent(c)] : Entries[Parent(c)][i] = c
<1>1. \E d \in Dir : c \in ToSet(Entries[d])
  <2>1. UNION {ToSet(Entries[d]) : d \in Dir} = (Dir \cup File) \ {Root}
    BY TreeAssumption
  <2> QED
    BY <2>1
<1>2. Parent(c) \in Dir /\ c \in ToSet(Entries[Parent(c)])
  BY <1>1 DEF Parent
<1>3. PICK i \in DOMAIN Entries[Parent(c)] : Entries[Parent(c)][i] = c
  BY <1>2 DEF ToSet
<1>4. c \in ToSet(Subdirs[Parent(c)])
  BY <1>2, <1>3, Entry
<1> QED
  BY <1>2, <1>3, <1>4 DEF ToSet

\* So is every file a file of some directory.
LEMMA DirOfFile ==
  ASSUME NEW f \in File
  PROVE  \E d \in Dir : f \in ToSet(Files[d])
<1>1. PICK d \in Dir : f \in ToSet(Entries[d])
  <2>1. UNION {ToSet(Entries[d]) : d \in Dir} = (Dir \cup File) \ {Root} /\ f # Root
    BY TreeAssumption
  <2> QED
    BY <2>1
<1>2. PICK i \in DOMAIN Entries[d] : Entries[d][i] = f
  BY <1>1 DEF ToSet
<1> QED
  BY <1>2, Entry
----------------------------------------------------------------------------
(* The output of a tree *)

LEMMA ReadType ==
  ASSUME NEW s \in Seq(File)
  PROVE  OneRead(s) \in Seq(File)
<1>1. Cap \in Nat /\ Len(s) \in Nat
  BY Tree
<1>2. \A n \in 0 .. Len(s) : SubSeq(s, 1, n) \in Seq(File)
  OBVIOUS
<1> QED
  BY <1>1, <1>2 DEF OneRead

\* What d hands on if its subdirectories hand on o, and own comes from its files.
Combine(o, own, d) ==
  FlattenSeq([i \in DOMAIN Subdirs[d] |-> OneRead(o[Subdirs[d][i]])]) \o own[d]
\* o is right for the directories in D, all of whose subdirectories are in D.
Within(D) == D \in SUBSET Dir /\ \A d \in D : ToSet(Subdirs[d]) \subseteq D
Solves(o, own, D) == \A d \in D : o[d] = Combine(o, own, d)

LEMMA CombineType ==
  ASSUME NEW own \in [Dir -> Seq(File)], NEW d \in Dir, NEW o, NEW D \in SUBSET Dir,
         \A c \in D : o[c] \in Seq(File), ToSet(Subdirs[d]) \subseteq D
  PROVE  Combine(o, own, d) \in Seq(File)
<1> DEFINE s == [i \in DOMAIN Subdirs[d] |-> OneRead(o[Subdirs[d][i]])]
<1>1. \A i \in DOMAIN Subdirs[d] : OneRead(o[Subdirs[d][i]]) \in Seq(File)
  BY ReadType DEF ToSet
<1>2. DOMAIN Subdirs[d] = 1 .. Len(Subdirs[d]) /\ Len(Subdirs[d]) \in Nat
  BY Tree
<1>3. s \in Seq(Seq(File))
  BY <1>1, <1>2
<1>4. FlattenSeq(s) \in Seq(File)
  BY <1>3, FlattenType
<1> QED
  BY <1>4 DEF Combine

LEMMA CombineSame ==
  ASSUME NEW own, NEW d \in Dir, NEW o, NEW p, \A c \in ToSet(Subdirs[d]) : o[c] = p[c]
  PROVE  Combine(o, own, d) = Combine(p, own, d)
<1>1. [i \in DOMAIN Subdirs[d] |-> OneRead(o[Subdirs[d][i]])]
        = [i \in DOMAIN Subdirs[d] |-> OneRead(p[Subdirs[d][i]])]
  BY DEF ToSet
<1> QED
  BY <1>1 DEF Combine

\* There is at most one: a lowest directory in which two differ cannot be.
LEMMA SolvedOnce ==
  ASSUME NEW own, NEW D, Within(D), NEW E, Within(E), NEW o, Solves(o, own, D), NEW p, Solves(p, own, E)
  PROVE  \A d \in D \cap E : o[d] = p[d]
<1> DEFINE S == {d \in D \cap E : o[d] # p[d]}
<1> SUFFICES ASSUME S # {} PROVE FALSE
  OBVIOUS
<1>1. S \in SUBSET Dir
  BY DEF Within
<1>2. PICK d \in S : ToSet(Subdirs[d]) \cap S = {}
  BY <1>1, Tree
<1>3. \A c \in ToSet(Subdirs[d]) : o[c] = p[c]
  BY <1>2 DEF Within
<1>4. Combine(o, own, d) = Combine(p, own, d)
  BY <1>1, <1>2, <1>3, CombineSame
<1> QED
  BY <1>2, <1>4 DEF Solves

\* There is one for the whole tree: a lowest directory without could be added.
LEMMA Solvable ==
  ASSUME NEW own \in [Dir -> Seq(File)]
  PROVE  \E o \in [Dir -> Seq(File)] : Solves(o, own, Dir)
<1> DEFINE Solved(D) == Within(D) /\ \E o \in [D -> Seq(File)] : Solves(o, own, D)
           U == UNION {D \in SUBSET Dir : Solved(D)}
           Is(d, y) == \E D \in SUBSET Dir : \E o \in [D -> Seq(File)] :
                          d \in D /\ Within(D) /\ Solves(o, own, D) /\ y = o[d]
           v == [d \in U |-> CHOOSE y \in Seq(File) : Is(d, y)]
<1>1. \A d \in U : v[d] \in Seq(File) /\ Is(d, v[d])
  <2> TAKE d \in U
  <2>1. PICK D \in SUBSET Dir : d \in D /\ Solved(D)
    OBVIOUS
  <2>2. PICK o \in [D -> Seq(File)] : Solves(o, own, D)
    BY <2>1
  <2>3. o[d] \in Seq(File) /\ Is(d, o[d])
    BY <2>1, <2>2
  <2>4. \E y \in Seq(File) : Is(d, y)
    BY <2>3
  <2> HIDE DEF Is, U
  <2> QED
    BY <2>4
<1>2. Within(U)
  BY DEF Within
<1>3. \A D \in SUBSET Dir : Solved(D) => D \subseteq U
  OBVIOUS
<1> HIDE DEF v
<1>4. Solves(v, own, U)
  <2> SUFFICES ASSUME NEW d \in U PROVE v[d] = Combine(v, own, d)
    BY DEF Solves
  <2>1. PICK D \in SUBSET Dir : \E o \in [D -> Seq(File)] :
          d \in D /\ Within(D) /\ Solves(o, own, D) /\ v[d] = o[d]
    BY <1>1
  <2> PICK o \in [D -> Seq(File)] : d \in D /\ Within(D) /\ Solves(o, own, D) /\ v[d] = o[d]
    BY <2>1
  <2>2. \A c \in ToSet(Subdirs[d]) : v[c] = o[c]
    <3> TAKE c \in ToSet(Subdirs[d])
    <3>1. c \in D /\ Solved(D)
      BY <2>1 DEF Within
    <3>2. c \in U
      BY <3>1
    <3>3. PICK E \in SUBSET Dir : \E p \in [E -> Seq(File)] :
            c \in E /\ Within(E) /\ Solves(p, own, E) /\ v[c] = p[c]
      BY <3>2, <1>1
    <3> PICK p \in [E -> Seq(File)] : c \in E /\ Within(E) /\ Solves(p, own, E) /\ v[c] = p[c]
      BY <3>3
    <3>4. p[c] = o[c]
      BY <3>1, <3>3, <2>1, SolvedOnce
    <3> QED
      BY <3>3, <3>4
  <2>3. Combine(v, own, d) = Combine(o, own, d)
    BY <2>1, <2>2, CombineSame
  <2> QED
    BY <2>1, <2>3 DEF Solves
<1>5. U \subseteq Dir /\ v \in [U -> Seq(File)]
  BY <1>1 DEF v
<1>6. U = Dir
  <2> SUFFICES ASSUME Dir \ U # {} PROVE FALSE
    BY <1>5
  <2> HIDE DEF U
  <2>1. PICK d \in Dir \ U : ToSet(Subdirs[d]) \cap (Dir \ U) = {}
    BY Tree
  <2>2. ToSet(Subdirs[d]) \subseteq U
    <3>1. ToSet(Subdirs[d]) \subseteq Dir
      BY Tree DEF ToSet
    <3> QED
      BY <2>1, <3>1
  <2> DEFINE E == U \cup {d}
             w == [c \in E |-> IF c = d THEN Combine(v, own, d) ELSE v[c]]
  <2>3. Combine(v, own, d) \in Seq(File)
    BY <1>5, <2>2, CombineType
  <2>4. E \in SUBSET Dir /\ Within(E)
    BY <1>2, <1>5, <2>1, <2>2 DEF Within
  <2>5. w \in [E -> Seq(File)]
    BY <1>5, <2>3
  <2>6. Solves(w, own, E)
    <3> SUFFICES ASSUME NEW c \in E PROVE w[c] = Combine(w, own, c)
      BY DEF Solves
    <3>1. ToSet(Subdirs[c]) \subseteq U
      BY <1>2, <2>2 DEF Within
    <3>2. Combine(w, own, c) = Combine(v, own, c)
      <4>1. \A b \in ToSet(Subdirs[c]) : w[b] = v[b]
        BY <3>1, <2>1
      <4>2. c \in Dir
        BY <2>4
      <4> HIDE DEF w
      <4>3. Combine(w, own, c) = Combine(v, own, c)
        BY <4>1, <4>2, CombineSame
      <4> QED
        BY <4>3
    <3> QED
      BY <3>2, <1>4 DEF Solves
  <2>7. Solved(E)
    BY <2>4, <2>5, <2>6
  <2>8. E \subseteq U
    BY <2>4, <2>7, <1>3
  <2> QED
    BY <2>1, <2>8
<1>7. v \in [Dir -> Seq(File)] /\ Solves(v, own, Dir)
  <2> HIDE DEF U
  <2> QED
    BY <1>4, <1>5, <1>6
<1> QED
  BY <1>7

\* What d gets from its files.
Own == [d \in Dir |-> FlattenSeq([i \in DOMAIN Files[d] |-> OneRead(Lines(Files[d][i]))])]

LEMMA OwnType == TypeOK => Own \in [Dir -> Seq(File)]
<1> SUFFICES ASSUME TypeOK, NEW d \in Dir
             PROVE  FlattenSeq([i \in DOMAIN Files[d] |-> OneRead(Lines(Files[d][i]))]) \in Seq(File)
  BY DEF Own
<1>1. Files[d] \in Seq(File)
  BY Tree
<1>2. \A f \in File : Lines(f) \in Seq(File)
  <2> TAKE f \in File
  <2>1. junk[f] + hits[f] \in Nat
    <3>1. junk[f] \in 0 .. 1 /\ hits[f] \in 0 .. Hits /\ Hits \in Nat
      BY TreeAssumption DEF TypeOK
    <3> QED
      BY <3>1
  <2> QED
    BY <2>1 DEF Lines
<1>3. \A i \in DOMAIN Files[d] : OneRead(Lines(Files[d][i])) \in Seq(File)
  BY <1>1, <1>2, ReadType
<1>4. DOMAIN Files[d] = 1 .. Len(Files[d]) /\ Len(Files[d]) \in Nat
  BY <1>1
<1>5. [i \in DOMAIN Files[d] |-> OneRead(Lines(Files[d][i]))] \in Seq(Seq(File))
  BY <1>3, <1>4
<1> QED
  BY <1>5, FlattenType

\* Output is what its definition says: the equation has a solution.
LEMMA OutputSolves == TypeOK => Output \in [Dir -> Seq(File)] /\ Solves(Output, Own, Dir)
<1> SUFFICES ASSUME TypeOK PROVE Output \in [Dir -> Seq(File)] /\ Solves(Output, Own, Dir)
  OBVIOUS
<1> DEFINE Def(g, d) == FlattenSeq([i \in DOMAIN Subdirs[d] |-> OneRead(g[Subdirs[d][i]])])
                          \o FlattenSeq([i \in DOMAIN Files[d] |-> OneRead(Lines(Files[d][i]))])
           Is(g) == g = [d \in Dir |-> Def(g, d)]
<1>1. Output = CHOOSE g : Is(g)
  BY DEF Output
<1>2. \A g, d : d \in Dir => Def(g, d) = Combine(g, Own, d)
  BY DEF Combine, Own
<1> HIDE DEF Def
<1>3. PICK o \in [Dir -> Seq(File)] : Solves(o, Own, Dir)
  BY OwnType, Solvable
<1>4. Is(o)
  <2>1. \A d \in Dir : o[d] = Def(o, d)
    BY <1>2, <1>3 DEF Solves
  <2> QED
    BY <2>1
<1>5. Is(Output)
  <2> HIDE DEF Is
  <2> QED
    BY <1>1, <1>4
<1>6. DOMAIN Output = Dir /\ \A d \in Dir : Output[d] = Combine(Output, Own, d)
  <2>1. \A d \in Dir : [e \in Dir |-> Def(Output, e)][d] = Def(Output, d)
    OBVIOUS
  <2> QED
    BY <1>2, <1>5, <2>1
<1>7. Solves(Output, Own, Dir)
  BY <1>6 DEF Solves
<1>8. Within(Dir)
  BY Tree DEF Within, ToSet
<1>9. \A d \in Dir : Output[d] = o[d]
  BY <1>3, <1>7, <1>8, SolvedOnce
<1>10. Output = [d \in Dir |-> Output[d]]
  BY <1>5
<1> QED
  BY <1>3, <1>7, <1>9, <1>10

LEMMA OutputKept ==
  ASSUME TypeOK, TypeOK', UNCHANGED input
  PROVE  Output' = Output
<1>1. Own' = Own
  BY DEF Own, Lines, input
<1>2. Output \in [Dir -> Seq(File)] /\ Solves(Output, Own, Dir)
  BY OutputSolves
<1>3. Output' \in [Dir -> Seq(File)] /\ Solves(Output', Own, Dir)
  <2>1. (Output \in [Dir -> Seq(File)] /\ Solves(Output, Own, Dir))'
    BY OutputSolves, PTL
  <2> QED
    BY <1>1, <2>1
<1>4. Within(Dir)
  BY Tree DEF Within, ToSet
<1>5. \A d \in Dir : Output'[d] = Output[d]
  BY <1>2, <1>3, <1>4, SolvedOnce
<1> QED
  BY <1>2, <1>3, <1>5

LEMMA GotNone == \A o, d : Got(o, d, 0) = <<>>
BY DEF Got, FlattenSeq

LEMMA GotNext ==
  ASSUME TypeOK, NEW d \in Dir, NEW i \in DOMAIN Subdirs[d]
  PROVE  Got(Output, d, i) = Got(Output, d, i - 1) \o OneRead(Output[Subdirs[d][i]])
<1> DEFINE R(j) == OneRead(Output[Subdirs[d][j]])
           s == [j \in 1 .. i - 1 |-> R(j)]
<1>1. i \in Nat /\ i >= 1 /\ DOMAIN Subdirs[d] = 1 .. Len(Subdirs[d]) /\ i <= Len(Subdirs[d])
  BY Lists
<1>2. \A j \in 1 .. i : R(j) \in Seq(File)
  <2> TAKE j \in 1 .. i
  <2>1. j \in DOMAIN Subdirs[d]
    BY <1>1
  <2>2. Subdirs[d][j] \in Dir
    BY <2>1, Subdir
  <2>3. Output[Subdirs[d][j]] \in Seq(File)
    BY <2>2, OutputSolves
  <2> QED
    BY <2>3, ReadType
<1> HIDE DEF R
<1>3. s \in Seq(Seq(File)) /\ Len(s) = i - 1
  <2>1. i - 1 \in Nat /\ \A j \in 1 .. i - 1 : j \in 1 .. i
    BY <1>1
  <2> QED
    BY <1>2, <2>1
<1>4. Append(s, R(i)) = [j \in 1 .. i |-> R(j)]
  BY <1>1, <1>3
<1>5. R(i) \in Seq(File)
  BY <1>1, <1>2
<1>6. FlattenSeq(Append(s, R(i))) = FlattenSeq(s) \o R(i)
  BY <1>3, <1>5, FlattenAppend
<1> QED
  BY <1>4, <1>6 DEF Got, R

LEMMA GotAll ==
  ASSUME TypeOK, NEW d \in Dir
  PROVE  Output[d] = Got(Output, d, Len(Subdirs[d])) \o Own[d]
<1>1. DOMAIN Subdirs[d] = 1 .. Len(Subdirs[d])
  BY Tree
<1> QED
  BY <1>1, OutputSolves DEF Solves, Combine, Got
----------------------------------------------------------------------------
(* Types and kinds *)

LEMMA InitType == Init => TypeOK /\ FileKinds /\ DirKinds
<1> SUFFICES ASSUME Init PROVE TypeOK /\ FileKinds /\ DirKinds
  OBVIOUS
<1>1. TypeOK
  BY Tree DEF Init, TypeOK
<1>2. FileKinds
  BY Tree DEF Init, FileKinds
<1>3. DirKinds
  BY Tree DEF Init, DirKinds, DirKind
<1> QED
  BY <1>1, <1>2, <1>3

\* The directory that d reads from.
LEMMA CurrentDir ==
  ASSUME TypeOK, NEW d \in Dir, next[d] <= Len(Subdirs[d])
  PROVE  /\ next[d] \in DOMAIN Subdirs[d] /\ Current(d) = Subdirs[d][next[d]]
         /\ Current(d) \in Dir \ {Root} /\ Current(d) # d
<1>1. next[d] \in Nat /\ next[d] >= 1
  <2>1. next[d] \in Nat \ {0}
    BY DEF TypeOK
  <2> QED
    BY <2>1
<1>2. Subdirs[d] \in Seq(Dir \ {Root})
  BY Tree
<1>3. next[d] \in DOMAIN Subdirs[d]
  BY <1>1, <1>2
<1> QED
  BY <1>3, Subdir DEF Current

\* The entry that d forks.
LEMMA ForkedEntry ==
  ASSUME TypeOK, NEW d \in Dir, next[d] <= Len(Entries[d])
  PROVE  /\ next[d] \in DOMAIN Entries[d] /\ Entries[d][next[d]] \in (Dir \cup File) \ {Root}
         /\ Entries[d][next[d]] # d
<1>1. next[d] \in Nat /\ next[d] >= 1
  <2>1. next[d] \in Nat \ {0}
    BY DEF TypeOK
  <2> QED
    BY <2>1
<1>2. Entries[d] \in Seq(Dir \cup File)
  BY Tree
<1>3. next[d] \in DOMAIN Entries[d]
  BY <1>1, <1>2
<1> QED
  BY <1>3, Entry

LEMMA FromPipesType ==
  ASSUME TypeOK, NEW d \in Dir
  PROVE  FromPipes(d) \in Seq(File)
<1>1. Files[d] \in Seq(File)
  BY Tree
<1>2. \A i \in DOMAIN Files[d] : OneRead(pipe[Files[d][i]]) \in Seq(File)
  BY <1>1, ReadType DEF TypeOK
<1>3. DOMAIN Files[d] = 1 .. Len(Files[d]) /\ Len(Files[d]) \in Nat
  BY <1>1
<1>4. [i \in DOMAIN Files[d] |-> OneRead(pipe[Files[d][i]])] \in Seq(Seq(File))
  BY <1>2, <1>3
<1> QED
  BY <1>4, FlattenType DEF FromPipes

LEMMA StepType ==
  ASSUME TypeOK, DirKinds, [Next]_vars
  PROVE  TypeOK'
<1>1. ASSUME NEW f \in File, Search(f) PROVE TypeOK'
  <2>1. Lines(f) \in Seq(File)
    <3>1. junk[f] \in 0 .. 1 /\ hits[f] \in 0 .. Hits /\ Hits \in Nat
      BY TreeAssumption DEF TypeOK
    <3> QED
      BY <3>1 DEF Lines
  <2>2. pipe' \in [File -> Seq(File)]
    BY <1>1, <2>1 DEF TypeOK, Search
  <2>3. pc' = [pc EXCEPT ![f] = FileStatus(f)] /\ FileStatus(f) \in {"gone", "failed"}
    BY <1>1 DEF Search, Goto, FileStatus
  <2> QED
    BY <1>1, <2>2, <2>3 DEF TypeOK, Search, input
<1>2. ASSUME NEW d \in Dir, CannotOpen(d) PROVE TypeOK'
  BY <1>2 DEF TypeOK, CannotOpen, Goto, input
<1>3. ASSUME NEW d \in Dir, Find(d) PROVE TypeOK'
  <2>1. ToSet(Subdirs[d]) \subseteq Dir \ {Root}
    BY Tree DEF ToSet
  <2> QED
    BY <1>3, <2>1 DEF TypeOK, Find, Goto, input
<1>4. ASSUME NEW d \in Dir, NoPipe(d) PROVE TypeOK'
  BY <1>4 DEF TypeOK, NoPipe, Goto, input
<1>5. ASSUME NEW d \in Dir, Fork(d) PROVE TypeOK'
  <2>1. PICK e \in Dir \cup File : pc' = [pc EXCEPT ![e] = "find"]
    BY <1>5, ForkedEntry DEF Fork
  <2>2. next[d] + 1 \in Nat \ {0}
    BY DEF TypeOK
  <2> QED
    <3>1. next' \in [Dir -> Nat \ {0}]
      BY <1>5, <2>2 DEF TypeOK, Fork
    <3>2. pc' \in [Dir \cup File -> {"unborn", "find", "nopipe", "fork", "open", "read", "wait", "put",
                                    "write", "report", "gone", "failed"}]
      BY <2>1 DEF TypeOK
    <3> QED
      BY <1>5, <3>1, <3>2 DEF TypeOK, Fork, input
<1>6. ASSUME NEW d \in Dir, ForkedAll(d) PROVE TypeOK'
  BY <1>6 DEF TypeOK, ForkedAll, Goto, input
<1>7. ASSUME NEW d \in Dir, Open(d) PROVE TypeOK'
  BY <1>7, CurrentDir DEF TypeOK, Open, input
<1>8. ASSUME NEW d \in Dir, Read(d) PROVE TypeOK'
  <2>1. Current(d) \in Dir
    BY <1>8, CurrentDir DEF DirKinds, DirKind, Read, Goto
  <2>2. OneRead(sent[Current(d)]) \in Seq(File)
    BY <2>1, ReadType DEF TypeOK
  <2>3. arr[d] \o OneRead(sent[Current(d)]) \in Seq(File)
    BY <2>2 DEF TypeOK
  <2>4. arr' \in [Dir -> Seq(File)]
    BY <1>8, <2>3 DEF TypeOK, Read
  <2>5. next' \in [Dir -> Nat \ {0}] /\ fifo' \subseteq Dir \ {Root}
    BY <1>8 DEF TypeOK, Read
  <2>6. pc' = [pc EXCEPT ![d] = "open"] /\ UNCHANGED <<input, sent, pipe, total>>
    BY <1>8 DEF Read, Goto
  <2> QED
    BY <2>4, <2>5, <2>6 DEF TypeOK, input
<1>9. ASSUME NEW d \in Dir, ReadAll(d) PROVE TypeOK'
  BY <1>9 DEF TypeOK, ReadAll, Goto, input
<1>10. ASSUME NEW d \in Dir, WaitFailed(d) PROVE TypeOK'
  BY <1>10 DEF TypeOK, WaitFailed, Goto, input
<1>11. ASSUME NEW d \in Dir, Collect(d) PROVE TypeOK'
  <2>1. arr[d] \o FromPipes(d) \in Seq(File)
    BY FromPipesType DEF TypeOK
  <2> QED
    BY <1>11, <2>1 DEF TypeOK, Collect, Goto, input
<1>12. ASSUME NEW d \in Dir, Write(d) PROVE TypeOK'
  BY <1>12 DEF TypeOK, Write, Goto, input
<1>13. ASSUME Report PROVE TypeOK'
  <2>1. Len(arr[Root]) \in Nat
    BY Tree DEF TypeOK
  <2> QED
    BY <1>13, <2>1, Tree DEF TypeOK, Report, Goto, input
<1>14. ASSUME UNCHANGED vars PROVE TypeOK'
  BY <1>14 DEF TypeOK, vars, input
<1> QED
  BY <1>1, <1>2, <1>3, <1>4, <1>5, <1>6, <1>7, <1>8, <1>9, <1>10, <1>11, <1>12, <1>13, <1>14
     DEF Next, Directory

LEMMA StepFileKinds ==
  ASSUME TypeOK, FileKinds, [Next]_vars
  PROVE  FileKinds'
<1>1. ASSUME NEW f \in File, Search(f) PROVE FileKinds'
  BY <1>1 DEF TypeOK, FileKinds, Search, Goto, FileStatus, Lines, input
<1>2. ASSUME NEW d \in Dir, Directory(d), ~Fork(d), ~Open(d) PROVE FileKinds'
  <2>1. UNCHANGED <<input, pipe>> /\ \E v : pc' = [pc EXCEPT ![d] = v]
    BY <1>2 DEF Directory, CannotOpen, Find, NoPipe, ForkedAll, Read, ReadAll, WaitFailed, Collect,
         Write, Goto
  <2>2. \A f \in File : pc'[f] = pc[f]
    BY <2>1, Tree DEF TypeOK
  <2> QED
    BY <2>1, <2>2 DEF FileKinds, Lines, input
<1>3. ASSUME NEW d \in Dir, Fork(d) PROVE FileKinds'
  BY <1>3, ForkedEntry, Tree DEF TypeOK, FileKinds, Fork, Lines, input
<1>4. ASSUME NEW d \in Dir, Open(d) PROVE FileKinds'
  BY <1>4, CurrentDir, Tree DEF TypeOK, FileKinds, Open, Lines, input
<1>5. ASSUME Report PROVE FileKinds'
  BY <1>5, Tree DEF TypeOK, FileKinds, Report, Goto, Lines, input
<1>6. ASSUME UNCHANGED vars PROVE FileKinds'
  BY <1>6 DEF FileKinds, vars, Lines, input
<1> QED
  BY <1>1, <1>2, <1>3, <1>4, <1>5, <1>6 DEF Next

LEMMA InputKept ==
  ASSUME UNCHANGED input, NEW d \in Dir
  PROVE  /\ Poor(d)' = Poor(d) /\ Cut(d)' = Cut(d)
         /\ \A p, n : DirKind(d, p, n)' = DirKind(d, p, n)
BY DEF input, Poor, Cut, DirKind

\* d alone moves, to p.
Moves(d, p, n) ==
  /\ UNCHANGED input
  /\ \A e \in Dir \cup File : pc'[e] = IF e = d THEN p ELSE pc[e]
  /\ \A e \in Dir : next'[e] = IF e = d THEN n ELSE next[e]

LEMMA KindMoves ==
  ASSUME DirKinds, NEW d \in Dir, NEW p, NEW n, Moves(d, p, n), DirKind(d, p, n)
  PROVE  DirKinds'
<1> SUFFICES ASSUME NEW e \in Dir PROVE DirKind(e, pc'[e], next'[e])
  BY InputKept DEF DirKinds, Moves
<1> QED
  BY DEF DirKinds, Moves

LEMMA DirMoves ==
  ASSUME TypeOK, NEW d \in Dir
  PROVE  /\ CannotOpen(d) => pc[d] = "find" /\ Moves(d, "failed", next[d])
         /\ Find(d) => pc[d] = "find" /\ Moves(d, IF Poor(d) THEN "nopipe" ELSE "fork", next[d])
         /\ NoPipe(d) => pc[d] = "nopipe" /\ Moves(d, IF d = Root THEN "report" ELSE "gone", next[d])
         /\ ForkedAll(d) => pc[d] = "fork" /\ Moves(d, "open", 1)
         /\ Read(d) => pc[d] = "read" /\ Moves(d, "open", next[d] + 1)
         /\ ReadAll(d) => pc[d] = "open" /\ Moves(d, "wait", next[d])
         /\ WaitFailed(d) => pc[d] = "wait" /\ Moves(d, "failed", next[d])
         /\ Collect(d) => pc[d] = "wait" /\ Moves(d, IF d = Root THEN "report" ELSE "put", next[d])
         /\ Write(d) => pc[d] = "write" /\ Moves(d, "gone", next[d])
<1>1. CannotOpen(d) => pc[d] = "find" /\ Moves(d, "failed", next[d])
  BY DEF TypeOK, Moves, CannotOpen, Goto
<1>2. Find(d) => pc[d] = "find" /\ Moves(d, IF Poor(d) THEN "nopipe" ELSE "fork", next[d])
  BY DEF TypeOK, Moves, Find, Goto, Poor
<1>3. NoPipe(d) => pc[d] = "nopipe" /\ Moves(d, IF d = Root THEN "report" ELSE "gone", next[d])
  BY DEF TypeOK, Moves, NoPipe, Goto
<1>4. ForkedAll(d) => pc[d] = "fork" /\ Moves(d, "open", 1)
  BY DEF TypeOK, Moves, ForkedAll, Goto
<1>5. Read(d) => pc[d] = "read" /\ Moves(d, "open", next[d] + 1)
  BY DEF TypeOK, Moves, Read, Goto
<1>6. ReadAll(d) => pc[d] = "open" /\ Moves(d, "wait", next[d])
  BY DEF TypeOK, Moves, ReadAll, Goto
<1>7. WaitFailed(d) => pc[d] = "wait" /\ Moves(d, "failed", next[d])
  BY DEF TypeOK, Moves, WaitFailed, Goto
<1>8. Collect(d) => pc[d] = "wait" /\ Moves(d, IF d = Root THEN "report" ELSE "put", next[d])
  BY DEF TypeOK, Moves, Collect, Goto
<1>9. Write(d) => pc[d] = "write" /\ Moves(d, "gone", next[d])
  BY DEF TypeOK, Moves, Write, Goto
<1> QED
  BY <1>1, <1>2, <1>3, <1>4, <1>5, <1>6, <1>7, <1>8, <1>9

\* Fork moves the directory and the entry.
LEMMA ForkMoves ==
  ASSUME TypeOK, NEW d \in Dir, Fork(d)
  PROVE  LET e == Entries[d][next[d]] IN
         /\ UNCHANGED input /\ pc[d] = "fork"
         /\ next[d] \in DOMAIN Entries[d] /\ e \in (Dir \cup File) \ {Root} /\ e # d
         /\ \A x \in Dir \cup File : pc'[x] = IF x = e THEN "find" ELSE pc[x]
         /\ \A x \in Dir : next'[x] = IF x = d THEN next[d] + 1 ELSE next[x]
BY ForkedEntry DEF TypeOK, Fork

LEMMA OpenMoves ==
  ASSUME TypeOK, NEW d \in Dir, Open(d)
  PROVE  LET c == Current(d) IN
         /\ UNCHANGED <<input, next>> /\ pc[d] = "open" /\ pc[c] = "put"
         /\ next[d] \in DOMAIN Subdirs[d] /\ c = Subdirs[d][next[d]] /\ c \in Dir \ {Root} /\ c # d
         /\ \A x \in Dir \cup File : pc'[x] = IF x = d THEN "read" ELSE IF x = c THEN "write" ELSE pc[x]
BY CurrentDir DEF TypeOK, Open

LEMMA StepDirKinds ==
  ASSUME TypeOK, DirKinds, Born, [Next]_vars
  PROVE  DirKinds'
<1> USE DEF DirKind
<1>1. ASSUME NEW f \in File, Search(f) PROVE DirKinds'
  <2>1. \A d \in Dir : pc'[d] = pc[d] /\ next'[d] = next[d]
    BY <1>1, Tree DEF TypeOK, Search, Goto
  <2>2. UNCHANGED input
    BY <1>1 DEF Search
  <2> QED
    BY <2>1, <2>2, InputKept DEF DirKinds
<1>2. ASSUME NEW d \in Dir, CannotOpen(d) PROVE DirKinds'
  BY <1>2, DirMoves, KindMoves DEF DirKinds
<1>3. ASSUME NEW d \in Dir, Find(d) PROVE DirKinds'
  <2>1. Len(Entries[d]) \in Nat /\ next[d] = 1
    <3>1. Len(Entries[d]) \in Nat
      BY Tree
    <3>2. pc[d] = "find" /\ DirKind(d, pc[d], next[d])
      BY <1>3, DirMoves DEF DirKinds
    <3> QED
      BY <3>1, <3>2
  <2>2. DirKind(d, IF Poor(d) THEN "nopipe" ELSE "fork", next[d])
    BY <1>3, <2>1, DirMoves DEF DirKinds, Find, Cut
  <2> QED
    BY <1>3, <2>2, DirMoves, KindMoves
<1>4. ASSUME NEW d \in Dir, NoPipe(d) PROVE DirKinds'
  <2>1. DirKind(d, IF d = Root THEN "report" ELSE "gone", next[d])
    BY <1>4, DirMoves DEF DirKinds
  <2> QED
    BY <1>4, <2>1, DirMoves, KindMoves
<1>5. ASSUME NEW d \in Dir, Fork(d) PROVE DirKinds'
  <2> DEFINE e == Entries[d][next[d]]
  <2>1. /\ UNCHANGED input /\ pc[d] = "fork" /\ next[d] \in DOMAIN Entries[d] /\ e # d /\ e # Root
        /\ \A x \in Dir : pc'[x] = IF x = e THEN "find" ELSE pc[x]
        /\ \A x \in Dir : next'[x] = IF x = d THEN next[d] + 1 ELSE next[x]
    BY <1>5, ForkMoves
  <2>2. DirKind(d, pc[d], next[d]) /\ next[d] \in Nat /\ Len(Entries[d]) \in Nat
        /\ next[d] <= Len(Entries[d])
    BY <1>5, Tree DEF DirKinds, TypeOK, Fork
  <2>3. pc[e] = "unborn"
    BY <2>1, <2>2 DEF Born, Forked
  <2>4. e \in Dir => next[e] = 1
    BY <2>3 DEF DirKinds
  <2> HIDE DEF e
  <2>5. DirKind(d, pc'[d], next'[d])
    BY <2>1, <2>2
  <2>6. e \in Dir => DirKind(e, pc'[e], next'[e])
    BY <2>1, <2>4
  <2>7. \A x \in Dir : DirKind(x, pc'[x], next'[x])
    BY <2>1, <2>5, <2>6 DEF DirKinds
  <2> QED
    BY <2>1, <2>7, InputKept DEF DirKinds
<1>6. ASSUME NEW d \in Dir, ForkedAll(d) PROVE DirKinds'
  <2>1. Len(Subdirs[d]) \in Nat
    BY Tree
  <2>2. DirKind(d, "open", 1)
    BY <1>6, <2>1, DirMoves DEF DirKinds
  <2> QED
    BY <1>6, <2>2, DirMoves, KindMoves
<1>7. ASSUME NEW d \in Dir, Open(d) PROVE DirKinds'
  <2> DEFINE c == Current(d)
  <2>1. /\ UNCHANGED <<input, next>> /\ pc[d] = "open" /\ pc[c] = "put" /\ c \in Dir \ {Root} /\ c # d
        /\ \A x \in Dir : pc'[x] = IF x = d THEN "read" ELSE IF x = c THEN "write" ELSE pc[x]
    BY <1>7, OpenMoves
  <2>2. next[d] <= Len(Subdirs[d])
    BY <1>7 DEF Open
  <2> HIDE DEF c
  <2>3. DirKind(d, pc'[d], next'[d]) /\ DirKind(c, pc'[c], next'[c])
    BY <2>1, <2>2 DEF DirKinds
  <2>4. \A x \in Dir : DirKind(x, pc'[x], next'[x])
    BY <2>1, <2>3 DEF DirKinds
  <2> QED
    BY <2>1, <2>4, InputKept DEF DirKinds
<1>8. ASSUME NEW d \in Dir, Read(d) PROVE DirKinds'
  <2>1. Len(Subdirs[d]) \in Nat /\ next[d] \in Nat
    BY Tree DEF TypeOK
  <2>2. DirKind(d, "open", next[d] + 1)
    BY <1>8, <2>1, DirMoves DEF DirKinds
  <2> QED
    BY <1>8, <2>2, DirMoves, KindMoves
<1>9. ASSUME NEW d \in Dir, ReadAll(d) PROVE DirKinds'
  <2>1. DirKind(d, "wait", next[d])
    BY <1>9, DirMoves DEF DirKinds
  <2> QED
    BY <1>9, <2>1, DirMoves, KindMoves
<1>10. ASSUME NEW d \in Dir, WaitFailed(d) PROVE DirKinds'
  BY <1>10, DirMoves, KindMoves
<1>11. ASSUME NEW d \in Dir, Collect(d) PROVE DirKinds'
  <2>1. DirKind(d, IF d = Root THEN "report" ELSE "put", next[d])
    BY <1>11, DirMoves DEF DirKinds, Cut
  <2> QED
    BY <1>11, <2>1, DirMoves, KindMoves
<1>12. ASSUME NEW d \in Dir, Write(d) PROVE DirKinds'
  <2>1. DirKind(d, "gone", next[d])
    BY <1>12, DirMoves DEF DirKinds, Cut
  <2> QED
    BY <1>12, <2>1, DirMoves, KindMoves
<1>13. ASSUME Report PROVE DirKinds'
  <2>1. pc[Root] = "report" /\ Moves(Root, "gone", next[Root])
    BY <1>13, Tree DEF TypeOK, Moves, Report, Goto
  <2>2. DirKind(Root, "gone", next[Root])
    BY <2>1, Tree DEF DirKinds
  <2> QED
    BY <2>1, <2>2, Tree, KindMoves
<1>14. ASSUME UNCHANGED vars PROVE DirKinds'
  BY <1>14, InputKept DEF DirKinds, vars
<1> QED
  BY <1>1, <1>2, <1>3, <1>4, <1>5, <1>6, <1>7, <1>8, <1>9, <1>10, <1>11, <1>12, <1>13, <1>14
     DEF Next, Directory
----------------------------------------------------------------------------
(* How many entries are forked, and how many FIFOs are read *)

LEMMA CountTypes ==
  ASSUME TypeOK, DirKinds, NEW d \in Dir
  PROVE  /\ Forked(d) \in 0 .. Len(Entries[d]) /\ Taken(d) \in 0 .. Len(Subdirs[d])
         /\ next[d] \in Nat \ {0} /\ Len(Entries[d]) \in Nat /\ Len(Subdirs[d]) \in Nat
         /\ DOMAIN Entries[d] = 1 .. Len(Entries[d]) /\ DOMAIN Subdirs[d] = 1 .. Len(Subdirs[d])
<1>1. /\ next[d] \in Nat \ {0} /\ Len(Entries[d]) \in Nat /\ Len(Subdirs[d]) \in Nat
      /\ DOMAIN Entries[d] = 1 .. Len(Entries[d]) /\ DOMAIN Subdirs[d] = 1 .. Len(Subdirs[d])
  BY Lists DEF TypeOK
<1>2. DirKind(d, pc[d], next[d])
  BY DEF DirKinds
<1>3. Forked(d) \in 0 .. Len(Entries[d])
  BY <1>1, <1>2 DEF DirKind, Forked
<1>4. Taken(d) \in 0 .. Len(Subdirs[d])
  BY <1>1, <1>2 DEF DirKind, Taken
<1> QED
  BY <1>1, <1>3, <1>4

\* x has forked and read as much as before.
Still(x) ==
  Forked(x)' = Forked(x) /\ Taken(x)' = Taken(x) /\ Done(x)' = Done(x) /\ Collected(x)' = Collected(x)

LEMMA StillThere ==
  ASSUME UNCHANGED input, NEW x \in Dir, pc'[x] = pc[x], next'[x] = next[x]
  PROVE  Still(x)
<1>1. Cut(x)' = Cut(x) /\ Poor(x)' = Poor(x)
  BY InputKept
<1> QED
  BY <1>1 DEF Still, Forked, Taken, Done, Collected

LEMMA OthersStill ==
  ASSUME NEW d \in Dir, NEW p, NEW n, Moves(d, p, n)
  PROVE  \A x \in Dir \ {d} : Still(x)
BY StillThere DEF Moves

\* What each step of a directory makes of the counts: all are as they were but for Fork,
\* Read, and those that have collected everything or are done.
LEMMA CountSteps ==
  ASSUME TypeOK, DirKinds, NEW d \in Dir
  PROVE  /\ CannotOpen(d) \/ Find(d) \/ NoPipe(d) \/ ForkedAll(d) \/ ReadAll(d) \/ WaitFailed(d)
              => \A x \in Dir : Still(x)
         /\ Read(d) => Forked(d)' = Forked(d) /\ Taken(d) = next[d] - 1 /\ Taken(d)' = next[d]
                         /\ ~Done(d) /\ ~Done(d)' /\ ~Collected(d) /\ ~Collected(d)'
         /\ Collect(d) => Forked(d)' = Forked(d) /\ Taken(d)' = Taken(d) /\ Taken(d) = Len(Subdirs[d])
                            /\ ~Done(d) /\ ~Done(d)' /\ ~Collected(d) /\ Collected(d)'
         /\ Write(d) => Forked(d)' = Forked(d) /\ Taken(d)' = Taken(d) /\ Taken(d) = Len(Subdirs[d])
                          /\ ~Done(d) /\ Done(d)' /\ Collected(d) /\ Collected(d)'
<1> DEFINE D == DirKind(d, pc[d], next[d])
<1>2. D
  BY DEF DirKinds
<1>3. /\ next[d] \in Nat \ {0} /\ Len(Entries[d]) \in Nat /\ Len(Subdirs[d]) \in Nat
  BY CountTypes
<1>4. ASSUME NEW p, NEW n, Moves(d, p, n)
      PROVE  pc'[d] = p /\ next'[d] = n /\ Cut(d)' = Cut(d) /\ Poor(d)' = Poor(d)
  BY <1>4, InputKept DEF Moves
<1>5. ASSUME CannotOpen(d) PROVE \A x \in Dir : Still(x)
  <2>1. Still(d)
    BY <1>4, <1>5, DirMoves DEF CannotOpen, Still, Forked, Taken, Done, Collected, Cut
  <2> QED
    BY <2>1, <1>5, DirMoves, OthersStill
<1>6. ASSUME Find(d) PROVE \A x \in Dir : Still(x)
  <2>1. Still(d)
    BY <1>2, <1>3, <1>4, <1>6, DirMoves DEF DirKind, Find, Still, Forked, Taken, Done, Collected, Cut
  <2> QED
    BY <2>1, <1>6, DirMoves, OthersStill
<1>7. ASSUME NoPipe(d) PROVE \A x \in Dir : Still(x)
  <2>1. Still(d)
    BY <1>2, <1>4, <1>7, DirMoves DEF DirKind, Still, Forked, Taken, Done, Collected, Cut
  <2> QED
    BY <2>1, <1>7, DirMoves, OthersStill
<1>8. ASSUME ForkedAll(d) PROVE \A x \in Dir : Still(x)
  <2>1. pc[d] = "fork" /\ ~Cut(d) /\ next[d] = Len(Entries[d]) + 1
    <3>1. pc[d] = "fork" /\ next[d] > Len(Entries[d])
      BY <1>8 DEF ForkedAll, Goto
    <3>2. ~Cut(d) /\ next[d] <= Len(Entries[d]) + 1
      BY <1>2, <3>1 DEF DirKind
    <3> QED
      BY <1>3, <3>1, <3>2
  <2>2. pc'[d] = "open" /\ next'[d] = 1 /\ ~Cut(d)'
    BY <1>4, <1>8, <2>1, DirMoves
  <2>3. Still(d)
    BY <1>3, <2>1, <2>2 DEF Still, Forked, Taken, Done, Collected
  <2> QED
    BY <2>3, <1>8, DirMoves, OthersStill
<1>9. ASSUME ReadAll(d) PROVE \A x \in Dir : Still(x)
  <2>1. Still(d)
    BY <1>2, <1>3, <1>4, <1>9, DirMoves DEF DirKind, ReadAll, Still, Forked, Taken, Done, Collected
  <2> QED
    BY <2>1, <1>9, DirMoves, OthersStill
<1>10. ASSUME WaitFailed(d) PROVE \A x \in Dir : Still(x)
  <2>1. Still(d)
    BY <1>2, <1>4, <1>10, DirMoves DEF DirKind, Still, Forked, Taken, Done, Collected
  <2> QED
    BY <2>1, <1>10, DirMoves, OthersStill
<1>11. ASSUME Read(d)
       PROVE  Forked(d)' = Forked(d) /\ Taken(d) = next[d] - 1 /\ Taken(d)' = next[d]
                /\ ~Done(d) /\ ~Done(d)' /\ ~Collected(d) /\ ~Collected(d)'
  BY <1>2, <1>3, <1>4, <1>11, DirMoves DEF DirKind, Forked, Taken, Done, Collected
<1>12. ASSUME Collect(d)
       PROVE  Forked(d)' = Forked(d) /\ Taken(d)' = Taken(d) /\ Taken(d) = Len(Subdirs[d])
                /\ ~Done(d) /\ ~Done(d)' /\ ~Collected(d) /\ Collected(d)'
  BY <1>2, <1>4, <1>12, DirMoves DEF DirKind, Forked, Taken, Done, Collected, Cut
<1>13. ASSUME Write(d)
       PROVE  Forked(d)' = Forked(d) /\ Taken(d)' = Taken(d) /\ Taken(d) = Len(Subdirs[d])
                /\ ~Done(d) /\ Done(d)' /\ Collected(d) /\ Collected(d)'
  BY <1>2, <1>4, <1>13, DirMoves DEF DirKind, Forked, Taken, Done, Collected, Cut
<1> QED
  BY <1>5, <1>6, <1>7, <1>8, <1>9, <1>10, <1>11, <1>12, <1>13

LEMMA ForkCounts ==
  ASSUME TypeOK, DirKinds, Born, NEW d \in Dir, Fork(d)
  PROVE  /\ Forked(d) = next[d] - 1 /\ Forked(d)' = next[d] /\ Taken(d)' = Taken(d)
         /\ ~Done(d) /\ ~Done(d)' /\ ~Collected(d) /\ ~Collected(d)'
         /\ \A x \in Dir \ {d} : Still(x)
<1> DEFINE e == Entries[d][next[d]]
<1>1. /\ UNCHANGED input /\ pc[d] = "fork" /\ next[d] \in DOMAIN Entries[d] /\ e # d /\ e # Root
      /\ \A x \in Dir : pc'[x] = IF x = e THEN "find" ELSE pc[x]
      /\ \A x \in Dir : next'[x] = IF x = d THEN next[d] + 1 ELSE next[x]
  BY ForkMoves
<1>2. DirKind(d, pc[d], next[d]) /\ next[d] \in Nat \ {0}
  BY CountTypes DEF DirKinds
<1>3. Cut(d)' = Cut(d) /\ Poor(d)' = Poor(d) /\ ~Cut(d)
  BY <1>1, <1>2, InputKept DEF DirKind
<1>4. Forked(d) = next[d] - 1
  BY <1>1, <1>3 DEF Forked
<1>5. pc[e] = "unborn"
  <2>1. next[d] \in Nat /\ ~(next[d] <= next[d] - 1)
    BY <1>2
  <2> QED
    BY <1>1, <1>4, <2>1 DEF Born
<1>6. ASSUME NEW x \in Dir, x = e PROVE Still(x)
  <2>1. Cut(x)' = Cut(x) /\ Poor(x)' = Poor(x)
    BY <1>1, InputKept
  <2>2. pc[x] = "unborn" /\ pc'[x] = "find"
    BY <1>1, <1>5, <1>6
  <2> QED
    BY <2>1, <2>2 DEF Still, Forked, Taken, Done, Collected
<1>7. \A x \in Dir : x # d /\ x # e => Still(x)
  BY <1>1, StillThere
<1>8. pc'[d] = "fork" /\ next'[d] = next[d] + 1
  BY <1>1
<1> HIDE DEF e
<1>9. Forked(d)' = next[d] /\ Taken(d)' = Taken(d) /\ ~Done(d) /\ ~Done(d)' /\ ~Collected(d) /\ ~Collected(d)'
  BY <1>1, <1>2, <1>3, <1>8 DEF Forked, Taken, Done, Collected
<1> QED
  BY <1>4, <1>6, <1>7, <1>9

LEMMA OpenCounts ==
  ASSUME TypeOK, DirKinds, NEW d \in Dir, Open(d)
  PROVE  \A x \in Dir : Still(x)
<1> DEFINE c == Current(d)
<1>1. /\ UNCHANGED <<input, next>> /\ pc[d] = "open" /\ pc[c] = "put" /\ c \in Dir \ {Root} /\ c # d
      /\ \A x \in Dir : pc'[x] = IF x = d THEN "read" ELSE IF x = c THEN "write" ELSE pc[x]
  BY OpenMoves
<1> HIDE DEF c
<1>2. \A x \in Dir : Cut(x)' = Cut(x) /\ Poor(x)' = Poor(x)
  BY <1>1, InputKept
<1>3. Still(d)
  BY <1>1, <1>2 DEF Still, Forked, Taken, Done, Collected
<1>4. ASSUME NEW x \in Dir, x = c PROVE Still(x)
  <2>1. pc[x] = "put" /\ pc'[x] = "write"
    BY <1>1, <1>4
  <2> QED
    BY <1>2, <2>1 DEF Still, Forked, Taken, Done, Collected
<1>5. \A x \in Dir : x # c /\ x # d => Still(x)
  BY <1>1, StillThere
<1> QED
  BY <1>3, <1>4, <1>5

LEMMA SearchCounts ==
  ASSUME TypeOK, NEW f \in File, Search(f)
  PROVE  /\ \A x \in Dir : Still(x) /\ pc'[x] = pc[x]
         /\ pc[f] = "find" /\ pc'[f] = FileStatus(f) /\ \A g \in File \ {f} : pc'[g] = pc[g]
<1>1. \A d \in Dir : pc'[d] = pc[d] /\ next'[d] = next[d]
  BY Tree DEF TypeOK, Search, Goto
<1>2. UNCHANGED input
  BY DEF Search
<1>3. pc[f] = "find" /\ pc'[f] = FileStatus(f) /\ \A g \in File \ {f} : pc'[g] = pc[g]
  BY DEF TypeOK, Search, Goto
<1> QED
  BY <1>1, <1>2, <1>3, StillThere

LEMMA ReportCounts ==
  ASSUME TypeOK, DirKinds, Report
  PROVE  /\ Moves(Root, "gone", next[Root]) /\ pc[Root] = "report"
         /\ \A x \in Dir \ {Root} : Still(x)
         /\ Forked(Root)' = Forked(Root) /\ Taken(Root)' = Taken(Root) /\ Collected(Root)' = Collected(Root)
         /\ Done(Root)' = ~Poor(Root)
<1>1. pc[Root] = "report" /\ Moves(Root, "gone", next[Root])
  BY Tree DEF TypeOK, Moves, Report, Goto
<1>2. pc'[Root] = "gone" /\ next'[Root] = next[Root] /\ Cut(Root)' = Cut(Root) /\ Poor(Root)' = Poor(Root)
  BY <1>1, Tree, InputKept DEF Moves
<1> QED
  BY <1>1, <1>2, Tree, OthersStill DEF Forked, Taken, Done, Collected
----------------------------------------------------------------------------
(* What has been forked, taken and collected *)

LEMMA InitCounts ==
  Init => Born /\ Handed /\ Waited /\ Fifos /\ Gathered /\ Written /\ Reported
<1> SUFFICES ASSUME Init
             PROVE  Born /\ Handed /\ Waited /\ Fifos /\ Gathered /\ Written /\ Reported
  OBVIOUS
<1>1. /\ \A e \in Dir \cup File : pc[e] = IF e = Root THEN "find" ELSE "unborn"
      /\ fifo = {} /\ total = -1 /\ \A d \in Dir : arr[d] = <<>>
  BY DEF Init
<1>2. \A d \in Dir : Forked(d) = 0 /\ Taken(d) = 0 /\ ~Done(d) /\ ~Collected(d) /\ pc[d] \in {"unborn", "find"}
  BY <1>1 DEF Forked, Taken, Done, Collected
<1>3. Born
  BY <1>1, Entry DEF Born
<1>4. Handed
  BY <1>2, Subdir DEF Handed
<1>5. Waited
  BY <1>2 DEF Waited
<1>6. Fifos
  BY <1>1, <1>2 DEF Fifos
<1>7. Gathered
  BY <1>1, <1>2, GotNone DEF Gathered
<1>8. Written
  BY <1>2 DEF Written
<1>9. Reported
  BY <1>1 DEF Reported
<1> QED
  BY <1>3, <1>4, <1>5, <1>6, <1>7, <1>8, <1>9

\* Forked counts upwards, and d alone moves from place to place.
LEMMA StepBorn ==
  ASSUME TypeOK, DirKinds, Born, [Next]_vars
  PROVE  Born'
<1>1. ASSUME NEW f \in File, Search(f) PROVE Born'
  <2> SUFFICES ASSUME NEW d \in Dir, NEW i \in DOMAIN Entries[d], pc'[Entries[d][i]] # "unborn"
               PROVE  i <= Forked(d)'
    BY DEF Born
  <2>1. pc[Entries[d][i]] # "unborn"
    BY <1>1, SearchCounts, Entry
  <2> QED
    BY <1>1, <2>1, SearchCounts DEF Born, Still
<1>2. ASSUME NEW d \in Dir, NEW p, NEW n, Moves(d, p, n), \A x \in Dir : Forked(x)' = Forked(x), pc[d] # "unborn"
      PROVE  Born'
  <2> SUFFICES ASSUME NEW x \in Dir, NEW i \in DOMAIN Entries[x], pc'[Entries[x][i]] # "unborn"
               PROVE  i <= Forked(x)'
    BY DEF Born
  <2>1. pc[Entries[x][i]] # "unborn"
    BY <1>2, Entry DEF Moves
  <2> QED
    BY <1>2, <2>1 DEF Born
<1>3. ASSUME NEW d \in Dir, Directory(d), ~Fork(d), ~Open(d) PROVE Born'
  <2>2. \E p, n : Moves(d, p, n) /\ pc[d] # "unborn"
    BY <1>3, DirMoves DEF Directory
  <2>3. \A x \in Dir : Forked(x)' = Forked(x)
    BY <1>3, <2>2, CountSteps, OthersStill DEF Directory, Still
  <2> QED
    BY <1>2, <2>2, <2>3
<1>4. ASSUME NEW d \in Dir, Fork(d) PROVE Born'
  <2> SUFFICES ASSUME NEW x \in Dir, NEW i \in DOMAIN Entries[x], pc'[Entries[x][i]] # "unborn"
               PROVE  i <= Forked(x)'
    BY DEF Born
  <2>1. Entries[x][i] = Entries[d][next[d]] \/ pc[Entries[x][i]] # "unborn"
    BY <1>4, ForkMoves, Entry
  <2>2. next[d] \in Nat \ {0} /\ next[d] \in DOMAIN Entries[d] /\ i \in Nat
    BY <1>4, ForkMoves, CountTypes
  <2>3. Forked(d) = next[d] - 1 /\ Forked(d)' = next[d] /\ (x # d => Forked(x)' = Forked(x))
    BY <1>4, ForkCounts DEF Still
  <2>4. CASE Entries[x][i] = Entries[d][next[d]]
    <3>1. x = d /\ i = next[d]
      BY <2>2, <2>4, EntryOnce
    <3> QED
      BY <2>2, <2>3, <3>1
  <2>5. CASE pc[Entries[x][i]] # "unborn"
    <3>1. i <= Forked(x)
      BY <2>5 DEF Born
    <3> QED
      BY <2>2, <2>3, <3>1
  <2> QED
    BY <2>1, <2>4, <2>5
<1>5. ASSUME NEW d \in Dir, Open(d) PROVE Born'
  <2> SUFFICES ASSUME NEW x \in Dir, NEW i \in DOMAIN Entries[x], pc'[Entries[x][i]] # "unborn"
               PROVE  i <= Forked(x)'
    BY DEF Born
  <2>1. pc[Entries[x][i]] # "unborn"
    BY <1>5, OpenMoves, Entry
  <2> QED
    BY <1>5, <2>1, OpenCounts DEF Born, Still
<1>6. ASSUME Report PROVE Born'
  <2>2. pc[Root] # "unborn" /\ Moves(Root, "gone", next[Root]) /\ \A x \in Dir : Forked(x)' = Forked(x)
    BY <1>6, ReportCounts DEF Still
  <2> QED
    BY <1>2, <2>2, Tree
<1>7. ASSUME UNCHANGED vars PROVE Born'
  BY <1>7 DEF Born, Forked, Cut, Poor, vars, input
<1> QED
  BY <1>1, <1>3, <1>4, <1>5, <1>6, <1>7 DEF Next

\* Where x can come to in a step.
LEMMA Onward ==
  ASSUME TypeOK, DirKinds, Born, [Next]_vars, NEW x \in Dir
  PROVE  /\ Done(x) => Done(x)'
         /\ pc[x] = "write" => pc'[x] = "write" \/ Done(x)'
         /\ pc'[x] = "read" => (pc[x] = "read" /\ next'[x] = next[x]) \/ Open(x)
         /\ pc'[x] \in {"unborn", "find"} \/ pc[x] \notin {"unborn", "find"} \/ Find(x) \/ CannotOpen(x)
         /\ Taken(x)' = Taken(x) \/ Read(x)
         /\ Collected(x)' <=> Collected(x) \/ Collect(x)
         /\ Done(x)' => Done(x) \/ Write(x) \/ x = Root
<1> DEFINE Good == /\ Done(x) => Done(x)'
                   /\ pc[x] = "write" => pc'[x] = "write" \/ Done(x)'
                   /\ pc'[x] = "read" => (pc[x] = "read" /\ next'[x] = next[x]) \/ Open(x)
                   /\ pc'[x] \in {"unborn", "find"} \/ pc[x] \notin {"unborn", "find"} \/ Find(x) \/ CannotOpen(x)
                   /\ Taken(x)' = Taken(x) \/ Read(x)
                   /\ Collected(x)' <=> Collected(x) \/ Collect(x)
                   /\ Done(x)' => Done(x) \/ Write(x) \/ x = Root
<1>1. Collect(x) => pc[x] = "wait"
  BY DEF Collect, Goto
<1>2. ASSUME NEW f \in File, Search(f) PROVE Good
  <2>1. Still(x) /\ pc'[x] = pc[x] /\ next'[x] = next[x]
    BY <1>2, SearchCounts DEF Search
  <2>2. ~Collect(x)
    BY <2>1 DEF Collect, Goto, TypeOK
  <2> QED
    BY <2>1, <2>2 DEF Still
<1>3. ASSUME NEW d \in Dir, Directory(d), d # x PROVE Good
  <2>1. Still(x)
    <3>1. CASE Fork(d)
      BY <1>3, <3>1, ForkCounts
    <3>2. CASE Open(d)
      BY <1>3, <3>2, OpenCounts
    <3>3. CASE ~Fork(d) /\ ~Open(d)
      <4>1. \E p, n : Moves(d, p, n)
        BY <1>3, <3>3, DirMoves DEF Directory
      <4> QED
        BY <1>3, <4>1, OthersStill
    <3> QED
      BY <3>1, <3>2, <3>3
  <2>2. \/ pc'[x] = pc[x] /\ next'[x] = next[x]
        \/ pc[x] = "unborn" /\ pc'[x] = "find" /\ next'[x] = next[x]
        \/ pc[x] = "put" /\ pc'[x] = "write" /\ next'[x] = next[x]
    <3>1. CASE Fork(d)
      <4>1. next[d] \in DOMAIN Entries[d] /\ next[d] \in Nat \ {0} /\ Forked(d) = next[d] - 1
        BY <3>1, ForkMoves, ForkCounts, CountTypes
      <4>2. pc[Entries[d][next[d]]] = "unborn"
        <5>1. next[d] \in Nat /\ ~(next[d] <= next[d] - 1)
          BY <4>1
        <5> QED
          BY <4>1, <5>1 DEF Born
      <4> QED
        BY <1>3, <3>1, <4>2, ForkMoves
    <3>2. CASE Open(d)
      BY <1>3, <3>2, OpenMoves
    <3>3. CASE ~Fork(d) /\ ~Open(d)
      <4>1. \E p, n : Moves(d, p, n)
        BY <1>3, <3>3, DirMoves DEF Directory
      <4> QED
        BY <1>3, <4>1 DEF Moves
    <3> QED
      BY <3>1, <3>2, <3>3
  <2>3. ~Collect(x)
    BY <2>2 DEF Collect, Goto, TypeOK
  <2> QED
    BY <2>1, <2>2, <2>3 DEF Still
<1>4. ASSUME CannotOpen(x) \/ Find(x) \/ NoPipe(x) \/ ForkedAll(x) \/ ReadAll(x) \/ WaitFailed(x) PROVE Good
  <2>1. Still(x)
    BY <1>4, CountSteps
  <2>2. PICK p, n : Moves(x, p, n) /\ p # "read" /\ pc[x] # "write"
    BY <1>4, DirMoves
  <2>3. pc'[x] = p
    BY <2>2 DEF Moves
  <2>4. ~Collect(x)
    <3>1. SUFFICES ASSUME Collect(x) PROVE FALSE
      OBVIOUS
    <3>2. Collected(x)' /\ ~Collected(x)
      BY <3>1, CountSteps
    <3> QED
      BY <2>1, <3>2 DEF Still
  <2>5. pc[x] \notin {"unborn", "find"} \/ Find(x) \/ CannotOpen(x)
    BY <1>4, DirMoves
  <2> QED
    BY <2>1, <2>2, <2>3, <2>4, <2>5 DEF Still
<1>5. ASSUME Fork(x) PROVE Good
  <2>1. pc[x] = "fork" /\ pc'[x] = "fork"
    BY <1>5, ForkMoves
  <2> QED
    BY <1>1, <1>5, <2>1, ForkCounts
<1>6. ASSUME Open(x) PROVE Good
  <2>1. Still(x) /\ pc[x] = "open"
    BY <1>6, OpenCounts, OpenMoves
  <2> QED
    BY <1>1, <1>6, <2>1 DEF Still
<1>7. ASSUME Read(x) PROVE Good
  <2>1. pc[x] = "read" /\ pc'[x] = "open"
    BY <1>7, DirMoves DEF Moves
  <2> QED
    BY <1>1, <1>7, <2>1, CountSteps
<1>8. ASSUME Collect(x) PROVE Good
  <2>1. pc[x] = "wait" /\ pc'[x] # "read"
    BY <1>8, DirMoves DEF Moves
  <2> QED
    BY <1>8, <2>1, CountSteps
<1>9. ASSUME Write(x) PROVE Good
  <2>1. pc[x] = "write" /\ pc'[x] = "gone"
    BY <1>9, DirMoves DEF Moves
  <2> QED
    BY <1>1, <1>9, <2>1, CountSteps
<1>10. ASSUME Report PROVE Good
  <2>1. CASE x = Root
    <3>1. pc[x] = "report" /\ pc'[x] = "gone"
      BY <1>10, <2>1, ReportCounts DEF Moves
    <3> QED
      BY <1>1, <1>10, <2>1, <3>1, ReportCounts DEF Done
  <2>2. CASE x # Root
    <3>1. Still(x) /\ pc'[x] = pc[x] /\ next'[x] = next[x]
      BY <1>10, <2>2, ReportCounts DEF Moves
    <3>2. ~Collect(x)
      BY <3>1 DEF Collect, Goto, TypeOK
    <3> QED
      BY <3>1, <3>2 DEF Still
  <2> QED
    BY <2>1, <2>2
<1>11. ASSUME UNCHANGED vars PROVE Good
  <2>1. Still(x) /\ pc'[x] = pc[x] /\ next'[x] = next[x]
    BY <1>11, StillThere DEF vars
  <2>2. ~Collect(x)
    BY <2>1 DEF Collect, Goto, TypeOK
  <2> QED
    BY <2>1, <2>2 DEF Still
<1> HIDE DEF Good
<1>12. Good
  BY <1>2, <1>3, <1>4, <1>5, <1>6, <1>7, <1>8, <1>9, <1>10, <1>11 DEF Next, Directory
<1> QED
  BY <1>12 DEF Good

\* A file that is gone stays gone: it is forked once.
LEMMA FileGone ==
  ASSUME TypeOK, DirKinds, Born, [Next]_vars, NEW f \in File, pc[f] = "gone"
  PROVE  pc'[f] = "gone"
<1>1. ASSUME NEW g \in File, Search(g) PROVE pc'[f] = "gone"
  BY <1>1, SearchCounts
<1>2. ASSUME NEW d \in Dir, Directory(d), ~Fork(d), ~Open(d) PROVE pc'[f] = "gone"
  <2>1. PICK p, n : Moves(d, p, n)
    BY <1>2, DirMoves DEF Directory
  <2>2. f # d
    BY Tree
  <2> QED
    BY <2>1, <2>2 DEF Moves
<1>3. ASSUME NEW d \in Dir, Fork(d) PROVE pc'[f] = "gone"
  <2>1. next[d] \in DOMAIN Entries[d] /\ next[d] \in Nat \ {0} /\ Forked(d) = next[d] - 1
    BY <1>3, ForkMoves, ForkCounts, CountTypes
  <2>2. pc[Entries[d][next[d]]] = "unborn"
    <3>1. next[d] \in Nat /\ ~(next[d] <= next[d] - 1)
      BY <2>1
    <3> QED
      BY <2>1, <3>1 DEF Born
  <2> QED
    BY <1>3, <2>2, ForkMoves
<1>4. ASSUME NEW d \in Dir, Open(d) PROVE pc'[f] = "gone"
  BY <1>4, OpenMoves, Tree
<1>5. ASSUME Report PROVE pc'[f] = "gone"
  BY <1>5, ReportCounts, Tree DEF Moves
<1>6. ASSUME UNCHANGED vars PROVE pc'[f] = "gone"
  BY <1>6 DEF vars
<1> QED
  BY <1>1, <1>2, <1>3, <1>4, <1>5, <1>6 DEF Next

\* Who has been read from had ended as it should.
LEMMA StepHanded ==
  ASSUME TypeOK, DirKinds, Born, Handed, [Next]_vars
  PROVE  Handed'
<1> SUFFICES ASSUME NEW d \in Dir, NEW i \in DOMAIN Subdirs[d]
             PROVE  /\ i <= Taken(d)' => Done(Subdirs[d][i])'
                    /\ pc'[d] = "read" /\ i = next'[d] => pc'[Subdirs[d][i]] = "write" \/ Done(Subdirs[d][i])'
  BY DEF Handed
<1>1. PICK c \in Dir \ {Root} : c = Subdirs[d][i]
  BY Subdir
<1>2. /\ Done(c) => Done(c)'
      /\ pc[c] = "write" => pc'[c] = "write" \/ Done(c)'
  BY <1>1, Onward
<1>3. /\ i <= Taken(d) => Done(c)
      /\ pc[d] = "read" /\ i = next[d] => pc[c] = "write" \/ Done(c)
  BY <1>1 DEF Handed
<1>4. ASSUME i <= Taken(d)' PROVE Done(c)'
  <2>1. CASE Taken(d)' = Taken(d)
    BY <1>2, <1>3, <1>4, <2>1
  <2>2. CASE Read(d)
    <3>1. Taken(d) = next[d] - 1 /\ Taken(d)' = next[d] /\ next[d] \in Nat /\ i \in Nat
      BY <2>2, CountSteps, CountTypes
    <3>2. pc[d] = "read" /\ pc[Current(d)] = "gone"
      BY <2>2 DEF Read, Goto
    <3>3. CASE i = next[d]
      BY <1>1, <1>2, <1>3, <3>2, <3>3 DEF Current
    <3>4. CASE i # next[d]
      BY <1>2, <1>3, <1>4, <3>1, <3>4
    <3> QED
      BY <3>3, <3>4
  <2> QED
    BY <2>1, <2>2, Onward
<1>5. ASSUME pc'[d] = "read", i = next'[d] PROVE pc'[c] = "write" \/ Done(c)'
  <2>1. CASE pc[d] = "read" /\ next'[d] = next[d]
    BY <1>2, <1>3, <1>5, <2>1
  <2>2. CASE Open(d)
    <3>1. c = Current(d)
      BY <1>1, <1>5, <2>2 DEF Open, Current
    <3> QED
      BY <2>2, <3>1, OpenMoves
  <2> QED
    BY <1>5, <2>1, <2>2, Onward
<1> QED
  BY <1>1, <1>4, <1>5

\* Who has collected everything has the output of all its files.
LEMMA StepWaited ==
  ASSUME TypeOK, DirKinds, Born, Waited, [Next]_vars
  PROVE  Waited'
<1> SUFFICES ASSUME NEW d \in Dir, Collected(d)', NEW f \in ToSet(Files[d]) PROVE pc'[f] = "gone"
  BY DEF Waited
<1>1. f \in File
  BY Tree DEF ToSet
<1>2. CASE Collected(d)
  BY <1>1, <1>2, FileGone DEF Waited
<1>3. CASE Collect(d)
  <2>1. f \in Children(d)
    BY TreeAssumption DEF Children
  <2> QED
    BY <1>1, <1>3, <2>1, FileGone DEF Collect, Ended
<1> QED
  BY <1>2, <1>3, Onward

\* The FIFOs that exist are those not read yet.
LEMMA StepFifos ==
  ASSUME TypeOK, DirKinds, Born, Fifos, [Next]_vars
  PROVE  Fifos'
<1>1. UNCHANGED input
  BY DEF Next, Directory, Search, CannotOpen, Find, NoPipe, Fork, ForkedAll, Open, Read, ReadAll, WaitFailed,
         Collect, Write, Report, vars
<1>2. \/ fifo' = fifo
      \/ \E e \in Dir : Find(e) /\ fifo' = fifo \cup ToSet(Subdirs[e])
      \/ \E e \in Dir : Read(e) /\ fifo' = fifo \ {Current(e)}
  BY DEF Next, Directory, Search, CannotOpen, Find, NoPipe, Fork, ForkedAll, Open, Read, ReadAll, WaitFailed,
         Collect, Write, Report, vars, Unlinked
<1>3. ASSUME NEW e \in Dir, Read(e)
      PROVE  /\ next[e] \in DOMAIN Subdirs[e] /\ Current(e) = Subdirs[e][next[e]]
             /\ Taken(e) = next[e] - 1 /\ Taken(e)' = next[e] /\ next[e] \in Nat \ {0}
             /\ fifo' = fifo \ {Current(e)}
  <2>1. next[e] <= Len(Subdirs[e])
    BY <1>3, DirMoves DEF DirKinds, DirKind
  <2> QED
    BY <1>3, <2>1, CountSteps, CountTypes, CurrentDir DEF Read, Unlinked
<1> SUFFICES ASSUME NEW d \in Dir, NEW i \in DOMAIN Subdirs[d]
             PROVE  /\ Subdirs[d][i] \in fifo' => i > Taken(d)'
                    /\ d \notin closed' /\ pc'[d] \notin {"unborn", "find"} /\ i > Taken(d)'
                         => Subdirs[d][i] \in fifo'
  BY DEF Fifos
<1>4. i \in Nat /\ Taken(d) \in Nat /\ next[d] \in Nat
  BY CountTypes
<1>5. ASSUME Subdirs[d][i] \in fifo' PROVE i > Taken(d)'
  <2>1. CASE Subdirs[d][i] \in fifo
    <3>1. i > Taken(d)
      BY <2>1 DEF Fifos
    <3>2. CASE Read(d)
      <4>1. i # next[d]
        BY <1>3, <1>5, <3>2
      <4> QED
        BY <1>3, <1>4, <3>1, <3>2, <4>1
    <3> QED
      BY <3>1, <3>2, Onward
  <2>2. CASE \E e \in Dir : Find(e) /\ Subdirs[d][i] \in ToSet(Subdirs[e])
    <3>1. PICK e \in Dir : Find(e) /\ Subdirs[d][i] \in ToSet(Subdirs[e])
      BY <2>2
    <3>2. e = d
      BY <3>1, SubdirOnce DEF ToSet
    <3>3. Taken(d)' = Taken(d) /\ pc[d] = "find"
      BY <3>1, <3>2, CountSteps, DirMoves DEF Still
    <3>4. Taken(d)' = 0
      BY <3>3 DEF Taken
    <3> QED
      BY <3>4, CountTypes
  <2> QED
    BY <1>2, <1>5, <2>1, <2>2
<1>6. ASSUME d \notin closed', pc'[d] \notin {"unborn", "find"}, i > Taken(d)'
      PROVE  Subdirs[d][i] \in fifo'
  <2>1. d \notin closed
    BY <1>1, <1>6 DEF input
  <2>2. CASE pc[d] \notin {"unborn", "find"}
    <3>1. i > Taken(d)
      BY <1>3, <1>4, <1>6, Onward
    <3>2. Subdirs[d][i] \in fifo
      BY <2>1, <2>2, <3>1 DEF Fifos
    <3>3. ASSUME NEW e \in Dir, Read(e), Subdirs[d][i] = Current(e) PROVE FALSE
      <4>1. d = e /\ i = next[e]
        BY <1>3, <3>3, SubdirOnce
      <4> QED
        BY <1>3, <1>4, <1>6, <3>3, <4>1
    <3> QED
      BY <1>2, <3>2, <3>3
  <2>3. CASE Find(d)
    BY <2>3, Subdir DEF Find
  <2>4. CASE CannotOpen(d)
    BY <2>1, <2>4 DEF CannotOpen
  <2> QED
    BY <1>6, <2>2, <2>3, <2>4, Onward
<1> QED
  BY <1>5, <1>6

\* What d has got is what its part of the tree gives.
LEMMA StepGathered ==
  ASSUME TypeOK, TypeOK', FileKinds, DirKinds, Born, Handed, Gathered, Written, [Next]_vars
  PROVE  Gathered'
<1>1. UNCHANGED input
  BY DEF Next, Directory, Search, CannotOpen, Find, NoPipe, Fork, ForkedAll, Open, Read, ReadAll, WaitFailed,
         Collect, Write, Report, vars
<1>2. Output' = Output
  BY <1>1, OutputKept
<1> SUFFICES ASSUME NEW d \in Dir
             PROVE  arr'[d] = IF Collected(d)' THEN Output[d] ELSE Got(Output, d, Taken(d)')
  BY <1>2 DEF Gathered
<1>3. arr[d] = IF Collected(d) THEN Output[d] ELSE Got(Output, d, Taken(d))
  BY DEF Gathered
<1>4. \/ arr' = arr
      \/ \E e \in Dir : Read(e) /\ arr' = [arr EXCEPT ![e] = @ \o OneRead(sent[Current(e)])]
      \/ \E e \in Dir : Collect(e) /\ arr' = [arr EXCEPT ![e] = @ \o FromPipes(e)]
  BY DEF Next, Directory, Search, CannotOpen, Find, NoPipe, Fork, ForkedAll, Open, Read, ReadAll, WaitFailed,
         Collect, Write, Report, vars
<1>5. CASE Read(d)
  <2>1. next[d] <= Len(Subdirs[d])
    BY <1>5, DirMoves DEF DirKinds, DirKind
  <2>2. /\ next[d] \in DOMAIN Subdirs[d] /\ Current(d) = Subdirs[d][next[d]] /\ Current(d) \in Dir \ {Root}
    BY <2>1, CurrentDir
  <2>3. Taken(d) = next[d] - 1 /\ Taken(d)' = next[d] /\ ~Collected(d) /\ ~Collected(d)'
    BY <1>5, CountSteps
  <2>4. pc[d] = "read" /\ pc[Current(d)] = "gone"
    BY <1>5 DEF Read, Goto
  <2>5. Done(Subdirs[d][next[d]])
    BY <2>2, <2>4 DEF Handed
  <2>6. sent[Current(d)] = Output[Subdirs[d][next[d]]]
    BY <2>2, <2>5 DEF Written
  <2>7. arr'[d] = arr[d] \o OneRead(Output[Subdirs[d][next[d]]])
    BY <1>5, <2>6 DEF Read, TypeOK
  <2> QED
    BY <1>3, <2>2, <2>3, <2>7, GotNext
<1>6. CASE Collect(d)
  <2>1. Taken(d) = Len(Subdirs[d]) /\ ~Collected(d) /\ Collected(d)'
    BY <1>6, CountSteps
  <2>2. FromPipes(d) = Own[d]
    <3>1. \A i \in DOMAIN Files[d] : pipe[Files[d][i]] = Lines(Files[d][i])
      <4> TAKE i \in DOMAIN Files[d]
      <4>1. Files[d][i] \in ToSet(Files[d]) /\ Files[d][i] \in File
        BY Tree DEF ToSet
      <4>2. Files[d][i] \in Children(d)
        BY <4>1, TreeAssumption DEF Children
      <4>3. pc[Files[d][i]] = "gone"
        BY <1>6, <4>2 DEF Collect, Ended
      <4> QED
        BY <4>1, <4>3 DEF FileKinds
    <3>2. [i \in DOMAIN Files[d] |-> OneRead(pipe[Files[d][i]])]
            = [i \in DOMAIN Files[d] |-> OneRead(Lines(Files[d][i]))]
      BY <3>1
    <3> QED
      BY <3>2 DEF FromPipes, Own
  <2>3. arr'[d] = arr[d] \o FromPipes(d)
    BY <1>6 DEF Collect, TypeOK
  <2> QED
    BY <1>3, <2>1, <2>2, <2>3, GotAll
<1>7. CASE ~Read(d) /\ ~Collect(d)
  <2>1. arr'[d] = arr[d]
    BY <1>4, <1>7 DEF TypeOK
  <2>2. Taken(d)' = Taken(d) /\ (Collected(d)' <=> Collected(d))
    BY <1>7, Onward
  <2> QED
    BY <1>3, <2>1, <2>2
<1> QED
  BY <1>5, <1>6, <1>7

\* What a directory wrote to its FIFO is its output.
LEMMA StepWritten ==
  ASSUME TypeOK, TypeOK', DirKinds, Born, Gathered, Written, [Next]_vars
  PROVE  Written'
<1>1. UNCHANGED input
  BY DEF Next, Directory, Search, CannotOpen, Find, NoPipe, Fork, ForkedAll, Open, Read, ReadAll, WaitFailed,
         Collect, Write, Report, vars
<1>2. Output' = Output
  BY <1>1, OutputKept
<1> SUFFICES ASSUME NEW d \in Dir \ {Root}, Done(d)' PROVE sent'[d] = Output[d]
  BY <1>2 DEF Written
<1>3. sent' = sent \/ \E e \in Dir : Write(e) /\ sent' = [sent EXCEPT ![e] = arr[e]]
  BY DEF Next, Directory, Search, CannotOpen, Find, NoPipe, Fork, ForkedAll, Open, Read, ReadAll, WaitFailed,
         Collect, Write, Report, vars
<1>4. CASE Write(d)
  <2>1. Collected(d)
    BY <1>4, CountSteps
  <2>2. sent'[d] = arr[d]
    BY <1>4 DEF Write, TypeOK
  <2> QED
    BY <2>1, <2>2 DEF Gathered
<1>5. CASE ~Write(d)
  <2>1. Done(d)
    BY <1>5, Onward
  <2>2. sent'[d] = sent[d]
    BY <1>3, <1>5 DEF TypeOK
  <2> QED
    BY <2>1, <2>2 DEF Written
<1> QED
  BY <1>4, <1>5

\* The main process ends once.
LEMMA RootStays ==
  ASSUME TypeOK, DirKinds, Born, [Next]_vars, pc[Root] = "gone"
  PROVE  pc'[Root] = "gone"
<1>1. ASSUME NEW g \in File, Search(g) PROVE pc'[Root] = "gone"
  BY <1>1, Tree DEF Search, Goto, TypeOK
<1>2. ASSUME NEW d \in Dir, Directory(d), ~Fork(d), ~Open(d) PROVE pc'[Root] = "gone"
  <2>1. PICK p, n : Moves(d, p, n) /\ pc[d] # "gone"
    BY <1>2, DirMoves DEF Directory
  <2>2. Root # d
    BY <2>1
  <2> QED
    BY <2>1, <2>2, Tree DEF Moves
<1>3. ASSUME NEW d \in Dir, Fork(d) PROVE pc'[Root] = "gone"
  <2>1. next[d] \in DOMAIN Entries[d]
    BY <1>3, ForkMoves
  <2>2. Entries[d][next[d]] # Root
    BY <2>1, Entry
  <2> QED
    BY <1>3, <2>2, Tree, ForkMoves
<1>4. ASSUME NEW d \in Dir, Open(d) PROVE pc'[Root] = "gone"
  BY <1>4, OpenMoves, Tree
<1>5. ASSUME Report PROVE pc'[Root] = "gone"
  BY <1>5, Tree DEF Report, Goto, TypeOK
<1>6. ASSUME UNCHANGED vars PROVE pc'[Root] = "gone"
  BY <1>6 DEF vars
<1> QED
  BY <1>1, <1>2, <1>3, <1>4, <1>5, <1>6 DEF Next

\* The total is that of the log, which is written once.
LEMMA StepReported ==
  ASSUME TypeOK, DirKinds, Born, Reported, [Next]_vars
  PROVE  Reported'
<1>1. ASSUME Report PROVE Reported'
  BY <1>1, Tree DEF TypeOK, Reported, Report, Goto
<1>2. ASSUME ~Report, total' # -1 PROVE pc'[Root] = "gone" /\ total' = Len(arr'[Root])
  <2>1. total' = total
    BY <1>2 DEF Next, Directory, Search, CannotOpen, Find, NoPipe, Fork, ForkedAll, Open, Read, ReadAll, WaitFailed,
         Collect, Write, vars
  <2>2. pc[Root] = "gone" /\ total = Len(arr[Root])
    BY <1>2, <2>1 DEF Reported
  <2>3. arr'[Root] = arr[Root]
    <3>1. ~Read(Root) /\ ~Collect(Root)
      BY <2>2 DEF Read, Collect, Goto
    <3>2. \/ arr' = arr
          \/ \E e \in Dir : Read(e) /\ arr' = [arr EXCEPT ![e] = @ \o OneRead(sent[Current(e)])]
          \/ \E e \in Dir : Collect(e) /\ arr' = [arr EXCEPT ![e] = @ \o FromPipes(e)]
      BY DEF Next, Directory, Search, CannotOpen, Find, NoPipe, Fork, ForkedAll, Open, Read, ReadAll, WaitFailed,
             Collect, Write, Report, vars
    <3>3. \A e \in Dir : Read(e) \/ Collect(e) => e # Root
      BY <3>1
    <3>4. Root \in Dir /\ arr \in [Dir -> Seq(File)]
      BY Tree DEF TypeOK
    <3> QED
      BY <3>2, <3>3, <3>4
  <2>4. pc'[Root] = "gone"
    BY <2>2, RootStays
  <2> QED
    BY <2>1, <2>2, <2>3, <2>4
<1> QED
  BY <1>1, <1>2 DEF Reported

LEMMA InitInv == Init => IInv
BY InitType, InitCounts DEF IInv

LEMMA StepInv == IInv /\ [Next]_vars => IInv'
<1> SUFFICES ASSUME IInv, [Next]_vars PROVE IInv'
  OBVIOUS
<1>1. /\ TypeOK /\ FileKinds /\ DirKinds /\ Born /\ Handed /\ Waited /\ Fifos
      /\ Gathered /\ Written /\ Reported
  BY DEF IInv
<1>2. TypeOK'
  BY <1>1, StepType
<1>3. FileKinds' /\ DirKinds' /\ Born'
  BY <1>1, StepFileKinds, StepDirKinds, StepBorn
<1>4. Handed' /\ Waited' /\ Fifos' /\ Reported'
  BY <1>1, StepHanded, StepWaited, StepFifos, StepReported
<1>5. Gathered' /\ Written'
  BY <1>1, <1>2, StepGathered, StepWritten
<1> QED
  BY <1>2, <1>3, <1>4, <1>5 DEF IInv
----------------------------------------------------------------------------
(* What the invariant says of the ends *)

\* Once the root has ended, its own pipes not failing, every directory has handed on
\* its output: the highest one that had not would have been waited for.
LEMMA AllDone ==
  ASSUME IInv, pc[Root] = "gone", ~Poor(Root)
  PROVE  \A d \in Dir : Done(d)
<1> DEFINE S == {d \in Dir : ~Done(d)}
<1>1. SUFFICES ASSUME S # {} PROVE FALSE
  OBVIOUS
<1>2. S \in SUBSET (Dir \ {Root})
  BY DEF Done
<1>3. PICK d \in Dir \ S : ToSet(Subdirs[d]) \cap S # {}
  BY <1>1, <1>2, Tree
<1>4. PICK i \in DOMAIN Subdirs[d] : Subdirs[d][i] \in S
  BY <1>3 DEF ToSet
<1>5. Done(d) /\ d \notin closed
  BY <1>3 DEF IInv, DirKinds, DirKind, Done
<1>6. Taken(d) = Len(Subdirs[d]) /\ i \in 1 .. Len(Subdirs[d])
  BY <1>5, Subdir DEF Taken, Done, Cut
<1>7. i <= Taken(d)
  BY <1>6, Tree
<1>8. Done(Subdirs[d][i])
  BY <1>7 DEF IInv, Handed
<1> QED
  BY <1>4, <1>8

\* Whoever has a child has come to its entries.
LEMMA BornOf ==
  ASSUME IInv, NEW d \in Dir, NEW j \in DOMAIN Entries[d], pc[Entries[d][j]] # "unborn"
  PROVE  ~Cut(d) /\ pc[d] \notin {"unborn", "find", "nopipe"}
<1>1. j <= Forked(d) /\ j \in 1 .. Len(Entries[d])
  BY Entry DEF IInv, Born
<1>2. Forked(d) # 0
  BY <1>1
<1> QED
  BY <1>2 DEF Forked

\* If there is a process but the root, the root has come to its entries.
LEMMA RootForked ==
  ASSUME IInv, NEW c \in Dir \ {Root}, pc[c] # "unborn"
  PROVE  ~Cut(Root)
<1> DEFINE S == {d \in Dir \ {Root} : pc[d] # "unborn"}
<1>1. PICK d \in Dir \ S : ToSet(Subdirs[d]) \cap S # {}
  <2>1. S # {} /\ S \in SUBSET (Dir \ {Root})
    OBVIOUS
  <2> HIDE DEF S
  <2> QED
    BY <2>1, Tree
<1>2. PICK i \in DOMAIN Subdirs[d] : Subdirs[d][i] \in S
  BY <1>1 DEF ToSet
<1>3. PICK j \in DOMAIN Entries[d] : Subdirs[d][i] = Entries[d][j]
  BY Subdir
<1>4. ~Cut(d) /\ pc[d] # "unborn"
  BY <1>2, <1>3, BornOf
<1> QED
  BY <1>1, <1>4

LEMMA InvFailureStops == IInv => FailureStops
<1> SUFFICES ASSUME IInv, NEW d \in Dir \ {Root}, Silent(d)
             PROVE  pc[Parent(d)] \in {"fork", "open", "read"} /\ d \in fifo /\ total = -1
  BY DEF FailureStops
<1> DEFINE p == Parent(d)
<1>1. ~Done(d) /\ pc[d] # "unborn"
  BY DEF Silent, Done, Poor
<1>2. PICK i \in DOMAIN Subdirs[p] : Subdirs[p][i] = d
  BY ParentOfDir
<1>3. PICK j \in DOMAIN Entries[p] : Entries[p][j] = d
  BY ParentOfDir
<1>4. p \in Dir
  BY ParentOfDir
<1> HIDE DEF p
<1>5. ~Cut(p) /\ pc[p] \notin {"unborn", "find", "nopipe"}
  BY <1>1, <1>3, <1>4, BornOf
<1>6. i > Taken(p) /\ i \in 1 .. Len(Subdirs[p])
  <2>1. ~(i <= Taken(p))
    BY <1>1, <1>2, <1>4 DEF IInv, Handed
  <2>2. Taken(p) \in Nat
    BY <1>4, CountTypes DEF IInv
  <2> QED
    BY <1>4, <2>1, <2>2, Subdir
<1>7. pc[p] \in {"fork", "open", "read"}
  BY <1>5, <1>6 DEF Taken
<1>8. d \in fifo
  BY <1>2, <1>4, <1>5, <1>6 DEF IInv, Fifos, Cut
<1>9. total = -1
  <2>1. SUFFICES ASSUME total # -1 PROVE FALSE
    OBVIOUS
  <2>2. pc[Root] = "gone"
    BY <2>1 DEF IInv, Reported
  <2>3. ~Poor(Root)
    BY <1>1, RootForked DEF Cut
  <2> QED
    BY <1>1, <2>2, <2>3, AllDone
<1> QED
  BY <1>7, <1>8, <1>9 DEF p

LEMMA InvTotalOfAll == IInv => TotalOfAll
<1> SUFFICES ASSUME IInv, total # -1
             PROVE  (Sound /\ fifo = {}) \/ (total = 0 /\ Root \in scarce)
  BY DEF TotalOfAll
<1>1. pc[Root] = "gone" /\ total = Len(arr[Root]) /\ Root \in Dir
  BY Tree DEF IInv, Reported
<1>2. CASE Poor(Root)
  <2>1. Taken(Root) = 0 /\ ~Collected(Root)
    BY <1>2 DEF Taken, Cut, Collected
  <2>2. arr[Root] = <<>>
    BY <1>1, <2>1, GotNone DEF IInv, Gathered
  <2> QED
    BY <1>1, <1>2, <2>2 DEF Poor
<1>3. CASE ~Poor(Root)
  <2>1. ASSUME NEW d \in Dir PROVE Done(d) /\ d \notin closed
    BY <1>1, <1>3, AllDone DEF IInv, DirKinds, DirKind, Done
  <2>2. ASSUME NEW f \in File PROVE f \notin closed
    <3>1. PICK d \in Dir : f \in ToSet(Files[d])
      BY DirOfFile
    <3>2. Collected(d)
      BY <2>1 DEF Done, Collected
    <3> QED
      BY <3>1, <3>2 DEF IInv, Waited, FileKinds
  <2>3. Sound
    <3>1. closed \in SUBSET (Dir \cup File) /\ scarce \in SUBSET Dir
      BY DEF IInv, TypeOK
    <3> QED
      BY <2>1, <2>2, <3>1 DEF Sound, Done, Poor
  <2>4. ASSUME NEW d \in fifo PROVE FALSE
    <3>1. d \in Dir \ {Root}
      BY DEF IInv, TypeOK
    <3>2. PICK p \in Dir : \E i \in DOMAIN Subdirs[p] : Subdirs[p][i] = d
      BY <3>1, ParentOfDir
    <3>3. PICK i \in DOMAIN Subdirs[p] : Subdirs[p][i] = d
      BY <3>2
    <3>4. Taken(p) = Len(Subdirs[p]) /\ i \in 1 .. Len(Subdirs[p])
      BY <2>1, Subdir DEF Taken, Done, Cut
    <3>5. i > Taken(p)
      BY <3>3 DEF IInv, Fifos
    <3> QED
      BY <3>4, <3>5, Tree
  <2> QED
    BY <2>3, <2>4
<1> QED
  BY <1>2, <1>3

LEMMA InvOutputFixed == IInv => OutputFixed
<1> SUFFICES ASSUME IInv, NEW d \in Dir,
                    pc[d] \in {"put", "write"} \/ (d = Root /\ pc[d] = "report" /\ Files[d] # <<>> /\ d \notin scarce)
             PROVE  arr[d] = Output[d]
  BY DEF OutputFixed
<1>1. ~Poor(d)
  BY DEF IInv, DirKinds, DirKind, Cut, Poor
<1>2. Collected(d)
  BY <1>1 DEF Collected
<1> QED
  BY <1>2 DEF IInv, Gathered
----------------------------------------------------------------------------
(* Nobody waits for ever unless something failed *)

\* How far a process is on its way.
Phase(p) ==
  CASE p = "unborn" -> 0 [] p = "find" -> 1 [] p \in {"nopipe", "fork"} -> 2 [] p \in {"open", "read"} -> 3
    [] p = "wait" -> 4 [] p = "put" -> 5 [] p = "write" -> 6 [] p = "report" -> 7
    [] p \in {"gone", "failed"} -> 8
\* q, at m in its loop, is later than p, at n.
Later(p, n, q, m) ==
  \/ Phase(p) < Phase(q)
  \/ p = "fork" /\ q = "fork" /\ n < m
  \/ p = "open" /\ q = "read" /\ n = m
  \/ p = "read" /\ q = "open" /\ n < m

\* Nobody is earlier than before, and one is later.
Onwards ==
  /\ \A f \in File : pc'[f] = pc[f] \/ Phase(pc[f]) < Phase(pc'[f])
  /\ \A d \in Dir : \/ pc'[d] = pc[d] /\ next'[d] = next[d]
                    \/ Later(pc[d], next[d], pc'[d], next'[d])
  /\ \/ \E f \in File : pc'[f] # pc[f]
     \/ \E d \in Dir : pc'[d] # pc[d] \/ next'[d] # next[d]

LEMMA MoveOnwards ==
  ASSUME NEW d \in Dir, NEW p, NEW n, Moves(d, p, n), Later(pc[d], next[d], p, n),
         p # pc[d] \/ n # next[d]
  PROVE  Onwards
<1>1. \A f \in File : pc'[f] = pc[f]
  BY Tree DEF Moves
<1>2. pc'[d] = p /\ next'[d] = n /\ \A e \in Dir \ {d} : pc'[e] = pc[e] /\ next'[e] = next[e]
  BY DEF Moves
<1> QED
  BY <1>1, <1>2 DEF Onwards

LEMMA NextOnwards ==
  ASSUME TypeOK, DirKinds, Born, Next
  PROVE  Onwards
<1>1. ASSUME NEW f \in File, Search(f) PROVE Onwards
  <2>1. /\ \A d \in Dir : pc'[d] = pc[d] /\ next'[d] = next[d]
        /\ \A g \in File \ {f} : pc'[g] = pc[g]
        /\ pc[f] = "find" /\ pc'[f] \in {"gone", "failed"}
    BY <1>1, SearchCounts DEF Search, FileStatus
  <2>2. Phase(pc[f]) < Phase(pc'[f])
    BY <2>1 DEF Phase
  <2> QED
    BY <2>1, <2>2 DEF Onwards
<1>2. ASSUME NEW d \in Dir, Directory(d), ~Fork(d), ~Open(d) PROVE Onwards
  <2>1. next[d] \in Nat
    BY DEF TypeOK
  <2>2. ASSUME NEW p, Moves(d, p, next[d]), Phase(pc[d]) < Phase(p) PROVE Onwards
    <3>1. p # pc[d]
      <4>1. SUFFICES ASSUME p = pc[d] PROVE FALSE
        OBVIOUS
      <4>2. pc[d] \in {"unborn", "find", "nopipe", "fork", "open", "read", "wait", "put",
                       "write", "report", "gone", "failed"}
        BY DEF TypeOK
      <4> QED
        BY <2>2, <4>1, <4>2 DEF Phase
    <3> QED
      BY <2>2, <3>1, MoveOnwards DEF Later
  <2>3. CASE CannotOpen(d)
    BY <2>2, <2>3, DirMoves DEF Phase
  <2>4. CASE Find(d)
    BY <2>2, <2>4, DirMoves DEF Phase
  <2>5. CASE NoPipe(d)
    BY <2>2, <2>5, DirMoves DEF Phase
  <2>6. CASE ForkedAll(d)
    <3>1. pc[d] = "fork" /\ Moves(d, "open", 1)
      BY <2>6, DirMoves
    <3>2. Later(pc[d], next[d], "open", 1)
      BY <3>1 DEF Later, Phase
    <3> QED
      BY <3>1, <3>2, MoveOnwards
  <2>7. CASE Read(d)
    <3>1. pc[d] = "read" /\ Moves(d, "open", next[d] + 1)
      BY <2>7, DirMoves
    <3>2. Later(pc[d], next[d], "open", next[d] + 1)
      BY <2>1, <3>1 DEF Later
    <3> QED
      BY <3>1, <3>2, MoveOnwards
  <2>8. CASE ReadAll(d)
    BY <2>2, <2>8, DirMoves DEF Phase
  <2>9. CASE WaitFailed(d)
    BY <2>2, <2>9, DirMoves DEF Phase
  <2>10. CASE Collect(d)
    BY <2>2, <2>10, DirMoves DEF Phase
  <2>11. CASE Write(d)
    BY <2>2, <2>11, DirMoves DEF Phase
  <2> QED
    BY <1>2, <2>3, <2>4, <2>5, <2>6, <2>7, <2>8, <2>9, <2>10, <2>11 DEF Directory
<1>3. ASSUME NEW d \in Dir, Fork(d) PROVE Onwards
  <2> DEFINE e == Entries[d][next[d]]
  <2>1. /\ pc[d] = "fork" /\ next[d] \in DOMAIN Entries[d] /\ e \in Dir \cup File /\ e # d
        /\ \A x \in Dir \cup File : pc'[x] = IF x = e THEN "find" ELSE pc[x]
        /\ \A x \in Dir : next'[x] = IF x = d THEN next[d] + 1 ELSE next[x]
    BY <1>3, ForkMoves
  <2>2. pc[e] = "unborn"
    <3>1. next[d] \in Nat /\ Forked(d) = next[d] - 1
      BY <1>3, ForkCounts, CountTypes
    <3>2. ~(next[d] <= Forked(d))
      BY <3>1
    <3> QED
      BY <2>1, <3>2 DEF Born
  <2>3. next[d] \in Nat /\ next[d] # next[d] + 1
    BY CountTypes
  <2>4. Phase("unborn") < Phase("find")
    BY DEF Phase
  <2> HIDE DEF e
  <2>5. \A f \in File : pc'[f] = pc[f] \/ Phase(pc[f]) < Phase(pc'[f])
    BY <2>1, <2>2, <2>4
  <2>6. \A x \in Dir : \/ pc'[x] = pc[x] /\ next'[x] = next[x]
                       \/ Later(pc[x], next[x], pc'[x], next'[x])
    <3> TAKE x \in Dir
    <3>1. CASE x = d
      BY <2>1, <2>3, <3>1 DEF Later
    <3>2. CASE x = e
      BY <2>1, <2>2, <2>4, <3>2 DEF Later
    <3>3. CASE x # d /\ x # e
      BY <2>1, <3>3
    <3> QED
      BY <3>1, <3>2, <3>3
  <2>7. next'[d] # next[d]
    BY <2>1, <2>3
  <2> QED
    BY <2>5, <2>6, <2>7 DEF Onwards
<1>4. ASSUME NEW d \in Dir, Open(d) PROVE Onwards
  <2> DEFINE c == Current(d)
  <2>1. /\ next' = next /\ pc[d] = "open" /\ pc[c] = "put" /\ c \in Dir /\ c # d
        /\ \A x \in Dir \cup File : pc'[x] = IF x = d THEN "read" ELSE IF x = c THEN "write" ELSE pc[x]
    BY <1>4, OpenMoves
  <2>2. Phase("put") < Phase("write")
    BY DEF Phase
  <2> HIDE DEF c
  <2>3. \A f \in File : pc'[f] = pc[f]
    <3>1. \A f \in File : f # d /\ f # c
      BY <2>1, Tree
    <3> QED
      BY <2>1, <3>1
  <2>4. \A x \in Dir : \/ pc'[x] = pc[x] /\ next'[x] = next[x]
                       \/ Later(pc[x], next[x], pc'[x], next'[x])
    BY <2>1, <2>2 DEF Later
  <2>5. pc'[d] # pc[d]
    BY <2>1
  <2> QED
    BY <2>3, <2>4, <2>5 DEF Onwards
<1>5. ASSUME Report PROVE Onwards
  <2>1. pc[Root] = "report" /\ Moves(Root, "gone", next[Root]) /\ Root \in Dir
    BY <1>5, ReportCounts, Tree
  <2>2. Later(pc[Root], next[Root], "gone", next[Root])
    BY <2>1 DEF Later, Phase
  <2> QED
    BY <2>1, <2>2, MoveOnwards
<1> QED
  BY <1>1, <1>2, <1>3, <1>4, <1>5 DEF Next

\* What was born stays.
LEMMA StaysBorn ==
  ASSUME TypeOK, DirKinds, Born, [Next]_vars, NEW x \in Dir \cup File, pc[x] # "unborn"
  PROVE  pc'[x] # "unborn"
<1>1. CASE UNCHANGED vars
  BY <1>1 DEF vars
<1>2. CASE Next
  <2>1. Onwards
    BY <1>2, NextOnwards
  <2>2. pc'[x] = pc[x] \/ Later(pc[x], next[x], pc'[x], next'[x]) \/ Phase(pc[x]) < Phase(pc'[x])
    BY <2>1 DEF Onwards
  <2>3. pc[x] \in {"find", "nopipe", "fork", "open", "read", "wait", "put", "write", "report", "gone", "failed"}
    BY DEF TypeOK
  <2> QED
    BY <2>2, <2>3 DEF Later, Phase
<1> QED
  BY <1>1, <1>2

\* Whoever was forked is there.
Alive == \A d \in Dir : \A i \in 1 .. Forked(d) : pc[Entries[d][i]] # "unborn"
\* A subdirectory writes only to a parent that reads from it.
Asked ==
  \A d \in Dir : \A i \in DOMAIN Subdirs[d] :
    i > Taken(d) /\ ~(pc[d] = "read" /\ i = next[d])
      => pc[Subdirs[d][i]] # "write" /\ ~Done(Subdirs[d][i])
\* Failures begin with something that cannot be opened.
Clear == closed = {} => \A e \in Dir \cup File : pc[e] # "failed"

WaitInv == Alive /\ Asked /\ Clear

LEMMA ForkedSteps ==
  ASSUME TypeOK, DirKinds, Born, [Next]_vars, NEW x \in Dir
  PROVE  Forked(x)' = Forked(x) \/ (Fork(x) /\ Forked(x)' = next[x])
<1>1. ASSUME NEW f \in File, Search(f) PROVE Forked(x)' = Forked(x)
  BY <1>1, SearchCounts DEF Still
<1>2. ASSUME NEW d \in Dir, Directory(d), ~Fork(d), ~Open(d) PROVE Forked(x)' = Forked(x)
  <2>1. \E p, n : Moves(d, p, n)
    BY <1>2, DirMoves DEF Directory
  <2> QED
    BY <1>2, <2>1, CountSteps, OthersStill DEF Directory, Still
<1>3. ASSUME NEW d \in Dir, Fork(d) PROVE Forked(x)' = Forked(x) \/ (Fork(x) /\ Forked(x)' = next[x])
  BY <1>3, ForkCounts DEF Still
<1>4. ASSUME NEW d \in Dir, Open(d) PROVE Forked(x)' = Forked(x)
  BY <1>4, OpenCounts DEF Still
<1>5. ASSUME Report PROVE Forked(x)' = Forked(x)
  BY <1>5, ReportCounts DEF Still
<1>6. ASSUME UNCHANGED vars PROVE Forked(x)' = Forked(x)
  BY <1>6 DEF Forked, Cut, Poor, vars, input
<1> QED
  BY <1>1, <1>2, <1>3, <1>4, <1>5, <1>6 DEF Next

LEMMA StepAlive ==
  ASSUME TypeOK, DirKinds, Born, Alive, [Next]_vars
  PROVE  Alive'
<1> SUFFICES ASSUME NEW d \in Dir, NEW i \in Nat, 1 <= i, i <= Forked(d)'
             PROVE  pc'[Entries[d][i]] # "unborn"
  <2>1. \A d \in Dir : \A i \in 1 .. Forked(d)' : i \in Nat /\ 1 <= i /\ i <= Forked(d)'
    OBVIOUS
  <2> QED
    BY <2>1 DEF Alive
<1>1. Forked(d) \in 0 .. Len(Entries[d]) /\ Len(Entries[d]) \in Nat /\ next[d] \in Nat \ {0}
      /\ DOMAIN Entries[d] = 1 .. Len(Entries[d])
  BY CountTypes
<1>2. CASE i <= Forked(d)
  <2>1. i \in 1 .. Forked(d) /\ i \in DOMAIN Entries[d]
    BY <1>1, <1>2
  <2>2. pc[Entries[d][i]] # "unborn" /\ Entries[d][i] \in Dir \cup File
    BY <2>1, Entry DEF Alive
  <2> QED
    BY <2>2, StaysBorn
<1>3. CASE ~(i <= Forked(d))
  <2>1. Fork(d) /\ Forked(d)' = next[d]
    BY <1>3, ForkedSteps
  <2>2. Forked(d) = next[d] - 1
    BY <2>1, ForkCounts
  <2>3. i = next[d]
    BY <1>1, <1>3, <2>1, <2>2
  <2>4. pc'[Entries[d][next[d]]] = "find"
    BY <2>1, ForkMoves
  <2> QED
    BY <2>3, <2>4
<1> QED
  BY <1>2, <1>3

\* A reader reads until it has read, and a writer had been read from.
LEMMA Meeting ==
  ASSUME TypeOK, DirKinds, Born, [Next]_vars, NEW x \in Dir
  PROVE  /\ pc[x] = "read" => Read(x) \/ (pc'[x] = "read" /\ next'[x] = next[x])
         /\ pc'[x] = "write" => pc[x] = "write" \/ \E d \in Dir : Open(d) /\ x = Current(d)
<1> DEFINE Good == /\ pc[x] = "read" => Read(x) \/ (pc'[x] = "read" /\ next'[x] = next[x])
                   /\ pc'[x] = "write" => pc[x] = "write" \/ \E d \in Dir : Open(d) /\ x = Current(d)
<1>1. ASSUME NEW f \in File, Search(f) PROVE Good
  <2>1. pc'[x] = pc[x] /\ next'[x] = next[x]
    BY <1>1, SearchCounts DEF Search
  <2> QED
    BY <2>1
<1>2. ASSUME NEW d \in Dir, Directory(d), ~Fork(d), ~Open(d) PROVE Good
  <2>1. \E p, n : Moves(d, p, n) /\ p # "write" /\ (pc[d] # "read" \/ Read(d))
    BY <1>2, DirMoves DEF Directory
  <2>2. PICK p, n : Moves(d, p, n) /\ p # "write" /\ (pc[d] # "read" \/ Read(d))
    BY <2>1
  <2>3. CASE x = d
    BY <2>2, <2>3 DEF Moves
  <2>4. CASE x # d
    BY <2>2, <2>4 DEF Moves
  <2> QED
    BY <2>3, <2>4
<1>3. ASSUME NEW d \in Dir, Fork(d) PROVE Good
  <2>1. pc[d] = "fork" /\ pc'[d] = pc[d] /\ pc[x] # "unborn" /\ x # d => pc'[x] = pc[x] /\ next'[x] = next[x]
    <3> DEFINE e == Entries[d][next[d]]
    <3>1. /\ next[d] \in DOMAIN Entries[d] /\ Forked(d) = next[d] - 1 /\ next[d] \in Nat
          /\ \A y \in Dir \cup File : pc'[y] = IF y = e THEN "find" ELSE pc[y]
          /\ \A y \in Dir : next'[y] = IF y = d THEN next[d] + 1 ELSE next[y]
      BY <1>3, ForkMoves, ForkCounts, CountTypes
    <3>2. ~(next[d] <= Forked(d))
      BY <3>1
    <3>3. pc[e] = "unborn"
      BY <3>1, <3>2 DEF Born
    <3> HIDE DEF e
    <3> QED
      BY <3>1, <3>3
  <2>2. pc[d] = "fork" /\ pc'[d] = "fork" /\ (pc'[x] = pc[x] \/ pc'[x] = "find")
    BY <1>3, ForkMoves
  <2>3. pc[x] = "read" => pc'[x] = "read" /\ next'[x] = next[x]
    BY <2>1, <2>2
  <2> QED
    BY <2>2, <2>3
<1>4. ASSUME NEW d \in Dir, Open(d) PROVE Good
  <2> DEFINE c == Current(d)
  <2>1. /\ next' = next /\ pc[d] = "open" /\ pc[c] = "put" /\ c # d
        /\ \A y \in Dir \cup File : pc'[y] = IF y = d THEN "read" ELSE IF y = c THEN "write" ELSE pc[y]
    BY <1>4, OpenMoves
  <2>2. x = c \/ pc'[x] # "write" \/ pc[x] = "write"
    BY <2>1
  <2>3. pc[x] = "read" => pc'[x] = "read" /\ next'[x] = next[x]
    BY <2>1
  <2> QED
    BY <1>4, <2>2, <2>3
<1>5. ASSUME Report PROVE Good
  <2>1. pc[Root] = "report" /\ Moves(Root, "gone", next[Root])
    BY <1>5, ReportCounts
  <2> QED
    BY <2>1 DEF Moves
<1>6. ASSUME UNCHANGED vars PROVE Good
  BY <1>6 DEF vars
<1> QED
  BY <1>1, <1>2, <1>3, <1>4, <1>5, <1>6 DEF Next

LEMMA StepAsked ==
  ASSUME TypeOK, DirKinds, Born, Asked, [Next]_vars
  PROVE  Asked'
<1> SUFFICES ASSUME NEW d \in Dir, NEW i \in DOMAIN Subdirs[d],
                    i > Taken(d)', ~(pc'[d] = "read" /\ i = next'[d])
             PROVE  pc'[Subdirs[d][i]] # "write" /\ ~Done(Subdirs[d][i])'
  BY DEF Asked
<1> DEFINE c == Subdirs[d][i]
<1>1. c \in Dir \ {Root} /\ i \in 1 .. Len(Subdirs[d])
  BY Subdir
<1>2. Taken(d) \in 0 .. Len(Subdirs[d]) /\ Len(Subdirs[d]) \in Nat /\ next[d] \in Nat \ {0}
  BY CountTypes
<1>3. Taken(d)' = Taken(d) \/ (Read(d) /\ Taken(d) = next[d] - 1 /\ Taken(d)' = next[d])
  BY Onward, CountSteps
<1>4. i > Taken(d) /\ (Read(d) => i # next[d])
  <2>1. Read(d) => Taken(d) = next[d] - 1 /\ Taken(d)' = next[d]
    BY CountSteps
  <2> QED
    BY <1>1, <1>2, <1>3, <2>1
<1>5. ~(pc[d] = "read" /\ i = next[d])
  BY <1>4, Meeting
<1>6. pc[c] # "write" /\ ~Done(c)
  BY <1>4, <1>5 DEF Asked
<1>7. pc'[c] # "write"
  <2> SUFFICES ASSUME pc'[c] = "write" PROVE FALSE
    OBVIOUS
  <2>1. PICK e \in Dir : Open(e) /\ c = Current(e)
    BY <1>1, <1>6, Meeting
  <2>2. /\ next' = next /\ next[e] \in DOMAIN Subdirs[e] /\ c = Subdirs[e][next[e]] /\ pc'[e] = "read"
    BY <2>1, OpenMoves
  <2>3. e = d /\ i = next[d]
    BY <2>2, SubdirOnce
  <2> QED
    BY <2>2, <2>3
<1>8. ~Done(c)'
  <2>1. Done(c)' => Done(c) \/ Write(c) \/ c = Root
    BY <1>1, Onward
  <2>2. Write(c) => pc[c] = "write"
    BY DEF Write, Goto
  <2> QED
    BY <1>1, <1>6, <2>1, <2>2
<1> QED
  BY <1>7, <1>8

LEMMA StepClear ==
  ASSUME TypeOK, Clear, [Next]_vars
  PROVE  Clear'
<1>1. closed' = closed
  BY DEF Next, Directory, Search, CannotOpen, Find, NoPipe, Fork, ForkedAll, Open, Read, ReadAll, WaitFailed,
         Collect, Write, Report, vars, input
<1> SUFFICES ASSUME closed = {} PROVE \A e \in Dir \cup File : pc'[e] # "failed"
  BY <1>1 DEF Clear
<1>2. \A e \in Dir \cup File : pc[e] # "failed"
  BY DEF Clear
<1>3. ASSUME NEW f \in File, Search(f) PROVE \A e \in Dir \cup File : pc'[e] # "failed"
  BY <1>2, <1>3 DEF Search, Goto, FileStatus, TypeOK
<1>4. ASSUME NEW d \in Dir, Directory(d), ~Fork(d), ~Open(d) PROVE \A e \in Dir \cup File : pc'[e] # "failed"
  <2>1. ~CannotOpen(d)
    BY DEF CannotOpen
  <2>2. ~WaitFailed(d)
    <3>1. Children(d) \subseteq Dir \cup File
      BY Tree DEF Children, ToSet
    <3> QED
      BY <1>2, <3>1 DEF WaitFailed
  <2>3. \E p, n : Moves(d, p, n) /\ p # "failed"
    BY <1>4, <2>1, <2>2, DirMoves DEF Directory
  <2> QED
    BY <1>2, <2>3 DEF Moves
<1>5. ASSUME NEW d \in Dir, Fork(d) PROVE \A e \in Dir \cup File : pc'[e] # "failed"
  BY <1>2, <1>5, ForkMoves
<1>6. ASSUME NEW d \in Dir, Open(d) PROVE \A e \in Dir \cup File : pc'[e] # "failed"
  BY <1>2, <1>6, OpenMoves
<1>7. ASSUME Report PROVE \A e \in Dir \cup File : pc'[e] # "failed"
  BY <1>2, <1>7 DEF Report, Goto, TypeOK
<1>8. ASSUME UNCHANGED vars PROVE \A e \in Dir \cup File : pc'[e] # "failed"
  BY <1>2, <1>8 DEF vars
<1> QED
  BY <1>3, <1>4, <1>5, <1>6, <1>7, <1>8 DEF Next

LEMMA InitWait == Init => WaitInv
<1> SUFFICES ASSUME Init PROVE WaitInv
  OBVIOUS
<1>1. /\ \A e \in Dir \cup File : pc[e] \in {"find", "unborn"}
      /\ Dir \subseteq Dir \cup File
  BY DEF Init
<1>2. \A d \in Dir : Forked(d) = 0 /\ ~Done(d)
  BY <1>1 DEF Forked, Done
<1>3. Alive
  BY <1>2 DEF Alive
<1>4. Asked
  BY <1>1, <1>2, Subdir DEF Asked
<1>5. Clear
  BY <1>1 DEF Clear
<1> QED
  BY <1>3, <1>4, <1>5 DEF WaitInv

LEMMA StepWait == IInv /\ WaitInv /\ [Next]_vars => WaitInv'
BY StepAlive, StepAsked, StepClear DEF IInv, WaitInv

\* What the actions of e wait for is there.
Ready(e) ==
  \/ pc[e] \in {"find", "nopipe", "fork", "write", "report"}
  \/ e \in Dir /\ \/ pc[e] = "open" /\ (next[e] <= Len(Subdirs[e]) => pc[Current(e)] = "put")
                  \/ pc[e] = "read" /\ pc[Current(e)] = "gone"
                  \/ pc[e] = "wait" /\ (Ended(e) \/ \E c \in Children(e) : pc[c] = "failed")

\* Everything has been searched, or somebody can go on.
MovesOn ==
  Sound => (\A e \in Dir \cup File : pc[e] = "gone") \/ \E e \in Dir \cup File : Ready(e)

\* If nobody can go on, all were forked,
LEMMA AllBorn ==
  ASSUME IInv, WaitInv, Sound, \A e \in Dir \cup File : ~Ready(e)
  PROVE  /\ \A d \in Dir : pc[d] \in {"open", "read", "wait", "put", "gone"}
         /\ \A f \in File : pc[f] = "gone"
<1>1. /\ TypeOK /\ FileKinds /\ DirKinds /\ Alive /\ Clear
  BY DEF IInv, WaitInv
<1>2. \A d \in Dir : pc[d] \in {"unborn", "open", "read", "wait", "put", "gone"}
  BY <1>1 DEF TypeOK, Ready, Clear, Sound
<1>3. \A d \in Dir : ~Cut(d) /\ ~Poor(d)
  BY DEF Sound, Cut, Poor
<1>4. ASSUME NEW d \in Dir, pc[d] # "unborn" PROVE \A e \in Children(d) : pc[e] # "unborn"
  <2>1. Forked(d) = Len(Entries[d])
    BY <1>2, <1>3, <1>4 DEF Forked
  <2>2. DOMAIN Entries[d] = 1 .. Len(Entries[d])
    BY Lists
  <2> QED
    BY <1>1, <2>1, <2>2 DEF Alive, Children, ToSet
<1>5. \A d \in Dir : pc[d] # "unborn"
  <2> DEFINE S == {d \in Dir : pc[d] = "unborn"}
  <2> SUFFICES ASSUME S # {} PROVE FALSE
    OBVIOUS
  <2>1. Root \notin S
    BY <1>1, Tree DEF DirKinds, DirKind
  <2>2. PICK d \in Dir \ S : ToSet(Subdirs[d]) \cap S # {}
    <3>1. S \in SUBSET (Dir \ {Root})
      BY <2>1
    <3> HIDE DEF S
    <3> QED
      BY <3>1, Tree
  <2>3. ToSet(Subdirs[d]) \subseteq Children(d)
    BY TreeAssumption DEF Children
  <2>4. \A e \in Children(d) : pc[e] # "unborn"
    BY <1>4, <2>2
  <2> QED
    BY <2>2, <2>3, <2>4
<1>6. \A f \in File : pc[f] = "gone"
  <2> TAKE f \in File
  <2>1. PICK d \in Dir : f \in ToSet(Files[d])
    BY DirOfFile
  <2>2. f \in Children(d)
    BY <2>1, TreeAssumption DEF Children
  <2>3. pc[f] # "unborn"
    BY <1>4, <1>5, <2>2
  <2>4. pc[f] # "failed" /\ pc[f] # "find"
    BY <1>1 DEF Clear, Sound, Ready
  <2> QED
    BY <1>1, <2>3, <2>4 DEF FileKinds
<1> QED
  BY <1>2, <1>5, <1>6

\* and nobody waits: a lowest one that does would have what it waits for.
LEMMA NobodyWaits ==
  ASSUME IInv, WaitInv, Sound, \A e \in Dir \cup File : ~Ready(e)
  PROVE  \A d \in Dir : pc[d] \in {"put", "gone"}
<1> DEFINE S == {d \in Dir : pc[d] \notin {"put", "gone"}}
<1> SUFFICES ASSUME S # {} PROVE FALSE
  OBVIOUS
<1>1. PICK d \in S : ToSet(Subdirs[d]) \cap S = {}
  BY Tree
<1>2. TypeOK /\ DirKinds /\ Handed /\ Asked
  BY DEF IInv, WaitInv
<1>3. d \in Dir /\ pc[d] \in {"open", "read", "wait"} /\ \A f \in File : pc[f] = "gone"
  BY AllBorn
<1>4. \A i \in DOMAIN Subdirs[d] : pc[Subdirs[d][i]] \in {"put", "gone"}
  BY <1>1, Subdir
<1>5. ~Cut(d) /\ \A c \in Dir : ~Poor(c)
  BY <1>3 DEF Sound, Cut, Poor
<1>6. next[d] \in Nat \ {0} /\ ~Ready(d)
  BY <1>2, <1>3 DEF TypeOK
<1>7. CASE pc[d] = "open"
  <2>1. next[d] <= Len(Subdirs[d]) /\ pc[Current(d)] # "put"
    BY <1>3, <1>6, <1>7 DEF Ready
  <2>2. next[d] \in DOMAIN Subdirs[d] /\ Current(d) = Subdirs[d][next[d]] /\ Current(d) \in Dir
    BY <1>2, <1>3, <2>1, CurrentDir
  <2>3. pc[Current(d)] = "gone"
    BY <1>4, <2>1, <2>2
  <2>4. Taken(d) = next[d] - 1
    BY <1>5, <1>7 DEF Taken
  <2>5. next[d] > Taken(d)
    BY <1>6, <2>4
  <2>6. ~Done(Current(d))
    BY <1>2, <1>3, <1>7, <2>2, <2>5 DEF Asked
  <2> QED
    BY <1>5, <2>2, <2>3, <2>6 DEF Done
<1>8. CASE pc[d] = "read"
  <2>1. next[d] <= Len(Subdirs[d])
    BY <1>2, <1>3, <1>8 DEF DirKinds, DirKind
  <2>2. next[d] \in DOMAIN Subdirs[d] /\ Current(d) = Subdirs[d][next[d]]
    BY <1>2, <1>3, <2>1, CurrentDir
  <2>3. pc[Current(d)] = "write" \/ Done(Current(d))
    BY <1>2, <1>3, <1>8, <2>2 DEF Handed
  <2>4. pc[Current(d)] = "gone"
    BY <1>4, <2>2, <2>3 DEF Done
  <2> QED
    BY <1>3, <1>6, <1>8, <2>4 DEF Ready
<1>9. CASE pc[d] = "wait"
  <2>1. Taken(d) = Len(Subdirs[d]) /\ DOMAIN Subdirs[d] = 1 .. Len(Subdirs[d]) /\ Len(Subdirs[d]) \in Nat
    BY <1>3, <1>5, <1>9, Lists DEF Taken
  <2>2. \A i \in DOMAIN Subdirs[d] : i <= Taken(d)
    BY <2>1
  <2>3. \A c \in ToSet(Subdirs[d]) : pc[c] = "gone"
    BY <1>2, <1>3, <2>2 DEF Handed, Done, ToSet
  <2>4. Children(d) = ToSet(Subdirs[d]) \cup ToSet(Files[d]) /\ ToSet(Files[d]) \subseteq File
    <3>1. Children(d) = ToSet(Subdirs[d]) \cup ToSet(Files[d])
      BY <1>3, TreeAssumption DEF Children
    <3>2. ToSet(Files[d]) \subseteq File
      BY <1>3, Tree DEF ToSet
    <3> QED
      BY <3>1, <3>2
  <2>5. Ended(d)
    BY <1>3, <2>3, <2>4 DEF Ended
  <2> QED
    BY <1>3, <1>6, <1>9, <2>5 DEF Ready
<1> QED
  BY <1>3, <1>7, <1>8, <1>9

LEMMA InvMovesOn == IInv /\ WaitInv => MovesOn
<1> SUFFICES ASSUME IInv, WaitInv, Sound, \A e \in Dir \cup File : ~Ready(e)
             PROVE  \A e \in Dir \cup File : pc[e] = "gone"
  BY DEF MovesOn
<1>1. \A d \in Dir : pc[d] \in {"put", "gone"}
  BY NobodyWaits
<1>2. pc[Root] = "gone" /\ ~Poor(Root)
  <2>1. DirKind(Root, pc[Root], next[Root]) /\ Root \in Dir
    BY Tree DEF IInv, DirKinds
  <2> QED
    BY <1>1, <2>1 DEF DirKind, Sound, Poor
<1>3. \A d \in Dir : pc[d] = "gone"
  BY <1>2, AllDone DEF Done
<1> QED
  BY <1>3, AllBorn
----------------------------------------------------------------------------
(* Theorems *)

\* The inductive invariant: in every reachable state each directory has forked and read
\* as far as its place in grepDirector says, and holds exactly the output of the
\* subdirectories it has read from, or of its whole part of the tree.
THEOREM Invariance == Spec => []IInv
<1>1. Init => IInv
  BY InitInv
<1>2. IInv /\ [Next]_vars => IInv'
  BY StepInv
<1> QED
  BY <1>1, <1>2, PTL DEF Spec

\* Every variable keeps its type: the buffers hold lines of files of the tree only, the
\* FIFOs are those of directories, and there is a total only of what was counted.
THEOREM TypeCorrect == Spec => []TypeOK
<1>1. IInv => TypeOK
  BY DEF IInv
<1> QED
  BY <1>1, Invariance, PTL

\* A directory that cannot be opened, or whose pipe fails, stops all above it: its parent
\* never gets past the open of its FIFO, which is never removed, and no total is printed.
THEOREM FailuresStop == Spec => []FailureStops
BY Invariance, InvFailureStops, PTL

\* A total is that of a whole tree in which everything could be opened, with no FIFO left
\* behind, or, the root's own pipe failing, a total of nothing.
THEOREM TotalIsOfAll == Spec => []TotalOfAll
BY Invariance, InvTotalOfAll, PTL

\* What a directory hands on depends on the tree alone, not on how the processes were
\* scheduled: its subdirectories' output in order, then its files'.
THEOREM OutputIsFixed == Spec => []OutputFixed
BY Invariance, InvOutputFixed, PTL

\* Who was forked is there, who is not read from does not write, and without anything
\* that cannot be opened nobody fails.
THEOREM WaitInvariance == Spec => []WaitInv
<1>1. Init => WaitInv
  BY InitWait
<1>2. IInv /\ WaitInv /\ [Next]_vars => WaitInv'
  BY StepWait
<1> QED
  BY <1>1, <1>2, Invariance, PTL DEF Spec

\* The chain of blocking opens, reads and waits never closes: as long as everything can be
\* opened some process can go on, until all have ended.
THEOREM NeverStuck == Spec => []MovesOn
BY Invariance, WaitInvariance, InvMovesOn, PTL

\* No step leads back: a process that steps is later in its program or in its loop, which
\* its entries and its subdirectories bound, and no other is earlier.
THEOREM NoStepBack == Spec => [][Onwards]_vars
<1>1. IInv /\ [Next]_vars => [Onwards]_vars
  BY NextOnwards DEF IInv
<1> QED
  BY <1>1, Invariance, PTL DEF Spec
============================================================================
