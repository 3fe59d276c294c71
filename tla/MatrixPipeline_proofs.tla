----------------------- MODULE MatrixPipeline_proofs -----------------------
(***************************************************************************)
(* Proofs about MatrixPipeline, for any number of requests, solver         *)
(* threads, keys and segments: first for keys as ftok gives them, then for *)
(* keys that are unequal, and with room for all segments that nobody waits *)
(* for ever.                                                               *)
(***************************************************************************)
EXTENDS MatrixPipeline, FiniteSetTheorems, TLAPS

\* The names of data are expanded everywhere.
USE DEF Generated, Solution, ErrorTerms

\* A process that reads or writes through a pointer has attached a segment,
\* and every thread runs only after the fork or pthread_create that made it.
StartedIn(r) ==
  /\ pc[r]["T"] # "start" => key[r] \in [{1, 2} -> Key]
  /\ pc[r]["T"] \in {"start", "fork1"} => pc[r]["P1"] = "unborn"
  /\ pc[r]["T"] \in {"start", "fork1", "fork2"} => pc[r]["P2"] = "unborn"
  /\ pc[r]["T"] \in {"start", "fork1", "fork2", "fork3"} => pc[r]["P3"] = "unborn"
  /\ pc[r]["P2"] \in {"unborn", "open", "await"} =>
       \A i \in Method : pc[r][i] = "unborn"
  /\ pc[r]["P2"] \in {"remove", "create", "publish", "post", "linger", "gone"} =>
       \A i \in Method : pc[r][i] = "done"
Started == \A r \in Request : StartedIn(r)

PointersIn(r) ==
  /\ pc[r]["P1"] \in {"fill", "post", "linger"} => at[r]["P1"] # None
  /\ pc[r]["P2"] \in {"await", "join", "remove"} => at[r]["P2in"] # None
  /\ pc[r]["P2"] \in {"publish", "post", "linger"} => at[r]["P2out"] # None
  /\ pc[r]["P3"] \in {"await", "send", "log", "write", "retire"} => at[r]["P3"] # None
  /\ \A i \in Method : pc[r][i] \in {"unlock", "solve", "copy"} => at[r][i] # None
Pointers == \A r \in Request : PointersIn(r)

\* The semaphore mutex is 0 exactly as long as one P3 writes the log.
LogHeld ==
  /\ logsem \in {0, 1}
  /\ \A r \in Request : pc[r]["P3"] = "write" => logsem = 0
  /\ LogExclusive

\* Segments found under a key of ftok(".") are first segments, those under a
\* key of ftok("..") second ones.
Kind(e) == IF e \in {"P2out", "P3"} THEN 2 ELSE 1
Kinds ==
  /\ \A n \in {1, 2}, k \in Key : table[n][k] \in (Request \X {n}) \cup {None}
  /\ \A r \in Request, e \in End : at[r][e] \in (Request \X {Kind(e)}) \cup {None}

\* The status that a P2 polls at its end is never taken down.
Raised ==
  \A r \in Request : pc[r]["P2"] = "linger" => status[at[r]["P2out"]] = -1

IInv == TypeOK /\ Started /\ Pointers /\ LogHeld /\ Kinds /\ Raised /\ SecondProcessStays

LEMMA InitIInv == Init => IInv
<1> SUFFICES ASSUME Init PROVE IInv
  OBVIOUS
<1> USE PipelineAssumption DEF Init
<1>1. TypeOK
  BY SMT DEF TypeOK, ControlOK, DirOK, CellsOK, WorkOK, EndsOK, Label, Content, Blank,
     Thread, Child, End
<1>2. Started /\ Pointers
  BY DEF Started, StartedIn, Pointers, PointersIn, Thread, Child, End
<1>3. LogHeld /\ Raised /\ SecondProcessStays
  BY DEF LogHeld, LogExclusive, Raised, SecondProcessStays, Thread, Child
<1>4. Kinds
  BY DEF Kinds, Kind, End
<1> QED
  BY <1>1, <1>2, <1>3, <1>4 DEF IInv

LEMMA Names ==
  /\ {"T", "P1", "P2", "P3"} \cup Method \subseteq Thread
  /\ {"P1", "P2in", "P2out", "P3"} \cup Method \subseteq End
  /\ \A i \in Method : i \notin {"T", "P1", "P2", "P2in", "P2out", "P3"}
  /\ "T" \notin End
  BY PipelineAssumption DEF Thread, Child, End

(* What each kind of statement does to the shape of the variables.         *)

LEMMA GotoControl ==
  ASSUME ControlOK, NEW r \in Request, NEW p \in Thread, NEW from,
         NEW to \in Label, Goto(r, p, from, to), key' = key
  PROVE  ControlOK'
  BY DEF ControlOK, Goto

LEMMA AttachDir ==
  ASSUME DirOK, NEW r \in Request, NEW n \in {1, 2}, NEW e \in End,
         key[r] \in [{1, 2} -> Key], Attach(r, n, e) \/ Create(r, n, e)
  PROVE  /\ DirOK'
         /\ cells' = cells
         /\ at'[r][e] # None
         /\ \A q \in Request, d \in End : q # r \/ d # e => at'[q][d] = at[q][d]
<1>1. Lookup(r, n) \in Seg \cup {None}
  BY DEF DirOK, Lookup, Directory
<1>2. <<r, n>> \in Seg /\ <<r, n>> # None
  BY PipelineAssumption DEF Seg
<1>3. CASE Attach(r, n, e)
  BY <1>1, <1>3 DEF DirOK, Attach, cells
<1>4. CASE Create(r, n, e)
  BY <1>2, <1>4 DEF DirOK, Create, Directory, cells
<1> QED
  BY <1>3, <1>4

LEMMA RemoveTable ==
  ASSUME DirOK, NEW s, Remove(s)
  PROVE  /\ table' \in [{1, 2} -> [Key -> Seg \cup {None}]]
         /\ \A n \in {1, 2}, k \in Key : table'[n][k] \in {table[n][k], None}
  BY DEF DirOK, Remove

LEMMA DetachAt ==
  ASSUME DirOK, NEW r \in Request, NEW p, Detach(r, p)
  PROVE  /\ at' \in [Request -> [End -> Seg \cup {None}]]
         /\ \A q \in Request, e \in End :
              at'[q][e] = IF q = r /\ e \in Ends(p) THEN None ELSE at[q][e]
  BY DEF DirOK, Detach

LEMMA AttachKinds ==
  ASSUME DirOK, Kinds, NEW r \in Request, NEW n \in {1, 2}, NEW e \in End,
         key[r] \in [{1, 2} -> Key], Kind(e) = n,
         Attach(r, n, e) \/ Create(r, n, e)
  PROVE  Kinds'
<1>1. Lookup(r, n) \in (Request \X {n}) \cup {None}
  BY DEF Kinds, Lookup, Directory
<1>2. CASE Attach(r, n, e)
  BY <1>1, <1>2 DEF Kinds, DirOK, Attach
<1>3. CASE Create(r, n, e)
  BY <1>3 DEF Kinds, DirOK, Create, Directory
<1> QED
  BY <1>2, <1>3

LEMMA FillContent ==
  ASSUME NEW c \in Content, NEW r \in Request
  PROVE  [c EXCEPT !.mat = r] \in Content
  BY DEF Content

LEMMA CopiedContent ==
  ASSUME NEW c \in Content
  PROVE  Copied(c) \in Content
<1>1. c.mat \in Request \cup {None} /\ c.rows \in Nat
  BY DEF Content
<1>2. (IF c.mat = None THEN 0 ELSE Rows[c.mat]) \in Nat
  BY <1>1, PipelineAssumption
<1> QED
  BY <1>1, <1>2 DEF Copied, Content

LEMMA GotoPc ==
  ASSUME ControlOK, NEW r \in Request, NEW p \in Thread, NEW from, NEW to,
         Goto(r, p, from, to)
  PROVE  /\ pc[r][p] = from
         /\ \A q \in Request, t \in Thread :
              pc'[q][t] = IF q = r /\ t = p THEN to ELSE pc[q][t]
  BY DEF ControlOK, Goto

-----------------------------------------------------------------------------
(* One lemma per action. Each first says what the action does to every     *)
(* program counter and pointer, then takes the parts of IInv in turn.      *)

LEMMA StepDrawKeys ==
  ASSUME IInv, NEW r \in Request, DrawKeys(r)
  PROVE  IInv'
<1> USE DEF IInv, TypeOK
<1>1. ControlOK'
  BY Names DEF ControlOK, Goto, DrawKeys, Label
<1>2. /\ pc[r]["T"] = "start"
     /\ \A q \in Request, t \in Thread :
          pc'[q][t] = IF q = r /\ t = "T" THEN "fork1" ELSE pc[q][t]
  BY GotoPc, Names DEF DrawKeys
<1>3. UNCHANGED dir
  BY DEF DrawKeys
<1>4. DirOK' /\ Kinds'
  BY <1>3 DEF DirOK, Kinds, dir
<1>5. CellsOK' /\ WorkOK' /\ EndsOK'
  BY DEF DrawKeys, CellsOK, WorkOK, EndsOK, cells, work, ends
<1>6. ASSUME NEW q \in Request PROVE StartedIn(q)'
  BY <1>2, Names DEF Started, StartedIn, DrawKeys, ControlOK
<1>7. ASSUME NEW q \in Request PROVE PointersIn(q)'
  BY <1>2, <1>3, Names DEF Pointers, PointersIn, dir
<1>8. LogHeld'
  BY <1>2, Names DEF LogHeld, LogExclusive, DrawKeys, ends
<1>9. Raised' /\ SecondProcessStays'
  BY <1>2, <1>3, Names DEF Raised, SecondProcessStays, dir, DrawKeys, cells
<1> QED
  BY <1>1, <1>4, <1>5, <1>6, <1>7, <1>8, <1>9 DEF Started, Pointers

LEMMA StepForkP1 ==
  ASSUME IInv, NEW r \in Request, ForkP1(r)
  PROVE  IInv'
<1> USE DEF IInv, TypeOK
<1>1. ControlOK'
  BY Names DEF ControlOK, ForkP1, Fork, Label
<1>2. /\ pc[r]["T"] = "fork1"
     /\ \A q \in Request, t \in Thread :
          pc'[q][t] = IF q = r /\ t = "T" THEN "fork2"
                      ELSE IF q = r /\ t = "P1" THEN "create" ELSE pc[q][t]
  BY Names DEF ForkP1, Fork, ControlOK
<1>3. UNCHANGED dir
  BY DEF ForkP1, Fork
<1>4. DirOK' /\ Kinds'
  BY <1>3 DEF DirOK, Kinds, dir
<1>5. CellsOK' /\ WorkOK' /\ EndsOK'
  BY DEF ForkP1, Fork, CellsOK, WorkOK, EndsOK, cells, work, ends
<1>6. UNCHANGED <<key, logsem, status>>
  BY DEF ForkP1, Fork, cells, ends
<1>7. ASSUME NEW q \in Request PROVE StartedIn(q)'
  BY <1>2, <1>6, Names DEF Started, StartedIn
<1>8. ASSUME NEW q \in Request PROVE PointersIn(q)'
  BY <1>2, <1>3, Names DEF Pointers, PointersIn, dir
<1>9. LogHeld'
  BY <1>2, <1>6, Names DEF LogHeld, LogExclusive
<1>10. Raised' /\ SecondProcessStays'
  BY <1>2, <1>3, <1>6, Names DEF Raised, SecondProcessStays, dir
<1> QED
  BY <1>1, <1>4, <1>5, <1>7, <1>8, <1>9, <1>10 DEF Started, Pointers

LEMMA StepForkP2 ==
  ASSUME IInv, NEW r \in Request, ForkP2(r)
  PROVE  IInv'
<1> USE DEF IInv, TypeOK
<1>1. ControlOK'
  BY Names DEF ControlOK, ForkP2, Fork, Label
<1>2. /\ pc[r]["T"] = "fork2"
     /\ \A q \in Request, t \in Thread :
          pc'[q][t] = IF q = r /\ t = "T" THEN "fork3"
                      ELSE IF q = r /\ t = "P2" THEN "open" ELSE pc[q][t]
  BY Names DEF ForkP2, Fork, ControlOK
<1>3. UNCHANGED dir
  BY DEF ForkP2, Fork
<1>4. DirOK' /\ Kinds'
  BY <1>3 DEF DirOK, Kinds, dir
<1>5. CellsOK' /\ WorkOK' /\ EndsOK'
  BY DEF ForkP2, Fork, CellsOK, WorkOK, EndsOK, cells, work, ends
<1>6. UNCHANGED <<key, logsem, status>>
  BY DEF ForkP2, Fork, cells, ends
<1>7. ASSUME NEW q \in Request PROVE StartedIn(q)'
  BY <1>2, <1>6, Names DEF Started, StartedIn
<1>8. ASSUME NEW q \in Request PROVE PointersIn(q)'
  BY <1>2, <1>3, Names DEF Pointers, PointersIn, dir
<1>9. LogHeld'
  BY <1>2, <1>6, Names DEF LogHeld, LogExclusive
<1>10. Raised' /\ SecondProcessStays'
  BY <1>2, <1>3, <1>6, Names DEF Raised, SecondProcessStays, dir
<1> QED
  BY <1>1, <1>4, <1>5, <1>7, <1>8, <1>9, <1>10 DEF Started, Pointers

LEMMA StepForkP3 ==
  ASSUME IInv, NEW r \in Request, ForkP3(r)
  PROVE  IInv'
<1> USE DEF IInv, TypeOK
<1>1. ControlOK'
  BY Names DEF ControlOK, ForkP3, Fork, Label
<1>2. /\ pc[r]["T"] = "fork3"
     /\ \A q \in Request, t \in Thread :
          pc'[q][t] = IF q = r /\ t = "T" THEN "linger"
                      ELSE IF q = r /\ t = "P3" THEN "open" ELSE pc[q][t]
  BY Names DEF ForkP3, Fork, ControlOK
<1>3. UNCHANGED dir
  BY DEF ForkP3, Fork
<1>4. DirOK' /\ Kinds'
  BY <1>3 DEF DirOK, Kinds, dir
<1>5. CellsOK' /\ WorkOK' /\ EndsOK'
  BY DEF ForkP3, Fork, CellsOK, WorkOK, EndsOK, cells, work, ends
<1>6. UNCHANGED <<key, logsem, status>>
  BY DEF ForkP3, Fork, cells, ends
<1>7. ASSUME NEW q \in Request PROVE StartedIn(q)'
  BY <1>2, <1>6, Names DEF Started, StartedIn
<1>8. ASSUME NEW q \in Request PROVE PointersIn(q)'
  BY <1>2, <1>3, Names DEF Pointers, PointersIn, dir
<1>9. LogHeld'
  BY <1>2, <1>6, Names DEF LogHeld, LogExclusive
<1>10. Raised' /\ SecondProcessStays'
  BY <1>2, <1>3, <1>6, Names DEF Raised, SecondProcessStays, dir
<1> QED
  BY <1>1, <1>4, <1>5, <1>7, <1>8, <1>9, <1>10 DEF Started, Pointers

LEMMA StepP1Open ==
  ASSUME IInv, NEW r \in Request, P1Open(r)
  PROVE  IInv'
<1> USE DEF IInv, TypeOK
<1>1. ControlOK'
  BY GotoControl, Names DEF P1Open, Label
<1>2. /\ pc[r]["P1"] = "create"
     /\ \A q \in Request, t \in Thread :
          pc'[q][t] = IF q = r /\ t = "P1" THEN "fill" ELSE pc[q][t]
  BY GotoPc, Names DEF P1Open
<1>3. key[r] \in [{1, 2} -> Key]
  BY <1>2, Names DEF Started, StartedIn
<1>4. DirOK' /\ Kinds'
  BY <1>3, AttachDir, AttachKinds, Names DEF P1Open, Kind
<1>5. /\ at'[r]["P1"] # None
     /\ \A q \in Request, d \in End : q # r \/ d # "P1" => at'[q][d] = at[q][d]
  BY <1>3, AttachDir, Names DEF P1Open
<1>6. UNCHANGED <<key, cells>>
  BY <1>3, AttachDir, Names DEF P1Open
<1>7. CellsOK' /\ WorkOK' /\ EndsOK'
  BY <1>6 DEF P1Open, CellsOK, WorkOK, EndsOK, cells, work, ends
<1>8. UNCHANGED <<key, status, logsem>>
  BY <1>6 DEF P1Open, cells, ends
<1>9. ASSUME NEW q \in Request PROVE StartedIn(q)'
  BY <1>2, <1>8, Names DEF Started, StartedIn
<1>10. ASSUME NEW q \in Request PROVE PointersIn(q)'
  BY <1>2, <1>5, Names DEF Pointers, PointersIn
<1>11. LogHeld'
  BY <1>2, <1>8, Names DEF LogHeld, LogExclusive
<1>12. Raised' /\ SecondProcessStays'
  BY <1>2, <1>5, <1>8, Names DEF Raised, SecondProcessStays, dir
<1> QED
  BY <1>1, <1>4, <1>7, <1>9, <1>10, <1>11, <1>12 DEF Started, Pointers

LEMMA StepP1NoRoom ==
  ASSUME IInv, NEW r \in Request, P1NoRoom(r)
  PROVE  IInv'
<1> USE DEF IInv, TypeOK
<1>1. ControlOK'
  BY GotoControl, Names DEF P1NoRoom, Label
<1>2. /\ pc[r]["P1"] = "create"
     /\ \A q \in Request, t \in Thread :
          pc'[q][t] = IF q = r /\ t = "P1" THEN "gone" ELSE pc[q][t]
  BY GotoPc, Names DEF P1NoRoom
<1>3. UNCHANGED dir
  BY DEF P1NoRoom
<1>4. DirOK' /\ Kinds'
  BY <1>3 DEF DirOK, Kinds, dir
<1>5. CellsOK' /\ WorkOK' /\ EndsOK'
  BY DEF P1NoRoom, CellsOK, WorkOK, EndsOK, cells, work, ends
<1>6. UNCHANGED <<key, logsem, status>>
  BY DEF P1NoRoom, cells, ends
<1>7. ASSUME NEW q \in Request PROVE StartedIn(q)'
  BY <1>2, <1>6, Names DEF Started, StartedIn
<1>8. ASSUME NEW q \in Request PROVE PointersIn(q)'
  BY <1>2, <1>3, Names DEF Pointers, PointersIn, dir
<1>9. LogHeld'
  BY <1>2, <1>6, Names DEF LogHeld, LogExclusive
<1>10. Raised' /\ SecondProcessStays'
  BY <1>2, <1>3, <1>6, Names DEF Raised, SecondProcessStays, dir
<1> QED
  BY <1>1, <1>4, <1>5, <1>7, <1>8, <1>9, <1>10 DEF Started, Pointers

LEMMA StepP1Fill ==
  ASSUME IInv, NEW r \in Request, P1Fill(r)
  PROVE  IInv'
<1> USE DEF IInv, TypeOK
<1>1. ControlOK'
  BY GotoControl, Names DEF P1Fill, Label
<1>2. /\ pc[r]["P1"] = "fill"
     /\ \A q \in Request, t \in Thread :
          pc'[q][t] = IF q = r /\ t = "P1" THEN "post" ELSE pc[q][t]
  BY GotoPc, Names DEF P1Fill
<1>3. UNCHANGED dir
  BY DEF P1Fill
<1>4. DirOK' /\ Kinds'
  BY <1>3 DEF DirOK, Kinds, dir
<1>5. at[r]["P1"] \in Seg
  BY <1>2, Names DEF DirOK, Pointers, PointersIn
<1>a. [content[at[r]["P1"]] EXCEPT !.mat = r] \in Content
  BY <1>5, FillContent DEF CellsOK
<1>b. CellsOK'
  BY <1>a, <1>5, SMT DEF CellsOK, P1Fill
<1>6. WorkOK' /\ EndsOK'
  BY DEF P1Fill, WorkOK, EndsOK, work, ends
<1>7. UNCHANGED <<key, logsem, status>>
  BY DEF P1Fill, cells, ends
<1>8. ASSUME NEW q \in Request PROVE StartedIn(q)'
  BY <1>2, <1>7, Names DEF Started, StartedIn
<1>9. ASSUME NEW q \in Request PROVE PointersIn(q)'
  BY <1>2, <1>3, Names DEF Pointers, PointersIn, dir
<1>10. LogHeld'
  BY <1>2, <1>7, Names DEF LogHeld, LogExclusive
<1>11. Raised' /\ SecondProcessStays'
  BY <1>2, <1>3, <1>7, <1>5, Names DEF Raised, SecondProcessStays, dir
<1> QED
  BY <1>1, <1>4, <1>b, <1>6, <1>8, <1>9, <1>10, <1>11 DEF Started, Pointers

LEMMA StepPostP1 ==
  ASSUME IInv, NEW r \in Request, Post(r, "P1", "P1")
  PROVE  IInv'
<1> USE DEF IInv, TypeOK
<1>1. ControlOK'
  BY GotoControl, Names DEF Post, Label
<1>2. /\ pc[r]["P1"] = "post"
     /\ \A q \in Request, t \in Thread :
          pc'[q][t] = IF q = r /\ t = "P1" THEN "linger" ELSE pc[q][t]
  BY GotoPc, Names DEF Post
<1>3. UNCHANGED dir
  BY DEF Post
<1>4. DirOK' /\ Kinds'
  BY <1>3 DEF DirOK, Kinds, dir
<1>5. at[r]["P1"] \in Seg
  BY <1>2, Names DEF DirOK, Pointers, PointersIn
<1>6. CellsOK'
  BY <1>5, <1>2 DEF Post, CellsOK, Posted
<1>7. WorkOK' /\ EndsOK'
  BY DEF Post, WorkOK, EndsOK, work, ends
<1>8. UNCHANGED <<key, logsem>>
  BY DEF Post, cells, ends
<1>9. ASSUME NEW q \in Request PROVE StartedIn(q)'
  BY <1>2, <1>8, Names DEF Started, StartedIn
<1>10. ASSUME NEW q \in Request PROVE PointersIn(q)'
  BY <1>2, <1>3, Names DEF Pointers, PointersIn, dir
<1>11. LogHeld'
  BY <1>2, <1>8, Names DEF LogHeld, LogExclusive
<1>12. \A s \in Seg : status'[s] = IF s = at[r]["P1"] THEN -1 ELSE status[s]
  BY <1>5 DEF Post, CellsOK, Posted
<1>13. \A q \in Request :
       /\ pc[q]["P2"] \in {"post", "linger"} => at[q]["P2out"] \in Request \X {2}
       /\ at[q]["P2in"] \in (Request \X {1}) \cup {None}
  BY Names DEF Kinds, Kind, Pointers, PointersIn
<1>14. Raised' /\ SecondProcessStays'
  BY <1>2, <1>3, <1>5, <1>12, <1>13, Names DEF Raised, SecondProcessStays, dir, Seg
<1> QED
  BY <1>1, <1>4, <1>6, <1>7, <1>9, <1>10, <1>11, <1>14 DEF Started, Pointers

LEMMA StepP2Open ==
  ASSUME IInv, NEW r \in Request, P2Open(r)
  PROVE  IInv'
<1> USE DEF IInv, TypeOK
<1>1. ControlOK'
  BY GotoControl, Names DEF P2Open, Label
<1>2. /\ pc[r]["P2"] = "open"
     /\ \A q \in Request, t \in Thread :
          pc'[q][t] = IF q = r /\ t = "P2" THEN "await" ELSE pc[q][t]
  BY GotoPc, Names DEF P2Open
<1>3. key[r] \in [{1, 2} -> Key]
  BY <1>2, Names DEF Started, StartedIn
<1>4. DirOK' /\ Kinds'
  BY <1>3, AttachDir, AttachKinds, Names DEF P2Open, Kind
<1>5. /\ at'[r]["P2in"] # None
     /\ \A q \in Request, d \in End : q # r \/ d # "P2in" => at'[q][d] = at[q][d]
  BY <1>3, AttachDir, Names DEF P2Open
<1>6. UNCHANGED <<key, cells>>
  BY <1>3, AttachDir, Names DEF P2Open
<1>7. CellsOK' /\ WorkOK' /\ EndsOK'
  BY <1>6 DEF P2Open, CellsOK, WorkOK, EndsOK, cells, work, ends
<1>8. UNCHANGED <<key, status, logsem>>
  BY <1>6 DEF P2Open, cells, ends
<1>9. ASSUME NEW q \in Request PROVE StartedIn(q)'
  BY <1>2, <1>8, Names DEF Started, StartedIn
<1>10. ASSUME NEW q \in Request PROVE PointersIn(q)'
  BY <1>2, <1>5, Names DEF Pointers, PointersIn
<1>11. LogHeld'
  BY <1>2, <1>8, Names DEF LogHeld, LogExclusive
<1>12. Raised' /\ SecondProcessStays'
  BY <1>2, <1>5, <1>8, Names DEF Raised, SecondProcessStays, dir
<1> QED
  BY <1>1, <1>4, <1>7, <1>9, <1>10, <1>11, <1>12 DEF Started, Pointers

LEMMA StepP2Start ==
  ASSUME IInv, NEW r \in Request, P2Start(r)
  PROVE  IInv'
<1> USE DEF IInv, TypeOK
<1>1. ControlOK'
  BY Names DEF ControlOK, P2Start, Label
<1>2. /\ pc[r]["P2"] = "await"
     /\ \A q \in Request, t \in Thread :
          pc'[q][t] = IF q = r /\ t \in Method THEN "lock"
                      ELSE IF q = r /\ t = "P2" THEN "join" ELSE pc[q][t]
  BY Names DEF P2Start, ControlOK
<1>3. UNCHANGED dir
  BY DEF P2Start
<1>4. DirOK' /\ Kinds'
  BY <1>3 DEF DirOK, Kinds, dir
<1>5. CellsOK' /\ WorkOK' /\ EndsOK'
  BY DEF P2Start, CellsOK, WorkOK, EndsOK, cells, work, ends
<1>6. UNCHANGED <<key, logsem, status>>
  BY DEF P2Start, cells, ends
<1>7. ASSUME NEW q \in Request PROVE StartedIn(q)'
  BY <1>2, <1>6, Names DEF Started, StartedIn
<1>8. ASSUME NEW q \in Request PROVE PointersIn(q)'
  BY <1>2, <1>3, Names DEF Pointers, PointersIn, StartedIn, Started, dir
<1>9. LogHeld'
  BY <1>2, <1>6, Names DEF LogHeld, LogExclusive
<1>10. Raised' /\ SecondProcessStays'
  BY <1>2, <1>3, <1>6, Names DEF Raised, SecondProcessStays, dir
<1> QED
  BY <1>1, <1>4, <1>5, <1>7, <1>8, <1>9, <1>10 DEF Started, Pointers

LEMMA StepP2Release ==
  ASSUME IInv, NEW r \in Request, P2Release(r)
  PROVE  IInv'
<1> USE DEF IInv, TypeOK
<1>1. ControlOK'
  BY GotoControl, Names DEF P2Release, Label
<1>2. /\ pc[r]["P2"] = "join"
     /\ \A q \in Request, t \in Thread :
          pc'[q][t] = IF q = r /\ t = "P2" THEN "remove" ELSE pc[q][t]
  BY GotoPc, Names DEF P2Release
<1>3. UNCHANGED dir
  BY DEF P2Release
<1>4. DirOK' /\ Kinds'
  BY <1>3 DEF DirOK, Kinds, dir
<1>5. at[r]["P2in"] \in Seg
  BY <1>2, Names DEF DirOK, Pointers, PointersIn
<1>6. CellsOK'
  BY <1>5, <1>2 DEF P2Release, CellsOK
<1>7. WorkOK' /\ EndsOK'
  BY DEF P2Release, WorkOK, EndsOK, work, ends
<1>8. UNCHANGED <<key, logsem>>
  BY DEF P2Release, cells, ends
<1>9. ASSUME NEW q \in Request PROVE StartedIn(q)'
  BY <1>2, <1>8, Names DEF Started, StartedIn, P2Release, Joined
<1>10. ASSUME NEW q \in Request PROVE PointersIn(q)'
  BY <1>2, <1>3, Names DEF Pointers, PointersIn, dir
<1>11. LogHeld'
  BY <1>2, <1>8, Names DEF LogHeld, LogExclusive
<1>12. \A s \in Seg : status'[s] = IF s = at[r]["P2in"] THEN 0 ELSE status[s]
  BY <1>5 DEF P2Release, CellsOK
<1>13. \A q \in Request :
       /\ pc[q]["P2"] \in {"post", "linger"} => at[q]["P2out"] \in Request \X {2}
       /\ at[q]["P2in"] \in (Request \X {1}) \cup {None}
  BY Names DEF Kinds, Kind, Pointers, PointersIn
<1>14. \A q \in Request : pc[q]["P2"] = "linger" => at[q]["P2out"] # at[r]["P2in"]
  BY <1>5, <1>13, PipelineAssumption DEF Seg
<1>15. Raised' /\ SecondProcessStays'
  BY <1>2, <1>3, <1>5, <1>12, <1>13, <1>14, Names DEF Raised, SecondProcessStays, dir, Seg
<1> QED
  BY <1>1, <1>4, <1>6, <1>7, <1>9, <1>10, <1>11, <1>15 DEF Started, Pointers

LEMMA StepP2Remove ==
  ASSUME IInv, NEW r \in Request, P2Remove(r)
  PROVE  IInv'
<1> USE DEF IInv, TypeOK
<1>1. ControlOK'
  BY GotoControl, Names DEF P2Remove, Label
<1>2. /\ pc[r]["P2"] = "remove"
     /\ \A q \in Request, t \in Thread :
          pc'[q][t] = IF q = r /\ t = "P2" THEN "create" ELSE pc[q][t]
  BY GotoPc, Names DEF P2Remove
<1>3. DirOK' /\ Kinds'
  BY RemoveTable DEF P2Remove, DirOK, Kinds
<1>4. at' = at
  BY DEF P2Remove
<1>5. UNCHANGED <<key, cells>>
  BY DEF P2Remove
<1>6. CellsOK' /\ WorkOK' /\ EndsOK'
  BY <1>5 DEF P2Remove, CellsOK, WorkOK, EndsOK, cells, work, ends
<1>7. UNCHANGED <<key, status, logsem>>
  BY <1>5 DEF P2Remove, cells, ends
<1>8. ASSUME NEW q \in Request PROVE StartedIn(q)'
  BY <1>2, <1>7, Names DEF Started, StartedIn
<1>9. ASSUME NEW q \in Request PROVE PointersIn(q)'
  BY <1>2, <1>4, Names DEF Pointers, PointersIn, dir
<1>10. LogHeld'
  BY <1>2, <1>7, Names DEF LogHeld, LogExclusive
<1>11. Raised' /\ SecondProcessStays'
  BY <1>2, <1>4, <1>7, Names DEF Raised, SecondProcessStays, dir
<1> QED
  BY <1>1, <1>3, <1>6, <1>8, <1>9, <1>10, <1>11 DEF Started, Pointers

LEMMA StepP2Create ==
  ASSUME IInv, NEW r \in Request, P2Create(r)
  PROVE  IInv'
<1> USE DEF IInv, TypeOK
<1>1. ControlOK'
  BY GotoControl, Names DEF P2Create, Label
<1>2. /\ pc[r]["P2"] = "create"
     /\ \A q \in Request, t \in Thread :
          pc'[q][t] = IF q = r /\ t = "P2" THEN "publish" ELSE pc[q][t]
  BY GotoPc, Names DEF P2Create
<1>3. key[r] \in [{1, 2} -> Key]
  BY <1>2, Names DEF Started, StartedIn
<1>4. DirOK' /\ Kinds'
  BY <1>3, AttachDir, AttachKinds, Names DEF P2Create, Kind
<1>5. /\ at'[r]["P2out"] # None
     /\ \A q \in Request, d \in End : q # r \/ d # "P2out" => at'[q][d] = at[q][d]
  BY <1>3, AttachDir, Names DEF P2Create
<1>6. UNCHANGED <<key, cells>>
  BY <1>3, AttachDir, Names DEF P2Create
<1>7. CellsOK' /\ WorkOK' /\ EndsOK'
  BY <1>6 DEF P2Create, CellsOK, WorkOK, EndsOK, cells, work, ends
<1>8. UNCHANGED <<key, status, logsem>>
  BY <1>6 DEF P2Create, cells, ends
<1>9. ASSUME NEW q \in Request PROVE StartedIn(q)'
  BY <1>2, <1>8, Names DEF Started, StartedIn
<1>10. ASSUME NEW q \in Request PROVE PointersIn(q)'
  BY <1>2, <1>5, Names DEF Pointers, PointersIn
<1>11. LogHeld'
  BY <1>2, <1>8, Names DEF LogHeld, LogExclusive
<1>12. Raised' /\ SecondProcessStays'
  BY <1>2, <1>5, <1>8, Names DEF Raised, SecondProcessStays, dir
<1> QED
  BY <1>1, <1>4, <1>7, <1>9, <1>10, <1>11, <1>12 DEF Started, Pointers

LEMMA StepP2Publish ==
  ASSUME IInv, NEW r \in Request, P2Publish(r)
  PROVE  IInv'
<1> USE DEF IInv, TypeOK
<1>1. ControlOK'
  BY GotoControl, Names DEF P2Publish, Label
<1>2. /\ pc[r]["P2"] = "publish"
     /\ \A q \in Request, t \in Thread :
          pc'[q][t] = IF q = r /\ t = "P2" THEN "post" ELSE pc[q][t]
  BY GotoPc, Names DEF P2Publish
<1>3. UNCHANGED dir
  BY DEF P2Publish
<1>4. DirOK' /\ Kinds'
  BY <1>3 DEF DirOK, Kinds, dir
<1>5. at[r]["P2out"] \in Seg
  BY <1>2, Names DEF DirOK, Pointers, PointersIn
<1>a. Copied(mine[r]) \in Content
  BY CopiedContent DEF WorkOK
<1>b. CellsOK'
  BY <1>a, <1>5, SMT DEF CellsOK, P2Publish
<1>6. WorkOK' /\ EndsOK'
  BY DEF P2Publish, WorkOK, EndsOK, work, ends
<1>7. UNCHANGED <<key, logsem, status>>
  BY DEF P2Publish, cells, ends
<1>8. ASSUME NEW q \in Request PROVE StartedIn(q)'
  BY <1>2, <1>7, Names DEF Started, StartedIn
<1>9. ASSUME NEW q \in Request PROVE PointersIn(q)'
  BY <1>2, <1>3, Names DEF Pointers, PointersIn, dir
<1>10. LogHeld'
  BY <1>2, <1>7, Names DEF LogHeld, LogExclusive
<1>11. Raised' /\ SecondProcessStays'
  BY <1>2, <1>3, <1>7, <1>5, Names DEF Raised, SecondProcessStays, dir
<1> QED
  BY <1>1, <1>4, <1>b, <1>6, <1>8, <1>9, <1>10, <1>11 DEF Started, Pointers

LEMMA StepPostP2 ==
  ASSUME IInv, NEW r \in Request, Post(r, "P2", "P2out")
  PROVE  IInv'
<1> USE DEF IInv, TypeOK
<1>1. ControlOK'
  BY GotoControl, Names DEF Post, Label
<1>2. /\ pc[r]["P2"] = "post"
     /\ \A q \in Request, t \in Thread :
          pc'[q][t] = IF q = r /\ t = "P2" THEN "linger" ELSE pc[q][t]
  BY GotoPc, Names DEF Post
<1>3. UNCHANGED dir
  BY DEF Post
<1>4. DirOK' /\ Kinds'
  BY <1>3 DEF DirOK, Kinds, dir
<1>5. at[r]["P2out"] \in Seg
  BY <1>2, Names DEF DirOK, Pointers, PointersIn
<1>6. CellsOK'
  BY <1>5, <1>2 DEF Post, CellsOK, Posted
<1>7. WorkOK' /\ EndsOK'
  BY DEF Post, WorkOK, EndsOK, work, ends
<1>8. UNCHANGED <<key, logsem>>
  BY DEF Post, cells, ends
<1>9. ASSUME NEW q \in Request PROVE StartedIn(q)'
  BY <1>2, <1>8, Names DEF Started, StartedIn
<1>10. ASSUME NEW q \in Request PROVE PointersIn(q)'
  BY <1>2, <1>3, Names DEF Pointers, PointersIn, dir
<1>11. LogHeld'
  BY <1>2, <1>8, Names DEF LogHeld, LogExclusive
<1>12. \A s \in Seg : status'[s] = IF s = at[r]["P2out"] THEN -1 ELSE status[s]
  BY <1>5 DEF Post, CellsOK, Posted
<1>13. \A q \in Request :
       /\ pc[q]["P2"] \in {"post", "linger"} => at[q]["P2out"] \in Request \X {2}
       /\ at[q]["P2in"] \in (Request \X {1}) \cup {None}
  BY Names DEF Kinds, Kind, Pointers, PointersIn
<1>14. Raised' /\ SecondProcessStays'
  BY <1>2, <1>3, <1>5, <1>12, <1>13, Names DEF Raised, SecondProcessStays, dir, Seg
<1> QED
  BY <1>1, <1>4, <1>6, <1>7, <1>9, <1>10, <1>11, <1>14 DEF Started, Pointers

LEMMA StepP3Open ==
  ASSUME IInv, NEW r \in Request, P3Open(r)
  PROVE  IInv'
<1> USE DEF IInv, TypeOK
<1>1. ControlOK'
  BY GotoControl, Names DEF P3Open, Label
<1>2. /\ pc[r]["P3"] = "open"
     /\ \A q \in Request, t \in Thread :
          pc'[q][t] = IF q = r /\ t = "P3" THEN "await" ELSE pc[q][t]
  BY GotoPc, Names DEF P3Open
<1>3. key[r] \in [{1, 2} -> Key]
  BY <1>2, Names DEF Started, StartedIn
<1>4. DirOK' /\ Kinds'
  BY <1>3, AttachDir, AttachKinds, Names DEF P3Open, Kind
<1>5. /\ at'[r]["P3"] # None
     /\ \A q \in Request, d \in End : q # r \/ d # "P3" => at'[q][d] = at[q][d]
  BY <1>3, AttachDir, Names DEF P3Open
<1>6. UNCHANGED <<key, cells>>
  BY <1>3, AttachDir, Names DEF P3Open
<1>7. CellsOK' /\ WorkOK' /\ EndsOK'
  BY <1>6 DEF P3Open, CellsOK, WorkOK, EndsOK, cells, work, ends
<1>8. UNCHANGED <<key, status, logsem>>
  BY <1>6 DEF P3Open, cells, ends
<1>9. ASSUME NEW q \in Request PROVE StartedIn(q)'
  BY <1>2, <1>8, Names DEF Started, StartedIn
<1>10. ASSUME NEW q \in Request PROVE PointersIn(q)'
  BY <1>2, <1>5, Names DEF Pointers, PointersIn
<1>11. LogHeld'
  BY <1>2, <1>8, Names DEF LogHeld, LogExclusive
<1>12. Raised' /\ SecondProcessStays'
  BY <1>2, <1>5, <1>8, Names DEF Raised, SecondProcessStays, dir
<1> QED
  BY <1>1, <1>4, <1>7, <1>9, <1>10, <1>11, <1>12 DEF Started, Pointers

LEMMA StepP3Verify ==
  ASSUME IInv, NEW r \in Request, P3Verify(r)
  PROVE  IInv'
<1> USE DEF IInv, TypeOK
<1>1. ControlOK'
  BY GotoControl, Names DEF P3Verify, Label
<1>2. /\ pc[r]["P3"] = "await"
     /\ \A q \in Request, t \in Thread :
          pc'[q][t] = IF q = r /\ t = "P3" THEN "send" ELSE pc[q][t]
  BY GotoPc, Names DEF P3Verify
<1>3. UNCHANGED dir
  BY DEF P3Verify
<1>4. DirOK' /\ Kinds'
  BY <1>3 DEF DirOK, Kinds, dir
<1>5. at[r]["P3"] \in Seg
  BY <1>2, Names DEF DirOK, Pointers, PointersIn
<1>6. CellsOK'
  BY <1>5, <1>2 DEF P3Verify, CellsOK
<1>7. WorkOK' /\ EndsOK'
  BY DEF P3Verify, WorkOK, EndsOK, work, ends
<1>8. UNCHANGED <<key, logsem, status>>
  BY DEF P3Verify, cells, ends
<1>9. ASSUME NEW q \in Request PROVE StartedIn(q)'
  BY <1>2, <1>8, Names DEF Started, StartedIn
<1>10. ASSUME NEW q \in Request PROVE PointersIn(q)'
  BY <1>2, <1>3, Names DEF Pointers, PointersIn, dir
<1>11. LogHeld'
  BY <1>2, <1>8, Names DEF LogHeld, LogExclusive
<1>12. Raised' /\ SecondProcessStays'
  BY <1>2, <1>3, <1>8, <1>5, Names DEF Raised, SecondProcessStays, dir
<1> QED
  BY <1>1, <1>4, <1>6, <1>7, <1>9, <1>10, <1>11, <1>12 DEF Started, Pointers

LEMMA StepP3Send ==
  ASSUME IInv, NEW r \in Request, P3Send(r)
  PROVE  IInv'
<1> USE DEF IInv, TypeOK
<1>1. ControlOK'
  BY GotoControl, Names DEF P3Send, Label
<1>2. /\ pc[r]["P3"] = "send"
     /\ \A q \in Request, t \in Thread :
          pc'[q][t] = IF q = r /\ t = "P3" THEN "log" ELSE pc[q][t]
  BY GotoPc, Names DEF P3Send
<1>3. UNCHANGED dir
  BY DEF P3Send
<1>4. DirOK' /\ Kinds'
  BY <1>3 DEF DirOK, Kinds, dir
<1>5. at[r]["P3"] \in Seg
  BY <1>2, Names DEF DirOK, Pointers, PointersIn
<1>6. EndsOK'
  BY <1>5, <1>2 DEF P3Send, EndsOK, CellsOK, Report
<1>7. CellsOK' /\ WorkOK'
  BY DEF P3Send, CellsOK, WorkOK, cells, work
<1>8. UNCHANGED <<key, logsem, status>>
  BY DEF P3Send, cells, ends
<1>9. ASSUME NEW q \in Request PROVE StartedIn(q)'
  BY <1>2, <1>8, Names DEF Started, StartedIn
<1>10. ASSUME NEW q \in Request PROVE PointersIn(q)'
  BY <1>2, <1>3, Names DEF Pointers, PointersIn, dir
<1>11. LogHeld'
  BY <1>2, <1>8, Names DEF LogHeld, LogExclusive
<1>12. Raised' /\ SecondProcessStays'
  BY <1>2, <1>3, <1>8, <1>5, Names DEF Raised, SecondProcessStays, dir
<1> QED
  BY <1>1, <1>4, <1>6, <1>7, <1>9, <1>10, <1>11, <1>12 DEF Started, Pointers

LEMMA StepP3SendToNobody ==
  ASSUME IInv, NEW r \in Request, P3SendToNobody(r)
  PROVE  IInv'
<1> USE DEF IInv, TypeOK
<1>1. ControlOK'
  BY GotoControl, Names DEF P3SendToNobody, Label
<1>2. /\ pc[r]["P3"] = "send"
     /\ \E to \in {"log", "gone"} :
          /\ \A q \in Request, t \in Thread :
               pc'[q][t] = IF q = r /\ t = "P3" THEN to ELSE pc[q][t]
          /\ \A q \in Request, e \in End :
               at'[q][e] = IF q = r /\ e = "P3" /\ to = "gone" THEN None ELSE at[q][e]
  BY GotoPc, DetachAt, Names DEF P3SendToNobody, Ends
<1>3. DirOK'
  BY RemoveTable, DetachAt DEF P3SendToNobody, DirOK
<1>4. Kinds'
  BY <1>2 DEF P3SendToNobody, Kinds
<1>5. UNCHANGED <<key, cells>>
  BY DEF P3SendToNobody
<1>6. CellsOK' /\ WorkOK' /\ EndsOK'
  BY <1>5 DEF P3SendToNobody, CellsOK, WorkOK, EndsOK, cells, work, ends
<1>7. UNCHANGED <<key, status, logsem>>
  BY <1>5 DEF P3SendToNobody, cells, ends
<1>8. ASSUME NEW q \in Request PROVE StartedIn(q)'
  BY <1>2, <1>7, Names DEF Started, StartedIn
<1>9. ASSUME NEW q \in Request PROVE PointersIn(q)'
  BY <1>2, Names DEF Pointers, PointersIn, dir
<1>10. LogHeld'
  BY <1>2, <1>7, Names DEF LogHeld, LogExclusive
<1>11. Raised' /\ SecondProcessStays'
  BY <1>2, <1>7, Names DEF Raised, SecondProcessStays, dir
<1> QED
  BY <1>1, <1>3, <1>4, <1>6, <1>8, <1>9, <1>10, <1>11 DEF Started, Pointers

LEMMA StepP3LockLog ==
  ASSUME IInv, NEW r \in Request, P3LockLog(r)
  PROVE  IInv'
<1> USE DEF IInv, TypeOK
<1>1. ControlOK'
  BY GotoControl, Names DEF P3LockLog, Label
<1>2. /\ pc[r]["P3"] = "log"
     /\ \A q \in Request, t \in Thread :
          pc'[q][t] = IF q = r /\ t = "P3" THEN "write" ELSE pc[q][t]
  BY GotoPc, Names DEF P3LockLog
<1>3. UNCHANGED dir
  BY DEF P3LockLog
<1>4. DirOK' /\ Kinds'
  BY <1>3 DEF DirOK, Kinds, dir
<1>5. EndsOK'
  BY <1>2 DEF P3LockLog, EndsOK, LogFree
<1>6. CellsOK' /\ WorkOK'
  BY DEF P3LockLog, CellsOK, WorkOK, cells, work
<1>7. UNCHANGED <<key, status>>
  BY DEF P3LockLog, cells, ends
<1>8. ASSUME NEW q \in Request PROVE StartedIn(q)'
  BY <1>2, <1>7, Names DEF Started, StartedIn
<1>9. ASSUME NEW q \in Request PROVE PointersIn(q)'
  BY <1>2, <1>3, Names DEF Pointers, PointersIn, dir
<1>10. LogHeld'
  BY <1>2, Names DEF LogHeld, LogExclusive, P3LockLog, LogFree, LogPosted
<1>11. Raised' /\ SecondProcessStays'
  BY <1>2, <1>3, <1>7, Names DEF Raised, SecondProcessStays, dir
<1> QED
  BY <1>1, <1>4, <1>5, <1>6, <1>8, <1>9, <1>10, <1>11 DEF Started, Pointers

LEMMA StepP3WriteLog ==
  ASSUME IInv, NEW r \in Request, P3WriteLog(r)
  PROVE  IInv'
<1> USE DEF IInv, TypeOK
<1>1. ControlOK'
  BY GotoControl, Names DEF P3WriteLog, Label
<1>2. /\ pc[r]["P3"] = "write"
     /\ \A q \in Request, t \in Thread :
          pc'[q][t] = IF q = r /\ t = "P3" THEN "retire" ELSE pc[q][t]
  BY GotoPc, Names DEF P3WriteLog
<1>3. UNCHANGED dir
  BY DEF P3WriteLog
<1>4. DirOK' /\ Kinds'
  BY <1>3 DEF DirOK, Kinds, dir
<1>5. at[r]["P3"] \in Seg
  BY <1>2, Names DEF DirOK, Pointers, PointersIn
<1>6. EndsOK'
  BY <1>5, <1>2 DEF P3WriteLog, EndsOK, CellsOK, Report, LogPosted, LogHeld
<1>7. CellsOK' /\ WorkOK'
  BY DEF P3WriteLog, CellsOK, WorkOK, cells, work
<1>8. UNCHANGED <<key, status>>
  BY DEF P3WriteLog, cells, ends
<1>9. ASSUME NEW q \in Request PROVE StartedIn(q)'
  BY <1>2, <1>8, Names DEF Started, StartedIn
<1>10. ASSUME NEW q \in Request PROVE PointersIn(q)'
  BY <1>2, <1>3, Names DEF Pointers, PointersIn, dir
<1>11. LogHeld'
  BY <1>2, Names DEF LogHeld, LogExclusive, P3WriteLog, LogFree, LogPosted
<1>12. Raised' /\ SecondProcessStays'
  BY <1>2, <1>3, <1>8, <1>5, Names DEF Raised, SecondProcessStays, dir
<1> QED
  BY <1>1, <1>4, <1>6, <1>7, <1>9, <1>10, <1>11, <1>12 DEF Started, Pointers

LEMMA StepP3Retire ==
  ASSUME IInv, NEW r \in Request, P3Retire(r)
  PROVE  IInv'
<1> USE DEF IInv, TypeOK
<1>1. ControlOK'
  BY GotoControl, Names DEF P3Retire, Label
<1>2. /\ pc[r]["P3"] = "retire"
     /\ \A q \in Request, t \in Thread :
          pc'[q][t] = IF q = r /\ t = "P3" THEN "gone" ELSE pc[q][t]
  BY GotoPc, Names DEF P3Retire
<1>3. DirOK'
  BY RemoveTable, DetachAt DEF P3Retire, DirOK
<1>4. \A q \in Request, e \in End :
       at'[q][e] = IF q = r /\ e = "P3" THEN None ELSE at[q][e]
  BY Names, DetachAt DEF P3Retire, Ends
<1>5. Kinds'
  BY <1>4, RemoveTable DEF P3Retire, Kinds
<1>6. at[r]["P3"] \in Seg
  BY <1>2, Names DEF DirOK, Pointers, PointersIn
<1>7. CellsOK'
  BY <1>6, <1>2 DEF P3Retire, CellsOK, Retired
<1>8. WorkOK' /\ EndsOK'
  BY DEF P3Retire, WorkOK, EndsOK, work, ends
<1>9. UNCHANGED <<key, logsem>>
  BY DEF P3Retire, cells, ends
<1>10. ASSUME NEW q \in Request PROVE StartedIn(q)'
  BY <1>2, <1>9, Names DEF Started, StartedIn
<1>11. ASSUME NEW q \in Request PROVE PointersIn(q)'
  BY <1>2, <1>4, Names DEF Pointers, PointersIn, dir
<1>12. LogHeld'
  BY <1>2, <1>9, Names DEF LogHeld, LogExclusive
<1>13. \A s \in Seg : status'[s] = IF s = at[r]["P3"] THEN -1 ELSE status[s]
  BY <1>6 DEF P3Retire, CellsOK, Retired
<1>14. \A q \in Request :
       /\ pc[q]["P2"] \in {"post", "linger"} => at[q]["P2out"] \in Request \X {2}
       /\ at[q]["P2in"] \in (Request \X {1}) \cup {None}
  BY Names DEF Kinds, Kind, Pointers, PointersIn
<1>15. Raised' /\ SecondProcessStays'
  BY <1>2, <1>4, <1>6, <1>13, <1>14, Names DEF Raised, SecondProcessStays, dir, Seg
<1> QED
  BY <1>1, <1>3, <1>5, <1>7, <1>8, <1>10, <1>11, <1>12, <1>15 DEF Started, Pointers

LEMMA StepClientLeaves ==
  ASSUME IInv, NEW r \in Request, ClientLeaves(r)
  PROVE  IInv'
<1> USE DEF IInv, TypeOK
<1>1. ControlOK'
  BY DEF ControlOK, ClientLeaves
<1>2. pc' = pc
  BY DEF ClientLeaves
<1>3. UNCHANGED dir
  BY DEF ClientLeaves
<1>4. DirOK' /\ Kinds'
  BY <1>3 DEF DirOK, Kinds, dir
<1>5. EndsOK'
  BY <1>2 DEF ClientLeaves, EndsOK
<1>6. CellsOK' /\ WorkOK'
  BY DEF ClientLeaves, CellsOK, WorkOK, cells, work
<1>7. UNCHANGED <<key, logsem, status>>
  BY DEF ClientLeaves, cells, ends
<1>8. ASSUME NEW q \in Request PROVE StartedIn(q)'
  BY <1>2, <1>7, Names DEF Started, StartedIn
<1>9. ASSUME NEW q \in Request PROVE PointersIn(q)'
  BY <1>2, <1>3, Names DEF Pointers, PointersIn, dir
<1>10. LogHeld'
  BY <1>2, <1>7, Names DEF LogHeld, LogExclusive
<1>11. Raised' /\ SecondProcessStays'
  BY <1>2, <1>3, <1>7, Names DEF Raised, SecondProcessStays, dir
<1> QED
  BY <1>1, <1>4, <1>5, <1>6, <1>8, <1>9, <1>10, <1>11 DEF Started, Pointers

LEMMA StepSolverLock ==
  ASSUME IInv, NEW r \in Request, NEW i \in Method, SolverLock(r, i)
  PROVE  IInv'
<1> USE DEF IInv, TypeOK
<1>1. ControlOK'
  BY GotoControl, Names DEF SolverLock, Label
<1>2. /\ pc[r][i] = "lock"
     /\ \A q \in Request, t \in Thread :
          pc'[q][t] = IF q = r /\ t = i THEN "attach" ELSE pc[q][t]
  BY GotoPc, Names DEF SolverLock
<1>3. UNCHANGED dir
  BY DEF SolverLock
<1>4. DirOK' /\ Kinds'
  BY <1>3 DEF DirOK, Kinds, dir
<1>5. WorkOK'
  BY <1>2 DEF SolverLock, WorkOK
<1>6. CellsOK' /\ EndsOK'
  BY DEF SolverLock, CellsOK, EndsOK, cells, ends
<1>7. UNCHANGED <<key, logsem, status>>
  BY DEF SolverLock, cells, ends
<1>8. ASSUME NEW q \in Request PROVE StartedIn(q)'
  BY <1>2, <1>7, Names DEF Started, StartedIn
<1>9. ASSUME NEW q \in Request PROVE PointersIn(q)'
  BY <1>2, <1>3, Names DEF Pointers, PointersIn, dir
<1>10. LogHeld'
  BY <1>2, <1>7, Names DEF LogHeld, LogExclusive
<1>11. Raised' /\ SecondProcessStays'
  BY <1>2, <1>3, <1>7, Names DEF Raised, SecondProcessStays, dir
<1> QED
  BY <1>1, <1>4, <1>5, <1>6, <1>8, <1>9, <1>10, <1>11 DEF Started, Pointers

LEMMA StepSolverAttach ==
  ASSUME IInv, NEW r \in Request, NEW i \in Method, SolverAttach(r, i)
  PROVE  IInv'
<1> USE DEF IInv, TypeOK
<1>1. ControlOK'
  BY GotoControl, Names DEF SolverAttach, Label
<1>2. /\ pc[r][i] = "attach"
     /\ \A q \in Request, t \in Thread :
          pc'[q][t] = IF q = r /\ t = i THEN "unlock" ELSE pc[q][t]
  BY GotoPc, Names DEF SolverAttach
<1>3. key[r] \in [{1, 2} -> Key]
  BY <1>2, Names DEF Started, StartedIn
<1>4. DirOK' /\ Kinds'
  BY <1>3, AttachDir, AttachKinds, Names DEF SolverAttach, Kind
<1>5. /\ at'[r][i] # None
     /\ \A q \in Request, d \in End : q # r \/ d # i => at'[q][d] = at[q][d]
  BY <1>3, AttachDir, Names DEF SolverAttach
<1>6. UNCHANGED <<key, cells>>
  BY <1>3, AttachDir, Names DEF SolverAttach
<1>7. CellsOK' /\ WorkOK' /\ EndsOK'
  BY <1>6 DEF SolverAttach, CellsOK, WorkOK, EndsOK, cells, work, ends
<1>8. UNCHANGED <<key, status, logsem>>
  BY <1>6 DEF SolverAttach, cells, ends
<1>9. ASSUME NEW q \in Request PROVE StartedIn(q)'
  BY <1>2, <1>8, Names DEF Started, StartedIn
<1>10. ASSUME NEW q \in Request PROVE PointersIn(q)'
  BY <1>2, <1>5, Names DEF Pointers, PointersIn
<1>11. LogHeld'
  BY <1>2, <1>8, Names DEF LogHeld, LogExclusive
<1>12. Raised' /\ SecondProcessStays'
  BY <1>2, <1>5, <1>8, Names DEF Raised, SecondProcessStays, dir
<1> QED
  BY <1>1, <1>4, <1>7, <1>9, <1>10, <1>11, <1>12 DEF Started, Pointers

LEMMA StepSolverUnlock ==
  ASSUME IInv, NEW r \in Request, NEW i \in Method, SolverUnlock(r, i)
  PROVE  IInv'
<1> USE DEF IInv, TypeOK
<1>1. ControlOK'
  BY GotoControl, Names DEF SolverUnlock, Label
<1>2. /\ pc[r][i] = "unlock"
     /\ \A q \in Request, t \in Thread :
          pc'[q][t] = IF q = r /\ t = i THEN "solve" ELSE pc[q][t]
  BY GotoPc, Names DEF SolverUnlock
<1>3. UNCHANGED dir
  BY DEF SolverUnlock
<1>4. DirOK' /\ Kinds'
  BY <1>3 DEF DirOK, Kinds, dir
<1>5. WorkOK'
  BY <1>2 DEF SolverUnlock, WorkOK
<1>6. CellsOK' /\ EndsOK'
  BY DEF SolverUnlock, CellsOK, EndsOK, cells, ends
<1>7. UNCHANGED <<key, logsem, status>>
  BY DEF SolverUnlock, cells, ends
<1>8. ASSUME NEW q \in Request PROVE StartedIn(q)'
  BY <1>2, <1>7, Names DEF Started, StartedIn
<1>9. ASSUME NEW q \in Request PROVE PointersIn(q)'
  BY <1>2, <1>3, Names DEF Pointers, PointersIn, dir
<1>10. LogHeld'
  BY <1>2, <1>7, Names DEF LogHeld, LogExclusive
<1>11. Raised' /\ SecondProcessStays'
  BY <1>2, <1>3, <1>7, Names DEF Raised, SecondProcessStays, dir
<1> QED
  BY <1>1, <1>4, <1>5, <1>6, <1>8, <1>9, <1>10, <1>11 DEF Started, Pointers

LEMMA StepSolverSolve ==
  ASSUME IInv, NEW r \in Request, NEW i \in Method, SolverSolve(r, i)
  PROVE  IInv'
<1> USE DEF IInv, TypeOK
<1>1. ControlOK'
  BY GotoControl, Names DEF SolverSolve, Label
<1>2. /\ pc[r][i] = "solve"
     /\ \A q \in Request, t \in Thread :
          pc'[q][t] = IF q = r /\ t = i THEN "copy" ELSE pc[q][t]
  BY GotoPc, Names DEF SolverSolve
<1>3. UNCHANGED dir
  BY DEF SolverSolve
<1>4. DirOK' /\ Kinds'
  BY <1>3 DEF DirOK, Kinds, dir
<1>5. at[r][i] \in Seg
  BY <1>2, Names DEF DirOK, Pointers, PointersIn
<1>6. WorkOK'
  BY <1>5, <1>2 DEF SolverSolve, WorkOK, CellsOK, Content
<1>7. CellsOK' /\ EndsOK'
  BY DEF SolverSolve, CellsOK, EndsOK, cells, ends
<1>8. UNCHANGED <<key, logsem, status>>
  BY DEF SolverSolve, cells, ends
<1>9. ASSUME NEW q \in Request PROVE StartedIn(q)'
  BY <1>2, <1>8, Names DEF Started, StartedIn
<1>10. ASSUME NEW q \in Request PROVE PointersIn(q)'
  BY <1>2, <1>3, Names DEF Pointers, PointersIn, dir
<1>11. LogHeld'
  BY <1>2, <1>8, Names DEF LogHeld, LogExclusive
<1>12. Raised' /\ SecondProcessStays'
  BY <1>2, <1>3, <1>8, <1>5, Names DEF Raised, SecondProcessStays, dir
<1> QED
  BY <1>1, <1>4, <1>6, <1>7, <1>9, <1>10, <1>11, <1>12 DEF Started, Pointers

LEMMA StepSolverCopy ==
  ASSUME IInv, NEW r \in Request, NEW i \in Method, SolverCopy(r, i)
  PROVE  IInv'
<1> USE DEF IInv, TypeOK
<1>1. ControlOK'
  BY GotoControl, Names DEF SolverCopy, Label
<1>2. /\ pc[r][i] = "copy"
     /\ \A q \in Request, t \in Thread :
          pc'[q][t] = IF q = r /\ t = i THEN "done" ELSE pc[q][t]
  BY GotoPc, Names DEF SolverCopy
<1>3. UNCHANGED dir
  BY DEF SolverCopy
<1>4. DirOK' /\ Kinds'
  BY <1>3 DEF DirOK, Kinds, dir
<1>5. at[r][i] \in Seg
  BY <1>2, Names DEF DirOK, Pointers, PointersIn
<1>a. content[at[r][i]].mat \in Request \cup {None}
  BY <1>5, SMT DEF CellsOK, Content
<1>c. /\ mine[r].sol \in [Method -> Request \cup {None}]
     /\ found[r][i] \in Request \cup {None}
  BY DEF WorkOK, Content
<1>d. mine'[r] \in Content
  BY <1>a, <1>c, PipelineAssumption DEF WorkOK, Content, SolverCopy
<1>b. WorkOK'
  BY <1>d DEF WorkOK, SolverCopy
<1>6. CellsOK' /\ EndsOK'
  BY DEF SolverCopy, CellsOK, EndsOK, cells, ends
<1>7. UNCHANGED <<key, logsem, status>>
  BY DEF SolverCopy, cells, ends
<1>8. ASSUME NEW q \in Request PROVE StartedIn(q)'
  BY <1>2, <1>7, Names DEF Started, StartedIn
<1>9. ASSUME NEW q \in Request PROVE PointersIn(q)'
  BY <1>2, <1>3, Names DEF Pointers, PointersIn, dir
<1>10. LogHeld'
  BY <1>2, <1>7, Names DEF LogHeld, LogExclusive
<1>11. Raised' /\ SecondProcessStays'
  BY <1>2, <1>3, <1>7, <1>5, Names DEF Raised, SecondProcessStays, dir
<1> QED
  BY <1>1, <1>4, <1>b, <1>6, <1>8, <1>9, <1>10, <1>11 DEF Started, Pointers

LEMMA StepLeaveT ==
  ASSUME IInv, NEW r \in Request, Leave(r, "T")
  PROVE  IInv'
<1> USE DEF IInv, TypeOK
<1>1. ControlOK'
  BY GotoControl, Names DEF Leave, Label
<1>2. /\ pc[r]["T"] = "linger"
     /\ \A q \in Request, t \in Thread :
          pc'[q][t] = IF q = r /\ t = "T" THEN "gone" ELSE pc[q][t]
  BY GotoPc, Names DEF Leave
<1>3. DirOK'
  BY RemoveTable, DetachAt DEF Leave, DirOK
<1>4. \A q \in Request, e \in End :
       at'[q][e] = IF q = r /\ FALSE THEN None ELSE at[q][e]
  BY Names, DetachAt DEF Leave, Ends
<1>5. Kinds'
  BY <1>4 DEF Leave, Kinds
<1>6. UNCHANGED <<key, cells>>
  BY DEF Leave
<1>7. CellsOK' /\ WorkOK' /\ EndsOK'
  BY <1>6 DEF Leave, CellsOK, WorkOK, EndsOK, cells, work, ends
<1>8. UNCHANGED <<key, status, logsem>>
  BY <1>6 DEF Leave, cells, ends
<1>9. ASSUME NEW q \in Request PROVE StartedIn(q)'
  BY <1>2, <1>8, Names DEF Started, StartedIn
<1>10. ASSUME NEW q \in Request PROVE PointersIn(q)'
  BY <1>2, <1>4, Names DEF Pointers, PointersIn, dir
<1>11. LogHeld'
  BY <1>2, <1>8, Names DEF LogHeld, LogExclusive
<1>12. Raised' /\ SecondProcessStays'
  BY <1>2, <1>4, <1>8, Names DEF Raised, SecondProcessStays, dir, Leave, MayLeave
<1> QED
  BY <1>1, <1>3, <1>5, <1>7, <1>9, <1>10, <1>11, <1>12 DEF Started, Pointers

LEMMA StepLeaveP1 ==
  ASSUME IInv, NEW r \in Request, Leave(r, "P1")
  PROVE  IInv'
<1> USE DEF IInv, TypeOK
<1>1. ControlOK'
  BY GotoControl, Names DEF Leave, Label
<1>2. /\ pc[r]["P1"] = "linger"
     /\ \A q \in Request, t \in Thread :
          pc'[q][t] = IF q = r /\ t = "P1" THEN "gone" ELSE pc[q][t]
  BY GotoPc, Names DEF Leave
<1>3. DirOK'
  BY RemoveTable, DetachAt DEF Leave, DirOK
<1>4. \A q \in Request, e \in End :
       at'[q][e] = IF q = r /\ e = "P1" THEN None ELSE at[q][e]
  BY Names, DetachAt DEF Leave, Ends
<1>5. Kinds'
  BY <1>4 DEF Leave, Kinds
<1>6. UNCHANGED <<key, cells>>
  BY DEF Leave
<1>7. CellsOK' /\ WorkOK' /\ EndsOK'
  BY <1>6 DEF Leave, CellsOK, WorkOK, EndsOK, cells, work, ends
<1>8. UNCHANGED <<key, status, logsem>>
  BY <1>6 DEF Leave, cells, ends
<1>9. ASSUME NEW q \in Request PROVE StartedIn(q)'
  BY <1>2, <1>8, Names DEF Started, StartedIn
<1>10. ASSUME NEW q \in Request PROVE PointersIn(q)'
  BY <1>2, <1>4, Names DEF Pointers, PointersIn, dir
<1>11. LogHeld'
  BY <1>2, <1>8, Names DEF LogHeld, LogExclusive
<1>12. Raised' /\ SecondProcessStays'
  BY <1>2, <1>4, <1>8, Names DEF Raised, SecondProcessStays, dir, Leave, MayLeave
<1> QED
  BY <1>1, <1>3, <1>5, <1>7, <1>9, <1>10, <1>11, <1>12 DEF Started, Pointers

LEMMA StepLeaveP2 ==
  ASSUME IInv, NEW r \in Request, Leave(r, "P2")
  PROVE  IInv'
<1> USE DEF IInv, TypeOK
<1>1. ControlOK'
  BY GotoControl, Names DEF Leave, Label
<1>2. /\ pc[r]["P2"] = "linger"
     /\ \A q \in Request, t \in Thread :
          pc'[q][t] = IF q = r /\ t = "P2" THEN "gone" ELSE pc[q][t]
  BY GotoPc, Names DEF Leave
<1>3. DirOK'
  BY RemoveTable, DetachAt DEF Leave, DirOK
<1>4. \A q \in Request, e \in End :
       at'[q][e] = IF q = r /\ e \notin {"P1", "P3"} THEN None ELSE at[q][e]
  BY Names, DetachAt DEF Leave, Ends
<1>5. Kinds'
  BY <1>4 DEF Leave, Kinds
<1>6. UNCHANGED <<key, cells>>
  BY DEF Leave
<1>7. CellsOK' /\ WorkOK' /\ EndsOK'
  BY <1>6 DEF Leave, CellsOK, WorkOK, EndsOK, cells, work, ends
<1>8. UNCHANGED <<key, status, logsem>>
  BY <1>6 DEF Leave, cells, ends
<1>9. ASSUME NEW q \in Request PROVE StartedIn(q)'
  BY <1>2, <1>8, Names DEF Started, StartedIn
<1>10. ASSUME NEW q \in Request PROVE PointersIn(q)'
  BY <1>2, <1>4, Names DEF Pointers, PointersIn, StartedIn, Started, dir
<1>11. LogHeld'
  BY <1>2, <1>8, Names DEF LogHeld, LogExclusive
<1>12. Raised' /\ SecondProcessStays'
  BY <1>2, <1>4, <1>8, Names DEF Raised, SecondProcessStays, dir, Leave, MayLeave
<1> QED
  BY <1>1, <1>3, <1>5, <1>7, <1>9, <1>10, <1>11, <1>12 DEF Started, Pointers
-----------------------------------------------------------------------------
LEMMA StepIInv ==
  ASSUME IInv, [Next]_vars
  PROVE  IInv'
<1>1. CASE UNCHANGED vars
  BY <1>1 DEF vars, dir, cells, work, ends, IInv, TypeOK, ControlOK, DirOK, CellsOK,
     WorkOK, EndsOK, Started, StartedIn, Pointers, PointersIn, LogHeld, LogExclusive,
     Kinds, Raised, SecondProcessStays
<1>2. ASSUME NEW r \in Request, MainThread(r)
      PROVE  IInv'
  BY <1>2, StepDrawKeys, StepForkP1, StepForkP2, StepForkP3 DEF MainThread
<1>3. ASSUME NEW r \in Request, P1(r)
      PROVE  IInv'
  BY <1>3, StepP1Open, StepP1NoRoom, StepP1Fill, StepPostP1 DEF P1
<1>4. ASSUME NEW r \in Request, P2(r)
      PROVE  IInv'
  BY <1>4, StepP2Open, StepP2Start, StepP2Release, StepP2Remove, StepP2Create,
     StepP2Publish, StepPostP2 DEF P2
<1>5. ASSUME NEW r \in Request, P3(r)
      PROVE  IInv'
  BY <1>5, StepP3Open, StepP3Verify, StepP3Send, StepP3SendToNobody, StepP3LockLog,
     StepP3WriteLog, StepP3Retire DEF P3
<1>6. ASSUME NEW r \in Request, NEW i \in Method, Solver(r, i)
      PROVE  IInv'
  BY <1>6, StepSolverLock, StepSolverAttach, StepSolverUnlock, StepSolverSolve,
     StepSolverCopy DEF Solver
<1>7. ASSUME NEW r \in Request, NEW p \in {"T", "P1", "P2"}, Leave(r, p)
      PROVE  IInv'
  BY <1>7, StepLeaveT, StepLeaveP1, StepLeaveP2
<1> QED
  BY <1>1, <1>2, <1>3, <1>4, <1>5, <1>6, <1>7, StepClientLeaves DEF Next

THEOREM Invariance == Spec => []IInv
<1>1. Init => IInv
  BY InitIInv
<1>2. IInv /\ [Next]_vars => IInv'
  BY StepIInv
<1> QED
  BY <1>1, <1>2, PTL DEF Spec

\* Every variable keeps its shape; in particular mutex stays within 0 and 1.
THEOREM TypeCorrect == Spec => []TypeOK
<1>1. IInv => TypeOK
  BY DEF IInv
<1> QED
  BY <1>1, Invariance, PTL

\* sem_wait and sem_post keep two P3 from writing ServerAllLogs.txt together.
THEOREM LogIsExclusive == Spec => []LogExclusive
<1>1. IInv => LogExclusive
  BY DEF IInv, LogHeld
<1> QED
  BY <1>1, Invariance, PTL

\* No P2 of any request ever exits, with or without key collisions: nothing
\* ever takes the status of a second segment down again.
THEOREM SecondProcessNeverDies == Spec => []SecondProcessStays
<1>1. IInv => SecondProcessStays
  BY DEF IInv
<1> QED
  BY <1>1, Invariance, PTL
---------------------------------------------------------------------------
(***************************************************************************)
(* Unequal keys: when no two requests draw the same key, a request and its *)
(* client see only that request's data, and the processes implement        *)
(* MatrixService.                                                          *)
(*                                                                         *)
(* The argument is a chain of handovers. A status of -1 on the first       *)
(* segment means that it holds the matrix of its own request; so do the    *)
(* copies of the solver threads, hence the second segment once it is       *)
(* posted, hence what P3 verifies, sends and logs. Every link needs that   *)
(* the pointers of a request lead to its own segments only.                *)
(***************************************************************************)

\* A segment is found only under the key of the request that created it.
Keyed ==
  /\ UniqueKeys
  /\ \A r \in Request, n \in {1, 2}, k \in Key :
       table[n][k] = <<r, n>> => key[r][n] = k /\ pc[r]["T"] # "start"

OwnPointers == \A r \in Request, e \in End : at[r][e] \in {<<r, Kind(e)>>, None}

First(r)  == <<r, 1>>
Second(r) == <<r, 2>>

\* The first segment holds the matrix of r from the time P1 has filled it.
MatrixReadyIn(r) ==
  \/ status[First(r)] = -1
  \/ pc[r]["P1"] \in {"post", "linger"}
  \/ \E i \in Method : pc[r][i] # "unborn"
  => content[First(r)].mat = r

\* P1 keeps the first segment until every solver thread is done with it.
HeldIn(r) ==
  /\ status[First(r)] = -1 => pc[r]["P1"] = "linger"
  /\ \/ pc[r]["P1"] = "linger"
     \/ \E i \in Method : pc[r][i] # "unborn"
     => status[First(r)] = -1 \/ \A i \in Method : pc[r][i] = "done"

\* A solver thread solves and copies that matrix.
SolvedIn(r) ==
  \A i \in Method :
    /\ pc[r][i] = "copy" => found[r][i] = r
    /\ pc[r][i] = "done" => mine[r].mat = r /\ mine[r].sol[i] = r /\ mine[r].rows = Cols[r]

\* The second segment holds the matrix of r and three solutions of it before
\* its status is -1, and P3 verifies them only after that.
Own(r) == [i \in Method |-> r]
RowsCopied(r) == IF Rows[r] < Cols[r] THEN Rows[r] ELSE Cols[r]
PublishedIn(r) ==
  /\ pc[r]["P2"] \in {"post", "linger"} =>
       /\ content[Second(r)].mat = r /\ content[Second(r)].sol = Own(r)
       /\ content[Second(r)].rows = RowsCopied(r)
  /\ status[Second(r)] = -1 => pc[r]["P2"] = "linger"
  /\ pc[r]["P3"] \in {"send", "log", "write", "retire"} =>
       pc[r]["P2"] = "linger" /\ check[Second(r)] = content[Second(r)]

\* What was sent and what was logged is what the second segment still holds.
Final(r) == [data |-> content[Second(r)], verify |-> check[Second(r)]]
AnsweredIn(r) ==
  /\ answer[r] # None =>
       /\ answer[r] = Final(r)
       /\ pc[r]["P2"] = "linger" /\ check[Second(r)] = content[Second(r)]
       /\ pc[r]["P3"] \in {"log", "write", "retire", "gone"}
  /\ logged[r] # None =>
       /\ logged[r] = Final(r)
       /\ pc[r]["P2"] = "linger"
       /\ pc[r]["P3"] \in {"retire", "gone"}

MatrixReady == \A r \in Request : MatrixReadyIn(r)
Held      == \A r \in Request : HeldIn(r)
Solved    == \A r \in Request : SolvedIn(r)
Published == \A r \in Request : PublishedIn(r)
Answered  == \A r \in Request : AnsweredIn(r)

UInv == Keyed /\ OwnPointers /\ MatrixReady /\ Held /\ Solved /\ Published /\ Answered
-----------------------------------------------------------------------------
(* Who moves and who writes what.                                          *)

LEMMA Moves ==
  ASSUME IInv, [Next]_vars, NEW q \in Request
  PROVE  /\ pc'[q]["T"] = pc[q]["T"] \/ MainThread(q) \/ Leave(q, "T")
         /\ pc'[q]["P1"] = pc[q]["P1"] \/ ForkP1(q) \/ P1(q) \/ Leave(q, "P1")
         /\ pc'[q]["P2"] = pc[q]["P2"] \/ ForkP2(q) \/ P2(q)
         /\ pc'[q]["P3"] = pc[q]["P3"] \/ ForkP3(q) \/ P3(q)
         /\ \A i \in Method : pc'[q][i] = pc[q][i] \/ P2Start(q) \/ Solver(q, i)
<1> DEFINE Moved(r, p) == \E to : pc' = [pc EXCEPT ![r][p] = to]
<1>1. ControlOK
  BY DEF IInv, TypeOK
<1>2. ASSUME NEW r \in Request, NEW p \in Thread, Moved(r, p)
      PROVE  \A t \in Thread : q # r \/ t # p => pc'[q][t] = pc[q][t]
  BY <1>1, <1>2 DEF ControlOK
<1>3. CASE UNCHANGED vars
  BY <1>3 DEF vars
<1>4. ASSUME NEW r \in Request, MainThread(r)
      PROVE  /\ pc'[q]["T"] = pc[q]["T"] \/ MainThread(q)
             /\ pc'[q]["P1"] = pc[q]["P1"] \/ ForkP1(q)
             /\ pc'[q]["P2"] = pc[q]["P2"] \/ ForkP2(q)
             /\ pc'[q]["P3"] = pc[q]["P3"] \/ ForkP3(q)
             /\ \A i \in Method : pc'[q][i] = pc[q][i]
  <2>1. CASE q # r
    BY <1>1, <1>4, <2>1, Names DEF MainThread, DrawKeys, ForkP1, ForkP2, ForkP3, Fork,
       Goto, ControlOK
  <2>2. CASE DrawKeys(r)
    BY <1>1, <1>2, <1>4, <2>1, <2>2, GotoPc, Names DEF DrawKeys
  <2>3. ASSUME NEW p \in Child, NEW from, NEW to, NEW first, Fork(r, p, from, to, first)
        PROVE  \A t \in Thread : t \notin {"T", p} => pc'[r][t] = pc[r][t]
    BY <1>1, <2>3, Names DEF Fork, ControlOK, Child
  <2>4. CASE ForkP1(r)
    BY <1>4, <2>1, <2>3, <2>4, Names DEF ForkP1, Child
  <2>5. CASE ForkP2(r)
    BY <1>4, <2>1, <2>3, <2>5, Names DEF ForkP2, Child
  <2>6. CASE ForkP3(r)
    BY <1>4, <2>1, <2>3, <2>6, Names DEF ForkP3, Child
  <2> QED
    BY <1>4, <2>2, <2>4, <2>5, <2>6 DEF MainThread
<1>5. ASSUME NEW r \in Request, P1(r)
      PROVE  Moved(r, "P1")
  BY <1>5 DEF P1, P1Open, P1NoRoom, P1Fill, Post, Goto
<1>6. ASSUME NEW r \in Request, P2(r)
      PROVE  P2Start(r) \/ Moved(r, "P2")
  BY <1>6 DEF P2, P2Open, P2Release, P2Remove, P2Create, P2Publish, Post, Goto
<1>7. ASSUME NEW r \in Request, P2Start(r)
      PROVE  \A t \in Thread : q # r \/ t \notin {"P2"} \cup Method => pc'[q][t] = pc[q][t]
  BY <1>1, <1>7 DEF ControlOK, P2Start
<1>8. ASSUME NEW r \in Request, P3(r)
      PROVE  Moved(r, "P3")
  BY <1>8 DEF P3, P3Open, P3Verify, P3Send, P3SendToNobody, P3LockLog, P3WriteLog,
     P3Retire, Goto
<1>9. ASSUME NEW r \in Request, NEW i \in Method, Solver(r, i)
      PROVE  Moved(r, i)
  BY <1>9 DEF Solver, SolverLock, SolverAttach, SolverUnlock, SolverSolve, SolverCopy, Goto
<1>10. ASSUME NEW r \in Request, NEW p \in {"T", "P1", "P2"}, Leave(r, p)
       PROVE  Moved(r, p) /\ p # "P2"
  <2>1. Moved(r, p)
    BY <1>10 DEF Leave, Goto
  <2>2. p # "P2"
    BY <1>10, Names DEF Leave, MayLeave, Goto, IInv, Raised
  <2> QED
    BY <2>1, <2>2
<1>11. ASSUME NEW r \in Request, ClientLeaves(r)
       PROVE  pc' = pc
  BY <1>11 DEF ClientLeaves
<1> HIDE DEF Moved
<1> QED
  BY <1>2, <1>3, <1>4, <1>5, <1>6, <1>7, <1>8, <1>9, <1>10, <1>11, Names DEF Next, P2

LEMMA Writers ==
  ASSUME [Next]_vars
  PROVE  /\ key' = key \/ \E r \in Request : DrawKeys(r)
         /\ content' = content \/ \E r \in Request : P1Fill(r) \/ P2Publish(r)
         /\ check' = check \/ \E r \in Request : P3Verify(r)
         /\ \/ status' = status
            \/ \E r \in Request : \/ Post(r, "P1", "P1") \/ P2Release(r)
                                  \/ Post(r, "P2", "P2out") \/ P3Retire(r)
         /\ found' = found \/ \E r \in Request, i \in Method : SolverSolve(r, i)
         /\ mine' = mine \/ \E r \in Request, i \in Method : SolverCopy(r, i)
         /\ answer' = answer \/ \E r \in Request : P3Send(r)
         /\ logged' = logged \/ \E r \in Request : P3WriteLog(r)
<1> USE DEF cells, work, ends
<1>1. CASE UNCHANGED vars
  BY <1>1 DEF vars
<1>2. ASSUME NEW r \in Request, MainThread(r)
      PROVE  UNCHANGED <<cells, work, ends>> /\ (DrawKeys(r) \/ key' = key)
  BY <1>2 DEF MainThread, DrawKeys, ForkP1, ForkP2, ForkP3, Fork
<1>3. ASSUME NEW r \in Request, P1(r)
      PROVE  /\ UNCHANGED <<key, check, work, ends>>
             /\ content' = content \/ P1Fill(r)
             /\ status' = status \/ Post(r, "P1", "P1")
  BY <1>3 DEF P1, P1Open, Attach, Create, P1NoRoom, P1Fill, Post
<1>4. ASSUME NEW r \in Request, P2(r)
      PROVE  /\ UNCHANGED <<key, check, work, ends>>
             /\ content' = content \/ P2Publish(r)
             /\ status' = status \/ P2Release(r) \/ Post(r, "P2", "P2out")
  BY <1>4 DEF P2, P2Open, P2Start, P2Release, P2Remove, P2Create, P2Publish, Post,
     Attach, Create
<1>5. ASSUME NEW r \in Request, P3(r)
      PROVE  /\ UNCHANGED <<key, content, work>>
             /\ check' = check \/ P3Verify(r)
             /\ status' = status \/ P3Retire(r)
             /\ answer' = answer \/ P3Send(r)
             /\ logged' = logged \/ P3WriteLog(r)
  BY <1>5 DEF P3, P3Open, Attach, Create, P3Verify, P3Send, P3SendToNobody, P3LockLog,
     P3WriteLog, P3Retire
<1>6. ASSUME NEW r \in Request, NEW i \in Method, Solver(r, i)
      PROVE  /\ UNCHANGED <<key, cells, ends>>
             /\ found' = found \/ SolverSolve(r, i)
             /\ mine' = mine \/ SolverCopy(r, i)
  BY <1>6 DEF Solver, SolverLock, SolverAttach, Attach, SolverUnlock, SolverSolve, SolverCopy
<1>7. ASSUME NEW r \in Request, NEW p \in {"T", "P1", "P2"}, Leave(r, p)
      PROVE  UNCHANGED <<key, cells, work, ends>>
  BY <1>7 DEF Leave
<1>8. ASSUME NEW r \in Request, ClientLeaves(r)
      PROVE  UNCHANGED <<key, cells, work, answer, logged>>
  BY <1>8 DEF ClientLeaves
<1> QED
  BY <1>1, <1>2, <1>3, <1>4, <1>5, <1>6, <1>7, <1>8 DEF Next

\* A step may take pointers and keys away,
Shrunk == /\ key' = key
          /\ \A q \in Request, e \in End : at'[q][e] \in {at[q][e], None}
          /\ \A n \in {1, 2}, k \in Key : table'[n][k] \in {table[n][k], None}

\* or attach one segment to one pointer of a request that has its keys.
Gets(r, n, e) == /\ Kind(e) = n /\ key' = key /\ key[r] \in [{1, 2} -> Key]
                 /\ pc[r]["T"] # "start"
                 /\ Attach(r, n, e) \/ Create(r, n, e)

LEMMA DirWriters ==
  ASSUME IInv, [Next]_vars
  PROVE  \/ Shrunk \/ \E r \in Request : DrawKeys(r)
         \/ \E r \in Request, n \in {1, 2}, e \in End : Gets(r, n, e)
<1> USE DEF Shrunk, Gets
<1>0. DirOK /\ Started
  BY DEF IInv, TypeOK
<1>1. ASSUME UNCHANGED <<key, dir>>
      PROVE  Shrunk
  BY <1>1 DEF dir
<1>2. ASSUME NEW r \in Request, MainThread(r)
      PROVE  DrawKeys(r) \/ UNCHANGED <<key, dir>>
  BY <1>2 DEF MainThread, ForkP1, ForkP2, ForkP3, Fork
<1>3. ASSUME NEW r \in Request, P1(r)
      PROVE  UNCHANGED <<key, dir>> \/ Gets(r, 1, "P1")
  BY <1>0, <1>3, Names DEF P1, P1Open, P1NoRoom, P1Fill, Post, Goto, Started, StartedIn, Kind
<1>4. ASSUME NEW r \in Request, P2(r)
      PROVE  Shrunk \/ Gets(r, 1, "P2in") \/ Gets(r, 2, "P2out")
  <2>1. CASE P2Remove(r)
    BY <1>0, <2>1, RemoveTable DEF P2Remove
  <2>2. CASE P2Open(r) \/ P2Create(r)
    BY <1>0, <2>2, Names DEF P2Open, P2Create, Goto, Started, StartedIn, Kind
  <2>3. CASE P2Start(r) \/ P2Release(r) \/ P2Publish(r) \/ Post(r, "P2", "P2out")
    BY <1>1, <2>3 DEF P2Start, P2Release, P2Publish, Post
  <2> QED
    BY <1>4, <2>1, <2>2, <2>3 DEF P2
<1>5. ASSUME NEW r \in Request, P3(r)
      PROVE  Shrunk \/ Gets(r, 2, "P3")
  <2>1. CASE P3Open(r)
    BY <1>0, <2>1, Names DEF P3Open, Goto, Started, StartedIn, Kind
  <2>2. CASE P3SendToNobody(r) \/ P3Retire(r)
    BY <1>0, <2>2, RemoveTable, DetachAt DEF P3SendToNobody, P3Retire
  <2>3. CASE P3Verify(r) \/ P3Send(r) \/ P3LockLog(r) \/ P3WriteLog(r)
    BY <1>1, <2>3 DEF P3Verify, P3Send, P3LockLog, P3WriteLog
  <2> QED
    BY <1>5, <2>1, <2>2, <2>3 DEF P3
<1>6. ASSUME NEW r \in Request, NEW i \in Method, Solver(r, i)
      PROVE  UNCHANGED <<key, dir>> \/ Gets(r, 1, i)
  <2>1. CASE SolverAttach(r, i)
    BY <1>0, <2>1, Names DEF SolverAttach, Goto, Started, StartedIn, Kind
  <2>2. CASE SolverLock(r, i) \/ SolverUnlock(r, i) \/ SolverSolve(r, i) \/ SolverCopy(r, i)
    BY <2>2 DEF SolverLock, SolverUnlock, SolverSolve, SolverCopy
  <2> QED
    BY <1>6, <2>1, <2>2 DEF Solver
<1>7. ASSUME NEW r \in Request, NEW p \in {"T", "P1", "P2"}, Leave(r, p)
      PROVE  Shrunk
  BY <1>0, <1>7, DetachAt DEF Leave
<1>8. ASSUME NEW r \in Request, ClientLeaves(r)
      PROVE  UNCHANGED <<key, dir>>
  BY <1>8 DEF ClientLeaves
<1>9. ASSUME UNCHANGED vars
      PROVE  Shrunk
  BY <1>1, <1>9 DEF vars
<1> HIDE DEF Shrunk, Gets
<1> DEFINE Goal == \/ Shrunk \/ \E r \in Request : DrawKeys(r)
                   \/ \E r \in Request, n \in {1, 2}, e \in End : Gets(r, n, e)
<1>10. ASSUME NEW r \in Request, MainThread(r) \/ ClientLeaves(r)
       PROVE  Goal
  BY <1>1, <1>2, <1>8, <1>10
<1>11. ASSUME NEW r \in Request, P1(r)
       PROVE  Goal
  BY <1>1, <1>3, <1>11, Names
<1>12. ASSUME NEW r \in Request, P2(r)
       PROVE  Goal
  BY <1>4, <1>12, Names
<1>13. ASSUME NEW r \in Request, P3(r)
       PROVE  Goal
  BY <1>5, <1>13, Names
<1>14. ASSUME NEW r \in Request, NEW i \in Method, Solver(r, i)
       PROVE  Goal
  BY <1>1, <1>6, <1>14, Names
<1>15. Goal
  <2> HIDE DEF Goal
  <2>1. Shrunk => Goal
    BY DEF Goal
  <2>2. CASE UNCHANGED vars
    BY <1>9, <2>1, <2>2
  <2>3. ASSUME NEW r \in Request, NEW p \in {"T", "P1", "P2"}, Leave(r, p)
        PROVE  Goal
    BY <1>7, <2>1, <2>3
  <2>4. CASE Next
    BY <1>10, <1>11, <1>12, <1>13, <1>14, <2>3, <2>4 DEF Next
  <2> QED
    BY <2>2, <2>4
<1> QED
  BY <1>15
-----------------------------------------------------------------------------
(* The first link: keys and pointers.                                      *)

LEMMA NotBack ==
  ASSUME IInv, [Next]_vars, NEW q \in Request, pc'[q]["T"] = "start"
  PROVE  pc[q]["T"] = "start"
<1>1. pc'[q]["T"] = pc[q]["T"] \/ MainThread(q) \/ Leave(q, "T")
  BY Moves
<1>2. CASE Leave(q, "T")
  BY <1>2, GotoPc, Names DEF Leave, IInv, TypeOK
<1>3. CASE MainThread(q)
  BY <1>3, Names DEF MainThread, DrawKeys, ForkP1, ForkP2, ForkP3, Fork, Goto, IInv,
     TypeOK, ControlOK
<1> QED
  BY <1>1, <1>2, <1>3

LEMMA OwnSegment ==
  ASSUME IInv, Keyed, NEW r \in Request, NEW n \in {1, 2}, key[r] \in [{1, 2} -> Key],
         Lookup(r, n) # None
  PROVE  Lookup(r, n) = <<r, n>>
<1>1. table[n][key[r][n]] \in Request \X {n}
  BY DEF IInv, Kinds, Lookup, Directory
<1>2. PICK q \in Request : table[n][key[r][n]] = <<q, n>>
  BY <1>1
<1>3. key[q][n] = key[r][n] /\ key[r][n] # None
  BY <1>2, PipelineAssumption DEF Keyed
<1>4. q = r
  BY <1>3 DEF Keyed, UniqueKeys
<1> QED
  BY <1>2, <1>4 DEF Lookup, Directory

LEMMA StepPointers ==
  ASSUME IInv, Keyed, OwnPointers, [Next]_vars, UniqueKeys'
  PROVE  Keyed' /\ OwnPointers'
<1>0. /\ DirOK
      /\ \A q \in Request : pc'[q]["T"] = "start" => pc[q]["T"] = "start"
      /\ \A q \in Request, n \in {1, 2} : <<q, n>> # None
  BY NotBack, PipelineAssumption DEF IInv, TypeOK, Seg
<1>1. CASE Shrunk
  <2>1. ASSUME NEW r \in Request, NEW n \in {1, 2}, NEW k \in Key, table'[n][k] = <<r, n>>
        PROVE  key'[r][n] = k /\ pc'[r]["T"] # "start"
    <3>1. table[n][k] = <<r, n>>
      BY <1>0, <1>1, <2>1 DEF Shrunk
    <3> QED
      BY <1>0, <1>1, <3>1 DEF Keyed, Shrunk
  <2>2. OwnPointers'
    BY <1>1 DEF OwnPointers, Shrunk
  <2> QED
    BY <1>1, <2>1, <2>2 DEF Keyed, Shrunk
<1>2. ASSUME NEW r \in Request, DrawKeys(r)
      PROVE  Keyed' /\ OwnPointers'
  <2>1. table' = table /\ at' = at /\ pc[r]["T"] = "start"
    BY <1>2 DEF DrawKeys, dir, Goto
  <2>2. \A q \in Request : q # r => key'[q] = key[q]
    BY <1>2 DEF DrawKeys, IInv, TypeOK, ControlOK
  <2> QED
    BY <1>0, <2>1, <2>2 DEF Keyed, OwnPointers
<1>3. ASSUME NEW r \in Request, NEW n \in {1, 2}, NEW e \in End, Kind(e) = n,
             key' = key, key[r] \in [{1, 2} -> Key],
             Attach(r, n, e) \/ Create(r, n, e), pc[r]["T"] # "start"
      PROVE  Keyed' /\ OwnPointers'
  <2>1. CASE Attach(r, n, e)
    <3>1. Lookup(r, n) = <<r, n>>
      BY <1>3, <2>1, OwnSegment DEF Attach
    <3>2. table' = table
      BY <2>1 DEF Attach
    <3>3. \A q \in Request, d \in End :
            at'[q][d] = IF q = r /\ d = e THEN <<r, n>> ELSE at[q][d]
      BY <1>0, <2>1, <3>1 DEF Attach, DirOK
    <3> QED
      BY <1>0, <1>3, <3>2, <3>3 DEF Keyed, OwnPointers
  <2>2. CASE Create(r, n, e)
    <3>1. \A q \in Request, d \in End :
            at'[q][d] = IF q = r /\ d = e THEN <<r, n>> ELSE at[q][d]
      BY <1>0, <2>2 DEF Create, DirOK
    <3>2. \A m \in {1, 2}, k \in Key :
            table'[m][k] = IF m = n /\ k = key[r][n] THEN <<r, n>> ELSE table[m][k]
      BY <1>0, <2>2 DEF Create, DirOK, Directory
    <3> QED
      BY <1>0, <1>3, <3>1, <3>2 DEF Keyed, OwnPointers
  <2> QED
    BY <1>3, <2>1, <2>2
<1>4. ASSUME NEW r \in Request, NEW n \in {1, 2}, NEW e \in End, Gets(r, n, e)
      PROVE  Keyed' /\ OwnPointers'
  BY <1>3, <1>4 DEF Gets
<1> HIDE DEF Keyed, OwnPointers
<1> QED
  BY <1>1, <1>2, <1>4, DirWriters

(* What the steps may do to the segments of one request.                   *)

LEMMA SegmentSteps ==
  ASSUME IInv, OwnPointers, [Next]_vars, NEW q \in Request
  PROVE  /\ \/ content'[First(q)] = content[First(q)]
            \/ P1Fill(q) /\ content'[First(q)].mat = q
         /\ \/ content'[Second(q)] = content[Second(q)]
            \/ P2Publish(q) /\ content'[Second(q)] = Copied(mine[q])
         /\ \/ check'[Second(q)] = check[Second(q)]
            \/ P3Verify(q) /\ check'[Second(q)] = content[Second(q)]
         /\ \/ status'[First(q)] = status[First(q)]
            \/ Post(q, "P1", "P1") /\ status'[First(q)] = -1
            \/ P2Release(q)
         /\ \/ status'[Second(q)] = status[Second(q)]
            \/ Post(q, "P2", "P2out") \/ P3Retire(q)
<1> USE DEF First, Second
<1>1. /\ CellsOK /\ First(q) \in Seg /\ Second(q) \in Seg
      /\ \A r \in Request : First(r) \in Seg /\ Second(r) \in Seg
      /\ None \notin Seg
  BY PipelineAssumption DEF IInv, TypeOK, Seg
<1>2. ASSUME NEW r \in Request
      PROVE  /\ at[r]["P1"] \in {First(r), None} /\ at[r]["P2in"] \in {First(r), None}
             /\ at[r]["P2out"] \in {Second(r), None} /\ at[r]["P3"] \in {Second(r), None}
             /\ pc[r]["P1"] \in {"fill", "post"} => at[r]["P1"] = First(r)
             /\ pc[r]["P2"] \in {"join"} => at[r]["P2in"] = First(r)
             /\ pc[r]["P2"] \in {"publish", "post"} => at[r]["P2out"] = Second(r)
             /\ pc[r]["P3"] \in {"await", "retire"} => at[r]["P3"] = Second(r)
  <2>1. /\ at[r]["P1"] \in {First(r), None} /\ at[r]["P2in"] \in {First(r), None}
        /\ at[r]["P2out"] \in {Second(r), None} /\ at[r]["P3"] \in {Second(r), None}
    BY Names DEF OwnPointers, Kind
  <2> QED
    BY <2>1 DEF IInv, Pointers, PointersIn
<1>3. ASSUME NEW r \in Request, P1Fill(r)
      PROVE  /\ \A s \in Seg : s # First(r) => content'[s] = content[s]
             /\ content'[First(r)].mat = r
  <2>1. content' = [content EXCEPT ![First(r)].mat = r]
    BY <1>2, <1>3 DEF P1Fill, Goto
  <2> HIDE DEF First, Second
  <2>2. content'[First(r)] = [content[First(r)] EXCEPT !.mat = r]
    BY <1>1, <2>1 DEF CellsOK
  <2> QED
    BY <1>1, <2>1, <2>2 DEF CellsOK, Content
<1>4. ASSUME NEW r \in Request, P2Publish(r)
      PROVE  /\ \A s \in Seg : s # Second(r) => content'[s] = content[s]
             /\ content'[Second(r)] = Copied(mine[r])
  BY <1>1, <1>2, <1>4 DEF P2Publish, Goto, CellsOK
<1>5. ASSUME NEW r \in Request, P3Verify(r)
      PROVE  /\ \A s \in Seg : s # Second(r) => check'[s] = check[s]
             /\ check'[Second(r)] = content[Second(r)]
  BY <1>1, <1>2, <1>5 DEF P3Verify, Goto, CellsOK
<1>6. ASSUME NEW r \in Request, Post(r, "P1", "P1")
      PROVE  /\ \A s \in Seg : s # First(r) => status'[s] = status[s]
             /\ status'[First(r)] = -1
  BY <1>1, <1>2, <1>6 DEF Post, Posted, Goto, CellsOK
<1>7. ASSUME NEW r \in Request, P2Release(r)
      PROVE  \A s \in Seg : s # First(r) => status'[s] = status[s]
  BY <1>1, <1>2, <1>7 DEF P2Release, Goto, CellsOK
<1>8. ASSUME NEW r \in Request, Post(r, "P2", "P2out") \/ P3Retire(r)
      PROVE  \A s \in Seg : s # Second(r) => status'[s] = status[s]
  BY <1>1, <1>2, <1>8 DEF Post, P3Retire, Goto, CellsOK
<1>9. /\ content' = content \/ \E r \in Request : P1Fill(r) \/ P2Publish(r)
      /\ check' = check \/ \E r \in Request : P3Verify(r)
      /\ \/ status' = status
         \/ \E r \in Request : \/ Post(r, "P1", "P1") \/ P2Release(r)
                               \/ Post(r, "P2", "P2out") \/ P3Retire(r)
  BY Writers
<1>10. \A r \in Request : /\ First(q) # Second(r) /\ Second(q) # First(r)
                          /\ r # q => First(q) # First(r) /\ Second(q) # Second(r)
  OBVIOUS
<1> HIDE DEF First, Second
<1>11. \/ content'[First(q)] = content[First(q)]
       \/ P1Fill(q) /\ content'[First(q)].mat = q
  BY <1>1, <1>3, <1>4, <1>9, <1>10
<1>12. \/ content'[Second(q)] = content[Second(q)]
       \/ P2Publish(q) /\ content'[Second(q)] = Copied(mine[q])
  BY <1>1, <1>3, <1>4, <1>9, <1>10
<1>13. \/ check'[Second(q)] = check[Second(q)]
       \/ P3Verify(q) /\ check'[Second(q)] = content[Second(q)]
  BY <1>1, <1>5, <1>9, <1>10
<1>14. \/ status'[First(q)] = status[First(q)]
       \/ Post(q, "P1", "P1") /\ status'[First(q)] = -1
       \/ P2Release(q)
  BY <1>1, <1>6, <1>7, <1>8, <1>9, <1>10
<1>15. \/ status'[Second(q)] = status[Second(q)]
       \/ Post(q, "P2", "P2out") \/ P3Retire(q)
  BY <1>1, <1>6, <1>7, <1>8, <1>9, <1>10
<1> QED
  BY <1>11, <1>12, <1>13, <1>14, <1>15

\* The assignments in SegmentSteps, one by one.
LEMMA OwnWrites ==
  ASSUME IInv, OwnPointers, NEW q \in Request
  PROVE  /\ P1Fill(q) => content'[First(q)].mat = q
         /\ P2Publish(q) => content'[Second(q)] = Copied(mine[q])
         /\ P3Verify(q) => check'[Second(q)] = content[Second(q)]
         /\ Post(q, "P1", "P1") => status'[First(q)] = -1
         /\ P2Release(q) => status'[First(q)] = 0
<1>1. /\ CellsOK /\ First(q) \in Seg /\ Second(q) \in Seg
      /\ at[q]["P1"] \in {First(q), None} /\ at[q]["P2in"] \in {First(q), None}
      /\ at[q]["P2out"] \in {Second(q), None} /\ at[q]["P3"] \in {Second(q), None}
  BY Names DEF IInv, TypeOK, Seg, OwnPointers, Kind, First, Second
<1>2. P1Fill(q) => at[q]["P1"] = First(q)
  BY <1>1 DEF P1Fill, Goto, IInv, Pointers, PointersIn
<1>3. Post(q, "P1", "P1") => at[q]["P1"] = First(q)
  BY <1>1 DEF Post, Goto, IInv, Pointers, PointersIn
<1>4. P2Release(q) => at[q]["P2in"] = First(q)
  BY <1>1 DEF P2Release, Goto, IInv, Pointers, PointersIn
<1>5. P3Verify(q) => at[q]["P3"] = Second(q)
  BY <1>1 DEF P3Verify, Goto, IInv, Pointers, PointersIn
<1>6. P1Fill(q) => content'[First(q)] = [content[First(q)] EXCEPT !.mat = q]
  BY <1>1, <1>2 DEF P1Fill, CellsOK
<1>7. P1Fill(q) => content'[First(q)].mat = q
  BY <1>1, <1>6 DEF CellsOK, Content
<1>8. P3Verify(q) => check'[Second(q)] = content[Second(q)]
  BY <1>1, <1>5 DEF P3Verify, CellsOK
<1>9. Post(q, "P1", "P1") => status'[First(q)] = -1
  BY <1>1, <1>3 DEF Post, Posted, CellsOK
<1>10. P2Release(q) => status'[First(q)] = 0
  BY <1>1, <1>4 DEF P2Release, CellsOK
<1>11. P2Publish(q) => at[q]["P2out"] = Second(q)
  BY <1>1 DEF P2Publish, Goto, IInv, Pointers, PointersIn
<1>12. P2Publish(q) => content'[Second(q)] = Copied(mine[q])
  BY <1>1, <1>11 DEF P2Publish, CellsOK
<1> QED
  BY <1>7, <1>8, <1>9, <1>10, <1>12

(* What the steps may do to the program counters of one request.           *)

LEMMA LabelsP1 ==
  ASSUME IInv, [Next]_vars, NEW q \in Request
  PROVE  /\ pc'[q]["P1"] = "post" => pc[q]["P1"] = "post" \/ P1Fill(q)
         /\ pc'[q]["P1"] = "linger" => pc[q]["P1"] = "linger" \/ Post(q, "P1", "P1")
         /\ pc[q]["P1"] = "linger" =>
              pc'[q]["P1"] = "linger" \/ status[at[q]["P1"]] # -1
<1>0. ControlOK
  BY DEF IInv, TypeOK
<1>1. CASE pc'[q]["P1"] = pc[q]["P1"]
  BY <1>1
<1>2. CASE ForkP1(q)
  BY <1>0, <1>2, Names DEF ForkP1, Fork, ControlOK, IInv, Started, StartedIn
<1>3. CASE P1(q)
  BY <1>0, <1>3, GotoPc, Names DEF P1, P1Open, P1NoRoom, P1Fill, Post
<1>4. CASE Leave(q, "P1")
  BY <1>0, <1>4, GotoPc, Names DEF Leave, MayLeave
<1> QED
  BY <1>1, <1>2, <1>3, <1>4, Moves

LEMMA LabelsP2 ==
  ASSUME IInv, [Next]_vars, NEW q \in Request
  PROVE  /\ pc'[q]["P2"] = "post" => pc[q]["P2"] = "post" \/ P2Publish(q)
         /\ pc'[q]["P2"] = "linger" => pc[q]["P2"] = "linger" \/ Post(q, "P2", "P2out")
         /\ pc[q]["P2"] = "linger" => pc'[q]["P2"] = "linger"
<1>0. ControlOK
  BY DEF IInv, TypeOK
<1>1. CASE pc'[q]["P2"] = pc[q]["P2"]
  BY <1>1
<1>2. CASE ForkP2(q)
  BY <1>0, <1>2, Names DEF ForkP2, Fork, ControlOK, IInv, Started, StartedIn
<1>3. CASE P2Start(q)
  BY <1>0, <1>3, Names DEF P2Start, ControlOK
<1>4. CASE P2(q) /\ ~P2Start(q)
  BY <1>0, <1>4, GotoPc, Names DEF P2, P2Open, P2Release, P2Remove, P2Create, P2Publish,
     Post
<1> QED
  BY <1>1, <1>2, <1>3, <1>4, Moves

LEMMA LabelsP3 ==
  ASSUME IInv, [Next]_vars, NEW q \in Request
  PROVE  /\ pc'[q]["P3"] = "send" => pc[q]["P3"] = "send" \/ P3Verify(q)
         /\ pc'[q]["P3"] = "log" => pc[q]["P3"] \in {"send", "log"}
         /\ pc'[q]["P3"] = "write" => pc[q]["P3"] \in {"log", "write"}
         /\ pc'[q]["P3"] = "retire" => pc[q]["P3"] = "retire" \/ P3WriteLog(q)
         /\ pc'[q]["P3"] = "gone" => pc[q]["P3"] \in {"send", "retire", "gone"}
         /\ pc[q]["P3"] \in {"log", "write", "retire", "gone"} =>
              pc'[q]["P3"] \in {"log", "write", "retire", "gone"}
         /\ pc[q]["P3"] \in {"retire", "gone"} => pc'[q]["P3"] \in {"retire", "gone"}
<1>0. ControlOK
  BY DEF IInv, TypeOK
<1>1. CASE pc'[q]["P3"] = pc[q]["P3"]
  BY <1>1
<1>2. CASE ForkP3(q)
  BY <1>0, <1>2, Names DEF ForkP3, Fork, ControlOK, IInv, Started, StartedIn
<1>3. CASE P3(q)
  BY <1>0, <1>3, GotoPc, Names DEF P3, P3Open, P3Verify, P3Send, P3SendToNobody,
     P3LockLog, P3WriteLog, P3Retire
<1> QED
  BY <1>1, <1>2, <1>3, Moves

LEMMA LabelsSolver ==
  ASSUME IInv, [Next]_vars, NEW q \in Request, NEW i \in Method
  PROVE  /\ pc'[q][i] = "copy" => pc[q][i] = "copy" \/ SolverSolve(q, i)
         /\ pc'[q][i] = "done" => pc[q][i] = "done" \/ SolverCopy(q, i)
         /\ pc[q][i] = "done" => pc'[q][i] = "done"
         /\ pc[q][i] # "unborn" => pc'[q][i] # "unborn"
         /\ pc'[q][i] # "unborn" => pc[q][i] # "unborn" \/ P2Start(q)
<1>0. ControlOK
  BY DEF IInv, TypeOK
<1>1. CASE pc'[q][i] = pc[q][i]
  BY <1>1
<1>2. CASE P2Start(q)
  <2>1. pc[q][i] = "unborn"
    BY <1>2 DEF P2Start, IInv, Started, StartedIn
  <2>2. pc'[q][i] = "lock"
    BY <1>0, <1>2, Names DEF P2Start, ControlOK
  <2> QED
    BY <1>2, <2>1, <2>2
<1>3. CASE Solver(q, i)
  BY <1>0, <1>3, GotoPc, Names DEF Solver, SolverLock, SolverAttach, SolverUnlock,
     SolverSolve, SolverCopy
<1> QED
  BY <1>1, <1>2, <1>3, Moves

(* The links between segment 1 and the solver threads.                     *)

LEMMA PointsAt ==
  ASSUME IInv, OwnPointers, NEW q \in Request
  PROVE  /\ pc[q]["P1"] = "linger" => at[q]["P1"] = First(q)
         /\ pc[q]["P2"] = "await" => at[q]["P2in"] = First(q)
         /\ \A i \in Method : pc[q][i] \in {"unlock", "solve", "copy"} => at[q][i] = First(q)
         /\ pc[q]["P3"] \in {"await", "send", "log", "write", "retire"} =>
              at[q]["P3"] = Second(q)
<1>1. \A e \in End : at[q][e] \in {<<q, Kind(e)>>, None}
  BY DEF OwnPointers
<1>2. \A i \in Method : Kind(i) = 1
  BY Names DEF Kind
<1> QED
  BY <1>1, <1>2, Names DEF First, Second, Kind, IInv, Pointers, PointersIn

LEMMA StepReady ==
  ASSUME IInv, OwnPointers, MatrixReady, [Next]_vars
  PROVE  MatrixReady'
<1> SUFFICES ASSUME NEW q \in Request,
                    \/ status'[First(q)] = -1
                    \/ pc'[q]["P1"] \in {"post", "linger"}
                    \/ \E i \in Method : pc'[q][i] # "unborn"
             PROVE  content'[First(q)].mat = q
  BY DEF MatrixReady, MatrixReadyIn, First
<1>1. CASE content'[First(q)].mat = q
  BY <1>1
<1>2. CASE content'[First(q)] = content[First(q)]
  <2>1. ASSUME \/ status[First(q)] = -1
               \/ pc[q]["P1"] \in {"post", "linger"}
               \/ \E i \in Method : pc[q][i] # "unborn"
        PROVE  content'[First(q)].mat = q
    BY <1>2, <2>1 DEF MatrixReady, MatrixReadyIn
  <2>2. CASE P1Fill(q)
    BY <1>1, <1>2, <2>1, <2>2, OwnWrites
  <2>3. CASE status'[First(q)] = -1
    <3>1. Post(q, "P1", "P1") => pc[q]["P1"] = "post"
      BY DEF Post, Goto
    <3>2. ~P2Release(q)
      BY <2>3, OwnWrites
    <3> QED
      BY <2>1, <2>3, <3>1, <3>2, SegmentSteps
  <2>4. CASE pc'[q]["P1"] \in {"post", "linger"}
    <3>1. Post(q, "P1", "P1") => pc[q]["P1"] = "post"
      BY DEF Post, Goto
    <3> QED
      BY <2>1, <2>2, <2>4, <3>1, LabelsP1
  <2>5. CASE \E i \in Method : pc'[q][i] # "unborn"
    <3>1. P2Start(q) => status[First(q)] = -1
      BY PointsAt DEF P2Start, Ready
    <3> QED
      BY <2>1, <2>5, <3>1, LabelsSolver
  <2> QED
    BY <2>3, <2>4, <2>5
<1> QED
  BY <1>1, <1>2, SegmentSteps

LEMMA StepHeld ==
  ASSUME IInv, OwnPointers, Held, [Next]_vars
  PROVE  Held'
<1> SUFFICES ASSUME NEW q \in Request
             PROVE  HeldIn(q)'
  BY DEF Held
<1> USE DEF First
<1>0. HeldIn(q)
  BY DEF Held
<1>1. Post(q, "P1", "P1") => pc[q]["P1"] = "post" /\ pc'[q]["P1"] = "linger"
  BY GotoPc, Names DEF Post, IInv, TypeOK
<1>2. P2Release(q) => status'[First(q)] = 0 /\ \A i \in Method : pc[q][i] = "done"
  BY OwnWrites DEF P2Release, Joined
<1>3. status'[First(q)] = -1 => status[First(q)] = -1 \/ Post(q, "P1", "P1")
  BY <1>2, SegmentSteps
<1>4. status'[First(q)] = -1 => pc'[q]["P1"] = "linger"
  BY <1>0, <1>1, <1>3, LabelsP1, PointsAt DEF HeldIn
<1>5. (\A i \in Method : pc[q][i] = "done") => \A i \in Method : pc'[q][i] = "done"
  BY LabelsSolver
<1>6. status[First(q)] = -1 => status'[First(q)] = -1 \/ \A i \in Method : pc[q][i] = "done"
  BY <1>2, SegmentSteps
<1>7. CASE pc'[q]["P1"] = "linger"
  <2>1. pc[q]["P1"] = "linger" \/ Post(q, "P1", "P1")
    BY <1>7, LabelsP1
  <2>2. Post(q, "P1", "P1") => status'[First(q)] = -1
    BY OwnWrites
  <2> QED
    BY <1>0, <1>4, <1>5, <1>6, <2>1, <2>2 DEF HeldIn
<1>8. CASE \E i \in Method : pc'[q][i] # "unborn"
  <2>1. P2Start(q) => status[First(q)] = -1
    BY PointsAt DEF P2Start, Ready
  <2>2. (\E i \in Method : pc[q][i] # "unborn") \/ status[First(q)] = -1
    BY <1>8, <2>1, LabelsSolver
  <2> QED
    BY <1>0, <1>4, <1>5, <1>6, <2>2 DEF HeldIn
<1> QED
  BY <1>4, <1>7, <1>8 DEF HeldIn

LEMMA StepSolved ==
  ASSUME IInv, OwnPointers, MatrixReady, Solved, [Next]_vars
  PROVE  Solved'
<1> SUFFICES ASSUME NEW q \in Request, NEW i \in Method
             PROVE  /\ pc'[q][i] = "copy" => found'[q][i] = q
                    /\ pc'[q][i] = "done" =>
                         mine'[q].mat = q /\ mine'[q].sol[i] = q /\ mine'[q].rows = Cols[q]
  BY DEF Solved, SolvedIn
<1>0. WorkOK /\ SolvedIn(q)
  BY DEF IInv, TypeOK, Solved
<1>1. ASSUME NEW r \in Request, NEW j \in Method, SolverSolve(r, j)
      PROVE  found' = [found EXCEPT ![r][j] = r]
  <2>1. pc[r][j] = "solve" /\ at[r][j] = First(r)
    BY <1>1, PointsAt DEF SolverSolve, Goto
  <2>2. content[First(r)].mat = r
    BY <2>1 DEF MatrixReady, MatrixReadyIn
  <2> QED
    BY <1>1, <2>1, <2>2 DEF SolverSolve
<1>2. ASSUME NEW r \in Request, NEW j \in Method, SolverCopy(r, j)
      PROVE  /\ \A p \in Request : p # r => mine'[p] = mine[p]
             /\ mine'[r].mat = r /\ mine'[r].rows = Cols[r]
             /\ mine'[r].sol = [mine[r].sol EXCEPT ![j] = r]
  <2>1. pc[r][j] = "copy" /\ at[r][j] = First(r)
    BY <1>2, PointsAt DEF SolverCopy, Goto
  <2>2. content[First(r)].mat = r
    BY <2>1 DEF MatrixReady, MatrixReadyIn
  <2>3. found[r][j] = r
    BY <2>1 DEF Solved, SolvedIn
  <2>4. r # None
    BY PipelineAssumption
  <2> QED
    BY <1>0, <1>2, <2>1, <2>2, <2>3, <2>4 DEF SolverCopy, WorkOK
<1>3. pc'[q][i] = "copy" => found'[q][i] = q
  <2>1. found' = found \/ \E r \in Request, j \in Method : SolverSolve(r, j)
    BY Writers
  <2>2. found[q][i] = q => found'[q][i] = q
    BY <1>0, <1>1, <2>1 DEF WorkOK
  <2>3. SolverSolve(q, i) => found'[q][i] = q
    BY <1>0, <1>1 DEF WorkOK
  <2> QED
    BY <1>0, <2>2, <2>3, LabelsSolver DEF SolvedIn
<1>4. pc'[q][i] = "done" => mine'[q].mat = q /\ mine'[q].sol[i] = q /\ mine'[q].rows = Cols[q]
  <2>0. mine[q].sol \in [Method -> Request \cup {None}]
    BY <1>0 DEF WorkOK, Content
  <2>1. mine' = mine \/ \E r \in Request, j \in Method : SolverCopy(r, j)
    BY Writers
  <2>2. ASSUME mine[q].mat = q, mine[q].sol[i] = q, mine[q].rows = Cols[q]
        PROVE  mine'[q].mat = q /\ mine'[q].sol[i] = q /\ mine'[q].rows = Cols[q]
    <3>1. ASSUME NEW r \in Request, NEW j \in Method, SolverCopy(r, j)
          PROVE  mine'[q].mat = q /\ mine'[q].sol[i] = q /\ mine'[q].rows = Cols[q]
      <4>1. CASE r # q
        BY <1>2, <2>2, <3>1, <4>1
      <4>2. CASE r = q
        <5>1. mine'[q].mat = q /\ mine'[q].rows = Cols[q]
          BY <1>2, <3>1, <4>2
        <5>2. mine'[q].sol = [mine[q].sol EXCEPT ![j] = q]
          BY <1>2, <3>1, <4>2
        <5> QED
          BY <2>0, <2>2, <5>1, <5>2
      <4> QED
        BY <4>1, <4>2
    <3> QED
      BY <2>1, <2>2, <3>1
  <2>3. ASSUME SolverCopy(q, i)
        PROVE  mine'[q].mat = q /\ mine'[q].sol[i] = q /\ mine'[q].rows = Cols[q]
    <3>1. mine'[q].sol = [mine[q].sol EXCEPT ![i] = q] /\ mine'[q].mat = q /\ mine'[q].rows = Cols[q]
      BY <1>2, <2>3
    <3> QED
      BY <2>0, <3>1
  <2> QED
    BY <1>0, <2>2, <2>3, LabelsSolver DEF SolvedIn
<1> QED
  BY <1>3, <1>4

(* The links between segment 2, P3, the client and the log.                *)

LEMMA StepPublished ==
  ASSUME IInv, OwnPointers, Solved, Published, [Next]_vars
  PROVE  Published'
<1> SUFFICES ASSUME NEW q \in Request
             PROVE  PublishedIn(q)'
  BY DEF Published
<1>0. PublishedIn(q) /\ WorkOK
  BY DEF Published, IInv, TypeOK
<1>1. P2Publish(q) => /\ pc[q]["P2"] = "publish"
                      /\ mine[q].mat = q /\ mine[q].sol = Own(q) /\ mine[q].rows = Cols[q]
  <2>1. SUFFICES ASSUME P2Publish(q)
                 PROVE  /\ pc[q]["P2"] = "publish"
                        /\ mine[q].mat = q /\ mine[q].sol = Own(q) /\ mine[q].rows = Cols[q]
    OBVIOUS
  <2>2. pc[q]["P2"] = "publish" /\ \A i \in Method : pc[q][i] = "done"
    BY <2>1 DEF P2Publish, Goto, IInv, Started, StartedIn
  <2>3. \A i \in Method : mine[q].mat = q /\ mine[q].sol[i] = q /\ mine[q].rows = Cols[q]
    BY <2>2 DEF Solved, SolvedIn
  <2>4. mine[q].sol \in [Method -> Request \cup {None}]
    BY <1>0 DEF WorkOK, Content
  <2> QED
    BY <2>2, <2>3, <2>4, PipelineAssumption DEF Own
<1>2. /\ Copied(mine[q]).mat = mine[q].mat /\ Copied(mine[q]).sol = mine[q].sol
      /\ mine[q].mat = q /\ mine[q].rows = Cols[q] => Copied(mine[q]).rows = RowsCopied(q)
  <2>1. mine[q] \in Content /\ q # None
    BY <1>0, PipelineAssumption DEF WorkOK
  <2> QED
    BY <2>1 DEF Copied, Content, RowsCopied
<1>3. Post(q, "P2", "P2out") => pc[q]["P2"] = "post" /\ pc'[q]["P2"] = "linger"
  BY GotoPc, Names DEF Post, IInv, TypeOK
<1>4. P3Retire(q) => pc[q]["P3"] = "retire"
  BY DEF P3Retire, Goto
<1>5. P3Verify(q) => status[Second(q)] = -1 /\ pc[q]["P3"] = "await"
  BY PointsAt DEF P3Verify, Goto, Ready
<1>6. pc'[q]["P2"] \in {"post", "linger"} =>
        /\ content'[Second(q)].mat = q /\ content'[Second(q)].sol = Own(q)
        /\ content'[Second(q)].rows = RowsCopied(q)
  <2>1. P2Publish(q) => /\ content'[Second(q)].mat = q /\ content'[Second(q)].sol = Own(q)
                        /\ content'[Second(q)].rows = RowsCopied(q)
    BY <1>0, <1>1, <1>2, OwnWrites
  <2>2. CASE content'[Second(q)] = content[Second(q)]
    BY <1>0, <1>3, <2>1, <2>2, LabelsP2 DEF PublishedIn
  <2> QED
    BY <2>1, <2>2, SegmentSteps
<1>7. status'[Second(q)] = -1 => pc'[q]["P2"] = "linger"
  BY <1>0, <1>3, <1>4, SegmentSteps, LabelsP2 DEF PublishedIn
<1>8. pc'[q]["P3"] \in {"send", "log", "write", "retire"} => pc'[q]["P2"] = "linger"
  <2>1. P3WriteLog(q) => pc[q]["P3"] = "write"
    BY DEF P3WriteLog, Goto
  <2> QED
    BY <1>0, <1>5, <2>1, LabelsP2, LabelsP3 DEF PublishedIn
<1>9. pc'[q]["P3"] \in {"send", "log", "write", "retire"} =>
        check'[Second(q)] = content'[Second(q)]
  <2>1. P3WriteLog(q) => pc[q]["P3"] = "write"
    BY DEF P3WriteLog, Goto
  <2>2. P3Verify(q) => check'[Second(q)] = content[Second(q)]
    BY OwnWrites
  <2> QED
    BY <1>0, <1>1, <1>5, <2>1, <2>2, SegmentSteps, LabelsP3 DEF PublishedIn
<1> QED
  BY <1>6, <1>7, <1>8, <1>9 DEF PublishedIn, Own, RowsCopied, Second

LEMMA StepAnswered ==
  ASSUME IInv, OwnPointers, Published, Answered, [Next]_vars
  PROVE  Answered'
<1> SUFFICES ASSUME NEW q \in Request
             PROVE  AnsweredIn(q)'
  BY DEF Answered
<1>0. PublishedIn(q) /\ AnsweredIn(q) /\ EndsOK
  BY DEF Published, Answered, IInv, TypeOK
<1>1. P3Verify(q) => pc[q]["P3"] = "await"
  BY DEF P3Verify, Goto
<1>2. P2Publish(q) => pc[q]["P2"] = "publish"
  BY DEF P2Publish, Goto
<1>3. pc[q]["P2"] = "linger" /\ pc[q]["P3"] # "await" => Final(q)' = Final(q)
  BY <1>1, <1>2, SegmentSteps DEF Final, Second
<1>4. ASSUME NEW r \in Request, P3Send(r)
      PROVE  /\ \A p \in Request : p # r => answer'[p] = answer[p]
             /\ answer'[r] = Final(r)
             /\ pc[r]["P3"] = "send" /\ pc'[r]["P3"] = "log"
  <2>1. at[r]["P3"] = Second(r) /\ pc[r]["P3"] = "send"
    BY <1>4, PointsAt DEF P3Send, Goto
  <2>2. pc'[r]["P3"] = "log"
    BY <1>4, GotoPc, Names DEF P3Send, IInv, TypeOK
  <2> QED
    BY <1>0, <1>4, <2>1, <2>2 DEF P3Send, EndsOK, Final
<1>5. ASSUME NEW r \in Request, P3WriteLog(r)
      PROVE  /\ \A p \in Request : p # r => logged'[p] = logged[p]
             /\ logged'[r] = Final(r)
             /\ pc[r]["P3"] = "write" /\ pc'[r]["P3"] = "retire"
  <2>1. at[r]["P3"] = Second(r) /\ pc[r]["P3"] = "write"
    BY <1>5, PointsAt DEF P3WriteLog, Goto
  <2>2. pc'[r]["P3"] = "retire"
    BY <1>5, GotoPc, Names DEF P3WriteLog, IInv, TypeOK
  <2> QED
    BY <1>0, <1>5, <2>1, <2>2 DEF P3WriteLog, EndsOK, Final
<1>6. answer'[q] = answer[q] \/ P3Send(q)
  BY <1>4, Writers
<1>7. logged'[q] = logged[q] \/ P3WriteLog(q)
  BY <1>5, Writers
<1>8. answer'[q] # None =>
        /\ answer'[q] = Final(q)'
        /\ pc'[q]["P2"] = "linger" /\ check'[Second(q)] = content'[Second(q)]
        /\ pc'[q]["P3"] \in {"log", "write", "retire", "gone"}
  <2>1. CASE P3Send(q)
    <3>1. pc[q]["P2"] = "linger" /\ check[Second(q)] = content[Second(q)]
      BY <1>0, <1>4, <2>1 DEF PublishedIn
    <3> QED
      BY <1>3, <1>4, <2>1, <3>1, LabelsP2 DEF Final, Second
  <2>2. CASE answer'[q] = answer[q] /\ answer[q] # None
    BY <1>0, <1>3, <2>2, LabelsP2, LabelsP3 DEF AnsweredIn, Final, Second
  <2> QED
    BY <1>6, <2>1, <2>2
<1>9. logged'[q] # None =>
        /\ logged'[q] = Final(q)'
        /\ pc'[q]["P2"] = "linger"
        /\ pc'[q]["P3"] \in {"retire", "gone"}
  <2>1. CASE P3WriteLog(q)
    <3>1. pc[q]["P2"] = "linger"
      BY <1>0, <1>5, <2>1 DEF PublishedIn
    <3> QED
      BY <1>3, <1>5, <2>1, <3>1, LabelsP2
  <2>2. CASE logged'[q] = logged[q] /\ logged[q] # None
    BY <1>0, <1>3, <2>2, LabelsP2, LabelsP3 DEF AnsweredIn
  <2> QED
    BY <1>7, <2>1, <2>2
<1> QED
  BY <1>8, <1>9 DEF AnsweredIn, Second
-----------------------------------------------------------------------------
LEMMA InitUInv == Init => UInv
<1> SUFFICES ASSUME Init PROVE UInv
  OBVIOUS
<1> USE PipelineAssumption, Names DEF Init
<1>1. Keyed
  BY DEF Keyed, UniqueKeys, Seg
<1>2. OwnPointers
  BY DEF OwnPointers
<1>3. ASSUME NEW r \in Request
      PROVE  /\ status[First(r)] = 0 /\ pc[r]["P1"] = "unborn"
             /\ \A i \in Method : pc[r][i] = "unborn"
  BY DEF First, Seg
<1>4. Solved
  BY DEF Solved, SolvedIn
<1>5. Published
  BY DEF Published, PublishedIn, Second, Seg
<1>6. Answered
  BY DEF Answered, AnsweredIn
<1>7. MatrixReady /\ Held
  <2> HIDE DEF Init
  <2>1. ASSUME NEW r \in Request
        PROVE  status[First(r)] # -1
    BY <1>3
  <2>2. ASSUME NEW r \in Request
        PROVE  MatrixReadyIn(r) /\ HeldIn(r)
    BY <1>3, <2>1 DEF MatrixReadyIn, HeldIn
  <2> QED
    BY <2>2 DEF MatrixReady, Held
<1> QED
  BY <1>1, <1>2, <1>4, <1>5, <1>6, <1>7 DEF UInv

LEMMA StepUInv == IInv /\ UInv /\ [Next /\ UniqueKeys']_vars => UInv'
<1> SUFFICES ASSUME IInv, UInv, [Next /\ UniqueKeys']_vars PROVE UInv'
  OBVIOUS
<1>1. [Next]_vars /\ UniqueKeys'
  BY DEF UInv, Keyed, UniqueKeys, vars
<1> QED
  BY <1>1, StepPointers, StepReady, StepHeld, StepSolved, StepPublished, StepAnswered
  DEF UInv

\* Under unique keys both invariants hold throughout.
THEOREM UniqueInvariance == UniqueSpec => [](IInv /\ UInv)
<1>1. [Next /\ UniqueKeys']_vars => [Next]_vars
  OBVIOUS
<1> QED
  BY <1>1, InitIInv, StepIInv, InitUInv, StepUInv, PTL DEF UniqueSpec

\* Requests whose keys differ never have the same segment attached, at any of
\* the shmat calls of mainThread and problemSolver.
THEOREM SegmentsArePrivate == UniqueSpec => []PrivateSegments
<1>1. UInv => PrivateSegments
  BY DEF UInv, OwnPointers, PrivateSegments
<1> QED
  BY <1>1, UniqueInvariance, PTL

\* What P3 sends is the matrix of its own request, its solutions and the error
\* terms of these solutions.
THEOREM AnswersAreOwn == UniqueSpec => []OwnAnswer
<1>1. ASSUME UInv, NEW r \in Request, answer[r] # None
      PROVE  /\ answer[r].data.mat = r
             /\ answer[r].data.sol = [i \in Method |-> r]
             /\ answer[r].verify = answer[r].data
  <2>1. answer[r] = Final(r) /\ pc[r]["P2"] = "linger" /\ check[Second(r)] = content[Second(r)]
    BY <1>1 DEF UInv, Answered, AnsweredIn
  <2>2. content[Second(r)].mat = r /\ content[Second(r)].sol = Own(r)
    BY <1>1, <2>1 DEF UInv, Published, PublishedIn
  <2> QED
    BY <2>1, <2>2 DEF Final, Own
<1>2. UInv => OwnAnswer
  BY <1>1 DEF OwnAnswer
<1> QED
  BY <1>2, UniqueInvariance, PTL

\* If its matrix has no more columns than rows a client gets all of its solutions: the
\* copy into segment 2 takes as many rows of them as the matrix has.
THEOREM SolutionsAreWhole == UniqueSpec => []WholeSolution
<1>1. ASSUME UInv, NEW r \in Request, answer[r] # None, Cols[r] <= Rows[r]
      PROVE  answer[r].data.rows = Cols[r]
  <2>1. answer[r] = Final(r) /\ pc[r]["P2"] = "linger"
    BY <1>1 DEF UInv, Answered, AnsweredIn
  <2>2. content[Second(r)].rows = RowsCopied(r)
    BY <1>1, <2>1 DEF UInv, Published, PublishedIn
  <2>3. RowsCopied(r) = Cols[r]
    BY <1>1, PipelineAssumption DEF RowsCopied
  <2> QED
    BY <2>1, <2>2, <2>3 DEF Final
<1>2. UInv => WholeSolution
  BY <1>1 DEF WholeSolution
<1> QED
  BY <1>2, UniqueInvariance, PTL

\* The log of the server agrees with what the client got.
THEOREM LogIsAnswer == UniqueSpec => []LogAgrees
<1>1. UInv => LogAgrees
  BY DEF UInv, Answered, AnsweredIn, LogAgrees
<1> QED
  BY <1>1, UniqueInvariance, PTL

\* The matrix that the solver threads read stays in segment 1 until they are
\* done, whatever other processes do.
THEOREM MatrixIsHeld == UniqueSpec => MatrixHeld
<1> DEFINE Same == \A r \in Request, i \in Method :
                     pc[r][i] \in {"unlock", "solve", "copy"} =>
                       content'[at[r][i]].mat = content[at[r][i]].mat
<1>1. ASSUME IInv, UInv, UInv', [Next]_vars, NEW r \in Request, NEW i \in Method,
             pc[r][i] \in {"unlock", "solve", "copy"}
      PROVE  content'[at[r][i]].mat = content[at[r][i]].mat
  <2>1. at[r][i] = First(r)
    BY <1>1, PointsAt DEF UInv
  <2>2. content[First(r)].mat = r
    BY <1>1 DEF UInv, MatrixReady, MatrixReadyIn
  <2>3. pc'[r][i] # "unborn"
    BY <1>1, LabelsSolver
  <2>4. content'[First(r)].mat = r
    BY <1>1, <2>3 DEF UInv, MatrixReady, MatrixReadyIn, First
  <2> QED
    BY <2>1, <2>2, <2>4
<1>2. IInv /\ UInv /\ UInv' /\ [Next]_vars => [Same]_vars
  BY <1>1
<1>3. [Next /\ UniqueKeys']_vars => [Next]_vars
  OBVIOUS
<1> QED
  BY <1>2, <1>3, UniqueInvariance, PTL DEF UniqueSpec, MatrixHeld
-----------------------------------------------------------------------------
(* Refinement                                                              *)

\* The conditions that stageBar tests.
Done(r)    == \A i \in Method : pc[r][i] = "done"
Lingers(r) == pc[r]["P1"] = "linger"
Over(r)    == pc[r]["P3"] \in {"log", "write", "retire", "gone"}
StageOf(r) ==
  IF answer[r] # None THEN "replied"
  ELSE IF Over(r) THEN "dropped"
  ELSE IF Done(r) THEN "solved"
  ELSE IF Lingers(r) THEN "generated"
  ELSE "received"

\* A step concerns one request only.
LEMMA OneRequest ==
  ASSUME IInv, [Next]_vars
  PROVE  \/ pc' = pc /\ answer' = answer
         \/ \E r \in Request : \A q \in Request :
              q # r => pc'[q] = pc[q] /\ answer'[q] = answer[q]
<1> DEFINE Only(r) == \A q \in Request : q # r => pc'[q] = pc[q] /\ answer'[q] = answer[q]
<1>0. ControlOK /\ EndsOK
  BY DEF IInv, TypeOK
<1>1. CASE UNCHANGED vars
  BY <1>1 DEF vars, ends
<1>2. ASSUME NEW r \in Request, NEW p \in Thread, NEW from, NEW to,
             Goto(r, p, from, to), answer' = answer
      PROVE  Only(r)
  BY <1>0, <1>2 DEF Goto, ControlOK
<1>3. ASSUME NEW r \in Request, MainThread(r)
      PROVE  Only(r)
  BY <1>0, <1>3 DEF MainThread, DrawKeys, ForkP1, ForkP2, ForkP3, Fork, Goto, ControlOK, ends
<1>4. ASSUME NEW r \in Request, P1(r)
      PROVE  Only(r)
  BY <1>2, <1>4, Names DEF P1, P1Open, P1NoRoom, P1Fill, Post, ends
<1>5. ASSUME NEW r \in Request, P2(r)
      PROVE  Only(r)
  <2>1. CASE P2Start(r)
    BY <1>0, <2>1 DEF P2Start, ControlOK, ends
  <2> QED
    BY <1>2, <1>5, <2>1, Names DEF P2, P2Open, P2Release, P2Remove, P2Create, P2Publish,
       Post, ends
<1>6. ASSUME NEW r \in Request, P3(r)
      PROVE  Only(r)
  <2>1. CASE P3Send(r)
    BY <1>0, <2>1 DEF P3Send, Goto, ControlOK, EndsOK
  <2> QED
    BY <1>2, <1>6, <2>1, Names DEF P3, P3Open, P3Verify, P3SendToNobody, P3LockLog,
       P3WriteLog, P3Retire, ends
<1>7. ASSUME NEW r \in Request, NEW i \in Method, Solver(r, i)
      PROVE  Only(r)
  BY <1>2, <1>7, Names DEF Solver, SolverLock, SolverAttach, SolverUnlock, SolverSolve,
     SolverCopy, ends
<1>8. ASSUME NEW r \in Request, NEW p \in {"T", "P1", "P2"}, Leave(r, p)
      PROVE  Only(r)
  BY <1>2, <1>8, Names DEF Leave, ends
<1>9. ASSUME NEW r \in Request, ClientLeaves(r)
      PROVE  Only(r)
  BY <1>9 DEF ClientLeaves
<1> HIDE DEF Only
<1>10. CASE Next
  <2>1. \E r \in Request : Only(r)
    BY <1>3, <1>4, <1>5, <1>6, <1>7, <1>8, <1>9, <1>10 DEF Next
  <2> QED
    BY <2>1 DEF Only
<1> QED
  BY <1>1, <1>10

\* The stage of a request moves as MatrixService lets it.
LEMMA StageMoves ==
  ASSUME IInv, UInv, [Next]_vars, NEW r \in Request
  PROVE  \/ StageOf(r)' = StageOf(r) /\ answer'[r] = answer[r]
         \/ /\ answer'[r] = answer[r]
            /\ <<StageOf(r), StageOf(r)'>> \in {<<"received", "generated">>,
                 <<"generated", "solved">>, <<"solved", "dropped">>}
         \/ /\ StageOf(r) = "solved" /\ StageOf(r)' = "replied"
            /\ answer'[r] # None
<1> USE DEF UInv
<1>1. Done(r) => Done(r)'
  BY LabelsSolver DEF Done
<1>2. Over(r) => Over(r)'
  BY LabelsP3 DEF Over
<1>3. pc[r]["P3"] = "send" => Done(r)
  BY DEF Published, PublishedIn, IInv, Started, StartedIn, Done
<1>4. ~Over(r) /\ Over(r)' => Done(r)
  <2>1. P3WriteLog(r) => pc[r]["P3"] = "write"
    BY DEF P3WriteLog, Goto
  <2> QED
    BY <1>3, <2>1, LabelsP3 DEF Over
<1>5. ~Done(r) /\ Done(r)' => Lingers(r)
  <2>1. SUFFICES ASSUME NEW i \in Method, pc[r][i] # "done", pc'[r][i] = "done"
                 PROVE  Lingers(r)
    BY DEF Done
  <2>2. pc[r][i] = "copy"
    BY <2>1, LabelsSolver DEF SolverCopy, Goto
  <2> QED
    BY <2>1, <2>2 DEF Held, HeldIn, Lingers
<1>6. Lingers(r) /\ ~Lingers(r)' => Done(r)
  BY LabelsP1, PointsAt DEF Held, HeldIn, Lingers, Done
<1>7. answer[r] # None => Over(r)
  BY DEF Answered, AnsweredIn, Over
<1>8. answer'[r] = answer[r] \/ /\ pc[r]["P3"] = "send"
                                /\ answer[r] = None /\ answer'[r] # None
  <2>1. CASE answer' = answer
    BY <2>1
  <2>2. ASSUME NEW q \in Request, P3Send(q), q # r
        PROVE  answer'[r] = answer[r]
    BY <2>2 DEF P3Send, IInv, TypeOK, EndsOK
  <2>3. CASE P3Send(r)
    <3>1. pc[r]["P3"] = "send"
      BY <2>3 DEF P3Send, Goto
    <3>2. answer[r] = None
      BY <1>7, <3>1 DEF Over
    <3>3. answer'[r] = [data |-> content[at[r]["P3"]], verify |-> check[at[r]["P3"]]]
      BY <2>3 DEF P3Send, IInv, TypeOK, EndsOK
    <3>4. at[r]["P3"] \in Seg
      <4>1. at[r]["P3"] = Second(r)
        BY <3>1, PointsAt
      <4> QED
        BY <4>1 DEF Second, Seg
    <3>5. answer'[r] # None
      BY <3>3, <3>4, PipelineAssumption DEF Report, IInv, TypeOK, CellsOK
    <3> QED
      BY <3>1, <3>2, <3>5
  <2> QED
    BY <2>1, <2>2, <2>3, Writers
<1>9. CASE answer'[r] # answer[r]
  <2>1. ~Over(r) /\ Done(r)
    BY <1>3, <1>8, <1>9 DEF Over
  <2> QED
    BY <1>8, <1>9, <2>1 DEF StageOf
<1>10. CASE answer'[r] = answer[r]
  BY <1>1, <1>2, <1>4, <1>5, <1>6, <1>10 DEF StageOf
<1> QED
  BY <1>9, <1>10

LEMMA StepService ==
  ASSUME IInv, UInv, UInv', [Next]_vars
  PROVE  [Service!Next]_<<stageBar, replyBar>>
<1> DEFINE Reply(r) == IF answer[r] = None THEN None
                       ELSE [mat |-> answer[r].data.mat, sol |-> answer[r].data.sol]
<1>1. /\ stageBar = [r \in Request |-> StageOf(r)]
      /\ replyBar = [r \in Request |-> Reply(r)]
      /\ stageBar' = [r \in Request |-> StageOf(r)']
      /\ replyBar' = [r \in Request |-> Reply(r)']
  BY DEF stageBar, replyBar, StageOf, Over, Done, Lingers
<1>2. CASE pc' = pc /\ answer' = answer
  BY <1>1, <1>2 DEF StageOf, Over, Done, Lingers
<1>3. ASSUME NEW r \in Request,
             \A q \in Request : q # r => pc'[q] = pc[q] /\ answer'[q] = answer[q]
      PROVE  [Service!Next]_<<stageBar, replyBar>>
  <2>1. \A q \in Request : q # r => StageOf(q)' = StageOf(q) /\ Reply(q)' = Reply(q)
    BY <1>3 DEF StageOf, Over, Done, Lingers
  <2>2. answer'[r] = answer[r] => Reply(r)' = Reply(r)
    OBVIOUS
  <2>3. answer'[r] # None => Reply(r)' = [mat |-> r, sol |-> [i \in Method |-> r]]
    <3>1. SUFFICES ASSUME answer'[r] # None
                   PROVE  answer'[r].data.mat = r /\ answer'[r].data.sol = Own(r)
      BY DEF Own
    <3>2. answer'[r] = Final(r)' /\ pc'[r]["P2"] = "linger"
      BY <3>1 DEF UInv, Answered, AnsweredIn
    <3>3. content'[Second(r)].mat = r /\ content'[Second(r)].sol = Own(r)
      BY <3>2 DEF UInv, Published, PublishedIn, Second, Own
    <3> QED
      BY <3>2, <3>3 DEF Final, Second
  <2> HIDE DEF Reply
  <2>4. ASSUME StageOf(r)' = StageOf(r), Reply(r)' = Reply(r)
        PROVE  stageBar' = stageBar /\ replyBar' = replyBar
    BY <1>1, <2>1, <2>4
  <2>5. ASSUME NEW from, NEW to, StageOf(r) = from, StageOf(r)' = to
        PROVE  Service!Advance(r, from, to)
    BY <1>1, <2>1, <2>5 DEF Service!Advance
  <2>6. ASSUME Reply(r)' = Reply(r)
        PROVE  replyBar' = replyBar
    BY <1>1, <2>1, <2>6
  <2>7. CASE StageOf(r)' = StageOf(r) /\ answer'[r] = answer[r]
    BY <2>2, <2>4, <2>7
  <2>8. CASE /\ answer'[r] = answer[r]
             /\ <<StageOf(r), StageOf(r)'>> \in {<<"received", "generated">>,
                  <<"generated", "solved">>, <<"solved", "dropped">>}
    <3>1. replyBar' = replyBar
      BY <2>2, <2>6, <2>8
    <3>2. \/ Service!Advance(r, "received", "generated")
          \/ Service!Advance(r, "generated", "solved")
          \/ Service!Advance(r, "solved", "dropped")
      BY <2>5, <2>8
    <3> QED
      BY <3>1, <3>2 DEF Service!Next, Service!Generate, Service!Solve, Service!Drop
  <2>9. CASE /\ StageOf(r) = "solved" /\ StageOf(r)' = "replied"
             /\ answer'[r] # None
    <3>1. Service!Advance(r, "solved", "replied")
      BY <2>5, <2>9
    <3>2. replyBar' = [replyBar EXCEPT ![r] = [mat |-> r, sol |-> [i \in Method |-> r]]]
      BY <1>1, <2>1, <2>3, <2>9
    <3> QED
      BY <3>1, <3>2 DEF Service!Next, Service!Reply
  <2> QED
    BY <2>7, <2>8, <2>9, StageMoves
<1> QED
  BY <1>2, <1>3, OneRequest

\* The processes, keys, segments and statuses of the server implement what
\* MatrixService promises each client.
THEOREM PipelineImplementsService == UniqueSpec => ImplementsService
<1>1. Init => Service!Init
  BY Names, PipelineAssumption DEF Init, Service!Init, stageBar, replyBar, Thread, Child
<1>2. IInv /\ UInv /\ UInv' /\ [Next]_vars => [Service!Next]_<<stageBar, replyBar>>
  BY StepService
<1>3. [Next /\ UniqueKeys']_vars => [Next]_vars
  OBVIOUS
<1> QED
  BY <1>1, <1>2, <1>3, UniqueInvariance, PTL DEF UniqueSpec, ImplementsService, Service!Spec
-----------------------------------------------------------------------------
(***************************************************************************)
(* Nobody waits for ever: when no two requests draw the same key and there *)
(* is room for the segments of all, a process that polls or that retries   *)
(* shmget is waiting for one of its own request that can go on, and a P3   *)
(* that waits for mutex for another P3 that can.                           *)
(***************************************************************************)

\* As many segments as the requests can have.
Ample == IsFiniteSet(Request) /\ 2 * Cardinality(Request) <= MaxSegments

Early == {"unborn", "open", "await", "join", "remove"}
Late  == {"publish", "post", "linger"}

Places(r) ==
  /\ pc[r]["T"] \in {"start", "fork1", "fork2", "fork3", "linger"}
  /\ pc[r]["P1"] \in {"unborn", "create", "fill", "post", "linger", "gone"}
  /\ pc[r]["P2"] \in Early \cup {"create"} \cup Late
  /\ pc[r]["P3"] \in {"unborn", "open", "await", "send", "log", "write", "retire", "gone"}
  /\ \A i \in Method : pc[r][i] \in {"unborn", "lock", "attach", "unlock", "solve", "copy", "done"}
  /\ pc[r]["T"] \in {"fork2", "fork3", "linger"} => pc[r]["P1"] # "unborn"
  /\ pc[r]["T"] \in {"fork3", "linger"} => pc[r]["P2"] # "unborn"
  /\ pc[r]["T"] = "linger" => pc[r]["P3"] # "unborn"
  /\ pc[r]["P2"] = "join" => \A i \in Method : pc[r][i] # "unborn"

\* A segment has its key from the time its process creates it until it is removed: the
\* first by P2, when P1 may end, the second by P3.
Listed(r, n) == \E k \in Key : table[n][k] = <<r, n>>
FirstIn(r) ==
  /\ Listed(r, 1) => First(r) \in made
  /\ First(r) \in made => pc[r]["P1"] \notin {"unborn", "create"}
  /\ pc[r]["P2"] \notin {"unborn", "open"} => pc[r]["P1"] \notin {"unborn", "create"}
  /\ pc[r]["P1"] \notin {"unborn", "create"} /\ pc[r]["P2"] \in Early => Listed(r, 1)
  /\ pc[r]["P2"] \notin Early => ~Listed(r, 1)
  /\ pc[r]["P1"] = "gone" => Done(r)
  /\ \A i \in Method : pc[r][i] \in {"unborn", "lock"} => lock[r][i] = 0
SecondIn(r) ==
  /\ Listed(r, 2) => Second(r) \in made
  /\ Second(r) \in made => pc[r]["P2"] \in Late
  /\ pc[r]["P3"] \notin {"unborn", "open"} => pc[r]["P2"] \in Late
  /\ pc[r]["P2"] \in Late /\ pc[r]["P3"] # "gone" => Listed(r, 2)
  /\ pc[r]["P3"] = "gone" /\ client[r] = "served" => ~Listed(r, 2)

\* P3 is past its sends only if the client got its answer or has left.
SentIn(r) ==
  /\ Over(r) => answer[r] # None \/ client[r] = "left"
  /\ client[r] = "served" => Over(r)

Ways(r) == Places(r) /\ FirstIn(r) /\ SecondIn(r) /\ SentIn(r)
LogTaken == logsem = 0 => \E r \in Request : pc[r]["P3"] = "write"
WaitInv == LogTaken /\ \A r \in Request : Ways(r)

\* What the actions of each process and thread wait for is there.
P1Ready(r) == pc[r]["P1"] \in {"create", "fill", "post"}
P2Ready(r) ==
  \/ pc[r]["P2"] \in {"remove", "publish", "post"}
  \/ pc[r]["P2"] = "open" /\ Lookup(r, 1) # None
  \/ pc[r]["P2"] = "await" /\ Ready(at[r]["P2in"])
  \/ pc[r]["P2"] = "join" /\ Joined(r)
  \/ pc[r]["P2"] = "create" /\ (Lookup(r, 2) # None \/ Room)
SolverReady(r, i) ==
  \/ pc[r][i] \in {"unlock", "solve", "copy"}
  \/ pc[r][i] = "lock" /\ lock[r][i] = 0
  \/ pc[r][i] = "attach" /\ Lookup(r, 1) # None
P3Ready(r) ==
  \/ pc[r]["P3"] \in {"write", "retire"}
  \/ pc[r]["P3"] = "send" /\ client[r] \in {"waiting", "left"}
  \/ pc[r]["P3"] = "open" /\ Lookup(r, 2) # None
  \/ pc[r]["P3"] = "await" /\ Ready(at[r]["P3"])
  \/ pc[r]["P3"] = "log" /\ LogFree
RequestReady(r) ==
  \/ pc[r]["T"] \in {"fork1", "fork2", "fork3"}
  \/ P1Ready(r) \/ P2Ready(r) \/ P3Ready(r) \/ \E i \in Method : SolverReady(r, i)

\* Some process of each request that is neither answered nor given up can go on; once it is
\* answered its P3, or the P3 that writes the log, until no key finds its segments.
MovesOn ==
  \A r \in Request :
    /\ pc[r]["T"] # "start" /\ answer[r] = None /\ client[r] = "waiting" => RequestReady(r)
    /\ client[r] = "served" =>
         \/ pc[r]["P3"] = "gone" /\ ~Listed(r, 1) /\ ~Listed(r, 2)
         \/ P3Ready(r) \/ \E q \in Request : P3Ready(q) /\ pc[q]["P3"] = "write"

\* What a step leaves of a request.
DirSame(q, n) == (Listed(q, n)' <=> Listed(q, n)) /\ (<<q, n>> \in made' <=> <<q, n>> \in made)
EndSame(q) == lock'[q] = lock[q] /\ client'[q] = client[q] /\ answer'[q] = answer[q]
PcSame(q) == \A t \in Thread : pc'[q][t] = pc[q][t]
Shift(r, p, from, to) ==
  /\ pc[r][p] = from
  /\ \A q \in Request, t \in Thread : pc'[q][t] = IF q = r /\ t = p THEN to ELSE pc[q][t]

LEMMA ElsewhereSame ==
  ASSUME NEW q \in Request, Ways(q), PcSame(q), EndSame(q), DirSame(q, 1), DirSame(q, 2)
  PROVE  Ways(q)'
<1>1. /\ pc'[q]["T"] = pc[q]["T"] /\ pc'[q]["P1"] = pc[q]["P1"] /\ pc'[q]["P2"] = pc[q]["P2"]
      /\ pc'[q]["P3"] = pc[q]["P3"] /\ \A i \in Method : pc'[q][i] = pc[q][i]
  BY Names DEF PcSame
<1>2. Places(q)'
  BY <1>1 DEF Ways, Places
<1>3. FirstIn(q)'
  BY <1>1 DEF Ways, FirstIn, Done, DirSame, EndSame, First
<1>4. SecondIn(q)' /\ SentIn(q)'
  BY <1>1 DEF Ways, SecondIn, SentIn, Over, DirSame, EndSame, Second
<1> QED
  BY <1>2, <1>3, <1>4 DEF Ways

LEMMA DirKept ==
  ASSUME UNCHANGED <<table, made>>, NEW q, NEW n
  PROVE  DirSame(q, n)
BY DEF DirSame, Listed

LEMMA CreateDir ==
  ASSUME DirOK, NEW r \in Request, NEW n \in {1, 2}, NEW e \in End, key[r] \in [{1, 2} -> Key],
         Create(r, n, e)
  PROVE  /\ Listed(r, n)' /\ <<r, n>> \in made'
         /\ \A q \in Request, m \in {1, 2} : q # r \/ m # n => DirSame(q, m)
<1>1. /\ \A m \in {1, 2}, k \in Key :
           table'[m][k] = IF m = n /\ k = key[r][n] THEN <<r, n>> ELSE table[m][k]
      /\ made' = made \cup {<<r, n>>} /\ table[n][key[r][n]] = None /\ key[r][n] \in Key
  BY DEF Create, Lookup, Directory, DirOK
<1>2. ASSUME NEW q \in Request, NEW m \in {1, 2}, q # r \/ m # n
      PROVE  DirSame(q, m)
  <2>1. <<q, m>> # <<r, n>> /\ <<q, m>> # None
    BY <1>2, PipelineAssumption DEF Seg
  <2>2. \A k \in Key : table'[m][k] = <<q, m>> <=> table[m][k] = <<q, m>>
    BY <1>1, <2>1
  <2> QED
    BY <1>1, <2>1, <2>2 DEF DirSame, Listed
<1> QED
  BY <1>1, <1>2 DEF Listed

LEMMA RemoveDir ==
  ASSUME DirOK, NEW r \in Request, NEW n \in {1, 2}, Remove(<<r, n>>), made' = made
  PROVE  /\ ~Listed(r, n)'
         /\ \A q \in Request, m \in {1, 2} : q # r \/ m # n => DirSame(q, m)
<1>1. \A m \in {1, 2}, k \in Key :
        table'[m][k] = IF table[m][k] = <<r, n>> THEN None ELSE table[m][k]
  BY DEF Remove
<1>2. \A q \in Request, m \in {1, 2} : <<q, m>> # None /\ (q # r \/ m # n => <<q, m>> # <<r, n>>)
  BY PipelineAssumption DEF Seg
<1>3. \A q \in Request, m \in {1, 2} : q # r \/ m # n =>
        \A k \in Key : table'[m][k] = <<q, m>> <=> table[m][k] = <<q, m>>
  BY <1>1, <1>2
<1>4. \A q \in Request, m \in {1, 2} : q # r \/ m # n => DirSame(q, m)
  BY <1>3 DEF DirSame, Listed
<1>5. ~Listed(r, n)'
  BY <1>1, <1>2 DEF Listed
<1> QED
  BY <1>4, <1>5

\* A segment that is found is the one that its own request has created.
LEMMA ListedFound ==
  ASSUME IInv, Keyed, NEW r \in Request, NEW n \in {1, 2}, key[r] \in [{1, 2} -> Key]
  PROVE  Lookup(r, n) # None <=> Listed(r, n)
<1>1. <<r, n>> # None
  BY PipelineAssumption DEF Seg
<1>2. Listed(r, n) => Lookup(r, n) = <<r, n>>
  BY DEF Listed, Keyed, Lookup, Directory
<1>3. Lookup(r, n) # None => Lookup(r, n) = <<r, n>>
  BY OwnSegment
<1>4. Lookup(r, n) = <<r, n>> => Listed(r, n)
  BY DEF Listed, Lookup, Directory
<1> QED
  BY <1>1, <1>2, <1>3, <1>4

LEMMA HasKeys ==
  ASSUME IInv, NEW r \in Request, \/ pc[r]["P1"] # "unborn" \/ pc[r]["P2"] # "unborn"
                                  \/ pc[r]["P3"] # "unborn" \/ pc[r]["T"] # "start"
  PROVE  key[r] \in [{1, 2} -> Key]
BY DEF IInv, Started, StartedIn

\* While a segment has not been made yet there is room for it.
LEMMA RoomLeft ==
  ASSUME DirOK, Ample, NEW s \in Seg, s \notin made
  PROVE  Room
<1>1. IsFiniteSet({1, 2}) /\ Cardinality({1, 2}) = 2
  <2>1. IsFiniteSet({1}) /\ Cardinality({1}) = 1
    BY FS_Singleton
  <2>2. {1, 2} = {1} \cup {2} /\ 2 \notin {1}
    OBVIOUS
  <2> QED
    BY <2>1, <2>2, FS_AddElement
<1>2. Cardinality(Request) \in Nat
  BY FS_CardinalityType DEF Ample
<1>3. IsFiniteSet(Seg) /\ Cardinality(Seg) = Cardinality(Request) * 2
  BY <1>1, FS_Product DEF Ample, Seg
<1>4. IsFiniteSet(Seg \ {s}) /\ Cardinality(Seg \ {s}) = Cardinality(Seg) - 1
  BY <1>3, FS_RemoveElement
<1>5. Live \in SUBSET (Seg \ {s})
  BY DEF Live, DirOK
<1>6. Cardinality(Live) <= Cardinality(Seg \ {s}) /\ Cardinality(Live) \in Nat
  BY <1>4, <1>5, FS_Subset, FS_CardinalityType
<1> QED
  BY <1>2, <1>3, <1>4, <1>6, PipelineAssumption DEF Room, Ample

\* A step of one request that leaves the others as they are.
LEMMA OthersKept ==
  ASSUME \A q \in Request : Ways(q), NEW r \in Request, Ways(r)',
         \A q \in Request : q # r => PcSame(q) /\ EndSame(q) /\ DirSame(q, 1) /\ DirSame(q, 2)
  PROVE  \A q \in Request : Ways(q)'
BY ElsewhereSame

LEMMA ShiftOthers ==
  ASSUME NEW r \in Request, NEW p, NEW from, NEW to, Shift(r, p, from, to)
  PROVE  /\ \A q \in Request : q # r => PcSame(q)
         /\ \A t \in Thread : pc'[r][t] = IF t = p THEN to ELSE pc[r][t]
BY DEF Shift, PcSame

LEMMA MainWays ==
  ASSUME IInv, \A q \in Request : Ways(q), NEW r \in Request, MainThread(r)
  PROVE  \A q \in Request : Ways(q)'
<1>1. UNCHANGED <<table, made, lock, client, answer>>
  BY DEF MainThread, DrawKeys, ForkP1, ForkP2, ForkP3, Fork, dir, work, ends
<1>2. \A q \in Request : EndSame(q) /\ DirSame(q, 1) /\ DirSame(q, 2)
  BY <1>1, DirKept DEF EndSame
<1>3. /\ \A q \in Request : q # r => PcSame(q)
      /\ \A i \in Method : pc'[r][i] = pc[r][i]
      /\ \/ /\ pc[r]["T"] = "start" /\ pc'[r]["T"] = "fork1" /\ pc'[r]["P1"] = pc[r]["P1"]
            /\ pc'[r]["P2"] = pc[r]["P2"] /\ pc'[r]["P3"] = pc[r]["P3"]
         \/ /\ pc[r]["T"] = "fork1" /\ pc'[r]["T"] = "fork2" /\ pc'[r]["P1"] = "create"
            /\ pc'[r]["P2"] = pc[r]["P2"] /\ pc'[r]["P3"] = pc[r]["P3"]
         \/ /\ pc[r]["T"] = "fork2" /\ pc'[r]["T"] = "fork3" /\ pc'[r]["P2"] = "open"
            /\ pc'[r]["P1"] = pc[r]["P1"] /\ pc'[r]["P3"] = pc[r]["P3"]
         \/ /\ pc[r]["T"] = "fork3" /\ pc'[r]["T"] = "linger" /\ pc'[r]["P3"] = "open"
            /\ pc'[r]["P1"] = pc[r]["P1"] /\ pc'[r]["P2"] = pc[r]["P2"]
  <2>0. ControlOK
    BY DEF IInv, TypeOK
  <2>1. CASE DrawKeys(r)
    BY <2>0, <2>1, GotoPc, Names DEF DrawKeys, PcSame
  <2>2. CASE ForkP1(r)
    BY <2>0, <2>2, Names DEF ForkP1, Fork, ControlOK, PcSame
  <2>3. CASE ForkP2(r)
    BY <2>0, <2>3, Names DEF ForkP2, Fork, ControlOK, PcSame
  <2>4. CASE ForkP3(r)
    BY <2>0, <2>4, Names DEF ForkP3, Fork, ControlOK, PcSame
  <2> QED
    BY <2>1, <2>2, <2>3, <2>4 DEF MainThread
<1>4. StartedIn(r)
  BY DEF IInv, Started
<1>5. Ways(r)
  OBVIOUS
<1>6. Places(r)'
  BY <1>3, <1>4, <1>5 DEF Ways, Places, StartedIn, Early, Late
<1>7. FirstIn(r)'
  <2>1. /\ Listed(r, 1)' <=> Listed(r, 1)
        /\ First(r) \in made' <=> First(r) \in made
        /\ lock'[r] = lock[r] /\ FirstIn(r)
    BY <1>2, <1>5 DEF DirSame, EndSame, First, Ways
  <2>2. Done(r)' <=> Done(r)
    BY <1>3 DEF Done
  <2>3. CASE pc[r]["T"] = "start" \/ pc[r]["T"] = "fork3"
    BY <1>3, <2>1, <2>2, <2>3 DEF FirstIn
  <2>4. CASE pc[r]["T"] = "fork1"
    BY <1>3, <1>4, <2>1, <2>2, <2>4 DEF FirstIn, StartedIn, Early
  <2>5. CASE pc[r]["T"] = "fork2"
    BY <1>3, <1>4, <1>5, <2>1, <2>2, <2>5 DEF FirstIn, StartedIn, Early, Ways, Places
  <2> QED
    BY <1>3, <2>3, <2>4, <2>5
<1>8. SecondIn(r)' /\ SentIn(r)'
  BY <1>2, <1>3, <1>4, <1>5 DEF Ways, SecondIn, SentIn, StartedIn, Late, EndSame, DirSame, Over, Second
<1> QED
  BY <1>2, <1>3, <1>6, <1>7, <1>8, OthersKept DEF Ways

\* A step of P1, once its effects are known.
LEMMA P1Shift ==
  ASSUME IInv, \A q \in Request : Ways(q), NEW r \in Request, NEW from, NEW to,
         Shift(r, "P1", from, to), \A q \in Request : EndSame(q) /\ DirSame(q, 2),
         \A q \in Request : q # r => DirSame(q, 1),
         \/ <<from, to>> \in {<<"fill", "post">>, <<"post", "linger">>} /\ DirSame(r, 1)
         \/ from = "linger" /\ to = "gone" /\ Done(r) /\ DirSame(r, 1)
         \/ from = "create" /\ to = "fill" /\ Listed(r, 1)' /\ First(r) \in made'
  PROVE  \A q \in Request : Ways(q)'
<1>1. /\ \A q \in Request : q # r => PcSame(q)
      /\ pc[r]["P1"] = from /\ pc'[r]["P1"] = to /\ pc'[r]["T"] = pc[r]["T"]
      /\ pc'[r]["P2"] = pc[r]["P2"] /\ pc'[r]["P3"] = pc[r]["P3"]
      /\ \A i \in Method : pc'[r][i] = pc[r][i]
  BY ShiftOthers, Names DEF Shift
<1>2. Ways(r)
  OBVIOUS
<1>3. Places(r)'
  BY <1>1, <1>2 DEF Ways, Places
<1>4. SecondIn(r)' /\ SentIn(r)'
  BY <1>1, <1>2 DEF Ways, SecondIn, SentIn, EndSame, DirSame, Over, Second
<1>5. FirstIn(r)'
  BY <1>1, <1>2 DEF Ways, FirstIn, EndSame, DirSame, Done, First, Early
<1> QED
  BY <1>1, <1>3, <1>4, <1>5, OthersKept DEF Ways

LEMMA P1Ways ==
  ASSUME IInv, UInv, Ample, \A q \in Request : Ways(q), NEW r \in Request,
         P1(r) \/ Leave(r, "P1")
  PROVE  \A q \in Request : Ways(q)'
<1>0. ControlOK /\ DirOK /\ "P1" \in Thread /\ Ways(r)
  BY Names DEF IInv, TypeOK
<1>1. UNCHANGED <<lock, client, answer>>
  BY DEF P1, P1Open, P1NoRoom, P1Fill, Post, Leave, work, ends
<1>2. \A q \in Request : EndSame(q)
  BY <1>1 DEF EndSame
<1>3. ASSUME UNCHANGED <<table, made>> PROVE \A q \in Request : DirSame(q, 1) /\ DirSame(q, 2)
  BY <1>3, DirKept
<1>4. CASE P1Fill(r)
  <2>1. Shift(r, "P1", "fill", "post")
    BY <1>0, <1>4, GotoPc DEF P1Fill, Shift
  <2> QED
    BY <1>2, <1>3, <1>4, <2>1, P1Shift DEF P1Fill, dir
<1>5. CASE Post(r, "P1", "P1")
  <2>1. Shift(r, "P1", "post", "linger")
    BY <1>0, <1>5, GotoPc DEF Post, Shift
  <2> QED
    BY <1>2, <1>3, <1>5, <2>1, P1Shift DEF Post, dir
<1>6. CASE Leave(r, "P1")
  <2>1. Shift(r, "P1", "linger", "gone")
    BY <1>0, <1>6, GotoPc DEF Leave, Shift
  <2>2. Done(r)
    BY <1>6, <2>1, PointsAt, Names DEF Leave, MayLeave, UInv, Held, HeldIn, Done, Shift
  <2> QED
    BY <1>2, <1>3, <1>6, <2>1, <2>2, P1Shift DEF Leave
<1>7. ASSUME pc[r]["P1"] = "create"
      PROVE  Lookup(r, 1) = None /\ Room
  <2>1. First(r) \notin made /\ ~Listed(r, 1)
    BY <1>0, <1>7 DEF Ways, FirstIn
  <2>2. First(r) \in Seg
    BY DEF First, Seg
  <2> QED
    BY <1>0, <1>7, <2>1, <2>2, RoomLeft, HasKeys, ListedFound DEF UInv
<1>8. CASE P1Open(r)
  <2>1. Shift(r, "P1", "create", "fill")
    BY <1>0, <1>8, GotoPc DEF P1Open, Shift
  <2>2. Create(r, 1, "P1") /\ key[r] \in [{1, 2} -> Key]
    BY <1>7, <1>8, <2>1, HasKeys DEF P1Open, Attach, Shift
  <2>3. /\ Listed(r, 1)' /\ First(r) \in made'
        /\ \A q \in Request, m \in {1, 2} : q # r \/ m # 1 => DirSame(q, m)
    BY <1>0, <2>2, CreateDir, Names DEF First
  <2> QED
    BY <1>2, <2>1, <2>3, P1Shift
<1>9. CASE P1NoRoom(r)
  BY <1>7, <1>9 DEF P1NoRoom, Goto
<1> QED
  BY <1>4, <1>5, <1>6, <1>8, <1>9 DEF P1

LEMMA P2Shift ==
  ASSUME IInv, \A q \in Request : Ways(q), NEW r \in Request, NEW from, NEW to,
         Shift(r, "P2", from, to), \A q \in Request : EndSame(q),
         \A q \in Request : q # r => DirSame(q, 1) /\ DirSame(q, 2),
         \/ /\ <<from, to>> \in {<<"publish", "post">>, <<"post", "linger">>}
            /\ DirSame(r, 1) /\ DirSame(r, 2)
         \/ /\ from = "join" /\ to = "remove" /\ DirSame(r, 1) /\ DirSame(r, 2)
         \/ /\ from = "open" /\ to = "await" /\ Listed(r, 1) /\ DirSame(r, 1) /\ DirSame(r, 2)
         \/ /\ from = "remove" /\ to = "create" /\ ~Listed(r, 1)' /\ made' = made /\ DirSame(r, 2)
         \/ /\ from = "create" /\ to = "publish" /\ DirSame(r, 1)
            /\ Listed(r, 2)' /\ Second(r) \in made'
  PROVE  \A q \in Request : Ways(q)'
<1>1. /\ \A q \in Request : q # r => PcSame(q)
      /\ pc[r]["P2"] = from /\ pc'[r]["P2"] = to /\ pc'[r]["T"] = pc[r]["T"]
      /\ pc'[r]["P1"] = pc[r]["P1"] /\ pc'[r]["P3"] = pc[r]["P3"]
      /\ \A i \in Method : pc'[r][i] = pc[r][i]
  <2>1. /\ \A q \in Request : q # r => PcSame(q)
        /\ \A t \in Thread : pc'[r][t] = IF t = "P2" THEN to ELSE pc[r][t]
    BY ShiftOthers
  <2>2. pc[r]["P2"] = from
    BY DEF Shift
  <2>3. \A i \in Method : pc'[r][i] = pc[r][i]
    BY <2>1, Names
  <2> QED
    BY <2>1, <2>2, <2>3, Names
<1>2. Ways(r)
  OBVIOUS
<1>3. Places(r)'
  BY <1>1, <1>2 DEF Ways, Places, Early, Late
<1>4. FirstIn(r)'
  BY <1>1, <1>2 DEF Ways, FirstIn, EndSame, DirSame, Done, First, Early
<1>5. SecondIn(r)'
  BY <1>1, <1>2 DEF Ways, SecondIn, EndSame, DirSame, Second, Late
<1>6. SentIn(r)'
  BY <1>1, <1>2 DEF Ways, SentIn, EndSame, Over
<1> QED
  BY <1>1, <1>3, <1>4, <1>5, <1>6, OthersKept DEF Ways

LEMMA StartWays ==
  ASSUME IInv, \A q \in Request : Ways(q), NEW r \in Request, P2Start(r)
  PROVE  \A q \in Request : Ways(q)'
<1>1. UNCHANGED <<table, made, lock, client, answer>>
  BY DEF P2Start, dir, work, ends
<1>2. \A q \in Request : EndSame(q) /\ DirSame(q, 1) /\ DirSame(q, 2)
  BY <1>1, DirKept DEF EndSame
<1>3. /\ \A q \in Request : q # r => PcSame(q)
      /\ pc[r]["P2"] = "await" /\ pc'[r]["P2"] = "join" /\ pc'[r]["T"] = pc[r]["T"]
      /\ pc'[r]["P1"] = pc[r]["P1"] /\ pc'[r]["P3"] = pc[r]["P3"]
      /\ \A i \in Method : pc'[r][i] = "lock"
  BY Names DEF P2Start, IInv, TypeOK, ControlOK, PcSame
<1>4. Ways(r) /\ \A i \in Method : pc[r][i] = "unborn"
  BY <1>3 DEF IInv, Started, StartedIn
<1>5. Places(r)'
  BY <1>3, <1>4 DEF Ways, Places, Early, Late
<1>6. pc[r]["P1"] # "gone"
  BY <1>4, PipelineAssumption DEF Ways, FirstIn, Done
<1>7. FirstIn(r)'
  BY <1>2, <1>3, <1>4, <1>6 DEF Ways, FirstIn, EndSame, DirSame, First, Early
<1>8. SecondIn(r)' /\ SentIn(r)'
  BY <1>2, <1>3, <1>4 DEF Ways, SecondIn, SentIn, EndSame, DirSame, Over, Second, Late
<1> QED
  BY <1>2, <1>3, <1>5, <1>7, <1>8, OthersKept DEF Ways

LEMMA P2Ways ==
  ASSUME IInv, UInv, \A q \in Request : Ways(q), NEW r \in Request, P2(r)
  PROVE  \A q \in Request : Ways(q)'
<1>0. ControlOK /\ DirOK /\ "P2" \in Thread /\ Ways(r)
  BY Names DEF IInv, TypeOK
<1>1. UNCHANGED <<lock, client, answer>>
  BY DEF P2, P2Open, P2Start, P2Release, P2Remove, P2Create, P2Publish, Post, work, ends
<1>2. \A q \in Request : EndSame(q)
  BY <1>1 DEF EndSame
<1>3. ASSUME UNCHANGED <<table, made>> PROVE \A q \in Request : DirSame(q, 1) /\ DirSame(q, 2)
  BY <1>3, DirKept
<1>4. CASE P2Open(r)
  <2>1. Shift(r, "P2", "open", "await")
    BY <1>0, <1>4, GotoPc DEF P2Open, Shift
  <2>2. Lookup(r, 1) # None /\ UNCHANGED <<table, made>>
    BY <1>4 DEF P2Open, Attach
  <2>3. Listed(r, 1)
    BY <2>1, <2>2, HasKeys, ListedFound DEF UInv, Shift
  <2> QED
    BY <1>2, <1>3, <2>1, <2>2, <2>3, P2Shift
<1>5. CASE P2Release(r)
  <2>1. Shift(r, "P2", "join", "remove")
    BY <1>0, <1>5, GotoPc DEF P2Release, Shift
  <2> QED
    BY <1>2, <1>3, <1>5, <2>1, P2Shift DEF P2Release, dir
<1>6. CASE P2Remove(r)
  <2>1. Shift(r, "P2", "remove", "create")
    BY <1>0, <1>6, GotoPc DEF P2Remove, Shift
  <2>2. at[r]["P2in"] = <<r, 1>>
    <3>1. at[r]["P2in"] # None
      BY <2>1 DEF IInv, Pointers, PointersIn, Shift
    <3> QED
      BY <3>1, Names DEF UInv, OwnPointers, Kind
  <2>3. Remove(<<r, 1>>) /\ made' = made
    BY <1>6, <2>2 DEF P2Remove
  <2>4. /\ ~Listed(r, 1)'
        /\ \A q \in Request, m \in {1, 2} : q # r \/ m # 1 => DirSame(q, m)
    BY <1>0, <2>3, RemoveDir
  <2> QED
    BY <1>2, <2>1, <2>3, <2>4, P2Shift
<1>7. CASE P2Create(r)
  <2>1. Shift(r, "P2", "create", "publish")
    BY <1>0, <1>7, GotoPc DEF P2Create, Shift
  <2>2. ~Listed(r, 2)
    BY <1>0, <2>1 DEF Ways, SecondIn, Late, Shift
  <2>3. Create(r, 2, "P2out") /\ key[r] \in [{1, 2} -> Key]
    BY <1>7, <2>1, <2>2, HasKeys, ListedFound DEF P2Create, Attach, UInv, Shift
  <2>4. /\ Listed(r, 2)' /\ Second(r) \in made'
        /\ \A q \in Request, m \in {1, 2} : q # r \/ m # 2 => DirSame(q, m)
    BY <1>0, <2>3, CreateDir, Names DEF Second
  <2> QED
    BY <1>2, <2>1, <2>4, P2Shift
<1>8. CASE P2Publish(r)
  <2>1. Shift(r, "P2", "publish", "post")
    BY <1>0, <1>8, GotoPc DEF P2Publish, Shift
  <2> QED
    BY <1>2, <1>3, <1>8, <2>1, P2Shift DEF P2Publish, dir
<1>9. CASE Post(r, "P2", "P2out")
  <2>1. Shift(r, "P2", "post", "linger")
    BY <1>0, <1>9, GotoPc DEF Post, Shift
  <2> QED
    BY <1>2, <1>3, <1>9, <2>1, P2Shift DEF Post, dir
<1> QED
  BY <1>4, <1>5, <1>6, <1>7, <1>8, <1>9, StartWays DEF P2

LEMMA SolverWays ==
  ASSUME IInv, \A q \in Request : Ways(q), NEW r \in Request, NEW i \in Method, Solver(r, i)
  PROVE  \A q \in Request : Ways(q)'
<1>0. ControlOK /\ WorkOK /\ i \in Thread /\ Ways(r)
  BY Names DEF IInv, TypeOK
<1>1. UNCHANGED <<table, made, client, answer>>
  BY DEF Solver, SolverLock, SolverAttach, Attach, SolverUnlock, SolverSolve, SolverCopy, dir, ends
<1>2. \A q \in Request : DirSame(q, 1) /\ DirSame(q, 2)
  BY <1>1, DirKept
<1>3. PICK from, to : /\ Shift(r, i, from, to)
                      /\ from \in {"lock", "attach", "unlock", "solve", "copy"}
                      /\ to \in {"attach", "unlock", "solve", "copy", "done"}
  <2>1. CASE SolverLock(r, i)
    BY <1>0, <2>1, GotoPc DEF SolverLock, Shift
  <2>2. CASE SolverAttach(r, i)
    BY <1>0, <2>2, GotoPc DEF SolverAttach, Shift
  <2>3. CASE SolverUnlock(r, i)
    BY <1>0, <2>3, GotoPc DEF SolverUnlock, Shift
  <2>4. CASE SolverSolve(r, i)
    BY <1>0, <2>4, GotoPc DEF SolverSolve, Shift
  <2>5. CASE SolverCopy(r, i)
    BY <1>0, <2>5, GotoPc DEF SolverCopy, Shift
  <2> QED
    BY <2>1, <2>2, <2>3, <2>4, <2>5 DEF Solver
<1>4. /\ \A q \in Request : q # r => lock'[q] = lock[q]
      /\ \A j \in Method : j # i => lock'[r][j] = lock[r][j]
  BY <1>0 DEF Solver, SolverLock, SolverAttach, SolverUnlock, SolverSolve, SolverCopy, WorkOK, work
<1>5. /\ \A q \in Request : q # r => PcSame(q)
      /\ pc'[r]["P2"] = pc[r]["P2"] /\ pc'[r]["T"] = pc[r]["T"]
      /\ pc'[r]["P1"] = pc[r]["P1"] /\ pc'[r]["P3"] = pc[r]["P3"]
      /\ pc[r][i] = from /\ pc'[r][i] = to /\ \A j \in Method : j # i => pc'[r][j] = pc[r][j]
  <2>1. /\ \A q \in Request : q # r => PcSame(q)
        /\ \A t \in Thread : pc'[r][t] = IF t = i THEN to ELSE pc[r][t]
    BY <1>3, ShiftOthers
  <2>2. pc[r][i] = from
    BY <1>3 DEF Shift
  <2>3. pc'[r][i] = to /\ \A j \in Method : j # i => pc'[r][j] = pc[r][j]
    BY <2>1, Names
  <2>4. i \notin {"T", "P1", "P2", "P3"}
    BY Names
  <2> QED
    BY <2>1, <2>2, <2>3, <2>4, Names
<1>6. Places(r)'
  BY <1>0, <1>3, <1>5 DEF Ways, Places, Early, Late
<1>7. FirstIn(r)'
  <2>1. pc[r]["P1"] # "gone"
    BY <1>0, <1>3, <1>5 DEF Ways, FirstIn, Done
  <2>2. \A j \in Method : pc'[r][j] \in {"unborn", "lock"} => lock'[r][j] = 0
    BY <1>0, <1>3, <1>4, <1>5 DEF Ways, FirstIn
  <2> QED
    BY <1>0, <1>2, <1>5, <2>1, <2>2 DEF Ways, FirstIn, DirSame, First, Early
<1>8. SecondIn(r)' /\ SentIn(r)'
  BY <1>0, <1>1, <1>2, <1>5 DEF Ways, SecondIn, SentIn, DirSame, Over, Second, Late
<1>9. \A q \in Request : q # r => EndSame(q)
  BY <1>1, <1>4 DEF EndSame
<1> QED
  BY <1>2, <1>5, <1>6, <1>7, <1>8, <1>9, OthersKept DEF Ways

LEMMA P3Shift ==
  ASSUME IInv, \A q \in Request : Ways(q), NEW r \in Request, NEW from, NEW to,
         Shift(r, "P3", from, to), \A q \in Request : lock'[q] = lock[q] /\ DirSame(q, 1),
         \A q \in Request : q # r => EndSame(q) /\ DirSame(q, 2),
         \/ /\ <<from, to>> \in {<<"await", "send">>, <<"log", "write">>, <<"write", "retire">>}
            /\ EndSame(r) /\ DirSame(r, 2)
         \/ /\ from = "open" /\ to = "await" /\ Listed(r, 2) /\ EndSame(r) /\ DirSame(r, 2)
         \/ /\ from = "send" /\ to = "log" /\ DirSame(r, 2)
            /\ answer'[r] # None /\ client'[r] = "served"
         \/ /\ from = "send" /\ to \in {"log", "gone"} /\ client[r] = "left"
            /\ EndSame(r) /\ DirSame(r, 2)
         \/ /\ from = "retire" /\ to = "gone" /\ EndSame(r) /\ ~Listed(r, 2)' /\ made' = made
  PROVE  \A q \in Request : Ways(q)'
<1>1. /\ \A q \in Request : q # r => PcSame(q)
      /\ pc[r]["P3"] = from /\ pc'[r]["P3"] = to /\ pc'[r]["T"] = pc[r]["T"]
      /\ pc'[r]["P1"] = pc[r]["P1"] /\ pc'[r]["P2"] = pc[r]["P2"]
      /\ \A i \in Method : pc'[r][i] = pc[r][i]
  <2>1. /\ \A q \in Request : q # r => PcSame(q)
        /\ \A t \in Thread : pc'[r][t] = IF t = "P3" THEN to ELSE pc[r][t]
    BY ShiftOthers
  <2>2. pc[r]["P3"] = from
    BY DEF Shift
  <2>3. \A i \in Method : pc'[r][i] = pc[r][i]
    BY <2>1, Names
  <2> QED
    BY <2>1, <2>2, <2>3, Names
<1>2. Ways(r)
  OBVIOUS
<1>3. Places(r)'
  BY <1>1, <1>2 DEF Ways, Places
<1>4. FirstIn(r)'
  BY <1>1, <1>2 DEF Ways, FirstIn, DirSame, Done, First
<1>5. SecondIn(r)'
  BY <1>1, <1>2 DEF Ways, SecondIn, EndSame, DirSame, Second, Late
<1>6. SentIn(r)'
  BY <1>1, <1>2 DEF Ways, SentIn, EndSame, Over
<1> QED
  BY <1>1, <1>3, <1>4, <1>5, <1>6, OthersKept DEF Ways

LEMMA P3Ways ==
  ASSUME IInv, UInv, \A q \in Request : Ways(q), NEW r \in Request, P3(r)
  PROVE  \A q \in Request : Ways(q)'
<1>0. ControlOK /\ DirOK /\ CellsOK /\ EndsOK /\ "P3" \in Thread /\ Ways(r)
  BY Names DEF IInv, TypeOK
<1>1. lock' = lock
  BY DEF P3, P3Open, P3Verify, P3Send, P3SendToNobody, P3LockLog, P3WriteLog, P3Retire, work
<1>2. ASSUME UNCHANGED <<table, made>> PROVE \A q \in Request : DirSame(q, 1) /\ DirSame(q, 2)
  BY <1>2, DirKept
<1>3. ASSUME UNCHANGED <<client, answer>> PROVE \A q \in Request : EndSame(q)
  BY <1>1, <1>3 DEF EndSame
<1>4. CASE P3Open(r)
  <2>1. Shift(r, "P3", "open", "await")
    BY <1>0, <1>4, GotoPc DEF P3Open, Shift
  <2>2. Lookup(r, 2) # None /\ UNCHANGED <<table, made, client, answer>>
    BY <1>4 DEF P3Open, Attach, ends
  <2>3. Listed(r, 2)
    BY <2>1, <2>2, HasKeys, ListedFound DEF UInv, Shift
  <2> QED
    BY <1>1, <1>2, <1>3, <2>1, <2>2, <2>3, P3Shift
<1>5. CASE P3Verify(r)
  <2>1. Shift(r, "P3", "await", "send")
    BY <1>0, <1>5, GotoPc DEF P3Verify, Shift
  <2> QED
    BY <1>1, <1>2, <1>3, <1>5, <2>1, P3Shift DEF P3Verify, dir, ends
<1>6. CASE P3Send(r)
  <2>1. Shift(r, "P3", "send", "log")
    BY <1>0, <1>6, GotoPc DEF P3Send, Shift
  <2>2. /\ UNCHANGED <<table, made>> /\ client'[r] = "served"
        /\ \A q \in Request : q # r => client'[q] = client[q] /\ answer'[q] = answer[q]
        /\ answer'[r] = [data |-> content[at[r]["P3"]], verify |-> check[at[r]["P3"]]]
    BY <1>0, <1>6 DEF P3Send, dir, EndsOK
  <2>3. at[r]["P3"] \in Seg
    <3>1. at[r]["P3"] = Second(r)
      BY <2>1, PointsAt DEF UInv, Shift
    <3> QED
      BY <3>1 DEF Second, Seg
  <2>4. answer'[r] # None
    BY <1>0, <2>2, <2>3, PipelineAssumption DEF Report, CellsOK
  <2>5. \A q \in Request : q # r => EndSame(q)
    BY <1>1, <2>2 DEF EndSame
  <2> QED
    BY <1>1, <1>2, <2>1, <2>2, <2>4, <2>5, P3Shift
<1>7. CASE P3SendToNobody(r)
  <2>1. Shift(r, "P3", "send", "log") \/ Shift(r, "P3", "send", "gone")
    BY <1>0, <1>7, GotoPc DEF P3SendToNobody, Shift
  <2>2. client[r] = "left" /\ UNCHANGED <<table, made, client, answer>>
    BY <1>7 DEF P3SendToNobody, ends
  <2> QED
    BY <1>1, <1>2, <1>3, <2>1, <2>2, P3Shift
<1>8. CASE P3LockLog(r)
  <2>1. Shift(r, "P3", "log", "write")
    BY <1>0, <1>8, GotoPc DEF P3LockLog, Shift
  <2> QED
    BY <1>1, <1>2, <1>3, <1>8, <2>1, P3Shift DEF P3LockLog, dir
<1>9. CASE P3WriteLog(r)
  <2>1. Shift(r, "P3", "write", "retire")
    BY <1>0, <1>9, GotoPc DEF P3WriteLog, Shift
  <2> QED
    BY <1>1, <1>2, <1>3, <1>9, <2>1, P3Shift DEF P3WriteLog, dir
<1>10. CASE P3Retire(r)
  <2>1. Shift(r, "P3", "retire", "gone")
    BY <1>0, <1>10, GotoPc DEF P3Retire, Shift
  <2>2. at[r]["P3"] = <<r, 2>>
    BY <2>1, PointsAt DEF UInv, Second, Shift
  <2>3. Remove(<<r, 2>>) /\ UNCHANGED <<made, client, answer>>
    BY <1>10, <2>2 DEF P3Retire, ends
  <2>4. /\ ~Listed(r, 2)'
        /\ \A q \in Request, m \in {1, 2} : q # r \/ m # 2 => DirSame(q, m)
    BY <1>0, <2>3, RemoveDir
  <2> QED
    BY <1>1, <1>3, <2>1, <2>3, <2>4, P3Shift
<1> QED
  BY <1>4, <1>5, <1>6, <1>7, <1>8, <1>9, <1>10 DEF P3

\* P1 alone ends by itself: mainThread and P2 never get through their last wait.
LEMMA LeaveWays ==
  ASSUME IInv, UInv, Ample, \A q \in Request : Ways(q), NEW r \in Request,
         NEW p \in {"T", "P1", "P2"}, Leave(r, p)
  PROVE  \A q \in Request : Ways(q)'
<1>1. CASE p = "P1"
  BY <1>1, P1Ways
<1>2. p # "P2"
  BY Names DEF Leave, MayLeave, Goto, IInv, Raised
<1>3. p # "T"
  <2>1. SUFFICES ASSUME p = "T" PROVE FALSE
    OBVIOUS
  <2>2. pc[r]["T"] = "linger" /\ pc[r]["P2"] \in {"unborn", "gone"}
    BY <2>1 DEF Leave, MayLeave, Goto, Child
  <2>3. Places(r)
    BY DEF Ways
  <2> QED
    BY <2>2, <2>3 DEF Places, Early, Late
<1> QED
  BY <1>1, <1>2, <1>3

LEMMA ClientWays ==
  ASSUME IInv, \A q \in Request : Ways(q), NEW r \in Request, ClientLeaves(r)
  PROVE  \A q \in Request : Ways(q)'
<1>1. /\ UNCHANGED <<pc, table, made, lock, answer>> /\ client'[r] = "left"
      /\ \A q \in Request : q # r => client'[q] = client[q]
  BY DEF ClientLeaves, dir, work, IInv, TypeOK, EndsOK
<1>2. \A q \in Request : PcSame(q) /\ DirSame(q, 1) /\ DirSame(q, 2)
  BY <1>1, DirKept DEF PcSame
<1>3. \A q \in Request : q # r => EndSame(q)
  BY <1>1 DEF EndSame
<1>4. Ways(r)
  OBVIOUS
<1>5. Places(r)' /\ SentIn(r)'
  BY <1>1, <1>4 DEF Ways, Places, SentIn, Over
<1>6. FirstIn(r)' /\ SecondIn(r)'
  BY <1>1, <1>2, <1>4 DEF Ways, FirstIn, SecondIn, DirSame, Done, First, Second
<1> QED
  BY <1>2, <1>3, <1>5, <1>6, OthersKept DEF Ways

\* mutex is 0 only while a P3 writes the log.
LEMMA LogTakenKept ==
  ASSUME IInv, LogTaken, [Next]_vars
  PROVE  LogTaken'
<1>0. ControlOK /\ EndsOK
  BY DEF IInv, TypeOK
<1>1. \/ logsem' = logsem
      \/ \E r \in Request : P3LockLog(r) \/ P3WriteLog(r)
  <2> USE DEF ends
  <2>1. CASE UNCHANGED vars
    BY <2>1 DEF vars
  <2>2. ASSUME NEW r \in Request, MainThread(r) PROVE logsem' = logsem
    BY <2>2 DEF MainThread, DrawKeys, ForkP1, ForkP2, ForkP3, Fork
  <2>3. ASSUME NEW r \in Request, P1(r) \/ P2(r) PROVE logsem' = logsem
    BY <2>3 DEF P1, P1Open, P1NoRoom, P1Fill, Post, P2, P2Open, P2Start, P2Release, P2Remove,
       P2Create, P2Publish
  <2>4. ASSUME NEW r \in Request, P3(r)
        PROVE  logsem' = logsem \/ P3LockLog(r) \/ P3WriteLog(r)
    BY <2>4 DEF P3, P3Open, P3Verify, P3Send, P3SendToNobody, P3Retire
  <2>5. ASSUME NEW r \in Request, NEW i \in Method, Solver(r, i) PROVE logsem' = logsem
    BY <2>5 DEF Solver, SolverLock, SolverAttach, SolverUnlock, SolverSolve, SolverCopy
  <2>6. ASSUME NEW r \in Request, NEW p \in {"T", "P1", "P2"}, Leave(r, p) PROVE logsem' = logsem
    BY <2>6 DEF Leave
  <2>7. ASSUME NEW r \in Request, ClientLeaves(r) PROVE logsem' = logsem
    BY <2>7 DEF ClientLeaves
  <2> QED
    BY <2>1, <2>2, <2>3, <2>4, <2>5, <2>6, <2>7 DEF Next
<1>2. ASSUME NEW r \in Request, P3LockLog(r) PROVE LogTaken'
  <2>1. pc'[r]["P3"] = "write"
    BY <1>0, <1>2, GotoPc, Names DEF P3LockLog
  <2> QED
    BY <2>1 DEF LogTaken
<1>3. ASSUME NEW r \in Request, P3WriteLog(r) PROVE LogTaken'
  BY <1>0, <1>3 DEF P3WriteLog, LogPosted, EndsOK, LogTaken
<1>4. CASE /\ logsem' = logsem
           /\ \A r \in Request : ~P3WriteLog(r)
  <2>1. ASSUME NEW q \in Request, pc[q]["P3"] = "write" PROVE pc'[q]["P3"] = "write"
    <3>1. ~ForkP3(q)
      BY <2>1 DEF ForkP3, Fork, IInv, Started, StartedIn
    <3>2. ~P3(q)
      BY <1>4, <2>1 DEF P3, P3Open, P3Verify, P3Send, P3SendToNobody, P3LockLog, P3Retire, Goto
    <3> QED
      BY <2>1, <3>1, <3>2, Moves
  <2> QED
    BY <1>4, <2>1 DEF LogTaken
<1> QED
  BY <1>1, <1>2, <1>3, <1>4

LEMMA StepWaitInv ==
  ASSUME Ample, IInv, UInv, WaitInv, [Next]_vars
  PROVE  WaitInv'
<1>1. CASE UNCHANGED vars
  <2>1. \A q \in Request : PcSame(q) /\ EndSame(q) /\ DirSame(q, 1) /\ DirSame(q, 2)
    BY <1>1, DirKept DEF vars, dir, work, ends, PcSame, EndSame
  <2> QED
    BY <2>1, ElsewhereSame, LogTakenKept DEF WaitInv
<1> DEFINE Goal == \A q \in Request : Ways(q)'
<1>2. ASSUME NEW r \in Request, MainThread(r) \/ P1(r) \/ P2(r) \/ P3(r) \/ ClientLeaves(r)
      PROVE  Goal
  BY <1>2, MainWays, P1Ways, P2Ways, P3Ways, ClientWays DEF WaitInv
<1>3. ASSUME NEW r \in Request, NEW i \in Method, Solver(r, i)
      PROVE  Goal
  BY <1>3, SolverWays DEF WaitInv
<1>4. ASSUME NEW r \in Request, NEW p \in {"T", "P1", "P2"}, Leave(r, p)
      PROVE  Goal
  BY <1>4, LeaveWays DEF WaitInv
<1> HIDE DEF Goal
<1>5. CASE Next
  <2>1. Goal
    BY <1>2, <1>3, <1>4, <1>5 DEF Next
  <2> QED
    BY <2>1, LogTakenKept DEF Goal, WaitInv
<1> QED
  BY <1>1, <1>5

LEMMA InitWaitInv == Init => WaitInv
<1>0. Init => LogTaken
  BY DEF Init, LogTaken
<1> SUFFICES ASSUME Init, NEW r \in Request
             PROVE  Ways(r)
  BY <1>0 DEF WaitInv
<1>1. /\ pc[r]["T"] = "start" /\ pc[r]["P1"] = "unborn" /\ pc[r]["P2"] = "unborn"
      /\ pc[r]["P3"] = "unborn" /\ \A i \in Method : pc[r][i] = "unborn" /\ lock[r][i] = 0
  BY Names DEF Init
<1>2. ~Listed(r, 1) /\ ~Listed(r, 2) /\ made = {} /\ client[r] = "waiting"
  BY PipelineAssumption DEF Init, Listed, Seg
<1>3. Places(r)
  BY <1>1 DEF Places, Early
<1>4. FirstIn(r) /\ SecondIn(r) /\ SentIn(r)
  BY <1>1, <1>2 DEF FirstIn, SecondIn, SentIn, Over, Early, Late
<1> QED
  BY <1>3, <1>4 DEF Ways

\* What a process looks up is under its key from its creation until nobody of the request
\* needs it any more.
THEOREM WaitInvariance ==
  ASSUME Ample
  PROVE  UniqueSpec => []WaitInv
<1>1. [Next /\ UniqueKeys']_vars => [Next]_vars
  OBVIOUS
<1>2. IInv /\ UInv /\ WaitInv /\ [Next]_vars => WaitInv'
  BY StepWaitInv
<1> QED
  BY <1>1, <1>2, InitWaitInv, UniqueInvariance, PTL DEF UniqueSpec

\* A request that is being worked on.
LEMMA OneMovesOn ==
  ASSUME Ample, IInv, UInv, NEW r \in Request, Ways(r), pc[r]["T"] # "start",
         answer[r] = None, client[r] = "waiting", ~RequestReady(r)
  PROVE  FALSE
<1>1. /\ Places(r) /\ FirstIn(r) /\ SecondIn(r) /\ SentIn(r) /\ DirOK
      /\ ~P1Ready(r) /\ ~P2Ready(r) /\ ~P3Ready(r) /\ \A i \in Method : ~SolverReady(r, i)
  BY DEF Ways, RequestReady, IInv, TypeOK
<1>2. pc[r]["T"] = "linger"
  BY <1>1 DEF Places, RequestReady
<1>3. /\ pc[r]["P1"] \in {"linger", "gone"}
      /\ pc[r]["P2"] # "unborn" /\ pc[r]["P3"] # "unborn"
  BY <1>1, <1>2 DEF Places, P1Ready
<1>4. key[r] \in [{1, 2} -> Key]
  BY <1>2, HasKeys
<1>5. /\ Lookup(r, 1) # None <=> Listed(r, 1)
      /\ Lookup(r, 2) # None <=> Listed(r, 2)
  BY <1>4, ListedFound DEF UInv
<1>6. pc[r]["P2"] # "open"
  BY <1>1, <1>3, <1>5 DEF FirstIn, Early, P2Ready
<1>7. pc[r]["P2"] # "await"
  <2>1. SUFFICES ASSUME pc[r]["P2"] = "await" PROVE FALSE
    OBVIOUS
  <2>2. \A i \in Method : pc[r][i] = "unborn"
    BY <2>1 DEF IInv, Started, StartedIn
  <2>3. pc[r]["P1"] = "linger"
    BY <1>1, <1>3, <2>2, PipelineAssumption DEF FirstIn, Done
  <2>4. status[First(r)] = -1
    BY <2>2, <2>3, PipelineAssumption DEF UInv, Held, HeldIn
  <2>5. at[r]["P2in"] = First(r)
    BY <2>1, PointsAt DEF UInv
  <2> QED
    BY <1>1, <2>1, <2>4, <2>5 DEF P2Ready, Ready
<1>8. pc[r]["P2"] # "join"
  <2>1. SUFFICES ASSUME pc[r]["P2"] = "join" PROVE FALSE
    OBVIOUS
  <2>2. PICK i \in Method : pc[r][i] # "done"
    BY <1>1, <2>1 DEF P2Ready, Joined
  <2>3. Listed(r, 1)
    BY <1>1, <1>3, <2>1 DEF FirstIn, Early
  <2>4. pc[r][i] # "unborn"
    BY <1>1, <2>1 DEF Places
  <2> QED
    BY <1>1, <1>5, <2>2, <2>3, <2>4 DEF SolverReady, FirstIn, Places
<1>9. pc[r]["P2"] # "create"
  <2>1. SUFFICES ASSUME pc[r]["P2"] = "create" PROVE FALSE
    OBVIOUS
  <2>2. Second(r) \notin made /\ Second(r) \in Seg
    BY <1>1, <2>1 DEF SecondIn, Late, Second, Seg
  <2> QED
    BY <1>1, <2>1, <2>2, RoomLeft DEF P2Ready
<1>10. pc[r]["P2"] = "linger"
  BY <1>1, <1>3, <1>6, <1>7, <1>8, <1>9 DEF Places, Early, Late, P2Ready
<1>11. pc[r]["P3"] # "open"
  BY <1>1, <1>5, <1>10 DEF SecondIn, Late, P3Ready
<1>12. pc[r]["P3"] # "await"
  <2>1. SUFFICES ASSUME pc[r]["P3"] = "await" PROVE FALSE
    OBVIOUS
  <2>2. at[r]["P3"] = Second(r)
    BY <2>1, PointsAt DEF UInv
  <2>3. at[r]["P2out"] = Second(r)
    <3>1. at[r]["P2out"] # None
      BY <1>10 DEF IInv, Pointers, PointersIn
    <3> QED
      BY <3>1, Names DEF UInv, OwnPointers, Kind, Second
  <2>4. status[Second(r)] = -1
    BY <1>10, <2>3 DEF IInv, Raised
  <2> QED
    BY <1>1, <2>1, <2>2, <2>4 DEF P3Ready, Ready
<1>13. pc[r]["P3"] # "send"
  BY <1>1 DEF P3Ready
<1>14. ~Over(r)
  BY <1>1 DEF SentIn
<1> QED
  BY <1>1, <1>3, <1>11, <1>12, <1>13, <1>14 DEF Places, Over

\* One that is answered.
LEMMA ServedMovesOn ==
  ASSUME IInv, WaitInv, NEW r \in Request, client[r] = "served", ~P3Ready(r),
         ~\E q \in Request : P3Ready(q) /\ pc[q]["P3"] = "write"
  PROVE  pc[r]["P3"] = "gone" /\ ~Listed(r, 1) /\ ~Listed(r, 2)
<1>1. Over(r) /\ Ways(r) /\ logsem \in {0, 1}
  BY DEF WaitInv, Ways, SentIn, IInv, TypeOK, EndsOK
<1>2. pc[r]["P3"] # "log"
  <2>1. logsem # 0
    BY DEF WaitInv, LogTaken, P3Ready
  <2> QED
    BY <1>1, <2>1 DEF P3Ready, LogFree
<1>3. pc[r]["P3"] = "gone"
  BY <1>1, <1>2 DEF Over, P3Ready
<1>4. pc[r]["P2"] \in Late /\ ~Listed(r, 2)
  BY <1>1, <1>3 DEF Ways, SecondIn
<1> QED
  BY <1>1, <1>3, <1>4 DEF Ways, FirstIn, Early, Late

\* With unequal keys and room for all segments a request is never stuck, whatever becomes of
\* the other requests and of their clients: neither before its answer nor, once answered,
\* before the keys of its segments are free.
THEOREM NeverStuck ==
  ASSUME Ample
  PROVE  UniqueSpec => []MovesOn
<1>1. IInv /\ UInv /\ WaitInv => MovesOn
  <2> SUFFICES ASSUME IInv, UInv, WaitInv, NEW r \in Request
               PROVE  /\ pc[r]["T"] # "start" /\ answer[r] = None /\ client[r] = "waiting" =>
                           RequestReady(r)
                      /\ client[r] = "served" =>
                           \/ pc[r]["P3"] = "gone" /\ ~Listed(r, 1) /\ ~Listed(r, 2)
                           \/ P3Ready(r) \/ \E q \in Request : P3Ready(q) /\ pc[q]["P3"] = "write"
    BY DEF MovesOn
  <2>1. Ways(r)
    BY DEF WaitInv
  <2> QED
    BY <2>1, OneMovesOn, ServedMovesOn
<1> QED
  BY <1>1, UniqueInvariance, WaitInvariance, PTL

\* How far each thread and process is with its request.
Place(l) ==
  CASE l \in {"unborn", "start"} -> 0
    [] l \in {"fork1", "open", "lock"} -> 1
    [] l \in {"fork2", "await", "attach"} -> 2
    [] l \in {"fork3", "join", "send", "unlock"} -> 3
    [] l \in {"remove", "log", "solve"} -> 4
    [] l \in {"create", "write", "copy"} -> 5
    [] l \in {"fill", "publish", "retire", "done"} -> 6
    [] l = "post" -> 7
    [] l = "linger" -> 8
    [] l = "gone" -> 9

Later(r, t) == Place(pc[r][t]) < Place(pc'[r][t])
Onwards ==
  /\ \A r \in Request, t \in Thread : pc'[r][t] # pc[r][t] => Later(r, t)
  /\ \/ \E r \in Request, t \in Thread : Later(r, t)
     \/ \E r \in Request : client[r] = "waiting" /\ client'[r] = "left"

LEMMA GotoOnwards ==
  ASSUME ControlOK, NEW r \in Request, NEW p \in Thread, NEW from, NEW to,
         Goto(r, p, from, to), Place(from) < Place(to)
  PROVE  Onwards
<1>1. /\ pc[r][p] = from
      /\ \A q \in Request, t \in Thread :
           pc'[q][t] = IF q = r /\ t = p THEN to ELSE pc[q][t]
  BY GotoPc
<1>2. Later(r, p)
  BY <1>1 DEF Later
<1>3. \A q \in Request, t \in Thread : pc'[q][t] # pc[q][t] => q = r /\ t = p
  BY <1>1
<1> QED
  BY <1>2, <1>3 DEF Onwards

LEMMA ForkOnwards ==
  ASSUME IInv, NEW r \in Request, ForkP1(r) \/ ForkP2(r) \/ ForkP3(r)
  PROVE  Onwards
<1>0. ControlOK /\ StartedIn(r)
  BY DEF IInv, TypeOK, Started
<1>1. ASSUME NEW p \in Child, NEW from, NEW to, NEW first, Fork(r, p, from, to, first),
             Place(from) < Place(to), pc[r][p] = "unborn", Place("unborn") < Place(first)
      PROVE  Onwards
  <2>1. p \in Thread /\ "T" \in Thread /\ p # "T"
    BY PipelineAssumption DEF Thread, Child
  <2>2. /\ pc[r]["T"] = from /\ pc'[r]["T"] = to /\ pc'[r][p] = first
        /\ \A q \in Request, t \in Thread :
             q # r \/ t \notin {"T", p} => pc'[q][t] = pc[q][t]
    BY <1>0, <1>1, <2>1 DEF Fork, ControlOK
  <2>3. Later(r, "T") /\ Later(r, p)
    BY <1>1, <2>2 DEF Later
  <2> QED
    BY <2>1, <2>2, <2>3 DEF Onwards
<1>2. {"P1", "P2", "P3"} \subseteq Child
  BY DEF Child
<1>3. Place("unborn") < Place("create") /\ Place("unborn") < Place("open")
  BY DEF Place
<1>4. Place("fork1") < Place("fork2") /\ Place("fork2") < Place("fork3") /\ Place("fork3") < Place("linger")
  BY DEF Place
<1>5. CASE ForkP1(r)
  <2>1. pc[r]["P1"] = "unborn"
    BY <1>0, <1>5 DEF ForkP1, Fork, StartedIn
  <2> QED
    BY <1>1, <1>2, <1>3, <1>4, <1>5, <2>1 DEF ForkP1
<1>6. CASE ForkP2(r)
  <2>1. pc[r]["P2"] = "unborn"
    BY <1>0, <1>6 DEF ForkP2, Fork, StartedIn
  <2> QED
    BY <1>1, <1>2, <1>3, <1>4, <1>6, <2>1 DEF ForkP2
<1>7. CASE ForkP3(r)
  <2>1. pc[r]["P3"] = "unborn"
    BY <1>0, <1>7 DEF ForkP3, Fork, StartedIn
  <2> QED
    BY <1>1, <1>2, <1>3, <1>4, <1>7, <2>1 DEF ForkP3
<1> QED
  BY <1>5, <1>6, <1>7

LEMMA StartOnwards ==
  ASSUME IInv, NEW r \in Request, P2Start(r)
  PROVE  Onwards
<1>1. /\ pc[r]["P2"] = "await" /\ pc'[r]["P2"] = "join"
      /\ \A i \in Method : pc'[r][i] = "lock"
      /\ \A q \in Request, t \in Thread :
           q # r \/ t \notin {"P2"} \cup Method => pc'[q][t] = pc[q][t]
  BY Names DEF P2Start, IInv, TypeOK, ControlOK
<1>2. \A i \in Method : pc[r][i] = "unborn"
  BY <1>1 DEF IInv, Started, StartedIn
<1>3. Place("await") < Place("join") /\ Place("unborn") < Place("lock")
  BY DEF Place
<1>4. Later(r, "P2") /\ \A i \in Method : Later(r, i)
  BY <1>1, <1>2, <1>3 DEF Later
<1> QED
  BY <1>1, <1>4, Names DEF Onwards

LEMMA StepOnwards ==
  ASSUME IInv, Next
  PROVE  Onwards
<1>0. ControlOK /\ EndsOK
  BY DEF IInv, TypeOK
<1>1. ASSUME NEW r \in Request, DrawKeys(r)
      PROVE  Onwards
  BY <1>0, <1>1, GotoOnwards, Names DEF DrawKeys, Place
<1>2. ASSUME NEW r \in Request, P1(r)
      PROVE  Onwards
  <2>1. PICK from, to : Goto(r, "P1", from, to) /\ Place(from) < Place(to)
    BY <1>2 DEF P1, P1Open, P1NoRoom, P1Fill, Post, Place
  <2> QED
    BY <1>0, <2>1, GotoOnwards, Names
<1>3. ASSUME NEW r \in Request, P2(r), ~P2Start(r)
      PROVE  Onwards
  <2>1. PICK from, to : Goto(r, "P2", from, to) /\ Place(from) < Place(to)
    BY <1>3 DEF P2, P2Open, P2Release, P2Remove, P2Create, P2Publish, Post, Place
  <2> QED
    BY <1>0, <2>1, GotoOnwards, Names
<1>4. ASSUME NEW r \in Request, P3(r)
      PROVE  Onwards
  <2>1. PICK from, to : Goto(r, "P3", from, to) /\ Place(from) < Place(to)
    BY <1>4 DEF P3, P3Open, P3Verify, P3Send, P3SendToNobody, P3LockLog, P3WriteLog, P3Retire, Place
  <2> QED
    BY <1>0, <2>1, GotoOnwards, Names
<1>5. ASSUME NEW r \in Request, NEW i \in Method, Solver(r, i)
      PROVE  Onwards
  <2>1. PICK from, to : Goto(r, i, from, to) /\ Place(from) < Place(to)
    BY <1>5 DEF Solver, SolverLock, SolverAttach, SolverUnlock, SolverSolve, SolverCopy, Place
  <2> QED
    BY <1>0, <2>1, GotoOnwards, Names
<1>6. ASSUME NEW r \in Request, NEW p \in {"T", "P1", "P2"}, Leave(r, p)
      PROVE  Onwards
  BY <1>0, <1>6, GotoOnwards, Names DEF Leave, Place
<1>7. ASSUME NEW r \in Request, ClientLeaves(r)
      PROVE  Onwards
  BY <1>0, <1>7 DEF ClientLeaves, EndsOK, Onwards
<1> QED
  BY <1>1, <1>2, <1>3, <1>4, <1>5, <1>6, <1>7, ForkOnwards, StartOnwards DEF Next, MainThread

\* Every step takes a thread or a process of some request on, or a client leaves, and none goes
\* back, whatever the keys and the room: no process is busy for ever.
THEOREM NoStepBack == Spec => [][Onwards]_vars
<1>1. IInv /\ [Next]_vars => [Onwards]_vars
  BY StepOnwards
<1> QED
  BY <1>1, Invariance, PTL DEF Spec
=============================================================================
