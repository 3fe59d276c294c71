------------------------- MODULE WordSearch_proofs -------------------------
(***************************************************************************)
(* Proofs about WordSearch, for any text and any word: what is found, in   *)
(* which rows and columns, and that the search always gets on. Letters are *)
(* counted from the first one of a match, so that where the next one has   *)
(* to be is told by a number and not by a walk along the text.             *)
(***************************************************************************)
EXTENDS WordSearch, FiniteSetTheorems, TLAPS

\* Where the match that is under way starts, or where one may start next.
Here == IF wordIndex = 0 THEN pos ELSE first.at

\* The letters from first.at on, this side of pos, are the first of the word.
Attempt ==
  /\ wordIndex = 0 => valid = 0
  /\ wordIndex # 0 =>
       /\ first.at \in 1 .. pos - 1 /\ valid = pos - first.at
       /\ text[first.at] \notin Blank
       /\ LettersIn(first.at, pos - 1) = wordIndex
       /\ \A j \in first.at .. pos - 1 :
            text[j] \notin Blank => text[j] = word[LettersIn(first.at, j)]
       /\ \A k \in 1 .. wordIndex : \E j \in first.at .. pos - 1 :
            text[j] = word[k] /\ LettersIn(first.at, j) = k

\* Nothing is printed that is not there, or twice, and all of it is behind.
Printed ==
  /\ FoundOnce
  /\ \A k \in DOMAIN found : found[k].at < Here

\* Nothing is left behind, of a plain word.
Complied == PlainWord => \A i \in 1 .. Here - 1 : Occurs(i) => i \in Starts

\* The file was pulled back last from the end of the last match.
LastEnd ==
  pulled # 0 =>
    /\ Len(word) > 1 /\ found # <<>> /\ text[pulled] \notin Blank
    /\ found[Len(found)].at <= pulled
    /\ LettersIn(found[Len(found)].at, pulled) = Len(word)

\* How far the line ends are counted.
Counted == IF found = <<>> THEN pos ELSE IF pulled <= pos THEN pos + 1 ELSE pulled + 1

\* RowsExact for the match that was or is going to be the k-th.
RightRow(p, k) ==
  \/ p.row = 1 + NewlinesBefore(p.at)
  \/ \E m \in 1 .. k - 1 : \E j \in p.at .. Len(text) :
        IsNewline(j) /\ LettersIn(found[m].at, j) < Len(word)

Rows ==
  /\ row = 1 + NewlinesBefore(Counted)
  /\ wordIndex # 0 => RightRow(first, Len(found) + 1)
  /\ RowsExact

\* The line of place i starts behind place l.
StartsBehind(l, i) ==
  /\ l \in 0 .. i - 1
  /\ l = 0 \/ IsNewline(l)
  /\ \A j \in l + 1 .. i - 1 : ~IsNewline(j)

RightColumn(p) == StartsBehind(p.at - p.column, p.at)

Columns ==
  CleanLineEnds =>
    /\ StartsBehind(pos - column, pos)
    /\ wordIndex # 0 => /\ \A j \in first.at .. pos - 1 : ~IsNewline(j)
                        /\ RightColumn(first)
    /\ \A k \in DOMAIN found : RightColumn(found[k])

IInv == TypeOK /\ Attempt /\ Printed /\ Complied /\ LastEnd /\ Rows /\ Columns

\* No step leads back: the start of the search or, within a match, its place moves on.
Advance == Here' > Here \/ (Here' = Here /\ pos' > pos)
Advances == [][Advance]_vars
---------------------------------------------------------------------------
(* Texts and words *)

LEMMA Strings ==
  ASSUME text \in Text, word \in Word
  PROVE  /\ text \in Seq(Letter \cup Blank) /\ Len(text) \in Nat /\ DOMAIN text = 1 .. Len(text)
         /\ word \in Seq(Letter) /\ Len(word) \in Nat \ {0} /\ DOMAIN word = 1 .. Len(word)
         /\ \A k \in 1 .. Len(word) : word[k] \notin Blank
<1>1. PICK n \in 0 .. MaxText : text \in [1 .. n -> Letter \cup Blank]
  BY DEF Text
<1>2. PICK m \in 1 .. MaxWord : word \in [1 .. m -> Letter]
  BY DEF Word
<1>3. n \in Nat /\ m \in Nat \ {0}
  BY SearchAssumption
<1>4. text \in Seq(Letter \cup Blank) /\ Len(text) = n
  BY <1>1, <1>3
<1>5. word \in Seq(Letter) /\ Len(word) = m
  BY <1>2, <1>3
<1> QED
  BY <1>1, <1>2, <1>3, <1>4, <1>5, SearchAssumption DEF Blank
LEMMA Sizes ==
  ASSUME TypeOK
  PROVE  /\ Len(text) \in Nat /\ DOMAIN text = 1 .. Len(text)
         /\ Len(word) \in Nat \ {0} /\ DOMAIN word = 1 .. Len(word)
         /\ pos \in 1 .. Len(text) + 1 /\ wordIndex \in 0 .. Len(word) - 1
         /\ valid \in 0 .. Len(text) /\ pulled \in 0 .. Len(text)
         /\ row \in Nat /\ column \in Int
<1>1. text \in Text /\ word \in Word
  BY DEF TypeOK
<1>2. /\ Len(text) \in Nat /\ DOMAIN text = 1 .. Len(text)
      /\ Len(word) \in Nat \ {0} /\ DOMAIN word = 1 .. Len(word)
  BY <1>1, Strings
<1>3. /\ pos \in 1 .. Len(text) + 1 /\ wordIndex \in 0 .. Len(word) - 1
      /\ valid \in 0 .. Len(text) /\ pulled \in 0 .. Len(text)
      /\ row \in Nat /\ column \in Int
  BY DEF TypeOK
<1> QED
  BY <1>2, <1>3
---------------------------------------------------------------------------
(* Counting *)

LEMMA LettersType ==
  ASSUME NEW i \in Int, NEW j \in Int
  PROVE  LettersIn(i, j) \in Nat /\ IsFiniteSet({l \in i .. j : text[l] \notin Blank})
<1>1. IsFiniteSet(i .. j)
  BY FS_Interval
<1>2. {l \in i .. j : text[l] \notin Blank} \subseteq i .. j
  OBVIOUS
<1> QED
  BY <1>1, <1>2, FS_Subset, FS_CardinalityType DEF LettersIn

LEMMA LettersNat ==
  ASSUME NEW i \in Int, NEW j \in Int
  PROVE  LettersIn(i, j) \in Nat
BY LettersType

\* What is counted in two parts.
LEMMA LettersSplit ==
  ASSUME NEW i \in Int, NEW k \in Int, NEW j \in Int, i <= k, k <= j + 1
  PROVE  LettersIn(i, j) = LettersIn(i, k - 1) + LettersIn(k, j)
<1> DEFINE A == {l \in i .. k - 1 : text[l] \notin Blank}
           B == {l \in k .. j : text[l] \notin Blank}
           C == {l \in i .. j : text[l] \notin Blank}
<1>1. C = A \cup B /\ A \cap B = {}
  OBVIOUS
<1>2. IsFiniteSet(A) /\ IsFiniteSet(B)
  <2>1. k - 1 \in Int
    OBVIOUS
  <2> QED
    BY <2>1, LettersType, Zenon
<1>3. Cardinality(C) = Cardinality(A) + Cardinality(B) - Cardinality(A \cap B)
  BY <1>1, <1>2, FS_Union
<1>4. Cardinality(A \cap B) = 0
  BY <1>1, FS_EmptySet
<1>5. Cardinality(A) \in Nat /\ Cardinality(B) \in Nat
  BY <1>2, FS_CardinalityType
<1>6. Cardinality(C) = Cardinality(A) + Cardinality(B)
  <2> HIDE DEF A, B, C
  <2> QED
    BY <1>3, <1>4, <1>5
<1> QED
  BY <1>6 DEF LettersIn

LEMMA LettersNone ==
  ASSUME NEW i \in Int, NEW j \in Int, \A l \in i .. j : text[l] \in Blank
  PROVE  LettersIn(i, j) = 0
<1>1. {l \in i .. j : text[l] \notin Blank} = {}
  OBVIOUS
<1> QED
  BY <1>1, FS_EmptySet DEF LettersIn

\* Whether one place counts.
LEMMA LettersOne ==
  ASSUME NEW i \in Int
  PROVE  LettersIn(i, i) = IF text[i] \in Blank THEN 0 ELSE 1
<1>1. CASE text[i] \in Blank
  <2>1. \A l \in i .. i : text[l] \in Blank
    BY <1>1
  <2> QED
    BY <2>1, <1>1, LettersNone
<1>2. CASE text[i] \notin Blank
  <2>1. {l \in i .. i : text[l] \notin Blank} = {i}
    BY <1>2
  <2> QED
    BY <2>1, <1>2, FS_Singleton DEF LettersIn
<1> QED
  BY <1>1, <1>2

LEMMA LettersStep ==
  ASSUME NEW i \in Int, NEW j \in Int, i <= j
  PROVE  LettersIn(i, j) = LettersIn(i, j - 1) + (IF text[j] \in Blank THEN 0 ELSE 1)
<1>1. LettersIn(i, j) = LettersIn(i, j - 1) + LettersIn(j, j)
  BY LettersSplit
<1> QED
  BY <1>1, LettersOne

LEMMA LettersNext ==
  ASSUME NEW i \in Int, NEW j \in Int, i <= j, text[j] \notin Blank
  PROVE  LettersIn(i, j) = LettersIn(i, j - 1) + 1
BY LettersStep, Zenon

LEMMA LettersSkip ==
  ASSUME NEW i \in Int, NEW j \in Int, i <= j, text[j] \in Blank
  PROVE  LettersIn(i, j) = LettersIn(i, j - 1)
<1>1. LettersIn(i, j) = LettersIn(i, j - 1) + 0
  BY LettersStep, Zenon
<1>2. LettersIn(i, j - 1) \in Nat
  <2>1. j - 1 \in Int
    OBVIOUS
  <2> QED
    BY <2>1, LettersNat, Zenon
<1> QED
  BY <1>1, <1>2

LEMMA LettersGrow ==
  ASSUME NEW i \in Int, NEW j \in Int, NEW k \in Int, i <= j + 1, j <= k
  PROVE  LettersIn(i, j) <= LettersIn(i, k)
<1>1. LettersIn(i, k) = LettersIn(i, (j + 1) - 1) + LettersIn(j + 1, k)
  BY LettersSplit
<1>2. (j + 1) - 1 = j
  OBVIOUS
<1>3. LettersIn(j + 1, k) \in Nat /\ LettersIn(i, j) \in Nat
  <2>1. j + 1 \in Int
    OBVIOUS
  <2> QED
    BY <2>1, LettersNat, Zenon
<1> QED
  BY <1>1, <1>2, <1>3

\* Behind its last letter no letter more is counted, before it one less.
LEMMA LettersBefore ==
  ASSUME NEW i \in Int, NEW j \in Int, NEW k \in Int, i <= j + 1, j < k, text[k] \notin Blank
  PROVE  LettersIn(i, j) < LettersIn(i, k)
<1>1. LettersIn(i, j) <= LettersIn(i, k - 1)
  BY LettersGrow
<1>2. LettersIn(i, k) = LettersIn(i, k - 1) + 1
  BY LettersStep
<1>3. LettersIn(i, j) \in Nat /\ LettersIn(i, k - 1) \in Nat
  <2>1. k - 1 \in Int
    OBVIOUS
  <2> QED
    BY <2>1, LettersNat, Zenon
<1> QED
  BY <1>1, <1>2, <1>3

LEMMA LinesType ==
  ASSUME NEW i \in Int
  PROVE  NewlinesBefore(i) \in Nat /\ IsFiniteSet({j \in 1 .. i - 1 : IsNewline(j)})
<1>1. IsFiniteSet(1 .. i - 1)
  BY FS_Interval
<1>2. {j \in 1 .. i - 1 : IsNewline(j)} \subseteq 1 .. i - 1
  OBVIOUS
<1> QED
  BY <1>1, <1>2, FS_Subset, FS_CardinalityType DEF NewlinesBefore

LEMMA LinesStep ==
  ASSUME NEW i \in Nat \ {0}
  PROVE  NewlinesBefore(i + 1) = NewlinesBefore(i) + (IF IsNewline(i) THEN 1 ELSE 0)
<1> DEFINE A == {j \in 1 .. i - 1 : IsNewline(j)}
           B == {j \in 1 .. (i + 1) - 1 : IsNewline(j)}
<1>1. CASE IsNewline(i)
  <2>1. B = A \cup {i} /\ i \notin A
    BY <1>1
  <2>2. IsFiniteSet(A)
    <3>1. i \in Int
      OBVIOUS
    <3> QED
      BY <3>1, LinesType, Zenon
  <2>3. Cardinality(A \cup {i}) = Cardinality(A) + 1
    <3> HIDE DEF A
    <3> QED
      BY <2>1, <2>2, FS_AddElement
  <2> QED
    BY <2>1, <2>3, <1>1 DEF NewlinesBefore
<1>2. CASE ~IsNewline(i)
  <2>1. B = A
    BY <1>2
  <2> QED
    BY <2>1, <1>2, LinesType DEF NewlinesBefore
<1> QED
  BY <1>1, <1>2

\* Places with no line end between them have as many in front of them.
LEMMA LinesSame ==
  ASSUME NEW i \in Int, NEW k \in Int, i <= k, \A j \in i .. k - 1 : ~IsNewline(j)
  PROVE  NewlinesBefore(i) = NewlinesBefore(k)
<1>1. {j \in 1 .. i - 1 : IsNewline(j)} = {j \in 1 .. k - 1 : IsNewline(j)}
  OBVIOUS
<1> QED
  BY <1>1 DEF NewlinesBefore

\* There is one start of the line.
LEMMA LineStartIs ==
  ASSUME NEW i \in Nat \ {0}, NEW l, StartsBehind(l, i)
  PROVE  LineStart(i) = l
<1> DEFINE ends == {j \in 1 .. i - 1 : IsNewline(j)}
<1>1. CASE l = 0
  BY <1>1 DEF StartsBehind, LineStart
<1>2. CASE l # 0
  <2>1. l \in ends /\ \A j \in ends : j <= l
    BY <1>2 DEF StartsBehind
  <2>2. \A m \in ends : (\A j \in ends : j <= m) => m = l
    BY <2>1
  <2>3. LineStart(i) = CHOOSE m \in ends : \A j \in ends : j <= m
    BY <2>1 DEF LineStart
  <2> HIDE DEF ends
  <2> QED
    BY <2>1, <2>2, <2>3
<1> QED
  BY <1>1, <1>2
---------------------------------------------------------------------------
(* Attempts *)

\* The text and the word stay, and so does what is said of them alone.
LEMMA Rigid ==
  ASSUME text' = text, word' = word
  PROVE  /\ \A i, j : LettersIn(i, j)' = LettersIn(i, j)
         /\ \A i : NewlinesBefore(i)' = NewlinesBefore(i)
         /\ \A i : IsNewline(i)' <=> IsNewline(i)
         /\ \A i : Occurs(i)' <=> Occurs(i)
         /\ \A l, i : StartsBehind(l, i)' <=> StartsBehind(l, i)
         /\ PlainWord' <=> PlainWord
         /\ CleanLineEnds' <=> CleanLineEnds
<1>1. \A i, j : LettersIn(i, j)' = LettersIn(i, j)
  BY DEF LettersIn
<1>2. \A i : IsNewline(i)' <=> IsNewline(i)
  BY DEF IsNewline
<1>3. \A i : NewlinesBefore(i)' = NewlinesBefore(i)
  BY <1>2 DEF NewlinesBefore
<1>4. \A i : Occurs(i)' <=> Occurs(i)
  BY <1>1 DEF Occurs
<1>5. \A l, i : StartsBehind(l, i)' <=> StartsBehind(l, i)
  BY <1>2 DEF StartsBehind
<1>6. PlainWord' <=> PlainWord
  BY DEF PlainWord
<1>7. CleanLineEnds' <=> CleanLineEnds
  BY <1>1, <1>2 DEF CleanLineEnds
<1> QED
  BY <1>1, <1>2, <1>3, <1>4, <1>5, <1>6, <1>7

\* What there is to know of the current character.
LEMMA Current ==
  ASSUME TypeOK, ~Done
  PROVE  /\ pos \in 1 .. Len(text) /\ Char = text[pos] /\ Char \in Letter \cup Blank
         /\ wordIndex + 1 \in 1 .. Len(word)
         /\ Matches => Char \notin Blank /\ ~IsNewline(pos)
         /\ Char \notin Blank => ~IsNewline(pos)
         /\ IsNewline(pos) <=> Char = Newline
         /\ Here \in Nat
         /\ Top = IF IsNewline(pos) /\ found = <<>> THEN row + 1 ELSE row
<1>1. Len(text) \in Nat /\ DOMAIN text = 1 .. Len(text) /\ text \in Seq(Letter \cup Blank)
  BY Strings DEF TypeOK
<1>2. Len(word) \in Nat /\ \A k \in 1 .. Len(word) : word[k] \notin Blank
  BY Strings DEF TypeOK
<1>3. pos \in 1 .. Len(text) /\ Char = text[pos] /\ Char \in Letter \cup Blank
  BY <1>1 DEF TypeOK, Done, Char
<1>4. wordIndex + 1 \in 1 .. Len(word)
  BY <1>2 DEF TypeOK
<1>5. IsNewline(pos) <=> Char = Newline
  BY <1>1, <1>3 DEF IsNewline
<1>6. Here \in Nat
  BY <1>1 DEF TypeOK, Here
<1> QED
  BY <1>2, <1>3, <1>4, <1>5, <1>6 DEF Matches, Blank, Top

\* A letter that goes on with the word makes the attempt one letter longer.
LEMMA Longer ==
  ASSUME TypeOK, Attempt, ~Done, Matches
  PROVE  /\ Start.at = Here /\ Start.at \in 1 .. pos /\ valid = pos - Start.at
         /\ text[Start.at] \notin Blank
         /\ LettersIn(Start.at, pos) = wordIndex + 1
         /\ \A j \in Start.at .. pos : text[j] \notin Blank => text[j] = word[LettersIn(Start.at, j)]
         /\ \A k \in 1 .. wordIndex + 1 : \E j \in Start.at .. pos :
              text[j] = word[k] /\ LettersIn(Start.at, j) = k
<1>1. /\ pos \in 1 .. Len(text) /\ Len(text) \in Nat /\ text[pos] \notin Blank
      /\ text[pos] = word[wordIndex + 1] /\ wordIndex \in Nat
  BY Current, Strings DEF TypeOK, Matches
<1>2. CASE wordIndex = 0
  <2>1. Start.at = pos /\ Start.at = Here /\ valid = 0
    BY <1>2 DEF Start, Place, Here, Attempt
  <2>2. LettersIn(pos, pos) = 1
    BY <1>1, LettersOne
  <2>3. \A k \in 1 .. wordIndex + 1 : k = 1
    BY <1>2
  <2>4. \A j \in pos .. pos : j = pos
    BY <1>1
  <2> QED
    BY <2>1, <2>2, <2>3, <2>4, <1>1, <1>2
<1>3. CASE wordIndex # 0
  <2> DEFINE s == first.at
  <2>1. Start.at = s /\ Start.at = Here /\ valid = pos - s /\ s \in 1 .. pos - 1
    BY <1>3 DEF Start, Here, Attempt
  <2>2. text[s] \notin Blank /\ LettersIn(s, pos - 1) = wordIndex
    BY <1>3 DEF Attempt
  <2>3. LettersIn(s, pos) = wordIndex + 1
    <3>1. s \in Int /\ pos \in Int /\ s <= pos
      BY <1>1, <2>1
    <3> QED
      BY <1>1, <2>2, <3>1, LettersNext
  <2>4. ASSUME NEW j \in s .. pos, text[j] \notin Blank PROVE text[j] = word[LettersIn(s, j)]
    <3>1. CASE j = pos
      BY <3>1, <2>3, <1>1
    <3>2. CASE j # pos
      <4>1. j \in s .. pos - 1
        BY <3>2, <2>1, <1>1
      <4> QED
        BY <4>1, <2>4, <1>3 DEF Attempt
    <3> QED
      BY <3>1, <3>2
  <2>5. ASSUME NEW k \in 1 .. wordIndex + 1
        PROVE  \E j \in s .. pos : text[j] = word[k] /\ LettersIn(s, j) = k
    <3>1. CASE k = wordIndex + 1
      <4>1. pos \in s .. pos
        BY <2>1, <1>1
      <4> QED
        BY <3>1, <4>1, <2>3, <1>1
    <3>2. CASE k # wordIndex + 1
      <4>1. k \in 1 .. wordIndex
        BY <3>2, <1>1
      <4>2. PICK j \in s .. pos - 1 : text[j] = word[k] /\ LettersIn(s, j) = k
        BY <4>1, <1>3 DEF Attempt
      <4>3. j \in s .. pos
        BY <2>1, <1>1
      <4> QED
        BY <4>2, <4>3
    <3> QED
      BY <3>1, <3>2
  <2>6. Start.at \in 1 .. pos
    BY <2>1, <1>1
  <2> HIDE DEF s
  <2>7. s = Start.at
    BY <2>1
  <2> QED
    BY <2>1, <2>2, <2>3, <2>4, <2>5, <2>6, <2>7
<1> QED
  BY <1>2, <1>3

\* The file is pulled back to the place behind the start of the match.
LEMMA Back ==
  ASSUME TypeOK, Attempt, Report
  PROVE  /\ PullBack(valid + 1) = valid
         /\ pos' = Here + 1 /\ Here' = Here + 1
         /\ column' = column - valid + 1
         /\ Here \in 1 .. pos /\ Here = Start.at
<1>1. ~Done /\ Matches /\ wordIndex + 1 = Len(word)
  BY DEF Report
<1>2. /\ Start.at = Here /\ Start.at \in 1 .. pos /\ valid = pos - Start.at
  BY <1>1, Longer
<1>3. pos \in Nat /\ Len(word) \in Nat \ {0} /\ wordIndex \in Nat
  BY Sizes
<1>4. PullBack(valid + 1) = valid
  <2>1. Len(word) > 1 \/ (wordIndex = 0 /\ valid = 0)
    BY <1>3, <1>1 DEF Attempt
  <2>2. valid \in Int
    BY Sizes
  <2> QED
    BY <2>1, <2>2 DEF PullBack
<1>5. pos' = Here + 1 /\ wordIndex' = 0 /\ column' = column - valid + 1
  <2>1. pos' = pos - valid + 1 /\ wordIndex' = 0 /\ column' = column - valid + 1
    BY <1>4 DEF Report, Read
  <2> QED
    BY <1>3, <1>2, <2>1
<1> QED
  BY <1>2, <1>4, <1>5 DEF Here

\* An occurrence begins with the first letter of the word.
LEMMA FirstLetter ==
  ASSUME TypeOK, NEW i \in DOMAIN text, Occurs(i)
  PROVE  text[i] = word[1] /\ text[i] \notin Blank
<1>1. 1 \in DOMAIN word /\ \A k \in DOMAIN word : word[k] \notin Blank
  BY Strings DEF TypeOK
<1>2. PICK j \in i .. Len(text) : text[j] = word[1] /\ LettersIn(i, j) = 1
  BY <1>1 DEF Occurs
<1>3. text[i] \notin Blank /\ i \in Nat /\ j \in Nat
  BY Strings DEF Occurs, TypeOK
<1>4. LettersIn(i, i) = 1
  BY <1>3, LettersOne
<1>5. i = j
  <2>1. SUFFICES ASSUME i < j PROVE FALSE
    BY <1>3, Sizes
  <2>2. LettersIn(i, i) < LettersIn(i, j)
    BY <2>1, <1>1, <1>2, <1>3, LettersBefore
  <2> QED
    BY <2>2, <1>2, <1>4
<1> QED
  BY <1>2, <1>3, <1>5

\* Within an attempt at a plain word no other match begins.
LEMMA NoneInside ==
  ASSUME TypeOK, Attempt, PlainWord, wordIndex # 0, NEW i \in first.at + 1 .. pos - 1
  PROVE  ~Occurs(i)
<1> DEFINE s == first.at
           k == LettersIn(s, i)
<1> SUFFICES ASSUME Occurs(i) PROVE FALSE
  OBVIOUS
<1>1. /\ s \in 1 .. pos - 1 /\ pos \in 1 .. Len(text) + 1 /\ Len(text) \in Nat
      /\ DOMAIN text = 1 .. Len(text) /\ i \in DOMAIN text
      /\ wordIndex \in 1 .. Len(word) - 1 /\ Len(word) \in Nat
  <2>1. s \in 1 .. pos - 1
    BY DEF Attempt
  <2>2. /\ Len(text) \in Nat /\ DOMAIN text = 1 .. Len(text)
        /\ pos \in 1 .. Len(text) + 1 /\ Len(word) \in Nat \ {0}
        /\ wordIndex \in 0 .. Len(word) - 1
    BY Sizes
  <2>3. i \in s + 1 .. pos - 1
    OBVIOUS
  <2> HIDE DEF s
  <2>4. i \in 1 .. Len(text)
    BY <2>1, <2>2, <2>3
  <2> QED
    BY <2>1, <2>2, <2>4
<1>2. text[i] = word[1] /\ text[i] \notin Blank
  BY <1>1, FirstLetter
<1>3. text[s] \notin Blank /\ LettersIn(s, pos - 1) = wordIndex
  BY DEF Attempt
<1>4. LettersIn(s, s) = 1 /\ LettersIn(s, s) < k
  BY <1>1, <1>2, <1>3, LettersOne, LettersBefore
<1>5. k <= wordIndex /\ k \in Nat
  <2>1. s \in Int /\ i \in Int /\ pos - 1 \in Int /\ s <= i + 1 /\ i <= pos - 1
    BY <1>1
  <2>2. k <= LettersIn(s, pos - 1)
    BY <2>1, LettersGrow
  <2>3. k \in Nat
    BY <2>1, LettersNat
  <2> QED
    BY <1>3, <2>2, <2>3
<1>6. i \in s .. pos - 1
  BY <1>1
<1>7. text[i] = word[k]
  BY <1>2, <1>6 DEF Attempt
<1>8. k \in 2 .. Len(word) - 1
  BY <1>1, <1>4, <1>5
<1> QED
  BY <1>2, <1>7, <1>8 DEF PlainWord

\* An attempt that comes to a wrong letter or to the end of the file was no match.
LEMMA NotThis ==
  ASSUME TypeOK, Attempt, wordIndex # 0, Done \/ (~Matches /\ Char \notin Blank)
  PROVE  ~Occurs(first.at)
<1> DEFINE s == first.at
           n == wordIndex + 1
<1> SUFFICES ASSUME Occurs(s) PROVE FALSE
  OBVIOUS
<1>1. /\ s \in 1 .. pos - 1 /\ pos \in 1 .. Len(text) + 1 /\ Len(text) \in Nat
      /\ n \in DOMAIN word /\ word[n] \notin Blank /\ wordIndex \in Nat
      /\ LettersIn(s, pos - 1) = wordIndex
  BY Strings DEF TypeOK, Attempt
<1>2. PICK j \in s .. Len(text) : text[j] = word[n] /\ LettersIn(s, j) = n
  BY <1>1 DEF Occurs
<1>3. j >= pos
  <2>1. SUFFICES ASSUME j <= pos - 1 PROVE FALSE
    BY <1>1
  <2>2. LettersIn(s, j) <= LettersIn(s, pos - 1)
    BY <2>1, <1>1, LettersGrow
  <2> QED
    BY <2>2, <1>1, <1>2
<1>4. ~Done /\ text[pos] \notin Blank /\ text[pos] # word[n]
  BY <1>1, <1>3 DEF Done, Matches, Char
<1>5. LettersIn(s, pos) = n
  <2>1. s \in Int /\ pos \in Int /\ s <= pos
    BY <1>1
  <2> QED
    BY <1>1, <1>4, <2>1, LettersNext
<1>6. pos < j
  BY <1>1, <1>2, <1>3, <1>4
<1>7. LettersIn(s, pos) < LettersIn(s, j)
  BY <1>1, <1>2, <1>6, LettersBefore
<1> QED
  BY <1>1, <1>2, <1>5, <1>7
---------------------------------------------------------------------------
(* Types and attempts *)

LEMMA Fixed == ASSUME Next PROVE text' = text /\ word' = word /\ ~Done
BY DEF Next, Extend, Report, Skip, Mismatch

\* Rows only go up, and columns are whole numbers.
LEMMA ReadType ==
  ASSUME NEW from, NEW r \in Nat, NEW c \in Int, NEW ptr, NEW n, Read(from, r, c, ptr, n)
  PROVE  row' \in Nat /\ column' \in Int /\ pos' = from + 1
BY DEF Read

LEMMA TypeKept ==
  ASSUME TypeOK, Attempt, Next
  PROVE  TypeOK'
<1> DEFINE L == Len(text)
           F == [row : Nat, column : Int, at : 1 .. L]
<1>1. text' = text /\ word' = word /\ ~Done
  BY Fixed
<1>2. L \in Nat /\ pos \in 1 .. L /\ Len(word) \in Nat \ {0} /\ wordIndex + 1 \in 1 .. Len(word)
  BY <1>1, Current, Sizes
<1>3. Top \in Nat /\ column \in Int
  BY DEF Top, TypeOK
<1>4. wordIndex # 0 => first.at \in 1 .. pos - 1 /\ valid = pos - first.at
  BY DEF Attempt
<1>5. wordIndex = 0 => valid = 0
  BY DEF Attempt
<1>6. Matches => Start \in F
  BY <1>1, <1>2, <1>3, <1>4 DEF Start, Place, TypeOK
<1>7. CASE Extend
  <2>1. row' \in Nat /\ column' \in Int /\ pos' = pos + 1
    BY <1>3, <1>7, ReadType DEF Extend
  <2>2. wordIndex' \in 0 .. Len(word) - 1 /\ valid' \in 0 .. L
    <3>1. wordIndex + 1 < Len(word) /\ wordIndex' = wordIndex + 1 /\ valid' = valid + 1
      BY <1>7 DEF Extend
    <3>2. wordIndex' \in 0 .. Len(word) - 1
      BY <3>1, <1>2
    <3>3. valid + 1 \in 0 .. L
      BY <1>2, <1>4, <1>5
    <3> QED
      BY <3>1, <3>2, <3>3
  <2>3. first' \in [row : Nat, column : Int, at : 0 .. L]
    BY <1>2, <1>6, <1>7 DEF Extend
  <2> QED
    BY <1>1, <1>2, <1>7, <2>1, <2>2, <2>3 DEF TypeOK, Extend
<1>8. CASE Report
  <2>1. pos' = Here + 1 /\ Here \in 1 .. pos /\ PullBack(valid + 1) = valid
    BY <1>8, Back
  <2>2. row' \in Nat /\ column' \in Int
    <3>1. valid \in Int
      BY DEF TypeOK
    <3>2. column - PullBack(valid + 1) \in Int
      BY <2>1, <3>1, <1>3
    <3> QED
      BY <1>3, <1>8, <3>2, ReadType DEF Report
  <2>3. wordIndex' = 0 /\ valid' = 0 /\ pulled' \in 0 .. L
    BY <1>2, <1>8, Sizes DEF Report
  <2>4. first' \in [row : Nat, column : Int, at : 0 .. L] /\ found' \in Seq(F)
    <3>1. first' = Start /\ found' = Append(found, Start) /\ Matches
      BY <1>8 DEF Report
    <3>2. found \in Seq(F)
      BY DEF TypeOK
    <3>3. \A f \in F : f \in [row : Nat, column : Int, at : 0 .. L]
      BY <1>2
    <3> HIDE DEF F
    <3> QED
      BY <1>6, <3>1, <3>2, <3>3
  <2>5. pos' \in 1 .. L + 1 /\ 0 \in 0 .. Len(word) - 1 /\ 0 \in 0 .. L
    BY <1>2, <2>1
  <2>6. text' \in Text /\ word' \in Word /\ Len(text') = L /\ Len(word') = Len(word)
    BY <1>1 DEF TypeOK
  <2> QED
    BY <2>2, <2>3, <2>4, <2>5, <2>6 DEF TypeOK
<1>9. CASE Skip
  <2>1. row' \in Nat /\ column' \in Int /\ pos' = pos + 1
    BY <1>3, <1>9, ReadType DEF Skip
  <2>2. valid' \in 0 .. L
    <3>1. valid' = (IF wordIndex = 0 THEN valid ELSE valid + 1)
      BY <1>9 DEF Skip
    <3>2. valid \in 0 .. L /\ (wordIndex # 0 => valid + 1 \in 0 .. L)
      BY <1>2, <1>4, <1>5
    <3> QED
      BY <3>1, <3>2
  <2> QED
    BY <1>1, <1>2, <1>9, <2>1, <2>2 DEF TypeOK, Skip
<1>10. CASE Mismatch
  <2>1. row' \in Nat /\ column' \in Int /\ pos' \in {pos, pos + 1}
    <3> DEFINE c == IF Retry THEN ColumnBack ELSE column
    <3>1. c \in Int
      BY <1>3 DEF ColumnBack
    <3>0. Read(IF Retry THEN pos - 1 ELSE pos, Top, c, pulled, Len(found))
      BY <1>10 DEF Mismatch
    <3> HIDE DEF c
    <3>2. row' \in Nat /\ column' \in Int /\ pos' = (IF Retry THEN pos - 1 ELSE pos) + 1
      BY <1>3, <3>1, <3>0, ReadType
    <3> QED
      BY <3>2, <1>2
  <2>2. /\ wordIndex' = 0 /\ valid' = 0
        /\ first' = first /\ found' = found /\ pulled' = pulled
    BY <1>10 DEF Mismatch, Forgotten
  <2>3. pos' \in 1 .. L + 1 /\ wordIndex' \in 0 .. Len(word) - 1 /\ valid' \in 0 .. L
    BY <1>2, <2>1, <2>2
  <2>4. text' \in Text /\ word' \in Word /\ Len(text') = L /\ Len(word') = Len(word)
    BY <1>1 DEF TypeOK
  <2>5. /\ first' \in [row : Nat, column : Int, at : 0 .. L]
        /\ found' \in Seq(F) /\ pulled' \in 0 .. L
    BY <2>2 DEF TypeOK
  <2> QED
    BY <2>1, <2>3, <2>4, <2>5 DEF TypeOK
<1> QED
  BY <1>7, <1>8, <1>9, <1>10 DEF Next

\* A match under way stays what it is while blanks are passed.
LEMMA AttemptKept ==
  ASSUME TypeOK, Attempt, Next
  PROVE  Attempt'
<1>1. text' = text /\ word' = word /\ ~Done
  BY Fixed
<1>2. \A i, j : LettersIn(i, j)' = LettersIn(i, j)
  BY <1>1, Rigid
<1>3. pos \in 1 .. Len(text) /\ Len(text) \in Nat
  BY <1>1, Current, Sizes
<1>4. CASE Extend
  <2> DEFINE s == Start.at
  <2>1. /\ pos' = pos + 1 /\ wordIndex' = wordIndex + 1 /\ valid' = valid + 1 /\ first'.at = s
        /\ wordIndex \in Nat
    BY <1>4 DEF Extend, Read, TypeOK
  <2>2. Matches
    BY <1>4 DEF Extend
  <2>3. s \in 1 .. pos /\ valid = pos - s /\ pos' - 1 = pos
    BY <1>1, <1>3, <2>1, <2>2, Longer
  <2>4. text[s] \notin Blank /\ LettersIn(s, pos) = wordIndex + 1
    BY <1>1, <2>2, Longer
  <2>5. \A j \in s .. pos : text[j] \notin Blank => text[j] = word[LettersIn(s, j)]
    BY <1>1, <2>2, Longer
  <2>6. \A k \in 1 .. wordIndex + 1 : \E j \in s .. pos : text[j] = word[k] /\ LettersIn(s, j) = k
    BY <1>1, <2>2, Longer
  <2> HIDE DEF s
  <2> QED
    BY <1>1, <1>2, <1>3, <2>1, <2>3, <2>4, <2>5, <2>6 DEF Attempt
<1>5. CASE Report
  BY <1>5 DEF Report, Attempt
<1>6. CASE Skip
  <2>1. /\ pos' = pos + 1 /\ wordIndex' = wordIndex /\ first' = first /\ text[pos] \in Blank
        /\ valid' = IF wordIndex = 0 THEN valid ELSE valid + 1
    BY <1>6 DEF Skip, Read, Char
  <2>2. CASE wordIndex = 0
    BY <2>1, <2>2 DEF Attempt
  <2>3. CASE wordIndex # 0
    <3> DEFINE s == first.at
    <3>1. s \in 1 .. pos - 1 /\ valid = pos - s /\ pos' - 1 = pos
      BY <1>3, <2>1, <2>3 DEF Attempt
    <3>2. text[s] \notin Blank /\ LettersIn(s, pos - 1) = wordIndex
      BY <2>3 DEF Attempt
    <3>3. LettersIn(s, pos) = wordIndex
      <4>1. s \in Int /\ pos \in Int /\ s <= pos
        BY <1>3, <3>1
      <4> QED
        BY <2>1, <3>2, <4>1, LettersSkip
    <3>4. ASSUME NEW j \in s .. pos, text[j] \notin Blank
          PROVE  text[j] = word[LettersIn(s, j)]
      <4>1. j \in s .. pos - 1
        BY <1>3, <2>1, <3>1, <3>4
      <4> QED
        BY <2>3, <3>4, <4>1 DEF Attempt
    <3>5. ASSUME NEW k \in 1 .. wordIndex
          PROVE  \E j \in s .. pos : text[j] = word[k] /\ LettersIn(s, j) = k
      <4>1. PICK j \in s .. pos - 1 : text[j] = word[k] /\ LettersIn(s, j) = k
        BY <2>3 DEF Attempt
      <4>2. j \in s .. pos
        BY <1>3, <3>1
      <4> QED
        BY <4>1, <4>2
    <3>6. s \in 1 .. pos /\ valid' = pos + 1 - s /\ s = first'.at
      BY <1>3, <2>1, <2>3, <3>1
    <3> HIDE DEF s
    <3> QED
      BY <1>1, <1>2, <2>1, <2>3, <3>1, <3>2, <3>3, <3>4, <3>5, <3>6 DEF Attempt
  <2> QED
    BY <2>2, <2>3
<1>7. CASE Mismatch
  BY <1>7 DEF Mismatch, Forgotten, Attempt
<1> QED
  BY <1>4, <1>5, <1>6, <1>7 DEF Next
---------------------------------------------------------------------------
(* What is found *)

LEMMA RetryInside ==
  ASSUME TypeOK, Mismatch, Retry
  PROVE  wordIndex # 0
BY Strings DEF TypeOK, Mismatch, Retry, Matches

\* Where a step leads.
LEMMA HereMoves ==
  ASSUME TypeOK, Attempt, Next
  PROVE  /\ Extend => Here' = Here /\ pos' = pos + 1
         /\ Report => Here' = Here + 1
         /\ Skip => Here' = (IF wordIndex = 0 THEN pos + 1 ELSE Here) /\ pos' = pos + 1
         /\ Mismatch => Here' = pos' /\ pos' = IF Retry THEN pos ELSE pos + 1
         /\ Here \in 1 .. pos /\ (wordIndex # 0 => Here < pos)
<1>1. pos \in 1 .. Len(text) /\ Len(text) \in Nat /\ wordIndex \in Nat
  BY Fixed, Current, Sizes
<1>2. Here \in 1 .. pos /\ (wordIndex # 0 => Here < pos)
  BY <1>1 DEF Here, Attempt
<1>3. CASE Extend
  <2>1. pos' = pos + 1 /\ wordIndex' = wordIndex + 1 /\ first' = Start /\ Matches
    BY <1>3 DEF Extend, Read
  <2>2. Start.at = Here
    BY <2>1, Fixed, Longer
  <2>3. Here' = Here
    BY <1>1, <2>1, <2>2 DEF Here
  <2> QED
    BY <1>2, <1>3, <2>1, <2>3 DEF Extend, Report, Skip, Mismatch
<1>4. CASE Report
  <2>1. Here' = Here + 1
    BY <1>4, Back
  <2> QED
    BY <1>2, <1>4, <2>1 DEF Extend, Report, Skip, Mismatch
<1>5. CASE Skip
  <2>1. pos' = pos + 1 /\ wordIndex' = wordIndex /\ first' = first
    BY <1>5 DEF Skip, Read
  <2> QED
    BY <1>2, <1>5, <2>1 DEF Here, Extend, Report, Skip, Mismatch
<1>6. CASE Mismatch
  <2>1. pos' = (IF Retry THEN pos - 1 ELSE pos) + 1 /\ wordIndex' = 0
    BY <1>6 DEF Mismatch, Read, Forgotten
  <2>2. pos' = IF Retry THEN pos ELSE pos + 1
    BY <1>1, <2>1
  <2> QED
    BY <1>2, <1>6, <2>1, <2>2 DEF Here, Extend, Report, Skip, Mismatch
<1> QED
  BY <1>3, <1>4, <1>5, <1>6 DEF Next

LEMMA Onward ==
  ASSUME TypeOK, Attempt, Next
  PROVE  Advance /\ Here' >= Here /\ Here' \in Nat
<1>1. pos \in Nat
  BY Fixed, Current
<1> QED
  BY <1>1, HereMoves, RetryInside DEF Advance, Next

LEMMA FoundType ==
  ASSUME TypeOK
  PROVE  /\ Len(found) \in Nat /\ DOMAIN found = 1 .. Len(found)
         /\ \A k \in DOMAIN found : found[k].at \in 1 .. Len(text) /\ found[k].row \in Nat
                                    /\ found[k].column \in Int
<1> DEFINE F == [row : Nat, column : Int, at : 1 .. Len(text)]
<1>1. found \in Seq(F)
  BY DEF TypeOK
<1>2. \A f \in F : f.at \in 1 .. Len(text) /\ f.row \in Nat /\ f.column \in Int
  OBVIOUS
<1> HIDE DEF F
<1>3. Len(found) \in Nat /\ DOMAIN found = 1 .. Len(found) /\ \A k \in DOMAIN found : found[k] \in F
  BY <1>1
<1> QED
  BY <1>2, <1>3

\* The new match comes last.
LEMMA Reported ==
  ASSUME TypeOK, Attempt, Report
  PROVE  /\ found' = Append(found, Start) /\ Len(found') = Len(found) + 1
         /\ DOMAIN found' = 1 .. Len(found) + 1
         /\ \A k \in DOMAIN found : found'[k] = found[k]
         /\ found'[Len(found) + 1] = Start
         /\ Start.at = Here /\ Occurs(Start.at)
<1>1. found' = Append(found, Start) /\ Len(found) \in Nat /\ ~Done /\ Matches
  BY FoundType DEF Report
<1>2. found \in Seq([row : Nat, column : Int, at : 1 .. Len(text)])
  BY DEF TypeOK
<1>3. /\ Len(found') = Len(found) + 1 /\ DOMAIN found' = 1 .. Len(found) + 1
      /\ \A k \in DOMAIN found : found'[k] = found[k]
      /\ found'[Len(found) + 1] = Start
  BY <1>1, <1>2
<1>4. Start.at = Here /\ Occurs(Start.at)
  <2> DEFINE s == Start.at
  <2>1. s = Here /\ s \in 1 .. pos /\ text[s] \notin Blank
    BY <1>1, Longer
  <2>2. \A k \in 1 .. wordIndex + 1 : \E j \in s .. pos : text[j] = word[k] /\ LettersIn(s, j) = k
    BY <1>1, Longer
  <2>3. wordIndex + 1 = Len(word) /\ DOMAIN word = 1 .. Len(word) /\ pos \in 1 .. Len(text)
    BY <1>1, Current, Sizes DEF Report
  <2>4. Len(text) \in Nat
    BY Sizes
  <2> HIDE DEF s
  <2>5. \A j \in s .. pos : j \in s .. Len(text)
    BY <2>1, <2>3, <2>4
  <2>6. Occurs(s)
    BY <2>1, <2>2, <2>3, <2>5 DEF Occurs
  <2> QED
    BY <2>1, <2>6 DEF s
<1> QED
  BY <1>1, <1>3, <1>4

LEMMA PrintedKept ==
  ASSUME TypeOK, Attempt, Printed, Next
  PROVE  Printed'
<1>1. \A i : Occurs(i)' <=> Occurs(i)
  BY Fixed, Rigid
<1>2. Here \in Nat /\ Here' \in Nat /\ Here' >= Here
  BY Fixed, Current, Onward, HereMoves DEF Next
<1>3. CASE ~Report
  <2>1. found' = found
    BY <1>3 DEF Next, Extend, Skip, Mismatch
  <2> QED
    BY <1>1, <1>2, <2>1, FoundType DEF Printed, FoundOnce
<1>4. CASE Report
  <2> DEFINE n == Len(found) + 1
  <2>1. /\ DOMAIN found' = 1 .. n /\ DOMAIN found = 1 .. n - 1 /\ n \in Nat \ {0}
        /\ \A k \in 1 .. n - 1 : found'[k] = found[k] /\ found[k].at < Here
        /\ found'[n].at = Here /\ Here' = Here + 1
    BY <1>4, Reported, FoundType, Back DEF Printed
  <2>2. \A k \in 1 .. n : k = n \/ k \in 1 .. n - 1
    BY <2>1
  <2>3. Occurs(Here)
    BY <1>4, Reported
  <2>4. \A k \in 1 .. n - 1 : Occurs(found[k].at) /\ found[k].at \in Nat
    BY <2>1, FoundType DEF Printed, FoundOnce
  <2>5. \A k, m \in 1 .. n - 1 : k < m => found[k].at < found[m].at
    BY <2>1 DEF Printed, FoundOnce
  <2>6. \A k \in 1 .. n : Occurs(found'[k].at) /\ found'[k].at < Here'
    BY <1>2, <2>1, <2>2, <2>3, <2>4
  <2>7. ASSUME NEW k \in 1 .. n, NEW m \in 1 .. n, k < m
        PROVE  found'[k].at < found'[m].at
    <3>1. k \in 1 .. n - 1
      BY <2>1, <2>7
    <3> QED
      BY <2>1, <2>2, <2>5, <2>7, <3>1
  <2> HIDE DEF n
  <2> QED
    BY <1>1, <2>1, <2>6, <2>7 DEF Printed, FoundOnce
<1> QED
  BY <1>3, <1>4

\* What a step leaves behind is no occurrence, if it is not printed.
LEMMA CompliedKept ==
  ASSUME TypeOK, Attempt, Complied, Next
  PROVE  Complied'
<1> SUFFICES ASSUME PlainWord, NEW i, i \in 1 .. Here' - 1, Occurs(i)
             PROVE  i \in Starts'
  BY Fixed, Rigid DEF Complied
<1>1. pos \in 1 .. Len(text) /\ Len(text) \in Nat /\ DOMAIN text = 1 .. Len(text)
  BY Fixed, Current, Sizes
<1>2. Here \in 1 .. pos /\ i \in Nat \ {0} /\ i < Here'
  <2>1. Here' \in Nat
    BY Onward
  <2>2. Here \in 1 .. pos
    BY HereMoves
  <2>3. i \in 1 .. Here' - 1
    OBVIOUS
  <2>4. \A h \in Nat : \A j \in 1 .. h - 1 : j \in Nat \ {0} /\ j < h
    OBVIOUS
  <2>5. i \in Nat \ {0} /\ i < Here'
    BY <2>1, <2>3, <2>4
  <2> QED
    BY <2>2, <2>5
<1>3. CASE i < Here
  <2>1. i \in Starts
    BY <1>2, <1>3 DEF Complied
  <2>2. Starts \subseteq Starts'
    <3>1. CASE Report
      BY <3>1, Reported, FoundType DEF Starts
    <3>2. CASE ~Report
      BY <3>2 DEF Next, Extend, Skip, Mismatch, Starts
    <3> QED
      BY <3>1, <3>2
  <2> QED
    BY <2>1, <2>2
<1>4. CASE i >= Here
  <2>1. CASE Extend
    BY <1>2, <1>4, <2>1, HereMoves
  <2>2. CASE Report
    <3>1. i = Here
      BY <1>2, <1>4, <2>2, HereMoves
    <3> QED
      BY <3>1, <2>2, Reported, FoundType DEF Starts
  <2>3. CASE Skip
    <3>1. i = pos /\ text[i] \in Blank
      BY <1>1, <1>2, <1>4, <2>3, HereMoves DEF Skip, Char, Here
    <3> QED
      BY <3>1 DEF Occurs
  <2>4. CASE Mismatch
    <3>1. pos' = (IF Retry THEN pos ELSE pos + 1) /\ Here' = pos'
      BY <2>4, HereMoves
    <3>2. i \in DOMAIN text /\ text[i] = word[1]
      <4>1. i \in DOMAIN text
        BY <1>1, <1>2, <3>1
      <4> QED
        BY <4>1, FirstLetter
    <3>3. i # pos
      BY <1>1, <1>2, <3>1, <3>2 DEF Retry, Char
    <3>4. i < pos
      BY <1>1, <1>2, <3>1, <3>3
    <3>5. wordIndex # 0 /\ Here = first.at
      BY <1>4, <3>4, <1>1, <1>2 DEF Here
    <3>6. i # first.at
      BY <2>4, <3>5, NotThis DEF Mismatch
    <3>7. i \in first.at + 1 .. pos - 1
      BY <1>1, <1>2, <1>4, <3>4, <3>5, <3>6
    <3> QED
      BY <3>5, <3>7, NoneInside
  <2> QED
    BY <2>1, <2>2, <2>3, <2>4 DEF Next
<1> QED
  BY <1>2, <1>3, <1>4, <1>1

\* At the end nothing is left, an attempt that was under way included.
LEMMA CompliedPlain == TypeOK /\ Attempt /\ Printed /\ Complied => PlainComplete
<1> SUFFICES ASSUME TypeOK, Attempt, Printed, Complied, PlainWord, Done
             PROVE  Starts = Occurrences
  BY DEF PlainComplete, Complete
<1>1. Len(text) \in Nat /\ DOMAIN text = 1 .. Len(text) /\ pos = Len(text) + 1
  BY Sizes DEF Done
<1>2. Starts \subseteq Occurrences
  BY <1>1, FoundType DEF Printed, FoundOnce, Starts, Occurrences
<1>3. ASSUME NEW i \in DOMAIN text, Occurs(i), i \notin Starts PROVE FALSE
  <2>1. ~(i \in 1 .. Here - 1)
    BY <1>3 DEF Complied
  <2>2. wordIndex # 0 /\ Here = first.at /\ first.at \in 1 .. pos - 1
    BY <1>1, <2>1 DEF Here, Attempt
  <2>3. i # first.at
    BY <1>3, <2>2, NotThis
  <2>4. i \in first.at + 1 .. pos - 1
    BY <1>1, <2>1, <2>2, <2>3
  <2> QED
    BY <1>3, <2>2, <2>4, NoneInside
<1> QED
  BY <1>2, <1>3 DEF Occurrences
---------------------------------------------------------------------------
(* Rows *)

\* The whole word is read.
LEMMA Whole ==
  ASSUME TypeOK, Attempt, Report
  PROVE  /\ LettersIn(Here, pos) = Len(word) /\ text[pos] \notin Blank
         /\ Here \in 1 .. pos /\ pos \in 1 .. Len(text)
         /\ Len(word) = 1 => Here = pos
         /\ Len(word) > 1 => Here < pos
<1>1. ~Done /\ Matches /\ wordIndex + 1 = Len(word)
  BY DEF Report
<1>2. Start.at = Here /\ LettersIn(Start.at, pos) = wordIndex + 1
  BY <1>1, Longer
<1>3. pos \in 1 .. Len(text) /\ text[pos] \notin Blank
  BY <1>1, Current
<1>4. LettersIn(Here, pos) = Len(word)
  BY <1>1, <1>2
<1>5. Here \in 1 .. pos /\ (wordIndex # 0 => Here < pos)
  BY HereMoves DEF Next
<1>6. wordIndex \in Nat /\ (wordIndex = 0 => Here = pos)
  BY DEF TypeOK, Here
<1> QED
  BY <1>1, <1>3, <1>4, <1>5, <1>6

LEMMA LastEndKept ==
  ASSUME TypeOK, Attempt, LastEnd, Next
  PROVE  LastEnd'
<1>1. text' = text /\ word' = word /\ \A i, j : LettersIn(i, j)' = LettersIn(i, j)
  BY Fixed, Rigid
<1>2. CASE ~Report
  <2>1. found' = found /\ pulled' = pulled
    BY <1>2 DEF Next, Extend, Skip, Mismatch
  <2> QED
    BY <1>1, <2>1 DEF LastEnd
<1>3. CASE Report
  <2>1. pulled' = IF Len(word) > 1 THEN pos ELSE pulled
    BY <1>3 DEF Report
  <2>2. CASE Len(word) > 1
    <3>1. found'[Len(found')].at = Here /\ found' # <<>>
      BY <1>3, Reported, FoundType
    <3>2. Here <= pos /\ text[pos] \notin Blank /\ LettersIn(Here, pos) = Len(word)
      BY <1>3, Whole
    <3> QED
      BY <1>1, <2>1, <2>2, <3>1, <3>2 DEF LastEnd
  <2>3. CASE ~(Len(word) > 1)
    BY <1>1, <2>1, <2>3 DEF LastEnd
  <2> QED
    BY <2>2, <2>3
<1> QED
  BY <1>2, <1>3

\* A match ends behind the one before it: it has as many letters, and does not
\* have the first of them.
LEMMA EndsLater ==
  ASSUME TypeOK, Attempt, Printed, LastEnd, Report
  PROVE  pulled <= pos
<1> DEFINE a == found[Len(found)].at
           n == Len(word)
<1>1. /\ n \in Nat /\ pulled \in Nat /\ pos \in Nat /\ Here \in Nat /\ Len(text) \in Nat
      /\ Here <= pos
  BY Whole, Sizes
<1> SUFFICES ASSUME pos < pulled PROVE FALSE
  BY <1>1
<1>2. /\ found # <<>> /\ text[pulled] \notin Blank /\ a <= pulled /\ LettersIn(a, pulled) = n
  BY <1>1 DEF LastEnd
<1>3. Len(found) \in DOMAIN found
  BY <1>2, FoundType DEF TypeOK
<1>4. a \in Nat /\ Occurs(a) /\ a < Here
  BY <1>3, FoundType DEF Printed, FoundOnce
<1>5. LettersIn(a, a) = 1
  BY <1>4, LettersOne DEF Occurs
<1> HIDE DEF a
<1>6. LettersIn(a, pulled) = LettersIn(a, Here - 1) + LettersIn(Here, pulled)
  BY <1>1, <1>4, LettersSplit
<1>7. LettersIn(a, a) <= LettersIn(a, Here - 1)
  BY <1>1, <1>4, LettersGrow
<1>8. LettersIn(Here, pos) <= LettersIn(Here, pulled) /\ LettersIn(Here, pos) = n
  BY <1>1, LettersGrow, Whole
<1>9. LettersIn(Here, pulled) \in Nat
  <2>1. Here \in Int /\ pulled \in Int
    BY <1>1
  <2> QED
    BY <2>1, LettersNat, Zenon
<1>10. LettersIn(a, Here - 1) \in Nat
  <2>1. a \in Int /\ Here - 1 \in Int
    BY <1>1, <1>4
  <2> QED
    BY <2>1, LettersNat, Zenon
<1>11. n = LettersIn(a, Here - 1) + LettersIn(Here, pulled)
  BY <1>2, <1>6
<1>12. n <= LettersIn(Here, pulled) /\ 1 <= LettersIn(a, Here - 1)
  BY <1>5, <1>7, <1>8
<1> HIDE DEF n
<1> QED
  BY <1>1, <1>9, <1>10, <1>11, <1>12

\* The row of a place where a match starts.
LEMMA StartRow ==
  ASSUME TypeOK, Attempt, Printed, LastEnd, Rows, ~Done, Matches
  PROVE  RightRow(Start, Len(found) + 1)
<1>1. CASE wordIndex # 0
  BY <1>1 DEF Start, Rows
<1>2. CASE wordIndex = 0
  <2>1. Start = [row |-> Top, column |-> column, at |-> pos]
    BY <1>2 DEF Start, Place
  <2>2. /\ pos \in 1 .. Len(text) /\ ~IsNewline(pos) /\ Top = row /\ Len(text) \in Nat
        /\ pulled \in 0 .. Len(text)
    BY Current, Sizes
  <2>3. row = 1 + NewlinesBefore(Counted)
    BY DEF Rows
  <2>4. CASE \A j \in pos .. Counted - 1 : ~IsNewline(j)
    <3>1. Counted \in Int /\ pos <= Counted
      BY <2>2 DEF Counted
    <3>2. NewlinesBefore(pos) = NewlinesBefore(Counted)
      BY <2>2, <2>4, <3>1, LinesSame
    <3> QED
      BY <2>1, <2>2, <2>3, <3>2 DEF RightRow
  <2>5. ASSUME NEW j \in pos .. Counted - 1, IsNewline(j)
        PROVE  RightRow(Start, Len(found) + 1)
    <3> DEFINE m == Len(found)
    <3>1. found # <<>> /\ pos < pulled /\ j \in pos .. pulled /\ j # pos
      BY <2>2, <2>5 DEF Counted
    <3>2. /\ text[pulled] \notin Blank /\ LettersIn(found[m].at, pulled) = Len(word)
      BY <2>2, <3>1 DEF LastEnd
    <3>3. j # pulled
      BY <2>5, <3>2 DEF IsNewline, Blank
    <3>4. m \in DOMAIN found /\ m \in 1 .. m + 1 - 1
      BY <3>1, FoundType DEF TypeOK
    <3>5. found[m].at \in Nat /\ found[m].at < pos
      BY <1>2, <3>4, FoundType DEF Printed, Here
    <3>6. LettersIn(found[m].at, j) < LettersIn(found[m].at, pulled)
      <4>1. found[m].at \in Int /\ j \in Int /\ pulled \in Int /\ found[m].at <= j + 1 /\ j < pulled
        BY <2>2, <3>1, <3>3, <3>5
      <4> QED
        BY <3>2, <4>1, LettersBefore
    <3>7. j \in Start.at .. Len(text) /\ LettersIn(found[m].at, j) < Len(word)
      BY <2>1, <2>2, <3>1, <3>2, <3>6
    <3> QED
      BY <2>5, <3>4, <3>7 DEF RightRow
  <2> QED
    BY <2>4, <2>5
<1> QED
  BY <1>1, <1>2

\* What was printed later does not matter to it.
LEMMA RightRowStays ==
  ASSUME text' = text, word' = word, NEW p, NEW k, RightRow(p, k),
         \A m \in 1 .. k - 1 : found'[m] = found[m]
  PROVE  RightRow(p, k)'
BY Rigid DEF RightRow

LEMMA RowsExactIs == RowsExact <=> \A k \in DOMAIN found : RightRow(found[k], k)
BY DEF RowsExact, RightRow

LEMMA RowsKept ==
  ASSUME TypeOK, Attempt, Printed, LastEnd, Rows, Next
  PROVE  Rows'
<1>1. /\ text' = text /\ word' = word /\ ~Done
      /\ \A i : NewlinesBefore(i)' = NewlinesBefore(i)
      /\ \A i : IsNewline(i)' <=> IsNewline(i)
  BY Fixed, Rigid
<1>2. /\ pos \in 1 .. Len(text) /\ Len(text) \in Nat /\ pulled \in 0 .. Len(text) /\ row \in Nat
      /\ Top = (IF IsNewline(pos) /\ found = <<>> THEN row + 1 ELSE row)
      /\ Matches \/ Char \notin Blank => ~IsNewline(pos)
  BY <1>1, Current, Sizes
<1>3. row = 1 + NewlinesBefore(Counted)
  BY DEF Rows
<1>4. NewlinesBefore(pos + 1) = NewlinesBefore(pos) + IF IsNewline(pos) THEN 1 ELSE 0
  BY <1>2, LinesStep
<1>5. NewlinesBefore(pos + 1 + 1) = NewlinesBefore(pos + 1) + IF IsNewline(pos + 1) THEN 1 ELSE 0
  <2>1. pos + 1 \in Nat \ {0}
    BY <1>2
  <2> QED
    BY <2>1, LinesStep
<1>6. NewlinesBefore(pos) \in Nat /\ NewlinesBefore(pos + 1) \in Nat
  <2>1. pos \in Int /\ pos + 1 \in Int
    BY <1>2
  <2> QED
    BY <2>1, LinesType
<1>7. Len(found) \in Nat /\ (found = <<>> <=> Len(found) = 0)
  BY FoundType DEF TypeOK
<1>8. row' = 1 + NewlinesBefore(Counted')
  <2>1. CASE ~Report
    <3>1. found' = found /\ pulled' = pulled
      BY <2>1 DEF Next, Extend, Skip, Mismatch
    <3>2. pos' \in {pos, pos + 1} /\ (pos' = pos => ~IsNewline(pos))
      BY <1>2, <2>1, HereMoves DEF Next, Mismatch
    <3>3. row' = IF Fresh(pos', pulled, Len(found)) THEN Top + 1 ELSE Top
      <4>1. CASE Extend
        BY <4>1 DEF Extend, Read
      <4>2. CASE Skip
        BY <4>2 DEF Skip, Read
      <4>3. CASE Mismatch
        <5>1. pos' = (IF Retry THEN pos - 1 ELSE pos) + 1
          BY <4>3 DEF Mismatch, Read
        <5> QED
          BY <4>3, <5>1 DEF Mismatch, Read
      <4> QED
        BY <2>1, <4>1, <4>2, <4>3 DEF Next
    <3>4. CASE found = <<>>
      BY <1>2, <1>3, <1>4, <1>6, <1>7, <3>1, <3>2, <3>3, <3>4 DEF Counted, Fresh
    <3>5. CASE found # <<>>
      <4>1. pulled # 0 => ~IsNewline(pulled)
        BY <3>5 DEF LastEnd, IsNewline, Blank
      <4>2. Top = row
        BY <1>2, <3>5
      <4>3. CASE pulled <= pos
        <5>0. pulled <= pos'
          BY <1>2, <3>2, <4>3
        <5>1. Counted = pos + 1 /\ Counted' = pos' + 1
          BY <3>1, <3>5, <4>3, <5>0 DEF Counted
        <5>2. Fresh(pos', pulled, Len(found)) <=> IsNewline(pos')
          BY <1>2, <1>7, <3>2, <3>5, <4>3 DEF Fresh
        <5>3. CASE pos' = pos
          BY <1>3, <3>2, <3>3, <4>2, <5>1, <5>2, <5>3
        <5>4. CASE pos' = pos + 1
          BY <1>2, <1>3, <1>5, <1>6, <3>3, <4>2, <5>1, <5>2, <5>4
        <5> QED
          BY <3>2, <5>3, <5>4
      <4>4. CASE pulled > pos
        <5>0. ~(pulled <= pos) /\ (pulled <= pos' => pos' = pulled)
          BY <1>2, <3>2, <4>4
        <5>1. Counted = pulled + 1 /\ Counted' = pulled + 1
          BY <3>1, <3>5, <5>0 DEF Counted
        <5>2. ~Fresh(pos', pulled, Len(found))
          BY <1>2, <3>2, <4>1, <4>4 DEF Fresh
        <5> QED
          BY <1>3, <3>3, <4>2, <5>1, <5>2
      <4> QED
        BY <1>2, <4>3, <4>4
    <3> QED
      BY <3>4, <3>5
  <2>2. CASE Report
    <3>1. /\ pulled' = (IF Len(word) > 1 THEN pos ELSE pulled) /\ Matches
          /\ row' = IF Fresh(pos', pulled', Len(found')) THEN Top + 1 ELSE Top
      <4>1. pos' = pos - PullBack(valid + 1) + 1
        BY <2>2 DEF Report, Read
      <4> QED
        BY <2>2, <4>1 DEF Report, Read
    <3>2. ~IsNewline(pos) /\ Top = row
      BY <1>2, <3>1
    <3>3. found' # <<>> /\ Len(found') # 0
      BY <2>2, Reported, FoundType
    <3>4. pos' = Here + 1 /\ Here \in 1 .. pos /\ pulled <= pos
      BY <2>2, Back, EndsLater
    <3>5. row = 1 + NewlinesBefore(pos + 1)
      BY <1>2, <1>3, <1>4, <1>6, <3>2, <3>4 DEF Counted
    <3>6. CASE Len(word) > 1
      <4>1. pos' <= pos /\ pulled' = pos
        BY <1>2, <2>2, <3>1, <3>4, <3>6, Whole
      <4>2. Counted' = pos + 1
        BY <1>2, <3>3, <3>4, <4>1 DEF Counted
      <4>3. ~Fresh(pos', pulled', Len(found'))
        BY <1>2, <3>2, <3>4, <4>1 DEF Fresh
      <4> QED
        BY <3>1, <3>2, <3>5, <4>2, <4>3
    <3>7. CASE ~(Len(word) > 1)
      <4>1. Len(word) = 1
        BY <3>7, Sizes
      <4>2. pos' = pos + 1 /\ pulled' = 0
        BY <2>2, <3>1, <3>4, <3>7, <4>1, Whole DEF LastEnd
      <4>3. Counted' = pos + 1 + 1
        BY <1>2, <3>3, <4>2 DEF Counted
      <4>4. Fresh(pos', pulled', Len(found')) <=> IsNewline(pos + 1)
        BY <1>2, <3>3, <4>2 DEF Fresh
      <4> QED
        BY <1>5, <1>6, <3>1, <3>2, <3>5, <4>3, <4>4
    <3> QED
      BY <3>6, <3>7
  <2> QED
    BY <2>1, <2>2
<1>9. wordIndex' # 0 => RightRow(first, Len(found) + 1)'
  <2>1. CASE Extend
    <3>1. first' = Start /\ found' = found /\ Matches
      BY <2>1 DEF Extend
    <3>2. RightRow(first', Len(found) + 1)
      BY <1>1, <3>1, StartRow
    <3> QED
      BY <1>1, <3>1, <3>2, Rigid DEF RightRow
  <2>2. CASE Skip
    <3>1. first' = first /\ found' = found /\ wordIndex' = wordIndex
      BY <2>2 DEF Skip
    <3> QED
      BY <1>1, <3>1, Rigid DEF Rows, RightRow
  <2>3. CASE Report \/ Mismatch
    BY <2>3 DEF Report, Mismatch, Forgotten
  <2> QED
    BY <2>1, <2>2, <2>3 DEF Next
<1>10. RowsExact'
  <2>1. CASE ~Report
    <3>1. found' = found
      BY <2>1 DEF Next, Extend, Skip, Mismatch
    <3> QED
      BY <1>1, <3>1, Rigid DEF Rows, RowsExact
  <2>2. CASE Report
    <3> DEFINE n == Len(found) + 1
    <3>1. /\ DOMAIN found' = 1 .. n /\ DOMAIN found = 1 .. n - 1 /\ n \in Nat \ {0}
          /\ \A k \in 1 .. n - 1 : found'[k] = found[k]
          /\ found'[n] = Start
      BY <2>2, Reported, FoundType
    <3>2. RightRow(Start, n)
      BY <1>1, <2>2, StartRow DEF Report
    <3>3. ASSUME NEW k \in 1 .. n PROVE RightRow(found'[k], k)
      <4>1. CASE k = n
        BY <3>1, <3>2, <4>1
      <4>2. CASE k # n
        <5>1. k \in 1 .. n - 1
          BY <3>1, <4>2
        <5> QED
          BY <3>1, <5>1, RowsExactIs DEF Rows
      <4> QED
        BY <4>1, <4>2
    <3>4. ASSUME NEW k \in 1 .. n, NEW p, p = found'[k] PROVE RightRow(p, k)'
      <4>1. RightRow(p, k)
        BY <3>3, <3>4
      <4>2. \A m \in 1 .. k - 1 : found'[m] = found[m]
        BY <3>1
      <4> QED
        BY <1>1, <4>1, <4>2, RightRowStays
    <3> HIDE DEF n
    <3> QED
      BY <3>1, <3>4 DEF RowsExact, RightRow
  <2> QED
    BY <2>1, <2>2
<1> QED
  BY <1>1, <1>8, <1>9, <1>10 DEF Rows
---------------------------------------------------------------------------
(* Columns *)

\* If lines end as CleanLineEnds says, no attempt comes to the end of one: the last
\* letter of the line would be one of its own.
LEMMA NoLineEnd ==
  ASSUME TypeOK, Attempt, CleanLineEnds, wordIndex # 0, ~Done
  PROVE  ~IsNewline(pos)
<1> DEFINE s == first.at
<1> SUFFICES ASSUME IsNewline(pos) PROVE FALSE
  OBVIOUS
<1>1. /\ s \in 1 .. pos - 1 /\ pos \in 1 .. Len(text) /\ Len(text) \in Nat
      /\ DOMAIN text = 1 .. Len(text) /\ wordIndex \in 1 .. Len(word) - 1
      /\ LettersIn(s, pos - 1) = wordIndex /\ Len(word) \in Nat
  <2>1. s \in 1 .. pos - 1 /\ LettersIn(s, pos - 1) = wordIndex
    BY DEF Attempt
  <2> QED
    BY <2>1, Sizes, Current
<1>2. PICK i \in s .. pos - 1 : text[i] = word[wordIndex] /\ LettersIn(s, i) = wordIndex
  <2>1. wordIndex \in 1 .. wordIndex
    BY <1>1
  <2>2. \A k \in 1 .. wordIndex : \E j \in s .. pos - 1 : text[j] = word[k] /\ LettersIn(s, j) = k
    BY DEF Attempt
  <2> QED
    BY <2>1, <2>2
<1>3. text[i] \notin Blank
  BY <1>1, <1>2, Strings DEF TypeOK
<1> HIDE DEF s
<1>4. /\ s \in Int /\ i \in Int /\ pos \in Int /\ s <= i /\ i <= pos /\ s <= pos /\ i < pos
      /\ i <= pos + 1 /\ wordIndex \in Int
  BY <1>1, <1>2
<1>5. LettersIn(s, pos) = LettersIn(s, pos - 1)
  BY <1>1, <1>4, LettersSkip DEF IsNewline, Blank
<1>6. LettersIn(s, pos) = LettersIn(s, i - 1) + LettersIn(i, pos)
  BY <1>4, LettersSplit
<1>7. LettersIn(s, i) = LettersIn(s, i - 1) + 1
  BY <1>3, <1>4, LettersNext
<1>8. LettersIn(i, pos) \in Nat
  BY <1>4, LettersNat, Zenon
<1>9. LettersIn(s, i - 1) \in Nat
  <2>1. i - 1 \in Int
    BY <1>4
  <2> QED
    BY <1>4, <2>1, LettersNat, Zenon
<1>10. LettersIn(i, pos) = 1
  BY <1>1, <1>2, <1>4, <1>5, <1>6, <1>7, <1>8, <1>9
<1>11. i \in DOMAIN text /\ pos \in DOMAIN text
  BY <1>1, <1>4, <1>2
<1> QED
  BY <1>1, <1>2, <1>3, <1>4, <1>10, <1>11 DEF CleanLineEnds

\* The next place is in the same line, unless it is behind its end.
LEMMA SameLine ==
  ASSUME NEW i \in Nat \ {0}, NEW l, StartsBehind(l, i), ~IsNewline(i)
  PROVE  StartsBehind(l, i + 1)
BY DEF StartsBehind

LEMMA StartColumn ==
  ASSUME TypeOK, Attempt, Columns, CleanLineEnds, ~Done, Matches
  PROVE  RightColumn(Start) /\ \A j \in Start.at .. pos : ~IsNewline(j)
<1>1. pos \in 1 .. Len(text) /\ ~IsNewline(pos) /\ Len(text) \in Nat
  BY Current, Sizes
<1>2. CASE wordIndex = 0
  <2>1. Start.at = pos /\ Start.column = column
    BY <1>2 DEF Start, Place
  <2>2. StartsBehind(pos - column, pos)
    BY DEF Columns
  <2>3. \A j \in pos .. pos : j = pos
    BY <1>1
  <2> QED
    BY <1>1, <2>1, <2>2, <2>3 DEF RightColumn
<1>3. CASE wordIndex # 0
  <2>1. Start = first /\ RightColumn(first) /\ \A j \in first.at .. pos - 1 : ~IsNewline(j)
    BY <1>3 DEF Start, Columns
  <2>2. \A j \in first.at .. pos : j = pos \/ j \in first.at .. pos - 1
    BY <1>1, <1>3 DEF Attempt
  <2> QED
    BY <1>1, <2>1, <2>2
<1> QED
  BY <1>2, <1>3

LEMMA ColumnsKept ==
  ASSUME TypeOK, Attempt, Columns, Next
  PROVE  Columns'
<1> SUFFICES ASSUME CleanLineEnds
             PROVE  /\ StartsBehind(pos' - column', pos')
                    /\ wordIndex' # 0 => /\ \A j \in first'.at .. pos' - 1 : ~IsNewline(j)
                                         /\ RightColumn(first')
                    /\ \A k \in DOMAIN found' : RightColumn(found'[k])
  BY Fixed, Rigid DEF Columns, RightColumn
<1>1. /\ ~Done /\ pos \in 1 .. Len(text) /\ Len(text) \in Nat /\ column \in Int
      /\ Here \in 1 .. pos
  BY Fixed, Current, Sizes, HereMoves
<1>2. StartsBehind(pos - column, pos)
  BY DEF Columns
<1>3. ~IsNewline(pos) => StartsBehind(pos - column, pos + 1)
  BY <1>1, <1>2, SameLine
<1>4. CASE Extend
  <2>1. /\ pos' = pos + 1 /\ column' = column + 1 /\ first' = Start /\ found' = found /\ Matches
    BY <1>4 DEF Extend, Read
  <2>2. ~IsNewline(pos)
    BY <1>1, <2>1, Current
  <2>3. pos' - column' = pos - column /\ pos' - 1 = pos
    BY <1>1, <2>1
  <2> QED
    BY <1>1, <1>3, <2>1, <2>2, <2>3, StartColumn DEF Columns
<1>5. CASE Skip
  <2>1. /\ pos' = pos + 1 /\ first' = first /\ found' = found /\ wordIndex' = wordIndex
        /\ column' = (IF Char = Newline /\ wordIndex = 0 THEN 0 ELSE column) + 1
    BY <1>5 DEF Skip, Read
  <2>2. CASE IsNewline(pos)
    <3>1. wordIndex = 0 /\ Char = Newline
      BY <1>1, <2>2, NoLineEnd, Current
    <3>2. pos' - column' = pos
      BY <1>1, <2>1, <3>1
    <3>3. StartsBehind(pos, pos + 1)
      BY <1>1, <2>2 DEF StartsBehind
    <3> QED
      BY <2>1, <3>1, <3>2, <3>3 DEF Columns
  <2>3. CASE ~IsNewline(pos)
    <3>1. Char # Newline
      BY <1>1, <2>3, Current
    <3>2. pos' - column' = pos - column /\ pos' - 1 = pos
      BY <1>1, <2>1, <3>1
    <3>3. wordIndex # 0 => \A j \in first.at .. pos : j = pos \/ j \in first.at .. pos - 1
      BY <1>1 DEF Attempt
    <3> QED
      BY <1>3, <2>1, <2>3, <3>2, <3>3 DEF Columns
  <2> QED
    BY <2>2, <2>3
<1>6. CASE Mismatch
  <2>1. /\ wordIndex' = 0 /\ found' = found
        /\ pos' = (IF Retry THEN pos - 1 ELSE pos) + 1
        /\ column' = (IF Retry THEN ColumnBack ELSE column) + 1
    BY <1>6 DEF Mismatch, Read, Forgotten
  <2>2. ~IsNewline(pos)
    BY <1>1, <1>6, Current DEF Mismatch
  <2>3. CASE Retry
    <3>1. wordIndex # 0
      BY <1>6, <2>3, RetryInside
    <3>2. pos - 1 \in first.at .. pos - 1
      BY <1>1, <3>1 DEF Attempt
    <3>3. ~IsNewline(pos - 1)
      BY <3>1, <3>2 DEF Columns
    <3>4. pos' = pos /\ column' = column
      BY <1>1, <2>1, <2>3, <3>3 DEF ColumnBack
    <3> QED
      BY <1>2, <2>1, <3>4 DEF Columns
  <2>4. CASE ~Retry
    <3>1. pos' = pos + 1 /\ pos' - column' = pos - column
      BY <1>1, <2>1, <2>4
    <3> QED
      BY <1>3, <2>1, <2>2, <3>1 DEF Columns
  <2> QED
    BY <2>3, <2>4
<1>7. CASE Report
  <2>1. /\ pos' = Here + 1 /\ column' = column - valid + 1 /\ wordIndex' = 0 /\ Matches
        /\ Start.at = Here /\ valid = pos - Here
    BY <1>1, <1>7, Back, Longer DEF Report
  <2>2. RightColumn(Start) /\ \A j \in Here .. pos : ~IsNewline(j)
    BY <1>1, <2>1, StartColumn
  <2>3. pos' - column' = pos - column
    BY <1>1, <2>1
  <2>4. StartsBehind(pos - column, Here + 1)
    <3> DEFINE l == pos - column
    <3>1. l \in 0 .. pos - 1 /\ (l = 0 \/ IsNewline(l)) /\ \A j \in l + 1 .. pos - 1 : ~IsNewline(j)
      BY <1>2 DEF StartsBehind
    <3>2. l < Here
      BY <1>1, <2>2, <3>1
    <3>3. \A j \in l + 1 .. (Here + 1) - 1 : j \in l + 1 .. pos - 1 \/ j \in Here .. pos
      BY <1>1, <3>1, <3>2
    <3> HIDE DEF l
    <3>4. l \in 0 .. (Here + 1) - 1
      BY <1>1, <3>1, <3>2
    <3>5. StartsBehind(l, Here + 1)
      BY <2>2, <3>1, <3>3, <3>4 DEF StartsBehind
    <3> QED
      BY <3>5 DEF l
  <2>5. \A k \in DOMAIN found' : RightColumn(found'[k])
    <3>1. /\ DOMAIN found' = 1 .. Len(found) + 1 /\ DOMAIN found = 1 .. Len(found)
          /\ Len(found) \in Nat
          /\ \A k \in DOMAIN found : found'[k] = found[k]
          /\ found'[Len(found) + 1] = Start
      BY <1>7, Reported, FoundType
    <3>2. \A k \in DOMAIN found' : k = Len(found) + 1 \/ k \in DOMAIN found
      BY <3>1
    <3>3. \A k \in DOMAIN found : RightColumn(found[k])
      BY DEF Columns
    <3> QED
      BY <2>2, <3>1, <3>2, <3>3
  <2> QED
    BY <2>1, <2>3, <2>4, <2>5
<1> QED
  BY <1>4, <1>5, <1>6, <1>7 DEF Next
---------------------------------------------------------------------------
(* Theorems *)

LEMMA InitIInv == Init => IInv
<1> SUFFICES ASSUME Init PROVE IInv
  OBVIOUS
<1>1. /\ text \in Text /\ word \in Word /\ pos = 1 /\ row = 1 /\ column = 1
      /\ wordIndex = 0 /\ valid = 0 /\ pulled = 0 /\ found = <<>>
      /\ first = [row |-> 0, column |-> 0, at |-> 0]
  BY DEF Init
<1>2. Len(text) \in Nat /\ Len(word) \in Nat \ {0}
  BY <1>1, Strings
<1>3. Here = 1
  BY <1>1 DEF Here
<1>4. TypeOK
  BY <1>1, <1>2 DEF TypeOK
<1>5. Attempt /\ Printed /\ Complied /\ LastEnd
  BY <1>1, <1>3 DEF Attempt, Printed, FoundOnce, Complied, LastEnd
<1>6. Rows
  <2>1. \A j \in 1 .. 1 - 1 : FALSE
    OBVIOUS
  <2>2. {j \in 1 .. 1 - 1 : IsNewline(j)} = {}
    BY <2>1
  <2>3. NewlinesBefore(1) = 0
    BY <2>2, FS_EmptySet DEF NewlinesBefore
  <2> QED
    BY <1>1, <2>3 DEF Rows, Counted, RowsExact
<1>7. Columns
  <2>1. pos - column = 0
    BY <1>1
  <2>2. StartsBehind(0, 1)
    BY DEF StartsBehind
  <2> QED
    BY <1>1, <2>1, <2>2 DEF Columns
<1> QED
  BY <1>4, <1>5, <1>6, <1>7 DEF IInv

LEMMA NextIInv == IInv /\ Next => IInv'
BY TypeKept, AttemptKept, PrintedKept, CompliedKept, LastEndKept, RowsKept, ColumnsKept DEF IInv

LEMMA StutterIInv == IInv /\ UNCHANGED vars => IInv'
<1> SUFFICES ASSUME IInv, UNCHANGED vars PROVE IInv'
  OBVIOUS
<1>1. /\ text' = text /\ word' = word /\ pos' = pos /\ row' = row /\ column' = column
      /\ wordIndex' = wordIndex /\ first' = first /\ valid' = valid /\ pulled' = pulled
      /\ found' = found
  BY DEF vars
<1>2. Here' = Here /\ Counted' = Counted /\ Starts' = Starts
  BY <1>1 DEF Here, Counted, Starts
<1>3. TypeOK' /\ Attempt' /\ LastEnd'
  <2>1. TypeOK'
    BY <1>1 DEF IInv, TypeOK
  <2>2. \A i, j : LettersIn(i, j)' = LettersIn(i, j)
    BY <1>1, Rigid
  <2>3. Attempt'
    BY <1>1, <2>2 DEF IInv, Attempt
  <2>4. LastEnd'
    BY <1>1, <2>2 DEF IInv, LastEnd
  <2> QED
    BY <2>1, <2>3, <2>4
<1>4. Printed' /\ Complied'
  BY <1>1, <1>2, Rigid DEF IInv, Printed, FoundOnce, Complied
<1>5. Rows'
  BY <1>1, <1>2, Rigid DEF IInv, Rows, RightRow, RowsExact
<1>6. Columns'
  BY <1>1, Rigid DEF IInv, Columns, RightColumn
<1> QED
  BY <1>3, <1>4, <1>5, <1>6 DEF IInv

THEOREM Invariance == Spec => []IInv
<1>1. IInv /\ [Next]_vars => IInv'
  BY NextIInv, StutterIInv
<1> QED
  BY <1>1, InitIInv, PTL DEF Spec

\* The search never leaves the file, and its counters fit together.
THEOREM TypeCorrect == Spec => []TypeOK
<1>1. IInv => TypeOK
  BY DEF IInv
<1> QED
  BY <1>1, Invariance, PTL

\* Each match printed is an occurrence of the word, and none is printed twice.
THEOREM FoundIsOnce == Spec => []FoundOnce
<1>1. IInv => FoundOnce
  BY DEF IInv, Printed
<1> QED
  BY <1>1, Invariance, PTL

\* All occurrences of a plain word are printed.
THEOREM PlainIsComplete == Spec => []PlainComplete
<1>1. IInv => PlainComplete
  BY CompliedPlain DEF IInv
<1> QED
  BY <1>1, Invariance, PTL

LEMMA AllLines == TypeOK /\ LastEnd /\ Rows => LinesExact
<1> SUFFICES ASSUME TypeOK, LastEnd, Rows, Done
             PROVE  row - 1 = NewlinesBefore(Len(text) + 1)
  BY DEF LinesExact
<1> DEFINE n == Len(text) + 1
<1>1. /\ n \in Nat \ {0} /\ pos = n /\ pulled \in 0 .. n - 1 /\ row \in Nat /\ ~IsNewline(n)
  <2>1. Len(text) \in Nat /\ DOMAIN text = 1 .. Len(text)
    BY Sizes
  <2>2. pos \in 1 .. Len(text) + 1 /\ pulled \in 0 .. Len(text) /\ row \in Nat
    BY DEF TypeOK
  <2>3. n \notin DOMAIN text
    BY <2>1
  <2> QED
    BY <2>1, <2>2, <2>3 DEF Done, IsNewline
<1>2. NewlinesBefore(n + 1) = NewlinesBefore(n) + (IF IsNewline(n) THEN 1 ELSE 0)
  BY <1>1, LinesStep
<1>3. NewlinesBefore(n) \in Nat
  <2>1. n \in Int
    BY <1>1
  <2> QED
    BY <2>1, LinesType, Zenon
<1> HIDE DEF n
<1>4. row = 1 + NewlinesBefore(n)
  BY <1>1, <1>2, <1>3 DEF Rows, Counted
<1> QED
  BY <1>1, <1>3, <1>4 DEF n

LEMMA AllColumns == TypeOK /\ Columns => ColumnsExact
<1> SUFFICES ASSUME TypeOK, Columns, CleanLineEnds, NEW k \in DOMAIN found
             PROVE  found[k].column = found[k].at - LineStart(found[k].at)
  BY DEF ColumnsExact
<1>1. found[k].at \in Nat \ {0} /\ found[k].column \in Int
  <2>1. found[k].at \in 1 .. Len(text) /\ found[k].column \in Int
    BY FoundType
  <2>2. Len(text) \in Nat
    BY Sizes
  <2> QED
    BY <2>1, <2>2
<1>2. StartsBehind(found[k].at - found[k].column, found[k].at)
  BY DEF Columns, RightColumn
<1>3. LineStart(found[k].at) = found[k].at - found[k].column
  BY <1>1, <1>2, LineStartIs
<1> QED
  BY <1>1, <1>3

\* The rows and columns printed are those of the matches, with the exceptions that
\* RowsExact and ColumnsExact name, and the number of lines returned is right.
THEOREM PlacesAreExact == Spec => []PlacesExact
<1>1. IInv => PlacesExact
  BY AllLines, AllColumns DEF IInv, Rows, PlacesExact
<1> QED
  BY <1>1, Invariance, PTL

\* Pulling back the file never leads the search back to where it was: the place a
\* match may start at moves on or, while that stays, the place that is read.
THEOREM NeverBack == Spec => Advances
<1>1. IInv /\ [Next]_vars => [Advance]_vars
  BY Onward DEF IInv
<1> QED
  BY <1>1, Invariance, PTL DEF Spec, Advances
=============================================================================
