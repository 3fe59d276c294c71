---------------------------- MODULE WordSearch -----------------------------
(***************************************************************************)
(* findLocationOfSeekingWord: how the grep programs look for a word in a   *)
(* file. The function of HW1 is translated; HW2 to HW5 carry copies of it. *)
(*                                                                         *)
(* The file is read one character at a time. Blanks and line ends inside a *)
(* match are skipped. After a match the search goes on behind its first    *)
(* character; after a mismatch it goes on behind the mismatch, but reads   *)
(* that character again if the word starts with it. Rows and columns are   *)
(* counted on the way, back and forth.                                     *)
(*                                                                         *)
(* Every turn of the loop is a step. The variable flag of the code is set  *)
(* and reset together with wordIndex, so it is wordIndex # 0 here; tempp   *)
(* and tempCharacter only tell whether a mismatch ended a partial match.   *)
(* Words are made of letters: no blank is searched for.                    *)
(***************************************************************************)
EXTENDS Integers, Sequences, FiniteSets

CONSTANTS
  Letter,   \* what words are made of
  Space,    \* a blank or a tab
  Newline,  \* the end of a line
  MaxText,  \* bound: the length of the file
  MaxWord   \* bound: the length of the word

ASSUME SearchAssumption ==
  /\ Space # Newline /\ {Space, Newline} \cap Letter = {}
  /\ MaxText \in Nat /\ MaxWord \in Nat \ {0}

Blank == {Space, Newline}
Word == UNION {[1 .. n -> Letter] : n \in 1 .. MaxWord}
Text == UNION {[1 .. n -> Letter \cup Blank] : n \in 0 .. MaxText}

VARIABLES
  text,       \* the file
  word,       \* the word
  pos,        \* ftell: how many characters were read, the current one included
  row,
  column,
  wordIndex,  \* how much of the word was matched
  first,      \* where the first letter of this match is: wordRow, wordColumn, and its place
  valid,      \* numberOfOtherValidChars: how many characters the match has so far
  pulled,     \* tempPtrPosition: where the file was pulled back from last
  found       \* the matches printed, numberOfSeekingWord of them

vars == <<text, word, pos, row, column, wordIndex, first, valid, pulled, found>>

Init ==
  /\ text \in Text /\ word \in Word
  /\ pos = 1 /\ row = 1 /\ column = 1
  /\ wordIndex = 0 /\ valid = 0 /\ pulled = 0
  /\ first = [row |-> 0, column |-> 0, at |-> 0]
  /\ found = <<>>

Done == pos > Len(text)   \* feof
Char == text[pos]
IsNewline(p) == p \in DOMAIN text /\ text[p] = Newline

\* if(character == '\n' && numberOfSeekingWord == 0) ++row
Top == IF Char = Newline /\ found = <<>> THEN row + 1 ELSE row

\* Mutant: line ends inside a match are counted again after the pull back.
FreshAlways(p, ptr, n) == IsNewline(p) /\ n # 0

\* The other place where rows are counted: a line end that was just read, once
\* something was found, unless it was read before.
Fresh(p, ptr, n) == IsNewline(p) /\ ptr <= p /\ n # 0

\* The next character is read: from is the position in the file now, r and col
\* the row and the column the body of the loop arrived at.
Read(from, r, col, ptr, n) ==
  /\ pos' = from + 1
  /\ row' = IF Fresh(from + 1, ptr, n) THEN r + 1 ELSE r
  /\ column' = col + 1
---------------------------------------------------------------------------
Place == [row |-> Top, column |-> column, at |-> pos]
Start == IF wordIndex = 0 THEN Place ELSE first
Matches == Char = word[wordIndex + 1]

\* The current character goes on with the word, but does not end it.
Extend ==
  /\ ~Done /\ Matches /\ wordIndex + 1 < Len(word)
  /\ wordIndex' = wordIndex + 1 /\ valid' = valid + 1
  /\ first' = Start
  /\ Read(pos, Top, column, pulled, Len(found))
  /\ UNCHANGED <<text, word, pulled, found>>

\* fseek(filePtr, -(numberOfOtherValidChars-1), SEEK_CUR)
PullBack(n) == IF Len(word) > 1 THEN n - 1 ELSE 0

\* The word ends: the match is printed and the file pulled back behind its start.
Report ==
  LET back == PullBack(valid + 1) IN
  /\ ~Done /\ Matches /\ wordIndex + 1 = Len(word)
  /\ wordIndex' = 0 /\ valid' = 0
  /\ first' = Start
  /\ found' = Append(found, Start)
  /\ pulled' = IF Len(word) > 1 THEN pos ELSE pulled
  /\ Read(pos - back, Top, column - back, pulled', Len(found'))
  /\ UNCHANGED <<text, word>>

\* A blank or a line end, inside a match or outside: only outside does a line
\* end reset the column.
Skip ==
  /\ ~Done /\ ~Matches /\ Char \in Blank
  /\ valid' = IF wordIndex = 0 THEN valid ELSE valid + 1
  /\ Read(pos, Top, IF Char = Newline /\ wordIndex = 0 THEN 0 ELSE column, pulled, Len(found))
  /\ UNCHANGED <<text, word, wordIndex, first, pulled, found>>

\* Mutant: what was matched so far is not forgotten.
Kept == wordIndex
\* What is left of a partial match after a mismatch.
Forgotten == 0
\* Mutant: without the lines that the comment on "arabaaraba" is about.
RetryNever == FALSE

\* Mutant: every mismatch is read once more.
RetryAlways == TRUE

\* A letter that does not go on with the word. If the word starts with it, it is
\* read once more.
Retry == Char = word[1]

\* Mutant: the column goes on while the character is read again.
ColumnForward == column

\* The column for a character that is read again.
ColumnBack == IF IsNewline(pos - 1) THEN 0 ELSE column - 1

Mismatch ==
  /\ ~Done /\ ~Matches /\ Char \notin Blank
  /\ wordIndex' = Forgotten /\ valid' = 0
  /\ Read(IF Retry THEN pos - 1 ELSE pos, Top, IF Retry THEN ColumnBack ELSE column,
          pulled, Len(found))
  /\ UNCHANGED <<text, word, first, pulled, found>>

Next == Extend \/ Report \/ Skip \/ Mismatch

Spec == Init /\ [][Next]_vars
FairSpec == Spec /\ WF_vars(Next)
---------------------------------------------------------------------------
(* What the search is for *)

\* How many letters there are from i to j, blanks and line ends left aside.
LettersIn(i, j) == Cardinality({l \in i .. j : text[l] \notin Blank})

\* The word is in the text from i on, blanks and line ends left aside: each letter of
\* it is found where as many letters have come.
Occurs(i) ==
  /\ text[i] \notin Blank
  /\ \A k \in DOMAIN word : \E j \in i .. Len(text) : text[j] = word[k] /\ LettersIn(i, j) = k
Occurrences == {i \in DOMAIN text : Occurs(i)}
Starts == {found[k].at : k \in DOMAIN found}

NewlinesBefore(i) == Cardinality({j \in 1 .. i - 1 : IsNewline(j)})
LineStart(i) == LET ends == {j \in 1 .. i - 1 : IsNewline(j)}
                IN  IF ends = {} THEN 0 ELSE CHOOSE m \in ends : \A j \in ends : j <= m

TypeOK ==
  /\ text \in Text /\ word \in Word
  /\ pos \in 1 .. Len(text) + 1
  /\ row \in Nat /\ column \in Int
  /\ wordIndex \in 0 .. Len(word) - 1
  /\ valid \in 0 .. Len(text) /\ pulled \in 0 .. Len(text)
  /\ first \in [row : Nat, column : Int, at : 0 .. Len(text)]
  /\ found \in Seq([row : Nat, column : Int, at : 1 .. Len(text)])

\* Whatever was pulled back and read again, each match printed is an occurrence of
\* the word, and none is printed twice.
FoundOnce ==
  /\ \A k \in DOMAIN found : Occurs(found[k].at)
  /\ \A k, m \in DOMAIN found : k < m => found[k].at < found[m].at

\* "find all target word repetition in all file content"
Complete == Done => Starts = Occurrences

\* All occurrences are printed if no proper prefix of the word could begin another
\* one: its first letter comes again at most as its last.
PlainWord == \A j \in 2 .. Len(word) - 1 : word[j] # word[1]
PlainComplete == PlainWord => Complete

\* A match is printed with the row it starts in, except behind a match that runs
\* over the end of that row: those line ends were counted while it was read.
RowsExact ==
  \A k \in DOMAIN found :
     found[k].row = 1 + NewlinesBefore(found[k].at)
       \/ \E m \in 1 .. k - 1 : \E j \in found[k].at .. Len(text) :
             IsNewline(j) /\ LettersIn(found[m].at, j) < Len(word)

\* A match is printed with the column it starts in, if each line ends with a letter
\* that does not belong in front of others in the word: no attempt at a match
\* runs over the end of a line.
CleanLineEnds ==
  \A i, j \in DOMAIN text :
    i < j /\ text[i] \notin Blank /\ IsNewline(j) /\ LettersIn(i, j) = 1
      => text[i] \notin {word[k] : k \in 1 .. Len(word) - 1}
ColumnsExact ==
  CleanLineEnds =>
    \A k \in DOMAIN found : found[k].column = found[k].at - LineStart(found[k].at)

\* HW4 and HW5 return row - 1 as the number of lines searched: each line end is
\* counted once, in one of the two places.
LinesExact == Done => row - 1 = NewlinesBefore(Len(text) + 1)

\* What is printed and returned about places is right, with the exceptions above.
PlacesExact == RowsExact /\ ColumnsExact /\ LinesExact

\* Pulling back the file never makes the search go round in circles.
Ends == <>Done
=============================================================================
