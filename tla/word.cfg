\* All texts of up to six characters, all words of up to three letters.
SPECIFICATION FairSpec
CONSTANTS
  Letter = {a, b}
  Space = Space
  Newline = Newline
  MaxText = 6
  MaxWord = 3
INVARIANTS FoundOnce PlainComplete PlacesExact
PROPERTIES Ends
\* The function returns.
CHECK_DEADLOCK FALSE
