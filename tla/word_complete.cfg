\* Is every occurrence found?
SPECIFICATION Spec
CONSTANTS
  Letter = {a, b}
  Space = Space
  Newline = Newline
  MaxText = 5
  MaxWord = 3
INVARIANTS Complete
\* The function returns.
CHECK_DEADLOCK FALSE
