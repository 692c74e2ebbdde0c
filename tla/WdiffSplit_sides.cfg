SPECIFICATION Spec
CONSTANTS
  Base = 2
  MaxLines = 2
  MaxColumns = 4
  Corpus <- SmallDiffs
INVARIANT ComparesTheSides
