SPECIFICATION Spec
CONSTANTS
  Texts <- MCTexts
  Words <- MCWords
  RowLimit <- MCRowLimit
INVARIANTS
  RowsAreHits CountsOccurrences SelectsLine
CHECK_DEADLOCK FALSE
