SPECIFICATION Spec
CONSTANTS
  Texts <- MCTexts
  Words <- MCWords
  RowLimit <- MCRowLimit
INVARIANT ParagraphAssertHolds
CHECK_DEADLOCK FALSE
