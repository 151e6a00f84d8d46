SPECIFICATION IndexerSpec
CONSTANTS
  Files <- MCFiles
  LaterWords <- MCLaterWords
INVARIANTS FirstOfClassKept WrittenInOrder OrderServesSearch
CHECK_DEADLOCK FALSE
