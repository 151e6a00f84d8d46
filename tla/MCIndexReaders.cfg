SPECIFICATION ReadersSpec
CONSTANTS
  MaxEntries = 6
  MaxRecords = 5
  MaxPos = 5
  ByteBase <- MCByteBase
  FilePositions <- MCPositions
  FileRecords = 3
  Files <- MCFiles
  Words <- MCWords
  RowLimit = 1
INVARIANTS
  ReturnsRank FindsParagraph LoadsOneMore HitsAreTheOccurrences
PROPERTIES ImplementsBoundary EveryCallEnds
CHECK_DEADLOCK FALSE
