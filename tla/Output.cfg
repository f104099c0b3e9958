SPECIFICATION OutputFairSpec
CONSTANTS
  PipeSize = 3
  MaxWrites = 7
INVARIANTS
  OutputTypeOK
  OutputInOrder
  ReadLinesPrinted
PROPERTIES
  NeverBlockedForGood
  ReaderEnds
