SPECIFICATION MCSpec
CONSTANTS
  Node <- MCNode
  Category <- MCCategory
  NumIn <- MCNumIn
  NumOut <- MCNumOut
  MaxEdge <- MCMaxEdge
  Length <- MCLength
  Refused <- RefusingFanout
  Filtered <- MCFiltered
  Copies <- MCCopies
  Meaning <- NoMeaning
  Threads <- MCThreads
INVARIANT TupleIsFilled
