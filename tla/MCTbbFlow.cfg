SPECIFICATION MCSpec
CONSTANTS
  Node <- MCNode
  Category <- MCCategory
  NumIn <- MCNumIn
  NumOut <- MCNumOut
  MaxEdge <- MCMaxEdge
  Length <- MCLength
  Refused <- MCRefused
  Filtered <- MCFiltered
  Copies <- MCCopies
  Meaning <- MCMeaning
  Threads <- MCThreads
INVARIANTS TypeOK Delivered
PROPERTIES ImplementsFlow Completes
