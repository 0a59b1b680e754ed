SPECIFICATION MCSpec
CONSTANTS
  Node <- MCNode
  Category <- MCCategory
  NumIn <- MCNumIn
  NumOut <- MCNumOut
  MaxEdge <- MCMaxEdge
  Length <- MCLength
  Refused <- RefusingAny
  Filtered <- MCFiltered
  Copies <- MCCopies
  Meaning <- MCMeaning
  Threads <- MCThreads
INVARIANTS InStep NoGap
PROPERTY Returns
