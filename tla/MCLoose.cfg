SPECIFICATION MCSpec
CONSTANTS
  Node <- MCNode
  Category <- MCCategory
  NumIn <- MCNumIn
  NumOut <- MCNumOut
  MaxEdge <- MCMaxEdge
  Length <- MCLength
  Refused <- NoneRefused
  Filtered <- MCFiltered
  Copies <- MCCopies
  Meaning <- MCMeaning
INVARIANTS TypeOK Quiescent ThrowsUnplugged InStep Delivered
PROPERTY Termination
