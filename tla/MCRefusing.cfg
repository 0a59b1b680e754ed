SPECIFICATION AppSpec
CONSTANTS
  Node <- MCNode
  Category <- MCCategory
  NumIn <- MCNumIn
  NumOut <- MCNumOut
  MaxEdge <- MCMaxEdge
  Length <- MCLength
  Refused <- RefusedCopies
  Filtered <- MCFiltered
  Copies <- MCCopies
  Meaning <- NoMeaning
  Configs <- RefusingConfigs
  InType <- MCInType
  OutType <- MCOutType
INVARIANT Quiescent
