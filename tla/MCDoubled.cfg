SPECIFICATION AppSpec
CONSTANTS
  Node <- MCNode
  Category <- MCCategory
  NumIn <- MCNumIn
  NumOut <- MCNumOut
  MaxEdge <- MCMaxEdge
  Length <- MCLength
  Refused <- MCRefused
  Filtered <- MCFiltered
  Copies <- MCCopies
  Meaning <- NoMeaning
  Configs <- DoubledConfigs
  InType <- MCInType
  OutType <- MCOutType
INVARIANT ExclusivePlug
