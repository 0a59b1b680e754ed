SPECIFICATION AppSpec
CONSTANTS
  Node <- MCNode
  Category <- MCCategory
  NumIn <- MCNumIn
  NumOut <- MCNumOut
  MaxEdge <- MCMaxEdge
  Length <- MCLength
  Refused <- MCRefused
  Filtered <- MCFiltered
  Copies <- MCCopies
  Meaning <- NoMeaning
  Configs <- MCConfigs
  InType <- MCInType
  OutType <- MCOutType
INVARIANTS AppTypeOK Runnable SortsTheAcyclic
