SPECIFICATION AppSpec
CONSTANTS
  Node <- MCNode
  Category <- MCCategory
  NumIn <- MCNumIn
  NumOut <- MCNumOut
  MaxEdge <- MCMaxEdge
  Length <- MCLength
  Refused <- MCRefused
  Filtered <- MCFiltered
  Copies <- MCCopies
  Meaning <- MCMeaning
  Configs <- MCConfigs
  InType <- MCInType
  OutType <- MCOutType
INVARIANTS Topological Quiescent OneSlot AppDelivered LowMemory
PROPERTIES ImplementsFlow AppTermination
