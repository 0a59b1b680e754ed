SPECIFICATION MCSpec
CONSTANTS
  Node <- MCNode
  Category <- MCCategory
  NumIn <- MCNumIn
  NumOut <- MCNumOut
  MaxEdge = 3
  Length <- MCLength
  Refused <- MCNone
  Filtered <- MCNone
  Copies <- MCCopies
  Meaning <- NoMeaning
  Body <- MCBody
  When <- MCWhen
INVARIANT NothingTwice
