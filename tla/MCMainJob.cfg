SPECIFICATION MCSpec
CONSTANTS
  n1 = n1
  n2 = n2
  n3 = n3
  n4 = n4
  Sink = Sink
  WireCell = WireCell
  EOS = EOS
  NoMeta = NoMeta
  Whole = Whole
  NoZip = NoZip
  ZipFile = {5, 7, 8, Whole}
  Node = {n1, n2, n3, n4}
  Emits = {n2, n3}
  UseConfigRSE = {n1, n3}
  Body <- MCBody
  Stream <- MCStream
  Mode <- MCMode
  RunOf <- MCRunOf
  FirstRSE <- MCFirstRSE
  Upstream <- MCUpstream
INVARIANTS JobTypeOK AtItsIndex UniqueNames FileIsThere Complete
PROPERTIES JobEnds
