CONSTANTS
  Capacity = 14
  PkgLen = 4
  Chunk = 6
  ReadLen = 6
  SockRoom = 8
  Ids = 12
SPECIFICATION FairSpec
CHECK_DEADLOCK FALSE
INVARIANTS
  TypeOK
  PkgFits
  WholePackages
PROPERTY
  LinkMoves
