CONSTANTS
  Capacity = 9
  TileCounts = {0, 1, 2}
  MaxP = 2
SPECIFICATION FairSpec
INVARIANTS
  TypeOK
  WholeFrames
  NothingLeft
PROPERTY
  Recovers
