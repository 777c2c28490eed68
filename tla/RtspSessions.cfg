CONSTANTS
  NumChans = 2
  MaxConns = 2
  Cams = {"a"}
  Layouts = {1, 2}
  FirstLayout = 2
  Replies = {"200"}
  MaxPkgs = 2
SPECIFICATION Spec
CHECK_DEADLOCK FALSE
INVARIANTS
  TypeOK
  PoolApart
  Watched
PROPERTY
  RightSocket
